--------------------------- MODULE CommandQueueProofs ---------------------------
(***************************************************************************)
(* Theorems about CommandQueue, for any set of commands, any times they    *)
(* are due at, and any number of crashes and failing system calls.         *)
(***************************************************************************)
EXTENDS CommandQueue, TLAPS, FiniteSetTheorems, SequenceTheorems

-----------------------------------------------------------------------------
(* Lists of which some elements are kept, in some order. *)

\* before orders the places in K.
Orders(before, K) ==
  /\ \A i \in K : <<i, i>> \notin before
  /\ \A i, j \in K : i # j => <<i, j>> \in before \/ <<j, i>> \in before
  /\ \A i, j, k \in K : <<i, j>> \in before /\ <<j, k>> \in before => <<i, k>> \in before

\* p takes each place of the list new to the place of K it was made from.
Rearranges(p, new, list, K) ==
  /\ p \in [1 .. Len(new) -> K]
  /\ \A m, n \in 1 .. Len(new) : m # n => p[m] # p[n]
  /\ \A i \in K : \E n \in 1 .. Len(new) : p[n] = i
  /\ \A n \in 1 .. Len(new) : new[n] = list[p[n]]

\* Arranged lists the elements at the places in K, each once, in the order given.
LEMMA ArrangedRearranges ==
  ASSUME NEW T, NEW list \in Seq(T), NEW K, K \subseteq 1 .. Len(list),
         NEW before, Orders(before, K)
  PROVE  LET new == Arranged(list, K, before)
         IN  /\ new \in Seq(T)
             /\ \E p : /\ Rearranges(p, new, list, K)
                       /\ \A m, n \in 1 .. Len(new) : m < n => <<p[m], p[n]>> \in before
<1> DEFINE Before(i) == { j \in K : <<j, i>> \in before }
           Place(i) == 1 + Cardinality(Before(i))
           place == [i \in K |-> Place(i)]
           C == Cardinality(K)
           p == [n \in 1 .. C |-> CHOOSE i \in K : Place(i) = n]
           new == Arranged(list, K, before)
<1>1. IsFiniteSet(K) /\ C \in Nat
  <2>1. IsFiniteSet(1 .. Len(list)) BY LenProperties, FS_Interval
  <2> QED BY <2>1, FS_Subset, FS_CardinalityType
<1>2. ASSUME NEW i \in K PROVE IsFiniteSet(Before(i)) /\ Cardinality(Before(i)) \in Nat
  <2>1. Before(i) \in SUBSET K OBVIOUS
  <2> QED BY <1>1, <2>1, FS_Subset, FS_CardinalityType
<1>3. ASSUME NEW i \in K PROVE Place(i) \in 1 .. C
  <2>1. Before(i) \in SUBSET K /\ Before(i) # K BY DEF Orders
  <2>2. Cardinality(Before(i)) <= C /\ Cardinality(Before(i)) # C
    BY <1>1, <2>1, FS_Subset
  <2>3. C \in Nat /\ Cardinality(Before(i)) \in Nat BY <1>1, <1>2
  <2> HIDE DEF Before, C
  <2> QED BY <2>2, <2>3
<1>4. ASSUME NEW i \in K, NEW j \in K, <<i, j>> \in before PROVE Place(i) < Place(j)
  <2>1. Before(i) \in SUBSET Before(j) BY <1>4 DEF Orders
  <2>2. Before(i) # Before(j) BY <1>4 DEF Orders
  <2>3. Cardinality(Before(i)) <= Cardinality(Before(j)) /\ Cardinality(Before(i)) # Cardinality(Before(j))
    BY <1>2, <2>1, <2>2, FS_Subset
  <2>4. Cardinality(Before(i)) \in Nat /\ Cardinality(Before(j)) \in Nat BY <1>2
  <2> HIDE DEF Before
  <2> QED BY <2>3, <2>4
<1>5. \A i, j \in K : i # j => Place(i) # Place(j)
  <2> SUFFICES ASSUME NEW i \in K, NEW j \in K, i # j PROVE Place(i) # Place(j)
    OBVIOUS
  <2>1. Place(i) \in Nat /\ Place(j) \in Nat BY <1>1, <1>3
  <2>2. Place(i) < Place(j) \/ Place(j) < Place(i) BY <1>4 DEF Orders
  <2> QED BY <2>1, <2>2
<1> HIDE DEF Before, Place
<1>6. \A n \in 1 .. C : \E i \in K : Place(i) = n
  <2>1. place \in Injection(K, 1 .. C)
    BY <1>3, <1>5 DEF Injection, IsInjective
  <2>2. IsFiniteSet(1 .. C) /\ Cardinality(1 .. C) = C
    BY <1>1, FS_Interval
  <2>3. place \in Surjection(K, 1 .. C)
    BY <2>1, <2>2, FS_Injection
  <2> QED BY <2>3 DEF Surjection
<1>7. /\ p \in [1 .. C -> K]
      /\ \A n \in 1 .. C : Place(p[n]) = n
  BY <1>6
<1>8. new = [n \in 1 .. C |-> list[CHOOSE i \in K : Place(i) = n]]
  BY DEF Arranged, Place, Before
<1>9. new = [n \in 1 .. C |-> list[p[n]]]
  BY <1>8
<1> HIDE DEF p, C, new
<1>10. \A n \in 1 .. C : list[p[n]] \in T
  BY <1>7, ElementOfSeq
<1>11. new \in Seq(T) /\ Len(new) = C
  BY <1>1, <1>9, <1>10
<1>12. \A i \in K : \E n \in 1 .. C : p[n] = i
  <2> SUFFICES ASSUME NEW i \in K PROVE \E n \in 1 .. C : p[n] = i
    OBVIOUS
  <2>1. Place(i) \in 1 .. C BY <1>3
  <2>2. p[Place(i)] \in K /\ Place(p[Place(i)]) = Place(i) BY <1>7, <2>1
  <2>3. p[Place(i)] = i BY <1>5, <2>2
  <2> QED BY <2>1, <2>3
<1>13. \A m, n \in 1 .. C : m < n => <<p[m], p[n]>> \in before
  <2> SUFFICES ASSUME NEW m \in 1 .. C, NEW n \in 1 .. C, m < n
               PROVE  <<p[m], p[n]>> \in before
    OBVIOUS
  <2>1. p[m] \in K /\ p[n] \in K /\ Place(p[m]) = m /\ Place(p[n]) = n BY <1>7
  <2>2. m # n /\ ~(n < m) BY <1>1
  <2>3. p[m] # p[n] BY <2>1, <2>2
  <2>4. <<p[n], p[m]>> \notin before BY <1>4, <2>1, <2>2
  <2> QED BY <2>1, <2>3, <2>4 DEF Orders
<1>14. \A m, n \in 1 .. C : m # n => p[m] # p[n]
  BY <1>7
<1>15. Rearranges(p, new, list, K)
  BY <1>7, <1>9, <1>11, <1>12, <1>14 DEF Rearranges
<1> QED BY <1>11, <1>13, <1>15 DEF new

\* The fields of an entry.
LEMMA EntryFields ==
  ASSUME NEW list \in Seq(Entry), NEW i \in 1 .. Len(list)
  PROVE  /\ list[i] \in Entry /\ list[i].cmd \in Commands /\ list[i].actual \in BOOLEAN
         /\ list[i].here \in BOOLEAN
         /\ Due[list[i].cmd] \in 0 .. MaxTime /\ Due[list[i].cmd] \in Nat
<1>1. list[i] \in Entry
  BY ElementOfSeq
<1> QED BY <1>1, CommandAssumption DEF Entry

\* Sorting keeps each entry, and puts them in the order they are due in.
LEMMA SortedSorts ==
  ASSUME NEW list \in Seq(Entry)
  PROVE  /\ Sorted(list) \in Seq(Entry)
         /\ \E p : Rearranges(p, Sorted(list), list, 1 .. Len(list))
         /\ \A m, n \in 1 .. Len(Sorted(list)) :
              m < n => Due[Sorted(list)[m].cmd] <= Due[Sorted(list)[n].cmd]
<1> DEFINE K == 1 .. Len(list)
           before == { q \in K \X K : Earlier(list, q[1], q[2]) }
           new == Arranged(list, K, before)
<1>1. Sorted(list) = new
  BY LenProperties DEF Sorted
<1>2. \A i \in K : Due[list[i].cmd] \in Nat /\ i \in Nat
  BY EntryFields, LenProperties
<1>3. \A i, j \in K : <<i, j>> \in before <=> Earlier(list, i, j)
  OBVIOUS
<1>4. Orders(before, K)
  <2> HIDE DEF before, K
  <2> QED BY <1>2, <1>3 DEF Orders, Earlier
<1> HIDE DEF before, new
<1>5. new \in Seq(Entry) /\ \E p : /\ Rearranges(p, new, list, K)
                                  /\ \A m, n \in 1 .. Len(new) : m < n => <<p[m], p[n]>> \in before
  <2>1. K \subseteq 1 .. Len(list) OBVIOUS
  <2> HIDE DEF K
  <2> QED BY <1>4, <2>1, ArrangedRearranges DEF new
<1>6. PICK p : /\ Rearranges(p, new, list, K)
               /\ \A m, n \in 1 .. Len(new) : m < n => <<p[m], p[n]>> \in before
  BY <1>5
<1>7. ASSUME NEW m \in 1 .. Len(new), NEW n \in 1 .. Len(new), m < n
      PROVE  Due[new[m].cmd] <= Due[new[n].cmd]
  <2>1. p[m] \in K /\ p[n] \in K /\ new[m] = list[p[m]] /\ new[n] = list[p[n]]
    BY <1>6 DEF Rearranges
  <2>2. Earlier(list, p[m], p[n])
    BY <1>3, <1>6, <1>7, <2>1
  <2> QED BY <1>2, <2>1, <2>2 DEF Earlier
<1> QED BY <1>1, <1>5, <1>6, <1>7

\* Deleting keeps each of the other entries.
\* The places of the entries that Without leaves.
Left(list, c, actual) == { i \in 1 .. Len(list) : list[i].cmd # c \/ list[i].actual # actual }

LEMMA WithoutKeeps ==
  ASSUME NEW list \in Seq(Entry), NEW c, NEW actual
  PROVE  LET new == Without(list, c, actual)
         IN  /\ new \in Seq(Entry)
             /\ \E p : /\ Rearranges(p, new, list, Left(list, c, actual))
                       /\ \A m, n \in 1 .. Len(new) : m < n => p[m] < p[n]
<1> DEFINE K == { i \in 1 .. Len(list) : list[i].cmd # c \/ list[i].actual # actual }
           before == { q \in K \X K : q[1] < q[2] }
<1>1. Without(list, c, actual) = Arranged(list, K, before)
  BY LenProperties DEF Without
<1>2. K \subseteq 1 .. Len(list) /\ \A i \in K : i \in Nat
  BY LenProperties
<1>3. \A i, j \in K : <<i, j>> \in before <=> i < j
  OBVIOUS
<1>4. Orders(before, K)
  <2> HIDE DEF before, K
  <2> QED BY <1>2, <1>3 DEF Orders
<1> DEFINE new == Arranged(list, K, before)
<1> HIDE DEF before, K
<1>5. new \in Seq(Entry) /\ \E p : /\ Rearranges(p, new, list, K)
                                  /\ \A m, n \in 1 .. Len(new) : m < n => <<p[m], p[n]>> \in before
  BY <1>2, <1>4, ArrangedRearranges
<1>6. PICK p : /\ Rearranges(p, new, list, K)
               /\ \A m, n \in 1 .. Len(new) : m < n => <<p[m], p[n]>> \in before
  BY <1>5
<1> HIDE DEF new
<1>7. \A m, n \in 1 .. Len(new) : m < n => p[m] < p[n]
  <2>1. \A n \in 1 .. Len(new) : p[n] \in K BY <1>6 DEF Rearranges
  <2> QED BY <1>3, <1>6, <2>1
<1>8. new \in Seq(Entry) /\ \E q : /\ Rearranges(q, new, list, K)
                                  /\ \A m, n \in 1 .. Len(new) : m < n => q[m] < q[n]
  BY <1>5, <1>6, <1>7
<1>9. Without(list, c, actual) = new /\ Left(list, c, actual) = K
  BY <1>1 DEF new, K, Left
<1> QED BY <1>8, <1>9

-----------------------------------------------------------------------------
(* Where the iterator of run_commands or save_commands is. *)

NoneHere(list) == \A j \in 1 .. Len(list) : ~list[j].here
HereAt(list, i) == i \in 1 .. Len(list) /\ \A j \in 1 .. Len(list) : list[j].here <=> j = i
OneHere(list) == \E i \in 1 .. Len(list) : HereAt(list, i)

\* The places of the entries for c that the walk has still to come to.
Ahead(list, c) == { j \in 1 .. Len(list) : list[j].cmd = c /\ \E i \in 1 .. j : list[i].here }

LEMMA MarkIs ==
  ASSUME NEW list \in Seq(Entry), NEW i \in Int
  PROVE  /\ Mark(list, i) \in Seq(Entry) /\ Len(Mark(list, i)) = Len(list)
         /\ \A j \in 1 .. Len(list) :
              /\ Mark(list, i)[j].cmd = list[j].cmd
              /\ Mark(list, i)[j].actual = list[j].actual
              /\ Mark(list, i)[j].ran = list[j].ran
              /\ Mark(list, i)[j].here <=> j = i
<1>1. Len(list) \in Nat /\ DOMAIN list = 1 .. Len(list) /\ \A j \in 1 .. Len(list) : list[j] \in Entry
  BY LenProperties, ElementOfSeq
<1>2. Mark(list, i) = [j \in 1 .. Len(list) |-> [list[j] EXCEPT !.here = (j = i)]]
  BY <1>1 DEF Mark
<1>3. \A j \in 1 .. Len(list) : [list[j] EXCEPT !.here = (j = i)] \in Entry
  BY <1>1 DEF Entry
<1>4. Mark(list, i) \in Seq(Entry) /\ Len(Mark(list, i)) = Len(list)
  BY <1>1, <1>2, <1>3
<1>5. ASSUME NEW j \in 1 .. Len(list)
      PROVE  /\ Mark(list, i)[j].cmd = list[j].cmd
             /\ Mark(list, i)[j].actual = list[j].actual
             /\ Mark(list, i)[j].ran = list[j].ran
             /\ Mark(list, i)[j].here <=> j = i
  <2>1. Mark(list, i)[j] = [list[j] EXCEPT !.here = (j = i)] BY <1>2
  <2>2. list[j] \in Entry BY <1>1
  <2> QED BY <2>1, <2>2 DEF Entry
<1> QED BY <1>4, <1>5

LEMMA MarkHere ==
  ASSUME NEW list \in Seq(Entry), NEW i \in Int
  PROVE  /\ i \in 1 .. Len(list) => HereAt(Mark(list, i), i)
         /\ i \notin 1 .. Len(list) => NoneHere(Mark(list, i))
BY MarkIs DEF HereAt, NoneHere

\* The type invariant counts the entries the iterator is at.
LEMMA HereCounted ==
  ASSUME NEW list \in Seq(Entry)
  PROVE  LET H == { i \in DOMAIN list : list[i].here }
         IN  /\ NoneHere(list) => Cardinality(H) = 0
             /\ OneHere(list) => Cardinality(H) = 1
<1> DEFINE H == { i \in DOMAIN list : list[i].here }
<1>1. DOMAIN list = 1 .. Len(list)
  BY LenProperties
<1>2. ASSUME NoneHere(list) PROVE Cardinality(H) = 0
  <2>1. H = {} BY <1>1, <1>2 DEF NoneHere
  <2> QED BY <2>1, FS_EmptySet
<1>3. ASSUME OneHere(list) PROVE Cardinality(H) = 1
  <2>1. PICK i \in 1 .. Len(list) : HereAt(list, i) BY <1>3 DEF OneHere
  <2>2. H = {i} BY <1>1, <2>1 DEF HereAt
  <2> QED BY <2>2, FS_Singleton
<1> QED BY <1>2, <1>3

\* Rearranging a list takes the iterator along, unless its entry is dropped.
LEMMA RearrangedHere ==
  ASSUME NEW p, NEW new, NEW list, NEW K, K \subseteq 1 .. Len(list), Rearranges(p, new, list, K)
  PROVE  /\ NoneHere(list) => NoneHere(new)
         /\ OneHere(list) /\ (\A i \in 1 .. Len(list) : list[i].here => i \in K) => OneHere(new)
         /\ OneHere(list) /\ (\E i \in 1 .. Len(list) : list[i].here /\ i \notin K) => NoneHere(new)
<1>1. /\ \A n \in 1 .. Len(new) : p[n] \in K /\ p[n] \in 1 .. Len(list) /\ new[n] = list[p[n]]
      /\ \A m, n \in 1 .. Len(new) : m # n => p[m] # p[n]
      /\ \A i \in K : \E n \in 1 .. Len(new) : p[n] = i
  BY DEF Rearranges
<1>2. NoneHere(list) => NoneHere(new)
  BY <1>1 DEF NoneHere
<1>3. ASSUME NEW i \in 1 .. Len(list), HereAt(list, i), i \in K PROVE OneHere(new)
  <2>1. PICK n \in 1 .. Len(new) : p[n] = i BY <1>1, <1>3
  <2>2. \A m \in 1 .. Len(new) : new[m].here <=> m = n
    BY <1>1, <1>3, <2>1 DEF HereAt
  <2> QED BY <2>2 DEF OneHere, HereAt
<1>4. ASSUME NEW i \in 1 .. Len(list), HereAt(list, i), i \notin K PROVE NoneHere(new)
  BY <1>1, <1>4 DEF HereAt, NoneHere
<1> QED BY <1>2, <1>3, <1>4 DEF OneHere, HereAt

-----------------------------------------------------------------------------
(* What a list holds. *)

In(list, c) == \E i \in 1 .. Len(list) : list[i].cmd = c

LEMMA InQueueIs ==
  ASSUME commands \in Seq(Entry), NEW c
  PROVE  c \in InQueue <=> In(commands, c)
<1>1. DOMAIN commands = 1 .. Len(commands)
  BY LenProperties
<1> QED BY <1>1 DEF InQueue, In

LEMMA RearrangedIn ==
  ASSUME NEW p, NEW new, NEW list, NEW K, K \subseteq 1 .. Len(list), Rearranges(p, new, list, K),
         NEW c
  PROVE  In(new, c) <=> \E i \in K : list[i].cmd = c
<1>1. /\ \A n \in 1 .. Len(new) : p[n] \in K /\ new[n] = list[p[n]]
      /\ \A i \in K : \E n \in 1 .. Len(new) : p[n] = i
  BY DEF Rearranges
<1>2. ASSUME In(new, c) PROVE \E i \in K : list[i].cmd = c
  <2>1. PICK n \in 1 .. Len(new) : new[n].cmd = c BY <1>2 DEF In
  <2>2. p[n] \in K /\ list[p[n]].cmd = c BY <1>1, <2>1
  <2> QED BY <2>2
<1>3. ASSUME NEW i \in K, list[i].cmd = c PROVE In(new, c)
  <2>1. PICK n \in 1 .. Len(new) : p[n] = i BY <1>1
  <2>2. new[n].cmd = c BY <1>1, <1>3, <2>1
  <2> QED BY <2>2 DEF In
<1> QED BY <1>2, <1>3

SavedEntry == [cmd : Commands, actual : BOOLEAN]

LEMMA TextIs ==
  ASSUME NEW list \in Seq(Entry)
  PROVE  /\ Text(list) \in Seq(SavedEntry) /\ Len(Text(list)) = Len(list)
         /\ DOMAIN Text(list) = 1 .. Len(list)
         /\ \A i \in 1 .. Len(list) : Text(list)[i] = [cmd |-> list[i].cmd, actual |-> list[i].actual]
         /\ \A c : In(Text(list), c) <=> In(list, c)
<1>1. Len(list) \in Nat /\ DOMAIN list = 1 .. Len(list)
  BY LenProperties
<1>2. \A i \in 1 .. Len(list) : [cmd |-> list[i].cmd, actual |-> list[i].actual] \in SavedEntry
  BY EntryFields DEF SavedEntry
<1>3. Text(list) = [i \in 1 .. Len(list) |-> [cmd |-> list[i].cmd, actual |-> list[i].actual]]
  BY <1>1 DEF Text, Line
<1>4. /\ Text(list) \in Seq(SavedEntry) /\ Len(Text(list)) = Len(list)
      /\ DOMAIN Text(list) = 1 .. Len(list)
      /\ \A i \in 1 .. Len(list) : Text(list)[i] = [cmd |-> list[i].cmd, actual |-> list[i].actual]
  BY <1>1, <1>2, <1>3
<1>5. \A c : In(Text(list), c) <=> In(list, c)
  BY <1>4 DEF In
<1> QED BY <1>4, <1>5

\* Marking an entry changes nothing that is saved.
LEMMA MarkText ==
  ASSUME NEW list \in Seq(Entry), NEW i \in Int
  PROVE  /\ Text(Mark(list, i)) = Text(list)
         /\ \A c : In(Mark(list, i), c) <=> In(list, c)
<1>1. /\ Mark(list, i) \in Seq(Entry) /\ Len(Mark(list, i)) = Len(list) /\ Len(list) \in Nat
      /\ \A j \in 1 .. Len(list) : /\ Mark(list, i)[j].cmd = list[j].cmd
                                  /\ Mark(list, i)[j].actual = list[j].actual
  BY MarkIs, LenProperties
<1>2. Text(Mark(list, i)) = Text(list)
  <2>1. DOMAIN Mark(list, i) = 1 .. Len(list) /\ DOMAIN list = 1 .. Len(list)
    BY <1>1, LenProperties
  <2> QED BY <1>1, <2>1 DEF Text, Line
<1> QED BY <1>1, <1>2 DEF In

\* Sorting does not change how often each entry is there.
LEMMA SortedBag ==
  ASSUME NEW list \in Seq(Entry)
  PROVE  Bag(Text(Sorted(list))) = Bag(Text(list))
<1> DEFINE new == Sorted(list)
           s == Text(list)
           t == Text(new)
           At(u, v) == { i \in DOMAIN u : u[i] = v }
<1>1. PICK p : Rearranges(p, new, list, 1 .. Len(list))
  BY SortedSorts
<1>2. new \in Seq(Entry)
  BY SortedSorts
<1>3. /\ DOMAIN s = 1 .. Len(list) /\ DOMAIN t = 1 .. Len(new)
      /\ Len(list) \in Nat /\ Len(new) \in Nat
      /\ \A i \in 1 .. Len(list) : s[i] = [cmd |-> list[i].cmd, actual |-> list[i].actual]
      /\ \A i \in 1 .. Len(new) : t[i] = [cmd |-> new[i].cmd, actual |-> new[i].actual]
  BY <1>2, TextIs, LenProperties
<1>4. /\ p \in [DOMAIN t -> DOMAIN s]
      /\ \A n \in DOMAIN t : p[n] \in DOMAIN s /\ t[n] = s[p[n]]
      /\ \A m, n \in DOMAIN t : m # n => p[m] # p[n]
      /\ \A i \in DOMAIN s : \E n \in DOMAIN t : p[n] = i
  BY <1>1, <1>3 DEF Rearranges
<1>5. IsFiniteSet(DOMAIN t)
  BY <1>3, FS_Interval
<1> HIDE DEF s, t
<1>6. Range(t) = Range(s)
  BY <1>4 DEF Range
<1>7. ASSUME NEW v PROVE Cardinality(At(t, v)) = Cardinality(At(s, v))
  <2> DEFINE q == [n \in At(t, v) |-> p[n]]
  <2>1. q \in [At(t, v) -> At(s, v)] BY <1>4
  <2>2. q \in Injection(At(t, v), At(s, v))
    BY <1>4, <2>1 DEF Injection, IsInjective
  <2>3. q \in Surjection(At(t, v), At(s, v))
    BY <1>4, <2>1 DEF Surjection
  <2>4. ExistsBijection(At(t, v), At(s, v))
    BY <2>2, <2>3 DEF ExistsBijection, Bijection
  <2>5. At(t, v) \in SUBSET DOMAIN t OBVIOUS
  <2>6. IsFiniteSet(At(t, v)) BY <1>5, <2>5, FS_Subset
  <2> QED BY <2>4, <2>6, FS_Bijection
<1>8. Bag(t) = Bag(s)
  BY <1>6, <1>7 DEF Bag
<1> QED BY <1>8 DEF s, t

-----------------------------------------------------------------------------
(* The list after an entry was added, removed or run. *)

LEMMA AppendIs ==
  ASSUME NEW list \in Seq(Entry), NEW c \in Commands
  PROVE  LET new == Append(list, NewEntry(c, FALSE))
         IN  /\ new \in Seq(Entry)
             /\ NoneHere(list) => NoneHere(new)
             /\ OneHere(list) => OneHere(new)
             /\ \A d : In(list, d) => In(new, d)
             /\ \A d : Ahead(list, d) \subseteq Ahead(new, d)
<1> DEFINE e == NewEntry(c, FALSE)
           new == Append(list, e)
<1>1. e \in Entry /\ ~e.here
  BY DEF NewEntry, Entry
<1> HIDE DEF e
<1>2. /\ new \in Seq(Entry) /\ Len(new) = Len(list) + 1 /\ Len(list) \in Nat
      /\ \A i \in 1 .. Len(list) : new[i] = list[i]
      /\ new[Len(list) + 1] = e
  BY <1>1, AppendProperties, LenProperties
<1> HIDE DEF new
<1>3. \A i \in 1 .. Len(new) : i \in 1 .. Len(list) \/ i = Len(list) + 1
  BY <1>2
<1>4. NoneHere(list) => NoneHere(new)
  BY <1>1, <1>2, <1>3 DEF NoneHere
<1>5. OneHere(list) => OneHere(new)
  <2> SUFFICES ASSUME NEW i \in 1 .. Len(list), HereAt(list, i) PROVE OneHere(new)
    BY DEF OneHere
  <2>1. i \in 1 .. Len(new) /\ i # Len(list) + 1 BY <1>2
  <2>2. \A j \in 1 .. Len(new) : new[j].here <=> j = i
    BY <1>1, <1>2, <1>3, <2>1 DEF HereAt
  <2> QED BY <2>1, <2>2 DEF OneHere, HereAt
<1>6. \A d : In(list, d) => In(new, d)
  <2>1. \A i \in 1 .. Len(list) : i \in 1 .. Len(new) BY <1>2
  <2> QED BY <1>2, <2>1 DEF In
<1>7. \A d : Ahead(list, d) \subseteq Ahead(new, d)
  <2>1. \A i \in 1 .. Len(list) : i \in 1 .. Len(new) /\ \A k \in 1 .. i : k \in 1 .. Len(list)
    BY <1>2
  <2> QED BY <1>2, <2>1 DEF Ahead
<1> QED BY <1>2, <1>4, <1>5, <1>6, <1>7 DEF new, e

LEMMA RemoveAtIs ==
  ASSUME NEW T, NEW list \in Seq(T), NEW i \in 1 .. Len(list)
  PROVE  /\ RemoveAt(list, i) \in Seq(T) /\ Len(RemoveAt(list, i)) = Len(list) - 1
         /\ \A j \in 1 .. Len(list) - 1 : RemoveAt(list, i)[j] = IF j < i THEN list[j] ELSE list[j + 1]
<1> DEFINE front == SubSeq(list, 1, i - 1)
           back == SubSeq(list, i + 1, Len(list))
<1>1. Len(list) \in Nat /\ \A j \in 1 .. Len(list) : list[j] \in T
  BY LenProperties, ElementOfSeq
<1>2. /\ front \in Seq(T) /\ Len(front) = i - 1
      /\ \A j \in 1 .. i - 1 : front[j] = list[j]
  <2>1. /\ front \in Seq(T) /\ Len(front) = IF 1 <= i - 1 THEN (i - 1) - 1 + 1 ELSE 0
        /\ \A j \in 1 .. ((i - 1) - 1 + 1) : front[j] = list[1 + j - 1]
    BY <1>1, SubSeqProperties
  <2> QED BY <1>1, <2>1
<1>3. /\ back \in Seq(T) /\ Len(back) = Len(list) - i
      /\ \A j \in 1 .. Len(list) - i : back[j] = list[i + j]
  <2>1. /\ back \in Seq(T)
        /\ Len(back) = IF i + 1 <= Len(list) THEN Len(list) - (i + 1) + 1 ELSE 0
        /\ \A j \in 1 .. (Len(list) - (i + 1) + 1) : back[j] = list[(i + 1) + j - 1]
    BY <1>1, SubSeqProperties
  <2> QED BY <1>1, <2>1
<1> HIDE DEF front, back
<1>4. /\ front \o back \in Seq(T) /\ Len(front \o back) = Len(front) + Len(back)
      /\ \A j \in 1 .. Len(front) + Len(back) :
           (front \o back)[j] = IF j <= Len(front) THEN front[j] ELSE back[j - Len(front)]
  BY <1>2, <1>3, ConcatProperties
<1>5. Len(front) + Len(back) = Len(list) - 1
  BY <1>1, <1>2, <1>3
<1>6. ASSUME NEW j \in 1 .. Len(list) - 1
      PROVE  (front \o back)[j] = IF j < i THEN list[j] ELSE list[j + 1]
  <2>1. CASE j < i BY <1>1, <1>2, <1>4, <1>5, <2>1
  <2>2. CASE ~(j < i)
    <3>1. j - (i - 1) \in 1 .. Len(list) - i /\ i + (j - (i - 1)) = j + 1 /\ ~(j <= i - 1)
      BY <1>1, <2>2
    <3>2. (front \o back)[j] = back[j - (i - 1)]
      BY <1>2, <1>4, <1>5, <3>1
    <3> QED BY <1>3, <2>2, <3>1, <3>2
  <2> QED BY <2>1, <2>2
<1> QED BY <1>4, <1>5, <1>6 DEF RemoveAt, front, back

Ascending(list) ==
  \A m, n \in 1 .. Len(list) : m < n => Due[list[m].cmd] <= Due[list[n].cmd]

\* Nothing that comes next is due before the time t.
NextFrom(list, t) ==
  \A m, n \in 1 .. Len(list) : list[m].here /\ m <= n => t <= Due[list[n].cmd]

LEMMA MarkOrder ==
  ASSUME NEW list \in Seq(Entry), NEW i \in Int, Ascending(list)
  PROVE  /\ Ascending(Mark(list, i))
         /\ NextFrom(Mark(list, i), 0)
         /\ \A k \in 1 .. Len(list) : k <= i => NextFrom(Mark(list, i), Due[list[k].cmd])
<1> DEFINE new == Mark(list, i)
<1>1. Len(new) = Len(list) /\ Len(list) \in Nat
  BY MarkIs, LenProperties
<1>7. \A j \in 1 .. Len(list) : new[j].cmd = list[j].cmd
  BY MarkIs
<1>8. \A j \in 1 .. Len(list) : new[j].here => j = i
  BY MarkIs
<1> HIDE DEF new
<1>2. \A j \in 1 .. Len(list) : Due[list[j].cmd] \in Nat
  BY EntryFields
<1>3. \A j \in 1 .. Len(list) : Due[new[j].cmd] = Due[list[j].cmd]
  BY <1>7
<1>4. Ascending(new)
  <2> SUFFICES ASSUME NEW m \in 1 .. Len(list), NEW n \in 1 .. Len(list), m < n
               PROVE  Due[new[m].cmd] <= Due[new[n].cmd]
    BY <1>1 DEF Ascending
  <2>1. Due[list[m].cmd] <= Due[list[n].cmd] BY DEF Ascending
  <2> QED BY <1>3, <2>1
<1>5. NextFrom(new, 0)
  <2> SUFFICES ASSUME NEW n \in 1 .. Len(list) PROVE 0 <= Due[new[n].cmd]
    BY <1>1 DEF NextFrom
  <2> QED BY <1>2, <1>3
<1>6. ASSUME NEW k \in 1 .. Len(list), k <= i PROVE NextFrom(new, Due[list[k].cmd])
  <2> SUFFICES ASSUME NEW m \in 1 .. Len(list), NEW n \in 1 .. Len(list), new[m].here, m <= n
               PROVE  Due[list[k].cmd] <= Due[new[n].cmd]
    BY <1>1 DEF NextFrom
  <2>1. m = i BY <1>8, Zenon
  <2>2. k < n \/ k = n BY <1>1, <1>6, <2>1
  <2>3. Due[list[k].cmd] <= Due[list[n].cmd] BY <1>2, <2>2 DEF Ascending
  <2> QED BY <1>3, <2>3
<1> QED BY <1>4, <1>5, <1>6 DEF new

LEMMA DoneIs ==
  ASSUME NEW list \in Seq(Entry), NEW i \in 1 .. Len(list)
  PROVE  /\ Done(list, i) \in Seq(Entry)
         /\ i = Len(list) => NoneHere(Done(list, i))
         /\ i # Len(list) => OneHere(Done(list, i))
         /\ \A c : c # list[i].cmd /\ In(list, c) => In(Done(list, i), c)
         /\ Ascending(list) => /\ Ascending(Done(list, i))
                              /\ NextFrom(Done(list, i), Due[list[i].cmd])
<1>1. /\ Len(list) \in Nat /\ i \in Nat /\ list[i] \in Entry
      /\ \A j \in 1 .. Len(list) : Due[list[j].cmd] \in Nat
  BY LenProperties, EntryFields
<1>2. CASE list[i].cmd \in Repeated
  <2> DEFINE e == [list[i] EXCEPT !.actual = TRUE, !.ran = TRUE]
             ran == [list EXCEPT ![i] = e]
  <2>1. e \in Entry /\ e.cmd = list[i].cmd
    BY <1>1 DEF Entry
  <2>2. [list EXCEPT ![i].actual = TRUE, ![i].ran = TRUE] = ran
    <3>1. DOMAIN list = 1 .. Len(list) BY LenProperties
    <3> QED BY <1>1, <3>1 DEF Entry
  <2> HIDE DEF e
  <2>3. /\ ran \in Seq(Entry) /\ Len(ran) = Len(list)
        /\ \A j \in 1 .. Len(list) : ran[j] = IF j = i THEN e ELSE list[j]
    BY <2>1, ExceptSeq
  <2> HIDE DEF ran
  <2>4. \A j \in 1 .. Len(list) : ran[j].cmd = list[j].cmd
    BY <2>1, <2>3
  <2>5. Done(list, i) = Mark(ran, i + 1)
    BY <1>2, <2>2 DEF Done
  <2>6. /\ Mark(ran, i + 1) \in Seq(Entry)
        /\ i = Len(list) => NoneHere(Mark(ran, i + 1))
        /\ i # Len(list) => OneHere(Mark(ran, i + 1))
    <3>1. i + 1 \in Int /\ (i = Len(list) => i + 1 \notin 1 .. Len(ran))
          /\ (i # Len(list) => i + 1 \in 1 .. Len(ran))
      BY <1>1, <2>3
    <3>2. /\ Mark(ran, i + 1) \in Seq(Entry) /\ Len(Mark(ran, i + 1)) = Len(ran)
          /\ i + 1 \in 1 .. Len(ran) => HereAt(Mark(ran, i + 1), i + 1)
          /\ i + 1 \notin 1 .. Len(ran) => NoneHere(Mark(ran, i + 1))
      BY <2>3, <3>1, MarkIs, MarkHere
    <3> QED BY <3>1, <3>2 DEF OneHere
  <2>7. \A c : In(list, c) => In(Mark(ran, i + 1), c)
    <3>1. \A c : In(list, c) => In(ran, c) BY <2>3, <2>4 DEF In
    <3> QED BY <1>1, <2>3, <3>1, MarkText
  <2>8. ASSUME Ascending(list)
        PROVE  /\ Ascending(Mark(ran, i + 1))
               /\ NextFrom(Mark(ran, i + 1), Due[list[i].cmd])
    <3>1. Ascending(ran) BY <2>3, <2>4, <2>8 DEF Ascending
    <3>2. i + 1 \in Int /\ i <= i + 1 /\ i \in 1 .. Len(ran) BY <1>1, <2>3
    <3>3. Ascending(Mark(ran, i + 1)) /\ NextFrom(Mark(ran, i + 1), Due[ran[i].cmd])
      BY <2>3, <3>1, <3>2, MarkOrder
    <3> QED BY <2>4, <3>3
  <2> QED BY <2>5, <2>6, <2>7, <2>8
<1>3. CASE list[i].cmd \notin Repeated
  <2> DEFINE rest == RemoveAt(list, i)
  <2>1. /\ rest \in Seq(Entry) /\ Len(rest) = Len(list) - 1
        /\ \A j \in 1 .. Len(list) - 1 : rest[j] = IF j < i THEN list[j] ELSE list[j + 1]
    BY RemoveAtIs
  <2>2. Done(list, i) = Mark(rest, i)
    BY <1>3 DEF Done
  <2> HIDE DEF rest
  <2>3. /\ Mark(rest, i) \in Seq(Entry) /\ Len(Mark(rest, i)) = Len(rest)
        /\ i \in 1 .. Len(rest) => HereAt(Mark(rest, i), i)
        /\ i \notin 1 .. Len(rest) => NoneHere(Mark(rest, i))
    <3>1. Mark(rest, i) \in Seq(Entry) /\ Len(Mark(rest, i)) = Len(rest)
      BY <1>1, <2>1, MarkIs
    <3> QED BY <1>1, <2>1, <3>1, MarkHere
  <2>4. (i = Len(list) => NoneHere(Mark(rest, i))) /\ (i # Len(list) => OneHere(Mark(rest, i)))
    <3>1. (i = Len(list) => i \notin 1 .. Len(rest)) /\ (i # Len(list) => i \in 1 .. Len(rest))
      BY <1>1, <2>1
    <3> QED BY <2>3, <3>1 DEF OneHere
  <2>5. ASSUME NEW c, c # list[i].cmd, In(list, c) PROVE In(Mark(rest, i), c)
    <3>1. PICK j \in 1 .. Len(list) : list[j].cmd = c BY <2>5 DEF In
    <3>2. j # i BY <2>5, <3>1
    <3>3. CASE j < i
      <4>1. j \in 1 .. Len(list) - 1 BY <1>1, <3>3
      <4>2. rest[j].cmd = c BY <2>1, <3>1, <3>3, <4>1
      <4>3. In(rest, c) BY <2>1, <4>1, <4>2 DEF In
      <4> QED BY <1>1, <2>1, <4>3, MarkText
    <3>4. CASE i < j
      <4>1. j - 1 \in 1 .. Len(list) - 1 /\ ~(j - 1 < i) /\ (j - 1) + 1 = j BY <1>1, <3>4
      <4>2. rest[j - 1].cmd = c BY <2>1, <3>1, <4>1
      <4>3. In(rest, c) BY <2>1, <4>1, <4>2 DEF In
      <4> QED BY <1>1, <2>1, <4>3, MarkText
    <3> QED BY <1>1, <3>2, <3>3, <3>4
  <2>6. ASSUME Ascending(list)
        PROVE  /\ Ascending(Mark(rest, i))
               /\ NextFrom(Mark(rest, i), Due[list[i].cmd])
    <3>1. \A m \in 1 .. Len(list) - 1 : m + 1 \in 1 .. Len(list) /\ m \in 1 .. Len(list)
      BY <1>1
    <3>2. Ascending(rest)
      <4> SUFFICES ASSUME NEW m \in 1 .. Len(list) - 1, NEW n \in 1 .. Len(list) - 1, m < n
                   PROVE  Due[rest[m].cmd] <= Due[rest[n].cmd]
        BY <2>1 DEF Ascending
      <4>1. CASE n < i
        <5>1. m < i BY <4>1
        <5> QED BY <2>1, <2>6, <3>1, <4>1, <5>1 DEF Ascending
      <4>2. CASE ~(n < i) /\ m < i
        <5>1. m < n + 1 OBVIOUS
        <5> QED BY <2>1, <2>6, <3>1, <4>2, <5>1 DEF Ascending
      <4>3. CASE ~(m < i)
        <5>1. ~(n < i) /\ m + 1 < n + 1 BY <1>1, <4>3
        <5> QED BY <2>1, <2>6, <3>1, <4>3, <5>1 DEF Ascending
      <4> QED BY <4>1, <4>2, <4>3
    <3>3. Ascending(Mark(rest, i))
      BY <1>1, <2>1, <3>2, MarkOrder
    <3>4. ASSUME NEW m \in 1 .. Len(rest), NEW n \in 1 .. Len(rest), Mark(rest, i)[m].here, m <= n
          PROVE  Due[list[i].cmd] <= Due[Mark(rest, i)[n].cmd]
      <4>1. m = i /\ Mark(rest, i)[n].cmd = rest[n].cmd BY <1>1, <2>1, <3>4, MarkIs
      <4>2. n \in 1 .. Len(list) - 1 /\ ~(n < i) /\ i < n + 1 BY <1>1, <2>1, <3>4, <4>1
      <4>3. rest[n] = list[n + 1] BY <2>1, <4>2
      <4> QED BY <2>6, <3>1, <4>1, <4>2, <4>3 DEF Ascending
    <3> QED BY <2>3, <3>3, <3>4 DEF NextFrom
  <2> QED BY <2>2, <2>3, <2>4, <2>5, <2>6
<1> QED BY <1>2, <1>3

-----------------------------------------------------------------------------
(* The inductive invariant. *)

QueueTypes ==
  /\ now \in 0 .. MaxTime /\ incoming \subseteq Commands /\ todo \subseteq Commands
  /\ commands \in Seq(Entry) /\ changed \in BOOLEAN
  /\ saved \in Seq(SavedEntry)
  /\ pc \in {"idle", "load", "run", "save", "write", "down"}
  /\ request \in {"none", "added", "sort", "deleted"}
  /\ mixed \in BOOLEAN /\ reread \in BOOLEAN
  /\ runs \in [Commands -> Nat] /\ failures \in Nat
  /\ kept \subseteq Commands
  /\ pass \in [last : 0 .. MaxTime, clean : BOOLEAN]

\* The iterator is in the list while a run or a save is under way, and at no other time.
HereInv == IF pc \in {"run", "write"} THEN OneHere(commands) ELSE NoneHere(commands)

Gone(c) == runs[c] > 0 \/ c \in deleted \/ failures > 0

\* What was saved is in memory unless the process is down, and in the file unless
\* the file is being written: then it was written already or is still to come.
KeptInv ==
  \A c \in kept :
    \/ Gone(c)
    \/ /\ pc # "down" => In(commands, c)
       /\ pc # "write" => In(saved, c)
       /\ pc = "write" /\ ~mixed => In(saved, c) \/ Ahead(commands, c) # {}

\* What was written so far is still in memory.
WrittenInv == pc = "write" => \A c \in Commands : In(saved, c) => Gone(c) \/ In(commands, c)

\* While nothing disturbs the run, the list is sorted and the iterator is behind
\* all that was run.
OrderInv ==
  pc = "run" /\ pass.clean /\ failures = 0 => Ascending(commands) /\ NextFrom(commands, pass.last)

\* The file holds the entries the iterator is past.
WrittenTo(list, file) ==
  \A i \in 1 .. Len(list) :
    HereAt(list, i) => Len(file) = i - 1 /\ \A j \in 1 .. i - 1 : file[j] = Line(list[j])

\* What makes the file differ from the list sets the flag, is a request that has not
\* set it yet, or is one that got into the save.
Matching == ~changed /\ request \notin {"added", "deleted"} /\ failures = 0 /\ ~mixed
SaveInv ==
  /\ Matching /\ pc \notin {"down", "write"} => Bag(saved) = Bag(Text(commands))
  /\ Matching /\ pc = "write" => WrittenTo(commands, saved)

QueueInv == QueueTypes /\ HereInv /\ KeptInv /\ WrittenInv /\ OrderInv /\ SaveInv

\* Where run_commands and save_commands start.
LEMMA StartIs ==
  ASSUME NEW list \in Seq(Entry)
  PROVE  /\ Mark(list, 1) \in Seq(Entry)
         /\ list = <<>> => NoneHere(Mark(list, 1))
         /\ list # <<>> => OneHere(Mark(list, 1))
         /\ \A c : In(list, c) => In(Mark(list, 1), c)
         /\ Text(Mark(list, 1)) = Text(list)
<1>1. (list = <<>> => 1 \notin 1 .. Len(list)) /\ (list # <<>> => 1 \in 1 .. Len(list))
  BY LenProperties, EmptySeq
<1>2. Mark(list, 1) \in Seq(Entry) /\ Len(Mark(list, 1)) = Len(list)
  BY MarkIs
<1>3. /\ 1 \in 1 .. Len(list) => HereAt(Mark(list, 1), 1)
      /\ 1 \notin 1 .. Len(list) => NoneHere(Mark(list, 1))
  BY MarkHere
<1>4. /\ \A c : In(list, c) => In(Mark(list, 1), c)
      /\ Text(Mark(list, 1)) = Text(list)
  BY MarkText
<1>5. list # <<>> => OneHere(Mark(list, 1))
  BY <1>1, <1>2, <1>3 DEF OneHere
<1> QED BY <1>1, <1>2, <1>3, <1>4, <1>5

LEMMA InitInv == Init => QueueInv
<1> SUFFICES ASSUME Init PROVE QueueInv
  OBVIOUS
<1>1. commands = <<>> /\ saved = <<>> /\ Len(commands) = 0
  BY EmptySeq DEF Init
<1>2. Text(commands) = saved
  BY <1>1 DEF Text
<1>5. commands \in Seq(Entry) /\ saved \in Seq(SavedEntry)
  BY <1>1, EmptySeq
<1>6. 0 \in 0 .. MaxTime
  BY CommandAssumption
<1>3. QueueTypes
  BY <1>5, <1>6 DEF Init, QueueTypes
<1>4. HereInv
  BY <1>1 DEF Init, HereInv, NoneHere
<1>7. SaveInv
  BY <1>2 DEF Init, SaveInv
<1> QED BY <1>3, <1>4, <1>7 DEF Init, QueueInv, KeptInv, WrittenInv, OrderInv

\* What a step that keeps the list, the file and the flag may do.
LEMMA SaveInvSame ==
  ASSUME SaveInv, UNCHANGED <<commands, changed, saved, pc, request, failures, mixed>>
  PROVE  SaveInv'
<1>1. Matching' <=> Matching
  BY DEF Matching
<1>2. Bag(saved)' = Bag(saved) /\ Bag(Text(commands))' = Bag(Text(commands))
  BY DEF Bag, Text
<1>3. WrittenTo(commands, saved)' <=> WrittenTo(commands, saved)
  BY DEF WrittenTo, HereAt
<1> QED BY <1>1, <1>2, <1>3 DEF SaveInv

LEMMA SaveInvKept ==
  ASSUME SaveInv, pc \notin {"down", "write"}, pc' # "write", UNCHANGED <<saved, changed, mixed>>,
         request \in {"added", "deleted"} => request' \in {"added", "deleted"},
         failures' = failures, Bag(Text(commands)) = Bag(Text(commands'))
  PROVE  SaveInv'
<1>1. Matching' => Matching
  BY DEF Matching
<1>2. Bag(saved)' = Bag(saved) /\ Bag(Text(commands))' = Bag(Text(commands'))
  BY DEF Bag, Text
<1> QED BY <1>1, <1>2 DEF SaveInv

\* The steps that touch neither the list, nor the file, nor the loop.
LEMMA OtherSteps ==
  ASSUME QueueInv,
         \/ Tick
         \/ \E c \in Commands : SubmitFile(c)
         \/ UNCHANGED queueVars
  PROVE  QueueInv'
<1>1. UNCHANGED <<commands, changed, saved, pc, todo, request, runs, failures, kept, pass, deleted,
                 mixed, reread>>
  BY DEF Tick, SubmitFile, memory, history, ofSaves, queueVars
<1>2. now' \in 0 .. MaxTime /\ incoming' \subseteq Commands
  BY CommandAssumption DEF QueueInv, QueueTypes, Tick, SubmitFile, queueVars
<1>3. QueueTypes'
  BY <1>1, <1>2 DEF QueueInv, QueueTypes
<1>4. HereInv'
  BY <1>1 DEF QueueInv, HereInv, OneHere, HereAt, NoneHere
<1>5. KeptInv' /\ WrittenInv'
  BY <1>1 DEF QueueInv, KeptInv, WrittenInv, Gone, In, Ahead
<1>6. OrderInv'
  BY <1>1 DEF QueueInv, OrderInv, Ascending, NextFrom
<1>7. SaveInv'
  BY <1>1, SaveInvSame DEF QueueInv
<1> QED BY <1>3, <1>4, <1>5, <1>6, <1>7 DEF QueueInv

LEMMA BeginPassStep == ASSUME QueueInv, BeginPass PROVE QueueInv'
<1> USE DEF QueueInv
<1>1. /\ pc = "idle" /\ commands \in Seq(Entry) /\ NoneHere(commands)
      /\ UNCHANGED <<now, incoming, saved, changed, request, submitted, deleted, runs, kept, mixed, reread>>
  BY DEF BeginPass, QueueTypes, HereInv, ofSaves
<1>2. CASE pc' = "load" /\ todo' = incoming /\ UNCHANGED <<commands, pass, failures>>
  <2>1. QueueTypes' BY <1>1, <1>2 DEF QueueTypes
  <2>2. HereInv' BY <1>1, <1>2 DEF HereInv, NoneHere
  <2>3. KeptInv' BY <1>1, <1>2 DEF KeptInv, Gone, In
  <2>4. OrderInv' /\ WrittenInv' BY <1>2 DEF OrderInv, WrittenInv
  <2>5. SaveInv' BY <1>1, <1>2, SaveInvKept
  <2> QED BY <2>1, <2>2, <2>3, <2>4, <2>5
<1>3. CASE Fails /\ StartRun(commands) /\ UNCHANGED todo
  <2>1. failures' \in Nat /\ failures' > 0
    BY <1>3 DEF Fails, QueueTypes
  <2>2. /\ commands' \in Seq(Entry)
        /\ commands = <<>> => NoneHere(commands')
        /\ commands # <<>> => OneHere(commands')
    BY <1>1, <1>3, StartIs DEF StartRun
  <2>3. QueueTypes'
    BY <1>1, <1>3, <2>1, <2>2, CommandAssumption DEF QueueTypes, StartRun
  <2>4. HereInv'
    BY <1>3, <2>2 DEF HereInv, StartRun, NoneHere, OneHere, HereAt
  <2>5. KeptInv' /\ WrittenInv' /\ OrderInv' /\ SaveInv'
    BY <2>1 DEF KeptInv, WrittenInv, OrderInv, SaveInv, Matching, Gone
  <2> QED BY <2>3, <2>4, <2>5
<1> QED BY <1>2, <1>3 DEF BeginPass

LEMMA LoadFileStep == ASSUME QueueInv, NEW c \in Commands, LoadFile(c) PROVE QueueInv'
<1> USE DEF QueueInv
<1>1. /\ pc = "load" /\ pc' = "load" /\ commands \in Seq(Entry) /\ NoneHere(commands)
      /\ todo' \subseteq Commands
      /\ UNCHANGED <<now, saved, request, submitted, deleted, runs, pass, kept, mixed, reread>>
  BY DEF LoadFile, QueueTypes, HereInv, history, ofSaves
<1>2. failures' \in Nat /\ (failures > 0 => failures' > 0)
  <2>1. UNCHANGED failures \/ failures' = failures + 1
    BY Zenon DEF LoadFile, Fails
  <2> QED BY <2>1 DEF QueueTypes
<1>3. incoming' \subseteq Commands
  BY DEF LoadFile, QueueTypes
<1>4. OrderInv' /\ WrittenInv'
  BY <1>1 DEF OrderInv, WrittenInv
<1>5. CASE Fails /\ UNCHANGED <<commands, changed, incoming>>
  <2>1. failures' > 0 BY <1>5 DEF Fails, QueueTypes
  <2>2. QueueTypes' BY <1>1, <1>2, <1>3, <1>5 DEF QueueTypes
  <2>3. HereInv' BY <1>1, <1>5 DEF HereInv, NoneHere
  <2>4. KeptInv' /\ SaveInv' BY <1>2, <2>1 DEF KeptInv, SaveInv, Matching, Gone
  <2> QED BY <1>4, <2>2, <2>3, <2>4
<1>6. CASE commands' = Append(commands, NewEntry(c, FALSE)) /\ changed' = TRUE
  <2>1. /\ commands' \in Seq(Entry) /\ NoneHere(commands')
        /\ \A d : In(commands, d) => In(commands', d)
    BY <1>1, <1>6, AppendIs
  <2>2. QueueTypes' BY <1>1, <1>2, <1>3, <1>6, <2>1 DEF QueueTypes
  <2>3. HereInv' BY <1>1, <2>1 DEF HereInv, NoneHere
  <2>4. KeptInv' BY <1>1, <1>2, <2>1 DEF KeptInv, Gone, In
  <2>5. SaveInv' BY <1>6 DEF SaveInv, Matching
  <2> QED BY <1>4, <2>2, <2>3, <2>4, <2>5
<1> QED BY <1>5, <1>6 DEF LoadFile

LEMMA SortedIn ==
  ASSUME NEW list \in Seq(Entry), NEW c PROVE In(Sorted(list), c) <=> In(list, c)
<1>1. PICK p : Rearranges(p, Sorted(list), list, 1 .. Len(list))
  BY SortedSorts
<1>2. In(Sorted(list), c) <=> \E i \in 1 .. Len(list) : list[i].cmd = c
  BY <1>1, RearrangedIn
<1> QED BY <1>2 DEF In

LEMMA EndLoadStep == ASSUME QueueInv, EndLoad PROVE QueueInv'
<1> USE DEF QueueInv
<1> DEFINE list == Sorted(commands)
<1>1. /\ pc = "load" /\ commands \in Seq(Entry) /\ StartRun(list)
      /\ UNCHANGED <<now, incoming, saved, changed, todo, request>>
      /\ UNCHANGED <<submitted, deleted, runs, kept, mixed, reread, crashes, failures>>
  BY DEF EndLoad, QueueTypes, ofSaves
<1>2. list \in Seq(Entry) /\ Ascending(list)
  BY <1>1, SortedSorts DEF Ascending
<1>3. Bag(Text(list)) = Bag(Text(commands))
  BY <1>1, SortedBag
<1>4. \A c : In(list, c) <=> In(commands, c)
  BY <1>1, SortedIn
<1> HIDE DEF list
<1>5. /\ commands' = Mark(list, 1) /\ commands' \in Seq(Entry)
      /\ list = <<>> => NoneHere(commands')
      /\ list # <<>> => OneHere(commands')
      /\ \A c : In(list, c) => In(commands', c)
      /\ Text(commands') = Text(list)
  BY <1>1, <1>2, StartIs DEF StartRun
<1>6. QueueTypes'
  BY <1>1, <1>5, CommandAssumption DEF QueueTypes, StartRun
<1>7. HereInv'
  BY <1>1, <1>5 DEF HereInv, StartRun, NoneHere, OneHere, HereAt
<1>8. KeptInv'
  BY <1>1, <1>4, <1>5 DEF KeptInv, StartRun, Gone, In
<1>9. OrderInv'
  <2>1. Ascending(commands') /\ NextFrom(commands', 0)
    BY <1>2, <1>5, MarkOrder
  <2>2. pass'.last = 0 BY <1>1 DEF StartRun
  <2> QED BY <2>1, <2>2 DEF OrderInv, Ascending, NextFrom
<1>10. SaveInv'
  <2>1. Bag(Text(commands)) = Bag(Text(commands')) BY <1>3, <1>5
  <2>2. pc' # "write" /\ pc \notin {"down", "write"} BY <1>1 DEF StartRun
  <2> QED BY <1>1, <2>1, <2>2, SaveInvKept
<1>11. WrittenInv'
  BY <1>1 DEF WrittenInv, StartRun
<1> QED BY <1>6, <1>7, <1>8, <1>9, <1>10, <1>11

LEMMA RunEntryStep == ASSUME QueueInv, RunEntry PROVE QueueInv'
<1> USE DEF QueueInv
<1>1. /\ pc = "run" /\ commands \in Seq(Entry) /\ OneHere(commands)
      /\ UNCHANGED <<now, incoming, saved, todo, request, submitted, deleted, kept, mixed, reread, crashes>>
  BY DEF RunEntry, QueueTypes, HereInv, ofSaves
<1>2. DOMAIN commands = 1 .. Len(commands) /\ Len(commands) \in Nat
  BY <1>1, LenProperties
<1>3. PICK i \in 1 .. Len(commands) :
        /\ commands[i].here
        /\ pc' = IF i = Len(commands) THEN "save" ELSE "run"
        /\ \/ /\ ~Runs(commands[i])
              /\ commands' = Mark(commands, i + 1)
              /\ UNCHANGED <<changed, runs, pass, failures>>
           \/ /\ Runs(commands[i])
              /\ commands' = Done(commands, i)
              /\ changed' = TRUE
              /\ pass' = [pass EXCEPT !.last = Due[commands[i].cmd]]
              /\ \/ runs' = [runs EXCEPT ![commands[i].cmd] = @ + 1] /\ UNCHANGED failures
                 \/ Fails /\ UNCHANGED runs
  BY <1>2 DEF RunEntry
<1>4. pc' \in {"save", "run"} /\ WrittenInv'
  BY <1>3 DEF WrittenInv
<1>5. commands[i].cmd \in Commands /\ Due[commands[i].cmd] \in 0 .. MaxTime /\ Due[commands[i].cmd] \in Nat
  BY <1>1, EntryFields
<1>6. CASE /\ commands' = Mark(commands, i + 1)
           /\ UNCHANGED <<changed, runs, pass, failures>>
  <2>1. /\ i + 1 \in Int /\ i <= i + 1
        /\ (i = Len(commands) => i + 1 \notin 1 .. Len(commands))
        /\ (i # Len(commands) => i + 1 \in 1 .. Len(commands))
    <3> DEFINE n == Len(commands)
    <3>1. n \in Nat /\ i \in 1 .. n BY <1>2
    <3> HIDE DEF n
    <3>2. /\ i + 1 \in Int /\ i <= i + 1
          /\ (i = n => i + 1 \notin 1 .. n) /\ (i # n => i + 1 \in 1 .. n)
      BY <3>1
    <3> QED BY <3>2 DEF n
  <2>2. commands' \in Seq(Entry) /\ Len(commands') = Len(commands)
    BY <1>1, <1>6, <2>1, MarkIs
  <2>3. /\ i + 1 \in 1 .. Len(commands) => HereAt(commands', i + 1)
        /\ i + 1 \notin 1 .. Len(commands) => NoneHere(commands')
    BY <1>1, <1>6, <2>1, MarkHere
  <2>4. Text(commands') = Text(commands) /\ \A c : In(commands, c) => In(commands', c)
    BY <1>1, <1>6, <2>1, MarkText
  <2>5. QueueTypes'
    BY <1>1, <1>4, <1>6, <2>2 DEF QueueTypes
  <2>6. HereInv'
    <3>1. i = Len(commands) => NoneHere(commands') /\ pc' = "save" BY <1>3, <2>1, <2>3
    <3>2. i # Len(commands) => OneHere(commands') /\ pc' = "run"
      BY <1>3, <2>1, <2>2, <2>3 DEF OneHere
    <3> QED BY <3>1, <3>2 DEF HereInv, NoneHere, OneHere, HereAt
  <2>7. KeptInv'
    BY <1>1, <1>4, <1>6, <2>4 DEF KeptInv, Gone, In
  <2>8. OrderInv'
    <3> SUFFICES ASSUME pass.clean, failures = 0
                 PROVE  Ascending(commands') /\ NextFrom(commands', pass.last)
      BY <1>6 DEF OrderInv, Ascending, NextFrom
    <3>1. Ascending(commands) /\ NextFrom(commands, pass.last) BY <1>1 DEF OrderInv
    <3>2. pass.last <= Due[commands[i].cmd] /\ pass.last \in Nat
      BY <1>1, <1>2, <1>3, <3>1 DEF NextFrom, QueueTypes
    <3>3. Ascending(commands') /\ NextFrom(commands', Due[commands[i].cmd])
      BY <1>1, <1>6, <2>1, <3>1, MarkOrder
    <3>4. \A n \in 1 .. Len(commands') : Due[commands'[n].cmd] \in Nat
      BY <2>2, EntryFields
    <3> QED BY <1>5, <3>2, <3>3, <3>4 DEF NextFrom
  <2>9. SaveInv'
    BY <1>1, <1>4, <1>6, <2>4, SaveInvKept
  <2> QED BY <1>4, <2>5, <2>6, <2>7, <2>8, <2>9
<1>7. CASE /\ commands' = Done(commands, i) /\ changed' = TRUE
           /\ pass' = [pass EXCEPT !.last = Due[commands[i].cmd]]
           /\ \/ runs' = [runs EXCEPT ![commands[i].cmd] = @ + 1] /\ UNCHANGED failures
              \/ Fails /\ UNCHANGED runs
  <2>1. /\ commands' \in Seq(Entry)
        /\ i = Len(commands) => NoneHere(commands')
        /\ i # Len(commands) => OneHere(commands')
        /\ \A c : c # commands[i].cmd /\ In(commands, c) => In(commands', c)
        /\ Ascending(commands) => /\ Ascending(commands')
                                 /\ NextFrom(commands', Due[commands[i].cmd])
    BY <1>1, <1>7, DoneIs
  <2>2. /\ runs' \in [Commands -> Nat] /\ failures' \in Nat
        /\ \A c \in Commands : runs[c] > 0 => runs'[c] > 0
        /\ failures > 0 => failures' > 0
        /\ runs'[commands[i].cmd] > 0 \/ failures' > 0
        /\ failures' = 0 => failures = 0
    <3>1. runs \in [Commands -> Nat] /\ failures \in Nat BY DEF QueueTypes
    <3>2. CASE runs' = [runs EXCEPT ![commands[i].cmd] = @ + 1] /\ UNCHANGED failures
      BY <1>5, <3>1, <3>2
    <3>3. CASE Fails /\ UNCHANGED runs
      BY <3>1, <3>3 DEF Fails
    <3> QED BY <1>7, <3>2, <3>3
  <2>3. pass' \in [last : 0 .. MaxTime, clean : BOOLEAN] /\ pass'.last = Due[commands[i].cmd]
        /\ pass'.clean = pass.clean
    BY <1>5, <1>7 DEF QueueTypes
  <2>4. QueueTypes'
    BY <1>1, <1>4, <1>7, <2>1, <2>2, <2>3 DEF QueueTypes
  <2>5. HereInv'
    BY <1>3, <2>1 DEF HereInv, NoneHere, OneHere, HereAt
  <2>6. KeptInv'
    <3> SUFFICES ASSUME NEW c \in kept', ~Gone(c)'
                 PROVE  In(commands, c)' /\ In(saved, c)'
      BY <1>4 DEF KeptInv
    <3>1. c \in kept /\ c \in Commands /\ c # commands[i].cmd /\ ~Gone(c)
      BY <1>1, <2>2 DEF Gone, QueueTypes
    <3>2. In(commands, c) /\ In(saved, c)
      BY <1>1, <3>1 DEF KeptInv
    <3>3. In(commands', c) BY <2>1, <3>1, <3>2
    <3> QED BY <1>1, <3>2, <3>3 DEF In
  <2>7. OrderInv'
    <3> SUFFICES ASSUME pass'.clean, failures' = 0
                 PROVE  Ascending(commands') /\ NextFrom(commands', pass'.last)
      BY DEF OrderInv, Ascending, NextFrom
    <3>1. Ascending(commands) BY <1>1, <2>2, <2>3 DEF OrderInv
    <3> QED BY <2>1, <2>3, <3>1
  <2>8. SaveInv' BY <1>7 DEF SaveInv, Matching
  <2> QED BY <1>4, <2>4, <2>5, <2>6, <2>7, <2>8
<1> QED BY <1>3, <1>6, <1>7

\* A walk that begins has the whole list before it.
LEMMA AllAhead ==
  ASSUME NEW list \in Seq(Entry), NEW c
  PROVE  /\ In(list, c) => Ahead(Mark(list, 1), c) # {}
         /\ WrittenTo(Mark(list, 1), <<>>)
<1> DEFINE new == Mark(list, 1)
<1>1. /\ new \in Seq(Entry) /\ Len(new) = Len(list) /\ Len(list) \in Nat
      /\ \A j \in 1 .. Len(list) : new[j].cmd = list[j].cmd /\ (new[j].here <=> j = 1)
  BY MarkIs, LenProperties
<1> HIDE DEF new
<1>2. ASSUME NEW i \in 1 .. Len(list), list[i].cmd = c PROVE Ahead(new, c) # {}
  <2>1. 1 \in 1 .. i /\ 1 \in 1 .. Len(list) BY <1>1
  <2>2. new[1].here /\ new[i].cmd = c BY <1>1, <1>2, <2>1
  <2>3. i \in Ahead(new, c) BY <1>1, <2>1, <2>2 DEF Ahead
  <2> QED BY <2>3
<1>3. WrittenTo(new, <<>>)
  <2> SUFFICES ASSUME NEW i \in 1 .. Len(new), HereAt(new, i)
               PROVE  Len(<<>>) = i - 1 /\ \A j \in 1 .. i - 1 : <<>>[j] = Line(new[j])
    BY DEF WrittenTo
  <2>1. i = 1 BY <1>1 DEF HereAt
  <2>2. Len(<<>>) = 0 BY EmptySeq
  <2> QED BY <2>1, <2>2
<1> QED BY <1>2, <1>3 DEF In, new

LEMMA BeginSaveStep == ASSUME QueueInv, BeginSave PROVE QueueInv'
<1> USE DEF QueueInv
<1>1. /\ pc = "save" /\ commands \in Seq(Entry) /\ NoneHere(commands) /\ saved \in Seq(SavedEntry)
      /\ UNCHANGED <<now, incoming, todo, request, deleted, runs, pass, kept, reread>>
  BY DEF BeginSave, HereInv, QueueTypes
<1>2. CASE ~changed /\ pc' = "idle" /\ UNCHANGED <<commands, changed, saved, mixed, failures>>
  <2>1. QueueTypes' BY <1>1, <1>2 DEF QueueTypes
  <2>2. HereInv' BY <1>1, <1>2 DEF HereInv, NoneHere
  <2>3. KeptInv' BY <1>1, <1>2 DEF KeptInv, Gone, In
  <2>4. WrittenInv' /\ OrderInv' BY <1>2 DEF WrittenInv, OrderInv
  <2>5. SaveInv' BY <1>1, <1>2, SaveInvKept
  <2> QED BY <2>1, <2>2, <2>3, <2>4, <2>5
<1>3. CASE changed' = FALSE /\ Fails /\ pc' = "idle" /\ UNCHANGED <<commands, saved, mixed>>
  <2>1. failures' \in Nat /\ failures' > 0 BY <1>3 DEF Fails, QueueTypes
  <2>2. QueueTypes' BY <1>1, <1>3, <2>1 DEF QueueTypes
  <2>3. HereInv' BY <1>1, <1>3 DEF HereInv, NoneHere
  <2>4. WrittenInv' /\ OrderInv' BY <1>3 DEF WrittenInv, OrderInv
  <2>5. KeptInv' /\ SaveInv' BY <2>1 DEF KeptInv, SaveInv, Matching, Gone
  <2> QED BY <2>2, <2>3, <2>4, <2>5
<1>4. CASE /\ changed' = FALSE /\ pc' = IF commands = <<>> THEN "idle" ELSE "write"
           /\ commands' = Mark(commands, 1)
           /\ saved' = <<>> /\ mixed' = FALSE /\ UNCHANGED failures
  <2>1. /\ commands' \in Seq(Entry)
        /\ commands = <<>> => NoneHere(commands')
        /\ commands # <<>> => OneHere(commands')
        /\ \A c : In(commands, c) => In(commands', c)
        /\ Text(commands') = Text(commands)
    BY <1>1, <1>4, StartIs
  <2>2. saved' \in Seq(SavedEntry) /\ Len(saved') = 0 BY <1>4, EmptySeq
  <2>3. QueueTypes' BY <1>1, <1>4, <2>1, <2>2 DEF QueueTypes
  <2>4. HereInv' BY <1>4, <2>1 DEF HereInv, NoneHere, OneHere, HereAt
  <2>5. WrittenInv' BY <2>2 DEF WrittenInv, In
  <2>6. OrderInv' BY <1>4 DEF OrderInv
  <2>7. CASE commands = <<>>
    <3>1. KeptInv'
      <4> SUFFICES ASSUME NEW c \in kept', ~Gone(c)' PROVE FALSE
        BY DEF KeptInv
      <4>1. In(commands, c) BY <1>1, <1>4 DEF KeptInv, Gone
      <4> QED BY <2>7, <4>1, EmptySeq DEF In
    <3>2. Text(commands) = <<>> BY <2>7 DEF Text
    <3>3. Bag(saved)' = Bag(Text(commands))'
      <4>1. saved' = Text(commands') BY <1>4, <2>1, <3>2
      <4> QED BY <4>1 DEF Bag, Text
    <3>4. SaveInv' BY <1>4, <2>7, <3>3 DEF SaveInv
    <3> QED BY <2>3, <2>4, <2>5, <2>6, <3>1, <3>4
  <2>8. CASE commands # <<>>
    <3>1. pc' = "write" BY <1>4, <2>8
    <3>2. \A c : In(commands, c) => Ahead(commands', c) # {}
      BY <1>1, <1>4, AllAhead
    <3>3. KeptInv'
      <4> SUFFICES ASSUME NEW c \in kept', ~Gone(c)' PROVE In(commands', c) /\ Ahead(commands', c) # {}
        BY <3>1 DEF KeptInv, In, Ahead
      <4>1. In(commands, c) BY <1>1, <1>4 DEF KeptInv, Gone
      <4> QED BY <2>1, <3>2, <4>1
    <3>4. WrittenTo(commands', saved') BY <1>1, <1>4, AllAhead
    <3>5. SaveInv' BY <3>1, <3>4 DEF SaveInv, WrittenTo, HereAt
    <3> QED BY <2>3, <2>4, <2>5, <2>6, <3>3, <3>5
  <2> QED BY <2>7, <2>8
<1> QED BY <1>2, <1>3, <1>4 DEF BeginSave

\* What is behind the place where the walk is, before and after a step of it.
LEMMA StepAhead ==
  ASSUME NEW list \in Seq(Entry), NEW i \in 1 .. Len(list), HereAt(list, i), NEW c
  PROVE  /\ Ahead(Mark(list, i + 1), c) = Ahead(list, c) \ {i}
         /\ i \in Ahead(list, c) <=> list[i].cmd = c
         /\ i = Len(list) => Ahead(list, c) \subseteq {i}
<1> DEFINE new == Mark(list, i + 1)
           n == Len(list)
<1>1. n \in Nat /\ i \in Nat /\ i + 1 \in Int
  BY LenProperties
<1>2. /\ Len(new) = n
      /\ \A j \in 1 .. n : new[j].cmd = list[j].cmd /\ (new[j].here <=> j = i + 1)
      /\ \A j \in 1 .. n : list[j].here <=> j = i
  BY <1>1, MarkIs DEF HereAt
<1> HIDE DEF new, n
<1>3. \A j \in 1 .. n : \A k \in 1 .. j : k \in 1 .. n /\ k <= j
  BY <1>1
<1>4. ASSUME NEW j \in 1 .. n PROVE (\E k \in 1 .. j : list[k].here) <=> i <= j
  <2>1. i <= j => i \in 1 .. j BY <1>1 DEF n
  <2> QED BY <1>2, <1>3, <2>1 DEF n
<1>5. ASSUME NEW j \in 1 .. n PROVE (\E k \in 1 .. j : new[k].here) <=> i + 1 <= j
  <2>1. i + 1 <= j => i + 1 \in 1 .. j BY <1>1
  <2> QED BY <1>2, <1>3, <2>1
<1>6. Ahead(list, c) = { j \in 1 .. n : list[j].cmd = c /\ i <= j }
  BY <1>4 DEF Ahead, n
<1>7. Ahead(new, c) = { j \in 1 .. n : list[j].cmd = c /\ i + 1 <= j }
  BY <1>2, <1>5 DEF Ahead
<1>8. \A j \in 1 .. n : i + 1 <= j <=> i <= j /\ j # i
  BY <1>1
<1>9. \A j \in 1 .. n : i = n /\ i <= j => j = i
  BY <1>1
<1>10. i \in 1 .. n BY DEF n
<1>11. i <= i BY <1>1
<1> QED BY <1>6, <1>7, <1>8, <1>9, <1>10, <1>11 DEF new, n

\* One line more.
LEMMA AppendLine ==
  ASSUME NEW file \in Seq(SavedEntry), NEW e \in Entry
  PROVE  LET new == Append(file, Line(e))
         IN  /\ new \in Seq(SavedEntry) /\ Len(new) = Len(file) + 1 /\ Len(file) \in Nat
             /\ \A i \in 1 .. Len(file) : new[i] = file[i]
             /\ new[Len(file) + 1] = Line(e)
             /\ \A c : In(new, c) <=> In(file, c) \/ e.cmd = c
<1> DEFINE new == Append(file, Line(e))
<1>1. Line(e) \in SavedEntry /\ Line(e).cmd = e.cmd
  BY DEF Line, SavedEntry, Entry
<1>2. /\ new \in Seq(SavedEntry) /\ Len(new) = Len(file) + 1 /\ Len(file) \in Nat
      /\ \A i \in 1 .. Len(file) : new[i] = file[i]
      /\ new[Len(file) + 1] = Line(e)
  BY <1>1, AppendProperties, LenProperties
<1> HIDE DEF new
<1>3. \A i : i \in 1 .. Len(new) <=> i \in 1 .. Len(file) \/ i = Len(file) + 1
  BY <1>2
<1>4. \A c : In(new, c) <=> In(file, c) \/ e.cmd = c
  BY <1>1, <1>2, <1>3 DEF In
<1> QED BY <1>2, <1>4 DEF new

LEMMA WriteEntryStep == ASSUME QueueInv, WriteEntry PROVE QueueInv'
<1> USE DEF QueueInv
<1>1. /\ pc = "write" /\ commands \in Seq(Entry) /\ OneHere(commands) /\ saved \in Seq(SavedEntry)
      /\ UNCHANGED <<now, incoming, changed, todo, request, deleted, runs, pass, mixed, reread>>
  BY DEF WriteEntry, HereInv, QueueTypes
<1>2. DOMAIN commands = 1 .. Len(commands) /\ Len(commands) \in Nat
  BY <1>1, LenProperties
<1>3. PICK i \in 1 .. Len(commands) :
        /\ commands[i].here
        /\ commands' = Mark(commands, i + 1)
        /\ \/ saved' = Append(saved, Line(commands[i])) /\ UNCHANGED failures
           \/ Fails /\ UNCHANGED saved
        /\ IF i = Len(commands) THEN pc' = "idle" /\ kept' = Kept(saved') ELSE UNCHANGED <<pc, kept>>
  BY <1>2 DEF WriteEntry
<1> DEFINE e == commands[i]
<1>4. HereAt(commands, i) /\ e \in Entry /\ e.cmd \in Commands
  <2>1. HereAt(commands, i) BY <1>1, <1>3 DEF OneHere, HereAt
  <2> QED BY <1>1, <2>1, EntryFields
<1>5. /\ i + 1 \in Int
      /\ (i = Len(commands) => i + 1 \notin 1 .. Len(commands))
      /\ (i # Len(commands) => i + 1 \in 1 .. Len(commands))
  <2> DEFINE n == Len(commands)
  <2>1. n \in Nat /\ i \in 1 .. n BY <1>2
  <2> HIDE DEF n
  <2>2. i + 1 \in Int /\ (i = n => i + 1 \notin 1 .. n) /\ (i # n => i + 1 \in 1 .. n) BY <2>1
  <2> QED BY <2>2 DEF n
<1>6. /\ commands' \in Seq(Entry) /\ Len(commands') = Len(commands)
      /\ i + 1 \in 1 .. Len(commands) => HereAt(commands', i + 1)
      /\ i + 1 \notin 1 .. Len(commands) => NoneHere(commands')
      /\ Text(commands') = Text(commands)
      /\ \A c : In(commands', c) <=> In(commands, c)
  BY <1>1, <1>3, <1>5, MarkIs, MarkHere, MarkText
<1>7. pc' \in {"idle", "write"} /\ (pc' = "write" <=> i # Len(commands)) /\ (pc' = "write" => kept' = kept)
  BY <1>1, <1>3
<1>8. /\ failures' \in Nat /\ (failures > 0 => failures' > 0) /\ (failures' = 0 => failures = 0)
      /\ failures' = 0 => saved' = Append(saved, Line(e))
  <2>1. failures \in Nat BY DEF QueueTypes
  <2>2. CASE saved' = Append(saved, Line(e)) /\ UNCHANGED failures BY <2>1, <2>2
  <2>3. CASE Fails
    <3>1. failures' = failures + 1 BY <2>3 DEF Fails
    <3> QED BY <2>1, <3>1
  <2> QED BY <1>3, <2>2, <2>3
<1> DEFINE more == Append(saved, Line(e))
<1>9. /\ more \in Seq(SavedEntry) /\ Len(more) = Len(saved) + 1 /\ Len(saved) \in Nat
      /\ \A j \in 1 .. Len(saved) : more[j] = saved[j]
      /\ more[Len(saved) + 1] = Line(e)
      /\ \A c : In(more, c) <=> In(saved, c) \/ e.cmd = c
  <2> HIDE DEF e
  <2> QED BY <1>1, <1>4, AppendLine
<1>10. saved' \in Seq(SavedEntry) /\ (failures' = 0 => saved' = more)
  BY <1>1, <1>3, <1>8, <1>9
<1>11. \A c : Gone(c) => Gone(c)'
  BY <1>1, <1>8 DEF Gone
<1>12. ASSUME failures' > 0 PROVE \A c : Gone(c)'
  BY <1>12 DEF Gone
<1>13. failures' > 0 \/ failures' = 0 BY <1>8
<1>14. e.cmd = commands[i].cmd /\ In(commands, e.cmd)
  BY DEF In
<1> HIDE DEF more, e
<1>15. Named(saved') \subseteq Commands /\ \A c : c \in Named(saved') <=> In(saved', c)
  <2>1. DOMAIN saved' = 1 .. Len(saved') /\ \A j \in 1 .. Len(saved') : saved'[j] \in SavedEntry
    BY <1>10, LenProperties, ElementOfSeq
  <2> QED BY <2>1 DEF Named, In, SavedEntry
<1>16. kept' \subseteq Commands
  <2>1. kept \subseteq Commands BY DEF QueueTypes
  <2>2. CASE i = Len(commands) BY <1>3, <1>15, <2>1, <2>2 DEF Kept
  <2>3. CASE i # Len(commands) BY <1>3, <2>1, <2>3
  <2> QED BY <2>2, <2>3
<1>17. QueueTypes'
  BY <1>1, <1>6, <1>7, <1>8, <1>10, <1>16 DEF QueueTypes
<1>18. HereInv'
  <2>1. HereInv' <=> IF pc' = "write" THEN OneHere(commands') ELSE NoneHere(commands')
    BY <1>7 DEF HereInv, OneHere, NoneHere, HereAt
  <2>2. CASE i = Len(commands) BY <1>5, <1>6, <1>7, <2>1, <2>2
  <2>3. CASE i # Len(commands)
    <3>1. HereAt(commands', i + 1) /\ i + 1 \in 1 .. Len(commands') BY <1>5, <1>6, <2>3
    <3>2. OneHere(commands') BY <3>1 DEF OneHere
    <3> QED BY <1>7, <2>1, <2>3, <3>2
  <2> QED BY <2>2, <2>3
<1>19. \A c \in Commands : In(saved', c) => Gone(c)' \/ In(commands', c)
  <2> SUFFICES ASSUME NEW c \in Commands, In(saved', c), ~Gone(c)' PROVE In(commands', c)
    OBVIOUS
  <2>1. saved' = more /\ ~Gone(c) BY <1>10, <1>11, <1>12, <1>13
  <2>2. In(saved, c) \/ c = e.cmd BY <1>9, <2>1
  <2>3. In(saved, c) => In(commands, c) BY <1>1, <2>1 DEF WrittenInv
  <2> QED BY <1>6, <1>14, <2>2, <2>3
<1>20. WrittenInv'
  BY <1>19 DEF WrittenInv, In
<1>21. KeptInv'
  <2> SUFFICES ASSUME NEW c \in kept', ~Gone(c)'
               PROVE  /\ In(commands', c)
                      /\ pc' # "write" => In(saved', c)
                      /\ pc' = "write" /\ ~mixed => In(saved', c) \/ Ahead(commands', c) # {}
    BY <1>1 DEF KeptInv, In, Ahead
  <2>1. saved' = more /\ ~Gone(c) /\ c \in Commands BY <1>10, <1>11, <1>12, <1>13, <1>16
  <2>2. \A d : In(saved', d) <=> In(saved, d) \/ e.cmd = d BY <1>9, <2>1
  <2>3. /\ Ahead(commands', c) = Ahead(commands, c) \ {i}
        /\ i \in Ahead(commands, c) <=> e.cmd = c
        /\ i = Len(commands) => Ahead(commands, c) \subseteq {i}
    BY <1>1, <1>3, <1>4, <1>14, StepAhead
  <2>4. c \in kept => /\ In(commands, c)
                      /\ ~mixed => In(saved, c) \/ Ahead(commands, c) # {}
    BY <1>1, <2>1 DEF KeptInv
  <2>5. CASE i = Len(commands)
    <3>1. c \in Named(saved') \/ (c \in kept /\ ~mixed) BY <1>3, <2>5 DEF Kept
    <3>2. In(saved', c) BY <1>15, <2>2, <2>3, <2>4, <2>5, <3>1
    <3>3. In(commands', c) BY <1>19, <2>1, <3>2
    <3> QED BY <1>7, <2>5, <3>2, <3>3
  <2>6. CASE i # Len(commands)
    <3>1. c \in kept BY <1>7, <2>6
    <3>2. In(commands', c) BY <1>6, <2>4, <3>1
    <3>3. ~mixed => In(saved', c) \/ Ahead(commands', c) # {} BY <2>2, <2>3, <2>4, <3>1
    <3> QED BY <1>7, <2>6, <3>2, <3>3
  <2> QED BY <2>5, <2>6
<1>22. OrderInv'
  BY <1>7 DEF OrderInv
<1>23. SaveInv'
  <2>1. ASSUME Matching'
        PROVE  /\ saved' = more /\ Len(saved) = i - 1
               /\ \A j \in 1 .. i - 1 : saved[j] = Line(commands[j])
    <3>1. Matching BY <1>1, <1>8, <2>1 DEF Matching
    <3>2. WrittenTo(commands, saved) BY <1>1, <3>1 DEF SaveInv
    <3>3. failures' = 0 BY <2>1 DEF Matching
    <3> QED BY <1>4, <1>10, <3>2, <3>3 DEF WrittenTo
  <2>2. ASSUME Matching'
        PROVE  Len(saved') = i /\ \A j \in 1 .. i : saved'[j] = Line(commands[j])
    <3>1. i \in Nat BY <1>2
    <3>2. Len(saved') = i BY <1>9, <2>1, <2>2, <3>1
    <3>3. \A j \in 1 .. i : j \in 1 .. i - 1 \/ j = i BY <3>1
    <3> QED BY <1>9, <2>1, <2>2, <3>1, <3>2, <3>3 DEF e
  <2>3. \A j \in 1 .. Len(commands) : Line(commands'[j]) = Line(commands[j])
    BY <1>1, <1>3, <1>5, MarkIs DEF Line
  <2>4. CASE i = Len(commands)
    <3>1. ASSUME Matching' PROVE saved' = Text(commands)
      <4>1. /\ Text(commands) \in Seq(SavedEntry) /\ Len(Text(commands)) = Len(commands)
        BY <1>1, TextIs
      <4>2. \A j \in 1 .. Len(commands) : Text(commands)[j] = Line(commands[j])
        BY <1>2 DEF Text
      <4>3. Len(saved') = Len(Text(commands)) /\ \A j \in 1 .. Len(saved') : saved'[j] = Text(commands)[j]
        BY <2>2, <2>4, <3>1, <4>1, <4>2
      <4> QED BY <1>10, <4>1, <4>3, SeqEqual
    <3>2. Matching' => Bag(saved)' = Bag(Text(commands))'
      <4>1. Matching' => saved' = Text(commands') BY <1>6, <3>1
      <4> QED BY <4>1 DEF Bag, Text
    <3> QED BY <1>7, <2>4, <3>2 DEF SaveInv
  <2>5. CASE i # Len(commands)
    <3>1. HereAt(commands', i + 1) BY <1>5, <1>6, <2>5
    <3>2. ASSUME Matching', NEW k \in 1 .. Len(commands'), HereAt(commands', k)
          PROVE  Len(saved') = k - 1 /\ \A j \in 1 .. k - 1 : saved'[j] = Line(commands'[j])
      <4>1. k = i + 1 BY <3>1, <3>2 DEF HereAt
      <4>2. k - 1 = i /\ \A j \in 1 .. i : j \in 1 .. Len(commands) BY <1>2, <4>1
      <4> QED BY <2>2, <2>3, <3>2, <4>2
    <3>3. Matching' => WrittenTo(commands, saved)' BY <3>2 DEF WrittenTo, HereAt
    <3> QED BY <1>7, <2>5, <3>3 DEF SaveInv
  <2> QED BY <2>4, <2>5
<1> QED BY <1>17, <1>18, <1>20, <1>21, <1>22, <1>23

LEMMA AddEventStep == ASSUME QueueInv, NEW c \in Commands, AddEvent(c) PROVE QueueInv'
<1> USE DEF QueueInv
<1>1. /\ commands \in Seq(Entry) /\ commands' = Append(commands, NewEntry(c, FALSE))
      /\ request' = "added" /\ pass' = [pass EXCEPT !.clean = FALSE]
      /\ UNCHANGED <<now, incoming, saved, changed, pc, todo, deleted, runs, kept, mixed, reread, failures>>
  BY DEF AddEvent, QueueTypes, ofSaves
<1>2. /\ commands' \in Seq(Entry)
      /\ NoneHere(commands) => NoneHere(commands')
      /\ OneHere(commands) => OneHere(commands')
      /\ \A d : In(commands, d) => In(commands', d)
      /\ \A d : Ahead(commands, d) \subseteq Ahead(commands', d)
  BY <1>1, AppendIs
<1>3. pass' \in [last : 0 .. MaxTime, clean : BOOLEAN] /\ pass'.clean = FALSE
  BY <1>1 DEF QueueTypes
<1>4. QueueTypes'
  BY <1>1, <1>2, <1>3 DEF QueueTypes
<1>5. HereInv'
  BY <1>1, <1>2 DEF HereInv, NoneHere, OneHere, HereAt
<1>6. KeptInv'
  <2> SUFFICES ASSUME NEW d \in kept', ~Gone(d)'
               PROVE  /\ pc # "down" => In(commands', d)
                      /\ pc # "write" => In(saved, d)
                      /\ pc = "write" /\ ~mixed => In(saved, d) \/ Ahead(commands', d) # {}
    BY <1>1 DEF KeptInv, In, Ahead
  <2>1. d \in kept /\ ~Gone(d) BY <1>1 DEF Gone
  <2>2. /\ pc # "down" => In(commands, d)
        /\ pc # "write" => In(saved, d)
        /\ pc = "write" /\ ~mixed => In(saved, d) \/ Ahead(commands, d) # {}
    BY <2>1 DEF KeptInv
  <2> QED BY <1>2, <2>2
<1>7. WrittenInv'
  BY <1>1, <1>2 DEF WrittenInv, Gone, In
<1>8. OrderInv' /\ SaveInv'
  BY <1>1, <1>3 DEF OrderInv, SaveInv, Matching
<1> QED BY <1>4, <1>5, <1>6, <1>7, <1>8

\* A beginning of the file.
LEMMA PartIs ==
  ASSUME NEW file \in Seq(SavedEntry), NEW n \in 0 .. Len(file)
  PROVE  LET part == SubSeq(file, 1, n)
         IN  /\ part \in Seq(SavedEntry) /\ Len(part) = n /\ n \in Nat /\ Len(file) \in Nat
             /\ \A i \in 1 .. n : i \in 1 .. Len(file) /\ part[i] = file[i]
<1> DEFINE part == SubSeq(file, 1, n)
<1>1. Len(file) \in Nat /\ n \in Nat /\ n \in Int /\ 1 \in Int
  BY LenProperties
<1>2. \A i \in 1 .. n : i \in 1 .. Len(file) /\ 1 + i - 1 = i
  BY <1>1
<1>3. \A i \in 1 .. n : file[i] \in SavedEntry
  BY <1>2, ElementOfSeq
<1>4. part \in Seq(SavedEntry)
  BY <1>1, <1>3, SubSeqProperties
<1>5. Len(part) = n /\ \A i \in 1 .. n : part[i] = file[1 + i - 1]
  BY <1>1, <1>3, SubSeqProperties
<1> QED BY <1>1, <1>2, <1>4, <1>5

\* The process dies, in the middle of a save or elsewhere.
LEMMA DiesStep ==
  ASSUME QueueInv, Forgotten, pc # "down",
         pass' \in [last : 0 .. MaxTime, clean : BOOLEAN], deleted \subseteq deleted',
         UNCHANGED <<now, incoming, runs, mixed, reread, failures>>
  PROVE  QueueInv'
<1> USE DEF QueueInv
<1>1. /\ commands' = <<>> /\ changed' = FALSE /\ pc' = "down" /\ todo' = {} /\ request' = "none"
      /\ commands' \in Seq(Entry) /\ Len(commands') = 0
  BY EmptySeq DEF Forgotten
<1>2. /\ saved \in Seq(SavedEntry) /\ kept \subseteq Commands
  BY DEF QueueTypes
<1>3. saved' \in Seq(SavedEntry) /\ kept' \subseteq kept
  <2>1. CASE pc = "write"
    <3>1. PICK n \in 0 .. Len(saved) : saved' = SubSeq(saved, 1, n) BY <2>1 DEF Forgotten
    <3>2. kept' = kept \cap Named(saved') BY <2>1 DEF Forgotten
    <3> QED BY <1>2, <3>1, <3>2, PartIs
  <2>2. CASE pc # "write" BY <1>2, <2>2 DEF Forgotten
  <2> QED BY <2>1, <2>2
<1>4. QueueTypes'
  BY <1>1, <1>2, <1>3 DEF QueueTypes
<1>5. HereInv'
  BY <1>1 DEF HereInv, NoneHere
<1>6. KeptInv'
  <2> SUFFICES ASSUME NEW c \in kept', ~Gone(c)' PROVE In(saved', c)
    BY <1>1 DEF KeptInv, In
  <2>1. c \in kept /\ ~Gone(c) BY <1>3 DEF Gone
  <2>2. CASE pc = "write"
    <3>1. c \in Named(saved') BY <2>2 DEF Forgotten
    <3>2. DOMAIN saved' = 1 .. Len(saved') BY <1>3, LenProperties
    <3> QED BY <3>1, <3>2 DEF Named, In
  <2>3. CASE pc # "write"
    <3>1. In(saved, c) /\ saved' = saved BY <2>1, <2>3 DEF KeptInv, Forgotten
    <3> QED BY <3>1
  <2> QED BY <2>2, <2>3
<1>7. WrittenInv' /\ OrderInv' /\ SaveInv'
  BY <1>1 DEF WrittenInv, OrderInv, SaveInv
<1> QED BY <1>4, <1>5, <1>6, <1>7

\* What the walk has still to come to stays before it when other entries are removed.
LEMMA LeftAhead ==
  ASSUME NEW list, NEW new, Len(list) \in Nat, Len(new) \in Nat, NEW K, NEW p,
         Rearranges(p, new, list, K), K \subseteq 1 .. Len(list),
         \A m, n \in 1 .. Len(new) : m < n => p[m] < p[n],
         \A i \in 1 .. Len(list) : list[i].here => i \in K,
         NEW d, NEW j \in Ahead(list, d), j \in K
  PROVE  Ahead(new, d) # {}
<1>1. /\ \A n \in 1 .. Len(new) : p[n] \in K /\ p[n] \in 1 .. Len(list) /\ new[n] = list[p[n]]
      /\ \A i \in K : \E n \in 1 .. Len(new) : p[n] = i
  BY DEF Rearranges
<1>2. PICK i \in 1 .. j : list[i].here BY DEF Ahead
<1>3. j \in 1 .. Len(list) /\ i \in 1 .. Len(list) /\ i <= j /\ list[j].cmd = d BY <1>2 DEF Ahead
<1>4. PICK n \in 1 .. Len(new) : p[n] = j BY <1>1
<1>5. PICK m \in 1 .. Len(new) : p[m] = i BY <1>1, <1>2, <1>3
<1>6. m <= n
  <2>1. ~(n < m) BY <1>3, <1>4, <1>5
  <2> QED BY <2>1
<1>7. new[n].cmd = d /\ new[m].here /\ m \in 1 .. n BY <1>1, <1>2, <1>3, <1>4, <1>5, <1>6
<1>8. n \in Ahead(new, d) BY <1>7 DEF Ahead
<1> QED BY <1>8

LEMMA DelEventStep ==
  ASSUME QueueInv, NEW c \in Commands, NEW actual \in BOOLEAN, DelEvent(c, actual)
  PROVE  QueueInv'
<1> USE DEF QueueInv
<1> DEFINE rest == Without(commands, c, actual)
           dangling == \E e \in Range(commands) : e.here /\ e.cmd = c /\ e.actual = actual
           K == Left(commands, c, actual)
<1>1. /\ commands \in Seq(Entry) /\ DOMAIN commands = 1 .. Len(commands)
      /\ pass' = [pass EXCEPT !.clean = FALSE]
      /\ deleted' = deleted \cup { d \in {c} : rest # commands }
      /\ UNCHANGED <<now, incoming, runs, reread, failures>> /\ pc # "down"
      /\ saved \in Seq(SavedEntry)
  BY LenProperties DEF DelEvent, QueueTypes
<1>2. rest \in Seq(Entry) /\ \E p : /\ Rearranges(p, rest, commands, K)
                                   /\ \A m, n \in 1 .. Len(rest) : m < n => p[m] < p[n]
  BY <1>1, WithoutKeeps
<1>3. PICK p : /\ Rearranges(p, rest, commands, K)
               /\ \A m, n \in 1 .. Len(rest) : m < n => p[m] < p[n]
  BY <1>2
<1>4. dangling <=> \E i \in 1 .. Len(commands) : commands[i].here /\ i \notin K
  BY <1>1, EntryFields DEF Range, Left
<1>5. K \subseteq 1 .. Len(commands)
  BY DEF Left
<1>6. /\ NoneHere(commands) => NoneHere(rest) /\ ~dangling
      /\ OneHere(commands) /\ ~dangling => OneHere(rest)
      /\ OneHere(commands) /\ dangling => NoneHere(rest)
  <2>1. NoneHere(commands) => ~dangling BY <1>4 DEF NoneHere
  <2>2. ~dangling => \A i \in 1 .. Len(commands) : commands[i].here => i \in K BY <1>4
  <2> HIDE DEF rest, dangling, K
  <2> QED BY <1>3, <1>4, <1>5, <2>1, <2>2, RearrangedHere
<1>7. \A d : In(commands, d) => In(rest, d) \/ (d = c /\ c \in deleted')
  <2> SUFFICES ASSUME NEW d, In(commands, d), ~In(rest, d) PROVE d = c /\ c \in deleted'
    OBVIOUS
  <2>1. rest # commands OBVIOUS
  <2>2. c \in deleted' BY <1>1, <2>1
  <2>3. PICK i \in 1 .. Len(commands) : commands[i].cmd = d BY DEF In
  <2>4. d # c => i \in K BY <2>3 DEF Left
  <2>5. i \in K => In(rest, d)
    <3> HIDE DEF rest, K
    <3> QED BY <1>3, <1>5, <2>3, RearrangedIn
  <2> QED BY <2>2, <2>4, <2>5
<1>8. pass' \in [last : 0 .. MaxTime, clean : BOOLEAN] /\ pass'.clean = FALSE /\ deleted \subseteq deleted'
  BY <1>1 DEF QueueTypes
<1>9. dangling => pc \in {"run", "write"}
  BY <1>6 DEF HereInv
<1>10. ~dangling => \A d : d # c /\ Ahead(commands, d) # {} => Ahead(rest, d) # {}
  <2> SUFFICES ASSUME ~dangling, NEW d, d # c, NEW j \in Ahead(commands, d) PROVE Ahead(rest, d) # {}
    OBVIOUS
  <2>1. j \in K BY DEF Left, Ahead
  <2>2. \A i \in 1 .. Len(commands) : commands[i].here => i \in K BY <1>4
  <2>3. Len(commands) \in Nat /\ Len(rest) \in Nat BY <1>1, <1>2, LenProperties
  <2> HIDE DEF rest, dangling, K
  <2> QED BY <1>3, <1>5, <2>1, <2>2, <2>3, LeftAhead
<1>11. \/ /\ commands' = rest /\ request' = "deleted"
          /\ pc' = IF ~dangling THEN pc ELSE IF pc = "run" THEN "save" ELSE "idle"
          /\ mixed' = (mixed \/ (dangling /\ pc = "write"))
          /\ kept' = IF dangling /\ pc = "write" THEN Named(saved) ELSE kept
          /\ UNCHANGED <<changed, saved, todo>>
       \/ Forgotten /\ UNCHANGED mixed
  BY DEF DelEvent
<1> HIDE DEF rest, dangling, K
<1>12. CASE /\ commands' = rest /\ request' = "deleted"
            /\ pc' = IF ~dangling THEN pc ELSE IF pc = "run" THEN "save" ELSE "idle"
            /\ mixed' = (mixed \/ (dangling /\ pc = "write"))
            /\ kept' = IF dangling /\ pc = "write" THEN Named(saved) ELSE kept
            /\ UNCHANGED <<changed, saved, todo>>
  <2>1. Named(saved) \subseteq Commands /\ \A d : d \in Named(saved) <=> In(saved, d)
    <3>1. DOMAIN saved = 1 .. Len(saved) /\ \A j \in 1 .. Len(saved) : saved[j] \in SavedEntry
      BY <1>1, LenProperties, ElementOfSeq
    <3> QED BY <3>1 DEF Named, In, SavedEntry
  <2>2. kept' \subseteq Commands /\ mixed' \in BOOLEAN
        /\ pc' \in {"idle", "load", "run", "save", "write"}
    BY <1>1, <1>12, <2>1 DEF QueueTypes
  <2>3. QueueTypes' BY <1>1, <1>2, <1>8, <1>12, <2>2 DEF QueueTypes
  <2>4. HereInv'
    <3>1. HereInv' <=> IF pc' \in {"run", "write"} THEN OneHere(commands') ELSE NoneHere(commands')
      BY DEF HereInv, NoneHere, OneHere, HereAt
    <3>2. CASE dangling BY <1>6, <1>9, <1>12, <3>1, <3>2 DEF HereInv
    <3>3. CASE ~dangling BY <1>6, <1>12, <3>1, <3>3 DEF HereInv
    <3> QED BY <3>2, <3>3
  <2>5. ASSUME NEW d, ~Gone(d)' PROVE ~Gone(d) /\ (In(commands, d) => In(commands', d))
    <3>1. ~Gone(d) /\ d \notin deleted' BY <1>1, <1>8, <2>5 DEF Gone
    <3> QED BY <1>7, <1>12, <3>1
  <2>6. WrittenInv'
    <3> SUFFICES ASSUME pc' = "write", NEW d \in Commands, In(saved', d), ~Gone(d)'
                 PROVE  In(commands', d)
      BY DEF WrittenInv, In
    <3>1. pc = "write" BY <1>12
    <3> QED BY <1>12, <2>5, <3>1 DEF WrittenInv
  <2>7. KeptInv'
    <3> SUFFICES ASSUME NEW d \in kept', ~Gone(d)'
                 PROVE  /\ In(commands', d)
                        /\ pc' # "write" => In(saved, d)
                        /\ pc' = "write" /\ ~mixed' => In(saved, d) \/ Ahead(commands', d) # {}
      BY <1>12 DEF KeptInv, In, Ahead
    <3>1. ~Gone(d) /\ (In(commands, d) => In(commands', d)) BY <2>5
    <3>2. CASE dangling /\ pc = "write"
      <4>1. In(saved, d) /\ d \in Commands BY <1>12, <2>1, <3>2
      <4>2. In(commands, d) BY <3>1, <3>2, <4>1 DEF WrittenInv
      <4> QED BY <1>12, <3>1, <3>2, <4>1, <4>2
    <3>3. CASE ~(dangling /\ pc = "write")
      <4>1. d \in kept BY <1>12, <3>3
      <4>2. /\ In(commands, d)
            /\ pc # "write" => In(saved, d)
            /\ pc = "write" /\ ~mixed => In(saved, d) \/ Ahead(commands, d) # {}
        BY <1>1, <3>1, <4>1 DEF KeptInv
      <4>3. pc' = "write" => pc = "write" /\ ~dangling /\ (~mixed' => ~mixed)
        <5>1. CASE dangling BY <1>12, <3>3, <5>1
        <5>2. CASE ~dangling BY <1>12, <5>2
        <5> QED BY <5>1, <5>2
      <4>4. pc' # "write" => pc # "write" BY <1>12, <3>3
      <4>5. ASSUME pc' = "write", ~mixed', ~In(saved, d) PROVE Ahead(commands', d) # {}
        <5>1. Ahead(commands, d) # {} BY <4>2, <4>3, <4>5
        <5>2. CASE d = c
          <6>1. Len(commands) \in Nat /\ Len(rest) \in Nat BY <1>1, <1>2, LenProperties
          <6>2. rest = commands BY <1>1, <2>5, <5>2 DEF Gone
          <6> QED BY <1>12, <5>1, <6>2
        <5>3. CASE d # c BY <1>10, <1>12, <4>3, <4>5, <5>1, <5>3
        <5> QED BY <5>2, <5>3
      <4> QED BY <3>1, <4>2, <4>4, <4>5
    <3> QED BY <3>2, <3>3
  <2>8. OrderInv' /\ SaveInv' BY <1>8, <1>12 DEF OrderInv, SaveInv, Matching
  <2> QED BY <2>3, <2>4, <2>6, <2>7, <2>8
<1>13. CASE Forgotten /\ UNCHANGED mixed
  <2> HIDE DEF QueueInv
  <2> QED BY <1>1, <1>8, <1>13, DiesStep
<1> QED BY <1>11, <1>12, <1>13

LEMMA EndRequestStep == ASSUME QueueInv, EndRequest PROVE QueueInv'
<1> USE DEF QueueInv
<1>1. /\ commands \in Seq(Entry)
      /\ UNCHANGED <<now, incoming, saved, pc, todo, deleted, runs, kept, reread, failures>>
  BY DEF EndRequest, QueueTypes
<1>2. CASE /\ changed' = TRUE /\ request' \in {"sort", "none"}
           /\ UNCHANGED <<commands, pass, mixed>>
  <2>1. QueueTypes' BY <1>1, <1>2 DEF QueueTypes
  <2>2. HereInv' BY <1>1, <1>2 DEF HereInv, NoneHere, OneHere, HereAt
  <2>3. KeptInv' /\ WrittenInv' BY <1>1, <1>2 DEF KeptInv, WrittenInv, Gone, In, Ahead
  <2>4. OrderInv' BY <1>1, <1>2 DEF OrderInv, Ascending, NextFrom
  <2>5. SaveInv' BY <1>2 DEF SaveInv, Matching
  <2> QED BY <2>1, <2>2, <2>3, <2>4, <2>5
<1>3. CASE /\ request = "sort" /\ request' = "none"
           /\ commands' = Sorted(commands) /\ UNCHANGED changed
           /\ pass' = [pass EXCEPT !.clean = FALSE]
           /\ mixed' = (mixed \/ (pc = "write" /\ commands' # commands))
  <2>1. commands' \in Seq(Entry) /\ \E p : Rearranges(p, commands', commands, 1 .. Len(commands))
    BY <1>1, <1>3, SortedSorts
  <2>2. PICK p : Rearranges(p, commands', commands, 1 .. Len(commands)) BY <2>1
  <2>3. (NoneHere(commands) => NoneHere(commands')) /\ (OneHere(commands) => OneHere(commands'))
    BY <2>2, RearrangedHere
  <2>4. \A c : In(commands, c) <=> In(commands', c) BY <1>1, <1>3, SortedIn
  <2>5. pass' \in [last : 0 .. MaxTime, clean : BOOLEAN] /\ pass'.clean = FALSE
    BY <1>3 DEF QueueTypes
  <2>6. Bag(Text(commands)) = Bag(Text(commands')) BY <1>1, <1>3, SortedBag
  <2>7. QueueTypes' BY <1>1, <1>3, <2>1, <2>5 DEF QueueTypes
  <2>8. HereInv' BY <1>1, <2>3 DEF HereInv, NoneHere, OneHere, HereAt
  <2>9. pc = "write" /\ ~mixed' => commands' = commands /\ ~mixed BY <1>3
  <2>10. KeptInv'
    <3> SUFFICES ASSUME NEW d \in kept', ~Gone(d)'
                 PROVE  /\ pc # "down" => In(commands', d)
                        /\ pc # "write" => In(saved, d)
                        /\ pc = "write" /\ ~mixed' => In(saved, d) \/ Ahead(commands', d) # {}
      BY <1>1 DEF KeptInv, In, Ahead
    <3>1. d \in kept /\ ~Gone(d) BY <1>1 DEF Gone
    <3>2. /\ pc # "down" => In(commands, d)
          /\ pc # "write" => In(saved, d)
          /\ pc = "write" /\ ~mixed => In(saved, d) \/ Ahead(commands, d) # {}
      BY <3>1 DEF KeptInv
    <3> QED BY <2>4, <2>9, <3>2
  <2>11. WrittenInv' BY <1>1, <2>4 DEF WrittenInv, Gone, In
  <2>12. OrderInv' BY <2>5 DEF OrderInv
  <2>13. SaveInv'
    <3>1. CASE pc = "down" BY <1>1, <3>1 DEF SaveInv
    <3>2. CASE pc = "write"
      <4>1. Matching' => Matching /\ commands' = commands BY <1>1, <1>3, <2>9, <3>2 DEF Matching
      <4>2. Matching' => WrittenTo(commands', saved') BY <1>1, <3>2, <4>1 DEF SaveInv
      <4> QED BY <1>1, <3>2, <4>2 DEF SaveInv, WrittenTo, HereAt
    <3>3. CASE pc \notin {"down", "write"}
      <4>1. mixed' = mixed BY <1>3, <3>3 DEF QueueTypes
      <4>2. pc' # "write" BY <1>1, <3>3
      <4> QED BY <1>1, <1>3, <2>6, <3>3, <4>1, <4>2, SaveInvKept
    <3> QED BY <3>1, <3>2, <3>3
  <2> QED BY <2>7, <2>8, <2>10, <2>11, <2>12, <2>13
<1> QED BY <1>2, <1>3 DEF EndRequest, Flag

LEMMA CrashStep == ASSUME QueueInv, Crash PROVE QueueInv'
<1>1. /\ Forgotten /\ pc # "down"
      /\ UNCHANGED <<now, incoming, deleted, runs, pass, mixed, reread, failures>>
  BY DEF Crash
<1>2. pass' \in [last : 0 .. MaxTime, clean : BOOLEAN] /\ deleted \subseteq deleted'
  BY <1>1 DEF QueueInv, QueueTypes
<1> QED BY <1>1, <1>2, DiesStep

LEMMA RestartStep == ASSUME QueueInv, Restart PROVE QueueInv'
<1> USE DEF QueueInv
<1>1. /\ pc = "down" /\ pc' = "idle"
      /\ UNCHANGED <<now, incoming, saved, todo, request, deleted, runs, pass, kept>>
      /\ saved \in Seq(SavedEntry) /\ commands \in Seq(Entry) /\ NoneHere(commands)
  BY DEF Restart, QueueTypes, HereInv
<1>2. WrittenInv' /\ OrderInv'
  BY <1>1 DEF WrittenInv, OrderInv
<1>3. CASE Fails /\ UNCHANGED <<commands, changed, mixed, reread>>
  <2>1. failures' \in Nat /\ failures' > 0 BY <1>3 DEF Fails, QueueTypes
  <2>2. QueueTypes' BY <1>1, <1>3, <2>1 DEF QueueTypes
  <2>3. HereInv' BY <1>1, <1>3 DEF HereInv, NoneHere
  <2>4. KeptInv' /\ SaveInv' BY <2>1 DEF KeptInv, SaveInv, Matching, Gone
  <2> QED BY <1>2, <2>2, <2>3, <2>4
<1>4. CASE /\ commands' = Reloaded /\ changed' = (saved # <<>>) /\ UNCHANGED failures
           /\ reread' = (reread \/ mixed) /\ mixed' = FALSE
  <2>1. /\ DOMAIN saved = 1 .. Len(saved) /\ Len(saved) \in Nat
        /\ \A i \in 1 .. Len(saved) : saved[i] \in SavedEntry
    BY <1>1, LenProperties, ElementOfSeq
  <2>2. commands' = [i \in 1 .. Len(saved) |-> NewEntry(saved[i].cmd, saved[i].actual)]
    BY <1>4, <2>1 DEF Reloaded
  <2>3. \A i \in 1 .. Len(saved) :
          LET e == NewEntry(saved[i].cmd, saved[i].actual)
          IN  e \in Entry /\ ~e.here /\ e.cmd = saved[i].cmd
    BY <2>1 DEF SavedEntry, NewEntry, Entry
  <2>4. /\ commands' \in Seq(Entry) /\ Len(commands') = Len(saved)
        /\ \A i \in 1 .. Len(saved) : ~commands'[i].here /\ commands'[i].cmd = saved[i].cmd
    BY <2>1, <2>2, <2>3
  <2>5. changed' \in BOOLEAN /\ reread' \in BOOLEAN /\ mixed' \in BOOLEAN
    BY <1>4 DEF QueueTypes
  <2>6. QueueTypes'
    BY <1>1, <1>4, <2>4, <2>5 DEF QueueTypes
  <2>7. HereInv'
    BY <1>1, <2>4 DEF HereInv, NoneHere
  <2>8. KeptInv'
    <3> SUFFICES ASSUME NEW c \in kept', ~Gone(c)' PROVE In(commands', c) /\ In(saved', c)
      BY <1>1 DEF KeptInv, In
    <3>1. In(saved, c) BY <1>1, <1>4 DEF KeptInv, Gone
    <3>2. In(commands', c) BY <2>4, <3>1 DEF In
    <3> QED BY <1>1, <3>1, <3>2
  <2>9. SaveInv'
    <3> SUFFICES ASSUME ~changed' PROVE Bag(saved') = Bag(Text(commands'))
      BY <1>1 DEF SaveInv, Matching, Bag, Text
    <3>1. saved = <<>> BY <1>4
    <3>2. Len(saved) = 0 BY <3>1, EmptySeq
    <3>3. commands' = <<>> BY <2>4, <3>2
    <3>4. Text(commands') = <<>> BY <3>3 DEF Text
    <3> QED BY <1>1, <3>1, <3>4
  <2> QED BY <1>2, <2>6, <2>7, <2>8, <2>9
<1> QED BY <1>3, <1>4 DEF Restart

LEMMA NextInv == QueueInv /\ [QueueNext]_queueVars => QueueInv'
<1> SUFFICES ASSUME QueueInv, [QueueNext]_queueVars PROVE QueueInv'
  OBVIOUS
<1>1. CASE Tick \/ (\E c \in Commands : SubmitFile(c)) \/ UNCHANGED queueVars
  BY <1>1, OtherSteps
<1>2. ASSUME NEW c \in Commands, AddEvent(c) PROVE QueueInv'
  BY <1>2, AddEventStep
<1>3. ASSUME NEW c \in Commands, NEW actual \in BOOLEAN, DelEvent(c, actual) PROVE QueueInv'
  BY <1>3, DelEventStep
<1>4. CASE BeginPass BY <1>4, BeginPassStep
<1>5. ASSUME NEW c \in Commands, LoadFile(c) PROVE QueueInv'
  BY <1>5, LoadFileStep
<1>6. CASE EndLoad BY <1>6, EndLoadStep
<1>7. CASE RunEntry BY <1>7, RunEntryStep
<1>8. CASE BeginSave BY <1>8, BeginSaveStep
<1>9. CASE WriteEntry BY <1>9, WriteEntryStep
<1>10. CASE EndRequest BY <1>10, EndRequestStep
<1>11. CASE Crash BY <1>11, CrashStep
<1>12. CASE Restart BY <1>12, RestartStep
<1> QED BY <1>1, <1>2, <1>3, <1>4, <1>5, <1>6, <1>7, <1>8, <1>9, <1>10, <1>11, <1>12 DEF QueueNext

THEOREM Invariance == QueueSpec => []QueueInv
BY InitInv, NextInv, PTL DEF QueueSpec

-----------------------------------------------------------------------------
(* The theorems. *)

\* The type invariant: in particular the iterator of run_commands or save_commands is
\* at one entry while its walk is under way, whatever requests move or remove, and at
\* none otherwise.
THEOREM QueueTypeCorrect == QueueSpec => []QueueTypeOK
<1>1. QueueInv => QueueTypeOK
  <2> SUFFICES ASSUME QueueInv PROVE QueueTypeOK
    OBVIOUS
  <2>1. QueueTypes /\ HereInv BY DEF QueueInv
  <2>2. Cardinality({ i \in DOMAIN commands : commands[i].here })
          = IF pc \in {"run", "write"} THEN 1 ELSE 0
    BY <2>1, HereCounted DEF QueueTypes, HereInv
  <2> QED BY <2>1, <2>2 DEF QueueTypes, QueueTypeOK, SavedEntry
<1> QED BY <1>1, Invariance, PTL

\* A command that was saved is not lost: until it has run or been deleted it is in
\* the list or, when the process is down, in the .queue file, for any number of
\* crashes and any overlap of requests, runs and saves entry by entry.  What a crash in
\* the middle of a save cuts off the file, or a request that moves or removes entries
\* under one keeps out of it, is no longer counted as saved.
THEOREM SavedStays == QueueSpec => []SavedNeverLost
<1>1. QueueInv => SavedNeverLost
  <2> SUFFICES ASSUME QueueInv, NEW c \in kept, ~Gone(c)
               PROVE  IF pc = "down" THEN \E i \in DOMAIN saved : saved[i].cmd = c ELSE c \in InQueue
    BY DEF SavedNeverLost, Gone
  <2>1. (pc # "down" => In(commands, c)) /\ (pc # "write" => In(saved, c))
    BY DEF QueueInv, KeptInv
  <2>2. CASE pc = "down"
    <3>1. In(saved, c) BY <2>1, <2>2
    <3>2. DOMAIN saved = 1 .. Len(saved) BY LenProperties DEF QueueInv, QueueTypes
    <3> QED BY <2>2, <3>1, <3>2 DEF In
  <2>3. CASE pc # "down"
    <3>1. c \in InQueue BY <2>1, <2>3, InQueueIs DEF QueueInv, QueueTypes
    <3> QED BY <2>3, <3>1
  <2> QED BY <2>2, <2>3
<1> QED BY <1>1, Invariance, PTL

\* When the loop sleeps with nothing under way the .queue file holds the list, for
\* any number of commands and any overlap of requests with runs and saves but one: a
\* request that moved or removed entries while that file was being written.
THEOREM SavedAsListed == QueueSpec => []SavedIsQueue
<1>1. QueueInv => SavedIsQueue
  BY DEF QueueInv, SaveInv, Matching, SavedIsQueue
<1> QED BY <1>1, Invariance, PTL

\* In a pass that no request disturbs commands are run in the order of the times
\* they are due at: what the sort before the pass and the iterator's way through
\* the list, which loses entries as it goes, make sure of.
THEOREM RunInOrder == QueueSpec => RunsInOrder
<1> DEFINE InOrder == \A c \in Commands :
             runs'[c] > runs[c] /\ pass.clean /\ failures = 0 => Due[c] >= pass.last
<1>1. QueueInv /\ [QueueNext]_queueVars => [InOrder]_queueVars
  <2> SUFFICES ASSUME QueueInv, QueueNext, NEW c \in Commands,
                      runs'[c] > runs[c], pass.clean, failures = 0
               PROVE  Due[c] >= pass.last
    BY DEF InOrder
  <2>1. runs \in [Commands -> Nat] /\ runs' # runs
    BY DEF QueueInv, QueueTypes
  <2>2. RunEntry
    BY <2>1 DEF QueueNext, Tick, SubmitFile, AddEvent, DelEvent, BeginPass, LoadFile, EndLoad,
                BeginSave, WriteEntry, EndRequest, Crash, Restart, history, ofSaves
  <2>3. commands \in Seq(Entry) /\ DOMAIN commands = 1 .. Len(commands) /\ pc = "run"
    BY <2>2, LenProperties DEF QueueInv, QueueTypes, RunEntry
  <2>4. PICK i \in 1 .. Len(commands) :
          commands[i].here /\ runs' = [runs EXCEPT ![commands[i].cmd] = @ + 1]
    BY <2>1, <2>2, <2>3 DEF RunEntry
  <2>5. c = commands[i].cmd
    BY <2>1, <2>4
  <2>6. NextFrom(commands, pass.last)
    BY <2>3 DEF QueueInv, OrderInv
  <2>7. pass.last <= Due[c] /\ pass.last \in Nat /\ Due[c] \in Nat
    <3>1. i <= i BY <2>3, LenProperties
    <3>2. pass.last \in 0 .. MaxTime BY DEF QueueInv, QueueTypes
    <3> QED BY <2>3, <2>4, <2>5, <2>6, <3>1, <3>2, EntryFields DEF NextFrom
  <2> QED BY <2>7
<1>2. [][QueueNext]_queueVars /\ []QueueInv => [][InOrder]_queueVars
  BY <1>1, PTL
<1> QED BY <1>2, Invariance, PTL DEF QueueSpec, RunsInOrder

-----------------------------------------------------------------------------
(* How often a command runs: the entries for it are counted.               *)

Places(list, c) == { i \in 1 .. Len(list) : list[i].cmd = c }

\* The entries for c that a run would run once c is due.
Ready(list, c) == { i \in 1 .. Len(list) : list[i].cmd = c /\ ~(c \in Repeated /\ list[i].ran) }

LEMMA Counted ==
  ASSUME NEW list, Len(list) \in Nat, NEW c
  PROVE  /\ IsFiniteSet(Places(list, c)) /\ Cardinality(Places(list, c)) \in Nat
         /\ IsFiniteSet(Ready(list, c)) /\ Cardinality(Ready(list, c)) \in Nat
         /\ Cardinality(Ready(list, c)) <= Cardinality(Places(list, c))
<1>1. IsFiniteSet(1 .. Len(list))
  BY FS_Interval
<1>2. Places(list, c) \in SUBSET (1 .. Len(list)) /\ Ready(list, c) \in SUBSET Places(list, c)
  BY DEF Places, Ready
<1>3. IsFiniteSet(Places(list, c))
  BY <1>1, <1>2, FS_Subset
<1> QED BY <1>2, <1>3, FS_Subset, FS_CardinalityType

LEMMA AheadCounted ==
  ASSUME NEW list, Len(list) \in Nat, NEW c
  PROVE  /\ IsFiniteSet(Ahead(list, c)) /\ Cardinality(Ahead(list, c)) \in Nat
         /\ Cardinality(Ahead(list, c)) <= Cardinality(Places(list, c))
<1>1. IsFiniteSet(Places(list, c)) BY Counted
<1>2. Ahead(list, c) \in SUBSET Places(list, c) BY DEF Ahead, Places
<1> QED BY <1>1, <1>2, FS_Subset, FS_CardinalityType

LEMMA Injects ==
  ASSUME NEW A, NEW B, IsFiniteSet(B), NEW q, \A a \in A : q[a] \in B,
         \A a, b \in A : a # b => q[a] # q[b]
  PROVE  Cardinality(A) <= Cardinality(B)
<1> DEFINE f == [a \in A |-> q[a]]
<1>1. f \in Injection(A, B)
  BY DEF Injection, IsInjective
<1> QED BY <1>1, FS_Injection

\* Each entry of the list new is for the command of another entry of list.
Drawn(q, new, list) ==
  /\ \A n \in 1 .. Len(new) : q[n] \in 1 .. Len(list) /\ new[n].cmd = list[q[n]].cmd
  /\ \A m, n \in 1 .. Len(new) : m # n => q[m] # q[n]

SameRan(q, new, list) == \A n \in 1 .. Len(new) : new[n].ran = list[q[n]].ran

\* No command has more entries than before, whether they were run or not.
Fewer(new, list, c) ==
  /\ Cardinality(Places(new, c)) <= Cardinality(Places(list, c))
  /\ Cardinality(Ready(new, c)) <= Cardinality(Ready(list, c))

LEMMA DrawnFewer ==
  ASSUME NEW new, NEW list, Len(list) \in Nat, NEW q, Drawn(q, new, list), NEW c
  PROVE  /\ Cardinality(Places(new, c)) <= Cardinality(Places(list, c))
         /\ SameRan(q, new, list) => Fewer(new, list, c)
         /\ SameRan(q, new, list) => \A i \in Ready(list, c) :
              (\A n \in 1 .. Len(new) : q[n] # i)
                => Cardinality(Ready(new, c)) + 1 <= Cardinality(Ready(list, c))
<1>1. /\ IsFiniteSet(Places(list, c)) /\ IsFiniteSet(Ready(list, c))
      /\ Cardinality(Ready(list, c)) \in Nat
  BY Counted
<1>2. Cardinality(Places(new, c)) <= Cardinality(Places(list, c))
  <2>1. /\ \A n \in Places(new, c) : q[n] \in Places(list, c)
        /\ \A m, n \in Places(new, c) : m # n => q[m] # q[n]
    BY DEF Drawn, Places
  <2> QED BY <1>1, <2>1, Injects
<1>3. ASSUME SameRan(q, new, list)
      PROVE  /\ \A n \in Ready(new, c) : q[n] \in Ready(list, c) /\ n \in 1 .. Len(new)
             /\ \A m, n \in Ready(new, c) : m # n => q[m] # q[n]
  BY <1>3 DEF Drawn, SameRan, Ready
<1>4. ASSUME SameRan(q, new, list) PROVE Cardinality(Ready(new, c)) <= Cardinality(Ready(list, c))
  BY <1>1, <1>3, <1>4, Injects
<1>5. ASSUME SameRan(q, new, list), NEW i \in Ready(list, c), \A n \in 1 .. Len(new) : q[n] # i
      PROVE  Cardinality(Ready(new, c)) + 1 <= Cardinality(Ready(list, c))
  <2> DEFINE rest == Ready(list, c) \ {i}
  <2>1. IsFiniteSet(rest) /\ Cardinality(rest) = Cardinality(Ready(list, c)) - 1
    BY <1>1, FS_RemoveElement
  <2>2. \A n \in Ready(new, c) : q[n] \in rest
    BY <1>3, <1>5
  <2> HIDE DEF rest
  <2>3. Cardinality(Ready(new, c)) <= Cardinality(rest)
    BY <1>3, <1>5, <2>1, <2>2, Injects
  <2>4. IsFiniteSet(Ready(new, c))
    <3>1. IsFiniteSet(rest) BY <2>1
    <3> DEFINE f == [n \in Ready(new, c) |-> q[n]]
    <3>2. f \in Injection(Ready(new, c), rest) BY <1>3, <1>5, <2>2 DEF Injection, IsInjective
    <3> QED BY <3>1, <3>2, FS_Injection
  <2>5. Cardinality(Ready(new, c)) \in Nat BY <2>4, FS_CardinalityType
  <2> QED BY <1>1, <2>1, <2>3, <2>5
<1> QED BY <1>2, <1>4, <1>5 DEF Fewer

LEMMA MarkFewer ==
  ASSUME NEW list \in Seq(Entry), NEW i \in Int, NEW c PROVE Fewer(Mark(list, i), list, c)
<1> DEFINE new == Mark(list, i)
           q == [n \in 1 .. Len(list) |-> n]
<1>1. /\ Len(new) = Len(list) /\ Len(list) \in Nat
      /\ \A n \in 1 .. Len(list) : new[n].cmd = list[n].cmd /\ new[n].ran = list[n].ran
  BY MarkIs, LenProperties
<1> HIDE DEF new
<1>2. Drawn(q, new, list) /\ SameRan(q, new, list)
  BY <1>1 DEF Drawn, SameRan
<1> QED BY <1>1, <1>2, DrawnFewer DEF new

LEMMA RearrangedFewer ==
  ASSUME NEW p, NEW new, NEW list, Len(list) \in Nat, NEW K, K \subseteq 1 .. Len(list),
         Rearranges(p, new, list, K), NEW c
  PROVE  Fewer(new, list, c)
<1>1. Drawn(p, new, list) /\ SameRan(p, new, list)
  BY DEF Rearranges, Drawn, SameRan
<1> QED BY <1>1, DrawnFewer

LEMMA SortedFewer ==
  ASSUME NEW list \in Seq(Entry), NEW c PROVE Fewer(Sorted(list), list, c)
<1>1. PICK p : Rearranges(p, Sorted(list), list, 1 .. Len(list))
  BY SortedSorts
<1> QED BY <1>1, RearrangedFewer, LenProperties

LEMMA WithoutFewer ==
  ASSUME NEW list \in Seq(Entry), NEW c, NEW actual, NEW d
  PROVE  LET new == Without(list, c, actual)
         IN  /\ Fewer(new, list, d)
             /\ Cardinality(Ahead(new, d)) <= Cardinality(Ahead(list, d))
<1> DEFINE new == Without(list, c, actual)
<1>1. PICK p : /\ Rearranges(p, new, list, Left(list, c, actual))
               /\ \A m, n \in 1 .. Len(new) : m < n => p[m] < p[n]
  BY WithoutKeeps
<1>2. Left(list, c, actual) \subseteq 1 .. Len(list)
  BY DEF Left
<1>3. Len(list) \in Nat /\ Len(new) \in Nat
  BY WithoutKeeps, LenProperties
<1> HIDE DEF new
<1>4. /\ \A n \in 1 .. Len(new) : p[n] \in 1 .. Len(list) /\ new[n] = list[p[n]]
      /\ \A m, n \in 1 .. Len(new) : m # n => p[m] # p[n]
  BY <1>1, <1>2 DEF Rearranges
<1>5. ASSUME NEW n \in Ahead(new, d) PROVE p[n] \in Ahead(list, d)
  <2>1. PICK m \in 1 .. n : new[m].here BY <1>5 DEF Ahead
  <2>2. n \in 1 .. Len(new) /\ m \in 1 .. Len(new) /\ new[n].cmd = d /\ (m < n \/ m = n)
    BY <1>3, <1>5, <2>1 DEF Ahead
  <2>3. p[m] <= p[n] /\ p[m] \in 1 .. Len(list) /\ p[n] \in 1 .. Len(list)
    BY <1>1, <1>3, <1>4, <2>2
  <2>4. p[m] \in 1 .. p[n] BY <1>3, <2>3
  <2>5. list[p[m]].here /\ list[p[n]].cmd = d BY <1>4, <2>1, <2>2
  <2> QED BY <2>3, <2>4, <2>5 DEF Ahead
<1>6. Cardinality(Ahead(new, d)) <= Cardinality(Ahead(list, d))
  <2>1. \A m, n \in Ahead(new, d) : m # n => p[m] # p[n] BY <1>4 DEF Ahead
  <2>2. IsFiniteSet(Ahead(list, d)) BY <1>3, AheadCounted
  <2> QED BY <1>5, <2>1, <2>2, Injects
<1>7. Fewer(new, list, d)
  BY <1>1, <1>2, <1>3, RearrangedFewer
<1> QED BY <1>6, <1>7 DEF new

\* An added entry is one more of its command.
LEMMA AppendCounts ==
  ASSUME NEW list \in Seq(Entry), NEW d \in Commands, NEW c
  PROVE  LET new == Append(list, NewEntry(d, FALSE))
         IN  /\ c # d => Fewer(new, list, c) /\ Cardinality(Ahead(new, c)) <= Cardinality(Ahead(list, c))
             /\ Cardinality(Ahead(new, c)) <= Cardinality(Ahead(list, c)) + 1
             /\ Cardinality(Places(new, c)) <= Cardinality(Places(list, c)) + 1
             /\ Cardinality(Ready(new, c)) <= Cardinality(Ready(list, c)) + 1
<1> DEFINE e == NewEntry(d, FALSE)
           new == Append(list, e)
           n == Len(list) + 1
<1>1. e \in Entry /\ e.cmd = d
  BY DEF NewEntry, Entry
<1> HIDE DEF e
<1>2. /\ Len(new) = n /\ Len(list) \in Nat
      /\ \A i \in 1 .. Len(list) : new[i] = list[i]
      /\ new[n] = e
  BY <1>1, AppendProperties, LenProperties
<1>3. \A i : i \in 1 .. Len(new) <=> i \in 1 .. Len(list) \/ i = n
  BY <1>2
<1> HIDE DEF new
<1>4. /\ Places(new, c) \subseteq Places(list, c) \cup {n}
      /\ Ready(new, c) \subseteq Ready(list, c) \cup {n}
      /\ c # d => Places(new, c) \subseteq Places(list, c) /\ Ready(new, c) \subseteq Ready(list, c)
  BY <1>1, <1>2, <1>3 DEF Places, Ready
<1>8. /\ Ahead(new, c) \subseteq Ahead(list, c) \cup {n}
      /\ c # d => Ahead(new, c) \subseteq Ahead(list, c)
  <2>1. ASSUME NEW j \in Ahead(new, c), j # n PROVE j \in Ahead(list, c)
    <3>1. j \in 1 .. Len(list) /\ new[j].cmd = c BY <1>3, <2>1 DEF Ahead
    <3>2. PICK i \in 1 .. j : new[i].here BY <2>1 DEF Ahead
    <3>3. i \in 1 .. Len(list) BY <1>2, <3>1
    <3> QED BY <1>2, <3>1, <3>2, <3>3 DEF Ahead
  <2>2. n \in Ahead(new, c) => c = d BY <1>1, <1>2 DEF Ahead
  <2> QED BY <2>1, <2>2
<1>9. IsFiniteSet(Ahead(list, c)) /\ Cardinality(Ahead(list, c)) \in Nat
  BY <1>2, AheadCounted
<1>5. /\ IsFiniteSet(Places(list, c)) /\ IsFiniteSet(Ready(list, c))
      /\ Cardinality(Places(list, c)) \in Nat /\ Cardinality(Ready(list, c)) \in Nat
  BY <1>2, Counted
<1>6. ASSUME NEW S, IsFiniteSet(S), Cardinality(S) \in Nat, NEW T, T \subseteq S \cup {n}
      PROVE  Cardinality(T) <= Cardinality(S) + 1
  <2>1. IsFiniteSet(S \cup {n}) /\ Cardinality(S \cup {n}) <= Cardinality(S) + 1
    <3>1. /\ IsFiniteSet(S \cup {n})
          /\ Cardinality(S \cup {n}) = IF n \in S THEN Cardinality(S) ELSE Cardinality(S) + 1
      BY <1>6, FS_AddElement
    <3> QED BY <1>6, <3>1
  <2>2. T \in SUBSET (S \cup {n}) BY <1>6
  <2>3. Cardinality(T) <= Cardinality(S \cup {n}) BY <2>1, <2>2, FS_Subset
  <2>4. Cardinality(S \cup {n}) \in Nat /\ Cardinality(T) \in Nat
    BY <2>1, <2>2, FS_Subset, FS_CardinalityType
  <2> QED BY <1>6, <2>1, <2>3, <2>4
<1>7. c # d => Fewer(new, list, c) /\ Cardinality(Ahead(new, c)) <= Cardinality(Ahead(list, c))
  <2> SUFFICES ASSUME c # d
               PROVE  Fewer(new, list, c) /\ Cardinality(Ahead(new, c)) <= Cardinality(Ahead(list, c))
    OBVIOUS
  <2>1. /\ Places(new, c) \in SUBSET Places(list, c) /\ Ready(new, c) \in SUBSET Ready(list, c)
        /\ Ahead(new, c) \in SUBSET Ahead(list, c)
    BY <1>4, <1>8
  <2> QED BY <1>5, <1>9, <2>1, FS_Subset DEF Fewer
<1> QED BY <1>4, <1>5, <1>6, <1>7, <1>8, <1>9 DEF new, e

\* Running the entry at i leaves one fewer to run.
LEMMA DoneFewer ==
  ASSUME NEW list \in Seq(Entry), NEW i \in 1 .. Len(list), NEW c
  PROVE  /\ Fewer(Done(list, i), list, c)
         /\ i \in Ready(list, c)
              => Cardinality(Ready(Done(list, i), c)) + 1 <= Cardinality(Ready(list, c))
<1>1. /\ Len(list) \in Nat /\ i \in Nat /\ DOMAIN list = 1 .. Len(list)
      /\ \A j \in 1 .. Len(list) : list[j] \in Entry
  BY LenProperties, ElementOfSeq
<1>2. CASE list[i].cmd \in Repeated
  <2> DEFINE e == [list[i] EXCEPT !.actual = TRUE, !.ran = TRUE]
             ran == [list EXCEPT ![i] = e]
             new == Mark(ran, i + 1)
  <2>1. e \in Entry /\ e.cmd = list[i].cmd /\ e.ran = TRUE
    BY <1>1 DEF Entry
  <2>2. [list EXCEPT ![i].actual = TRUE, ![i].ran = TRUE] = ran
    BY <1>1 DEF Entry
  <2> HIDE DEF e
  <2>3. /\ ran \in Seq(Entry) /\ Len(ran) = Len(list)
        /\ \A j \in 1 .. Len(list) : ran[j] = IF j = i THEN e ELSE list[j]
    BY <2>1, ExceptSeq
  <2>4. Done(list, i) = new
    BY <1>2, <2>2 DEF Done
  <2> HIDE DEF ran
  <2>5. /\ Len(new) = Len(list)
        /\ \A j \in 1 .. Len(list) :
             new[j].cmd = list[j].cmd /\ new[j].ran = IF j = i THEN TRUE ELSE list[j].ran
    <3>1. /\ Len(new) = Len(ran)
          /\ \A j \in 1 .. Len(ran) : new[j].cmd = ran[j].cmd /\ new[j].ran = ran[j].ran
      BY <1>1, <2>3, MarkIs
    <3> HIDE DEF new
    <3> QED BY <2>1, <2>3, <3>1
  <2> HIDE DEF new
  <2>6. Places(new, c) = Places(list, c)
    BY <2>5 DEF Places
  <2>7. Ready(new, c) = Ready(list, c) \ {i}
    BY <1>2, <2>5 DEF Ready
  <2>8. /\ IsFiniteSet(Ready(list, c)) /\ Cardinality(Ready(list, c)) \in Nat
        /\ Cardinality(Places(list, c)) \in Nat
    BY <1>1, Counted
  <2>9. Cardinality(Ready(list, c) \ {i})
          = IF i \in Ready(list, c) THEN Cardinality(Ready(list, c)) - 1 ELSE Cardinality(Ready(list, c))
    BY <2>8, FS_RemoveElement
  <2> QED BY <2>4, <2>6, <2>7, <2>8, <2>9 DEF Fewer
<1>3. CASE list[i].cmd \notin Repeated
  <2> DEFINE rest == RemoveAt(list, i)
             new == Mark(rest, i)
             q == [n \in 1 .. Len(list) - 1 |-> IF n < i THEN n ELSE n + 1]
  <2>1. /\ rest \in Seq(Entry) /\ Len(rest) = Len(list) - 1
        /\ \A j \in 1 .. Len(list) - 1 : rest[j] = IF j < i THEN list[j] ELSE list[j + 1]
    BY RemoveAtIs
  <2>2. Done(list, i) = new
    BY <1>3 DEF Done
  <2> HIDE DEF rest
  <2>3. /\ Len(new) = Len(list) - 1
        /\ \A j \in 1 .. Len(list) - 1 : new[j].cmd = rest[j].cmd /\ new[j].ran = rest[j].ran
    <3>1. /\ Len(new) = Len(rest)
          /\ \A j \in 1 .. Len(rest) : new[j].cmd = rest[j].cmd /\ new[j].ran = rest[j].ran
      <4>1. i \in Int BY <1>1
      <4> QED BY <2>1, <4>1, MarkIs
    <3> HIDE DEF new
    <3> QED BY <2>1, <3>1
  <2> HIDE DEF new
  <2>4. \A n \in 1 .. Len(list) - 1 : /\ q[n] \in 1 .. Len(list) /\ q[n] # i
                                     /\ rest[n] = list[q[n]]
    BY <1>1, <2>1
  <2>5. \A m, n \in 1 .. Len(list) - 1 : m # n => q[m] # q[n]
    BY <1>1
  <2> HIDE DEF q
  <2>6. Drawn(q, new, list) /\ SameRan(q, new, list) /\ \A n \in 1 .. Len(new) : q[n] # i
    BY <2>3, <2>4, <2>5 DEF Drawn, SameRan
  <2>7. /\ Fewer(new, list, c)
        /\ i \in Ready(list, c) => Cardinality(Ready(new, c)) + 1 <= Cardinality(Ready(list, c))
    BY <1>1, <2>6, DrawnFewer
  <2> QED BY <2>2, <2>7
<1> QED BY <1>2, <1>3

-----------------------------------------------------------------------------
(* What bounds the runs. *)

\* The entries for c that were ever made from its file or request, at most.
Loads(c) == IF c \in submitted \ incoming THEN failures + 1 ELSE failures

\* The entries for c in the file, once the save that is under way is done.
Recorded(c) ==
  Cardinality(Places(saved, c)) + (IF pc = "write" THEN Cardinality(Ahead(commands, c)) ELSE 0)

Bounded(c) ==
  /\ Cardinality(Places(commands, c)) <= Loads(c)
  /\ ~mixed => Recorded(c) <= Loads(c)
  /\ IF pc = "down" THEN runs[c] <= Loads(c) * crashes
     ELSE runs[c] + Cardinality(Ready(commands, c)) <= Loads(c) * (crashes + 1)

\* Each entry that was made is run once in each life of the process at most: what
\* has been run and what is still to be run in this one stay below.  It holds until the
\* process begins with a file a request got into.
RunInv ==
  /\ todo \subseteq incoming /\ incoming \subseteq submitted /\ crashes \in Nat
  /\ \A c \in Commands : Bounded(c)

LEMMA RecordedIs ==
  ASSUME QueueTypes, NEW c
  PROVE  /\ Recorded(c) \in Nat /\ Cardinality(Places(saved, c)) \in Nat
         /\ Cardinality(Ahead(commands, c)) \in Nat /\ Cardinality(Places(saved, c)) <= Recorded(c)
         /\ pc # "write" => Recorded(c) = Cardinality(Places(saved, c))
         /\ pc = "write" => Recorded(c) = Cardinality(Places(saved, c)) + Cardinality(Ahead(commands, c))
<1>1. Cardinality(Places(saved, c)) \in Nat /\ Cardinality(Ahead(commands, c)) \in Nat
  BY Counted, AheadCounted, LenProperties DEF QueueTypes
<1> QED BY <1>1 DEF Recorded

\* Outside of a save nothing changes what is recorded.
LEMMA RecordedSame ==
  ASSUME QueueTypes, UNCHANGED <<saved, mixed>>, pc # "write", pc' # "write", NEW c
  PROVE  ~mixed' => ~mixed /\ Recorded(c)' <= Recorded(c)
<1>1. Recorded(c)' = Recorded(c)
  BY DEF Recorded, Places
<1> QED BY <1>1, RecordedIs

LEMMA Times ==
  ASSUME NEW a \in Nat, NEW b \in Nat, NEW j \in Nat, NEW k \in Nat, a + j <= b
  PROVE  a * (k + 1) + j <= b * (k + 1)
<1> DEFINE d == b - (a + j)
<1>1. d \in Nat /\ b = a + j + d
  OBVIOUS
<1> HIDE DEF d
<1>2. b * (k + 1) = a * (k + 1) + j * k + j + d * (k + 1)
  BY <1>1
<1>3. j * k \in Nat /\ d * (k + 1) \in Nat /\ a * (k + 1) \in Nat
  BY <1>1
<1> QED BY <1>2, <1>3

\* A step of the living process that adds up to k entries for c, of which as many are counted in Loads.
LEMMA StepBounded ==
  ASSUME QueueTypes, QueueTypes', crashes \in Nat, UNCHANGED crashes, NEW c \in Commands, Bounded(c),
         pc # "down" /\ pc' # "down", NEW k \in Nat,
         Loads(c) \in Nat, Loads(c)' \in Nat, Loads(c) + k <= Loads(c)',
         Cardinality(Places(commands', c)) <= Cardinality(Places(commands, c)) + k,
         ~mixed' => \/ ~mixed /\ Recorded(c)' <= Recorded(c) + k
                    \/ Recorded(c)' <= Cardinality(Places(commands, c)),
         runs'[c] + Cardinality(Ready(commands', c)) <= runs[c] + Cardinality(Ready(commands, c)) + k
  PROVE  Bounded(c)'
<1>1. /\ Cardinality(Places(commands, c)) \in Nat /\ Cardinality(Ready(commands, c)) \in Nat
      /\ runs[c] \in Nat
  BY Counted, LenProperties DEF QueueTypes
<1>2. /\ Cardinality(Places(commands', c)) \in Nat /\ Cardinality(Ready(commands', c)) \in Nat
      /\ runs'[c] \in Nat
  BY Counted, LenProperties DEF QueueTypes
<1>3. /\ Cardinality(Places(commands, c)) <= Loads(c) /\ (~mixed => Recorded(c) <= Loads(c))
      /\ runs[c] + Cardinality(Ready(commands, c)) <= Loads(c) * (crashes + 1)
  BY DEF Bounded
<1>8. Recorded(c) \in Nat /\ Recorded(c)' \in Nat
  <2>1. Recorded(c) \in Nat BY RecordedIs
  <2>2. Cardinality(Places(saved', c)) \in Nat /\ Cardinality(Ahead(commands', c)) \in Nat
    BY Counted, AheadCounted, LenProperties DEF QueueTypes
  <2>3. Recorded(c)' \in Nat BY <2>2 DEF Recorded, Places, Ahead
  <2> QED BY <2>1, <2>3
<1> DEFINE L == Loads(c)
           M == Loads(c)'
<1>4. L \in Nat /\ M \in Nat /\ L + k <= M
  OBVIOUS
<1> HIDE DEF L, M
<1>5. L * (crashes + 1) + k <= M * (crashes + 1) /\ L * (crashes + 1) \in Nat /\ M * (crashes + 1) \in Nat
  BY <1>4, Times
<1>6. runs'[c] + Cardinality(Ready(commands', c)) <= Loads(c)' * (crashes' + 1)
  <2>1. runs[c] + Cardinality(Ready(commands, c)) <= L * (crashes + 1) BY <1>3 DEF L
  <2>2. runs'[c] + Cardinality(Ready(commands', c)) <= M * (crashes + 1)
    BY <1>1, <1>2, <1>5, <2>1
  <2> QED BY <2>2 DEF M
<1>7. Cardinality(Places(commands', c)) <= Loads(c)'
  BY <1>1, <1>2, <1>3, <1>4 DEF L, M
<1>9. ~mixed' => Recorded(c)' <= Loads(c)'
  <2>1. ASSUME ~mixed' PROVE Recorded(c)' <= M
    <3>1. CASE ~mixed /\ Recorded(c)' <= Recorded(c) + k BY <1>3, <1>4, <1>8, <3>1 DEF L
    <3>2. CASE Recorded(c)' <= Cardinality(Places(commands, c)) BY <1>1, <1>3, <1>4, <1>8, <3>2 DEF L
    <3> QED BY <2>1, <3>1, <3>2
  <2> QED BY <2>1 DEF M
<1> QED BY <1>6, <1>7, <1>9 DEF Bounded, Places, Ready

\* A command of which no entry was made and no run counted.
LEMMA Unchanged ==
  ASSUME QueueTypes, QueueTypes', crashes \in Nat, UNCHANGED crashes, NEW c \in Commands, Bounded(c),
         pc # "down" /\ pc' # "down", UNCHANGED <<submitted, incoming, runs>>,
         ~mixed' => ~mixed /\ Recorded(c)' <= Recorded(c),
         failures <= failures', Fewer(commands', commands, c)
  PROVE  Bounded(c)'
<1>1. /\ Loads(c) \in Nat /\ Loads(c)' \in Nat /\ Loads(c) + 0 <= Loads(c)'
  <2>1. failures \in Nat /\ failures' \in Nat /\ failures <= failures' BY DEF QueueTypes
  <2>2. c \in submitted' \ incoming' <=> c \in submitted \ incoming OBVIOUS
  <2>3. \/ Loads(c) = failures + 1 /\ Loads(c)' = failures' + 1
        \/ Loads(c) = failures /\ Loads(c)' = failures'
    BY <2>2 DEF Loads
  <2> QED BY <2>1, <2>3
<1>2. /\ Cardinality(Places(commands, c)) \in Nat /\ Cardinality(Ready(commands, c)) \in Nat
      /\ Cardinality(Places(commands', c)) \in Nat /\ Cardinality(Ready(commands', c)) \in Nat
      /\ runs[c] \in Nat
  BY Counted, LenProperties DEF QueueTypes
<1>3. /\ Cardinality(Places(commands', c)) <= Cardinality(Places(commands, c)) + 0
      /\ runs'[c] + Cardinality(Ready(commands', c)) <= runs[c] + Cardinality(Ready(commands, c)) + 0
  BY <1>2 DEF Fewer
<1>4. ~mixed' => ~mixed /\ Recorded(c)' <= Recorded(c) + 0
  <2>1. Recorded(c) + 0 = Recorded(c) BY RecordedIs
  <2> QED BY <2>1
<1> QED BY <1>1, <1>3, <1>4, StepBounded

\* Of a list that is kept there are as many entries.
LEMMA SameFewer == ASSUME NEW list \in Seq(Entry), NEW c PROVE Fewer(list, list, c)
<1>1. Cardinality(Places(list, c)) \in Nat /\ Cardinality(Ready(list, c)) \in Nat
  BY Counted, LenProperties
<1> QED BY <1>1 DEF Fewer

LEMMA FewerThrough ==
  ASSUME NEW a \in Seq(Entry), NEW b \in Seq(Entry), NEW d \in Seq(Entry), NEW c,
         Fewer(a, b, c), Fewer(b, d, c)
  PROVE  Fewer(a, d, c)
<1>1. \A l \in {a, b, d} : Cardinality(Places(l, c)) \in Nat /\ Cardinality(Ready(l, c)) \in Nat
  BY Counted, LenProperties
<1> QED BY <1>1 DEF Fewer

LEMMA BoundedSame ==
  ASSUME NEW c, Bounded(c), Loads(c)' = Loads(c),
         UNCHANGED <<commands, saved, pc, mixed, runs, crashes>>
  PROVE  Bounded(c)'
<1>1. Recorded(c)' = Recorded(c)
  BY DEF Recorded, Places, Ahead
<1>2. Places(commands, c)' = Places(commands, c) /\ Ready(commands, c)' = Ready(commands, c)
  BY DEF Places, Ready
<1> QED BY <1>1, <1>2 DEF Bounded

\* The steps that make no entry, run nothing and do not touch the file.
LEMMA QuietRuns ==
  ASSUME QueueInv, QueueInv', RunInv,
         \/ Tick
         \/ \E c \in Commands : SubmitFile(c)
         \/ UNCHANGED queueVars
         \/ BeginPass \/ EndLoad \/ EndRequest
  PROVE  RunInv'
<1>1. /\ QueueTypes /\ QueueTypes' /\ commands \in Seq(Entry) /\ failures \in Nat
      /\ UNCHANGED <<saved, runs, crashes>>
      /\ RunInv
  BY DEF QueueInv, QueueTypes, Tick, SubmitFile, queueVars, memory, history, BeginPass, EndLoad, EndRequest
<1>7. (Tick \/ (\E c \in Commands : SubmitFile(c)) \/ UNCHANGED queueVars \/ BeginPass \/ EndLoad) => UNCHANGED mixed
  BY DEF Tick, SubmitFile, queueVars, memory, history, ofSaves, BeginPass, EndLoad
<1>2. CASE Tick \/ UNCHANGED queueVars
  <2>1. UNCHANGED <<commands, pc, todo, incoming, submitted, failures>>
    BY <1>2 DEF Tick, queueVars, memory, history
  <2>2. \A c \in Commands : Loads(c)' = Loads(c)
    BY <2>1 DEF Loads
  <2> QED BY <1>1, <1>2, <1>7, <2>1, <2>2, BoundedSame DEF RunInv
<1>3. ASSUME NEW d \in Commands, SubmitFile(d) PROVE RunInv'
  <2>1. /\ UNCHANGED <<commands, pc, todo, failures>>
        /\ d \notin submitted /\ submitted' = submitted \cup {d} /\ incoming' = incoming \cup {d}
    BY <1>3 DEF SubmitFile, memory
  <2>2. \A c \in Commands : Loads(c)' = Loads(c)
    BY <1>1, <2>1 DEF Loads, RunInv
  <2>3. \A c \in Commands : Bounded(c)'
    BY <1>1, <1>3, <1>7, <2>1, <2>2, BoundedSame DEF RunInv
  <2> QED BY <1>1, <2>1, <2>3 DEF RunInv
<1>4. CASE BeginPass
  <2>1. /\ UNCHANGED <<incoming, submitted>> /\ pc # "down" /\ pc' # "down"
        /\ pc # "write" /\ pc' # "write"
        /\ commands' = commands \/ commands' = Mark(commands, 1)
        /\ todo' = incoming \/ todo' = todo
        /\ failures' = failures \/ failures' = failures + 1
    BY <1>4 DEF BeginPass, StartRun, Fails
  <2>2. \A c : Fewer(commands', commands, c)
    BY <1>1, <2>1, MarkFewer, SameFewer
  <2>3. failures <= failures' BY <1>1, <2>1
  <2>4. \A c : ~mixed' => ~mixed /\ Recorded(c)' <= Recorded(c) BY <1>1, <1>4, <1>7, <2>1, RecordedSame
  <2> QED BY <1>1, <2>1, <2>2, <2>3, <2>4, Unchanged DEF RunInv
<1>5. CASE EndLoad
  <2>1. /\ UNCHANGED <<incoming, submitted, todo, failures>> /\ pc # "down" /\ pc' # "down"
        /\ pc # "write" /\ pc' # "write"
        /\ commands' = Mark(Sorted(commands), 1)
    BY <1>5 DEF EndLoad, StartRun
  <2>2. \A c : Fewer(commands', commands, c)
    <3>1. Sorted(commands) \in Seq(Entry) /\ commands' \in Seq(Entry)
      BY <1>1, SortedSorts DEF QueueTypes
    <3>2. \A c : Fewer(commands', Sorted(commands), c)
      BY <2>1, <3>1, MarkFewer
    <3>3. \A c : Fewer(Sorted(commands), commands, c)
      BY <1>1, SortedFewer
    <3> QED BY <1>1, <3>1, <3>2, <3>3, FewerThrough
  <2>4. \A c : ~mixed' => ~mixed /\ Recorded(c)' <= Recorded(c) BY <1>1, <1>5, <1>7, <2>1, RecordedSame
  <2>5. failures <= failures' BY <1>1, <2>1
  <2> QED BY <1>1, <2>1, <2>2, <2>4, <2>5, Unchanged DEF RunInv
<1>6. CASE EndRequest
  <2>1. /\ UNCHANGED <<incoming, submitted, todo, failures, pc>>
        /\ commands' = commands \/ commands' = Sorted(commands)
        /\ mixed' = mixed \/ mixed' = (mixed \/ (pc = "write" /\ commands' # commands))
        /\ request # "none"
    BY <1>6 DEF EndRequest
  <2>2. \A c : Fewer(commands', commands, c)
    BY <1>1, <2>1, SameFewer, SortedFewer
  <2>5. ASSUME NEW c PROVE ~mixed' => ~mixed /\ Recorded(c)' = Recorded(c)
    <3>1. ~mixed' => ~mixed /\ (pc = "write" => commands' = commands \/ mixed' = mixed) BY <2>1
    <3>2. CASE pc # "write" BY <1>1, <2>1, <3>1, <3>2 DEF Recorded, Places
    <3>3. CASE pc = "write" /\ commands' = commands
      BY <1>1, <2>1, <3>1, <3>3 DEF Recorded, Places, Ahead
    <3>4. CASE pc = "write" /\ commands' # commands
      <4>1. mixed' BY <1>6, <3>4 DEF EndRequest
      <4> QED BY <4>1
    <3> QED BY <3>2, <3>3, <3>4
  <2>6. \A c : Recorded(c) <= Recorded(c) BY <1>1, RecordedIs
  <2>3. CASE pc # "down"
    <3>1. failures <= failures' /\ pc' # "down" BY <1>1, <2>1, <2>3
    <3>2. \A c : ~mixed' => ~mixed /\ Recorded(c)' <= Recorded(c) BY <2>5, <2>6
    <3> QED BY <1>1, <2>1, <2>2, <2>3, <3>1, <3>2, Unchanged DEF RunInv
  <2>4. CASE pc = "down"
    <3>1. \A c \in Commands : Cardinality(Places(commands', c)) <= Loads(c)
      <4> SUFFICES ASSUME NEW c \in Commands PROVE Cardinality(Places(commands', c)) <= Loads(c)
        OBVIOUS
      <4>1. Cardinality(Places(commands, c)) <= Loads(c) BY <1>1 DEF RunInv, Bounded
      <4>2. /\ Cardinality(Places(commands, c)) \in Nat /\ Cardinality(Places(commands', c)) \in Nat
            /\ Loads(c) \in Nat
        BY <1>1, Counted, LenProperties DEF QueueTypes, Loads
      <4> QED BY <2>2, <4>1, <4>2 DEF Fewer
    <3>2. ASSUME NEW c \in Commands PROVE ~mixed' => Recorded(c)' <= Loads(c)
      BY <1>1, <2>5 DEF RunInv, Bounded
    <3> QED BY <1>1, <2>1, <2>4, <3>1, <3>2 DEF RunInv, Bounded, Places, Loads
  <2> QED BY <2>3, <2>4
<1> QED BY <1>2, <1>3, <1>4, <1>5, <1>6

\* A file that is loaded makes an entry; if it stays where it is, a failure is counted.
LEMMA LoadFileRuns ==
  ASSUME QueueInv, QueueInv', RunInv, NEW d \in Commands, LoadFile(d) PROVE RunInv'
<1>1. /\ QueueTypes /\ QueueTypes' /\ commands \in Seq(Entry) /\ failures \in Nat
      /\ pc # "down" /\ pc' # "down" /\ d \in todo /\ todo' = todo \ {d}
      /\ pc # "write" /\ pc' # "write"
      /\ UNCHANGED <<saved, runs, crashes, submitted, mixed>>
      /\ RunInv
  BY DEF QueueInv, QueueTypes, LoadFile, history, ofSaves
<1>7. ASSUME NEW c PROVE ~mixed' => ~mixed /\ Recorded(c)' <= Recorded(c) /\ Recorded(c)' <= Recorded(c) + 1
  <2>1. Recorded(c)' = Recorded(c) BY <1>1 DEF Recorded, Places
  <2>2. Recorded(c) \in Nat BY <1>1, RecordedIs
  <2> QED BY <1>1, <2>1, <2>2
<1>2. d \in incoming /\ d \in submitted
  BY <1>1 DEF RunInv
<1>3. /\ incoming' = incoming \/ incoming' = incoming \ {d}
      /\ failures' = failures \/ failures' = failures + 1
  BY Zenon DEF LoadFile, Fails
<1>4. todo' \subseteq incoming' /\ incoming' \subseteq submitted'
  BY <1>1, <1>3 DEF RunInv
<1>5. CASE Fails /\ UNCHANGED <<commands, changed, incoming>>
  <2>1. \A c : Fewer(commands', commands, c) BY <1>1, <1>5, SameFewer
  <2>2. failures <= failures' BY <1>1, <1>3
  <2>3. UNCHANGED incoming BY <1>5
  <2> QED BY <1>1, <1>4, <1>7, <2>1, <2>2, <2>3, Unchanged DEF RunInv
<1>6. CASE /\ commands' = Append(commands, NewEntry(d, FALSE))
           /\ \/ incoming' = incoming \ {d} /\ UNCHANGED failures
              \/ failures' = failures + 1 /\ UNCHANGED incoming
  <2>1. ASSUME NEW c \in Commands PROVE Bounded(c)'
    <3>1. /\ Cardinality(Places(commands', c)) <= Cardinality(Places(commands, c)) + 1
          /\ Cardinality(Ready(commands', c)) <= Cardinality(Ready(commands, c)) + 1
          /\ c # d => Fewer(commands', commands, c)
      BY <1>1, <1>6, AppendCounts
    <3>2. /\ Cardinality(Places(commands, c)) \in Nat /\ Cardinality(Ready(commands, c)) \in Nat
          /\ Cardinality(Places(commands', c)) \in Nat /\ Cardinality(Ready(commands', c)) \in Nat
          /\ Cardinality(Places(saved, c)) \in Nat
          /\ runs[c] \in Nat /\ Loads(c) \in Nat /\ Loads(c)' \in Nat
      <4>1. Loads(c) \in Nat /\ Loads(c)' \in Nat BY <1>1, <1>6 DEF Loads
      <4>2. runs[c] \in Nat /\ saved \in Seq(SavedEntry) /\ commands' \in Seq(Entry)
        BY <1>1, <2>1 DEF QueueTypes
      <4> QED BY <1>1, <4>1, <4>2, Counted, LenProperties
    <3>3. Bounded(c) /\ crashes \in Nat BY <1>1, <2>1 DEF RunInv
    <3>4. ~mixed' => ~mixed /\ Recorded(c)' <= Recorded(c) + 0 /\ Recorded(c)' <= Recorded(c) + 1
      <4>1. Recorded(c) + 0 = Recorded(c) BY <1>1, RecordedIs
      <4> QED BY <1>7, <4>1
    <3>5. CASE c = d
      <4>1. Loads(c) + 1 <= Loads(c)' BY <1>1, <1>2, <1>6, <3>5 DEF Loads
      <4>2. runs'[c] + Cardinality(Ready(commands', c)) <= runs[c] + Cardinality(Ready(commands, c)) + 1
        BY <1>1, <3>1, <3>2
      <4> QED BY <1>1, <2>1, <3>1, <3>2, <3>3, <3>4, <4>1, <4>2, StepBounded
    <3>6. CASE c # d
      <4>1. Loads(c) + 0 <= Loads(c)' BY <1>1, <1>3, <3>6 DEF Loads
      <4>2. /\ Cardinality(Places(commands', c)) <= Cardinality(Places(commands, c)) + 0
            /\ runs'[c] + Cardinality(Ready(commands', c)) <= runs[c] + Cardinality(Ready(commands, c)) + 0
        BY <1>1, <3>1, <3>2, <3>6 DEF Fewer
      <4> QED BY <1>1, <2>1, <3>2, <3>3, <3>4, <4>1, <4>2, StepBounded
    <3> QED BY <3>5, <3>6
  <2> QED BY <1>1, <1>4, <2>1 DEF RunInv
<1> QED BY <1>5, <1>6 DEF LoadFile, Fails

LEMMA AddEventRuns ==
  ASSUME QueueInv, QueueInv', RunInv, NEW d \in Commands, AddEvent(d) PROVE RunInv'
<1>1. /\ QueueTypes /\ QueueTypes' /\ commands \in Seq(Entry) /\ failures \in Nat
      /\ pc # "down" /\ pc' # "down" /\ d \notin submitted /\ submitted' = submitted \cup {d}
      /\ commands' = Append(commands, NewEntry(d, FALSE))
      /\ UNCHANGED <<saved, runs, crashes, incoming, todo, failures, mixed, pc>>
      /\ RunInv
  BY DEF QueueInv, QueueTypes, AddEvent, ofSaves
<1>2. d \notin incoming
  BY <1>1 DEF RunInv
<1>3. ASSUME NEW c \in Commands PROVE Bounded(c)'
  <2>1. /\ Cardinality(Places(commands', c)) <= Cardinality(Places(commands, c)) + 1
        /\ Cardinality(Ready(commands', c)) <= Cardinality(Ready(commands, c)) + 1
        /\ c # d => /\ Fewer(commands', commands, c)
                   /\ Cardinality(Ahead(commands', c)) <= Cardinality(Ahead(commands, c))
        /\ Cardinality(Ahead(commands', c)) <= Cardinality(Ahead(commands, c)) + 1
    BY <1>1, AppendCounts
  <2>2. /\ Cardinality(Places(commands, c)) \in Nat /\ Cardinality(Ready(commands, c)) \in Nat
        /\ Cardinality(Places(commands', c)) \in Nat /\ Cardinality(Ready(commands', c)) \in Nat
        /\ Cardinality(Places(saved, c)) \in Nat
        /\ runs[c] \in Nat /\ Loads(c) \in Nat /\ Loads(c)' \in Nat
    <3>1. Loads(c) \in Nat /\ Loads(c)' \in Nat BY <1>1 DEF Loads
    <3>2. runs[c] \in Nat /\ saved \in Seq(SavedEntry) /\ commands' \in Seq(Entry)
      BY <1>1, <1>3 DEF QueueTypes
    <3> QED BY <1>1, <3>1, <3>2, Counted, LenProperties
  <2>3. Bounded(c) /\ crashes \in Nat BY <1>1, <1>3 DEF RunInv
  <2>4. ~mixed' => /\ ~mixed /\ Recorded(c)' <= Recorded(c) + 1
                   /\ c # d => Recorded(c)' <= Recorded(c) + 0
    <3> DEFINE a == Cardinality(Ahead(commands, c))
               b == Cardinality(Ahead(commands', c))
               m == Cardinality(Places(saved, c))
    <3>1. commands' \in Seq(Entry) /\ Len(commands') \in Nat /\ Len(commands) \in Nat /\ Len(saved) \in Nat
      BY <1>1, LenProperties DEF QueueTypes
    <3>2. a \in Nat /\ b \in Nat /\ m \in Nat BY <3>1, AheadCounted, Counted
    <3>3. /\ Recorded(c) = m + IF pc = "write" THEN a ELSE 0
          /\ Recorded(c)' = m + IF pc = "write" THEN b ELSE 0
      BY <1>1 DEF Recorded, Places, Ahead
    <3>4. b <= a + 1 /\ (c # d => b <= a) BY <2>1
    <3> HIDE DEF a, b, m
    <3>5. Recorded(c)' <= Recorded(c) + 1 /\ (c # d => Recorded(c)' <= Recorded(c) + 0)
      BY <3>2, <3>3, <3>4
    <3> QED BY <1>1, <3>5
  <2>7. runs'[c] = runs[c] BY <1>1
  <2>8. /\ runs'[c] + Cardinality(Ready(commands', c)) <= runs[c] + Cardinality(Ready(commands, c)) + 1
        /\ c # d =>
             runs'[c] + Cardinality(Ready(commands', c)) <= runs[c] + Cardinality(Ready(commands, c)) + 0
    <3>1. c # d => Cardinality(Ready(commands', c)) <= Cardinality(Ready(commands, c))
      BY <2>1 DEF Fewer
    <3>2. Cardinality(Ready(commands', c)) <= Cardinality(Ready(commands, c)) + 1 BY <2>1
    <3> QED BY <2>2, <2>7, <3>1, <3>2
  <2>5. CASE c = d
    <3>1. Loads(c) + 1 <= Loads(c)' BY <1>1, <1>2, <2>5 DEF Loads
    <3>2. runs'[c] + Cardinality(Ready(commands', c)) <= runs[c] + Cardinality(Ready(commands, c)) + 1
      BY <2>8
    <3> QED BY <1>1, <1>3, <2>1, <2>2, <2>3, <2>4, <3>1, <3>2, StepBounded
  <2>6. CASE c # d
    <3>1. Loads(c) + 0 <= Loads(c)' BY <1>1, <2>6 DEF Loads
    <3>2. /\ Cardinality(Places(commands', c)) <= Cardinality(Places(commands, c)) + 0
          /\ runs'[c] + Cardinality(Ready(commands', c)) <= runs[c] + Cardinality(Ready(commands, c)) + 0
      BY <2>1, <2>2, <2>6, <2>8 DEF Fewer
    <3>3. ~mixed' => ~mixed /\ Recorded(c)' <= Recorded(c) + 0
      BY <2>4, <2>6
    <3> QED BY <1>1, <1>3, <2>2, <2>3, <3>1, <3>2, <3>3, StepBounded
  <2> QED BY <2>5, <2>6
<1> QED BY <1>1, <1>3 DEF RunInv

\* An entry that is run is no longer to be run in this life of the process.
LEMMA RunEntryRuns == ASSUME QueueInv, QueueInv', RunInv, RunEntry PROVE RunInv'
<1>1. /\ QueueTypes /\ QueueTypes' /\ commands \in Seq(Entry) /\ failures \in Nat
      /\ runs \in [Commands -> Nat]
      /\ pc # "down" /\ pc' # "down" /\ pc # "write" /\ pc' # "write"
      /\ UNCHANGED <<saved, crashes, incoming, todo, submitted, mixed>>
      /\ RunInv
  BY DEF QueueInv, QueueTypes, RunEntry, ofSaves
<1>7. \A c : ~mixed' => ~mixed /\ Recorded(c)' <= Recorded(c)
  BY <1>1, RecordedSame
<1>2. DOMAIN commands = 1 .. Len(commands) /\ Len(commands) \in Nat
  BY <1>1, LenProperties
<1>3. PICK i \in 1 .. Len(commands) :
        \/ commands' = Mark(commands, i + 1) /\ UNCHANGED <<runs, failures>>
        \/ /\ Runs(commands[i]) /\ commands' = Done(commands, i)
           /\ \/ runs' = [runs EXCEPT ![commands[i].cmd] = @ + 1] /\ UNCHANGED failures
              \/ Fails /\ UNCHANGED runs
  BY <1>2 DEF RunEntry
<1>4. \A c : Fewer(commands', commands, c)
  <2>1. i + 1 \in Int BY <1>2
  <2> QED BY <1>1, <1>3, <2>1, MarkFewer, DoneFewer
<1>5. CASE UNCHANGED runs
  <2>1. failures' = failures \/ failures' = failures + 1 BY <1>3 DEF Fails
  <2>2. failures <= failures' BY <1>1, <2>1
  <2> QED BY <1>1, <1>4, <1>5, <1>7, <2>2, Unchanged DEF RunInv
<1>6. CASE /\ Runs(commands[i]) /\ commands' = Done(commands, i)
           /\ runs' = [runs EXCEPT ![commands[i].cmd] = @ + 1] /\ UNCHANGED failures
  <2>1. ASSUME NEW c \in Commands PROVE Bounded(c)'
    <3>1. /\ Cardinality(Places(commands, c)) \in Nat /\ Cardinality(Ready(commands, c)) \in Nat
          /\ Cardinality(Places(commands', c)) \in Nat /\ Cardinality(Ready(commands', c)) \in Nat
          /\ Cardinality(Places(saved, c)) \in Nat
          /\ runs[c] \in Nat /\ Loads(c) \in Nat /\ Loads(c)' = Loads(c)
      <4>1. Loads(c) \in Nat /\ Loads(c)' = Loads(c) BY <1>1, <1>6 DEF Loads
      <4>2. runs[c] \in Nat /\ saved \in Seq(SavedEntry) /\ commands' \in Seq(Entry)
        BY <1>1, <2>1 DEF QueueTypes
      <4> QED BY <1>1, <4>1, <4>2, Counted, LenProperties
    <3>2. runs'[c] + Cardinality(Ready(commands', c)) <= runs[c] + Cardinality(Ready(commands, c)) + 0
      <4>1. CASE c = commands[i].cmd
        <5>1. i \in Ready(commands, c) BY <1>6, <4>1 DEF Runs, Ready
        <5>2. Cardinality(Ready(commands', c)) + 1 <= Cardinality(Ready(commands, c))
          BY <1>1, <1>6, <5>1, DoneFewer
        <5>3. runs'[c] = runs[c] + 1 BY <1>1, <1>6, <2>1, <4>1
        <5> QED BY <3>1, <5>2, <5>3
      <4>2. CASE c # commands[i].cmd
        <5>1. runs'[c] = runs[c] BY <1>1, <1>6, <2>1, <4>2
        <5> QED BY <1>4, <3>1, <5>1 DEF Fewer
      <4> QED BY <4>1, <4>2
    <3>3. /\ Cardinality(Places(commands', c)) <= Cardinality(Places(commands, c)) + 0
          /\ Loads(c) + 0 <= Loads(c)' /\ Loads(c)' \in Nat
      BY <1>1, <1>4, <3>1 DEF Fewer
    <3>5. ~mixed' => ~mixed /\ Recorded(c)' <= Recorded(c) + 0
      <4>1. Recorded(c) + 0 = Recorded(c) BY <1>1, RecordedIs
      <4> QED BY <1>7, <4>1
    <3>4. Bounded(c) /\ crashes \in Nat BY <1>1, <2>1 DEF RunInv
    <3> QED BY <1>1, <2>1, <3>1, <3>2, <3>3, <3>4, <3>5, StepBounded
  <2> QED BY <1>1, <2>1 DEF RunInv
<1> QED BY <1>3, <1>5, <1>6

\* A save that begins records each entry of the list once.
LEMMA BeginSaveRuns == ASSUME QueueInv, QueueInv', RunInv, BeginSave PROVE RunInv'
<1>1. /\ QueueTypes /\ QueueTypes' /\ commands \in Seq(Entry) /\ failures \in Nat
      /\ pc = "save" /\ pc' \in {"idle", "write"}
      /\ UNCHANGED <<runs, crashes, incoming, todo, submitted>>
      /\ RunInv
  BY DEF QueueInv, QueueTypes, BeginSave
<1>2. failures' = failures \/ failures' = failures + 1
  BY Zenon DEF BeginSave, Fails
<1>3. \/ UNCHANGED <<commands, saved, mixed>> /\ pc' = "idle"
      \/ commands' = Mark(commands, 1) /\ saved' = <<>>
  BY DEF BeginSave
<1>4. ASSUME NEW c \in Commands PROVE Bounded(c)'
  <2>1. /\ Cardinality(Places(commands, c)) \in Nat /\ Cardinality(Ready(commands, c)) \in Nat
        /\ Cardinality(Places(commands', c)) \in Nat /\ Cardinality(Ready(commands', c)) \in Nat
        /\ runs[c] \in Nat /\ Loads(c) \in Nat /\ Loads(c)' \in Nat /\ Loads(c) + 0 <= Loads(c)'
    <3>1. Loads(c) \in Nat /\ Loads(c)' \in Nat /\ Loads(c) + 0 <= Loads(c)'
      BY <1>1, <1>2 DEF Loads
    <3>2. runs[c] \in Nat /\ commands' \in Seq(Entry)
      BY <1>1, <1>4 DEF QueueTypes
    <3> QED BY <1>1, <3>1, <3>2, Counted, LenProperties
  <2>2. Fewer(commands', commands, c)
    BY <1>1, <1>3, MarkFewer, SameFewer
  <2>3. /\ Cardinality(Places(commands', c)) <= Cardinality(Places(commands, c)) + 0
        /\ runs'[c] + Cardinality(Ready(commands', c)) <= runs[c] + Cardinality(Ready(commands, c)) + 0
    BY <1>1, <2>1, <2>2 DEF Fewer
  <2>4. Bounded(c) /\ crashes \in Nat BY <1>1, <1>4 DEF RunInv
  <2>5. ~mixed' => \/ ~mixed /\ Recorded(c)' <= Recorded(c) + 0
                   \/ Recorded(c)' <= Cardinality(Places(commands, c))
    <3>1. CASE UNCHANGED <<saved, mixed>> /\ pc' = "idle"
      <4>1. Recorded(c)' = Recorded(c) BY <1>1, <3>1 DEF Recorded, Places
      <4>2. Recorded(c) \in Nat BY <1>1, RecordedIs
      <4> QED BY <3>1, <4>1, <4>2
    <3>2. CASE saved' = <<>>
      <4>1. Len(saved') = 0 BY <3>2, EmptySeq
      <4>2. Places(saved', c) = {} BY <4>1 DEF Places
      <4>3. Cardinality(Places(saved', c)) = 0 BY <4>2, FS_EmptySet
      <4>4. /\ Cardinality(Ahead(commands', c)) \in Nat
            /\ Cardinality(Ahead(commands', c)) <= Cardinality(Places(commands', c))
        BY <1>1, AheadCounted, LenProperties DEF QueueTypes
      <4>5. Recorded(c)' = 0 + IF pc' = "write" THEN Cardinality(Ahead(commands', c)) ELSE 0
        BY <4>3 DEF Recorded, Places, Ahead
      <4>6. Recorded(c)' <= Cardinality(Places(commands', c)) BY <2>1, <4>4, <4>5
      <4>7. Recorded(c)' \in Nat BY <4>4, <4>5
      <4> QED BY <2>1, <2>3, <4>6, <4>7
    <3> QED BY <1>3, <3>1, <3>2
  <2> QED BY <1>1, <1>4, <2>1, <2>3, <2>4, <2>5, StepBounded
<1> QED BY <1>1, <1>4 DEF RunInv

\* The line that is written is for the entry the walk then has behind it.
LEMMA WriteEntryRuns == ASSUME QueueInv, QueueInv', RunInv, WriteEntry PROVE RunInv'
<1>1. /\ QueueTypes /\ QueueTypes' /\ commands \in Seq(Entry) /\ saved \in Seq(SavedEntry)
      /\ failures \in Nat /\ pc = "write" /\ pc' # "down" /\ OneHere(commands)
      /\ UNCHANGED <<runs, crashes, incoming, todo, submitted, mixed>>
      /\ RunInv
  BY DEF QueueInv, QueueTypes, HereInv, WriteEntry
<1>2. DOMAIN commands = 1 .. Len(commands) /\ Len(commands) \in Nat
  BY <1>1, LenProperties
<1>3. PICK i \in 1 .. Len(commands) :
        /\ commands[i].here
        /\ commands' = Mark(commands, i + 1)
        /\ \/ saved' = Append(saved, Line(commands[i])) /\ UNCHANGED failures
           \/ Fails /\ UNCHANGED saved
        /\ IF i = Len(commands) THEN pc' = "idle" /\ kept' = Kept(saved') ELSE UNCHANGED <<pc, kept>>
  BY <1>2 DEF WriteEntry
<1>4. HereAt(commands, i) /\ commands[i] \in Entry
  <2>1. HereAt(commands, i) BY <1>1, <1>3 DEF OneHere, HereAt
  <2> QED BY <1>1, <2>1, EntryFields
<1>5. i + 1 \in Int
  BY <1>2
<1>6. failures' = failures \/ failures' = failures + 1
  BY <1>3 DEF Fails
<1>7. ASSUME NEW c \in Commands PROVE Bounded(c)'
  <2> DEFINE a == Cardinality(Ahead(commands, c))
             b == Cardinality(Ahead(commands', c))
             m == Cardinality(Places(saved, c))
             n == Cardinality(Places(saved', c))
  <2>1. /\ Ahead(commands', c) = Ahead(commands, c) \ {i}
        /\ i \in Ahead(commands, c) <=> commands[i].cmd = c
        /\ i = Len(commands) => Ahead(commands, c) \subseteq {i}
    BY <1>1, <1>3, <1>4, StepAhead
  <2>2. /\ IsFiniteSet(Ahead(commands, c)) /\ a \in Nat /\ IsFiniteSet(Places(saved, c)) /\ m \in Nat
    BY <1>1, <1>2, AheadCounted, Counted, LenProperties
  <2>3. b \in Nat /\ b = IF commands[i].cmd = c THEN a - 1 ELSE a
    <3>1. b = IF i \in Ahead(commands, c) THEN a - 1 ELSE a
      BY <2>1, <2>2, FS_RemoveElement
    <3>2. b \in Nat BY <2>1, <2>2, FS_Subset, FS_CardinalityType
    <3> QED BY <2>1, <3>1, <3>2
  <2>4. n \in Nat /\ n <= IF commands[i].cmd = c THEN m + 1 ELSE m
    <3>1. CASE saved' = saved BY <2>2, <3>1
    <3>2. CASE saved' = Append(saved, Line(commands[i]))
      <4> DEFINE e == commands[i]
                 k == Len(saved) + 1
      <4>1. /\ Len(saved') = k /\ Len(saved) \in Nat /\ k \in Nat
            /\ \A j \in 1 .. Len(saved) : saved'[j] = saved[j]
            /\ saved'[k] = Line(e)
        <5> HIDE DEF e
        <5> QED BY <1>1, <1>4, <3>2, AppendLine DEF e
      <4>2. saved'[k].cmd = e.cmd BY <4>1 DEF Line
      <4>3. \A j : j \in 1 .. Len(saved') <=> j \in 1 .. Len(saved) \/ j = k BY <4>1
      <4>4. k \notin 1 .. Len(saved) BY <4>1
      <4>5. Places(saved', c) = IF e.cmd = c THEN Places(saved, c) \cup {k} ELSE Places(saved, c)
        <5> HIDE DEF e, k
        <5> QED BY <4>1, <4>2, <4>3, <4>4 DEF Places
      <4>6. /\ IsFiniteSet(Places(saved, c) \cup {k})
            /\ Cardinality(Places(saved, c) \cup {k}) = m + 1
        <5>1. k \notin Places(saved, c) BY <4>4 DEF Places
        <5> QED BY <2>2, <5>1, FS_AddElement
      <4> QED BY <2>2, <4>5, <4>6
    <3> QED BY <1>3, <3>1, <3>2
  <2>5. Recorded(c) = m + a /\ Recorded(c)' = n + IF pc' = "write" THEN b ELSE 0
    BY <1>1 DEF Recorded, Places, Ahead
  <2>6. Fewer(commands', commands, c) BY <1>1, <1>3, <1>5, MarkFewer
  <2> HIDE DEF a, b, m, n
  <2>7. n + b <= m + a
    <3>1. CASE commands[i].cmd = c BY <2>2, <2>3, <2>4, <3>1
    <3>2. CASE commands[i].cmd # c BY <2>2, <2>3, <2>4, <3>2
    <3> QED BY <3>1, <3>2
  <2>8. Recorded(c)' <= Recorded(c)
    <3>1. CASE pc' = "write" BY <2>5, <2>7, <3>1
    <3>2. CASE pc' # "write" BY <2>2, <2>3, <2>4, <2>5, <2>7, <3>2
    <3> QED BY <3>1, <3>2
  <2>9. failures <= failures' /\ crashes \in Nat /\ Bounded(c) BY <1>1, <1>6, <1>7 DEF RunInv
  <2> QED BY <1>1, <1>7, <2>6, <2>8, <2>9, Unchanged
<1> QED BY <1>1, <1>7 DEF RunInv

\* No entry is left in memory when the process dies: those that were to be run
\* are paid for by the crash.
LEMMA DiesRuns ==
  ASSUME QueueInv, QueueInv', RunInv, pc # "down", Forgotten,
         UNCHANGED <<incoming, submitted, runs, mixed, failures>>
  PROVE  RunInv'
<1>1. /\ commands' = <<>> /\ pc' = "down" /\ todo' = {} /\ crashes' = crashes + 1
      /\ UNCHANGED <<incoming, submitted, runs, mixed, failures>>
      /\ failures \in Nat /\ commands \in Seq(Entry) /\ runs \in [Commands -> Nat]
      /\ saved \in Seq(SavedEntry) /\ saved' \in Seq(SavedEntry) /\ QueueTypes
  BY DEF Forgotten, QueueInv, QueueTypes
<1>2. incoming \subseteq submitted /\ crashes \in Nat /\ crashes' \in Nat
  BY <1>1 DEF RunInv
<1>3. ASSUME NEW c \in Commands PROVE Bounded(c)'
  <2>1. /\ Cardinality(Places(commands, c)) \in Nat /\ Cardinality(Ready(commands, c)) \in Nat
        /\ IsFiniteSet(Places(saved, c))
        /\ Cardinality(Places(saved, c)) \in Nat /\ Cardinality(Places(saved', c)) \in Nat
    BY <1>1, Counted, LenProperties
  <2>2. runs[c] \in Nat /\ runs'[c] = runs[c] BY <1>1, <1>3
  <2>3. Loads(c) \in Nat /\ Loads(c)' = Loads(c) BY <1>1 DEF Loads
  <2>4. /\ Cardinality(Places(commands, c)) <= Loads(c) /\ (~mixed => Recorded(c) <= Loads(c))
        /\ runs[c] + Cardinality(Ready(commands, c)) <= Loads(c) * (crashes + 1)
    BY <1>3 DEF RunInv, Bounded
  <2>5. ~mixed' => Recorded(c)' <= Loads(c)
    <3>1. Places(saved', c) \in SUBSET Places(saved, c)
      <4>1. CASE pc = "write"
        <5>1. PICK n \in 0 .. Len(saved) : saved' = SubSeq(saved, 1, n) BY <4>1 DEF Forgotten
        <5> QED BY <1>1, <5>1, PartIs DEF Places
      <4>2. CASE pc # "write"
        <5>1. saved' = saved BY <4>2 DEF Forgotten
        <5> QED BY <5>1
      <4> QED BY <4>1, <4>2
    <3>2. Cardinality(Places(saved', c)) <= Cardinality(Places(saved, c)) BY <2>1, <3>1, FS_Subset
    <3>3. Recorded(c)' = Cardinality(Places(saved', c)) + 0 BY <1>1 DEF Recorded, Places
    <3>4. Cardinality(Places(saved, c)) <= Recorded(c) /\ Recorded(c) \in Nat BY <1>1, RecordedIs
    <3> QED BY <1>1, <2>1, <2>3, <2>4, <3>2, <3>3, <3>4
  <2>6. Cardinality(Places(commands', c)) <= Loads(c)
    <3>1. Len(commands') = 0 BY <1>1, EmptySeq
    <3>2. Places(commands', c) = {} BY <3>1 DEF Places
    <3> QED BY <2>3, <3>2, FS_EmptySet
  <2>7. runs'[c] <= Loads(c)' * crashes'
    <3>1. Loads(c) * (crashes + 1) \in Nat BY <1>2, <2>3
    <3>2. runs[c] <= Loads(c) * (crashes + 1) BY <2>1, <2>2, <2>4, <3>1
    <3> QED BY <1>1, <2>2, <2>3, <3>2
  <2> QED BY <1>1, <2>3, <2>5, <2>6, <2>7 DEF Bounded, Places
<1> QED BY <1>1, <1>2, <1>3 DEF RunInv

LEMMA DelEventRuns ==
  ASSUME QueueInv, QueueInv', RunInv, NEW d \in Commands, NEW actual \in BOOLEAN, DelEvent(d, actual)
  PROVE  RunInv'
<1>1. /\ QueueTypes /\ QueueTypes' /\ commands \in Seq(Entry) /\ failures \in Nat
      /\ pc # "down"
      /\ UNCHANGED <<runs, incoming, submitted, failures>>
      /\ RunInv
  BY DEF QueueInv, QueueTypes, DelEvent
<1> DEFINE dangling == \E e \in Range(commands) : e.here /\ e.cmd = d /\ e.actual = actual
<1>2. \/ /\ commands' = Without(commands, d, actual)
         /\ pc' = IF ~dangling THEN pc ELSE IF pc = "run" THEN "save" ELSE "idle"
         /\ mixed' = (mixed \/ (dangling /\ pc = "write"))
         /\ UNCHANGED <<saved, todo, crashes>>
      \/ Forgotten /\ UNCHANGED mixed
  BY DEF DelEvent
<1> HIDE DEF dangling
<1>3. CASE /\ commands' = Without(commands, d, actual)
           /\ pc' = IF ~dangling THEN pc ELSE IF pc = "run" THEN "save" ELSE "idle"
           /\ mixed' = (mixed \/ (dangling /\ pc = "write"))
           /\ UNCHANGED <<saved, todo, crashes>>
  <2>1. \A c : /\ Fewer(commands', commands, c)
               /\ Cardinality(Ahead(commands', c)) <= Cardinality(Ahead(commands, c))
    BY <1>1, <1>3, WithoutFewer
  <2>2. pc' # "down" /\ failures <= failures' BY <1>1, <1>3
  <2>3. ~mixed' => ~mixed /\ ~(dangling /\ pc = "write") BY <1>3
  <2>4. pc' = "write" => pc = "write" BY <1>3
  <2>5. ASSUME NEW c PROVE ~mixed' => ~mixed /\ Recorded(c)' <= Recorded(c)
    <3> DEFINE a == Cardinality(Ahead(commands, c))
               b == Cardinality(Ahead(commands', c))
               m == Cardinality(Places(saved, c))
    <3>1. commands' \in Seq(Entry) /\ Len(commands') \in Nat /\ Len(commands) \in Nat /\ Len(saved) \in Nat
      BY <1>1, LenProperties DEF QueueTypes
    <3>2. a \in Nat /\ b \in Nat /\ m \in Nat BY <3>1, AheadCounted, Counted
    <3>3. /\ Recorded(c) = m + IF pc = "write" THEN a ELSE 0
          /\ Recorded(c)' = m + IF pc' = "write" THEN b ELSE 0
      BY <1>3 DEF Recorded, Places, Ahead
    <3>4. b <= a BY <2>1
    <3> HIDE DEF a, b, m
    <3>5. Recorded(c)' <= Recorded(c)
      <4>1. CASE pc' = "write" BY <2>4, <3>2, <3>3, <3>4, <4>1
      <4>2. CASE pc' # "write" BY <3>2, <3>3, <4>2
      <4> QED BY <4>1, <4>2
    <3> QED BY <2>3, <3>5
  <2> QED BY <1>1, <1>3, <2>1, <2>2, <2>5, Unchanged DEF RunInv
<1>4. CASE Forgotten /\ UNCHANGED mixed
  BY <1>1, <1>4, DiesRuns
<1> QED BY <1>2, <1>3, <1>4

LEMMA CrashRuns == ASSUME QueueInv, QueueInv', RunInv, Crash PROVE RunInv'
<1>1. pc # "down" /\ Forgotten /\ UNCHANGED <<incoming, submitted, runs, mixed, failures>>
  BY DEF Crash
<1> QED BY <1>1, DiesRuns

\* A new life of the process may run each entry of the file once more, if it does not
\* begin with a file a request got into.
LEMMA RestartRuns == ASSUME QueueInv, QueueInv', RunInv, Restart, ~reread' PROVE RunInv'
<1>1. /\ pc = "down" /\ pc' = "idle"
      /\ UNCHANGED <<incoming, saved, todo, submitted, runs, crashes>>
      /\ saved \in Seq(SavedEntry) /\ commands \in Seq(Entry) /\ commands' \in Seq(Entry)
      /\ failures \in Nat /\ runs \in [Commands -> Nat] /\ QueueTypes
  BY DEF Restart, QueueInv, QueueTypes
<1>2. crashes \in Nat
  BY DEF RunInv
<1>3. \/ Fails /\ UNCHANGED <<commands, mixed>>
      \/ commands' = Reloaded /\ UNCHANGED failures /\ ~mixed
  BY DEF Restart
<1>4. ASSUME NEW c \in Commands PROVE Bounded(c)'
  <2> DEFINE L == Loads(c)
             M == Loads(c)'
             r == Cardinality(Ready(commands', c))
  <2>1. L \in Nat /\ M \in Nat /\ L <= M
    <3>1. failures' = failures \/ failures' = failures + 1 BY <1>3 DEF Fails
    <3> QED BY <1>1, <3>1 DEF Loads
  <2>2. /\ Cardinality(Places(commands, c)) <= L /\ (~mixed => Recorded(c) <= L)
        /\ runs[c] <= L * crashes /\ runs[c] \in Nat /\ runs'[c] = runs[c]
    BY <1>1, <1>4 DEF RunInv, Bounded
  <2>3. Recorded(c) = Cardinality(Places(saved, c)) /\ Recorded(c) \in Nat /\ Recorded(c)' = Recorded(c)
    <3>1. Recorded(c)' = Cardinality(Places(saved, c)) + 0 BY <1>1 DEF Recorded, Places
    <3>2. Recorded(c) \in Nat /\ Recorded(c) = Cardinality(Places(saved, c)) BY <1>1, RecordedIs
    <3> QED BY <3>1, <3>2
  <2>4. /\ r \in Nat /\ r <= Cardinality(Places(commands', c))
        /\ Cardinality(Places(commands', c)) \in Nat /\ Cardinality(Places(commands, c)) \in Nat
    BY <1>1, Counted, LenProperties
  <2>6. Cardinality(Places(commands', c)) <= L
    <3>1. CASE commands' = commands BY <2>2, <3>1
    <3>2. CASE commands' = Reloaded /\ ~mixed
      <4>1. DOMAIN saved = 1 .. Len(saved) /\ Len(saved) \in Nat
        BY <1>1, LenProperties
      <4>2. commands' = [i \in 1 .. Len(saved) |-> NewEntry(saved[i].cmd, saved[i].actual)]
        BY <3>2, <4>1 DEF Reloaded
      <4>3. Len(commands') = Len(saved) /\ \A i \in 1 .. Len(saved) : commands'[i].cmd = saved[i].cmd
        BY <1>1, <4>1, <4>2, LenProperties DEF NewEntry
      <4>4. Places(commands', c) = Places(saved, c) BY <4>3 DEF Places
      <4> QED BY <2>2, <2>3, <3>2, <4>4
    <3> QED BY <1>3, <3>1, <3>2
  <2>7. ~mixed' => Recorded(c)' <= M
    <3>1. ~mixed' => ~mixed BY <1>3
    <3> QED BY <2>1, <2>2, <2>3, <3>1
  <2> HIDE DEF L, M, r
  <2>8. runs[c] + r <= M * (crashes + 1)
    <3>1. r <= L BY <2>1, <2>4, <2>6
    <3>2. L * (crashes + 1) = L * crashes + L /\ L * crashes \in Nat BY <1>2, <2>1
    <3>3. L * (crashes + 1) + 0 <= M * (crashes + 1)
      <4>1. L + 0 <= M BY <2>1
      <4> QED BY <1>2, <2>1, <4>1, Times
    <3>4. M * (crashes + 1) \in Nat BY <1>2, <2>1
    <3> QED BY <2>1, <2>2, <2>4, <3>1, <3>2, <3>3, <3>4
  <2>9. Cardinality(Places(commands', c)) <= M /\ runs'[c] + r <= M * (crashes' + 1)
    BY <1>1, <2>1, <2>2, <2>4, <2>6, <2>8
  <2> QED BY <1>1, <2>7, <2>9 DEF Bounded, Places, Ready, L, M, r
<1> QED BY <1>1, <1>4 DEF RunInv

LEMMA InitRuns == Init => RunInv
<1> SUFFICES ASSUME Init PROVE RunInv
  OBVIOUS
<1>1. /\ commands = <<>> /\ saved = <<>> /\ pc = "idle" /\ todo = {} /\ incoming = {} /\ submitted = {}
      /\ runs = [c \in Commands |-> 0] /\ crashes = 0 /\ failures = 0
  BY DEF Init
<1>2. ASSUME NEW c \in Commands PROVE Bounded(c)
  <2>1. Places(commands, c) = {} /\ Ready(commands, c) = {} /\ Places(saved, c) = {}
    BY <1>1, EmptySeq DEF Places, Ready
  <2>2. Cardinality({}) = 0 BY FS_EmptySet
  <2>3. Loads(c) = 0 BY <1>1 DEF Loads
  <2>7. runs[c] = 0 BY <1>1
  <2>8. Cardinality(Ready(commands, c)) = 0 BY <2>1, <2>2
  <2>4. runs[c] + Cardinality(Ready(commands, c)) = 0 BY <2>7, <2>8
  <2>5. pc # "down" /\ Loads(c) * (crashes + 1) = 0 BY <1>1, <2>3
  <2>6. Cardinality(Places(commands, c)) = 0 /\ Cardinality(Places(saved, c)) = 0 BY <2>1, <2>2
  <2>9. Recorded(c) = 0 BY <1>1, <2>6 DEF Recorded
  <2> QED BY <2>3, <2>4, <2>5, <2>6, <2>9 DEF Bounded
<1> QED BY <1>1, <1>2 DEF RunInv

LEMMA NextRuns ==
  QueueInv /\ QueueInv' /\ RunInv /\ ~reread' /\ [QueueNext]_queueVars => RunInv'
<1> SUFFICES ASSUME QueueInv, QueueInv', RunInv, ~reread', [QueueNext]_queueVars PROVE RunInv'
  OBVIOUS
<1>1. CASE \/ Tick \/ (\E c \in Commands : SubmitFile(c)) \/ UNCHANGED queueVars
           \/ BeginPass \/ EndLoad \/ EndRequest
  BY <1>1, QuietRuns
<1>2. ASSUME NEW c \in Commands, AddEvent(c) PROVE RunInv'
  BY <1>2, AddEventRuns
<1>3. ASSUME NEW c \in Commands, NEW actual \in BOOLEAN, DelEvent(c, actual) PROVE RunInv'
  BY <1>3, DelEventRuns
<1>4. ASSUME NEW c \in Commands, LoadFile(c) PROVE RunInv'
  BY <1>4, LoadFileRuns
<1>5. CASE RunEntry BY <1>5, RunEntryRuns
<1>6. CASE BeginSave BY <1>6, BeginSaveRuns
<1>9. CASE WriteEntry BY <1>9, WriteEntryRuns
<1>7. CASE Crash BY <1>7, CrashRuns
<1>8. CASE Restart BY <1>8, RestartRuns
<1> QED BY <1>1, <1>2, <1>3, <1>4, <1>5, <1>6, <1>7, <1>8, <1>9 DEF QueueNext

\* What a process began with it has begun with for good.
LEMMA StaysReread == QueueInv /\ [QueueNext]_queueVars /\ reread => reread'
BY DEF QueueInv, QueueTypes, QueueNext, Tick, SubmitFile, AddEvent, DelEvent, BeginPass, LoadFile, EndLoad,
       RunEntry, BeginSave, WriteEntry, EndRequest, Crash, Restart, history, ofSaves, queueVars

\* A command is run once, and once more at most for each crash and each system
\* call that fails, for any number of commands, requests, crashes and failures
\* and whichever way saves, reloads and the run of the list overlap, as long as the
\* process was never started with a file a request got into while it was written.
THEOREM RunOftenAtMost == QueueSpec => []RunsBounded
<1> DEFINE Inv == reread \/ RunInv
<1>3. Init => Inv
  BY InitRuns
<1>4. QueueInv /\ QueueInv' /\ Inv /\ [QueueNext]_queueVars => Inv'
  BY NextRuns, StaysReread
<1>1. QueueSpec => []Inv
  BY <1>3, <1>4, Invariance, PTL DEF QueueSpec
<1>2. QueueInv /\ Inv => RunsBounded
  <2> SUFFICES ASSUME QueueInv, RunInv, NEW c \in Commands
               PROVE  runs[c] <= (1 + failures) * (1 + crashes)
    BY DEF RunsBounded
  <2>1. /\ failures \in Nat /\ crashes \in Nat /\ runs[c] \in Nat
        /\ commands \in Seq(Entry) /\ Bounded(c)
    BY DEF QueueInv, QueueTypes, RunInv
  <2>2. Cardinality(Ready(commands, c)) \in Nat BY <2>1, Counted, LenProperties
  <2>3. Loads(c) \in Nat /\ Loads(c) <= 1 + failures BY <2>1 DEF Loads
  <2> DEFINE L == Loads(c)
  <2>4. L * crashes <= L * (crashes + 1) /\ L * (crashes + 1) <= (1 + failures) * (crashes + 1)
        /\ L * crashes \in Nat /\ L * (crashes + 1) \in Nat
    <3>1. L \in Nat /\ L + 0 <= 1 + failures BY <2>3
    <3> HIDE DEF L
    <3>2. L * (crashes + 1) + 0 <= (1 + failures) * (crashes + 1) BY <2>1, <3>1, Times
    <3>3. L * (crashes + 1) = L * crashes + L /\ L * crashes \in Nat BY <2>1, <3>1
    <3> QED BY <3>1, <3>2, <3>3
  <2>5. runs[c] <= L * (crashes + 1)
    <3>1. CASE pc = "down"
      <4>1. runs[c] <= L * crashes BY <2>1, <3>1 DEF Bounded
      <4> HIDE DEF L
      <4> QED BY <2>1, <2>4, <4>1
    <3>2. CASE pc # "down"
      <4>1. runs[c] + Cardinality(Ready(commands, c)) <= L * (crashes + 1) BY <2>1, <3>2 DEF Bounded
      <4> HIDE DEF L
      <4> QED BY <2>1, <2>2, <2>4, <4>1
    <3> QED BY <3>1, <3>2
  <2> HIDE DEF L
  <2>6. (1 + failures) * (crashes + 1) = (1 + failures) * (1 + crashes) /\ (1 + failures) * (1 + crashes) \in Nat
    BY <2>1
  <2> QED BY <2>1, <2>4, <2>5, <2>6
<1> QED BY <1>1, <1>2, Invariance, PTL
=============================================================================
