----------------------------- MODULE TunnelProofs -----------------------------
(***************************************************************************)
(* Theorems about Tunnel, for any set of packets, any buffer size and any  *)
(* number of damaged octets: which packet a frame brings, when the reader  *)
(* is in phase, and that the tunnel is a Wire.  A frame is a fold over its *)
(* packet and the reader is a machine that takes one octet at a time, so   *)
(* the proofs follow both octet by octet.  What the fold computes is shown *)
(* by induction on its length, from the fact that the natural numbers are  *)
(* well-founded.                                                           *)
(***************************************************************************)
EXTENDS Tunnel, SequenceTheorems, WellFoundedInduction, TLAPS

-----------------------------------------------------------------------------
(* What a fold over a sequence computes, by induction on its length. *)

\* A set of natural numbers that has 0 and with n also n + 1 has all of them.
LEMMA NatInduct ==
  ASSUME NEW S, 0 \in S, \A n \in Nat : n \in S => n + 1 \in S
  PROVE  \A n \in Nat : n \in S
<1> SUFFICES ASSUME Nat \ S # {} PROVE FALSE
  OBVIOUS
<1>1. PICK x \in Nat \ S : \A y \in Nat \ S : ~(<<y, x>> \in OpToRel(<, Nat))
  BY NatLessThanWellFounded, WFMin
<1>2. x \in Nat /\ x # 0
  OBVIOUS
<1>3. x - 1 \in Nat \ S /\ x - 1 < x /\ <<x - 1, x>> \in Nat \X Nat
  BY <1>2
<1>4. <<x - 1, x>> \in OpToRel(<, Nat)
  BY <1>3, Zenon DEF OpToRel
<1>. QED
  BY <1>1, <1>3, <1>4

\* The sequences before n, joined: the function FlattenSeq folds with.
Joins(F, s, n) == F = [i \in 1 .. n |-> IF i = 1 THEN s[i] ELSE F[i - 1] \o s[i]]

\* There is such a function for every length.
LEMMA JoinsExists == ASSUME NEW s, NEW n \in Nat PROVE \E F : Joins(F, s, n)
<1> DEFINE S == { m \in Nat : \E F : Joins(F, s, m) }
<1>1. 0 \in S
  <2> DEFINE F == [i \in 1 .. 0 |-> 0]
  <2>1. F = [i \in 1 .. 0 |-> IF i = 1 THEN s[i] ELSE F[i - 1] \o s[i]]
    OBVIOUS
  <2>. QED
    BY <2>1 DEF Joins
<1>2. ASSUME NEW m \in Nat, m \in S PROVE m + 1 \in S
  <2>1. PICK F : Joins(F, s, m)
    BY <1>2
  <2> DEFINE G == [i \in 1 .. m + 1 |->
                    IF i = m + 1 THEN IF i = 1 THEN s[i] ELSE F[m] \o s[i] ELSE F[i]]
             H == [i \in 1 .. m + 1 |-> IF i = 1 THEN s[i] ELSE G[i - 1] \o s[i]]
  <2>2. ASSUME NEW i \in 1 .. m + 1 PROVE G[i] = H[i]
    <3>1. CASE i = 1
      BY <2>1, <3>1 DEF Joins
    <3>2. CASE i # 1 /\ i = m + 1
      <4>1. m \in 1 .. m + 1 /\ m # m + 1 /\ i - 1 = m
        BY <3>2
      <4>. QED
        BY <3>2, <4>1
    <3>3. CASE i # 1 /\ i # m + 1
      <4>1. i \in 1 .. m /\ i - 1 \in 1 .. m + 1 /\ i - 1 # m + 1
        BY <3>3
      <4>2. F[i] = F[i - 1] \o s[i]
        BY <2>1, <3>3, <4>1 DEF Joins
      <4>. QED
        BY <3>3, <4>1, <4>2
    <3>. QED
      BY <3>1, <3>2, <3>3
  <2>3. G = H
    BY <2>2
  <2>4. Joins(G, s, m + 1)
    BY <2>3 DEF Joins
  <2>. QED
    BY <2>4
<1>. HIDE DEF S
<1>3. n \in S
  BY <1>1, <1>2, NatInduct
<1>. QED
  BY <1>3 DEF S

\* FlattenSeq returns its last value.
LEMMA FlattenJoins ==
  ASSUME NEW T, NEW s \in Seq(T), s # <<>>
  PROVE  \E F : Joins(F, s, Len(s)) /\ FlattenSeq(s) = F[Len(s)]
<1>1. Len(s) \in Nat /\ Len(s) # 0
  BY EmptySeq
<1>2. PICK G : Joins(G, s, Len(s))
  BY <1>1, JoinsExists
<1> DEFINE F == CHOOSE f : f = [i \in 1 .. Len(s) |-> IF i = 1 THEN s[i] ELSE f[i - 1] \o s[i]]
<1>3. F = [i \in 1 .. Len(s) |-> IF i = 1 THEN s[i] ELSE F[i - 1] \o s[i]]
  BY <1>2 DEF Joins
<1>4. FlattenSeq(s) = F[Len(s)]
  BY <1>1 DEF FlattenSeq
<1>. QED
  BY <1>3, <1>4 DEF Joins

\* The function of a longer sequence agrees with that of a shorter one.
LEMMA JoinsAgree ==
  ASSUME NEW T, NEW s \in Seq(T), NEW t \in Seq(T), NEW m \in Nat,
         \A i \in 1 .. m : s[i] = t[i]
  PROVE  \A F, G : Joins(F, s, m) /\ Joins(G, t, m + 1) => \A i \in 1 .. m : F[i] = G[i]
<1> SUFFICES ASSUME NEW F, NEW G, Joins(F, s, m), Joins(G, t, m + 1)
             PROVE  \A i \in 1 .. m : F[i] = G[i]
  OBVIOUS
<1> DEFINE S == { i \in Nat : i \in 1 .. m => F[i] = G[i] }
<1>1. 0 \in S
  OBVIOUS
<1>2. ASSUME NEW i \in Nat, i \in S PROVE i + 1 \in S
  <2> SUFFICES ASSUME i + 1 \in 1 .. m PROVE F[i + 1] = G[i + 1]
    OBVIOUS
  <2>1. F[i + 1] = IF i + 1 = 1 THEN s[i + 1] ELSE F[(i + 1) - 1] \o s[i + 1]
    BY DEF Joins
  <2>2. G[i + 1] = IF i + 1 = 1 THEN t[i + 1] ELSE G[(i + 1) - 1] \o t[i + 1]
    <3>1. i + 1 \in 1 .. m + 1
      OBVIOUS
    <3>. QED
      BY <3>1 DEF Joins
  <2>3. CASE i = 0
    BY <2>1, <2>2, <2>3
  <2>4. CASE i # 0
    <3>1. (i + 1) - 1 = i /\ i \in 1 .. m /\ i + 1 # 1
      BY <2>4
    <3>2. F[i] = G[i]
      BY <1>2, <3>1
    <3>. QED
      BY <2>1, <2>2, <3>1, <3>2
  <2>. QED
    BY <2>3, <2>4
<1>. HIDE DEF S
<1>3. \A i \in Nat : i \in S
  BY <1>1, <1>2, NatInduct
<1>. QED
  BY <1>3 DEF S

\* One sequence, joined, is itself ...
LEMMA FlattenOne ==
  ASSUME NEW T, NEW x \in T
  PROVE  FlattenSeq(<<x>>) = x
<1>1. <<x>> \in Seq(T) /\ <<x>> # <<>> /\ Len(<<x>>) = 1
  OBVIOUS
<1>2. PICK F : Joins(F, <<x>>, 1) /\ FlattenSeq(<<x>>) = F[1]
  BY <1>1, FlattenJoins
<1>. QED
  BY <1>2 DEF Joins

\* ... and one more at the end comes behind the others.
LEMMA FlattenAppend ==
  ASSUME NEW T, NEW s \in Seq(T), s # <<>>, NEW x \in T
  PROVE  FlattenSeq(Append(s, x)) = FlattenSeq(s) \o x
<1> DEFINE longer == Append(s, x)
           m == Len(s)
<1>1. /\ longer \in Seq(T) /\ longer # <<>> /\ Len(longer) = m + 1 /\ m \in Nat /\ m >= 1
      /\ \A i \in 1 .. m : s[i] = longer[i]
      /\ longer[m + 1] = x
  BY AppendProperties, EmptySeq
<1> HIDE DEF longer, m
<1>2. PICK F : Joins(F, s, m) /\ FlattenSeq(s) = F[m]
  BY FlattenJoins DEF m
<1>3. PICK G : Joins(G, longer, m + 1) /\ FlattenSeq(longer) = G[m + 1]
  BY <1>1, FlattenJoins
<1>4. F[m] = G[m]
  <2>1. m <= m + 1 /\ m + 1 \in Nat /\ m \in 1 .. m
    BY <1>1
  <2>2. \A f, g : Joins(f, s, m) /\ Joins(g, longer, m + 1) => \A i \in 1 .. m : f[i] = g[i]
    <3>1. m \in Nat /\ longer \in Seq(T) /\ \A i \in 1 .. m : s[i] = longer[i]
      BY <1>1
    <3>. QED
      BY <3>1, JoinsAgree
  <2>. QED
    BY <1>2, <1>3, <2>1, <2>2
<1>5. G[m + 1] = G[m] \o x
  <2>1. G[m + 1] = IF m + 1 = 1 THEN longer[m + 1] ELSE G[(m + 1) - 1] \o longer[m + 1]
    <3>1. m + 1 \in 1 .. m + 1
      BY <1>1
    <3>. QED
      BY <1>3, <3>1 DEF Joins
  <2>2. m + 1 # 1 /\ (m + 1) - 1 = m
    BY <1>1
  <2>. QED
    BY <1>1, <2>1, <2>2
<1>. QED
  BY <1>2, <1>3, <1>4, <1>5 DEF longer

-----------------------------------------------------------------------------
(* What is between the delimiters of a frame. *)

\* The octets that may stand there.
Inner == Octets \ {FEND}

Body(p) == FlattenSeq([i \in DOMAIN p |-> Escaped(p[i])])

\* cssl_putslip writes a delimiter, the octets of the packet, escaped, and a delimiter.
LEMMA FrameBody == \A p : Frame(p) = <<FEND>> \o Body(p) \o <<FEND>>
  BY DEF Frame, Body

\* An octet is written as one or two octets that are no delimiter.
LEMMA EscapedType ==
  ASSUME NEW o \in Octets
  PROVE  /\ Escaped(o) \in Seq(Inner) /\ Escaped(o) # <<>>
         /\ \/ Escaped(o) = <<o>> /\ o \notin {FEND, FESC}
            \/ \E x \in {TFEND, TFESC} : Escaped(o) = <<FESC, x>> /\ Unescaped(x) = o
<1>1. CASE o = FEND
  BY <1>1 DEF Escaped, Unescaped, Inner, Octets, FEND, FESC, TFEND, TFESC
<1>2. CASE o = FESC
  BY <1>2 DEF Escaped, Unescaped, Inner, Octets, FEND, FESC, TFEND, TFESC
<1>3. CASE o # FEND /\ o # FESC
  BY <1>3 DEF Escaped, Inner
<1>. QED
  BY <1>1, <1>2, <1>3

\* For each octet of a packet there is what is written for it.
LEMMA EscapesType ==
  ASSUME NEW p \in Seq(Octets)
  PROVE  /\ [i \in DOMAIN p |-> Escaped(p[i])] \in Seq(Seq(Inner))
         /\ Len([i \in DOMAIN p |-> Escaped(p[i])]) = Len(p)
<1>1. p \in [1 .. Len(p) -> Octets] /\ Len(p) \in Nat /\ DOMAIN p = 1 .. Len(p)
  BY LenProperties
<1>2. \A i \in 1 .. Len(p) : Escaped(p[i]) \in Seq(Inner)
  BY <1>1, EscapedType
<1> DEFINE e == [i \in 1 .. Len(p) |-> Escaped(p[i])]
<1>3. e \in [1 .. Len(p) -> Seq(Inner)]
  BY <1>2
<1>4. e \in Seq(Seq(Inner)) /\ Len(e) = Len(p)
  BY <1>1, <1>3, SeqDef, LenProperties
<1>. QED
  BY <1>1, <1>4

\* For no octets nothing is written.
LEMMA BodyEmpty == Body(<<>>) = <<>>
<1> DEFINE e == [i \in DOMAIN <<>> |-> Escaped(<<>>[i])]
<1>1. e = <<>>
  OBVIOUS
<1>2. FlattenSeq(<<>>) = <<>>
  BY DEF FlattenSeq
<1>. QED
  BY <1>1, <1>2 DEF Body

\* An octet more is written behind the others.
LEMMA BodyAppend ==
  ASSUME NEW p \in Seq(Octets), NEW o \in Octets
  PROVE  Body(Append(p, o)) = Body(p) \o Escaped(o)
<1> DEFINE e == [i \in DOMAIN p |-> Escaped(p[i])]
           q == Append(p, o)
           f == [i \in DOMAIN q |-> Escaped(q[i])]
<1>1. q \in Seq(Octets) /\ Len(q) = Len(p) + 1 /\ Len(p) \in Nat
  BY AppendProperties, LenProperties
<1>2. e \in Seq(Seq(Inner)) /\ Len(e) = Len(p) /\ f \in Seq(Seq(Inner)) /\ Len(f) = Len(p) + 1
  BY <1>1, EscapesType
<1>3. Escaped(o) \in Seq(Inner)
  BY EscapedType
<1>4. f = Append(e, Escaped(o))
  <2>1. Append(e, Escaped(o)) \in Seq(Seq(Inner)) /\ Len(Append(e, Escaped(o))) = Len(p) + 1
    BY <1>2, <1>3, AppendProperties
  <2>2. DOMAIN p = 1 .. Len(p) /\ DOMAIN q = 1 .. Len(p) + 1
    BY <1>1, LenProperties
  <2>3. ASSUME NEW i \in 1 .. Len(p) + 1 PROVE f[i] = Append(e, Escaped(o))[i]
    <3>1. CASE i \in 1 .. Len(p)
      <4>1. f[i] = Escaped(q[i]) /\ q[i] = p[i] /\ e[i] = Escaped(p[i])
        BY <2>2, <3>1, AppendProperties
      <4>2. Append(e, Escaped(o))[i] = e[i]
        BY <1>2, <1>3, <3>1, AppendProperties
      <4>. QED
        BY <4>1, <4>2
    <3>2. CASE i = Len(p) + 1
      <4>1. f[i] = Escaped(q[i]) /\ q[i] = o
        BY <2>2, <3>2, AppendProperties
      <4>2. Append(e, Escaped(o))[i] = Escaped(o)
        BY <1>2, <1>3, <3>2, AppendProperties
      <4>. QED
        BY <4>1, <4>2
    <3>. QED
      BY <1>1, <3>1, <3>2
  <2>. HIDE DEF e, q, f
  <2>. QED
    BY <1>1, <1>2, <2>1, <2>3, SeqEqual
<1>5. CASE p = <<>>
  <2>1. e = <<>> /\ Append(e, Escaped(o)) = <<Escaped(o)>>
    BY <1>5
  <2>2. Body(q) = Escaped(o)
    BY <1>3, <1>4, <2>1, FlattenOne DEF Body
  <2>3. Body(p) \o Escaped(o) = Escaped(o)
    BY <1>3, <1>5, BodyEmpty, ConcatEmptySeq
  <2>. QED
    BY <2>2, <2>3
<1>6. CASE p # <<>>
  <2>1. e # <<>>
    BY <1>2, <1>6, EmptySeq
  <2>2. FlattenSeq(Append(e, Escaped(o))) = FlattenSeq(e) \o Escaped(o)
    BY <1>2, <1>3, <2>1, FlattenAppend
  <2>. QED
    BY <1>4, <2>2 DEF Body
<1>. QED
  BY <1>5, <1>6

\* The body of a part of the packet is the beginning of the body.
LEMMA BodyParts ==
  ASSUME NEW p \in Seq(Octets), NEW i \in 0 .. Len(p)
  PROVE  /\ Body(SubSeq(p, 1, i)) \in Seq(Inner)
         /\ \E r \in Seq(Inner) : Body(p) = Body(SubSeq(p, 1, i)) \o r
<1>0. Len(p) \in Nat
  BY LenProperties
<1>1. ASSUME NEW k \in 0 .. Len(p)
      PROVE  SubSeq(p, 1, k) \in Seq(Octets)
  <2>1. \A j \in 1 .. k : p[j] \in Octets
    BY <1>0, ElementOfSeq
  <2>. QED
    BY <1>0, <2>1, SubSeqProperties
<1>2. ASSUME NEW k \in Nat, k + 1 <= Len(p)
      PROVE  /\ Body(SubSeq(p, 1, k + 1)) = Body(SubSeq(p, 1, k)) \o Escaped(p[k + 1])
             /\ Escaped(p[k + 1]) \in Seq(Inner)
  <2>1. k + 1 \in 1 .. Len(p) /\ k \in 0 .. Len(p) /\ p[k + 1] \in Octets
    BY <1>0, <1>2, ElementOfSeq
  <2>2. SubSeq(p, 1, k + 1) = SubSeq(p, 1, k) \o <<p[k + 1]>>
    <3>1. 1 \in 1 .. Len(p) /\ k + 1 \in 1 .. Len(p) /\ (k + 1) - 1 = k
      BY <1>0, <2>1
    <3>. QED
      BY <3>1, SubSeqRecursiveSecond
  <2>3. SubSeq(p, 1, k + 1) = Append(SubSeq(p, 1, k), p[k + 1])
    BY <1>1, <2>1, <2>2, AppendIsConcat
  <2>. QED
    BY <1>1, <2>1, <2>3, BodyAppend, EscapedType
<1>3. Body(SubSeq(p, 1, i)) \in Seq(Inner)
  <2> DEFINE S == { k \in Nat : k <= Len(p) => Body(SubSeq(p, 1, k)) \in Seq(Inner) }
  <2>1. 0 \in S
    <3>1. SubSeq(p, 1, 0) = <<>>
      BY SubSeqEmpty
    <3>. QED
      BY <3>1, BodyEmpty, EmptySeq
  <2>2. ASSUME NEW k \in Nat, k \in S PROVE k + 1 \in S
    <3> SUFFICES ASSUME k + 1 <= Len(p) PROVE Body(SubSeq(p, 1, k + 1)) \in Seq(Inner)
      OBVIOUS
    <3>1. Body(SubSeq(p, 1, k)) \in Seq(Inner)
      BY <1>0, <2>2
    <3>. QED
      BY <1>2, <3>1, ConcatProperties
  <2>. HIDE DEF S
  <2>3. i \in S
    BY <1>0, <2>1, <2>2, NatInduct
  <2>. QED
    BY <1>0, <2>3 DEF S
<1>4. \E r \in Seq(Inner) : Body(p) = Body(SubSeq(p, 1, i)) \o r
  <2> DEFINE B == Body(SubSeq(p, 1, i))
             S == { k \in Nat : i + k <= Len(p) =>
                                  \E r \in Seq(Inner) : Body(SubSeq(p, 1, i + k)) = B \o r }
  <2>1. 0 \in S
    <3>1. B \o <<>> = B /\ <<>> \in Seq(Inner) /\ i + 0 = i
      BY <1>0, <1>3, ConcatEmptySeq
    <3>. QED
      BY <3>1
  <2>2. ASSUME NEW k \in Nat, k \in S PROVE k + 1 \in S
    <3> SUFFICES ASSUME i + (k + 1) <= Len(p)
                 PROVE  \E r \in Seq(Inner) : Body(SubSeq(p, 1, i + (k + 1))) = B \o r
      OBVIOUS
    <3>1. i + k \in Nat /\ (i + k) + 1 <= Len(p) /\ i + (k + 1) = (i + k) + 1 /\ i + k <= Len(p)
      BY <1>0
    <3>2. PICK r \in Seq(Inner) : Body(SubSeq(p, 1, i + k)) = B \o r
      BY <2>2, <3>1
    <3> DEFINE x == Escaped(p[(i + k) + 1])
    <3>3. Body(SubSeq(p, 1, (i + k) + 1)) = (B \o r) \o x /\ x \in Seq(Inner)
      BY <1>2, <3>1, <3>2
    <3>. HIDE DEF B, x
    <3>4. (B \o r) \o x = B \o (r \o x) /\ r \o x \in Seq(Inner)
      BY <1>3, <3>3, ConcatAssociative, ConcatProperties DEF B
    <3>. QED
      BY <3>1, <3>3, <3>4
  <2>. HIDE DEF S
  <2>3. Len(p) - i \in Nat /\ i + (Len(p) - i) = Len(p)
    BY <1>0
  <2>4. Len(p) - i \in S
    BY <2>1, <2>2, <2>3, NatInduct
  <2>5. \E r \in Seq(Inner) : Body(SubSeq(p, 1, i + (Len(p) - i))) = B \o r
    BY <1>0, <2>3, <2>4 DEF S
  <2>6. SubSeq(p, 1, Len(p)) = p
    BY SubSeqFull
  <2>. QED
    BY <2>3, <2>5, <2>6
<1>. QED
  BY <1>3, <1>4

\* Joining octets is associative, and what is behind the same beginning is the same.
LEMMA InnerConcat ==
  /\ \A b, c, d \in Seq(Inner) : (b \o c) \o d = b \o (c \o d)
  /\ \A b, c, d \in Seq(Inner) : b \o c = b \o d => c = d
<1>1. \A b, c, d \in Seq(Inner) : (b \o c) \o d = b \o (c \o d)
  BY ConcatAssociative
<1>2. \A b, c, d \in Seq(Inner) : b \o c = b \o d => c = d
  BY ConcatSimplifications
<1>. QED
  BY <1>1, <1>2

\* What begins with something is something.
LEMMA InnerNonEmpty == \A b, c \in Seq(Inner) : b # <<>> => b \o c # <<>>
  BY ConcatEqualIffEmpty

\* r is left of the body behind the first i octets of the packet.
Left(p, i, r) == Body(p) = Body(SubSeq(p, 1, i)) \o r

\* It begins with what is written for the next octet, and nothing is left behind the
\* whole packet.
LEMMA BodyNext ==
  ASSUME NEW p \in Seq(Octets), NEW i \in 0 .. Len(p), NEW r \in Seq(Inner), Left(p, i, r)
  PROVE  /\ i = Len(p) => r = <<>>
         /\ i < Len(p) => \E rest \in Seq(Inner) : /\ r = Escaped(p[i + 1]) \o rest
                                                   /\ Left(p, i + 1, rest)
<1>0. Len(p) \in Nat
  BY LenProperties
<1> DEFINE B == Body(SubSeq(p, 1, i))
<1>1. B \in Seq(Inner)
  BY BodyParts
<1>2. ASSUME i = Len(p) PROVE r = <<>>
  <2>1. SubSeq(p, 1, i) = p
    BY <1>2, SubSeqFull
  <2>2. B \o r = B
    BY <2>1 DEF Left
  <2>. HIDE DEF B
  <2>. QED
    BY <1>1, <2>2, ConcatEqualIffEmpty
<1>3. ASSUME i < Len(p)
      PROVE  \E rest \in Seq(Inner) : r = Escaped(p[i + 1]) \o rest /\ Left(p, i + 1, rest)
  <2>1. i + 1 \in 0 .. Len(p) /\ i + 1 \in 1 .. Len(p) /\ (i + 1) - 1 = i /\ 1 \in 1 .. Len(p)
    BY <1>0, <1>3
  <2>2. p[i + 1] \in Octets /\ Escaped(p[i + 1]) \in Seq(Inner)
    BY <2>1, ElementOfSeq, EscapedType
  <2>3. SubSeq(p, 1, i) \in Seq(Octets)
    <3>1. \A j \in 1 .. i : p[j] \in Octets
      BY <1>0, ElementOfSeq
    <3>. QED
      BY <1>0, <3>1, SubSeqProperties
  <2>4. SubSeq(p, 1, i + 1) = Append(SubSeq(p, 1, i), p[i + 1])
    <3>1. SubSeq(p, 1, i + 1) = SubSeq(p, 1, i) \o <<p[i + 1]>>
      BY <2>1, SubSeqRecursiveSecond
    <3>. QED
      BY <2>2, <2>3, <3>1, AppendIsConcat
  <2>5. Body(SubSeq(p, 1, i + 1)) = B \o Escaped(p[i + 1])
    BY <2>2, <2>3, <2>4, BodyAppend
  <2>6. PICK rest \in Seq(Inner) : Body(p) = Body(SubSeq(p, 1, i + 1)) \o rest
    BY <2>1, BodyParts
  <2>7. r = Escaped(p[i + 1]) \o rest
    <3> DEFINE x == Escaped(p[i + 1])
    <3>3. x \o rest \in Seq(Inner)
      BY <2>2, <2>6, ConcatProperties
    <3>4. B \o r = (B \o x) \o rest
      BY <2>5, <2>6 DEF Left
    <3>. HIDE DEF B, x
    <3>5. x \in Seq(Inner) /\ rest \in Seq(Inner)
      BY <2>2, <2>6 DEF x
    <3>6. B \o r = B \o (x \o rest)
      <4>1. B \in Seq(Inner)
        BY <1>1
      <4>2. (B \o x) \o rest = B \o (x \o rest)
        BY <4>1, <3>5, InnerConcat
      <4>. QED
        BY <3>4, <4>2, Zenon
    <3>7. r = x \o rest
      BY <1>1, <3>3, <3>6, InnerConcat
    <3>. QED
      BY <3>7 DEF x
  <2>. QED
    BY <2>6, <2>7 DEF Left
<1>. QED
  BY <1>2, <1>3

\* What is written for a packet: delimiter, body, delimiter.
LEMMA FrameFacts ==
  ASSUME NEW p \in Packets
  PROVE  /\ p \in Seq(Octets) /\ Len(p) \in Nat /\ Len(p) >= 1 /\ Len(p) <= BufSize
         /\ Body(p) \in Seq(Inner) /\ Left(p, 0, Body(p))
         /\ Frame(p) \in Seq(Octets) /\ Frame(p) # <<>> /\ Len(Frame(p)) # 1
         /\ Head(Frame(p)) = FEND /\ Tail(Frame(p)) = Body(p) \o <<FEND>>
<1>1. p \in Seq(Octets) /\ Len(p) \in 1 .. BufSize /\ BufSize \in Nat
  BY TunnelAssumption
<1>2. Body(p) \in Seq(Inner)
  <2>1. SubSeq(p, 1, Len(p)) = p /\ Len(p) \in 0 .. Len(p)
    BY <1>1, SubSeqFull
  <2>. QED
    BY <1>1, <2>1, BodyParts
<1>3. Left(p, 0, Body(p))
  <2>1. SubSeq(p, 1, 0) = <<>>
    BY SubSeqEmpty
  <2>2. <<>> \o Body(p) = Body(p)
    BY <1>2, ConcatEmptySeq
  <2>. QED
    BY <2>1, <2>2, BodyEmpty DEF Left
<1>4. <<FEND>> \in Seq(Octets) /\ Body(p) \in Seq(Octets)
  <2>1. FEND \in Octets /\ Inner \subseteq Octets
    BY DEF Octets, Inner
  <2>. QED
    BY <1>2, <2>1, SeqMonotonic
<1> DEFINE z == Body(p) \o <<FEND>>
<1>5. z \in Seq(Octets) /\ Len(z) = Len(Body(p)) + 1 /\ Len(Body(p)) \in Nat
  BY <1>4, ConcatProperties, LenProperties
<1>6. Frame(p) = <<FEND>> \o z
  <2>1. (<<FEND>> \o Body(p)) \o <<FEND>> = <<FEND>> \o (Body(p) \o <<FEND>>)
    BY <1>4, ConcatAssociative
  <2>. QED
    BY <2>1, FrameBody
<1>. HIDE DEF z
<1>7. Frame(p) \in Seq(Octets) /\ Len(Frame(p)) = Len(z) + 1 /\ Frame(p)[1] = FEND
  BY <1>4, <1>5, <1>6, ConcatProperties
<1>8. \A i \in 1 .. Len(z) : Frame(p)[i + 1] = z[i]
  <2> SUFFICES ASSUME NEW i \in 1 .. Len(z) PROVE Frame(p)[i + 1] = z[i]
    OBVIOUS
  <2>1. i + 1 \in 1 .. 1 + Len(z) /\ ~(i + 1 <= 1) /\ (i + 1) - 1 = i
    BY <1>5
  <2>2. Len(<<FEND>>) = 1
    OBVIOUS
  <2>. QED
    BY <1>4, <1>5, <1>6, <2>1, <2>2, ConcatProperties
<1>9. Frame(p) # <<>>
  BY <1>5, <1>7, EmptySeq
<1>10. Tail(Frame(p)) = z
  <2>1. /\ Tail(Frame(p)) \in Seq(Octets) /\ Len(Tail(Frame(p))) = Len(z)
        /\ \A i \in 1 .. Len(z) : Tail(Frame(p))[i] = Frame(p)[i + 1]
    BY <1>5, <1>7, <1>9, HeadTailProperties
  <2>. QED
    BY <1>5, <1>8, <2>1, SeqEqual
<1>11. Head(Frame(p)) = FEND
  BY <1>7, <1>9
<1>. QED
  BY <1>1, <1>2, <1>3, <1>5, <1>7, <1>9, <1>10, <1>11 DEF z

\* What is left of a frame that has begun.
LEMMA RestFacts ==
  ASSUME NEW r \in Seq(Inner), NEW z, z = r \o <<FEND>>
  PROVE  /\ z \in Seq(Octets) /\ z # <<>>
         /\ r = <<>> => Head(z) = FEND /\ Len(z) = 1
         /\ r # <<>> => /\ Head(z) = Head(r) /\ Head(z) \in Inner /\ Len(z) # 1
                        /\ Tail(r) \in Seq(Inner) /\ Tail(z) = Tail(r) \o <<FEND>>
                        /\ Tail(z) # <<>> /\ Tail(z) \in Seq(Octets)
<1>1. FEND \in Octets /\ Inner \subseteq Octets
  BY DEF Octets, Inner
<1>2. <<FEND>> \in Seq(Octets) /\ r \in Seq(Octets) /\ Len(r) \in Nat
  BY <1>1, SeqMonotonic, LenProperties
<1>3. /\ z \in Seq(Octets) /\ Len(z) = Len(r) + 1
      /\ \A i \in 1 .. Len(r) + 1 : z[i] = IF i <= Len(r) THEN r[i] ELSE <<FEND>>[i - Len(r)]
  BY <1>2, ConcatProperties
<1>4. z # <<>> /\ Head(z) = z[1]
  BY <1>2, <1>3, EmptySeq
<1>5. ASSUME r = <<>> PROVE Head(z) = FEND /\ Len(z) = 1
  BY <1>2, <1>3, <1>4, <1>5
<1>6. ASSUME r # <<>>
      PROVE  /\ Head(z) = Head(r) /\ Head(z) \in Inner /\ Len(z) # 1
             /\ Tail(r) \in Seq(Inner) /\ Tail(z) = Tail(r) \o <<FEND>>
             /\ Tail(z) # <<>> /\ Tail(z) \in Seq(Octets)
  <2>1. Len(r) >= 1 /\ Head(r) = r[1] /\ r[1] \in Inner
    BY <1>6, EmptySeq, ElementOfSeq
  <2>2. Head(z) = Head(r) /\ Head(z) \in Inner /\ Len(z) # 1
    BY <1>2, <1>3, <1>4, <2>1
  <2>3. /\ Tail(r) \in Seq(Inner) /\ Tail(r) \in Seq(Octets) /\ Len(Tail(r)) = Len(r) - 1
        /\ \A i \in 1 .. Len(r) - 1 : Tail(r)[i] = r[i + 1]
    BY <1>2, <1>6, HeadTailProperties
  <2>4. /\ Tail(z) \in Seq(Octets) /\ Len(Tail(z)) = Len(r)
        /\ \A i \in 1 .. Len(r) : Tail(z)[i] = z[i + 1]
    BY <1>2, <1>3, <1>4, HeadTailProperties
  <2> DEFINE y == Tail(r) \o <<FEND>>
  <2>5. /\ y \in Seq(Octets) /\ Len(y) = Len(r)
        /\ \A i \in 1 .. Len(r) : y[i] = IF i <= Len(r) - 1 THEN Tail(r)[i]
                                                           ELSE <<FEND>>[i - (Len(r) - 1)]
    <3>1. Len(<<FEND>>) = 1 /\ (Len(r) - 1) + 1 = Len(r)
      BY <1>2
    <3>. QED
      BY <1>2, <2>3, <3>1, ConcatProperties
  <2>. HIDE DEF y
  <2>6. ASSUME NEW i \in 1 .. Len(r) PROVE Tail(z)[i] = y[i]
    <3>1. i + 1 \in 1 .. Len(r) + 1
      BY <1>2
    <3>2. CASE i <= Len(r) - 1
      <4>1. i \in 1 .. Len(r) - 1 /\ i + 1 <= Len(r)
        BY <1>2, <3>2
      <4>. QED
        BY <1>3, <2>3, <2>4, <2>5, <3>1, <3>2, <4>1
    <3>3. CASE ~(i <= Len(r) - 1)
      <4>1. i = Len(r) /\ ~(i + 1 <= Len(r)) /\ (i + 1) - Len(r) = 1 /\ i - (Len(r) - 1) = 1
        BY <1>2, <3>3
      <4>. QED
        BY <1>3, <2>4, <2>5, <3>1, <3>3, <4>1
    <3>. QED
      BY <3>2, <3>3
  <2>7. Tail(z) = y
    BY <2>4, <2>5, <2>6, SeqEqual
  <2>8. Tail(z) # <<>>
    BY <2>1, <2>4, EmptySeq
  <2>. QED
    BY <2>2, <2>3, <2>4, <2>7, <2>8 DEF y
<1>. QED
  BY <1>3, <1>4, <1>5, <1>6

\* An octet in front of others.
LEMMA ConsFacts ==
  \A x, y : x \in Inner /\ y \in Seq(Inner) =>
    /\ <<x>> \o y # <<>> /\ <<x>> \o y \in Seq(Inner)
    /\ Head(<<x>> \o y) = x /\ Tail(<<x>> \o y) = y
<1> SUFFICES ASSUME NEW x \in Inner, NEW y \in Seq(Inner)
             PROVE  /\ <<x>> \o y # <<>> /\ <<x>> \o y \in Seq(Inner)
                    /\ Head(<<x>> \o y) = x /\ Tail(<<x>> \o y) = y
  OBVIOUS
<1> DEFINE z == <<x>> \o y
<1>1. <<x>> \in Seq(Inner) /\ Len(<<x>>) = 1 /\ <<x>>[1] = x /\ Len(y) \in Nat
  BY LenProperties
<1>2. /\ z \in Seq(Inner) /\ Len(z) = 1 + Len(y)
      /\ \A i \in 1 .. 1 + Len(y) : z[i] = IF i <= 1 THEN <<x>>[i] ELSE y[i - 1]
  BY <1>1, ConcatProperties
<1>. HIDE DEF z
<1>3. z # <<>>
  BY <1>1, <1>2, EmptySeq
<1>4. Head(z) = x
  BY <1>1, <1>2, <1>3
<1>5. Tail(z) = y
  <2>1. /\ Tail(z) \in Seq(Inner) /\ Len(Tail(z)) = Len(y)
        /\ \A i \in 1 .. Len(y) : Tail(z)[i] = z[i + 1]
    BY <1>1, <1>2, <1>3, HeadTailProperties
  <2>2. ASSUME NEW i \in 1 .. Len(y) PROVE Tail(z)[i] = y[i]
    <3>1. i + 1 \in 1 .. 1 + Len(y) /\ ~(i + 1 <= 1) /\ (i + 1) - 1 = i
      BY <1>1
    <3>. QED
      BY <1>2, <2>1, <3>1
  <2>. QED
    BY <2>1, <2>2, SeqEqual
<1>. QED
  BY <1>2, <1>3, <1>4, <1>5 DEF z

\* Two octets in front of others.
LEMMA ConsTwo ==
  \A a, x, y : a \in Inner /\ x \in Inner /\ y \in Seq(Inner) =>
    <<x>> \o y \in Seq(Inner) /\ <<a, x>> \o y = <<a>> \o (<<x>> \o y)
<1> SUFFICES ASSUME NEW a \in Inner, NEW x \in Inner, NEW y \in Seq(Inner)
             PROVE  <<x>> \o y \in Seq(Inner) /\ <<a, x>> \o y = <<a>> \o (<<x>> \o y)
  OBVIOUS
<1>1. <<a>> \in Seq(Inner) /\ <<x>> \in Seq(Inner) /\ <<a, x>> = <<a>> \o <<x>>
  <2>1. <<a>> \in Seq(Inner) /\ <<x>> \in Seq(Inner)
    OBVIOUS
  <2>2. Append(<<a>>, x) = <<a>> \o <<x>>
    BY <2>1, AppendIsConcat
  <2>3. <<a, x>> \in Seq(Inner) /\ Len(<<a, x>>) = 2 /\ <<a, x>>[1] = a /\ <<a, x>>[2] = x
    OBVIOUS
  <2>4. /\ Append(<<a>>, x) \in Seq(Inner) /\ Len(Append(<<a>>, x)) = 2
        /\ Append(<<a>>, x)[1] = a /\ Append(<<a>>, x)[2] = x
    BY <2>1, AppendProperties
  <2>5. \A i \in 1 .. 2 : Append(<<a>>, x)[i] = <<a, x>>[i]
    BY <2>3, <2>4
  <2>6. Append(<<a>>, x) = <<a, x>>
    BY <2>3, <2>4, <2>5, SeqEqual
  <2>. QED
    BY <2>1, <2>2, <2>6
<1>2. (<<a>> \o <<x>>) \o y = <<a>> \o (<<x>> \o y)
  BY <1>1, ConcatAssociative
<1>. QED
  BY <1>1, <1>2, ConcatProperties

\* Behind a part of the packet that is not all of it something is left.
LEMMA BodyGoesOn ==
  ASSUME NEW p \in Seq(Octets), NEW i \in 0 .. Len(p), NEW r \in Seq(Inner), Left(p, i, r),
         i < Len(p)
  PROVE  r # <<>>
<1>1. Len(p) \in Nat
  BY LenProperties
<1>2. PICK t \in Seq(Inner) : r = Escaped(p[i + 1]) \o t /\ Left(p, i + 1, t)
  BY BodyNext
<1>3. i + 1 \in 1 .. Len(p)
  BY <1>1
<1>4. p[i + 1] \in Octets
  BY <1>3, ElementOfSeq
<1>5. Escaped(p[i + 1]) \in Seq(Inner) /\ Escaped(p[i + 1]) # <<>>
  BY <1>4, EscapedType
<1>. QED
  BY <1>2, <1>5, InnerNonEmpty

-----------------------------------------------------------------------------
(* The reader. *)

\* What a buffer may hold.
Bytes == Octets \cup {Old}

Reader == [at : {"hunt", "frame", "escape"}, buf : Seq(Bytes)]

\* The reader drops what it held when it begins to hunt.
ReaderOK(rd) == rd \in Reader /\ (rd.at = "hunt" => rd.buf = <<>>)

\* An octet behind a FESC leaves some octet in the buffer.
LEMMA UnescapedType == ASSUME NEW o PROVE Unescaped(o) \in Bytes
  BY DEF Unescaped, Bytes, Octets

\* A step of the reader keeps its type, and only a delimiter ends the hunt.
LEMMA StepType ==
  ASSUME NEW rd, ReaderOK(rd), NEW o \in Octets, ~Ends(rd, o)
  PROVE  ReaderOK(Step(rd, o)) /\ (Step(rd, o).at = "hunt" <=> rd.at = "hunt" /\ o # FEND)
<1>1. rd = [at |-> rd.at, buf |-> rd.buf] /\ rd.at \in {"hunt", "frame", "escape"} /\ rd.buf \in Seq(Bytes)
  BY DEF ReaderOK, Reader
<1>2. ASSUME NEW x \in Bytes
      PROVE  ReaderOK(Store(rd, x)) /\ Store(rd, x).at = "frame"
  <2>1. Append(rd.buf, x) \in Seq(Bytes)
    BY <1>1, AppendProperties
  <2>. QED
    BY <2>1 DEF Store, ReaderOK, Reader
<1>3. o \in Bytes /\ Unescaped(o) \in Bytes
  BY UnescapedType DEF Bytes
<1>4. CASE rd.at = "hunt"
  <2>1. Step(rd, o) = IF o = FEND THEN [rd EXCEPT !.at = "frame"] ELSE rd
    BY <1>4 DEF Step, Move
  <2>2. [rd EXCEPT !.at = "frame"] \in Reader /\ [rd EXCEPT !.at = "frame"].at = "frame"
    BY <1>1 DEF Reader
  <2>3. CASE o = FEND
    BY <2>1, <2>2, <2>3 DEF ReaderOK
  <2>4. CASE o # FEND
    BY <1>4, <2>1, <2>4
  <2>. QED
    BY <2>3, <2>4
<1>5. CASE rd.at = "escape"
  <2>1. Step(rd, o) = Store(rd, Unescaped(o))
    BY <1>5 DEF Step, Move
  <2>. QED
    BY <1>2, <1>3, <1>5, <2>1
<1>6. CASE rd.at = "frame"
  <2>1. \/ Step(rd, o) = rd
        \/ o = FESC /\ Step(rd, o) = [rd EXCEPT !.at = "escape"]
        \/ Step(rd, o) = Store(rd, o)
    BY <1>6 DEF Step, Move
  <2>2. [rd EXCEPT !.at = "escape"] \in Reader /\ [rd EXCEPT !.at = "escape"].at = "escape"
    BY <1>1 DEF Reader
  <2>3. CASE Step(rd, o) = rd
    BY <1>6, <2>3
  <2>4. CASE Step(rd, o) = [rd EXCEPT !.at = "escape"]
    BY <1>6, <2>2, <2>4 DEF ReaderOK
  <2>5. CASE Step(rd, o) = Store(rd, o)
    BY <1>2, <1>3, <1>6, <2>5
  <2>. QED
    BY <2>1, <2>3, <2>4, <2>5
<1>. QED
  BY <1>1, <1>4, <1>5, <1>6

\* The reader returns octets.
LEMMA ResultType == ASSUME NEW rd, ReaderOK(rd) PROVE Result(rd) \in Seq(Bytes)
  BY AppendProperties DEF ReaderOK, Reader, Result, Bytes

\* After a frame the reader hunts and holds nothing.
LEMMA HuntingOK == ReaderOK(Hunting) /\ Hunting.at = "hunt"
  BY EmptySeq DEF ReaderOK, Reader, Hunting

\* The reader has read the octets of the packet p but for those that r is written for,
\* and may be in the middle of an escape.
Reads(rd, p, r) ==
  \E i \in 0 .. Len(p) :
    /\ rd.buf = SubSeq(p, 1, i)
    /\ \/ rd.at = "frame" /\ Left(p, i, r)
       \/ /\ rd.at = "escape" /\ i < Len(p)
          /\ \E x \in {TFEND, TFESC}, rest \in Seq(Inner) :
               r = <<x>> \o rest /\ Unescaped(x) = p[i + 1] /\ Left(p, i + 1, rest)

\* The opening delimiter of a frame is read.
LEMMA ReadsStart ==
  ASSUME NEW p \in Packets, NEW rd, ReaderOK(rd), rd.at = "hunt"
  PROVE  Reads(Step(rd, FEND), p, Body(p))
<1>1. rd \in Reader /\ rd.buf = <<>>
  BY DEF ReaderOK
<1>2. Step(rd, FEND) = [rd EXCEPT !.at = "frame"]
  BY DEF Step, Move
<1>3. Step(rd, FEND).at = "frame" /\ Step(rd, FEND).buf = <<>>
  BY <1>1, <1>2 DEF Reader
<1>4. 0 \in 0 .. Len(p) /\ Left(p, 0, Body(p)) /\ SubSeq(p, 1, 0) = <<>>
  BY FrameFacts, SubSeqEmpty
<1>. QED
  BY <1>3, <1>4 DEF Reads

\* An octet between the delimiters is read.
LEMMA ReadsOn ==
  ASSUME NEW p \in Packets, NEW rd, ReaderOK(rd), NEW r \in Seq(Inner), r # <<>>, Reads(rd, p, r)
  PROVE  ~Ends(rd, Head(r)) /\ Reads(Step(rd, Head(r)), p, Tail(r))
<1>1. p \in Seq(Octets) /\ Len(p) \in Nat /\ Len(p) <= BufSize /\ BufSize \in Nat
  BY FrameFacts, TunnelAssumption
<1>2. Head(r) \in Inner /\ Tail(r) \in Seq(Inner)
  BY HeadTailProperties
<1>3. ~Ends(rd, Head(r))
  BY <1>2 DEF Ends, Inner
<1>4. PICK i \in 0 .. Len(p) :
        /\ rd.buf = SubSeq(p, 1, i)
        /\ \/ rd.at = "frame" /\ Left(p, i, r)
           \/ /\ rd.at = "escape" /\ i < Len(p)
              /\ \E x \in {TFEND, TFESC}, rest \in Seq(Inner) :
                   r = <<x>> \o rest /\ Unescaped(x) = p[i + 1] /\ Left(p, i + 1, rest)
  BY DEF Reads
<1>5. rd \in Reader /\ Len(rd.buf) = i
  <2>1. \A j \in 1 .. i : p[j] \in Octets
    BY <1>1, ElementOfSeq
  <2>2. Len(SubSeq(p, 1, i)) = i
    BY <1>1, <2>1, SubSeqProperties
  <2>. QED
    BY <1>4, <2>2 DEF ReaderOK
<1>6. ASSUME i < Len(p)
      PROVE  /\ i + 1 \in 0 .. Len(p) /\ p[i + 1] \in Octets
             /\ Append(rd.buf, p[i + 1]) = SubSeq(p, 1, i + 1)
  <2>1. i + 1 \in 1 .. Len(p) /\ 1 \in 1 .. Len(p) /\ i + 1 \in 0 .. Len(p) /\ (i + 1) - 1 = i
    BY <1>1, <1>6
  <2>2. p[i + 1] \in Octets
    BY <1>1, <2>1, ElementOfSeq
  <2>3. SubSeq(p, 1, i) \in Seq(Octets)
    <3>1. \A j \in 1 .. i : p[j] \in Octets
      BY <1>1, ElementOfSeq
    <3>. QED
      BY <1>1, <3>1, SubSeqProperties
  <2>4. SubSeq(p, 1, i + 1) = SubSeq(p, 1, i) \o <<p[i + 1]>>
    BY <1>1, <2>1, SubSeqRecursiveSecond
  <2>5. SubSeq(p, 1, i + 1) = Append(SubSeq(p, 1, i), p[i + 1])
    BY <2>2, <2>3, <2>4, AppendIsConcat
  <2>. QED
    BY <1>4, <2>1, <2>2, <2>5
<1>7. \A x, y : x \in Inner /\ y \in Seq(Inner) /\ r = <<x>> \o y => Head(r) = x /\ Tail(r) = y
  BY ConsFacts
<1>8. CASE rd.at = "frame" /\ Left(p, i, r)
  <2>1. i < Len(p)
    BY <1>1, <1>8, BodyNext
  <2>2. PICK t \in Seq(Inner) : r = Escaped(p[i + 1]) \o t /\ Left(p, i + 1, t)
    BY <1>1, <1>8, <2>1, BodyNext
  <2>3. /\ i + 1 \in 0 .. Len(p) /\ p[i + 1] \in Octets
        /\ Append(rd.buf, p[i + 1]) = SubSeq(p, 1, i + 1)
    BY <1>6, <2>1
  <2>4. ~(Len(rd.buf) >= BufSize)
    BY <1>1, <1>5, <2>1
  <2>5. CASE Escaped(p[i + 1]) = <<p[i + 1]>> /\ p[i + 1] \notin {FEND, FESC}
    <3>1. Head(r) = p[i + 1] /\ Tail(r) = t
      BY <1>7, <2>2, <2>3, <2>5 DEF Inner
    <3>2. Step(rd, Head(r)) = Store(rd, p[i + 1])
      BY <1>8, <2>4, <2>5, <3>1 DEF Step, Move
    <3>3. Step(rd, Head(r)).at = "frame" /\ Step(rd, Head(r)).buf = SubSeq(p, 1, i + 1)
      BY <2>3, <3>2 DEF Store
    <3>. QED
      BY <1>3, <2>2, <2>3, <3>1, <3>3 DEF Reads
  <2>6. ASSUME NEW x \in {TFEND, TFESC}, Escaped(p[i + 1]) = <<FESC, x>>, Unescaped(x) = p[i + 1]
        PROVE  Reads(Step(rd, Head(r)), p, Tail(r))
    <3>1. FESC \in Inner /\ x \in Inner
      BY DEF Inner, Octets, FEND, FESC, TFEND, TFESC
    <3>2. <<x>> \o t \in Seq(Inner) /\ <<FESC, x>> \o t = <<FESC>> \o (<<x>> \o t)
      BY <3>1, ConsTwo
    <3>3. Head(r) = FESC /\ Tail(r) = <<x>> \o t
      BY <1>7, <2>2, <2>6, <3>1, <3>2
    <3>4. Step(rd, Head(r)) = [rd EXCEPT !.at = "escape"]
      BY <1>8, <2>4, <3>3 DEF Step, Move
    <3>5. Step(rd, Head(r)).at = "escape" /\ Step(rd, Head(r)).buf = SubSeq(p, 1, i)
      BY <1>4, <1>5, <3>4 DEF Reader
    <3>. QED
      BY <2>1, <2>2, <2>6, <3>3, <3>5 DEF Reads
  <2>. QED
    BY <1>3, <2>3, <2>5, <2>6, EscapedType
<1>9. CASE rd.at = "escape" /\ i < Len(p)
  <2>1. PICK x \in {TFEND, TFESC}, t \in Seq(Inner) :
               r = <<x>> \o t /\ Unescaped(x) = p[i + 1] /\ Left(p, i + 1, t)
    BY <1>4, <1>9
  <2>2. x \in Inner
    BY DEF Inner, Octets, FEND, FESC, TFEND, TFESC
  <2>3. Head(r) = x /\ Tail(r) = t
    BY <1>7, <2>1, <2>2
  <2>4. Step(rd, Head(r)) = Store(rd, p[i + 1])
    BY <1>9, <2>1, <2>3 DEF Step, Move
  <2>5. Step(rd, Head(r)).at = "frame" /\ Step(rd, Head(r)).buf = SubSeq(p, 1, i + 1)
    <3>1. Append(rd.buf, p[i + 1]) = SubSeq(p, 1, i + 1)
      BY <1>6, <1>9
    <3>. QED
      BY <2>4, <3>1 DEF Store
  <2>. QED
    BY <1>3, <1>6, <1>9, <2>1, <2>3, <2>5 DEF Reads
<1>. QED
  BY <1>4, <1>8, <1>9

\* The closing delimiter is read.
LEMMA ReadsEnd ==
  ASSUME NEW p \in Packets, NEW rd, NEW r \in Seq(Inner), r = <<>>, Reads(rd, p, r)
  PROVE  Ends(rd, FEND) /\ Result(rd) = p
<1>1. p \in Seq(Octets) /\ Len(p) \in Nat
  BY FrameFacts
<1>2. PICK i \in 0 .. Len(p) :
        /\ rd.buf = SubSeq(p, 1, i)
        /\ \/ rd.at = "frame" /\ Left(p, i, r)
           \/ /\ rd.at = "escape" /\ i < Len(p)
              /\ \E x \in {TFEND, TFESC}, rest \in Seq(Inner) :
                   r = <<x>> \o rest /\ Unescaped(x) = p[i + 1] /\ Left(p, i + 1, rest)
  BY DEF Reads
<1>3. \A x \in {TFEND, TFESC}, rest \in Seq(Inner) : r # <<x>> \o rest
  <2> TAKE x \in {TFEND, TFESC}, rest \in Seq(Inner)
  <2>1. x \in Inner
    BY DEF Inner, Octets, FEND, FESC, TFEND, TFESC
  <2>. QED
    BY <2>1, ConsFacts
<1>4. rd.at = "frame" /\ Left(p, i, r)
  BY <1>2, <1>3
<1>5. i = Len(p)
  <2>1. i < Len(p) => r # <<>>
    BY <1>1, <1>4, BodyGoesOn
  <2>. QED
    BY <1>1, <2>1
<1>6. SubSeq(p, 1, i) = p
  BY <1>1, <1>5, SubSeqFull
<1>. QED
  BY <1>2, <1>4, <1>6 DEF Ends, Result

-----------------------------------------------------------------------------
(* The invariant. *)

Record == [slipped : BOOLEAN, whole : BOOLEAN, held : Seq(Bytes), got : SUBSET Seq(Bytes)]

TunnelTypes ==
  /\ taken \in Seq(Packets) /\ tcv_fifo \in Seq(Packets)
  /\ line \in Seq(Seq(Octets) \ {<<>>})
  /\ ReaderOK(reader)
  /\ tun_fifo \in Seq(Seq(Bytes)) /\ delivered \in Seq(Seq(Bytes))
  /\ faults \in Nat /\ slipped \in BOOLEAN /\ log \in Seq(Record)

\* The number of packets that were written.
Sent == Len(taken) - Len(tcv_fifo)

\* A part of the frame that arrives has arrived.
Begun == Len(log) = Current

\* What waits in the fifo and on the line are the packets taken last, in order.
Waiting ==
  /\ Len(tcv_fifo) <= Len(taken)
  /\ \A i \in 1 .. Len(tcv_fifo) : tcv_fifo[i] = taken[Sent + i]
  /\ Len(line) <= Sent
  /\ \A i \in 1 .. Len(line) : (i = 1 /\ Begun) \/ line[i] = Frame(taken[Sent - Len(line) + i])

\* Every frame that has begun is in the log.
Logs == Len(log) \in {Current - 1, Current} /\ (Begun => line # <<>>)

\* The reader hunts between two frames if it is in phase, and in a frame if it is not.
Phase == reader.at = "hunt" <=> (slipped <=> Begun)

\* While the undamaged frame of p arrives, with r yet to come, the reader has read it so
\* far or, out of phase, has returned what it held when the frame began.
ReadSoFar(e, p, r) ==
  /\ e.slipped = slipped
  /\ slipped => e.got = {e.held} \ {<<>>}
  /\ ~slipped => e.got = {} /\ Reads(reader, p, r)

\* Of the frame that arrives r is yet to come, and its end.
Rest(r) == Head(line) = r \o <<FEND>>

\* The frame that arrives has its end and no other delimiter yet to come.
Arriving ==
  Begun => \E r \in Seq(Inner) :
             /\ Rest(r)
             /\ log[Current].whole => ReadSoFar(log[Current], taken[Current], r)

\* As long as nothing is damaged everything is in phase, and what was read is what
\* was taken, in order.
Undamaged ==
  faults = 0 =>
    /\ ~slipped
    /\ \A n \in 1 .. Len(log) : log[n].whole /\ ~log[n].slipped
    /\ Len(delivered) + Len(tun_fifo) = Current - 1
    /\ \A i \in 1 .. Len(delivered) : delivered[i] = taken[i]
    /\ \A i \in 1 .. Len(tun_fifo) : tun_fifo[i] = taken[Len(delivered) + i]

TunnelInv ==
  TunnelTypes /\ Waiting /\ Logs /\ Phase /\ Arriving /\ FrameByFrame /\ Undamaged

\* What the invariant is about.
seen == <<taken, tcv_fifo, line, reader, tun_fifo, delivered, faults, slipped, log>>

\* The invariant holds at the start.
LEMMA TunnelInit == Init => TunnelInv
<1> SUFFICES ASSUME Init PROVE TunnelInv
  OBVIOUS
<1>1. /\ taken = <<>> /\ tcv_fifo = <<>> /\ line = <<>> /\ reader = Hunting /\ tun_fifo = <<>>
      /\ delivered = <<>> /\ faults = 0 /\ slipped = FALSE /\ log = <<>>
  BY DEF Init
<1>2. Len(<<>>) = 0
  OBVIOUS
<1>3. Current = 1 /\ ~Begun /\ Sent = 0
  BY <1>1, <1>2 DEF Current, Begun, Sent
<1>4. TunnelTypes
  BY <1>1, HuntingOK, EmptySeq DEF TunnelTypes
<1>5. Waiting
  BY <1>1, <1>2, <1>3 DEF Waiting
<1>6. Logs
  BY <1>1, <1>2, <1>3 DEF Logs
<1>7. Phase
  BY <1>1, <1>3, HuntingOK DEF Phase
<1>8. Arriving
  BY <1>3 DEF Arriving
<1>9. FrameByFrame
  BY <1>3 DEF FrameByFrame
<1>10. Undamaged
  BY <1>1, <1>2, <1>3 DEF Undamaged
<1>. QED
  BY <1>4, <1>5, <1>6, <1>7, <1>8, <1>9, <1>10 DEF TunnelInv

\* Waits, wakes and the death of a program leave alone what the invariant is about.
LEMMA TunnelSame == ASSUME TunnelInv, UNCHANGED seen PROVE TunnelInv'
  BY DEF seen, TunnelInv, TunnelTypes, Waiting, Logs, Phase, Arriving, Rest, ReadSoFar, FrameByFrame,
         Undamaged, Sent, Begun, Current

\* The lengths of the queues are numbers, and Current is where they say.
LEMMA Lengths ==
  ASSUME TunnelInv
  PROVE  /\ Len(taken) \in Nat /\ Len(tcv_fifo) \in Nat /\ Len(line) \in Nat /\ Len(log) \in Nat
         /\ Len(tun_fifo) \in Nat /\ Len(delivered) \in Nat
         /\ Sent \in Nat /\ Sent = Len(taken) - Len(tcv_fifo) /\ Sent <= Len(taken)
         /\ Current = Sent - Len(line) + 1 /\ Current \in Nat /\ Current >= 1
         /\ Len(log) = Current - 1 \/ Len(log) = Current
<1>1. /\ Len(taken) \in Nat /\ Len(tcv_fifo) \in Nat /\ Len(line) \in Nat /\ Len(log) \in Nat
      /\ Len(tun_fifo) \in Nat /\ Len(delivered) \in Nat
  BY LenProperties DEF TunnelInv, TunnelTypes
<1>2. Len(tcv_fifo) <= Len(taken) /\ Len(line) <= Sent
  BY DEF TunnelInv, Waiting
<1>3. Len(log) \in {Current - 1, Current}
  BY DEF TunnelInv, Logs
<1>. QED
  BY <1>1, <1>2, <1>3 DEF Sent, Current

\* A packet is taken.
LEMMA TakeStep == ASSUME TunnelInv, NEW p \in Packets, Take(p) PROVE TunnelInv'
<1>0. /\ taken' = Append(taken, p) /\ tcv_fifo' = Append(tcv_fifo, p)
      /\ UNCHANGED <<line, reader, tun_fifo, delivered, faults, slipped, log>>
  BY DEF Take
<1>1. taken \in Seq(Packets) /\ tcv_fifo \in Seq(Packets)
  BY DEF TunnelInv, TunnelTypes
<1>2. /\ Len(taken) \in Nat /\ Len(tcv_fifo) \in Nat /\ Len(line) \in Nat /\ Len(log) \in Nat
      /\ Len(delivered) \in Nat /\ Len(tun_fifo) \in Nat
      /\ Sent \in Nat /\ Sent = Len(taken) - Len(tcv_fifo) /\ Sent <= Len(taken)
      /\ Current = Sent - Len(line) + 1 /\ Current \in Nat /\ Current >= 1
  BY Lengths
<1>3. /\ taken' \in Seq(Packets) /\ Len(taken') = Len(taken) + 1
      /\ \A i \in 1 .. Len(taken) : taken'[i] = taken[i]
      /\ taken'[Len(taken) + 1] = p
  BY <1>0, <1>1, AppendProperties
<1>4. /\ tcv_fifo' \in Seq(Packets) /\ Len(tcv_fifo') = Len(tcv_fifo) + 1
      /\ \A i \in 1 .. Len(tcv_fifo) : tcv_fifo'[i] = tcv_fifo[i]
      /\ tcv_fifo'[Len(tcv_fifo) + 1] = p
  BY <1>0, <1>1, AppendProperties
<1>5. Sent' = Sent /\ Current' = Current /\ Begun' = Begun
  BY <1>0, <1>2, <1>3, <1>4 DEF Sent, Current, Begun
<1>6. TunnelTypes'
  BY <1>0, <1>3, <1>4 DEF TunnelInv, TunnelTypes
<1>7. Waiting'
  <2>1. ASSUME NEW i \in 1 .. Len(tcv_fifo') PROVE tcv_fifo'[i] = taken'[Sent' + i]
    <3>1. CASE i \in 1 .. Len(tcv_fifo)
      <4>1. tcv_fifo[i] = taken[Sent + i]
        BY <3>1 DEF TunnelInv, Waiting
      <4>2. Sent + i \in 1 .. Len(taken)
        BY <1>2, <3>1
      <4>. QED
        BY <1>3, <1>4, <1>5, <3>1, <4>1, <4>2
    <3>2. CASE i = Len(tcv_fifo) + 1
      <4>1. Sent + i = Len(taken) + 1
        BY <1>2, <3>2
      <4>. QED
        BY <1>3, <1>4, <1>5, <3>2, <4>1
    <3>. QED
      BY <1>2, <1>4, <3>1, <3>2
  <2>2. ASSUME NEW i \in 1 .. Len(line')
        PROVE  (i = 1 /\ Begun') \/ line'[i] = Frame(taken'[Sent' - Len(line') + i])
    <3>1. i \in 1 .. Len(line) /\ ((i = 1 /\ Begun) \/ line[i] = Frame(taken[Sent - Len(line) + i]))
      BY <1>0 DEF TunnelInv, Waiting
    <3>2. Sent - Len(line) + i \in 1 .. Len(taken)
      BY <1>2, <3>1 DEF TunnelInv, Waiting
    <3>. QED
      BY <1>0, <1>3, <1>5, <3>1, <3>2
  <2>3. Len(tcv_fifo) <= Len(taken) /\ Len(line) <= Sent
    BY DEF TunnelInv, Waiting
  <2>4. Len(tcv_fifo') <= Len(taken') /\ Len(line') <= Sent'
    BY <1>0, <1>2, <1>3, <1>4, <1>5, <2>3
  <2>. QED
    BY <2>1, <2>2, <2>4 DEF Waiting
<1>8. Logs' /\ Phase'
  BY <1>0, <1>5 DEF TunnelInv, Logs, Phase
<1>9. Arriving'
  <2> SUFFICES ASSUME Begun' PROVE Arriving'
    BY DEF Arriving
  <2>1. Begun /\ line # <<>>
    BY <1>5 DEF TunnelInv, Logs
  <2>2. Current \in 1 .. Len(taken)
    BY <1>2, <2>1, EmptySeq DEF TunnelInv, TunnelTypes
  <2>3. taken'[Current'] = taken[Current]
    BY <1>3, <1>5, <2>2
  <2>. QED
    BY <1>0, <1>5, <2>1, <2>3 DEF TunnelInv, Arriving, Rest, ReadSoFar
<1>10. FrameByFrame'
  <2> SUFFICES ASSUME NEW n \in 1 .. Current' - 1, log'[n].whole
               PROVE  log'[n].got = IF log'[n].slipped THEN {log'[n].held} \ {<<>>} ELSE {taken'[n]}
    BY DEF FrameByFrame
  <2>1. n \in 1 .. Current - 1 /\ n \in 1 .. Len(taken) /\ log' = log
    BY <1>0, <1>2, <1>5
  <2>2. log[n].got = IF log[n].slipped THEN {log[n].held} \ {<<>>} ELSE {taken[n]}
    BY <2>1 DEF TunnelInv, FrameByFrame
  <2>. QED
    BY <1>3, <2>1, <2>2
<1>11. Undamaged'
  <2> SUFFICES ASSUME faults' = 0 PROVE Undamaged'
    BY DEF Undamaged
  <2>1. /\ ~slipped
        /\ \A n \in 1 .. Len(log) : log[n].whole /\ ~log[n].slipped
        /\ Len(delivered) + Len(tun_fifo) = Current - 1
        /\ \A i \in 1 .. Len(delivered) : delivered[i] = taken[i]
        /\ \A i \in 1 .. Len(tun_fifo) : tun_fifo[i] = taken[Len(delivered) + i]
    BY <1>0 DEF TunnelInv, Undamaged
  <2>2. ASSUME NEW i \in 1 .. Len(delivered) PROVE delivered[i] = taken'[i]
    <3>1. i \in 1 .. Len(taken)
      BY <1>2, <2>1
    <3>. QED
      BY <1>3, <2>1, <3>1
  <2>3. ASSUME NEW i \in 1 .. Len(tun_fifo) PROVE tun_fifo[i] = taken'[Len(delivered) + i]
    <3>1. Len(delivered) + i \in 1 .. Len(taken)
      BY <1>2, <2>1
    <3>. QED
      BY <1>3, <2>1, <3>1
  <2>. QED
    BY <1>0, <1>5, <2>1, <2>2, <2>3 DEF Undamaged
<1>. QED
  BY <1>6, <1>7, <1>8, <1>9, <1>10, <1>11 DEF TunnelInv

\* A packet is written.
LEMMA SendStep == ASSUME TunnelInv, Send PROVE TunnelInv'
<1>0. /\ tcv_fifo # <<>> /\ tcv_fifo' = Tail(tcv_fifo) /\ line' = Append(line, Frame(Head(tcv_fifo)))
      /\ UNCHANGED <<taken, reader, tun_fifo, delivered, faults, slipped, log>>
  BY DEF Send
<1>1. /\ taken \in Seq(Packets) /\ tcv_fifo \in Seq(Packets)
      /\ line \in Seq(Seq(Octets) \ {<<>>})
  BY DEF TunnelInv, TunnelTypes
<1>2. /\ Len(taken) \in Nat /\ Len(tcv_fifo) \in Nat /\ Len(line) \in Nat /\ Len(log) \in Nat
      /\ Sent \in Nat /\ Sent = Len(taken) - Len(tcv_fifo) /\ Sent <= Len(taken)
      /\ Current = Sent - Len(line) + 1 /\ Current \in Nat /\ Current >= 1
  BY Lengths
<1>3. /\ tcv_fifo' \in Seq(Packets) /\ Len(tcv_fifo') = Len(tcv_fifo) - 1 /\ Len(tcv_fifo) >= 1
      /\ \A i \in 1 .. Len(tcv_fifo) - 1 : tcv_fifo'[i] = tcv_fifo[i + 1]
      /\ Head(tcv_fifo) \in Packets /\ Head(tcv_fifo) = tcv_fifo[1]
  BY <1>0, <1>1, <1>2, HeadTailProperties, EmptySeq
<1> DEFINE f == Frame(Head(tcv_fifo))
<1>4. f \in Seq(Octets) \ {<<>>}
  BY <1>3, FrameFacts
<1>5. /\ line' \in Seq(Seq(Octets) \ {<<>>}) /\ Len(line') = Len(line) + 1 /\ line' # <<>>
      /\ \A i \in 1 .. Len(line) : line'[i] = line[i]
      /\ line'[Len(line) + 1] = f
  <2>. HIDE DEF f
  <2>1. line' = Append(line, f)
    BY <1>0 DEF f
  <2>. QED
    BY <1>1, <1>4, <2>1, AppendProperties
<1>6. Sent' = Sent + 1 /\ Current' = Current /\ Begun' = Begun
  <2>1. Len(taken') = Len(taken) /\ Len(log') = Len(log)
    BY <1>0
  <2>2. Current = Len(taken) - Len(tcv_fifo) - Len(line) + 1
    BY DEF Current
  <2>3. Sent' = Sent + 1
    BY <1>2, <1>3, <2>1 DEF Sent
  <2>4. Current' = Current
    <3>1. Current' = Len(taken') - Len(tcv_fifo') - Len(line') + 1
      BY DEF Current
    <3>. QED
      BY <1>2, <1>3, <1>5, <2>1, <2>2, <3>1
  <2>. QED
    BY <2>1, <2>3, <2>4 DEF Begun
<1>7. TunnelTypes'
  BY <1>0, <1>3, <1>5 DEF TunnelInv, TunnelTypes
<1>8. Waiting'
  <2>1. ASSUME NEW i \in 1 .. Len(tcv_fifo') PROVE tcv_fifo'[i] = taken'[Sent' + i]
    <3>1. i \in 1 .. Len(tcv_fifo) - 1 /\ i + 1 \in 1 .. Len(tcv_fifo) /\ (Sent + 1) + i = Sent + (i + 1)
      BY <1>2, <1>3
    <3>2. tcv_fifo[i + 1] = taken[Sent + (i + 1)]
      BY <3>1 DEF TunnelInv, Waiting
    <3>. QED
      BY <1>0, <1>3, <1>6, <3>1, <3>2
  <2>2. ASSUME NEW i \in 1 .. Len(line')
        PROVE  (i = 1 /\ Begun') \/ line'[i] = Frame(taken'[Sent' - Len(line') + i])
    <3>1. Sent' - Len(line') + i = Sent - Len(line) + i
      BY <1>2, <1>5, <1>6
    <3>2. CASE i \in 1 .. Len(line)
      <4>1. (i = 1 /\ Begun) \/ line[i] = Frame(taken[Sent - Len(line) + i])
        BY <3>2 DEF TunnelInv, Waiting
      <4>. QED
        BY <1>0, <1>5, <1>6, <3>1, <3>2, <4>1
    <3>3. CASE i = Len(line) + 1
      <4>1. Sent - Len(line) + i = Sent + 1 /\ 1 \in 1 .. Len(tcv_fifo)
        BY <1>2, <1>3, <3>3
      <4>2. tcv_fifo[1] = taken[Sent + 1]
        BY <4>1 DEF TunnelInv, Waiting
      <4>. QED
        BY <1>0, <1>3, <1>5, <3>1, <3>3, <4>1, <4>2
    <3>. QED
      BY <1>2, <1>5, <3>2, <3>3
  <2>3. Len(tcv_fifo) <= Len(taken) /\ Len(line) <= Sent
    BY DEF TunnelInv, Waiting
  <2>4. Len(tcv_fifo') <= Len(taken') /\ Len(line') <= Sent'
    BY <1>0, <1>2, <1>3, <1>5, <1>6, <2>3
  <2>. QED
    BY <2>1, <2>2, <2>4 DEF Waiting
<1>9. Logs' /\ Phase'
  BY <1>0, <1>5, <1>6 DEF TunnelInv, Logs, Phase
<1>10. Arriving'
  <2> SUFFICES ASSUME Begun' PROVE Arriving'
    BY DEF Arriving
  <2>1. Begun /\ line # <<>>
    BY <1>6 DEF TunnelInv, Logs
  <2>2. 1 \in 1 .. Len(line)
    BY <1>1, <1>2, <2>1, EmptySeq
  <2>3. Head(line') = Head(line)
    BY <1>1, <1>5, <2>1, <2>2
  <2>. QED
    BY <1>0, <1>6, <2>1, <2>3 DEF TunnelInv, Arriving, Rest, ReadSoFar
<1>11. FrameByFrame' /\ Undamaged'
  BY <1>0, <1>6 DEF TunnelInv, FrameByFrame, Undamaged
<1>. QED
  BY <1>7, <1>8, <1>9, <1>10, <1>11 DEF TunnelInv

\* The device takes a packet.
LEMMA DeliverStep == ASSUME TunnelInv, Deliver PROVE TunnelInv'
<1>0. /\ tun_fifo # <<>> /\ tun_fifo' = Tail(tun_fifo) /\ delivered' = Append(delivered, Head(tun_fifo))
      /\ UNCHANGED <<taken, tcv_fifo, line, reader, faults, slipped, log>>
  BY DEF Deliver, Goes
<1>1. tun_fifo \in Seq(Seq(Bytes)) /\ delivered \in Seq(Seq(Bytes))
  BY DEF TunnelInv, TunnelTypes
<1>2. Len(tun_fifo) \in Nat /\ Len(delivered) \in Nat
  BY <1>1, LenProperties
<1>3. /\ tun_fifo' \in Seq(Seq(Bytes)) /\ Len(tun_fifo') = Len(tun_fifo) - 1 /\ Len(tun_fifo) >= 1
      /\ \A i \in 1 .. Len(tun_fifo) - 1 : tun_fifo'[i] = tun_fifo[i + 1]
      /\ Head(tun_fifo) \in Seq(Bytes) /\ Head(tun_fifo) = tun_fifo[1]
  BY <1>0, <1>1, <1>2, HeadTailProperties, EmptySeq
<1>4. /\ delivered' \in Seq(Seq(Bytes)) /\ Len(delivered') = Len(delivered) + 1
      /\ \A i \in 1 .. Len(delivered) : delivered'[i] = delivered[i]
      /\ delivered'[Len(delivered) + 1] = tun_fifo[1]
  BY <1>0, <1>1, <1>3, AppendProperties
<1>5. Sent' = Sent /\ Current' = Current /\ Begun' = Begun
  BY <1>0 DEF Sent, Current, Begun
<1>6. TunnelTypes' /\ Waiting' /\ Logs' /\ Phase' /\ Arriving' /\ FrameByFrame'
  BY <1>0, <1>3, <1>4, <1>5
     DEF TunnelInv, TunnelTypes, Waiting, Logs, Phase, Arriving, Rest, ReadSoFar, FrameByFrame
<1>7. Undamaged'
  <2> SUFFICES ASSUME faults' = 0 PROVE Undamaged'
    BY DEF Undamaged
  <2>1. /\ ~slipped
        /\ \A n \in 1 .. Len(log) : log[n].whole /\ ~log[n].slipped
        /\ Len(delivered) + Len(tun_fifo) = Current - 1
        /\ \A i \in 1 .. Len(delivered) : delivered[i] = taken[i]
        /\ \A i \in 1 .. Len(tun_fifo) : tun_fifo[i] = taken[Len(delivered) + i]
    BY <1>0 DEF TunnelInv, Undamaged
  <2>2. ASSUME NEW i \in 1 .. Len(delivered') PROVE delivered'[i] = taken'[i]
    <3>1. CASE i \in 1 .. Len(delivered)
      BY <1>0, <1>4, <2>1, <3>1
    <3>2. CASE i = Len(delivered) + 1
      <4>1. 1 \in 1 .. Len(tun_fifo)
        BY <1>2, <1>3
      <4>. QED
        BY <1>0, <1>4, <2>1, <3>2, <4>1
    <3>. QED
      BY <1>2, <1>4, <3>1, <3>2
  <2>3. ASSUME NEW i \in 1 .. Len(tun_fifo') PROVE tun_fifo'[i] = taken'[Len(delivered') + i]
    <3>1. /\ i \in 1 .. Len(tun_fifo) - 1 /\ i + 1 \in 1 .. Len(tun_fifo)
          /\ Len(delivered') + i = Len(delivered) + (i + 1)
      BY <1>2, <1>3, <1>4
    <3>. QED
      BY <1>0, <1>3, <2>1, <3>1
  <2>4. Len(delivered') + Len(tun_fifo') = Current' - 1
    BY <1>2, <1>3, <1>4, <1>5, <2>1
  <2>. QED
    BY <1>0, <2>1, <2>2, <2>3, <2>4 DEF Undamaged
<1>. QED
  BY <1>6, <1>7 DEF TunnelInv

-----------------------------------------------------------------------------
(* An octet arrives. *)

\* The packet whose frame arrives, and what of the frame is yet to come.
LEMMA ArrivingFrame ==
  ASSUME TunnelInv, line # <<>>
  PROVE  /\ Current \in 1 .. Len(taken) /\ taken[Current] \in Packets
         /\ Head(line) \in Seq(Octets) /\ Head(line) # <<>> /\ Len(Head(line)) \in Nat
         /\ NextOctet \in Octets
         /\ ~Begun => Head(line) = Frame(taken[Current])
<1>1. line \in Seq(Seq(Octets) \ {<<>>}) /\ taken \in Seq(Packets)
  BY DEF TunnelInv, TunnelTypes
<1>2. /\ Len(taken) \in Nat /\ Len(line) \in Nat /\ Sent \in Nat /\ Sent <= Len(taken)
      /\ Current = Sent - Len(line) + 1 /\ Current \in Nat /\ Current >= 1
  BY Lengths
<1>3. Len(line) >= 1 /\ Head(line) = line[1] /\ Head(line) \in Seq(Octets) \ {<<>>}
  BY <1>1, <1>2, HeadTailProperties, EmptySeq
<1>4. Current \in 1 .. Len(taken)
  BY <1>2, <1>3
<1>5. taken[Current] \in Packets
  BY <1>1, <1>4, ElementOfSeq
<1>6. NextOctet \in Octets /\ Len(Head(line)) \in Nat
  <2>1. \A z \in Seq(Octets) : z # <<>> => Head(z) \in Octets /\ Len(z) \in Nat
    BY HeadTailProperties, LenProperties
  <2>. QED
    BY <1>3, <2>1 DEF NextOctet
<1>7. ASSUME ~Begun PROVE Head(line) = Frame(taken[Current])
  <2>1. 1 \in 1 .. Len(line) /\ Sent - Len(line) + 1 = Current
    BY <1>2, <1>3
  <2>2. line[1] = Frame(taken[Sent - Len(line) + 1])
    BY <1>7, <2>1 DEF TunnelInv, Waiting
  <2>. QED
    BY <1>3, <2>1, <2>2
<1>. QED
  BY <1>3, <1>4, <1>5, <1>6, <1>7

\* What is left on the line.
LEMMA ArrivedLine ==
  ASSUME TunnelInv, line # <<>>, line' = Remaining, UNCHANGED <<taken, tcv_fifo>>
  PROVE  /\ line' \in Seq(Seq(Octets) \ {<<>>}) /\ Sent' = Sent
         /\ Len(Head(line)) = 1 =>
              /\ Len(line') = Len(line) - 1 /\ Current' = Current + 1
              /\ \A i \in 1 .. Len(line) - 1 : line'[i] = line[i + 1]
         /\ Len(Head(line)) # 1 =>
              /\ Len(line') = Len(line) /\ Current' = Current /\ line' # <<>>
              /\ Head(line') = Tail(Head(line))
              /\ \A i \in 2 .. Len(line) : line'[i] = line[i]
<1>1. line \in Seq(Seq(Octets) \ {<<>>})
  BY DEF TunnelInv, TunnelTypes
<1>2. Head(line) \in Seq(Octets) /\ Head(line) # <<>> /\ Len(Head(line)) \in Nat
  BY ArrivingFrame
<1>3. Len(line) \in Nat /\ Len(line) >= 1
  BY <1>1, LenProperties, EmptySeq
<1> DEFINE L == Seq(Octets) \ {<<>>}
<1>4. /\ Tail(line) \in Seq(L) /\ Len(Tail(line)) = Len(line) - 1
      /\ \A i \in 1 .. Len(line) - 1 : Tail(line)[i] = line[i + 1]
  <2>. HIDE DEF L
  <2>1. line \in Seq(L)
    BY <1>1 DEF L
  <2>. QED
    BY <2>1, HeadTailProperties
<1>5. Sent' = Sent /\ Sent \in Nat /\ Current = Sent - Len(line) + 1
  BY Lengths DEF Sent
<1>6. Current' = Sent' - Len(line') + 1
  BY DEF Current, Sent
<1>7. CASE Len(Head(line)) = 1
  <2>1. line' = Tail(line)
    BY <1>7 DEF Remaining
  <2>2. Current' = Current + 1
    BY <1>3, <1>4, <1>5, <1>6, <2>1
  <2>. QED
    BY <1>4, <1>5, <1>7, <2>1, <2>2
<1>8. CASE Len(Head(line)) # 1
  <2> DEFINE h == Tail(Head(line))
  <2>1. h \in L
    <3>1. \A z \in Seq(Octets) : z # <<>> /\ Len(z) # 1 => Tail(z) \in Seq(Octets) /\ Tail(z) # <<>>
      <4> SUFFICES ASSUME NEW z \in Seq(Octets), z # <<>>, Len(z) # 1
                   PROVE  Tail(z) \in Seq(Octets) /\ Tail(z) # <<>>
        OBVIOUS
      <4>1. Tail(z) \in Seq(Octets) /\ Len(Tail(z)) = Len(z) - 1 /\ Len(z) \in Nat \ {0}
        BY HeadTailProperties, EmptySeq
      <4>2. Len(Tail(z)) # 0
        BY <4>1
      <4>. QED
        BY <4>1, <4>2, EmptySeq
    <3>. QED
      BY <1>2, <1>8, <3>1
  <2>2. line' = <<h>> \o Tail(line)
    BY <1>8 DEF Remaining
  <2>. HIDE DEF h, L
  <2>3. <<h>> \in Seq(L) /\ Len(<<h>>) = 1 /\ <<h>>[1] = h
    BY <2>1
  <2>4. /\ line' \in Seq(L) /\ Len(line') = 1 + (Len(line) - 1)
        /\ \A i \in 1 .. 1 + (Len(line) - 1) :
             line'[i] = IF i <= 1 THEN <<h>>[i] ELSE Tail(line)[i - 1]
    BY <1>4, <2>2, <2>3, ConcatProperties
  <2>5. Len(line') = Len(line)
    BY <1>3, <2>4
  <2>6. line' # <<>> /\ line'[1] = h
    BY <1>3, <2>3, <2>4, <2>5, EmptySeq
  <2>7. ASSUME NEW i \in 2 .. Len(line) PROVE line'[i] = line[i]
    <3>1. i \in 1 .. 1 + (Len(line) - 1) /\ ~(i <= 1) /\ i - 1 \in 1 .. Len(line) - 1 /\ (i - 1) + 1 = i
      BY <1>3
    <3>. QED
      BY <1>4, <2>4, <3>1
  <2>8. Current' = Current
    BY <1>5, <1>6, <2>5
  <2>9. Head(line') = h
    BY <2>4, <2>6
  <2>. QED
    BY <1>5, <1>8, <2>4, <2>5, <2>6, <2>7, <2>8, <2>9 DEF h, L
<1>. QED
  BY <1>7, <1>8

\* What the reader returns with an arrival.
Gets(arrival) ==
  IF arrival # <<>> /\ Ends(reader, arrival[1]) THEN {Result(reader)} \ {<<>>} ELSE {}

\* The reader after an arrival: only a delimiter begins or ends the hunt.
LEMMA ArrivedReader ==
  ASSUME TunnelInv, NEW arrival \in Brought, Arrive(arrival)
  PROVE  /\ ReaderOK(reader')
         /\ (reader'.at = "hunt" <=> (reader.at = "hunt" <=> arrival # <<FEND>>))
         /\ arrival # <<>> /\ ~Ends(reader, arrival[1]) => reader' = Step(reader, arrival[1])
         /\ Gets(arrival) \subseteq Seq(Bytes)
         /\ Gets(arrival) = {} => tun_fifo' = tun_fifo
         /\ Gets(arrival) # {} => tun_fifo' = Append(tun_fifo, Result(reader))
<1>1. ReaderOK(reader) /\ Result(reader) \in Seq(Bytes)
  BY ResultType DEF TunnelInv, TunnelTypes
<1>2. arrival = <<>> \/ \E o \in Octets : arrival = <<o>>
  BY DEF Brought
<1>3. CASE arrival = <<>>
  <2>1. reader' = reader /\ tun_fifo' = tun_fifo
    BY <1>3 DEF Arrive
  <2>2. arrival # <<FEND>> /\ Gets(arrival) = {}
    BY <1>3 DEF Gets
  <2>. QED
    BY <1>1, <1>3, <2>1, <2>2
<1>4. ASSUME NEW o \in Octets, arrival = <<o>>
      PROVE  /\ ReaderOK(reader')
             /\ (reader'.at = "hunt" <=> (reader.at = "hunt" <=> arrival # <<FEND>>))
             /\ arrival # <<>> /\ ~Ends(reader, arrival[1]) => reader' = Step(reader, arrival[1])
             /\ Gets(arrival) \subseteq Seq(Bytes)
             /\ Gets(arrival) = {} => tun_fifo' = tun_fifo
             /\ Gets(arrival) # {} => tun_fifo' = Append(tun_fifo, Result(reader))
  <2>1. arrival # <<>> /\ arrival[1] = o /\ (arrival = <<FEND>> <=> o = FEND)
    BY <1>4
  <2>2. CASE Ends(reader, o)
    <3>1. o = FEND /\ reader.at # "hunt"
      BY <2>2 DEF Ends
    <3>2. Gets(arrival) = {Result(reader)} \ {<<>>}
      BY <2>1, <2>2 DEF Gets
    <3>3. { r \in {Result(reader)} : r # <<>> } = Gets(arrival)
      BY <3>2
    <3>4. /\ reader' = Hunting
          /\ tun_fifo' = IF Gets(arrival) = {} THEN tun_fifo ELSE Append(tun_fifo, Result(reader))
      BY <2>1, <2>2, <3>3 DEF Arrive
    <3>. QED
      BY <1>1, <2>1, <2>2, <3>1, <3>2, <3>4, HuntingOK
  <2>3. CASE ~Ends(reader, o)
    <3>1. reader' = Step(reader, o) /\ tun_fifo' = tun_fifo
      BY <2>1, <2>3 DEF Arrive
    <3>2. Gets(arrival) = {}
      BY <2>1, <2>3 DEF Gets
    <3>3. ReaderOK(reader') /\ (reader'.at = "hunt" <=> reader.at = "hunt" /\ o # FEND)
      BY <1>1, <2>3, <3>1, StepType
    <3>4. o = FEND => reader.at = "hunt"
      BY <2>3 DEF Ends
    <3>. QED
      BY <2>1, <3>1, <3>2, <3>3, <3>4
  <2>. QED
    BY <2>2, <2>3
<1>. QED
  BY <1>2, <1>3, <1>4

\* The entry of the frame that arrives, before the arrival.
Entry == IF Begun THEN log[Current]
         ELSE [slipped |-> slipped, whole |-> TRUE, held |-> Result(reader), got |-> {}]

\* The log after an arrival: the entry is made or changed, and no other.
LEMMA ArrivedLog ==
  ASSUME TunnelInv, NEW arrival \in Brought, Arrive(arrival)
  PROVE  /\ log' \in Seq(Record) /\ Len(log') = Current /\ Entry \in Record
         /\ \A n \in 1 .. Current - 1 : log'[n] = log[n]
         /\ log'[Current].slipped = Entry.slipped /\ log'[Current].held = Entry.held
         /\ log'[Current].whole <=> Entry.whole /\ arrival = <<NextOctet>>
         /\ log'[Current].got = Entry.got \cup Gets(arrival)
<1>1. log \in Seq(Record) /\ slipped \in BOOLEAN /\ ReaderOK(reader)
  BY DEF TunnelInv, TunnelTypes
<1>2. Len(log) \in Nat /\ Current \in Nat /\ Current >= 1 /\ (Len(log) = Current - 1 \/ Len(log) = Current)
  BY Lengths
<1>3. Entry \in Record
  <2>1. CASE Begun
    <3>1. Current \in 1 .. Len(log)
      BY <1>2, <2>1 DEF Begun
    <3>. QED
      BY <1>1, <2>1, <3>1, ElementOfSeq DEF Entry
  <2>2. CASE ~Begun
    BY <1>1, <2>2, ResultType DEF Entry, Record
  <2>. QED
    BY <2>1, <2>2
<1> DEFINE begun == IF Len(log) < Current
                      THEN Append(log, [slipped |-> slipped, whole |-> TRUE, held |-> Result(reader), got |-> {}])
                      ELSE log
<1>4. /\ begun \in Seq(Record) /\ Len(begun) = Current /\ begun[Current] = Entry
      /\ \A n \in 1 .. Current - 1 : begun[n] = log[n]
  <2>1. CASE Len(log) = Current
    BY <1>1, <1>2, <2>1 DEF Entry, Begun
  <2>2. CASE Len(log) = Current - 1
    <3>1. ~Begun /\ Len(log) < Current /\ Len(log) + 1 = Current
      BY <1>2, <2>2 DEF Begun
    <3>2. begun = Append(log, Entry)
      BY <3>1 DEF Entry
    <3>. HIDE DEF begun
    <3>. QED
      BY <1>1, <1>3, <2>2, <3>1, <3>2, AppendProperties
  <2>. QED
    BY <1>2, <2>1, <2>2
<1>5. log' = Logged(arrival, Gets(arrival))
  <2>1. CASE arrival # <<>> /\ Ends(reader, arrival[1])
    <3>1. { r \in {Result(reader)} : r # <<>> } = Gets(arrival)
      BY <2>1 DEF Gets
    <3>. QED
      BY <2>1, <3>1 DEF Arrive
  <2>2. CASE ~(arrival # <<>> /\ Ends(reader, arrival[1]))
    BY <2>2 DEF Arrive, Gets
  <2>. QED
    BY <2>1, <2>2
<1> DEFINE e == [Entry EXCEPT !.whole = @ /\ arrival = <<NextOctet>>, !.got = @ \cup Gets(arrival)]
<1>6. /\ e \in Record /\ e.slipped = Entry.slipped /\ e.held = Entry.held
      /\ e.whole <=> Entry.whole /\ arrival = <<NextOctet>>
      /\ e.got = Entry.got \cup Gets(arrival)
  <2>1. Gets(arrival) \subseteq Seq(Bytes)
    BY ArrivedReader
  <2>2. PICK b \in BOOLEAN : b <=> arrival = <<NextOctet>>
    OBVIOUS
  <2> DEFINE x == Entry
             g == Gets(arrival)
             y == [x EXCEPT !.whole = @ /\ b, !.got = @ \cup g]
  <2>3. y = e
    BY <2>2
  <2>. HIDE DEF x, g, e
  <2>4. x \in Record /\ g \subseteq Seq(Bytes)
    BY <1>3, <2>1 DEF x, g
  <2>5. /\ y \in Record /\ y.slipped = x.slipped /\ y.held = x.held
        /\ (y.whole <=> x.whole /\ b) /\ y.got = x.got \cup g
    BY <2>4 DEF Record
  <2>. HIDE DEF y
  <2>. QED
    BY <2>2, <2>3, <2>5, Zenon DEF x, g
<1>7. log' = [begun EXCEPT ![Current] = e]
  <2>1. log' = [begun EXCEPT ![Current].whole = (@ /\ arrival = <<NextOctet>>),
                             ![Current].got = @ \cup Gets(arrival)]
    BY <1>5, Zenon DEF Logged
  <2>. HIDE DEF begun
  <2>2. Current \in DOMAIN begun
    BY <1>2, <1>4, LenProperties
  <2>3. begun = [i \in DOMAIN begun |-> begun[i]]
    BY <1>4, LenProperties
  <2>. QED
    BY <1>4, <2>1, <2>2, <2>3
<1>8. /\ log' \in Seq(Record) /\ Len(log') = Current /\ log'[Current] = e
      /\ \A n \in 1 .. Current - 1 : log'[n] = begun[n]
  <2>. HIDE DEF begun, e
  <2>1. Current \in 1 .. Len(begun)
    BY <1>2, <1>4
  <2>. QED
    BY <1>2, <1>4, <1>6, <1>7, <2>1, ExceptSeq
<1>. HIDE DEF begun, e
<1>. QED
  BY <1>3, <1>4, <1>6, <1>8

\* An arrival that is the octet the line was to bring.
LEMMA Undisturbed ==
  ASSUME TunnelInv, NEW arrival \in Brought, arrival = <<NextOctet>>, line # <<>>
  PROVE  /\ arrival # <<>> /\ arrival[1] = NextOctet /\ NextOctet \in Octets
         /\ (arrival = <<FEND>> <=> NextOctet = FEND)
         /\ (slipped # Slips(arrival)) = slipped
<1>1. slipped \in BOOLEAN
  BY DEF TunnelInv, TunnelTypes
<1>2. NextOctet \in Octets
  BY ArrivingFrame
<1>3. arrival # <<>> /\ arrival[1] = NextOctet /\ (arrival = <<FEND>> <=> NextOctet = FEND)
  OBVIOUS
<1>4. Slips(arrival) = FALSE
  BY <1>3 DEF Slips
<1>. QED
  BY <1>1, <1>2, <1>3, <1>4

\* The first octet of a frame: out of phase the reader returns what it held.
LEMMA ArrivedFirst ==
  ASSUME TunnelInv, NEW arrival \in Brought, Arrive(arrival), ~Begun
  PROVE  /\ NextOctet = FEND /\ Len(Head(line)) # 1
         /\ Body(taken[Current]) \in Seq(Inner)
         /\ Tail(Head(line)) = Body(taken[Current]) \o <<FEND>>
         /\ arrival = <<NextOctet>> =>
              IF slipped THEN Gets(arrival) = {Result(reader)} \ {<<>>}
              ELSE Gets(arrival) = {} /\ Reads(reader', taken[Current], Body(taken[Current]))
<1>1. line # <<>>
  BY DEF Arrive
<1>2. taken[Current] \in Packets /\ Head(line) = Frame(taken[Current])
  BY <1>1, ArrivingFrame
<1>3. /\ NextOctet = FEND /\ Len(Head(line)) # 1 /\ Body(taken[Current]) \in Seq(Inner)
      /\ Tail(Head(line)) = Body(taken[Current]) \o <<FEND>>
  BY <1>2, FrameFacts DEF NextOctet
<1>4. ReaderOK(reader) /\ slipped \in BOOLEAN /\ (reader.at = "hunt" <=> ~slipped)
  BY DEF TunnelInv, TunnelTypes, Phase
<1>5. ASSUME arrival = <<NextOctet>>
      PROVE  IF slipped THEN Gets(arrival) = {Result(reader)} \ {<<>>}
             ELSE Gets(arrival) = {} /\ Reads(reader', taken[Current], Body(taken[Current]))
  <2>1. arrival # <<>> /\ arrival[1] = FEND
    BY <1>1, <1>3, <1>5, Undisturbed
  <2>2. CASE slipped
    <3>1. Ends(reader, arrival[1])
      BY <1>4, <2>1, <2>2 DEF Ends
    <3>. QED
      BY <2>1, <2>2, <3>1 DEF Gets
  <2>3. CASE ~slipped
    <3>1. ~Ends(reader, arrival[1])
      BY <1>4, <2>1, <2>3 DEF Ends
    <3>2. reader' = Step(reader, FEND)
      BY <2>1, <3>1, ArrivedReader
    <3>3. Gets(arrival) = {}
      BY <3>1 DEF Gets
    <3>4. Reads(Step(reader, FEND), taken[Current], Body(taken[Current]))
      BY <1>2, <1>4, <2>3, ReadsStart
    <3>. QED
      BY <2>3, <3>2, <3>3, <3>4
  <2>. QED
    BY <2>2, <2>3
<1>. QED
  BY <1>3, <1>5

\* One between its delimiters: the reader reads on.
LEMMA ArrivedInside ==
  ASSUME TunnelInv, NEW arrival \in Brought, Arrive(arrival), Begun,
         NEW r \in Seq(Inner), r # <<>>, Rest(r)
  PROVE  /\ NextOctet # FEND /\ Len(Head(line)) # 1
         /\ Tail(r) \in Seq(Inner) /\ Tail(Head(line)) = Tail(r) \o <<FEND>>
         /\ arrival = <<NextOctet>> =>
              /\ Gets(arrival) = {}
              /\ Reads(reader, taken[Current], r) => Reads(reader', taken[Current], Tail(r))
<1>1. line # <<>>
  BY DEF Arrive
<1>2. taken[Current] \in Packets
  BY <1>1, ArrivingFrame
<1>3. /\ NextOctet = Head(r) /\ NextOctet # FEND /\ Len(Head(line)) # 1
      /\ Tail(r) \in Seq(Inner) /\ Tail(Head(line)) = Tail(r) \o <<FEND>>
  BY RestFacts DEF NextOctet, Rest, Inner
<1>4. ReaderOK(reader)
  BY DEF TunnelInv, TunnelTypes
<1>5. ASSUME arrival = <<NextOctet>>
      PROVE  /\ Gets(arrival) = {}
             /\ Reads(reader, taken[Current], r) => Reads(reader', taken[Current], Tail(r))
  <2>1. arrival # <<>> /\ arrival[1] = NextOctet
    BY <1>1, <1>5, Undisturbed
  <2>2. ~Ends(reader, arrival[1])
    BY <1>3, <2>1 DEF Ends
  <2>3. Gets(arrival) = {}
    BY <2>2 DEF Gets
  <2>4. reader' = Step(reader, Head(r))
    BY <1>3, <2>1, <2>2, ArrivedReader
  <2>5. Reads(reader, taken[Current], r) => Reads(Step(reader, Head(r)), taken[Current], Tail(r))
    BY <1>2, <1>4, ReadsOn
  <2>. QED
    BY <2>3, <2>4, <2>5
<1>. QED
  BY <1>3, <1>5

\* The last: in phase the reader returns the packet.
LEMMA ArrivedLast ==
  ASSUME TunnelInv, NEW arrival \in Brought, Arrive(arrival), Begun,
         NEW r \in Seq(Inner), r = <<>>, Rest(r)
  PROVE  /\ NextOctet = FEND /\ Len(Head(line)) = 1
         /\ arrival = <<NextOctet>> =>
              /\ slipped => Gets(arrival) = {}
              /\ Reads(reader, taken[Current], r) =>
                   Gets(arrival) = {taken[Current]} /\ Result(reader) = taken[Current]
<1>1. line # <<>>
  BY DEF Arrive
<1>2. taken[Current] \in Packets
  BY <1>1, ArrivingFrame
<1>3. NextOctet = FEND /\ Len(Head(line)) = 1
  BY RestFacts DEF NextOctet, Rest
<1>4. slipped => reader.at = "hunt"
  BY DEF TunnelInv, Phase
<1>5. ASSUME arrival = <<NextOctet>>
      PROVE  /\ slipped => Gets(arrival) = {}
             /\ Reads(reader, taken[Current], r) =>
                  Gets(arrival) = {taken[Current]} /\ Result(reader) = taken[Current]
  <2>1. arrival # <<>> /\ arrival[1] = FEND
    BY <1>1, <1>3, <1>5, Undisturbed
  <2>2. slipped => Gets(arrival) = {}
    BY <1>4 DEF Gets, Ends
  <2>3. ASSUME Reads(reader, taken[Current], r)
        PROVE  Gets(arrival) = {taken[Current]} /\ Result(reader) = taken[Current]
    <3>1. Ends(reader, FEND) /\ Result(reader) = taken[Current]
      BY <1>2, <2>3, ReadsEnd
    <3>2. taken[Current] # <<>>
      <4>1. \A q \in Packets : q # <<>>
        BY FrameFacts, EmptySeq
      <4>. QED
        BY <1>2, <4>1
    <3>. QED
      BY <2>1, <3>1, <3>2 DEF Gets
  <2>. QED
    BY <2>2, <2>3
<1>. QED
  BY <1>3, <1>5

\* A frame has begun to arrive, or goes on, unless this is its last octet, and the
\* delimiters are its first octet and its last.
LEMMA ArrivedBegun ==
  ASSUME TunnelInv, NEW arrival \in Brought, Arrive(arrival)
  PROVE  /\ Begun' <=> Len(Head(line)) # 1
         /\ NextOctet = FEND <=> (Begun <=> Len(Head(line)) = 1)
<1>1. line # <<>> /\ line' = Remaining /\ UNCHANGED <<taken, tcv_fifo>>
  BY DEF Arrive
<1>2. /\ Len(Head(line)) = 1 => Current' = Current + 1
      /\ Len(Head(line)) # 1 => Current' = Current
      /\ Current \in Nat /\ Len(log') = Current
  BY <1>1, ArrivedLine, ArrivedLog, Lengths
<1>3. Begun' <=> Len(Head(line)) # 1
  BY <1>2 DEF Begun
<1>4. NextOctet = FEND <=> (Begun <=> Len(Head(line)) = 1)
  <2>1. CASE ~Begun
    BY <2>1, ArrivedFirst
  <2>2. CASE Begun
    <3>1. PICK r \in Seq(Inner) : Rest(r)
      BY <2>2 DEF TunnelInv, Arriving
    <3>2. CASE r = <<>>
      BY <2>2, <3>1, <3>2, ArrivedLast
    <3>3. CASE r # <<>>
      BY <2>2, <3>1, <3>3, ArrivedInside
    <3>. QED
      BY <3>2, <3>3
  <2>. QED
    BY <2>1, <2>2
<1>. QED
  BY <1>3, <1>4

\* An arrival keeps the types, the order on the line and the phase.
LEMMA ArriveTypes ==
  ASSUME TunnelInv, NEW arrival \in Brought, Arrive(arrival)
  PROVE  TunnelTypes' /\ Waiting' /\ Logs' /\ Phase'
<1>0. /\ line # <<>> /\ line' = Remaining /\ UNCHANGED <<taken, tcv_fifo, delivered>>
      /\ (faults' = faults \/ faults' = faults + 1) /\ slipped' = (slipped # Slips(arrival))
  BY DEF Arrive
<1>1. /\ taken \in Seq(Packets) /\ tcv_fifo \in Seq(Packets) /\ line \in Seq(Seq(Octets) \ {<<>>})
      /\ ReaderOK(reader) /\ tun_fifo \in Seq(Seq(Bytes)) /\ delivered \in Seq(Seq(Bytes))
      /\ faults \in Nat /\ slipped \in BOOLEAN
  BY DEF TunnelInv, TunnelTypes
<1>2. /\ Len(taken) \in Nat /\ Len(line) \in Nat /\ Sent \in Nat
      /\ Current = Sent - Len(line) + 1 /\ Current \in Nat /\ Current >= 1
  BY Lengths
<1>3. /\ line' \in Seq(Seq(Octets) \ {<<>>}) /\ Sent' = Sent
      /\ Len(Head(line)) = 1 =>
           /\ Len(line') = Len(line) - 1 /\ Current' = Current + 1
           /\ \A i \in 1 .. Len(line) - 1 : line'[i] = line[i + 1]
      /\ Len(Head(line)) # 1 =>
           /\ Len(line') = Len(line) /\ Current' = Current /\ line' # <<>>
           /\ \A i \in 2 .. Len(line) : line'[i] = line[i]
  BY <1>0, ArrivedLine
<1>4. Begun' <=> Len(Head(line)) # 1
  BY ArrivedBegun
<1>5. TunnelTypes'
  <2>1. ReaderOK(reader') /\ log' \in Seq(Record)
    BY ArrivedReader, ArrivedLog
  <2>2. tun_fifo' \in Seq(Seq(Bytes))
    <3>1. Result(reader) \in Seq(Bytes)
      BY <1>1, ResultType
    <3>2. Append(tun_fifo, Result(reader)) \in Seq(Seq(Bytes))
      BY <1>1, <3>1, AppendProperties
    <3>. QED
      BY <1>1, <3>2, ArrivedReader
  <2>3. slipped' \in BOOLEAN /\ faults' \in Nat
    BY <1>0, <1>1
  <2>. QED
    BY <1>0, <1>1, <1>3, <2>1, <2>2, <2>3 DEF TunnelTypes
<1>6. Waiting'
  <2>1. Len(tcv_fifo) <= Len(taken) /\ Len(line) <= Sent
    BY DEF TunnelInv, Waiting
  <2>2. \A i \in 1 .. Len(tcv_fifo) : tcv_fifo[i] = taken[Sent + i]
    BY DEF TunnelInv, Waiting
  <2>3. Len(line') <= Sent'
    BY <1>2, <1>3, <2>1
  <2>4. ASSUME NEW i \in 1 .. Len(line')
        PROVE  (i = 1 /\ Begun') \/ line'[i] = Frame(taken'[Sent' - Len(line') + i])
    <3>1. CASE Len(Head(line)) = 1
      <4>1. /\ i \in 1 .. Len(line) - 1 /\ i + 1 \in 1 .. Len(line) /\ i + 1 # 1
            /\ Sent - Len(line) + (i + 1) = Sent' - Len(line') + i
        <5>1. Len(line') = Len(line) - 1 /\ Sent' = Sent
          BY <1>3, <3>1
        <5>. QED
          BY <1>2, <5>1
      <4>2. line[i + 1] = Frame(taken[Sent - Len(line) + (i + 1)])
        BY <4>1 DEF TunnelInv, Waiting
      <4>. QED
        BY <1>0, <1>3, <3>1, <4>1, <4>2
    <3>2. CASE Len(Head(line)) # 1 /\ i # 1
      <4>1. i \in 2 .. Len(line) /\ i \in 1 .. Len(line)
        BY <1>2, <1>3, <3>2
      <4>2. line[i] = Frame(taken[Sent - Len(line) + i])
        BY <3>2, <4>1 DEF TunnelInv, Waiting
      <4>. QED
        BY <1>0, <1>3, <3>2, <4>1, <4>2
    <3>. QED
      BY <1>4, <3>1, <3>2
  <2>. QED
    BY <1>0, <1>3, <2>1, <2>2, <2>3, <2>4 DEF Waiting
<1>7. Logs'
  BY <1>2, <1>3, <1>4, ArrivedLog DEF Logs
<1>8. Phase'
  <2>1. reader.at = "hunt" <=> (slipped <=> Begun)
    BY DEF TunnelInv, Phase
  <2>2. reader'.at = "hunt" <=> (reader.at = "hunt" <=> arrival # <<FEND>>)
    BY ArrivedReader
  <2>3. slipped' <=> (slipped <=> (arrival = <<FEND>> <=> NextOctet = FEND))
    <3>1. slipped' = (slipped # ((arrival = <<FEND>>) # (NextOctet = FEND)))
      BY <1>0 DEF Slips
    <3>. QED
      BY <1>1, <3>1
  <2>4. NextOctet = FEND <=> (Begun <=> ~Begun')
    BY <1>4, ArrivedBegun
  <2>5. reader'.at = "hunt" <=> (slipped' <=> Begun')
    <3> DEFINE h == reader.at = "hunt"
               i == reader'.at = "hunt"
               a == arrival = <<FEND>>
               f == NextOctet = FEND
    <3>1. h <=> (slipped <=> Begun)
      BY <2>1
    <3>2. i <=> (h <=> ~a)
      BY <2>2
    <3>3. slipped' <=> (slipped <=> (a <=> f))
      BY <2>3
    <3>4. f <=> (Begun <=> ~Begun')
      BY <2>4
    <3>. HIDE DEF h, i, a, f
    <3>5. i <=> (slipped' <=> Begun')
      BY <3>1, <3>2, <3>3, <3>4, Zenon
    <3>. QED
      BY <3>5 DEF i
  <2>. QED
    BY <2>5 DEF Phase
<1>. QED
  BY <1>5, <1>6, <1>7, <1>8

\* An undamaged frame goes on to be read, and with its end it has brought its packet.
LEMMA ArriveReads ==
  ASSUME TunnelInv, NEW arrival \in Brought, Arrive(arrival)
  PROVE  Arriving' /\ FrameByFrame'
<1>0. line # <<>> /\ line' = Remaining /\ UNCHANGED <<taken, tcv_fifo>>
      /\ slipped' = (slipped # Slips(arrival))
  BY DEF Arrive
<1>1. /\ Len(Head(line)) = 1 => Current' = Current + 1
      /\ Len(Head(line)) # 1 => Current' = Current /\ Head(line') = Tail(Head(line))
  BY <1>0, ArrivedLine
<1>2. /\ log'[Current].slipped = Entry.slipped /\ log'[Current].held = Entry.held
      /\ log'[Current].whole <=> Entry.whole /\ arrival = <<NextOctet>>
      /\ log'[Current].got = Entry.got \cup Gets(arrival)
      /\ \A n \in 1 .. Current - 1 : log'[n] = log[n]
  BY ArrivedLog
<1>3. Current \in Nat /\ Current >= 1
  BY Lengths
<1>4. ASSUME log'[Current].whole
      PROVE  /\ Entry.whole /\ arrival = <<NextOctet>> /\ slipped' = slipped /\ slipped \in BOOLEAN
  <2>1. Entry.whole /\ arrival = <<NextOctet>>
    BY <1>2, <1>4
  <2>. QED
    BY <1>0, <2>1, Undisturbed DEF TunnelInv, TunnelTypes
<1> DEFINE p == taken[Current]
<1>5. ASSUME NEW r \in Seq(Inner), Len(Head(line)) # 1, Tail(Head(line)) = r \o <<FEND>>,
             log'[Current].whole =>
               /\ Entry.slipped = slipped
               /\ slipped => Entry.got \cup Gets(arrival) = {Entry.held} \ {<<>>}
               /\ ~slipped => Entry.got \cup Gets(arrival) = {} /\ Reads(reader', p, r)
      PROVE  Arriving'
  <2>1. Current' = Current /\ Rest(r)'
    BY <1>1, <1>5 DEF Rest
  <2>2. log'[Current].whole => ReadSoFar(log[Current], p, r)'
    <3> SUFFICES ASSUME log'[Current].whole PROVE ReadSoFar(log[Current], p, r)'
      OBVIOUS
    <3>1. slipped' = slipped /\ p' = p
      BY <1>0, <1>4, <2>1
    <3>2. /\ Entry.slipped = slipped
          /\ slipped => Entry.got \cup Gets(arrival) = {Entry.held} \ {<<>>}
          /\ ~slipped => Entry.got \cup Gets(arrival) = {} /\ Reads(reader', p, r)
      BY <1>5
    <3>. HIDE DEF p
    <3>. QED
      BY <1>2, <2>1, <3>1, <3>2 DEF ReadSoFar
  <2>. QED
    BY <2>1, <2>2 DEF Arriving
<1>6. ASSUME NEW n \in 1 .. Current - 1, log'[n].whole
      PROVE  log'[n].got = IF log'[n].slipped THEN {log'[n].held} \ {<<>>} ELSE {taken'[n]}
  <2>1. log[n].got = IF log[n].slipped THEN {log[n].held} \ {<<>>} ELSE {taken[n]}
    BY <1>2, <1>6 DEF TunnelInv, FrameByFrame
  <2>. QED
    BY <1>0, <1>2, <2>1
<1>7. CASE ~Begun
  <2>1. /\ Len(Head(line)) # 1 /\ Body(p) \in Seq(Inner) /\ Tail(Head(line)) = Body(p) \o <<FEND>>
        /\ arrival = <<NextOctet>> =>
             IF slipped THEN Gets(arrival) = {Result(reader)} \ {<<>>}
             ELSE Gets(arrival) = {} /\ Reads(reader', p, Body(p))
    BY <1>7, ArrivedFirst
  <2>2. Entry = [slipped |-> slipped, whole |-> TRUE, held |-> Result(reader), got |-> {}]
    BY <1>7 DEF Entry
  <2>3. Entry.slipped = slipped /\ Entry.held = Result(reader) /\ Entry.got = {}
    BY <2>2
  <2>. HIDE DEF p
  <2>4. log'[Current].whole =>
          /\ Entry.slipped = slipped
          /\ slipped => Entry.got \cup Gets(arrival) = {Entry.held} \ {<<>>}
          /\ ~slipped => Entry.got \cup Gets(arrival) = {} /\ Reads(reader', p, Body(p))
    <3> SUFFICES ASSUME log'[Current].whole
                 PROVE  /\ Entry.slipped = slipped
                        /\ slipped => Entry.got \cup Gets(arrival) = {Entry.held} \ {<<>>}
                        /\ ~slipped => Entry.got \cup Gets(arrival) = {} /\ Reads(reader', p, Body(p))
      OBVIOUS
    <3>1. IF slipped THEN Gets(arrival) = {Result(reader)} \ {<<>>}
          ELSE Gets(arrival) = {} /\ Reads(reader', p, Body(p))
      BY <1>4, <2>1
    <3>. QED
      BY <2>3, <3>1
  <2>5. Arriving'
    BY <1>5, <2>1, <2>4 DEF p
  <2>6. FrameByFrame'
    BY <1>1, <1>6, <2>1 DEF FrameByFrame
  <2>. QED
    BY <2>5, <2>6
<1>8. CASE Begun
  <2>1. Entry = log[Current]
    BY <1>8 DEF Entry
  <2>2. PICK r \in Seq(Inner) : Rest(r) /\ (Entry.whole => ReadSoFar(Entry, p, r))
    BY <1>8, <2>1 DEF TunnelInv, Arriving
  <2>3. CASE r # <<>>
    <3>1. /\ Len(Head(line)) # 1 /\ Tail(r) \in Seq(Inner) /\ Tail(Head(line)) = Tail(r) \o <<FEND>>
          /\ arrival = <<NextOctet>> =>
               /\ Gets(arrival) = {}
               /\ Reads(reader, p, r) => Reads(reader', p, Tail(r))
      BY <1>8, <2>2, <2>3, ArrivedInside
    <3>. HIDE DEF p
    <3>2. log'[Current].whole =>
            /\ Entry.slipped = slipped
            /\ slipped => Entry.got \cup Gets(arrival) = {Entry.held} \ {<<>>}
            /\ ~slipped => Entry.got \cup Gets(arrival) = {} /\ Reads(reader', p, Tail(r))
      BY <1>4, <2>2, <3>1 DEF ReadSoFar
    <3>3. Arriving'
      BY <1>5, <3>1, <3>2 DEF p
    <3>4. FrameByFrame'
      BY <1>1, <1>6, <3>1 DEF FrameByFrame
    <3>. QED
      BY <3>3, <3>4
  <2>4. CASE r = <<>>
    <3>1. /\ Len(Head(line)) = 1
          /\ arrival = <<NextOctet>> =>
               /\ slipped => Gets(arrival) = {}
               /\ Reads(reader, p, r) => Gets(arrival) = {p} /\ Result(reader) = p
      BY <1>8, <2>2, <2>4, ArrivedLast
    <3>2. Arriving'
      BY <3>1, ArrivedBegun DEF Arriving
    <3>3. ASSUME NEW n \in 1 .. Current, log'[n].whole
          PROVE  log'[n].got = IF log'[n].slipped THEN {log'[n].held} \ {<<>>} ELSE {taken'[n]}
      <4>1. CASE n \in 1 .. Current - 1
        BY <1>6, <3>3, <4>1
      <4>2. CASE n = Current
        <5>1. Entry.whole /\ arrival = <<NextOctet>> /\ slipped \in BOOLEAN
          BY <1>4, <3>3, <4>2
        <5>2. /\ Entry.slipped = slipped
              /\ slipped => Entry.got = {Entry.held} \ {<<>>}
              /\ ~slipped => Entry.got = {} /\ Reads(reader, p, r)
          BY <2>2, <5>1 DEF ReadSoFar
        <5>3. /\ slipped => Gets(arrival) = {}
              /\ ~slipped => Gets(arrival) = {p}
          BY <3>1, <5>1, <5>2
        <5>4. p = taken'[n]
          BY <1>0, <4>2
        <5>. HIDE DEF p
        <5>. QED
          BY <1>2, <4>2, <5>2, <5>3, <5>4
      <4>. QED
        BY <1>3, <4>1, <4>2
    <3>4. FrameByFrame'
      <4>1. Current' - 1 = Current
        BY <1>1, <1>3, <3>1
      <4>. QED
        BY <3>3, <4>1 DEF FrameByFrame
    <3>. QED
      BY <3>2, <3>4
  <2>. QED
    BY <2>3, <2>4
<1>. QED
  BY <1>7, <1>8

\* Without damage every packet that arrives follows the one before it in tun_fifo.
LEMMA ArriveUndamaged ==
  ASSUME TunnelInv, NEW arrival \in Brought, Arrive(arrival)
  PROVE  Undamaged'
<1> SUFFICES ASSUME faults' = 0 PROVE Undamaged'
  BY DEF Undamaged
<1>0. /\ line # <<>> /\ line' = Remaining /\ UNCHANGED <<taken, tcv_fifo, delivered>>
      /\ slipped' = (slipped # Slips(arrival))
  BY DEF Arrive
<1>1. faults = 0 /\ arrival = <<NextOctet>>
  <2>1. (arrival = <<NextOctet>> /\ faults' = faults) \/ faults' = faults + 1
    BY DEF Arrive
  <2>2. faults \in Nat
    BY DEF TunnelInv, TunnelTypes
  <2>. QED
    BY <2>1, <2>2
<1>2. /\ ~slipped
      /\ \A n \in 1 .. Len(log) : log[n].whole /\ ~log[n].slipped
      /\ Len(delivered) + Len(tun_fifo) = Current - 1
      /\ \A i \in 1 .. Len(delivered) : delivered[i] = taken[i]
      /\ \A i \in 1 .. Len(tun_fifo) : tun_fifo[i] = taken[Len(delivered) + i]
  BY <1>1 DEF TunnelInv, Undamaged
<1>3. ~slipped'
  BY <1>0, <1>1, <1>2, Undisturbed
<1>4. /\ Len(log) \in Nat /\ Len(tun_fifo) \in Nat /\ Len(delivered) \in Nat
      /\ Current \in Nat /\ Current >= 1 /\ (Len(log) = Current - 1 \/ Len(log) = Current)
  BY Lengths
<1>5. ASSUME NEW n \in 1 .. Len(log') PROVE log'[n].whole /\ ~log'[n].slipped
  <2>1. /\ Len(log') = Current /\ log'[Current].slipped = Entry.slipped
        /\ log'[Current].whole <=> Entry.whole /\ arrival = <<NextOctet>>
        /\ \A k \in 1 .. Current - 1 : log'[k] = log[k]
    BY ArrivedLog
  <2>2. Entry.whole /\ ~Entry.slipped
    <3>1. CASE Begun
      <4>1. Entry = log[Current] /\ Current \in 1 .. Len(log)
        BY <1>4, <3>1 DEF Entry, Begun
      <4>. QED
        BY <1>2, <4>1
    <3>2. CASE ~Begun
      BY <1>2, <3>2 DEF Entry
    <3>. QED
      BY <3>1, <3>2
  <2>3. CASE n = Current
    BY <1>1, <2>1, <2>2, <2>3
  <2>4. CASE n # Current
    <3>1. n \in 1 .. Current - 1 /\ n \in 1 .. Len(log)
      BY <1>4, <2>1, <2>4
    <3>. QED
      BY <1>2, <2>1, <3>1
  <2>. QED
    BY <2>3, <2>4
<1>6. /\ Len(Head(line)) = 1 => Current' = Current + 1
      /\ Len(Head(line)) # 1 => Current' = Current
  BY <1>0, ArrivedLine
\* The last octet of a frame brings its packet, and no other octet brings anything.
<1>7. /\ Len(Head(line)) # 1 => Gets(arrival) = {}
      /\ Len(Head(line)) = 1 => Gets(arrival) # {} /\ Result(reader) = taken[Current]
  <2>1. CASE ~Begun
    BY <1>1, <1>2, <2>1, ArrivedFirst
  <2>2. CASE Begun
    <3>1. Current \in 1 .. Len(log)
      BY <1>4, <2>2 DEF Begun
    <3>2. PICK r \in Seq(Inner) : Rest(r) /\ (log[Current].whole => ReadSoFar(log[Current], taken[Current], r))
      BY <2>2 DEF TunnelInv, Arriving
    <3>3. Reads(reader, taken[Current], r)
      BY <1>2, <3>1, <3>2 DEF ReadSoFar
    <3>4. CASE r # <<>>
      BY <1>1, <2>2, <3>2, <3>4, ArrivedInside
    <3>5. CASE r = <<>>
      BY <1>1, <2>2, <3>2, <3>3, <3>5, ArrivedLast
    <3>. QED
      BY <3>4, <3>5
  <2>. QED
    BY <2>1, <2>2
<1>8. CASE Len(Head(line)) # 1
  <2>1. tun_fifo' = tun_fifo /\ Current' = Current
    BY <1>6, <1>7, <1>8, ArrivedReader
  <2>. QED
    BY <1>0, <1>2, <1>3, <1>5, <2>1 DEF Undamaged
<1>9. CASE Len(Head(line)) = 1
  <2>1. tun_fifo \in Seq(Seq(Bytes)) /\ Result(reader) \in Seq(Bytes)
    BY ResultType DEF TunnelInv, TunnelTypes
  <2>2. tun_fifo' = Append(tun_fifo, Result(reader)) /\ Current' = Current + 1
    BY <1>6, <1>7, <1>9, ArrivedReader
  <2>3. /\ Len(tun_fifo') = Len(tun_fifo) + 1
        /\ \A i \in 1 .. Len(tun_fifo) : tun_fifo'[i] = tun_fifo[i]
        /\ tun_fifo'[Len(tun_fifo) + 1] = taken[Current]
    BY <1>7, <1>9, <2>1, <2>2, AppendProperties
  <2>4. ASSUME NEW i \in 1 .. Len(tun_fifo') PROVE tun_fifo'[i] = taken[Len(delivered) + i]
    <3>1. CASE i \in 1 .. Len(tun_fifo)
      BY <1>2, <2>3, <3>1
    <3>2. CASE i = Len(tun_fifo) + 1
      <4>1. Len(delivered) + i = Current
        BY <1>2, <1>4, <3>2
      <4>. QED
        BY <2>3, <3>2, <4>1
    <3>. QED
      BY <1>4, <2>3, <3>1, <3>2
  <2>5. Len(delivered) + Len(tun_fifo') = Current' - 1
    BY <1>2, <1>4, <2>2, <2>3
  <2>. QED
    BY <1>0, <1>2, <1>3, <1>5, <2>4, <2>5 DEF Undamaged
<1>. QED
  BY <1>8, <1>9

\* So an octet that arrives, is lost or is changed keeps the invariant.
LEMMA ArriveStep == ASSUME TunnelInv, NEW arrival \in Brought, Arrive(arrival) PROVE TunnelInv'
  BY ArriveTypes, ArriveReads, ArriveUndamaged DEF TunnelInv

-----------------------------------------------------------------------------
(* The theorems. *)

\* Every step of the tunnel keeps the invariant.
LEMMA TunnelNext == TunnelInv /\ [Next]_tunnelVars => TunnelInv'
<1> SUFFICES ASSUME TunnelInv, [Next]_tunnelVars PROVE TunnelInv'
  OBVIOUS
<1>1. ASSUME NEW p \in Packets, Take(p) PROVE TunnelInv'
  BY <1>1, TakeStep
<1>2. CASE SenderWaits
  BY <1>2, TunnelSame DEF SenderWaits, seen
<1>3. CASE Send
  BY <1>3, SendStep
<1>4. ASSUME NEW arrival \in Brought, Arrive(arrival) PROVE TunnelInv'
  BY <1>4, ArriveStep
<1>5. CASE DelivererWaits
  BY <1>5, TunnelSame DEF DelivererWaits, seen
<1>6. CASE Deliver
  BY <1>6, DeliverStep
<1>7. CASE SpuriousWake
  BY <1>7, TunnelSame DEF SpuriousWake, seen
<1>8. CASE Dies
  BY <1>8, TunnelSame DEF Dies, seen
<1>9. CASE UNCHANGED tunnelVars
  BY <1>9, TunnelSame DEF tunnelVars, seen
<1>. QED
  BY <1>1, <1>2, <1>3, <1>4, <1>5, <1>6, <1>7, <1>8, <1>9 DEF Next

\* Whatever the line does to octets, the frame that arrives has only its end as a
\* delimiter yet to come, an undamaged one is read as far as it has arrived, and without
\* damage what came out is what went in.
THEOREM TunnelInvariant == Spec => []TunnelInv
  BY TunnelInit, TunnelNext, PTL DEF Spec

\* Between two frames cssl_getslip hunts for a delimiter exactly if the line has lost or
\* made an even number of them, however many packets and however many damaged octets.
THEOREM TunnelInPhase == Spec => []InPhase
<1>1. TunnelInv => InPhase
  BY Lengths DEF TunnelInv, Phase, Begun, InPhase
<1>. QED
  BY <1>1, TunnelInvariant, PTL

\* A frame that arrives undamaged gives its packet and nothing else if it begins in
\* phase: every octet that cssl_putslip escapes comes back as it was.  Out of phase the
\* packet is lost, and what the reader held comes out.
THEOREM TunnelFrameByFrame == Spec => []FrameByFrame
<1>1. TunnelInv => FrameByFrame
  BY DEF TunnelInv
<1>. QED
  BY <1>1, TunnelInvariant, PTL

\* A tunnel starts as a wire does.
LEMMA WireStart == Init => wire!WireInit
  BY DEF Init, wire!WireInit

\* A sequence that agrees with a longer one as far as it goes is a prefix of it.
LEMMA WirePrefix ==
  ASSUME NEW S, NEW T, NEW s \in Seq(S), NEW t \in Seq(T), Len(s) <= Len(t),
         \A i \in 1 .. Len(s) : s[i] = t[i]
  PROVE  wire!IsPrefix(s, t)
<1>1. Len(s) \in Nat /\ Len(t) \in Nat
  BY LenProperties
<1>2. \A i \in 1 .. Len(s) : s[i] \in S /\ t[i] \in S
  BY ElementOfSeq
<1>3. /\ SubSeq(s, 1, Len(s)) \in Seq(S) /\ Len(SubSeq(s, 1, Len(s))) = Len(s)
      /\ \A i \in 1 .. Len(s) : SubSeq(s, 1, Len(s))[i] = s[i]
  BY <1>1, <1>2, SubSeqFull
<1>4. /\ SubSeq(t, 1, Len(s)) \in Seq(S) /\ Len(SubSeq(t, 1, Len(s))) = Len(s)
      /\ \A i \in 1 .. Len(s) : SubSeq(t, 1, Len(s))[i] = t[i]
  BY <1>1, <1>2, SubSeqProperties
<1>5. SubSeq(s, 1, Len(s)) = SubSeq(t, 1, Len(s))
  BY <1>3, <1>4, SeqEqual
<1>. QED
  BY <1>5 DEF wire!IsPrefix

\* Every step of the tunnel is a step of the wire or none.
LEMMA WireStep ==
  TunnelInv /\ [Next]_tunnelVars => [wire!TakeIn \/ wire!BringOut \/ wire!Damage]_(wire!wireVars)
<1> DEFINE Goal == [wire!TakeIn \/ wire!BringOut \/ wire!Damage]_(wire!wireVars)
<1> SUFFICES ASSUME TunnelInv, [Next]_tunnelVars PROVE Goal
  OBVIOUS
<1>1. ASSUME NEW p \in Packets, Take(p) PROVE Goal
  BY <1>1 DEF Take, wire!TakeIn
<1>2. ASSUME UNCHANGED <<taken, delivered, faults>> PROVE Goal
  BY <1>2 DEF wire!wireVars
<1>3. ASSUME NEW arrival \in Brought, Arrive(arrival) PROVE Goal
  <2>1. faults \in Nat
    BY DEF TunnelInv, TunnelTypes
  <2>2. UNCHANGED <<taken, delivered>> /\ (faults' = faults \/ faults' = faults + 1)
    BY <1>3 DEF Arrive
  <2>3. CASE faults' = faults
    BY <1>2, <2>2, <2>3
  <2>4. CASE faults' = faults + 1
    <3>1. (faults' > 0) = TRUE
      BY <2>1, <2>4
    <3>. QED
      BY <2>2, <3>1 DEF wire!Damage
  <2>. QED
    BY <2>2, <2>3, <2>4
<1>4. CASE Deliver
  <2>1. UNCHANGED <<taken, faults>> /\ delivered' = Append(delivered, Head(tun_fifo)) /\ tun_fifo # <<>>
    BY <1>4 DEF Deliver, Goes
  <2>2. /\ tun_fifo \in Seq(Seq(Bytes)) /\ delivered \in Seq(Seq(Bytes)) /\ faults \in Nat
        /\ taken \in Seq(Packets)
    BY DEF TunnelInv, TunnelTypes
  <2>3. Head(tun_fifo) \in Seq(Bytes)
    BY <2>1, <2>2, HeadTailProperties
  <2>4. /\ Len(delivered') = Len(delivered) + 1 /\ Len(delivered) \in Nat
        /\ \A i \in 1 .. Len(delivered) : delivered'[i] = delivered[i]
        /\ delivered' \in Seq(Seq(Bytes))
    BY <2>1, <2>2, <2>3, AppendProperties, LenProperties
  <2>5. wire!IsPrefix(delivered, delivered')
    <3>1. Len(delivered) <= Len(delivered')
      BY <2>4
    <3>2. \A i \in 1 .. Len(delivered) : delivered[i] = delivered'[i]
      BY <2>4
    <3>. QED
      BY <2>2, <2>4, <3>1, <3>2, WirePrefix
  <2>6. ASSUME faults = 0 PROVE wire!IsPrefix(delivered', taken)
    <3>1. /\ Len(delivered) + Len(tun_fifo) = Current - 1
          /\ \A i \in 1 .. Len(delivered) : delivered[i] = taken[i]
          /\ \A i \in 1 .. Len(tun_fifo) : tun_fifo[i] = taken[Len(delivered) + i]
      BY <2>6 DEF TunnelInv, Undamaged
    <3>2. Len(tun_fifo) \in Nat /\ Len(tun_fifo) >= 1 /\ Head(tun_fifo) = tun_fifo[1]
      BY <2>1, <2>2, LenProperties, EmptySeq
    <3>3. 1 \in 1 .. Len(tun_fifo) /\ delivered'[Len(delivered) + 1] = Head(tun_fifo)
      BY <2>1, <2>2, <2>3, <3>2, AppendProperties
    <3>4. ASSUME NEW i \in 1 .. Len(delivered') PROVE delivered'[i] = taken[i]
      <4>1. CASE i \in 1 .. Len(delivered)
        BY <2>4, <3>1, <4>1
      <4>2. CASE i = Len(delivered) + 1
        BY <3>1, <3>2, <3>3, <4>2
      <4>. QED
        BY <2>4, <4>1, <4>2
    <3>5. Len(delivered') <= Len(taken)
      <4>1. /\ Len(taken) \in Nat /\ Len(line) \in Nat /\ Sent \in Nat /\ Sent <= Len(taken)
            /\ Current = Sent - Len(line) + 1
        BY Lengths
      <4>. QED
        BY <2>4, <3>1, <3>2, <4>1
    <3>. QED
      BY <2>2, <2>4, <3>4, <3>5, WirePrefix
  <2>7. faults > 0 \/ wire!IsPrefix(delivered', taken)
    BY <2>2, <2>6
  <2>8. (faults' > 0) = (faults > 0) /\ taken' = taken
    BY <2>1
  <2>. QED
    BY <2>4, <2>5, <2>7, <2>8 DEF wire!BringOut
<1>. QED
  BY <1>1, <1>2, <1>3, <1>4 DEF Next, SenderWaits, Send, DelivererWaits, SpuriousWake, Dies, tunnelVars

\* As long as the line damages nothing, the packets the device takes from tun_write_loop
\* are those tun_read_loop took, whole, in order and each once: the tunnel is a wire.
THEOREM TunnelIsWire == Spec => WireSpec
<1>1. Init => wire!WireInit
  BY WireStart
<1>2. TunnelInv /\ [Next]_tunnelVars => [wire!TakeIn \/ wire!BringOut \/ wire!Damage]_(wire!wireVars)
  BY WireStep
<1>. QED
  BY <1>1, <1>2, TunnelInvariant, PTL DEF Spec, WireSpec, wire!WireSpec
=============================================================================
