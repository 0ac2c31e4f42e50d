------------------------------ MODULE NodesProofs ------------------------------
(***************************************************************************)
(* Theorems about Nodes, for any nodes, any listings of them, and any      *)
(* number of restarts and of lost and duplicated packets, in any order.    *)
(***************************************************************************)
EXTENDS Nodes, TLAPS, SequenceTheorems

NodesTypes ==
  /\ table \in [Ends -> Seq(Names)]
  /\ number \in [Ends -> Seq(Nat)] /\ \A e \in Ends : DOMAIN number[e] = DOMAIN table[e]
  /\ active \in [Ends -> Nat] /\ \A e \in Ends : active[e] = 0 \/ active[e] \in DOMAIN table[e]
  /\ link \in [Ends -> SUBSET Packet]
  /\ moved \in [Ends -> BOOLEAN] /\ mistaken \in [Ends -> BOOLEAN]

\* The number k is that of the node n at the end e.
Right(e, k, n) == k \in DOMAIN table[e] /\ table[e][k] = n

\* The numbers of e that its peer remembers, that e tells, and that packets to e
\* bear are those of its table.
NumbersRight(e) ==
  /\ \A i \in DOMAIN table[Peer[e]] :
       number[Peer[e]][i] # 0 => Right(e, number[Peer[e]][i], table[Peer[e]][i])
  /\ \A m \in link[Peer[e]] : m.type # "numbered" => Right(e, m.node, m.name)
  /\ \A m \in link[e] : m.type = "numbered" => Right(e, m.node, m.name)
  /\ ~mistaken[e]

NodesInv == NodesTypes /\ \A e \in Ends : moved[e] \/ NumbersRight(e)

\* A packet that d's peer sends: one that tells of its own number of a node, or one
\* about a node with the number that it remembers for it.
Honest(d, m) ==
  \E i \in DOMAIN table[Peer[d]] :
    /\ m.name = table[Peer[d]][i]
    /\ IF m.type = "numbered" THEN m.node = number'[Peer[d]][i] /\ m.node # 0 ELSE m.node = i

\* What a step other than a restart may do.
Tells ==
  /\ UNCHANGED <<table, moved>>
  /\ \A d \in Ends : \A m \in link'[d] : m \in link[d] \/ Honest(d, m)
  /\ \A d \in Ends : \A i \in DOMAIN table[d] :
       \/ number'[d][i] = number[d][i]
       \/ \E m \in link[d] : m.type # "numbered" /\ m.name = table[d][i] /\ m.node = number'[d][i]
  /\ \A d \in Ends :
       mistaken'[d] => \/ mistaken[d]
                       \/ \E m \in link[d] : m.type = "numbered" /\ ~Right(d, m.node, m.name)

LEMMA PeerFacts ==
  ASSUME NEW e \in Ends PROVE Peer[e] \in Ends /\ Peer[e] # e /\ Peer[Peer[e]] = e
BY NodesAssumption

\* Such a step keeps the numbers right.
LEMMA TellsKeeps ==
  ASSUME NodesTypes, NEW e \in Ends, moved[e] \/ NumbersRight(e), Tells
  PROVE  moved'[e] \/ NumbersRight(e)'
<1> SUFFICES ASSUME NumbersRight(e) PROVE NumbersRight(e)'
  BY DEF Tells
<1> DEFINE o == Peer[e]
<1>1. o \in Ends /\ Peer[o] = e
  BY PeerFacts
<1>2. \A k, n : Right(e, k, n)' <=> Right(e, k, n)
  BY DEF Tells, Right
<1>3. ASSUME NEW i \in DOMAIN table[o], number'[o][i] # 0
      PROVE  Right(e, number'[o][i], table[o][i])
  <2>1. CASE number'[o][i] = number[o][i]
    BY <1>3, <2>1 DEF NumbersRight
  <2>2. CASE \E m \in link[o] : m.type # "numbered" /\ m.name = table[o][i] /\ m.node = number'[o][i]
    BY <2>2 DEF NumbersRight
  <2> QED BY <1>1, <2>1, <2>2 DEF Tells
<1>4. ASSUME NEW m \in link'[o], m.type # "numbered" PROVE Right(e, m.node, m.name)
  <2>1. CASE m \in link[o] BY <1>4, <2>1 DEF NumbersRight
  <2>2. CASE Honest(o, m) BY <1>1, <1>4, <2>2 DEF Honest, Right
  <2> QED BY <1>1, <2>1, <2>2 DEF Tells
<1>5. ASSUME NEW m \in link'[e], m.type = "numbered" PROVE Right(e, m.node, m.name)
  <2>1. CASE m \in link[e] BY <1>5, <2>1 DEF NumbersRight
  <2>2. CASE Honest(e, m) BY <1>3, <1>5, <2>2 DEF Honest
  <2> QED BY <2>1, <2>2 DEF Tells
<1>6. ~mistaken'[e]
  BY DEF Tells, NumbersRight
<1>7. table' = table
  BY DEF Tells
<1> QED BY <1>2, <1>3, <1>4, <1>5, <1>6, <1>7 DEF NumbersRight

LEMMA AnnounceIs ==
  ASSUME NodesTypes, NEW e \in Ends, NEW i \in DOMAIN table[e], NEW kind \in {"queue", "reqmeta"}
  PROVE  LET m == Announce(e, kind, i)
         IN  m \in Packet /\ m.type # "numbered" /\ m.node = i /\ m.name = table[e][i]
<1>1. table[e] \in Seq(Names)
  BY DEF NodesTypes
<1>2. i \in Nat \ {0} /\ table[e][i] \in Names
  BY <1>1, LenProperties, ElementOfSeq
<1> QED BY <1>2 DEF Announce, Packet

LEMMA NumberedIs ==
  ASSUME NodesTypes, NEW e \in Ends, NEW i \in DOMAIN table[e], NEW known, known[e][i] \in Nat,
         NEW m \in Numbered(known, e, i)
  PROVE  /\ m \in Packet /\ m.type = "numbered" /\ m.node = known[e][i] /\ m.node # 0
         /\ m.name = table[e][i]
<1>1. table[e] \in Seq(Names)
  BY DEF NodesTypes
<1>2. table[e][i] \in Names
  BY <1>1, LenProperties, ElementOfSeq
<1>3. m = [type |-> "numbered", node |-> known[e][i], name |-> table[e][i]] /\ known[e][i] # 0
  BY DEF Numbered
<1> QED BY <1>2, <1>3 DEF Packet

LEMMA RepliesIs ==
  ASSUME NodesTypes, NEW e \in Ends, NEW m, NEW replies \in SUBSET Packet, Replies(e, m, replies)
  PROVE  /\ link' \in [Ends -> SUBSET Packet]
         /\ \A d \in Ends : \A p \in link'[d] : p \in link[d] \/ (d = Peer[e] /\ p \in replies)
<1>1. PICK sent \in { {}, replies } :
        \/ link' = [link EXCEPT ![e] = @ \ {m}, ![Peer[e]] = @ \cup sent]
        \/ link' = [link EXCEPT ![Peer[e]] = @ \cup sent]
  BY DEF Replies
<1>2. Peer[e] \in Ends /\ Peer[e] # e /\ sent \subseteq replies /\ sent \subseteq Packet
  BY PeerFacts
<1>3. link \in [Ends -> SUBSET Packet]
  BY DEF NodesTypes
<1>4. CASE link' = [link EXCEPT ![e] = @ \ {m}, ![Peer[e]] = @ \cup sent]
  <2>1. \A d \in Ends : link'[d] = IF d = Peer[e] THEN link[d] \cup sent
                                   ELSE IF d = e THEN link[d] \ {m} ELSE link[d]
    BY <1>2, <1>3, <1>4
  <2>2. link' \in [Ends -> SUBSET Packet]
    BY <1>2, <1>3, <1>4
  <2> QED BY <1>2, <2>1, <2>2
<1>5. CASE link' = [link EXCEPT ![Peer[e]] = @ \cup sent]
  <2>1. \A d \in Ends : link'[d] = IF d = Peer[e] THEN link[d] \cup sent ELSE link[d]
    BY <1>2, <1>3, <1>5
  <2>2. link' \in [Ends -> SUBSET Packet]
    BY <1>2, <1>3, <1>5
  <2> QED BY <1>2, <2>1, <2>2
<1> QED BY <1>1, <1>4, <1>5

\* What learning a number does.
LEMMA LearnedIs ==
  ASSUME NodesTypes, NEW e \in Ends, NEW i \in DOMAIN table[e], NEW k \in Nat,
         number' = Learned(e, i, k), UNCHANGED table
  PROVE  /\ number' \in [Ends -> Seq(Nat)]
         /\ \A d \in Ends : DOMAIN number'[d] = DOMAIN table[d]
         /\ number'[e][i] = k
         /\ \A d \in Ends : \A j \in DOMAIN table[d] :
              number'[d][j] = number[d][j] \/ (d = e /\ j = i)
<1>1. /\ number \in [Ends -> Seq(Nat)] /\ number[e] \in Seq(Nat)
      /\ \A d \in Ends : DOMAIN number[d] = DOMAIN table[d]
      /\ DOMAIN number[e] = 1 .. Len(number[e]) /\ i \in 1 .. Len(number[e])
  BY LenProperties DEF NodesTypes
<1> DEFINE new == [number[e] EXCEPT ![i] = k]
<1>2. new \in Seq(Nat) /\ DOMAIN new = DOMAIN number[e]
  BY <1>1, ExceptSeq
<1>3. number' = [number EXCEPT ![e] = new]
  BY <1>1 DEF Learned
<1>4. new[i] = k /\ \A j \in DOMAIN number[e] : j # i => new[j] = number[e][j]
  BY <1>1
<1> HIDE DEF new
<1> QED BY <1>1, <1>2, <1>3, <1>4

-----------------------------------------------------------------------------
(* The steps. *)

LEMMA SendQueueTells ==
  ASSUME NodesTypes, NEW e \in Ends, SendQueue(e) PROVE NodesTypes' /\ Tells
<1> DEFINE sent == { Announce(e, "queue", i) : i \in DOMAIN table[e] }
<1>1. /\ link' = [link EXCEPT ![Peer[e]] = @ \cup sent]
      /\ UNCHANGED <<table, number, active, moved, mistaken, restarts, faults>>
  BY DEF SendQueue
<1>2. \A m \in sent : m \in Packet /\ m.type # "numbered"
                     /\ \E i \in DOMAIN table[e] : m.node = i /\ m.name = table[e][i]
  BY AnnounceIs
<1> HIDE DEF sent
<1>3. link \in [Ends -> SUBSET Packet] /\ Peer[e] \in Ends /\ Peer[Peer[e]] = e
  BY PeerFacts DEF NodesTypes
<1>4. /\ link' \in [Ends -> SUBSET Packet]
      /\ \A d \in Ends : \A m \in link'[d] : m \in link[d] \/ (d = Peer[e] /\ m \in sent)
  BY <1>1, <1>2, <1>3
<1>5. \A d \in Ends : \A m \in link'[d] : m \in link[d] \/ Honest(d, m)
  BY <1>2, <1>3, <1>4 DEF Honest
<1> QED BY <1>1, <1>4, <1>5 DEF NodesTypes, Tells

LEMMA SendDataTells ==
  ASSUME NodesTypes, NEW e \in Ends, SendData(e) PROVE NodesTypes' /\ Tells
<1> DEFINE i == active[e]
           sent == Numbered(number, e, i)
<1>1. /\ link' = [link EXCEPT ![Peer[e]] = @ \cup sent]
      /\ UNCHANGED <<table, number, active, moved, mistaken, restarts, faults>>
      /\ i \in DOMAIN table[e]
  BY DEF SendData, NodesTypes
<1>2. number[e][i] \in Nat
  BY <1>1, LenProperties, ElementOfSeq DEF NodesTypes
<1>3. \A m \in sent : /\ m \in Packet /\ m.type = "numbered" /\ m.node = number[e][i] /\ m.node # 0
                      /\ m.name = table[e][i]
  BY <1>1, <1>2, NumberedIs
<1> HIDE DEF sent, i
<1>4. link \in [Ends -> SUBSET Packet] /\ Peer[e] \in Ends /\ Peer[Peer[e]] = e
  BY PeerFacts DEF NodesTypes
<1>5. /\ link' \in [Ends -> SUBSET Packet]
      /\ \A d \in Ends : \A m \in link'[d] : m \in link[d] \/ (d = Peer[e] /\ m \in sent)
  BY <1>1, <1>3, <1>4
<1>6. \A d \in Ends : \A m \in link'[d] : m \in link[d] \/ Honest(d, m)
  BY <1>1, <1>3, <1>4, <1>5 DEF Honest
<1> QED BY <1>1, <1>5, <1>6 DEF NodesTypes, Tells

\* A packet that bears a name is used: the number is noted, and answers go out.
LEMMA LearningTells ==
  ASSUME NodesTypes, NEW e \in Ends, NEW m \in link[e], m.type # "numbered",
         NEW i \in DOMAIN table[e], table[e][i] = m.name, number' = Learned(e, i, m.node),
         NEW asked \in { {}, {Announce(e, "reqmeta", i)} },
         Replies(e, m, asked \cup Numbered(number', e, i)),
         UNCHANGED <<table, moved, mistaken>>,
         active' = active \/ active' = [active EXCEPT ![e] = i]
  PROVE  NodesTypes' /\ Tells
<1> DEFINE sent == asked \cup Numbered(number', e, i)
<1>1. m \in Packet /\ m.node \in Nat
  BY DEF NodesTypes, Packet
<1>2. /\ number' \in [Ends -> Seq(Nat)]
      /\ \A d \in Ends : DOMAIN number'[d] = DOMAIN table[d]
      /\ number'[e][i] = m.node
      /\ \A d \in Ends : \A j \in DOMAIN table[d] :
           number'[d][j] = number[d][j] \/ (d = e /\ j = i)
  BY <1>1, LearnedIs
<1>3. ASSUME NEW q \in sent
      PROVE  q \in Packet /\ q.name = table[e][i]
             /\ IF q.type = "numbered" THEN q.node = number'[e][i] /\ q.node # 0 ELSE q.node = i
  <2>1. CASE q \in asked
    <3>1. q = Announce(e, "reqmeta", i) BY <2>1
    <3> QED BY <3>1, AnnounceIs
  <2>2. CASE q \in Numbered(number', e, i) BY <1>1, <1>2, <2>2, NumberedIs
  <2> QED BY <2>1, <2>2
<1>4. sent \in SUBSET Packet
  BY <1>3
<1>5. /\ link' \in [Ends -> SUBSET Packet]
      /\ \A d \in Ends : \A q \in link'[d] : q \in link[d] \/ (d = Peer[e] /\ q \in sent)
  BY <1>4, RepliesIs
<1> HIDE DEF sent
<1>6. \A d \in Ends : \A q \in link'[d] : q \in link[d] \/ Honest(d, q)
  BY <1>3, <1>5, PeerFacts DEF Honest
<1>7. \A d \in Ends : \A j \in DOMAIN table[d] :
        \/ number'[d][j] = number[d][j]
        \/ \E q \in link[d] : q.type # "numbered" /\ q.name = table[d][j] /\ q.node = number'[d][j]
  BY <1>2
<1>8. active' \in [Ends -> Nat] /\ \A d \in Ends : active'[d] = 0 \/ active'[d] \in DOMAIN table[d]
  <2>1. i \in Nat BY LenProperties DEF NodesTypes
  <2> QED BY <2>1 DEF NodesTypes
<1> QED BY <1>2, <1>5, <1>6, <1>7, <1>8 DEF NodesTypes, Tells

\* A packet about no node of this end is dropped.
LEMMA DroppingTells ==
  ASSUME NodesTypes, NEW e \in Ends, NEW m \in link[e], Replies(e, m, {}),
         UNCHANGED <<table, number, active, moved, mistaken>>
  PROVE  NodesTypes' /\ Tells
<1>1. /\ link' \in [Ends -> SUBSET Packet]
      /\ \A d \in Ends : \A q \in link'[d] : q \in link[d]
  BY RepliesIs
<1> QED BY <1>1 DEF NodesTypes, Tells

LEMMA ReceiveTells ==
  ASSUME NodesTypes, NEW e \in Ends, NEW m \in link[e], Receive(e, m) PROVE NodesTypes' /\ Tells
<1>1. CASE ReceiveQueue(e, m)
  <2>1. m.type # "numbered" /\ UNCHANGED <<table, moved, mistaken>> BY <1>1 DEF ReceiveQueue
  <2>2. CASE Replies(e, m, {}) /\ UNCHANGED <<number, active>>
    BY <2>1, <2>2, DroppingTells
  <2>3. ASSUME NEW i \in DOMAIN table[e], table[e][i] = m.name, number' = Learned(e, i, m.node),
               active' = [active EXCEPT ![e] = i],
               NEW asked \in { {}, {Announce(e, "reqmeta", i)} },
               Replies(e, m, asked \cup Numbered(number', e, i))
        PROVE  NodesTypes' /\ Tells
    BY <2>1, <2>3, LearningTells
  <2> QED BY <1>1, <2>2, <2>3 DEF ReceiveQueue
<1>2. CASE ReceiveReqmeta(e, m)
  <2>1. m.type # "numbered" /\ UNCHANGED <<table, active, moved, mistaken>> BY <1>2 DEF ReceiveReqmeta
  <2>2. CASE Replies(e, m, {}) /\ UNCHANGED number
    BY <2>1, <2>2, DroppingTells
  <2>3. ASSUME NEW i \in DOMAIN table[e], table[e][i] = m.name, number' = Learned(e, i, m.node),
               Replies(e, m, Numbered(number', e, i))
        PROVE  NodesTypes' /\ Tells
    <3> DEFINE asked == {}
    <3>1. asked \in { {}, {Announce(e, "reqmeta", i)} } OBVIOUS
    <3>2. asked \cup Numbered(number', e, i) = Numbered(number', e, i) OBVIOUS
    <3>3. Replies(e, m, asked \cup Numbered(number', e, i)) BY <2>3, <3>2
    <3> HIDE DEF asked
    <3> QED BY <2>1, <2>3, <3>1, <3>3, LearningTells
  <2> QED BY <1>2, <2>2, <2>3 DEF ReceiveReqmeta
<1>3. CASE ReceiveNumbered(e, m)
  <2>1. m.type = "numbered" /\ UNCHANGED <<table, number, active, moved>> BY <1>3 DEF ReceiveNumbered
  <2>2. CASE Replies(e, m, {}) /\ UNCHANGED mistaken
    BY <2>1, <2>2, DroppingTells
  <2>3. CASE /\ m.node \in DOMAIN table[e] /\ Replies(e, m, Numbered(number, e, m.node))
             /\ mistaken' = [mistaken EXCEPT ![e] = @ \/ table[e][m.node] # m.name]
    <3> DEFINE i == m.node
               sent == Numbered(number, e, i)
    <3>1. number[e][i] \in Nat
      BY <2>3, LenProperties, ElementOfSeq DEF NodesTypes
    <3>2. \A q \in sent : /\ q \in Packet /\ q.type = "numbered" /\ q.node = number[e][i] /\ q.node # 0
                          /\ q.name = table[e][i]
      BY <2>3, <3>1, NumberedIs
    <3>3. sent \in SUBSET Packet BY <3>2
    <3>4. /\ link' \in [Ends -> SUBSET Packet]
          /\ \A d \in Ends : \A q \in link'[d] : q \in link[d] \/ (d = Peer[e] /\ q \in sent)
      BY <2>3, <3>3, RepliesIs
    <3> HIDE DEF sent
    <3>5. \A d \in Ends : \A q \in link'[d] : q \in link[d] \/ Honest(d, q)
      BY <2>1, <2>3, <3>2, <3>4, PeerFacts DEF Honest
    <3>6. /\ mistaken' \in [Ends -> BOOLEAN]
          /\ \A d \in Ends : mistaken'[d] => mistaken[d] \/ (d = e /\ table[e][m.node] # m.name)
      BY <2>3 DEF NodesTypes
    <3>7. \A d \in Ends :
            mistaken'[d] => \/ mistaken[d]
                            \/ \E q \in link[d] : q.type = "numbered" /\ ~Right(d, q.node, q.name)
      BY <2>1, <3>6 DEF Right
    <3> QED BY <2>1, <3>4, <3>5, <3>6, <3>7 DEF NodesTypes, Tells
  <2> QED BY <1>3, <2>2, <2>3 DEF ReceiveNumbered
<1> QED BY <1>1, <1>2, <1>3 DEF Receive

LEMMA LoseTells ==
  ASSUME NodesTypes, NEW e \in Ends, Lose(e) PROVE NodesTypes' /\ Tells
<1>1. PICK m \in link[e] : link' = [link EXCEPT ![e] = @ \ {m}]
  BY DEF Lose
<1>2. UNCHANGED <<table, number, active, moved, mistaken>>
  BY DEF Lose
<1>3. link' \in [Ends -> SUBSET Packet] /\ \A d \in Ends : \A q \in link'[d] : q \in link[d]
  BY <1>1 DEF NodesTypes
<1> QED BY <1>2, <1>3 DEF NodesTypes, Tells

\* A restart forgets what was known, and what is said of its own numbers stays right
\* if it finds its nodes in the order in which they were.
LEMMA RestartKeeps ==
  ASSUME NodesInv, NEW e \in Ends, RestartEnd(e) PROVE NodesInv'
<1>1. PICK t \in Listings[e] :
        /\ table' = [table EXCEPT ![e] = t]
        /\ number' = [number EXCEPT ![e] = Unknown(t)]
        /\ moved' = [moved EXCEPT ![e] = @ \/ t # table[e]]
  BY DEF RestartEnd
<1>2. PICK left \in SUBSET link[Peer[e]] : link' = [link EXCEPT ![Peer[e]] = left]
  BY DEF RestartEnd
<1>3. NodesTypes /\ t \in Seq(Names) /\ Peer[e] \in Ends
  BY NodesAssumption DEF NodesInv
<1>4. /\ Unknown(t) \in Seq(Nat) /\ DOMAIN Unknown(t) = DOMAIN t
      /\ \A i \in DOMAIN t : Unknown(t)[i] = 0
  <2>1. DOMAIN t = 1 .. Len(t) /\ Len(t) \in Nat BY <1>3, LenProperties
  <2>2. Unknown(t) = [i \in 1 .. Len(t) |-> 0] BY <2>1 DEF Unknown
  <2> QED BY <2>1, <2>2
<1>5. active' = [active EXCEPT ![e] = 0] /\ mistaken' = mistaken
  BY DEF RestartEnd
<1>6. /\ link' \in [Ends -> SUBSET Packet] /\ \A d \in Ends : link'[d] \subseteq link[d]
  BY <1>2, <1>3 DEF NodesTypes
<1>7. \A d \in Ends : /\ table'[d] = IF d = e THEN t ELSE table[d]
                      /\ number'[d] = IF d = e THEN Unknown(t) ELSE number[d]
                      /\ active'[d] = IF d = e THEN 0 ELSE active[d]
  <2> SUFFICES ASSUME NEW d \in Ends
               PROVE  /\ table'[d] = IF d = e THEN t ELSE table[d]
                      /\ number'[d] = IF d = e THEN Unknown(t) ELSE number[d]
                      /\ active'[d] = IF d = e THEN 0 ELSE active[d]
    OBVIOUS
  <2>1. table'[d] = IF d = e THEN t ELSE table[d] BY <1>1, <1>3 DEF NodesTypes
  <2>2. number'[d] = IF d = e THEN Unknown(t) ELSE number[d] BY <1>1, <1>3 DEF NodesTypes
  <2>3. active'[d] = IF d = e THEN 0 ELSE active[d] BY <1>3, <1>5 DEF NodesTypes
  <2> QED BY <2>1, <2>2, <2>3
<1>8. /\ moved' \in [Ends -> BOOLEAN]
      /\ \A d \in Ends : ~moved'[d] => ~moved[d] /\ table'[d] = table[d]
  BY <1>1, <1>3, <1>7 DEF NodesTypes
<1>9. NodesTypes'
  <2>1. table' \in [Ends -> Seq(Names)] BY <1>1, <1>3 DEF NodesTypes
  <2>2. number' \in [Ends -> Seq(Nat)] /\ \A d \in Ends : DOMAIN number'[d] = DOMAIN table'[d]
    BY <1>1, <1>3, <1>4, <1>7 DEF NodesTypes
  <2>3. active' \in [Ends -> Nat] /\ \A d \in Ends : active'[d] = 0 \/ active'[d] \in DOMAIN table'[d]
    BY <1>3, <1>5, <1>7 DEF NodesTypes
  <2> QED BY <1>3, <1>5, <1>6, <1>8, <2>1, <2>2, <2>3 DEF NodesTypes
<1>10. ASSUME NEW d \in Ends, ~moved'[d] PROVE NumbersRight(d)'
  <2>1. NumbersRight(d) /\ table'[d] = table[d] BY <1>8, <1>10 DEF NodesInv
  <2>2. \A k, n : Right(d, k, n)' <=> Right(d, k, n) BY <2>1 DEF Right
  <2>3. Peer[d] \in Ends BY PeerFacts
  <2>4. ASSUME NEW i \in DOMAIN table'[Peer[d]], number'[Peer[d]][i] # 0
        PROVE  Right(d, number'[Peer[d]][i], table'[Peer[d]][i])
    <3>1. Peer[d] # e BY <1>4, <1>7, <2>3, <2>4
    <3> DEFINE o == Peer[d]
    <3>2. table'[o] = table[o] /\ number'[o] = number[o]
      <4>1. o \in Ends /\ o # e BY <2>3, <3>1
      <4> HIDE DEF o
      <4> QED BY <1>7, <4>1
    <3> QED BY <2>1, <2>4, <3>2 DEF NumbersRight
  <2>5. \A m \in link'[Peer[d]] : m.type # "numbered" => Right(d, m.node, m.name)
    BY <1>6, <2>1, <2>3 DEF NumbersRight
  <2>6. \A m \in link'[d] : m.type = "numbered" => Right(d, m.node, m.name)
    BY <1>6, <2>1 DEF NumbersRight
  <2>7. ~mistaken'[d] BY <1>5, <2>1 DEF NumbersRight
  <2> QED BY <2>2, <2>4, <2>5, <2>6, <2>7 DEF NumbersRight
<1> QED BY <1>9, <1>10 DEF NodesInv

-----------------------------------------------------------------------------
(* The theorem. *)

LEMMA NodesInitInv == NodesInit => NodesInv
<1> SUFFICES ASSUME NodesInit PROVE NodesInv
  OBVIOUS
<1>1. table \in [Ends -> Seq(Names)]
  BY NodesAssumption DEF NodesInit
<1>2. ASSUME NEW e \in Ends
      PROVE  /\ Unknown(table[e]) \in Seq(Nat) /\ DOMAIN Unknown(table[e]) = DOMAIN table[e]
             /\ \A i \in DOMAIN table[e] : Unknown(table[e])[i] = 0
  <2>1. DOMAIN table[e] = 1 .. Len(table[e]) /\ Len(table[e]) \in Nat BY <1>1, LenProperties
  <2>2. Unknown(table[e]) = [i \in 1 .. Len(table[e]) |-> 0] BY <2>1 DEF Unknown
  <2> QED BY <2>1, <2>2
<1>3. /\ number = [e \in Ends |-> Unknown(table[e])]
      /\ active = [e \in Ends |-> 0] /\ link = [e \in Ends |-> {}]
      /\ moved = [e \in Ends |-> FALSE] /\ mistaken = [e \in Ends |-> FALSE]
  BY DEF NodesInit
<1>4. NodesTypes
  BY <1>1, <1>2, <1>3 DEF NodesTypes
<1>5. \A e \in Ends : NumbersRight(e)
  BY <1>2, <1>3, PeerFacts DEF NumbersRight
<1> QED BY <1>4, <1>5 DEF NodesInv

LEMMA NodesNextInv == NodesInv /\ [NodesNext]_nodesVars => NodesInv'
<1> SUFFICES ASSUME NodesInv, [NodesNext]_nodesVars PROVE NodesInv'
  OBVIOUS
<1>1. ASSUME NodesTypes' /\ Tells PROVE NodesInv'
  BY <1>1, TellsKeeps DEF NodesInv
<1>2. CASE UNCHANGED nodesVars
  BY <1>2 DEF nodesVars, NodesInv, NodesTypes, NumbersRight, Right
<1>3. ASSUME NEW e \in Ends, SendQueue(e) PROVE NodesInv'
  BY <1>1, <1>3, SendQueueTells DEF NodesInv
<1>4. ASSUME NEW e \in Ends, SendData(e) PROVE NodesInv'
  BY <1>1, <1>4, SendDataTells DEF NodesInv
<1>5. ASSUME NEW e \in Ends, NEW m \in link[e], Receive(e, m) PROVE NodesInv'
  BY <1>1, <1>5, ReceiveTells DEF NodesInv
<1>6. ASSUME NEW e \in Ends, Lose(e) PROVE NodesInv'
  BY <1>1, <1>6, LoseTells DEF NodesInv
<1>7. ASSUME NEW e \in Ends, RestartEnd(e) PROVE NodesInv'
  BY <1>7, RestartKeeps
<1> QED BY <1>2, <1>3, <1>4, <1>5, <1>6, <1>7 DEF NodesNext

\* Packets are used for the node they were meant for by every end that has not
\* started again with its nodes in another order, however often and with whatever
\* listing its peer has, and whatever packets are late, lost or come twice.
THEOREM MeantNode == NodesSpec => []RightNode
<1>1. NodesInv => RightNode
  BY DEF NodesInv, NodesTypes, NumbersRight, RightNode
<1> QED BY <1>1, NodesInitInv, NodesNextInv, PTL DEF NodesSpec
=============================================================================
