---------------------- MODULE RecipientDeliveryProofs ----------------------
(***************************************************************************)
(* Theorems about RecipientDelivery, for every set of messages, recipients, *)
(* gateways and polls: the queue's scores, the cursors a client holds, and  *)
(* the implementation of RecipientMailbox.                                  *)
(***************************************************************************)
EXTENDS RecipientDelivery, FiniteSetTheorems, SequenceTheorems,
        WellFoundedInduction, TLAPS

-----------------------------------------------------------------------------
(***************************************************************************)
(* Sequences                                                               *)
(***************************************************************************)

\* The recipient at the head of a list, and those after it.
LEMMA HeadAndTail ==
    ASSUME NEW S, NEW q \in Seq(S), q # <<>>
    PROVE  /\ Head(q) \in S /\ Head(q) \in Range(q) /\ Tail(q) \in Seq(S)
           /\ Range(Tail(q)) \subseteq Range(q)
           /\ \A x \in Range(q) : x = Head(q) \/ x \in Range(Tail(q))
  <1>1. /\ Len(q) \in Nat \ {0} /\ Head(q) = q[1] /\ Head(q) \in S
        /\ Tail(q) \in Seq(S) /\ Len(Tail(q)) = Len(q) - 1
        /\ \A i \in 1 .. Len(Tail(q)) : Tail(q)[i] = q[i + 1]
    BY EmptySeq, HeadTailProperties
  <1>2. DOMAIN q = 1 .. Len(q) /\ DOMAIN Tail(q) = 1 .. Len(Tail(q))
    BY <1>1, LenProperties
  <1>3. \A i \in 1 .. Len(Tail(q)) : i + 1 \in 1 .. Len(q) /\ Tail(q)[i] = q[i + 1]
    BY <1>1
  <1>4. \A i \in 1 .. Len(q) : i = 1 \/ (i - 1 \in 1 .. Len(Tail(q)) /\ Tail(q)[i - 1] = q[i])
    BY <1>1
  <1>5. Head(q) \in Range(q)
    <2>1. 1 \in 1 .. Len(q)
      BY <1>1
    <2> QED
      BY <1>1, <1>2, <2>1 DEF Range
  <1>6. Range(Tail(q)) \subseteq Range(q)
    <2> SUFFICES ASSUME NEW x \in Range(Tail(q))
                 PROVE  x \in Range(q)
      OBVIOUS
    <2>1. PICK i \in 1 .. Len(Tail(q)) : x = Tail(q)[i]
      BY <1>2 DEF Range
    <2>2. i + 1 \in DOMAIN q /\ x = q[i + 1]
      BY <1>2, <1>3, <2>1
    <2>3. PICK k \in DOMAIN q : x = q[k]
      BY <2>2
    <2> QED
      BY <2>3 DEF Range
  <1>7. \A x \in Range(q) : x = Head(q) \/ x \in Range(Tail(q))
    <2> SUFFICES ASSUME NEW x \in Range(q), x # Head(q)
                 PROVE  x \in Range(Tail(q))
      OBVIOUS
    <2>1. PICK i \in 1 .. Len(q) : x = q[i]
      BY <1>2 DEF Range
    <2>2. i - 1 \in DOMAIN Tail(q) /\ x = Tail(q)[i - 1]
      BY <1>1, <1>2, <1>4, <2>1
    <2>3. PICK k \in DOMAIN Tail(q) : x = Tail(q)[k]
      BY <2>2
    <2> QED
      BY <2>3 DEF Range
  <1> QED
    BY <1>1, <1>5, <1>6, <1>7

\* What SubSeq keeps is part of the sequence.
LEMMA SubSeqRange ==
    ASSUME NEW S, NEW q \in Seq(S), NEW m \in 1 .. Len(q) + 1, NEW n \in 0 .. Len(q)
    PROVE  /\ SubSeq(q, m, n) \in Seq(S)
           /\ Len(SubSeq(q, m, n)) = (IF m <= n THEN n - m + 1 ELSE 0)
           /\ Range(SubSeq(q, m, n)) \subseteq Range(q)
  <1> DEFINE p == SubSeq(q, m, n)
  <1>1. Len(q) \in Nat /\ \A i \in m .. n : q[i] \in S
    BY LenProperties
  <1>2. /\ p \in Seq(S) /\ Len(p) = (IF m <= n THEN n - m + 1 ELSE 0)
        /\ \A i \in 1 .. n - m + 1 : p[i] = q[m + i - 1]
    BY <1>1, SubSeqProperties
  <1> HIDE DEF p
  <1>3. DOMAIN q = 1 .. Len(q) /\ DOMAIN p = 1 .. Len(p)
    BY <1>2, LenProperties
  <1>4. \A i \in 1 .. Len(p) : m + i - 1 \in 1 .. Len(q) /\ p[i] = q[m + i - 1]
    BY <1>1, <1>2
  <1>5. Range(p) \subseteq Range(q)
    BY <1>3, <1>4 DEF Range
  <1> QED
    BY <1>2, <1>5 DEF p

\* RPUSH adds its element, LREM none.
LEMMA AppendRange ==
    ASSUME NEW S, NEW q \in Seq(S), NEW x \in S
    PROVE  /\ Append(q, x) \in Seq(S) /\ Len(Append(q, x)) = Len(q) + 1
           /\ Range(Append(q, x)) = Range(q) \union {x}
  <1>1. /\ Append(q, x) \in Seq(S) /\ Len(Append(q, x)) = Len(q) + 1 /\ Len(q) \in Nat
        /\ \A i \in 1 .. Len(q) : Append(q, x)[i] = q[i]
        /\ Append(q, x)[Len(q) + 1] = x
    BY AppendProperties, LenProperties
  <1>2. DOMAIN q = 1 .. Len(q) /\ DOMAIN Append(q, x) = 1 .. Len(q) + 1
    BY <1>1, LenProperties
  <1>3. \A i \in 1 .. Len(q) + 1 : i \in 1 .. Len(q) \/ i = Len(q) + 1
    BY <1>1
  <1>4. Len(q) + 1 \in 1 .. Len(q) + 1 /\ \A i \in 1 .. Len(q) : i \in 1 .. Len(q) + 1
    BY <1>1
  <1>5. Range(Append(q, x)) \subseteq Range(q) \union {x}
    BY <1>1, <1>2, <1>3 DEF Range
  <1>6. Range(q) \union {x} \subseteq Range(Append(q, x))
    BY <1>1, <1>2, <1>4 DEF Range
  <1> QED
    BY <1>1, <1>5, <1>6

\* What LREM leaves of the order of cursors is part of it.
LEMMA RemoveRange ==
    ASSUME NEW S, NEW q \in Seq(S), NEW i \in DOMAIN q
    PROVE  /\ RemoveAt(q, i) \in Seq(S) /\ Len(RemoveAt(q, i)) = Len(q) - 1
           /\ Range(RemoveAt(q, i)) \subseteq Range(q)
  <1> DEFINE a == SubSeq(q, 1, i - 1)
             b == SubSeq(q, i + 1, Len(q))
             j == a \o b
  <1>1. Len(q) \in Nat /\ i \in 1 .. Len(q)
    BY LenProperties
  <1>2. /\ 1 \in 1 .. Len(q) + 1 /\ i - 1 \in 0 .. Len(q)
        /\ i + 1 \in 1 .. Len(q) + 1 /\ Len(q) \in 0 .. Len(q)
    BY <1>1
  <1>3. /\ a \in Seq(S) /\ Len(a) = (IF 1 <= i - 1 THEN i - 1 - 1 + 1 ELSE 0)
        /\ Range(a) \subseteq Range(q)
    BY <1>2, SubSeqRange
  <1>4. /\ b \in Seq(S) /\ Len(b) = (IF i + 1 <= Len(q) THEN Len(q) - (i + 1) + 1 ELSE 0)
        /\ Range(b) \subseteq Range(q)
    BY <1>2, SubSeqRange
  <1>5. Len(a) = i - 1 /\ Len(b) = Len(q) - i /\ Len(a) \in Nat /\ Len(b) \in Nat
    BY <1>1, <1>3, <1>4
  <1>6. RemoveAt(q, i) = j
    BY DEF RemoveAt
  <1> HIDE DEF a, b
  <1>7. /\ j \in Seq(S) /\ Len(j) = Len(a) + Len(b)
        /\ \A k \in 1 .. Len(a) + Len(b) : j[k] = IF k <= Len(a) THEN a[k] ELSE b[k - Len(a)]
    BY <1>3, <1>4, ConcatProperties
  <1> HIDE DEF j
  <1>8. /\ DOMAIN a = 1 .. Len(a) /\ DOMAIN b = 1 .. Len(b) /\ DOMAIN j = 1 .. Len(j)
    BY <1>3, <1>4, <1>7, LenProperties
  <1>9. \A k \in 1 .. Len(j) : \/ k \in 1 .. Len(a) /\ j[k] = a[k]
                               \/ k - Len(a) \in 1 .. Len(b) /\ j[k] = b[k - Len(a)]
    BY <1>5, <1>7
  <1>10. \A x \in Range(j) : x \in Range(a) \/ x \in Range(b)
    BY <1>8, <1>9 DEF Range
  <1>11. Len(j) = Len(q) - 1
    BY <1>1, <1>5, <1>7
  <1> QED
    BY <1>3, <1>4, <1>6, <1>7, <1>10, <1>11

\* The newest MaxCursors cursors survive, and no other.
LEMMA BoundedRange ==
    ASSUME NEW S, NEW q \in Seq(S)
    PROVE  /\ Bounded(q) \in Seq(S) /\ Len(Bounded(q)) <= MaxCursors
           /\ Range(Bounded(q)) \subseteq Range(q)
  <1>1. Len(q) \in Nat /\ MaxCursors \in Nat \ {0}
    BY DeliveryAssumption, LenProperties
  <1>2. CASE Len(q) > MaxCursors
    <2> DEFINE m == Len(q) - MaxCursors + 1
    <2>1. m \in 1 .. Len(q) + 1 /\ Len(q) \in 0 .. Len(q) /\ m <= Len(q) /\ Len(q) - m + 1 = MaxCursors
      BY <1>1, <1>2
    <2>2. Bounded(q) = SubSeq(q, m, Len(q))
      BY <1>2 DEF Bounded
    <2> HIDE DEF m
    <2> QED
      BY <1>1, <2>1, <2>2, SubSeqRange
  <1>3. CASE ~ (Len(q) > MaxCursors)
    BY <1>1, <1>3 DEF Bounded
  <1> QED
    BY <1>2, <1>3
-----------------------------------------------------------------------------
(***************************************************************************)
(* The inductive invariant                                                 *)
(***************************************************************************)

Delivery == [pc : {"idle", "accept", "reject", "replay", "receipt", "ack"},
             msg : Messages \union Typing \union {None}, todo : Seq(Uins)]
Request == [pc : {"new", "load", "ack", "read", "issue", "sent", "store", "done"},
            uin : Uins \union {None}, cursor : Polls \union {None},
            after : Nat, ids : SUBSET Messages]
Receiver == [cursor : Polls \union {None}, stored : SUBSET Messages,
             polling : Polls \union {None}]

\* The types, with what TypeOK leaves to the definitions.
TypeInv == TypeOK /\ cursors \in [Uins -> Seq(Cursor)] /\ IsFiniteSet(pending)

\* The queue of u has, or had, the message m.
Reached(u, m) == m \in seen[u] \union expired

\* A queued record has its seen marker as long as it does not expire.
QueueInv == \A u \in Uins : \A r \in index[u] : Reached(u, r.id)

\* The recipients acceptDelivery has dealt with have the message.
Handled(g) ==
    LET m == gw[g].msg
        todo == gw[g].todo
    IN
    /\ gw[g].pc \in {"accept", "replay", "receipt", "ack"} => m \in Messages
    /\ gw[g].pc \in {"accept", "replay"} =>
          /\ todo # <<>> /\ Range(todo) \subseteq Range(To[m])
          /\ \A u \in Range(To[m]) : u \in Range(todo) \/ Reached(u, m)
    /\ gw[g].pc = "replay" => Reached(Head(todo), m)
    /\ gw[g].pc \in {"receipt", "ack"} => \A u \in Range(To[m]) : Reached(u, m)
GatewayInv == \A g \in Gateways : Handled(g)

\* A token that the client of u holds or presents.
Held(u, t) == client[u].cursor = t \/ \E p \in Polls : poll[p].uin = u /\ poll[p].cursor = t

\* What a request knows: before its ack, envelopes the client has stored; after
\* its read, envelopes that are or were in the queue.
Knows(p) ==
    /\ poll[p].pc \notin {"new", "done"} => poll[p].uin \in Uins
    /\ poll[p].pc \in {"new", "done"} => poll[p].uin = None /\ poll[p].cursor = None
    /\ poll[p].pc = "load" => poll[p].cursor # None
    /\ poll[p].pc = "ack" => poll[p].ids \subseteq client[poll[p].uin].stored
    /\ poll[p].pc \in {"issue", "sent", "store"} =>
          \A m \in poll[p].ids : Reached(poll[p].uin, m)
RequestInv == \A p \in Polls : Knows(p)

\* A stored cursor stands for the page its request carries until the client has
\* stored it; only then is the token in the client's hands.
CursorInv ==
    /\ \A u \in Uins : \A c \in Range(cursors[u]) :
         /\ poll[c.token].pc \in {"sent", "store", "done"}
         /\ poll[c.token].pc \in {"sent", "store"} =>
               u = poll[c.token].uin /\ c.ids = poll[c.token].ids
         /\ Held(u, c.token) => c.ids \subseteq client[u].stored
    /\ \A u \in Uins, t \in Polls : Held(u, t) => poll[t].pc = "done"

DeliveryInv ==
    TypeInv /\ QueueInv /\ GatewayInv /\ RequestInv /\ CursorInv /\ ScoresDistinct

\* The types as the steps use them.
LEMMA TypeFacts ==
    ASSUME TypeInv
    PROVE  /\ stream \subseteq Messages \union Typing /\ pending \subseteq stream
           /\ gw \in [Gateways -> Delivery] /\ poll \in [Polls -> Request]
           /\ client \in [Uins -> Receiver] /\ cursors \in [Uins -> Seq(Cursor)]
           /\ index \in [Uins -> SUBSET Ref] /\ sequence \in [Uins -> Nat]
           /\ seen \in [Uins -> SUBSET Messages] /\ expired \subseteq Expiring
           /\ expired \subseteq Messages /\ confirmed \subseteq Messages
           /\ \A u \in Uins : Range(cursors[u]) \subseteq Cursor
           /\ \A u \in Uins : \A r \in index[u] : r.id \in Messages /\ r.seq \in Nat
  <1>1. \A u \in Uins : Range(cursors[u]) \subseteq Cursor
    <2> TAKE u \in Uins
    <2>1. cursors[u] \in Seq(Cursor)
      BY DEF TypeInv
    <2> QED
      BY <2>1, LenProperties DEF Range
  <1>2. \A u \in Uins : \A r \in index[u] : r.id \in Messages /\ r.seq \in Nat
    BY DEF TypeInv, TypeOK, Ref
  <1> QED
    BY <1>1, <1>2, DeliveryAssumption DEF TypeInv, TypeOK, Delivery, Request, Receiver

-----------------------------------------------------------------------------
(***************************************************************************)
(* Records with one field assigned                                         *)
(***************************************************************************)

\* A run of acceptDelivery after an assignment.
LEMMA DeliveryTyped ==
    /\ NoDelivery \in Delivery
    /\ \A d \in Delivery, pc \in {"idle", "accept", "reject", "replay", "receipt", "ack"} :
         [d EXCEPT !.pc = pc] \in Delivery
    /\ \A d \in Delivery, todo \in Seq(Uins) : [d EXCEPT !.todo = todo] \in Delivery
  <1>1. NoDelivery \in Delivery
    BY EmptySeq DEF Delivery, NoDelivery
  <1>2. ASSUME NEW d \in Delivery, NEW pc \in {"idle", "accept", "reject", "replay", "receipt", "ack"}
        PROVE  [d EXCEPT !.pc = pc] \in Delivery
    BY DEF Delivery
  <1>3. ASSUME NEW d \in Delivery, NEW todo \in Seq(Uins)
        PROVE  [d EXCEPT !.todo = todo] \in Delivery
    BY DEF Delivery
  <1> QED
    BY <1>1, <1>2, <1>3

\* A poll request after an assignment.
LEMMA RequestTyped ==
    /\ NoPoll("done") \in Request
    /\ \A d \in Request, pc \in {"load", "ack", "read", "issue", "sent", "store", "done"} :
         [d EXCEPT !.pc = pc] \in Request
    /\ \A d \in Request, u \in Uins : [d EXCEPT !.uin = u] \in Request
    /\ \A d \in Request, t \in Polls \union {None} : [d EXCEPT !.cursor = t] \in Request
    /\ \A d \in Request, n \in Nat : [d EXCEPT !.after = n] \in Request
    /\ \A d \in Request, ids \in SUBSET Messages : [d EXCEPT !.ids = ids] \in Request
  <1>1. NoPoll("done") \in Request
    BY DEF Request, NoPoll
  <1>2. ASSUME NEW d \in Request
        PROVE  \A pc \in {"load", "ack", "read", "issue", "sent", "store", "done"} :
                 [d EXCEPT !.pc = pc] \in Request
    BY DEF Request
  <1>3. ASSUME NEW d \in Request
        PROVE  /\ \A u \in Uins : [d EXCEPT !.uin = u] \in Request
               /\ \A t \in Polls \union {None} : [d EXCEPT !.cursor = t] \in Request
    BY DEF Request
  <1>4. ASSUME NEW d \in Request
        PROVE  /\ \A n \in Nat : [d EXCEPT !.after = n] \in Request
               /\ \A ids \in SUBSET Messages : [d EXCEPT !.ids = ids] \in Request
    BY DEF Request
  <1> QED
    BY <1>1, <1>2, <1>3, <1>4

\* A client after an assignment.
LEMMA ReceiverTyped ==
    ASSUME NEW d \in Receiver
    PROVE  /\ \A t \in Polls \union {None} : [d EXCEPT !.polling = t] \in Receiver
           /\ \A t \in Polls \union {None} : [d EXCEPT !.cursor = t] \in Receiver
           /\ \A S \in SUBSET Messages : [d EXCEPT !.stored = S] \in Receiver
  BY DEF Receiver

\* A page is a set of live records; its greatest score exists because the
\* counter bounds them all.
LEMMA PageFacts ==
    ASSUME TypeInv, ScoresDistinct, NEW u \in Uins, NEW after \in Nat
    PROVE  LET page == Page(u, after)
           IN  /\ \A r \in page : r \in index[u] /\ r.id \notin expired
               /\ {r.id : r \in page} \in SUBSET Messages
               /\ page # {} => LastScore(page) \in Nat
  <1> DEFINE page == Page(u, after)
             S == {r.seq : r \in page}
             b == sequence[u]
             D == {d \in Nat : b - d \in S}
  <1>1. \A r \in page : r \in index[u] /\ r.id \notin expired
    BY DEF Page, Live
  <1>2. \A r \in page : r.id \in Messages /\ r.seq \in Nat /\ r.seq <= b
    BY <1>1, TypeFacts DEF ScoresDistinct
  <1>3. b \in Nat
    BY TypeFacts
  <1> HIDE DEF page, b
  <1>4. ASSUME page # {}
        PROVE  \E s \in S : \A r \in page : r.seq <= s
    <2>1. D \subseteq Nat /\ D # {}
      <3>1. PICK r \in page : TRUE
        BY <1>4
      <3>2. b - r.seq \in Nat /\ b - (b - r.seq) = r.seq
        BY <1>2, <1>3
      <3> QED
        BY <3>2
    <2>2. PICK d \in D : \A e \in D : ~ (<<e, d>> \in OpToRel(<, Nat))
      BY <2>1, WFMin, NatLessThanWellFounded
    <2>3. \A e \in D : ~ (e < d)
      BY <2>2 DEF OpToRel
    <2>4. \A r \in page : r.seq <= b - d
      <3> TAKE r \in page
      <3>1. b - r.seq \in Nat /\ b - (b - r.seq) = r.seq
        BY <1>2, <1>3
      <3>2. ~ (b - r.seq < d)
        BY <2>3, <3>1
      <3> QED
        BY <1>2, <1>3, <3>1, <3>2
    <2> QED
      BY <2>2, <2>4
  <1>5. page # {} => LastScore(page) \in S
    BY <1>4 DEF LastScore
  <1>6. S \subseteq Nat /\ {r.id : r \in page} \in SUBSET Messages
    BY <1>2
  <1> QED
    BY <1>1, <1>5, <1>6 DEF page
-----------------------------------------------------------------------------
(***************************************************************************)
(* Types                                                                   *)
(***************************************************************************)

\* The read and ack scripts: what is left of an index is part of it, and the
\* counter restarts only for an empty index.
LEMMA SetIndexTyped ==
    ASSUME TypeInv, NEW u \in Uins, NEW refs \in SUBSET index[u], SetIndex(u, refs)
    PROVE  /\ index' \in [Uins -> SUBSET Ref] /\ sequence' \in [Uins -> Nat] /\ seen' = seen
           /\ index'[u] = refs /\ sequence'[u] = (IF refs = {} THEN 0 ELSE sequence[u])
           /\ \A w \in Uins \ {u} : index'[w] = index[w] /\ sequence'[w] = sequence[w]
  <1>1. index' = [index EXCEPT ![u] = refs]
        /\ sequence' = [sequence EXCEPT ![u] = IF refs = {} THEN 0 ELSE sequence[u]]
        /\ seen' = seen
    BY DEF SetIndex
  <1>2. refs \in SUBSET Ref /\ (IF refs = {} THEN 0 ELSE sequence[u]) \in Nat
    BY TypeFacts
  <1> QED
    BY <1>1, <1>2, TypeFacts

\* The read and ack scripts write references and a counter, and no marker.
LEMMA ScriptsTyped ==
    ASSUME TypeInv, NEW u \in Uins
    PROVE  /\ \A n : ReadScript(u, n) =>
                 index' \in [Uins -> SUBSET Ref] /\ sequence' \in [Uins -> Nat] /\ seen' = seen
           /\ \A ids : AckScript(u, ids) =>
                 index' \in [Uins -> SUBSET Ref] /\ sequence' \in [Uins -> Nat] /\ seen' = seen
  <1>1. ASSUME NEW n, ReadScript(u, n)
        PROVE  index' \in [Uins -> SUBSET Ref] /\ sequence' \in [Uins -> Nat] /\ seen' = seen
    <2> DEFINE refs == {r \in index[u] : r.seq > n => r.id \notin expired}
    <2>1. refs \in SUBSET index[u] /\ SetIndex(u, refs)
      BY <1>1 DEF ReadScript
    <2> QED
      BY <2>1, SetIndexTyped
  <1>2. ASSUME NEW ids, AckScript(u, ids)
        PROVE  index' \in [Uins -> SUBSET Ref] /\ sequence' \in [Uins -> Nat] /\ seen' = seen
    <2> DEFINE refs == {r \in Live(u) : r.id \notin ids}
    <2>1. refs \in SUBSET index[u] /\ SetIndex(u, refs)
      BY <1>2 DEF AckScript, Live
    <2> QED
      BY <2>1, SetIndexTyped
  <1> QED
    BY <1>1, <1>2

\* The steps of the gateways and of the stream.
LEMMA GatewayTypeStep ==
    ASSUME TypeInv, GatewayInv, NEW g \in Gateways, Consume(g)
    PROVE  TypeInv'
  <1>1. /\ stream' \subseteq Messages \union Typing /\ expired' = expired
        /\ cursors' = cursors /\ poll' = poll /\ client' = client
        /\ pending' \subseteq stream'
    BY TypeFacts DEF Consume, Handle, Fetch, AcceptNew, AcceptSeen, AcceptFull, AcceptExpired,
       AcceptRejected, Replay, Receipt, StreamAck, ReceiptLost, GatewayFail
  <1>2. IsFiniteSet(pending') /\ Cardinality(pending') <= MaxAckPending
    <2>1. IsFiniteSet(pending) /\ Cardinality(pending) <= MaxAckPending /\ MaxAckPending \in Nat
          /\ Cardinality(pending) \in Nat
      BY DeliveryAssumption, FS_CardinalityType DEF TypeInv, TypeOK
    <2>2. ASSUME NEW m, Fetch(g, m)
          PROVE  IsFiniteSet(pending') /\ Cardinality(pending') <= MaxAckPending
      <3>1. pending' = pending \union {m} /\ (m \in pending \/ Cardinality(pending) < MaxAckPending)
        BY <2>2 DEF Fetch
      <3>2. IsFiniteSet(pending') /\ Cardinality(pending') =
              IF m \in pending THEN Cardinality(pending) ELSE Cardinality(pending) + 1
        BY <2>1, <3>1, FS_AddElement
      <3> QED
        BY <2>1, <3>1, <3>2
    <2>3. CASE StreamAck(g)
      <3>1. pending' \in SUBSET pending
        BY <2>3 DEF StreamAck
      <3>2. IsFiniteSet(pending') /\ Cardinality(pending') <= Cardinality(pending)
            /\ Cardinality(pending') \in Nat
        BY <2>1, <3>1, FS_Subset, FS_CardinalityType
      <3> QED
        BY <2>1, <3>2
    <2>4. CASE UNCHANGED pending
      BY <2>1, <2>4
    <2> QED
      BY <2>2, <2>3, <2>4 DEF Consume, Handle, AcceptNew, AcceptSeen, AcceptFull, AcceptExpired,
         AcceptRejected, Replay, Receipt, ReceiptLost, GatewayFail
  <1>3. ASSUME NEW d \in Delivery, gw' = [gw EXCEPT ![g] = d]
        PROVE  gw' \in [Gateways -> Delivery]
    BY <1>3, TypeFacts
  <1>4. ASSUME NEW pc \in {"idle", "accept", "reject", "replay", "receipt", "ack"}, GatewayGoto(g, pc)
        PROVE  gw' \in [Gateways -> Delivery]
    <2>1. [gw[g] EXCEPT !.pc = pc] \in Delivery
      BY TypeFacts, DeliveryTyped
    <2>2. gw' = [gw EXCEPT ![g] = [gw[g] EXCEPT !.pc = pc]]
      BY <1>4, TypeFacts DEF GatewayGoto
    <2> QED
      BY <1>3, <2>1, <2>2
  <1>5. Release(g) => gw' \in [Gateways -> Delivery]
    BY <1>3, DeliveryTyped DEF Release
  <1>6. gw' \in [Gateways -> Delivery]
    <2>1. ASSUME NEW m \in Messages \union Typing, Fetch(g, m)
          PROVE  gw' \in [Gateways -> Delivery]
      <3>1. CASE m \in Typing
        <4>1. [pc |-> "reject", msg |-> m, todo |-> <<>>] \in Delivery
          BY EmptySeq DEF Delivery
        <4>2. gw' = [gw EXCEPT ![g] = [pc |-> "reject", msg |-> m, todo |-> <<>>]]
          BY <2>1, <3>1 DEF Fetch
        <4> QED
          BY <1>3, <4>1, <4>2
      <3>2. CASE m \notin Typing
        <4>1. [pc |-> "accept", msg |-> m, todo |-> To[m]] \in Delivery
          BY <3>2, DeliveryAssumption DEF Delivery
        <4>2. gw' = [gw EXCEPT ![g] = [pc |-> "accept", msg |-> m, todo |-> To[m]]]
          BY <2>1, <3>2 DEF Fetch
        <4> QED
          BY <1>3, <4>1, <4>2
      <3> QED
        BY <3>1, <3>2
    <2>2. CASE Replay(g)
      <3> DEFINE t == Tail(gw[g].todo)
                 pc == IF t = <<>> THEN "receipt" ELSE "accept"
      <3>1. t \in Seq(Uins)
        <4>1. gw[g].todo \in Seq(Uins) /\ gw[g].todo # <<>>
          BY <2>2, TypeFacts DEF Replay, GatewayInv, Handled, Delivery
        <4> QED
          BY <4>1, HeadAndTail
      <3>2. gw' = [gw EXCEPT ![g] = [[gw[g] EXCEPT !.todo = t] EXCEPT !.pc = pc]]
        BY <2>2, TypeFacts DEF Replay
      <3>3. pc \in {"receipt", "accept"}
        OBVIOUS
      <3> HIDE DEF t, pc
      <3>4. [[gw[g] EXCEPT !.todo = t] EXCEPT !.pc = pc] \in Delivery
        BY <3>1, <3>3, TypeFacts, DeliveryTyped
      <3> QED
        BY <1>3, <3>2, <3>4
    <2> QED
      BY <1>4, <1>5, <2>1, <2>2 DEF Consume, Handle, AcceptNew, AcceptSeen, AcceptFull, AcceptExpired,
         AcceptRejected, Receipt, StreamAck, ReceiptLost, GatewayFail
  <1>7. /\ index' \in [Uins -> SUBSET Ref] /\ sequence' \in [Uins -> Nat]
        /\ seen' \in [Uins -> SUBSET Messages]
    <2> DEFINE m == gw[g].msg
               u == Recipient(g)
    <2>1. ASSUME gw[g].pc \in {"accept", "replay"}
          PROVE  m \in Messages /\ u \in Uins
      <3>1. gw[g].todo \in Seq(Uins) /\ gw[g].todo # <<>> /\ m \in Messages
        BY <2>1, TypeFacts DEF GatewayInv, Handled, Delivery
      <3> QED
        BY <3>1, HeadAndTail DEF Recipient
    <2>2. CASE AcceptNew(g)
      <3> DEFINE ref == [id |-> m, seq |-> sequence[u] + 1]
      <3>1. m \in Messages /\ u \in Uins
        BY <2>1, <2>2 DEF AcceptNew
      <3>2. /\ sequence' = [sequence EXCEPT ![u] = sequence[u] + 1]
            /\ index' = [index EXCEPT ![u] = Live(u) \union {ref}]
            /\ seen' = [seen EXCEPT ![u] = seen[u] \union {m}]
        BY <2>2 DEF AcceptNew
      <3> HIDE DEF m, u
      <3>3. ref \in Ref /\ Live(u) \subseteq Ref /\ sequence[u] + 1 \in Nat
        BY <3>1, TypeFacts DEF Ref, Live
      <3> HIDE DEF ref
      <3> QED
        BY <3>1, <3>2, <3>3, TypeFacts
    <2>3. CASE AcceptFull(g)
      <3>1. u \in Uins /\ Live(u) \in SUBSET Ref
        BY <2>1, <2>3, TypeFacts DEF AcceptFull, QueueFull, Live
      <3>2. index' = [index EXCEPT ![u] = Live(u)] /\ UNCHANGED <<sequence, seen>>
        BY <2>3 DEF AcceptFull
      <3> HIDE DEF u
      <3> QED
        BY <3>1, <3>2, TypeFacts
    <2>4. CASE Replay(g)
      <3>1. u \in Uins /\ ReadScript(u, 0)
        BY <2>1, <2>4 DEF Replay
      <3> QED
        BY <3>1, ScriptsTyped, TypeFacts
    <2>5. CASE UNCHANGED queueVars
      BY <2>5, TypeFacts DEF queueVars
    <2> QED
      BY <2>2, <2>3, <2>4, <2>5 DEF Consume, Handle, Fetch, AcceptSeen, AcceptExpired,
         AcceptRejected, Receipt, StreamAck, ReceiptLost, GatewayFail
  <1>8. confirmed' \subseteq Messages
    <2>1. CASE Receipt(g) \/ ReceiptLost(g)
      <3>1. gw[g].msg \in Messages /\ confirmed' = confirmed \union {gw[g].msg}
        BY <2>1 DEF Receipt, ReceiptLost, GatewayInv, Handled
      <3> QED
        BY <3>1, TypeFacts
    <2>2. CASE UNCHANGED confirmed
      BY <2>2, TypeFacts
    <2> QED
      BY <2>1, <2>2 DEF Consume, Handle, Fetch, AcceptNew, AcceptSeen, AcceptFull, AcceptExpired,
         AcceptRejected, Replay, StreamAck, GatewayFail
  <1> QED
    BY <1>1, <1>2, <1>6, <1>7, <1>8 DEF TypeInv, TypeOK, Delivery
\* The steps of a poll request and of the client that waits for it.
LEMMA ServeTypeStep ==
    ASSUME TypeInv, RequestInv, ScoresDistinct, NEW p \in Polls, Serve(p)
    PROVE  TypeInv'
  <1>1. /\ stream' = stream /\ expired' = expired /\ pending' = pending
        /\ gw' = gw /\ confirmed' = confirmed
    BY DEF Serve, PollStart, PollLoad, PollAck, PollWait, PollRead, PollIssue, PollArrive,
       PollStored, PollStoreFails
  <1>2. ASSUME poll[p].pc \notin {"new", "done"}
        PROVE  poll[p].uin \in Uins /\ poll[p].cursor \in Polls \union {None}
               /\ poll[p].after \in Nat /\ poll[p].ids \in SUBSET Messages
    BY <1>2, TypeFacts DEF RequestInv, Knows, Request
  <1>3. ASSUME NEW d \in Request, poll' = [poll EXCEPT ![p] = d]
        PROVE  poll' \in [Polls -> Request]
    BY <1>3, TypeFacts
  <1>4. ASSUME NEW pc \in {"load", "ack", "read", "issue", "sent", "store", "done"},
               poll' = [poll EXCEPT ![p].pc = pc]
        PROVE  poll' \in [Polls -> Request]
    <2>1. [poll[p] EXCEPT !.pc = pc] \in Request
      BY TypeFacts, RequestTyped
    <2>2. poll' = [poll EXCEPT ![p] = [poll[p] EXCEPT !.pc = pc]]
      BY <1>4, TypeFacts
    <2> QED
      BY <1>3, <2>1, <2>2
  <1>5. ASSUME poll' = [poll EXCEPT ![p] = NoPoll("done")]
        PROVE  poll' \in [Polls -> Request]
    BY <1>3, <1>5, RequestTyped
  <1>6. ASSUME NEW u \in Uins, NEW d \in Receiver, client' = [client EXCEPT ![u] = d]
        PROVE  client' \in [Uins -> Receiver]
    BY <1>6, TypeFacts
  <1>7. ASSUME Reject(p), poll[p].uin \in Uins
        PROVE  poll' \in [Polls -> Request] /\ client' \in [Uins -> Receiver]
    <2> DEFINE u == poll[p].uin
               d == [client[u] EXCEPT !.polling = None]
    <2>1. d \in Receiver
      BY <1>7, TypeFacts, ReceiverTyped
    <2>2. [d EXCEPT !.cursor = None] \in Receiver
      BY <2>1, ReceiverTyped
    <2>3. \/ client' = client
          \/ client' = [client EXCEPT ![u] = [d EXCEPT !.cursor = None]]
      BY <1>7, TypeFacts DEF Reject
    <2> HIDE DEF d
    <2> QED
      BY <1>5, <1>6, <1>7, <2>2, <2>3, TypeFacts DEF Reject
  <1>8. poll' \in [Polls -> Request]
    <2>1. ASSUME NEW u \in Uins, PollStart(p, u)
          PROVE  poll' \in [Polls -> Request]
      <3> DEFINE c == client[u].cursor
                 pc == IF c = None THEN "read" ELSE "load"
                 d == [poll[p] EXCEPT !.uin = u]
                 e == [d EXCEPT !.cursor = c]
      <3>1. c \in Polls \union {None} /\ pc \in {"read", "load"}
        BY TypeFacts DEF Receiver
      <3>2. poll' = [poll EXCEPT ![p] = [e EXCEPT !.pc = pc]]
        BY <2>1, TypeFacts DEF PollStart
      <3> HIDE DEF c, pc
      <3>3. d \in Request
        BY TypeFacts, RequestTyped
      <3> HIDE DEF d
      <3>4. e \in Request
        BY <3>1, <3>3, RequestTyped
      <3> HIDE DEF e
      <3>5. [e EXCEPT !.pc = pc] \in Request
        BY <3>1, <3>4, RequestTyped
      <3> QED
        BY <1>3, <3>2, <3>5
    <2>2. CASE PollLoad(p)
      <3>1. poll[p].uin \in Uins
        BY <1>2, <2>2 DEF PollLoad
      <3>2. CASE Reject(p)
        BY <1>7, <3>1, <3>2
      <3>3. ASSUME NEW c \in Issued(poll[p].uin, poll[p].cursor),
                   poll' = [poll EXCEPT ![p] = [@ EXCEPT !.pc = "ack", !.after = c.after,
                                                         !.ids = c.ids]]
            PROVE  poll' \in [Polls -> Request]
        <4> DEFINE d == [poll[p] EXCEPT !.pc = "ack"]
                   e == [d EXCEPT !.after = c.after]
        <4>1. c.after \in Nat /\ c.ids \in SUBSET Messages
          <5>1. c \in Cursor
            BY <3>1, TypeFacts DEF Issued
          <5> QED
            BY <5>1 DEF Cursor
        <4>2. poll' = [poll EXCEPT ![p] = [e EXCEPT !.ids = c.ids]]
          BY <3>3, TypeFacts
        <4>3. d \in Request
          BY TypeFacts, RequestTyped
        <4> HIDE DEF d
        <4>4. e \in Request
          BY <4>1, <4>3, RequestTyped
        <4> HIDE DEF e
        <4>5. [e EXCEPT !.ids = c.ids] \in Request
          BY <4>1, <4>4, RequestTyped
        <4> QED
          BY <1>3, <4>2, <4>5
      <3> QED
        BY <2>2, <3>2, <3>3 DEF PollLoad
    <2>3. CASE PollAck(p)
      <3> DEFINE d == [poll[p] EXCEPT !.pc = "read"]
      <3>1. poll' = [poll EXCEPT ![p] = [d EXCEPT !.ids = {}]]
        BY <2>3, TypeFacts DEF PollAck
      <3>2. d \in Request
        BY TypeFacts, RequestTyped
      <3> HIDE DEF d
      <3>3. [d EXCEPT !.ids = {}] \in Request
        BY <3>2, RequestTyped
      <3> QED
        BY <1>3, <3>1, <3>3
    <2>4. CASE PollRead(p)
      <3> DEFINE page == Page(poll[p].uin, poll[p].after)
                 ids == {r.id : r \in page}
                 n == IF page = {} THEN poll[p].after ELSE LastScore(page)
                 d == [poll[p] EXCEPT !.pc = "issue"]
                 e == [d EXCEPT !.ids = ids]
      <3>1. poll[p].uin \in Uins /\ poll[p].after \in Nat
        BY <1>2, <2>4 DEF PollRead
      <3>2. ids \in SUBSET Messages /\ (page # {} => LastScore(page) \in Nat)
        BY <3>1, PageFacts
      <3>3. poll' = [poll EXCEPT ![p] = [e EXCEPT !.after = n]]
        BY <2>4, TypeFacts DEF PollRead
      <3> HIDE DEF page, ids
      <3>4. n \in Nat
        BY <3>1, <3>2
      <3> HIDE DEF n
      <3>5. d \in Request
        BY TypeFacts, RequestTyped
      <3> HIDE DEF d
      <3>6. e \in Request
        BY <3>2, <3>5, RequestTyped
      <3> HIDE DEF e
      <3>7. [e EXCEPT !.after = n] \in Request
        BY <3>4, <3>6, RequestTyped
      <3> QED
        BY <1>3, <3>3, <3>7
    <2>5. CASE PollIssue(p)
      <3>1. poll[p].uin \in Uins
        BY <1>2, <2>5 DEF PollIssue
      <3>2. Reject(p) \/ poll' = [poll EXCEPT ![p].pc = "sent"]
        BY <2>5 DEF PollIssue
      <3> QED
        BY <1>4, <1>7, <3>1, <3>2
    <2>6. CASE PollWait(p)
      BY <2>6, TypeFacts DEF PollWait
    <2>7. CASE PollArrive(p)
      BY <1>4, <2>7 DEF PollArrive
    <2>8. CASE PollStored(p) \/ \E S \in SUBSET poll[p].ids : PollStoreFails(p, S)
      BY <1>5, <2>8 DEF PollStored, PollStoreFails
    <2> QED
      BY <2>1, <2>2, <2>3, <2>4, <2>5, <2>6, <2>7, <2>8 DEF Serve
  <1>9. client' \in [Uins -> Receiver]
    <2>1. ASSUME NEW u \in Uins, PollStart(p, u)
          PROVE  client' \in [Uins -> Receiver]
      <3>1. client' = [client EXCEPT ![u] = [client[u] EXCEPT !.polling = p]]
        BY <2>1, TypeFacts DEF PollStart
      <3>2. [client[u] EXCEPT !.polling = p] \in Receiver
        BY TypeFacts, ReceiverTyped
      <3> QED
        BY <1>6, <3>1, <3>2
    <2>2. CASE PollLoad(p) \/ PollIssue(p)
      <3>1. poll[p].uin \in Uins
        BY <1>2, <2>2 DEF PollLoad, PollIssue
      <3>2. Reject(p) \/ client' = client
        BY <2>2 DEF PollLoad, PollIssue
      <3> QED
        BY <1>7, <3>1, <3>2, TypeFacts
    <2>3. CASE PollStored(p)
      <3> DEFINE u == poll[p].uin
                 stop == StopPolling(p, u)
      <3>1. u \in Uins /\ poll[p].ids \in SUBSET Messages
        BY <1>2, <2>3 DEF PollStored
      <3>2. stop \in Polls \union {None} /\ client[u].stored \in SUBSET Messages
        BY <3>1, TypeFacts DEF StopPolling, Receiver
      <3>3. client' = [client EXCEPT ![u] = [cursor |-> p, polling |-> stop,
                                             stored |-> client[u].stored \union poll[p].ids]]
        BY <2>3 DEF PollStored
      <3> HIDE DEF u, stop
      <3>4. [cursor |-> p, polling |-> stop, stored |-> client[u].stored \union poll[p].ids] \in Receiver
        BY <3>1, <3>2 DEF Receiver
      <3> QED
        BY <1>6, <3>1, <3>3, <3>4
    <2>4. ASSUME NEW S \in SUBSET poll[p].ids, PollStoreFails(p, S)
          PROVE  client' \in [Uins -> Receiver]
      <3> DEFINE u == poll[p].uin
                 stop == StopPolling(p, u)
                 d == [client[u] EXCEPT !.polling = stop]
                 T == client[u].stored \union S
      <3>1. u \in Uins /\ S \in SUBSET Messages
        BY <1>2, <2>4 DEF PollStoreFails
      <3>2. stop \in Polls \union {None} /\ T \in SUBSET Messages
        BY <3>1, TypeFacts DEF StopPolling, Receiver
      <3>3. client' = [client EXCEPT ![u] = [d EXCEPT !.stored = T]]
        BY <2>4, <3>1, TypeFacts DEF PollStoreFails
      <3> HIDE DEF u, stop, T
      <3>4. d \in Receiver
        BY <3>1, <3>2, TypeFacts, ReceiverTyped
      <3> HIDE DEF d
      <3>5. [d EXCEPT !.stored = T] \in Receiver
        BY <3>2, <3>4, ReceiverTyped
      <3> QED
        BY <1>6, <3>1, <3>3, <3>5
    <2>5. CASE UNCHANGED client
      BY <2>5, TypeFacts
    <2> QED
      BY <2>1, <2>2, <2>3, <2>4, <2>5 DEF Serve, PollAck, PollWait, PollRead, PollArrive
  <1>10. cursors' \in [Uins -> Seq(Cursor)] /\ \A u \in Uins : Len(cursors'[u]) <= MaxCursors
    <2>1. CASE UNCHANGED cursors
      BY <2>1 DEF TypeInv, TypeOK
    <2>2. CASE PollIssue(p)
      <3> DEFINE u == poll[p].uin
                 new == [token |-> p, after |-> poll[p].after, ids |-> poll[p].ids]
      <3>1. u \in Uins /\ new \in Cursor /\ cursors[u] \in Seq(Cursor)
        <4>1. u \in Uins /\ poll[p].after \in Nat /\ poll[p].ids \in SUBSET Messages
          BY <1>2, <2>2 DEF PollIssue
        <4> QED
          BY <4>1, TypeFacts DEF Cursor
      <3>2. \/ cursors' = cursors
            \/ cursors' = [cursors EXCEPT ![u] = Bounded(Append(cursors[u], new))]
            \/ \E i \in DOMAIN cursors[u] :
                  cursors' = [cursors EXCEPT ![u] = Bounded(Append(RemoveAt(cursors[u], i), new))]
        BY <2>2 DEF PollIssue
      <3> HIDE DEF u, new
      <3>3. ASSUME NEW rest \in Seq(Cursor),
                   cursors' = [cursors EXCEPT ![u] = Bounded(Append(rest, new))]
            PROVE  cursors' \in [Uins -> Seq(Cursor)] /\ \A w \in Uins : Len(cursors'[w]) <= MaxCursors
        <4>1. Append(rest, new) \in Seq(Cursor)
          BY <3>1, AppendRange
        <4>2. Bounded(Append(rest, new)) \in Seq(Cursor) /\ Len(Bounded(Append(rest, new))) <= MaxCursors
          BY <4>1, BoundedRange
        <4>3. \A w \in Uins : w # u => cursors'[w] = cursors[w] /\ Len(cursors[w]) <= MaxCursors
          BY <3>1, <3>3, TypeFacts DEF TypeInv, TypeOK
        <4>4. cursors'[u] = Bounded(Append(rest, new)) /\ cursors' \in [Uins -> Seq(Cursor)]
          BY <3>1, <3>3, <4>2, TypeFacts
        <4> QED
          BY <4>2, <4>3, <4>4
      <3>4. ASSUME NEW i \in DOMAIN cursors[u]
            PROVE  RemoveAt(cursors[u], i) \in Seq(Cursor)
        BY <3>1, RemoveRange
      <3> QED
        BY <2>1, <3>1, <3>2, <3>3, <3>4
    <2> QED
      BY <2>1, <2>2 DEF Serve, PollStart, PollLoad, PollAck, PollWait, PollRead, PollArrive,
         PollStored, PollStoreFails
  <1>11. /\ index' \in [Uins -> SUBSET Ref] /\ sequence' \in [Uins -> Nat]
         /\ seen' \in [Uins -> SUBSET Messages]
    <2>1. CASE UNCHANGED queueVars
      BY <2>1, TypeFacts DEF queueVars
    <2>2. CASE PollAck(p) \/ PollWait(p) \/ PollRead(p)
      <3>1. poll[p].uin \in Uins
        BY <1>2, <2>2 DEF PollAck, PollWait, PollRead
      <3>2. \/ UNCHANGED queueVars \/ AckScript(poll[p].uin, poll[p].ids)
            \/ ReadScript(poll[p].uin, poll[p].after)
        BY <2>2 DEF PollAck, PollWait, PollRead
      <3> QED
        BY <2>1, <3>1, <3>2, ScriptsTyped, TypeFacts
    <2> QED
      BY <2>1, <2>2 DEF Serve, PollStart, PollLoad, PollIssue, PollArrive, PollStored, PollStoreFails
  <1> QED
    BY <1>1, <1>8, <1>9, <1>10, <1>11 DEF TypeInv, TypeOK, Request, Receiver

\* Every step keeps the types.
LEMMA TypeStep ==
    ASSUME TypeInv, GatewayInv, RequestInv, ScoresDistinct, [Next]_vars
    PROVE  TypeInv'
  <1>1. ASSUME NEW g \in Gateways, Consume(g)
        PROVE  TypeInv'
    BY <1>1, GatewayTypeStep
  <1>2. ASSUME NEW p \in Polls, Serve(p)
        PROVE  TypeInv'
    BY <1>2, ServeTypeStep
  <1>3. ASSUME NEW m \in Messages \union Typing, Publish(m) \/ PublishTyping(m)
        PROVE  TypeInv'
    BY <1>3 DEF TypeInv, TypeOK, Publish, PublishTyping, queueVars
  <1>4. ASSUME NEW m \in Messages, Expire(m)
        PROVE  TypeInv'
    <2>1. /\ expired' \subseteq Expiring
          /\ index' \in [Uins -> SUBSET Ref] /\ sequence' \in [Uins -> Nat]
          /\ seen' \in [Uins -> SUBSET Messages]
      <3> DEFINE gone(u) == index[u] # {} /\ \A r \in index[u] : r.id \in expired \union {m}
      <3>1. /\ seen' = [u \in Uins |-> seen[u] \ {m}]
            /\ index' = [u \in Uins |-> IF gone(u) THEN {} ELSE index[u]]
            /\ sequence' = [u \in Uins |-> IF gone(u) THEN 0 ELSE sequence[u]]
            /\ expired' = expired \union {m} /\ m \in Expiring
        BY <1>4 DEF Expire
      <3> HIDE DEF gone
      <3> QED
        BY <3>1, TypeFacts
    <2> QED
      BY <1>4, <2>1 DEF Expire, TypeInv, TypeOK
  <1>5. ASSUME NEW u \in Uins, PollAbort(u)
        PROVE  TypeInv'
    <2>1. [client[u] EXCEPT !.polling = None] \in Receiver
      BY TypeFacts, ReceiverTyped
    <2>2. client' = [client EXCEPT ![u] = [client[u] EXCEPT !.polling = None]]
      BY <1>5, TypeFacts DEF PollAbort
    <2>3. client' \in [Uins -> Receiver]
      BY <2>1, <2>2, TypeFacts
    <2> QED
      BY <1>5, <2>3 DEF PollAbort, TypeInv, TypeOK, Receiver, queueVars
  <1>6. ASSUME NEW u \in Uins, CursorsExpire(u)
        PROVE  TypeInv'
    <2>1. /\ cursors' \in [Uins -> Seq(Cursor)] /\ cursors'[u] = <<>>
          /\ \A w \in Uins : w # u => cursors'[w] = cursors[w]
      BY <1>6, TypeFacts, EmptySeq DEF CursorsExpire
    <2>2. Len(<<>>) <= MaxCursors
      BY DeliveryAssumption, EmptySeq
    <2>3. \A w \in Uins : cursors'[w] \in Seq(Cursor) /\ Len(cursors'[w]) <= MaxCursors
      BY <2>1, <2>2 DEF TypeInv, TypeOK
    <2> QED
      BY <1>6, <2>1, <2>3 DEF CursorsExpire, TypeInv, TypeOK, queueVars
  <1>7. ASSUME NEW u \in Uins, NEW r \in index[u], LivePush(u, r)
        PROVE  TypeInv'
    <2> DEFINE T == client[u].stored \union {r.id}
    <2>1. T \in SUBSET Messages
      BY TypeFacts DEF Receiver
    <2>2. client' = [client EXCEPT ![u] = [client[u] EXCEPT !.stored = T]]
      BY <1>7, TypeFacts DEF LivePush
    <2> HIDE DEF T
    <2>3. [client[u] EXCEPT !.stored = T] \in Receiver
      BY <2>1, TypeFacts, ReceiverTyped
    <2>4. client' \in [Uins -> Receiver]
      BY <2>2, <2>3, TypeFacts
    <2>5. index' \in [Uins -> SUBSET Ref] /\ sequence' \in [Uins -> Nat] /\ seen' = seen
      BY <1>7, ScriptsTyped DEF LivePush
    <2> QED
      BY <1>7, <2>4, <2>5 DEF LivePush, TypeInv, TypeOK, Receiver
  <1>8. ASSUME NEW u \in Uins, NEW m \in Messages, TransportAck(u, m)
        PROVE  TypeInv'
    <2>1. index' \in [Uins -> SUBSET Ref] /\ sequence' \in [Uins -> Nat] /\ seen' = seen
      BY <1>8, ScriptsTyped DEF TransportAck
    <2> QED
      BY <1>8, <2>1 DEF TransportAck, TypeInv, TypeOK
  <1>9. CASE UNCHANGED vars
    BY <1>9 DEF vars, queueVars, TypeInv, TypeOK
  <1> QED
    BY <1>1, <1>2, <1>3, <1>4, <1>5, <1>6, <1>7, <1>8, <1>9 DEF Next
-----------------------------------------------------------------------------
(***************************************************************************)
(* The queue                                                               *)
(***************************************************************************)

\* Records leave an index, and no message becomes unseen.
Shrinks ==
    /\ seen' = seen /\ expired' = expired
    /\ \A u \in Uins : /\ index'[u] \subseteq index[u]
                       /\ sequence'[u] = sequence[u] \/ (index'[u] = {} /\ sequence'[u] = 0)

\* A step that touches the queue of u only to clear dead references.
ClearsDead ==
    /\ Shrinks
    /\ \A u \in Uins : \A r \in index[u] : r.id \in expired \/ r \in index'[u]

\* A script that removes the references outside refs.
LEMMA SetIndexShrinks ==
    ASSUME TypeInv, expired' = expired, NEW u \in Uins, NEW refs \in SUBSET index[u],
           SetIndex(u, refs)
    PROVE  /\ Shrinks
           /\ (\A r \in index[u] : r.id \in expired \/ r \in refs) => ClearsDead
  <1>1. /\ seen' = seen /\ index'[u] = refs
        /\ sequence'[u] = (IF refs = {} THEN 0 ELSE sequence[u])
        /\ \A w \in Uins \ {u} : index'[w] = index[w] /\ sequence'[w] = sequence[w]
    BY SetIndexTyped
  <1> QED
    BY <1>1 DEF Shrinks, ClearsDead

\* readAcceptedScript removes only dead references; ackAcceptedScript removes
\* these and the records it names.
LEMMA ScriptsShrink ==
    ASSUME TypeInv, expired' = expired, NEW u \in Uins
    PROVE  /\ \A n : ReadScript(u, n) => ClearsDead
           /\ \A ids : AckScript(u, ids) =>
                 /\ Shrinks
                 /\ \A w \in Uins : \A r \in index[w] :
                      \/ r.id \in expired \/ r \in index'[w]
                      \/ w = u /\ r.id \in ids
                 /\ \A r \in index'[u] : r.id \notin ids
  <1>1. ASSUME NEW n, ReadScript(u, n)
        PROVE  ClearsDead
    <2> DEFINE refs == {r \in index[u] : r.seq > n => r.id \notin expired}
    <2>1. refs \in SUBSET index[u] /\ SetIndex(u, refs)
      BY <1>1 DEF ReadScript
    <2> QED
      BY <1>1, <2>1, SetIndexShrinks
  <1>2. ASSUME NEW ids, AckScript(u, ids)
        PROVE  /\ Shrinks
               /\ \A w \in Uins : \A r \in index[w] :
                    \/ r.id \in expired \/ r \in index'[w]
                    \/ w = u /\ r.id \in ids
               /\ \A r \in index'[u] : r.id \notin ids
    <2> DEFINE refs == {r \in Live(u) : r.id \notin ids}
    <2>1. refs \in SUBSET index[u] /\ SetIndex(u, refs)
      BY <1>2 DEF AckScript, Live
    <2>2. index'[u] = refs /\ \A w \in Uins \ {u} : index'[w] = index[w]
      BY <2>1, SetIndexTyped
    <2> QED
      BY <2>1, <2>2, SetIndexShrinks DEF Live
  <1> QED
    BY <1>1, <1>2
\* How each step changes the queues: a new record, an expiry, a cleared or
\* acknowledged reference, or nothing.
LEMMA QueueSteps ==
    ASSUME TypeInv, GatewayInv, RequestInv, [Next]_vars
    PROVE  \/ \E g \in Gateways : AcceptNew(g)
           \/ \E m \in Messages : Expire(m)
           \/ \E p \in Polls : PollAck(p) /\ poll[p].uin \in Uins
                               /\ AckScript(poll[p].uin, poll[p].ids) /\ expired' = expired
           \/ \E u \in Uins, m \in Messages : TransportAck(u, m)
           \/ ClearsDead
  <1>1. UNCHANGED <<queueVars, expired>> => ClearsDead
    BY DEF ClearsDead, Shrinks, queueVars
  <1>2. ASSUME NEW g \in Gateways, Consume(g), ~ AcceptNew(g)
        PROVE  ClearsDead
    <2>1. CASE AcceptFull(g) \/ Replay(g)
      <3>1. gw[g].pc \in {"accept", "replay"} /\ expired' = expired
        BY <2>1 DEF AcceptFull, QueueFull, Replay
      <3>2. Recipient(g) \in Uins
        <4>1. gw[g].todo \in Seq(Uins) /\ gw[g].todo # <<>>
          BY <3>1, TypeFacts DEF GatewayInv, Handled, Delivery
        <4> QED
          BY <4>1, HeadAndTail DEF Recipient
      <3>3. CASE Replay(g)
        BY <3>1, <3>2, <3>3, ScriptsShrink DEF Replay
      <3>4. CASE AcceptFull(g)
        BY <3>2, <3>4, TypeFacts DEF AcceptFull, ClearsDead, Shrinks, Live
      <3> QED
        BY <2>1, <3>3, <3>4
    <2>2. CASE UNCHANGED <<queueVars, expired>>
      BY <1>1, <2>2
    <2> QED
      BY <1>2, <2>1, <2>2 DEF Consume, Handle, Fetch, AcceptSeen, AcceptExpired, AcceptRejected,
         Receipt, StreamAck, ReceiptLost, GatewayFail
  <1>3. ASSUME NEW p \in Polls, Serve(p)
        PROVE  \/ ClearsDead
               \/ PollAck(p) /\ poll[p].uin \in Uins /\ AckScript(poll[p].uin, poll[p].ids)
                  /\ expired' = expired
    <2>1. CASE PollAck(p)
      <3>1. poll[p].uin \in Uins /\ expired' = expired
        BY <2>1 DEF PollAck, RequestInv, Knows
      <3>2. AckScript(poll[p].uin, poll[p].ids) \/ UNCHANGED queueVars
        BY <2>1 DEF PollAck
      <3> QED
        BY <1>1, <2>1, <3>1, <3>2
    <2>2. CASE PollWait(p) \/ PollRead(p)
      <3>1. poll[p].uin \in Uins /\ expired' = expired
            /\ ReadScript(poll[p].uin, poll[p].after)
        BY <2>2 DEF PollWait, PollRead, RequestInv, Knows
      <3> QED
        BY <3>1, ScriptsShrink
    <2>3. ASSUME \/ \E u \in Uins : PollStart(p, u)
                 \/ PollLoad(p) \/ PollIssue(p) \/ PollArrive(p) \/ PollStored(p)
                 \/ \E S \in SUBSET poll[p].ids : PollStoreFails(p, S)
          PROVE  UNCHANGED <<queueVars, expired>>
      <3>1. CASE \E u \in Uins : PollStart(p, u)
        BY <3>1 DEF PollStart
      <3>2. CASE PollLoad(p)
        BY <3>2 DEF PollLoad
      <3>3. CASE PollIssue(p)
        BY <3>3 DEF PollIssue
      <3>4. CASE PollArrive(p) \/ PollStored(p)
        BY <3>4 DEF PollArrive, PollStored
      <3>5. CASE \E S \in SUBSET poll[p].ids : PollStoreFails(p, S)
        BY <3>5 DEF PollStoreFails
      <3> QED
        BY <2>3, <3>1, <3>2, <3>3, <3>4, <3>5
    <2> QED
      BY <1>1, <1>3, <2>1, <2>2, <2>3 DEF Serve
  <1>4. ASSUME NEW u \in Uins, NEW r \in index[u], LivePush(u, r)
        PROVE  ClearsDead
    BY <1>4, ScriptsShrink DEF LivePush
  <1>5. ASSUME \/ \E m \in Messages : Publish(m)
               \/ \E t \in Typing : PublishTyping(t)
               \/ \E u \in Uins : PollAbort(u) \/ CursorsExpire(u)
               \/ UNCHANGED vars
        PROVE  ClearsDead
    BY <1>1, <1>5 DEF Publish, PublishTyping, PollAbort, CursorsExpire, vars
  <1> QED
    BY <1>2, <1>3, <1>4, <1>5 DEF Next

\* The recipient whose queue AcceptNew writes, and the new record.
LEMMA AcceptNewFacts ==
    ASSUME TypeInv, GatewayInv, NEW g \in Gateways, AcceptNew(g)
    PROVE  LET m == gw[g].msg
               u == Recipient(g)
               ref == [id |-> m, seq |-> sequence[u] + 1]
           IN  /\ m \in Messages /\ u \in Uins /\ u \in Range(To[m])
               /\ m \notin expired /\ m \notin seen[u] /\ expired' = expired
               /\ index'[u] = Live(u) \union {ref} /\ sequence'[u] = sequence[u] + 1
               /\ seen'[u] = seen[u] \union {m}
               /\ \A w \in Uins : w # u => /\ index'[w] = index[w] /\ seen'[w] = seen[w]
                                           /\ sequence'[w] = sequence[w]
  <1> DEFINE m == gw[g].msg
             u == Recipient(g)
             ref == [id |-> m, seq |-> sequence[u] + 1]
  <1>1. m \in Messages /\ gw[g].todo \in Seq(Uins) /\ gw[g].todo # <<>>
        /\ Range(gw[g].todo) \subseteq Range(To[m])
    BY TypeFacts DEF AcceptNew, GatewayInv, Handled, Delivery
  <1>2. u \in Uins /\ u \in Range(To[m])
    BY <1>1, HeadAndTail DEF Recipient
  <1>3. /\ m \notin expired /\ m \notin seen[u] /\ expired' = expired
        /\ index' = [index EXCEPT ![u] = Live(u) \union {ref}]
        /\ sequence' = [sequence EXCEPT ![u] = sequence[u] + 1]
        /\ seen' = [seen EXCEPT ![u] = seen[u] \union {m}]
    BY DEF AcceptNew
  <1> HIDE DEF m, u, ref
  <1>4. /\ index'[u] = Live(u) \union {ref} /\ sequence'[u] = sequence[u] + 1
        /\ seen'[u] = seen[u] \union {m}
        /\ \A w \in Uins : w # u => /\ index'[w] = index[w] /\ seen'[w] = seen[w]
                                    /\ sequence'[w] = sequence[w]
    BY <1>2, <1>3, TypeFacts
  <1> QED
    BY <1>1, <1>2, <1>3, <1>4 DEF m, u, ref

\* What Expire leaves of a queue.
LEMMA ExpireFacts ==
    ASSUME TypeInv, NEW m \in Messages, Expire(m)
    PROVE  /\ expired' = expired \union {m} /\ m \notin expired
           /\ \A u \in Uins :
                /\ seen'[u] = seen[u] \ {m}
                /\ \/ index'[u] = index[u] /\ sequence'[u] = sequence[u]
                   \/ /\ index'[u] = {} /\ sequence'[u] = 0
                      /\ \A r \in index[u] : r.id \in expired'
  <1> DEFINE gone(u) == index[u] # {} /\ \A r \in index[u] : r.id \in expired \union {m}
  <1>1. /\ expired' = expired \union {m} /\ m \notin expired
        /\ seen' = [u \in Uins |-> seen[u] \ {m}]
        /\ index' = [u \in Uins |-> IF gone(u) THEN {} ELSE index[u]]
        /\ sequence' = [u \in Uins |-> IF gone(u) THEN 0 ELSE sequence[u]]
    BY DEF Expire
  <1>2. \A u \in Uins : gone(u) => \A r \in index[u] : r.id \in expired'
    BY <1>1
  <1> HIDE DEF gone
  <1> QED
    BY <1>1, <1>2

\* A message stays reached: its marker goes only when it expires.
LEMMA ReachedStays ==
    ASSUME TypeInv, GatewayInv, RequestInv, [Next]_vars
    PROVE  /\ \A u \in Uins, m \in Messages : Reached(u, m) => Reached(u, m)'
           /\ expired \subseteq expired'
  <1>1. ASSUME NEW g \in Gateways, AcceptNew(g)
        PROVE  /\ \A u \in Uins, m \in Messages : Reached(u, m) => Reached(u, m)'
               /\ expired \subseteq expired'
    BY <1>1, AcceptNewFacts DEF Reached
  <1>2. ASSUME NEW m \in Messages, Expire(m)
        PROVE  /\ \A u \in Uins, n \in Messages : Reached(u, n) => Reached(u, n)'
               /\ expired \subseteq expired'
    BY <1>2, ExpireFacts DEF Reached
  <1>3. Shrinks => /\ \A u \in Uins, m \in Messages : Reached(u, m) => Reached(u, m)'
                   /\ expired \subseteq expired'
    BY DEF Shrinks, Reached
  <1>4. ASSUME \/ \E p \in Polls : /\ PollAck(p) /\ poll[p].uin \in Uins
                                   /\ AckScript(poll[p].uin, poll[p].ids) /\ expired' = expired
               \/ \E u \in Uins, m \in Messages : TransportAck(u, m)
               \/ ClearsDead
        PROVE  Shrinks
    BY <1>4, ScriptsShrink DEF TransportAck, ClearsDead
  <1> QED
    BY <1>1, <1>2, <1>3, <1>4, QueueSteps

\* Scores are distinct and records are seen, in every queue.
LEMMA QueueStep ==
    ASSUME TypeInv, GatewayInv, RequestInv, QueueInv, ScoresDistinct, [Next]_vars
    PROVE  QueueInv' /\ ScoresDistinct'
  <1>1. ASSUME NEW g \in Gateways, AcceptNew(g)
        PROVE  QueueInv' /\ ScoresDistinct'
    <2> DEFINE m == gw[g].msg
               u == Recipient(g)
               ref == [id |-> m, seq |-> sequence[u] + 1]
    <2>1. /\ m \in Messages /\ u \in Uins /\ expired' = expired
          /\ index'[u] = Live(u) \union {ref} /\ sequence'[u] = sequence[u] + 1
          /\ seen'[u] = seen[u] \union {m}
          /\ \A w \in Uins : w # u => /\ index'[w] = index[w] /\ seen'[w] = seen[w]
                                      /\ sequence'[w] = sequence[w]
      BY <1>1, AcceptNewFacts
    <2>2. ref.id = m /\ ref.seq = sequence[u] + 1
      OBVIOUS
    <2> HIDE DEF m, u, ref
    <2>3. Live(u) \subseteq index[u] /\ sequence[u] \in Nat /\ \A r \in index[u] : r.seq \in Nat
      BY <2>1, TypeFacts DEF Live
    <2>4. QueueInv'
      BY <2>1, <2>2, <2>3 DEF QueueInv, Reached
    <2>5. \A r \in index'[u] : r = ref \/ (r \in index[u] /\ r.seq <= sequence[u])
      BY <2>1, <2>3 DEF ScoresDistinct
    <2>6. \A r \in index[u] : r.seq <= sequence[u] => r.seq <= sequence[u] + 1 /\ r.seq # sequence[u] + 1
      BY <2>3
    <2>7. \A r1, r2 \in index'[u] : r1.seq <= sequence'[u] /\ (r1.seq = r2.seq => r1 = r2)
      <3> SUFFICES ASSUME NEW r1 \in index'[u], NEW r2 \in index'[u]
                   PROVE  r1.seq <= sequence'[u] /\ (r1.seq = r2.seq => r1 = r2)
        OBVIOUS
      <3>1. r1.seq <= sequence[u] + 1
        BY <2>2, <2>3, <2>5, <2>6
      <3>2. r1.seq = r2.seq => r1 = r2
        BY <2>1, <2>2, <2>5, <2>6 DEF ScoresDistinct
      <3> QED
        BY <2>1, <3>1, <3>2
    <2> QED
      BY <2>1, <2>4, <2>7 DEF ScoresDistinct
  <1>2. ASSUME NEW m \in Messages, Expire(m)
        PROVE  QueueInv' /\ ScoresDistinct'
    BY <1>2, ExpireFacts DEF QueueInv, Reached, ScoresDistinct
  <1>3. ASSUME Shrinks
        PROVE  QueueInv' /\ ScoresDistinct'
    BY <1>3 DEF Shrinks, QueueInv, Reached, ScoresDistinct
  <1>4. ASSUME \/ \E p \in Polls : /\ PollAck(p) /\ poll[p].uin \in Uins
                                   /\ AckScript(poll[p].uin, poll[p].ids) /\ expired' = expired
               \/ \E u \in Uins, m \in Messages : TransportAck(u, m)
               \/ ClearsDead
        PROVE  Shrinks
    BY <1>4, ScriptsShrink DEF TransportAck, ClearsDead
  <1> QED
    BY <1>1, <1>2, <1>3, <1>4, QueueSteps
-----------------------------------------------------------------------------
(***************************************************************************)
(* The gateways                                                            *)
(***************************************************************************)

\* A recipient of a message is a recipient.
LEMMA Recipients ==
    ASSUME NEW m \in Messages
    PROVE  /\ To[m] \in Seq(Uins) /\ To[m] # <<>> /\ Range(To[m]) \subseteq Uins
           /\ \A q \in Seq(Uins) : Range(q) \subseteq Uins
  <1>1. \A q \in Seq(Uins) : Range(q) \subseteq Uins
    BY LenProperties DEF Range
  <1> QED
    BY <1>1, DeliveryAssumption

\* acceptDelivery leaves a recipient only with its queue written, and asks for
\* the receipt only after the last one.
LEMMA GatewayStep ==
    ASSUME TypeInv, GatewayInv, RequestInv, [Next]_vars
    PROVE  GatewayInv'
  <1>1. /\ \A u \in Uins, m \in Messages : Reached(u, m) =>
             m \in seen'[u] \/ m \in expired'
        /\ gw \in [Gateways -> Delivery]
    BY ReachedStays, TypeFacts DEF Reached
  <1>2. \A g \in Gateways : gw'[g] = gw[g] => Handled(g)'
    <2> SUFFICES ASSUME NEW g \in Gateways, gw'[g] = gw[g]
                 PROVE  Handled(g)'
      OBVIOUS
    <2> DEFINE m == gw[g].msg
               todo == gw[g].todo
    <2>1. todo \in Seq(Uins) /\ Handled(g)
      BY TypeFacts DEF Delivery, GatewayInv
    <2>2. ASSUME m \in Messages
          PROVE  \A u \in Range(To[m]) : u \in Uins /\ (Reached(u, m) => m \in seen'[u] \union expired')
      BY <1>1, <2>2, Recipients
    <2>3. ASSUME m \in Messages, todo # <<>>
          PROVE  Reached(Head(todo), m) => m \in seen'[Head(todo)] \union expired'
      BY <1>1, <2>1, <2>3, HeadAndTail
    <2> QED
      BY <2>1, <2>2, <2>3 DEF Handled, Reached
  <1>3. ASSUME NEW g \in Gateways, Consume(g)
        PROVE  GatewayInv'
    <2> DEFINE m == gw[g].msg
               todo == gw[g].todo
    <2>1. ASSUME Handled(g)', \A h \in Gateways : h # g => gw'[h] = gw[h]
          PROVE  GatewayInv'
      BY <1>2, <2>1 DEF GatewayInv
    <2>2. ASSUME NEW d \in Delivery, gw' = [gw EXCEPT ![g] = d]
          PROVE  gw'[g] = d /\ \A h \in Gateways : h # g => gw'[h] = gw[h]
      BY <1>1, <2>2
    <2>3. ASSUME Release(g)
          PROVE  GatewayInv'
      <3>1. gw'[g] = NoDelivery /\ \A h \in Gateways : h # g => gw'[h] = gw[h]
        BY <2>2, <2>3, DeliveryTyped DEF Release
      <3>2. NoDelivery.pc = "idle"
        BY DEF NoDelivery
      <3>3. Handled(g)'
        BY <3>1, <3>2 DEF Handled
      <3> QED
        BY <2>1, <3>1, <3>3
    <2>4. ASSUME NEW pc \in {"replay", "ack"}, GatewayGoto(g, pc)
          PROVE  /\ gw'[g].pc = pc /\ gw'[g].msg = m /\ gw'[g].todo = todo
                 /\ \A h \in Gateways : h # g => gw'[h] = gw[h]
      <3>1. [gw[g] EXCEPT !.pc = pc] \in Delivery /\ gw[g] \in Delivery
        BY <1>1, DeliveryTyped
      <3>2. gw' = [gw EXCEPT ![g] = [gw[g] EXCEPT !.pc = pc]]
        BY <1>1, <2>4 DEF GatewayGoto
      <3>3. gw'[g] = [gw[g] EXCEPT !.pc = pc] /\ \A h \in Gateways : h # g => gw'[h] = gw[h]
        BY <2>2, <3>1, <3>2
      <3> QED
        BY <3>1, <3>3 DEF Delivery
    <2>5. ASSUME gw[g].pc \in {"accept", "replay", "receipt"}
          PROVE  /\ m \in Messages /\ todo \in Seq(Uins) /\ Range(To[m]) \subseteq Uins
                 /\ \A u \in Uins : Reached(u, m) => m \in seen'[u] \union expired'
      BY <1>1, <2>5, Recipients DEF GatewayInv, Handled, Delivery
    <2>6. CASE AcceptNew(g) \/ AcceptSeen(g)
      <3>1. gw[g].pc = "accept" /\ GatewayGoto(g, "replay")
        BY <2>6 DEF AcceptNew, AcceptSeen
      <3>2. m \in seen'[Head(todo)]
        <4>1. CASE AcceptNew(g)
          BY <4>1, AcceptNewFacts DEF Recipient
        <4>2. CASE AcceptSeen(g)
          BY <4>2 DEF AcceptSeen, Recipient, queueVars
        <4> QED
          BY <2>6, <4>1, <4>2
      <3>3. Handled(g)
        BY DEF GatewayInv
      <3>4. /\ gw'[g].pc = "replay" /\ gw'[g].msg = m /\ gw'[g].todo = todo
            /\ \A h \in Gateways : h # g => gw'[h] = gw[h]
        BY <2>4, <3>1
      <3>5. Handled(g)'
        BY <2>5, <3>1, <3>2, <3>3, <3>4 DEF Handled, Reached
      <3> QED
        BY <2>1, <3>4, <3>5
    <2>7. CASE Receipt(g)
      <3>1. gw[g].pc = "receipt" /\ GatewayGoto(g, "ack")
        BY <2>7 DEF Receipt
      <3>2. Handled(g)
        BY DEF GatewayInv
      <3>3. /\ gw'[g].pc = "ack" /\ gw'[g].msg = m
            /\ \A h \in Gateways : h # g => gw'[h] = gw[h]
        BY <2>4, <3>1
      <3>4. Handled(g)'
        BY <2>5, <3>1, <3>2, <3>3 DEF Handled, Reached
      <3> QED
        BY <2>1, <3>3, <3>4
    <2>8. CASE Replay(g)
      <3> DEFINE t == Tail(todo)
                 pc == IF t = <<>> THEN "receipt" ELSE "accept"
      <3>1. gw[g].pc = "replay" /\ gw' = [gw EXCEPT ![g] = [[gw[g] EXCEPT !.todo = t] EXCEPT !.pc = pc]]
        BY <2>8 DEF Replay
      <3>2. /\ todo \in Seq(Uins) /\ todo # <<>> /\ m \in Messages
            /\ Range(todo) \subseteq Range(To[m])
            /\ \A u \in Range(To[m]) : u \in Range(todo) \/ Reached(u, m)
            /\ Reached(Head(todo), m)
        BY <2>5, <3>1 DEF GatewayInv, Handled
      <3>3. /\ t \in Seq(Uins) /\ Range(t) \subseteq Range(todo)
            /\ \A u \in Range(todo) : u = Head(todo) \/ u \in Range(t)
        BY <3>2, HeadAndTail
      <3>4. pc \in {"receipt", "accept"} /\ (pc = "receipt" => t = <<>>) /\ (pc = "accept" => t # <<>>)
        OBVIOUS
      <3>5. Range(<<>>) = {}
        BY DEF Range
      <3>6. \A u \in Range(To[m]) : u \in Range(t) \/ (m \in seen'[u] \union expired')
        BY <2>5, <3>1, <3>2, <3>3
      <3> HIDE DEF t, pc, todo, m
      <3>7. [[gw[g] EXCEPT !.todo = t] EXCEPT !.pc = pc] \in Delivery /\ gw[g] \in Delivery
            /\ [gw[g] EXCEPT !.todo = t] \in Delivery
        BY <1>1, <3>3, <3>4, DeliveryTyped
      <3>8. /\ gw'[g] = [[gw[g] EXCEPT !.todo = t] EXCEPT !.pc = pc]
            /\ \A h \in Gateways : h # g => gw'[h] = gw[h]
        BY <2>2, <3>1, <3>7
      <3>9. gw'[g].pc = pc /\ gw'[g].todo = t /\ gw'[g].msg = m
        BY <3>7, <3>8 DEF Delivery, m
      <3>10. Handled(g)'
        BY <3>2, <3>3, <3>4, <3>5, <3>6, <3>9 DEF Handled, Reached
      <3> QED
        BY <2>1, <3>8, <3>10
    <2>9. ASSUME NEW x \in Messages \union Typing, Fetch(g, x)
          PROVE  GatewayInv'
      <3>1. CASE x \in Typing
        <4> DEFINE d == [pc |-> "reject", msg |-> x, todo |-> <<>>]
        <4>1. d \in Delivery /\ d.pc = "reject"
          BY <3>1, EmptySeq DEF Delivery
        <4>2. gw' = [gw EXCEPT ![g] = d]
          BY <2>9, <3>1 DEF Fetch
        <4> HIDE DEF d
        <4>3. gw'[g].pc = "reject" /\ \A h \in Gateways : h # g => gw'[h] = gw[h]
          BY <2>2, <4>1, <4>2
        <4>4. Handled(g)'
          BY <4>3 DEF Handled
        <4> QED
          BY <2>1, <4>3, <4>4
      <3>2. CASE x \notin Typing
        <4> DEFINE d == [pc |-> "accept", msg |-> x, todo |-> To[x]]
        <4>1. d \in Delivery /\ gw' = [gw EXCEPT ![g] = d] /\ x \in Messages /\ To[x] # <<>>
          BY <2>9, <3>2, DeliveryAssumption DEF Fetch, Delivery
        <4>2. gw'[g] = d /\ \A h \in Gateways : h # g => gw'[h] = gw[h]
          BY <2>2, <4>1
        <4>3. gw'[g].pc = "accept" /\ gw'[g].msg = x /\ gw'[g].todo = To[x]
          BY <4>2
        <4> HIDE DEF d
        <4>4. Handled(g)'
          BY <4>1, <4>3 DEF Handled
        <4> QED
          BY <2>1, <4>2, <4>4
      <3> QED
        BY <3>1, <3>2
    <2> QED
      BY <1>3, <2>3, <2>6, <2>7, <2>8, <2>9 DEF Consume, Handle, AcceptFull, AcceptExpired,
         AcceptRejected, StreamAck, ReceiptLost, GatewayFail
  <1>4. ASSUME UNCHANGED gw
        PROVE  GatewayInv'
    BY <1>2, <1>4 DEF GatewayInv
  <1>5. ASSUME NEW p \in Polls, Serve(p)
        PROVE  UNCHANGED gw
    <2>1. CASE \E u \in Uins : PollStart(p, u)
      BY <2>1 DEF PollStart
    <2>2. CASE PollLoad(p) \/ PollAck(p) \/ PollWait(p)
      BY <2>2 DEF PollLoad, PollAck, PollWait
    <2>3. CASE PollRead(p)
      BY <2>3 DEF PollRead
    <2>4. CASE PollIssue(p)
      BY <2>4 DEF PollIssue
    <2>5. CASE PollArrive(p) \/ PollStored(p)
      BY <2>5 DEF PollArrive, PollStored
    <2>6. CASE \E S \in SUBSET poll[p].ids : PollStoreFails(p, S)
      BY <2>6 DEF PollStoreFails
    <2> QED
      BY <1>5, <2>1, <2>2, <2>3, <2>4, <2>5, <2>6 DEF Serve
  <1>6. ASSUME \/ \E m \in Messages : Publish(m) \/ Expire(m)
               \/ \E t \in Typing : PublishTyping(t)
               \/ \E u \in Uins : \/ PollAbort(u) \/ CursorsExpire(u)
                                  \/ \E r \in index[u] : LivePush(u, r)
                                  \/ \E m \in Messages : TransportAck(u, m)
               \/ UNCHANGED vars
        PROVE  UNCHANGED gw
    BY <1>6 DEF Publish, Expire, PublishTyping, PollAbort, CursorsExpire, LivePush, TransportAck, vars
  <1> QED
    BY <1>3, <1>4, <1>5, <1>6 DEF Next-----------------------------------------------------------------------------
(***************************************************************************)
(* Poll requests and cursors                                               *)
(***************************************************************************)

\* A step that issues no cursor and puts none in a client's hands: a request it
\* moves keeps the page it sent until the page is stored.
LEMMA PollsStep ==
    ASSUME TypeInv, RequestInv, CursorInv,
           \A u \in Uins, m \in Messages : Reached(u, m) => Reached(u, m)',
           \A u \in Uins : /\ client[u].stored \subseteq client'[u].stored
                           /\ Range(cursors'[u]) \subseteq Range(cursors[u]),
           \A u \in Uins, t \in Polls : Held(u, t)' => Held(u, t),
           \A p \in Polls :
              \/ poll'[p] = poll[p]
              \/ /\ Knows(p)' /\ poll[p].pc # "done"
                 /\ poll[p].pc \in {"sent", "store"} =>
                      \/ poll'[p].pc = "done"
                      \/ /\ poll'[p].pc \in {"sent", "store"}
                         /\ poll'[p].uin = poll[p].uin /\ poll'[p].ids = poll[p].ids
    PROVE  RequestInv' /\ CursorInv'
  <1>1. ASSUME NEW p \in Polls
        PROVE  Knows(p)'
    <2>1. CASE poll'[p] = poll[p]
      <3>1. Knows(p) /\ poll[p].ids \in SUBSET Messages
        BY TypeFacts DEF RequestInv, Request
      <3> QED
        BY <2>1, <3>1 DEF Knows
    <2> QED
      BY <2>1
  <1>2. ASSUME NEW u \in Uins, NEW c \in Range(cursors'[u])
        PROVE  /\ poll'[c.token].pc \in {"sent", "store", "done"}
               /\ poll'[c.token].pc \in {"sent", "store"} =>
                     u = poll'[c.token].uin /\ c.ids = poll'[c.token].ids
               /\ Held(u, c.token)' => c.ids \subseteq client'[u].stored
    <2>1. c \in Range(cursors[u]) /\ c.token \in Polls
      BY <1>2, TypeFacts DEF Cursor
    <2>2. /\ poll[c.token].pc \in {"sent", "store", "done"}
          /\ poll[c.token].pc \in {"sent", "store"} =>
                u = poll[c.token].uin /\ c.ids = poll[c.token].ids
          /\ Held(u, c.token) => c.ids \subseteq client[u].stored
      BY <2>1 DEF CursorInv
    <2>3. Held(u, c.token)' => c.ids \subseteq client'[u].stored
      BY <2>1, <2>2
    <2> QED
      BY <2>1, <2>2, <2>3
  <1>3. ASSUME NEW u \in Uins, NEW t \in Polls, Held(u, t)'
        PROVE  poll'[t].pc = "done"
    BY <1>3 DEF CursorInv
  <1> QED
    BY <1>1, <1>2, <1>3 DEF RequestInv, CursorInv

\* What a poll handler's step does to its request, and to nobody else's.
LEMMA ServeFacts ==
    ASSUME TypeInv, NEW p \in Polls
    PROVE  /\ \A u \in Uins : PollStart(p, u) =>
                /\ poll[p].pc = "new" /\ poll'[p].uin = u
                /\ poll'[p].cursor = client[u].cursor
                /\ poll'[p].pc = IF client[u].cursor = None THEN "read" ELSE "load"
           /\ PollAck(p) => /\ poll[p].pc = "ack" /\ poll'[p].pc = "read"
                            /\ poll'[p].uin = poll[p].uin /\ poll'[p].cursor = poll[p].cursor
           /\ PollRead(p) => /\ poll[p].pc = "read" /\ poll'[p].pc = "issue"
                             /\ poll'[p].uin = poll[p].uin /\ poll'[p].cursor = poll[p].cursor
                             /\ poll'[p].ids = {r.id : r \in Page(poll[p].uin, poll[p].after)}
           /\ PollArrive(p) => /\ poll[p].pc = "sent" /\ poll'[p].pc = "store"
                               /\ poll'[p].uin = poll[p].uin /\ poll'[p].cursor = poll[p].cursor
                               /\ poll'[p].ids = poll[p].ids
           /\ Serve(p) => \A q \in Polls : q # p => poll'[q] = poll[q]
  <1>1. poll \in [Polls -> Request] /\ poll[p] \in Request
    BY TypeFacts
  <1>2. ASSUME NEW u \in Uins, PollStart(p, u)
        PROVE  /\ poll[p].pc = "new" /\ poll'[p].uin = u
               /\ poll'[p].cursor = client[u].cursor
               /\ poll'[p].pc = IF client[u].cursor = None THEN "read" ELSE "load"
               /\ \A q \in Polls : q # p => poll'[q] = poll[q]
    BY <1>1, <1>2 DEF PollStart, Request
  <1>3. PollAck(p) => /\ poll[p].pc = "ack" /\ poll'[p].pc = "read"
                      /\ poll'[p].uin = poll[p].uin /\ poll'[p].cursor = poll[p].cursor
                      /\ \A q \in Polls : q # p => poll'[q] = poll[q]
    BY <1>1 DEF PollAck, Request
  <1>4. PollRead(p) => /\ poll[p].pc = "read" /\ poll'[p].pc = "issue"
                       /\ poll'[p].uin = poll[p].uin /\ poll'[p].cursor = poll[p].cursor
                       /\ poll'[p].ids = {r.id : r \in Page(poll[p].uin, poll[p].after)}
                       /\ \A q \in Polls : q # p => poll'[q] = poll[q]
    BY <1>1 DEF PollRead, Request
  <1>5. PollArrive(p) => /\ poll[p].pc = "sent" /\ poll'[p].pc = "store"
                         /\ poll'[p].uin = poll[p].uin /\ poll'[p].cursor = poll[p].cursor
                         /\ poll'[p].ids = poll[p].ids
                         /\ \A q \in Polls : q # p => poll'[q] = poll[q]
    BY <1>1 DEF PollArrive, Request
  <1>6. ASSUME NEW d, poll' = [poll EXCEPT ![p] = d]
        PROVE  \A q \in Polls : q # p => poll'[q] = poll[q]
    BY <1>1, <1>6
  <1>7. PollLoad(p) => \A q \in Polls : q # p => poll'[q] = poll[q]
    BY <1>1 DEF PollLoad, Reject
  <1>8. PollIssue(p) => \A q \in Polls : q # p => poll'[q] = poll[q]
    BY <1>1 DEF PollIssue, Reject
  <1>9. PollStored(p) \/ (\E S \in SUBSET poll[p].ids : PollStoreFails(p, S)) =>
          \A q \in Polls : q # p => poll'[q] = poll[q]
    BY <1>6 DEF PollStored, PollStoreFails
  <1>10. PollWait(p) => \A q \in Polls : q # p => poll'[q] = poll[q]
    BY DEF PollWait
  <1>11. Serve(p) => \A q \in Polls : q # p => poll'[q] = poll[q]
    BY <1>2, <1>3, <1>4, <1>5, <1>7, <1>8, <1>9, <1>10 DEF Serve
  <1> QED
    BY <1>2, <1>3, <1>4, <1>5, <1>11
\* The client of a rejected request, and the request itself.
LEMMA RejectFacts ==
    ASSUME TypeInv, NEW p \in Polls, poll[p].uin \in Uins, Reject(p)
    PROVE  /\ poll'[p].pc = "done" /\ poll'[p].uin = None /\ poll'[p].cursor = None
           /\ \A u \in Uins : /\ client'[u].stored = client[u].stored
                              /\ client'[u].cursor \in {client[u].cursor, None}
  <1>1. poll' = [poll EXCEPT ![p] = NoPoll("done")] /\ poll \in [Polls -> Request]
    BY TypeFacts DEF Reject
  <1>2. poll'[p].pc = "done" /\ poll'[p].uin = None /\ poll'[p].cursor = None
    BY <1>1 DEF NoPoll
  <1>3. client \in [Uins -> Receiver] /\ client[poll[p].uin] \in Receiver
    BY TypeFacts
  <1>4. \A u \in Uins : /\ client'[u].stored = client[u].stored
                        /\ client'[u].cursor \in {client[u].cursor, None}
    BY <1>3 DEF Reject, Receiver
  <1> QED
    BY <1>2, <1>4

\* The steps of a poll, except the two that issue a cursor and hand it over.
LEMMA ServePollStep ==
    ASSUME TypeInv, QueueInv, RequestInv, CursorInv,
           \A u \in Uins, m \in Messages : Reached(u, m) => Reached(u, m)',
           NEW p \in Polls, Serve(p), ~ PollStored(p), UNCHANGED cursors
    PROVE  RequestInv' /\ CursorInv'
  <1>1. \A q \in Polls : q # p => poll'[q] = poll[q]
    BY ServeFacts
  <1>2. \A u \in Uins : Range(cursors'[u]) \subseteq Range(cursors[u])
    OBVIOUS
  <1>3. Knows(p) /\ poll[p] \in Request /\ None \notin Polls
    BY TypeFacts, DeliveryAssumption DEF RequestInv
  <1>4. ASSUME \A u \in Uins : /\ client[u].stored \subseteq client'[u].stored
                               /\ client'[u].cursor \in {client[u].cursor, None},
               \/ poll'[p].cursor = None
               \/ poll'[p].uin = poll[p].uin /\ poll'[p].cursor = poll[p].cursor
               \/ poll'[p].cursor = client[poll'[p].uin].cursor,
               poll[p].pc # "done", Knows(p)',
               poll[p].pc \in {"sent", "store"} =>
                  \/ poll'[p].pc = "done"
                  \/ /\ poll'[p].pc \in {"sent", "store"}
                     /\ poll'[p].uin = poll[p].uin /\ poll'[p].ids = poll[p].ids
        PROVE  RequestInv' /\ CursorInv'
    <2>1. \A u \in Uins, t \in Polls : Held(u, t)' => Held(u, t)
      BY <1>1, <1>3, <1>4 DEF Held
    <2>2. \A u \in Uins : /\ client[u].stored \subseteq client'[u].stored
                          /\ Range(cursors'[u]) \subseteq Range(cursors[u])
      BY <1>2, <1>4
    <2>3. \A q \in Polls :
              \/ poll'[q] = poll[q]
              \/ /\ Knows(q)' /\ poll[q].pc # "done"
                 /\ poll[q].pc \in {"sent", "store"} =>
                      \/ poll'[q].pc = "done"
                      \/ /\ poll'[q].pc \in {"sent", "store"}
                         /\ poll'[q].uin = poll[q].uin /\ poll'[q].ids = poll[q].ids
      BY <1>1, <1>4
    <2> QED
      BY <2>1, <2>2, <2>3, PollsStep
  <1>5. ASSUME Reject(p), poll[p].pc \in {"load", "issue"}
        PROVE  RequestInv' /\ CursorInv'
    <2>1. poll[p].uin \in Uins
      BY <1>3, <1>5 DEF Knows
    <2>2. /\ poll'[p].pc = "done" /\ poll'[p].uin = None /\ poll'[p].cursor = None
          /\ \A u \in Uins : /\ client'[u].stored = client[u].stored
                             /\ client'[u].cursor \in {client[u].cursor, None}
      BY <1>5, <2>1, RejectFacts
    <2>3. Knows(p)'
      BY <2>2 DEF Knows
    <2> QED
      BY <1>4, <1>5, <2>2, <2>3
  <1>6. ASSUME NEW u \in Uins, PollStart(p, u)
        PROVE  RequestInv' /\ CursorInv'
    <2>1. /\ poll[p].pc = "new" /\ poll'[p].uin = u
          /\ poll'[p].cursor = client[u].cursor
          /\ poll'[p].pc = IF client[u].cursor = None THEN "read" ELSE "load"
      BY <1>6, ServeFacts
    <2>2. \A w \in Uins : client'[w].stored = client[w].stored /\ client'[w].cursor = client[w].cursor
      <3>1. client \in [Uins -> Receiver] /\ client[u] \in Receiver
        BY TypeFacts
      <3> QED
        BY <1>6, <3>1 DEF PollStart, Receiver
    <2>3. Knows(p)'
      BY <2>1 DEF Knows
    <2> QED
      BY <1>4, <2>1, <2>2, <2>3
  <1>7. CASE PollLoad(p)
    <2>1. poll[p].pc = "load" /\ poll[p].uin \in Uins /\ poll[p].cursor # None
      BY <1>3, <1>7 DEF PollLoad, Knows
    <2>2. CASE Reject(p)
      BY <1>5, <2>1, <2>2
    <2>3. CASE ~ Reject(p)
      <3>1. client' = client /\ \E c \in Issued(poll[p].uin, poll[p].cursor) :
                 poll' = [poll EXCEPT ![p] = [@ EXCEPT !.pc = "ack", !.after = c.after,
                                                       !.ids = c.ids]]
        BY <1>7, <2>3 DEF PollLoad
      <3>2. PICK c \in Issued(poll[p].uin, poll[p].cursor) :
                 poll' = [poll EXCEPT ![p] = [@ EXCEPT !.pc = "ack", !.after = c.after,
                                                       !.ids = c.ids]]
        BY <3>1
      <3>3. /\ poll'[p].pc = "ack" /\ poll'[p].ids = c.ids
            /\ poll'[p].uin = poll[p].uin /\ poll'[p].cursor = poll[p].cursor
        BY <1>3, <3>2, TypeFacts DEF Request
      <3>4. c \in Range(cursors[poll[p].uin]) /\ c.token = poll[p].cursor
        BY DEF Issued
      <3>5. Held(poll[p].uin, c.token)
        BY <3>4 DEF Held
      <3>6. c.ids \subseteq client[poll[p].uin].stored
        BY <2>1, <3>4, <3>5 DEF CursorInv
      <3>7. Knows(p)'
        BY <2>1, <3>1, <3>3, <3>6 DEF Knows
      <3> QED
        BY <1>4, <2>1, <3>1, <3>3, <3>7
    <2> QED
      BY <2>2, <2>3
  <1>8. CASE PollAck(p)
    <2>1. /\ poll[p].pc = "ack" /\ poll'[p].pc = "read" /\ client' = client
          /\ poll'[p].uin = poll[p].uin /\ poll'[p].cursor = poll[p].cursor
      BY <1>8, ServeFacts DEF PollAck
    <2>2. Knows(p)'
      BY <1>3, <2>1 DEF Knows
    <2> QED
      BY <1>4, <2>1, <2>2
  <1>9. CASE PollRead(p)
    <2> DEFINE page == Page(poll[p].uin, poll[p].after)
    <2>1. /\ poll[p].pc = "read" /\ poll'[p].pc = "issue" /\ client' = client
          /\ poll'[p].uin = poll[p].uin /\ poll'[p].cursor = poll[p].cursor
          /\ poll'[p].ids = {r.id : r \in page}
      BY <1>9, ServeFacts DEF PollRead
    <2>2. PICK u \in Uins : u = poll[p].uin
      BY <1>3, <2>1 DEF Knows
    <2>3. \A r \in page : r \in index[u]
      BY <2>2 DEF Page, Live
    <2>4. \A r \in page : r.id \in Messages /\ Reached(u, r.id)
      BY <2>3, TypeFacts DEF QueueInv
    <2>5. \A r \in page : Reached(u, r.id)'
      BY <2>4
    <2> HIDE DEF page
    <2>6. \A m \in poll'[p].ids : Reached(u, m)'
      BY <2>1, <2>5 DEF Reached
    <2>7. Knows(p)'
      BY <2>1, <2>2, <2>6 DEF Knows
    <2> QED
      BY <1>4, <2>1, <2>7
  <1>10. CASE PollArrive(p)
    <2>1. /\ poll[p].pc = "sent" /\ poll'[p].pc = "store" /\ client' = client
          /\ poll'[p].uin = poll[p].uin /\ poll'[p].cursor = poll[p].cursor
          /\ poll'[p].ids = poll[p].ids
      BY <1>10, ServeFacts DEF PollArrive
    <2>2. PICK u \in Uins : u = poll[p].uin /\ \A m \in poll[p].ids : Reached(u, m)
      BY <1>3, <2>1 DEF Knows
    <2>3. \A m \in poll[p].ids : Reached(u, m)'
      BY <1>3, <2>2 DEF Request
    <2>4. Knows(p)'
      BY <2>1, <2>2, <2>3 DEF Knows
    <2> QED
      BY <1>4, <2>1, <2>4
  <1>11. ASSUME NEW S \in SUBSET poll[p].ids, PollStoreFails(p, S)
         PROVE  RequestInv' /\ CursorInv'
    <2>1. poll[p].pc = "store" /\ poll' = [poll EXCEPT ![p] = NoPoll("done")]
      BY <1>11 DEF PollStoreFails
    <2>2. poll'[p].pc = "done" /\ poll'[p].uin = None /\ poll'[p].cursor = None
      BY <2>1, TypeFacts DEF NoPoll
    <2>3. Knows(p)'
      BY <2>2 DEF Knows
    <2>4. \A w \in Uins : /\ client[w].stored \subseteq client'[w].stored
                          /\ client'[w].cursor = client[w].cursor
      <3>1. client \in [Uins -> Receiver] /\ client[poll[p].uin] \in Receiver
        BY <1>3, <2>1, TypeFacts DEF Knows
      <3> QED
        BY <1>11, <3>1 DEF PollStoreFails, Receiver
    <2> QED
      BY <1>4, <2>1, <2>2, <2>3, <2>4
  <1>12. CASE PollIssue(p)
    <2>1. poll[p].pc = "issue" /\ Knows(p)
      BY <1>3, <1>12 DEF PollIssue
    <2>2. CASE Reject(p)
      BY <1>5, <2>1, <2>2
    <2>3. CASE ~ Reject(p)
      <3>1. client' = client /\ poll' = [poll EXCEPT ![p].pc = "sent"]
        BY <1>12, <2>3 DEF PollIssue
      <3>2. /\ poll'[p].pc = "sent" /\ poll'[p].uin = poll[p].uin
            /\ poll'[p].cursor = poll[p].cursor /\ poll'[p].ids = poll[p].ids
        BY <1>3, <3>1, TypeFacts DEF Request
      <3>3. PICK u \in Uins : u = poll[p].uin /\ \A m \in poll[p].ids : Reached(u, m)
        BY <2>1 DEF Knows
      <3>4. \A m \in poll[p].ids : Reached(u, m)'
        BY <1>3, <3>3 DEF Request
      <3>5. Knows(p)'
        BY <3>2, <3>3, <3>4 DEF Knows
      <3> QED
        BY <1>4, <2>1, <3>1, <3>2, <3>5
    <2> QED
      BY <2>2, <2>3
  <1>13. CASE PollWait(p)
    <2>1. poll' = poll /\ client' = client
      BY <1>13 DEF PollWait
    <2>2. \A u \in Uins, t \in Polls : Held(u, t)' => Held(u, t)
      BY <2>1 DEF Held
    <2>3. \A u \in Uins : /\ client[u].stored \subseteq client'[u].stored
                          /\ Range(cursors'[u]) \subseteq Range(cursors[u])
      BY <1>2, <2>1
    <2> QED
      BY <2>1, <2>2, <2>3, PollsStep
  <1> QED
    BY <1>6, <1>7, <1>8, <1>9, <1>10, <1>11, <1>12, <1>13 DEF Serve
\* issueCursor and advanceCursor: the new cursor is the page that is sent, and
\* nobody holds its token yet.
LEMMA IssueStep ==
    ASSUME TypeInv, QueueInv, RequestInv, CursorInv,
           \A u \in Uins, m \in Messages : Reached(u, m) => Reached(u, m)',
           NEW p \in Polls, PollIssue(p), ~ UNCHANGED cursors
    PROVE  RequestInv' /\ CursorInv'
  <1> DEFINE u == poll[p].uin
             new == [token |-> p, after |-> poll[p].after, ids |-> poll[p].ids]
  <1>1. poll[p].pc = "issue" /\ poll[p] \in Request /\ Knows(p) /\ poll \in [Polls -> Request]
    BY TypeFacts DEF PollIssue, RequestInv
  <1>2. u \in Uins /\ \A m \in poll[p].ids : m \in Messages /\ Reached(u, m)
    BY <1>1 DEF Knows, Request
  <1>3. /\ client' = client /\ poll' = [poll EXCEPT ![p].pc = "sent"]
        /\ \/ cursors' = [cursors EXCEPT ![u] = Bounded(Append(cursors[u], new))]
           \/ \E i \in DOMAIN cursors[u] :
                 cursors' = [cursors EXCEPT ![u] = Bounded(Append(RemoveAt(cursors[u], i), new))]
    BY DEF PollIssue
  <1>4. /\ new.token = p /\ new.ids = poll[p].ids /\ new \in Cursor
        /\ cursors[u] \in Seq(Cursor) /\ cursors \in [Uins -> Seq(Cursor)]
    <2>1. new \in Cursor
      BY <1>1 DEF Cursor, Request
    <2> QED
      BY <1>2, <2>1, TypeFacts
  <1>5. /\ \A q \in Polls : q # p => poll'[q] = poll[q]
        /\ poll'[p].pc = "sent" /\ poll'[p].uin = poll[p].uin
        /\ poll'[p].cursor = poll[p].cursor /\ poll'[p].ids = poll[p].ids
    BY <1>1, <1>3 DEF Request
  <1>6. \A w \in Uins : \A c \in Range(cursors[w]) : c.token # p
    BY <1>1 DEF CursorInv
  <1>7. PICK v \in Uins : v = u
    BY <1>2
  <1>8. /\ Range(cursors'[v]) \subseteq Range(cursors[v]) \union {new}
        /\ \A w \in Uins : w # v => cursors'[w] = cursors[w]
    <2> HIDE DEF u, new
    <2>1. ASSUME NEW rest \in Seq(Cursor), Range(rest) \subseteq Range(cursors[u]),
                 cursors' = [cursors EXCEPT ![u] = Bounded(Append(rest, new))]
          PROVE  /\ Range(cursors'[u]) \subseteq Range(cursors[u]) \union {new}
                 /\ \A w \in Uins : w # u => cursors'[w] = cursors[w]
      <3>1. Append(rest, new) \in Seq(Cursor) /\ Range(Append(rest, new)) = Range(rest) \union {new}
        BY <1>4, AppendRange
      <3>2. Range(Bounded(Append(rest, new))) \subseteq Range(rest) \union {new}
        BY <3>1, BoundedRange
      <3>3. cursors'[u] = Bounded(Append(rest, new)) /\ \A w \in Uins : w # u => cursors'[w] = cursors[w]
        BY <1>2, <1>4, <2>1
      <3> QED
        BY <2>1, <3>2, <3>3
    <2>2. ASSUME NEW i \in DOMAIN cursors[u]
          PROVE  /\ RemoveAt(cursors[u], i) \in Seq(Cursor)
                 /\ Range(RemoveAt(cursors[u], i)) \subseteq Range(cursors[u])
      BY <1>4, RemoveRange
    <2>3. cursors[u] \in Seq(Cursor) /\ Range(cursors[u]) \subseteq Range(cursors[u])
      BY <1>4
    <2>4. /\ Range(cursors'[u]) \subseteq Range(cursors[u]) \union {new}
          /\ \A w \in Uins : w # u => cursors'[w] = cursors[w]
      BY <1>3, <2>1, <2>2, <2>3
    <2> QED
      BY <1>7, <2>4
  <1>9. \A w \in Uins, t \in Polls : Held(w, t)' <=> Held(w, t)
    BY <1>3, <1>5 DEF Held
  <1>10. \A w \in Uins : ~ Held(w, p)
    BY <1>1 DEF CursorInv
  <1>11. ASSUME NEW q \in Polls
         PROVE  Knows(q)'
    <2>1. Knows(q) /\ poll[q].ids \in SUBSET Messages
      BY TypeFacts DEF RequestInv, Request
    <2>2. CASE q # p
      <3>1. poll'[q] = poll[q]
        BY <1>5, <2>2
      <3> QED
        BY <1>3, <2>1, <3>1 DEF Knows
    <2>3. CASE q = p
      <3>1. \A m \in poll[p].ids : Reached(v, m)'
        BY <1>2, <1>7
      <3> QED
        BY <1>2, <1>5, <1>7, <2>3, <3>1 DEF Knows
    <2> QED
      BY <2>2, <2>3
  <1>12. ASSUME NEW w \in Uins, NEW c \in Range(cursors'[w])
         PROVE  /\ poll'[c.token].pc \in {"sent", "store", "done"}
                /\ poll'[c.token].pc \in {"sent", "store"} =>
                      w = poll'[c.token].uin /\ c.ids = poll'[c.token].ids
                /\ Held(w, c.token)' => c.ids \subseteq client'[w].stored
    <2>1. CASE c \in Range(cursors[w])
      <3>1. c.token \in Polls /\ c.token # p
        BY <1>6, <2>1, TypeFacts DEF Cursor
      <3>2. poll'[c.token] = poll[c.token]
        BY <1>5, <3>1
      <3>3. Held(w, c.token)' => Held(w, c.token)
        BY <1>9, <3>1
      <3> QED
        BY <1>3, <2>1, <3>2, <3>3 DEF CursorInv
    <2>2. CASE w = v /\ c = new
      <3>1. c.token = p /\ c.ids = poll[p].ids /\ w = poll[p].uin
        BY <1>4, <1>7, <2>2
      <3>2. ~ Held(w, p)'
        BY <1>9, <1>10
      <3>3. ~ Held(w, c.token)'
        BY <3>1, <3>2
      <3> QED
        BY <1>5, <3>1, <3>3
    <2> HIDE DEF new
    <2> QED
      BY <1>8, <1>12, <2>1, <2>2
  <1>13. ASSUME NEW w \in Uins, NEW t \in Polls, Held(w, t)'
         PROVE  poll'[t].pc = "done"
    <2>1. Held(w, t) /\ t # p
      BY <1>9, <1>10, <1>13
    <2> QED
      BY <1>5, <2>1 DEF CursorInv
  <1> QED
    BY <1>11, <1>12, <1>13 DEF RequestInv, CursorInv

\* The client has stored the page whose token it now holds.
LEMMA StoredStep ==
    ASSUME TypeInv, RequestInv, CursorInv,
           \A u \in Uins, m \in Messages : Reached(u, m) => Reached(u, m)',
           NEW p \in Polls, PollStored(p)
    PROVE  RequestInv' /\ CursorInv'
  <1>1. poll[p].pc = "store" /\ Knows(p) /\ poll \in [Polls -> Request] /\ cursors' = cursors
        /\ poll' = [poll EXCEPT ![p] = NoPoll("done")]
    BY TypeFacts DEF PollStored, RequestInv
  <1>2. PICK u \in Uins : u = poll[p].uin
    BY <1>1 DEF Knows
  <1>3. /\ \A q \in Polls : q # p => poll'[q] = poll[q]
        /\ poll'[p].pc = "done" /\ poll'[p].uin = None /\ poll'[p].cursor = None
    BY <1>1 DEF NoPoll
  <1>4. /\ client'[u].cursor = p /\ client'[u].stored = client[u].stored \union poll[p].ids
        /\ \A w \in Uins : w # u => client'[w] = client[w]
    BY <1>2, TypeFacts DEF PollStored
  <1>5. None \notin Polls
    BY DeliveryAssumption
  <1>6. \A w \in Uins, t \in Polls : Held(w, t)' => Held(w, t) \/ (w = u /\ t = p)
    BY <1>3, <1>4, <1>5 DEF Held
  <1>7. ASSUME NEW q \in Polls
        PROVE  Knows(q)'
    <2>1. CASE q # p
      <3>1. Knows(q) /\ poll[q].ids \in SUBSET Messages /\ poll'[q] = poll[q]
        BY <1>3, <2>1, TypeFacts DEF RequestInv, Request
      <3>2. \A w \in Uins : client[w].stored \subseteq client'[w].stored
        BY <1>4
      <3> QED
        BY <3>1, <3>2 DEF Knows
    <2>2. CASE q = p
      BY <1>3, <2>2 DEF Knows
    <2> QED
      BY <2>1, <2>2
  <1>8. ASSUME NEW w \in Uins, NEW c \in Range(cursors'[w])
        PROVE  /\ poll'[c.token].pc \in {"sent", "store", "done"}
               /\ poll'[c.token].pc \in {"sent", "store"} =>
                     w = poll'[c.token].uin /\ c.ids = poll'[c.token].ids
               /\ Held(w, c.token)' => c.ids \subseteq client'[w].stored
    <2>1. c \in Range(cursors[w]) /\ c.token \in Polls
      BY <1>1, <1>8, TypeFacts DEF Cursor
    <2>2. /\ poll[c.token].pc \in {"sent", "store", "done"}
          /\ poll[c.token].pc \in {"sent", "store"} =>
                w = poll[c.token].uin /\ c.ids = poll[c.token].ids
          /\ Held(w, c.token) => c.ids \subseteq client[w].stored
      BY <2>1 DEF CursorInv
    <2>3. client[w].stored \subseteq client'[w].stored
      BY <1>4
    <2>4. CASE c.token # p
      BY <1>3, <1>6, <2>1, <2>2, <2>3, <2>4
    <2>5. CASE c.token = p
      <3>1. w = u /\ c.ids = poll[p].ids
        BY <1>1, <1>2, <2>2, <2>5
      <3> QED
        BY <1>3, <1>4, <2>5, <3>1
    <2> QED
      BY <2>4, <2>5
  <1>9. ASSUME NEW w \in Uins, NEW t \in Polls, Held(w, t)'
        PROVE  poll'[t].pc = "done"
    BY <1>3, <1>6, <1>9 DEF CursorInv
  <1> QED
    BY <1>7, <1>8, <1>9 DEF RequestInv, CursorInv

\* Every step keeps what requests and cursors stand for.
LEMMA CursorStep ==
    ASSUME TypeInv, QueueInv, GatewayInv, RequestInv, CursorInv, [Next]_vars
    PROVE  RequestInv' /\ CursorInv'
  <1>1. \A u \in Uins, m \in Messages : Reached(u, m) => Reached(u, m)'
    BY ReachedStays
  <1>2. ASSUME NEW p \in Polls, Serve(p)
        PROVE  RequestInv' /\ CursorInv'
    <2>1. CASE PollStored(p)
      BY <1>1, <2>1, StoredStep
    <2>2. CASE PollIssue(p) /\ ~ UNCHANGED cursors
      BY <1>1, <2>2, IssueStep
    <2>3. ASSUME ~ PollIssue(p)
          PROVE  UNCHANGED cursors
      BY <1>2, <2>3 DEF Serve, PollStart, PollLoad, PollAck, PollWait, PollRead, PollArrive,
         PollStored, PollStoreFails
    <2>4. CASE ~ PollStored(p) /\ UNCHANGED cursors
      BY <1>1, <1>2, <2>4, ServePollStep
    <2> QED
      BY <2>1, <2>2, <2>3, <2>4
  <1>3. ASSUME UNCHANGED poll,
               \A u \in Uins : /\ client[u].stored \subseteq client'[u].stored
                               /\ client'[u].cursor = client[u].cursor
                               /\ Range(cursors'[u]) \subseteq Range(cursors[u])
        PROVE  RequestInv' /\ CursorInv'
    <2>1. \A u \in Uins, t \in Polls : Held(u, t)' => Held(u, t)
      BY <1>3 DEF Held
    <2>2. \A u \in Uins : /\ client[u].stored \subseteq client'[u].stored
                          /\ Range(cursors'[u]) \subseteq Range(cursors[u])
      BY <1>3
    <2>3. \A p \in Polls : poll'[p] = poll[p]
      BY <1>3
    <2> QED
      BY <1>1, <2>1, <2>2, <2>3, PollsStep
  <1>4. ASSUME UNCHANGED <<poll, cursors, client>>
        PROVE  RequestInv' /\ CursorInv'
    BY <1>3, <1>4
  <1>5. ASSUME NEW g \in Gateways, Consume(g)
        PROVE  UNCHANGED <<poll, cursors, client>>
    BY <1>5 DEF Consume, Handle, Fetch, AcceptNew, AcceptSeen, AcceptFull, AcceptExpired,
       AcceptRejected, Replay, Receipt, StreamAck, ReceiptLost, GatewayFail
  <1>6. ASSUME \/ \E m \in Messages : Publish(m) \/ Expire(m)
               \/ \E t \in Typing : PublishTyping(t)
               \/ \E u \in Uins, m \in Messages : TransportAck(u, m)
               \/ UNCHANGED vars
        PROVE  UNCHANGED <<poll, cursors, client>>
    BY <1>6 DEF Publish, Expire, PublishTyping, TransportAck, vars
  <1>7. ASSUME NEW u \in Uins, PollAbort(u)
        PROVE  RequestInv' /\ CursorInv'
    <2>1. client \in [Uins -> Receiver] /\ client[u] \in Receiver
      BY TypeFacts
    <2>2. UNCHANGED <<poll, cursors>> /\ client' = [client EXCEPT ![u].polling = None]
      BY <1>7 DEF PollAbort
    <2>3. \A w \in Uins : client'[w].stored = client[w].stored /\ client'[w].cursor = client[w].cursor
      BY <2>1, <2>2 DEF Receiver
    <2> QED
      BY <1>3, <2>2, <2>3
  <1>8. ASSUME NEW u \in Uins, CursorsExpire(u)
        PROVE  RequestInv' /\ CursorInv'
    <2>1. UNCHANGED <<poll, client>> /\ cursors'[u] = <<>>
          /\ \A w \in Uins : w # u => cursors'[w] = cursors[w]
      BY <1>8, TypeFacts DEF CursorsExpire
    <2>2. Range(<<>>) = {}
      BY DEF Range
    <2>3. \A w \in Uins : Range(cursors'[w]) \subseteq Range(cursors[w])
      BY <2>1, <2>2
    <2> QED
      BY <1>3, <2>1, <2>3
  <1>9. ASSUME NEW u \in Uins, NEW r \in index[u], LivePush(u, r)
        PROVE  RequestInv' /\ CursorInv'
    <2>1. client \in [Uins -> Receiver] /\ client[u] \in Receiver
      BY TypeFacts
    <2>2. UNCHANGED <<poll, cursors>> /\ client' = [client EXCEPT ![u].stored = @ \union {r.id}]
      BY <1>9 DEF LivePush
    <2>3. \A w \in Uins : /\ client[w].stored \subseteq client'[w].stored
                          /\ client'[w].cursor = client[w].cursor
      BY <2>1, <2>2 DEF Receiver
    <2> QED
      BY <1>3, <2>2, <2>3
  <1> QED
    BY <1>2, <1>4, <1>5, <1>6, <1>7, <1>8, <1>9 DEF Next
-----------------------------------------------------------------------------
(***************************************************************************)
(* The invariant holds                                                     *)
(***************************************************************************)

\* Nothing is queued, requested or held at the start.
LEMMA DeliveryInitInv ==
    ASSUME Init
    PROVE  DeliveryInv
  <1>1. TypeInv
    <2>1. NoDelivery \in Delivery /\ NoPoll("new") \in Request
      BY EmptySeq DEF NoDelivery, Delivery, NoPoll, Request
    <2>2. [cursor |-> None, stored |-> {}, polling |-> None] \in Receiver
      BY DEF Receiver
    <2>3. /\ gw \in [Gateways -> Delivery] /\ poll \in [Polls -> Request]
          /\ client \in [Uins -> Receiver]
      BY <2>1, <2>2 DEF Init
    <2>4. cursors \in [Uins -> Seq(Cursor)] /\ \A u \in Uins : cursors[u] = <<>>
      BY EmptySeq DEF Init
    <2>5. Len(<<>>) <= MaxCursors
      BY DeliveryAssumption, EmptySeq
    <2>6. \A u \in Uins : cursors[u] \in Seq(Cursor) /\ Len(cursors[u]) <= MaxCursors
      BY <2>4, <2>5
    <2>7. IsFiniteSet(pending) /\ Cardinality(pending) = 0 /\ Cardinality(pending) <= MaxAckPending
      BY FS_EmptySet, DeliveryAssumption DEF Init
    <2>8. /\ index \in [Uins -> SUBSET Ref] /\ sequence \in [Uins -> Nat]
          /\ seen \in [Uins -> SUBSET Messages]
      BY DEF Init
    <2>9. /\ stream \subseteq Messages \union Typing /\ pending \subseteq stream
          /\ expired \subseteq Expiring /\ confirmed \subseteq Messages
      BY DEF Init
    <2> QED
      BY <2>3, <2>4, <2>6, <2>7, <2>8, <2>9 DEF TypeInv, TypeOK, Delivery, Request, Receiver
  <1>2. QueueInv /\ ScoresDistinct
    BY DEF Init, QueueInv, ScoresDistinct
  <1>3. GatewayInv
    BY DEF Init, GatewayInv, Handled, NoDelivery
  <1>4. RequestInv
    BY DEF Init, RequestInv, Knows, NoPoll
  <1>5. CursorInv
    <2>1. Range(<<>>) = {}
      BY DEF Range
    <2>2. \A u \in Uins : Range(cursors[u]) = {}
      BY <2>1 DEF Init
    <2>3. \A u \in Uins, t \in Polls : ~ Held(u, t)
      BY DeliveryAssumption DEF Init, Held, NoPoll
    <2> QED
      BY <2>2, <2>3 DEF CursorInv
  <1> QED
    BY <1>1, <1>2, <1>3, <1>4, <1>5 DEF DeliveryInv

\* Every step keeps the invariant.
LEMMA DeliveryNextInv ==
    ASSUME DeliveryInv, [Next]_vars
    PROVE  DeliveryInv'
  <1>1. TypeInv /\ QueueInv /\ GatewayInv /\ RequestInv /\ CursorInv /\ ScoresDistinct
    BY DEF DeliveryInv
  <1>2. TypeInv'
    BY <1>1, TypeStep
  <1>3. QueueInv' /\ ScoresDistinct'
    BY <1>1, QueueStep
  <1>4. GatewayInv'
    BY <1>1, GatewayStep
  <1>5. RequestInv' /\ CursorInv'
    BY <1>1, CursorStep
  <1> QED
    BY <1>2, <1>3, <1>4, <1>5 DEF DeliveryInv

\* The stream, the Redis keys, the poll handlers and the clients keep their
\* types: no more than MaxAckPending entries are handed out, no more than
\* MaxOutstandingPollCursors cursors survive an issue.
THEOREM DeliveryTypes == Spec => []TypeOK
  <1>1. DeliveryInv => TypeOK
    BY DEF DeliveryInv, TypeInv
  <1> QED
    BY DeliveryInitInv, DeliveryNextInv, <1>1, PTL DEF Spec

\* acceptScript, readAcceptedScript and ackAcceptedScript delete and restart the
\* sequence counter of a queue, and no two queued records ever share a score.
THEOREM ScoresStayDistinct == Spec => []ScoresDistinct
  <1>1. DeliveryInv => ScoresDistinct
    BY DEF DeliveryInv
  <1> QED
    BY DeliveryInitInv, DeliveryNextInv, <1>1, PTL DEF Spec

\* A cursor the client holds stands for a page the client has stored: the
\* AckRecipient of the next poll deletes nothing that is not in its store.
THEOREM HeldCursorsStored == Spec => []CursorStored
  <1>1. DeliveryInv => CursorStored
    BY DEF DeliveryInv, CursorInv, CursorStored, Held
  <1> QED
    BY DeliveryInitInv, DeliveryNextInv, <1>1, PTL DEF Spec

-----------------------------------------------------------------------------
(***************************************************************************)
(* The recipient mailbox is implemented                                    *)
(***************************************************************************)

\* A step that clears dead references moves no message.
LEMMA StatusKept ==
    ASSUME ClearsDead
    PROVE  \A u \in Uins, m \in Messages : Status(u, m)' = Status(u, m)
  <1> SUFFICES ASSUME NEW u \in Uins, NEW m \in Messages, m \notin expired
               PROVE  (\E r \in index'[u] : r.id = m) <=> (\E r \in index[u] : r.id = m)
    BY DEF Status, ClearsDead, Shrinks
  <1> QED
    BY DEF ClearsDead, Shrinks

\* acceptScript: the message enters the queue of one recipient.
LEMMA StatusEntered ==
    ASSUME TypeInv, GatewayInv, NEW g \in Gateways, AcceptNew(g)
    PROVE  \E u \in Uins, m \in Messages :
              /\ u \in Range(To[m])
              /\ Status(u, m) = "absent" /\ Status(u, m)' = "queued"
              /\ \A w \in Uins, n \in Messages : w # u \/ n # m => Status(w, n)' = Status(w, n)
  <1> DEFINE m == gw[g].msg
             u == Recipient(g)
             ref == [id |-> m, seq |-> sequence[u] + 1]
  <1>1. /\ m \in Messages /\ u \in Uins /\ u \in Range(To[m])
        /\ m \notin expired /\ m \notin seen[u] /\ expired' = expired
        /\ index'[u] = Live(u) \union {ref}
        /\ seen'[u] = seen[u] \union {m}
        /\ \A w \in Uins : w # u => index'[w] = index[w] /\ seen'[w] = seen[w]
    BY AcceptNewFacts
  <1>2. ref.id = m
    OBVIOUS
  <1>3. PICK v \in Uins, k \in Messages : v = u /\ k = m
    BY <1>1
  <1> HIDE DEF m, u, ref
  <1>4. Status(v, k) = "absent"
    BY <1>1, <1>3 DEF Status
  <1>5. Status(v, k)' = "queued"
    BY <1>1, <1>2, <1>3 DEF Status
  <1>6. ASSUME NEW n \in Messages, n # k
        PROVE  Status(v, n)' = Status(v, n)
    <2>1. n \notin expired => ((\E r \in index'[v] : r.id = n) <=> (\E r \in index[v] : r.id = n))
      BY <1>1, <1>2, <1>3, <1>6 DEF Live
    <2>2. n \in seen'[v] <=> n \in seen[v]
      BY <1>1, <1>3, <1>6
    <2> QED
      BY <1>1, <2>1, <2>2 DEF Status
  <1>7. ASSUME NEW w \in Uins, NEW n \in Messages, w # v
        PROVE  Status(w, n)' = Status(w, n)
    BY <1>1, <1>3, <1>7 DEF Status
  <1>8. v \in Range(To[k])
    BY <1>1, <1>3
  <1> QED
    BY <1>4, <1>5, <1>6, <1>7, <1>8

\* ackAcceptedScript takes the queued messages among ids, and no other.
LEMMA StatusTaken ==
    ASSUME TypeInv, expired' = expired, NEW u \in Uins, NEW ids, AckScript(u, ids)
    PROVE  \A w \in Uins, n \in Messages :
              Status(w, n)' = IF w = u /\ n \in ids /\ Status(u, n) = "queued"
                              THEN "taken" ELSE Status(w, n)
  <1>1. /\ Shrinks
        /\ \A w \in Uins : \A r \in index[w] :
             \/ r.id \in expired \/ r \in index'[w] \/ (w = u /\ r.id \in ids)
        /\ \A r \in index'[u] : r.id \notin ids
    BY ScriptsShrink
  <1> SUFFICES ASSUME NEW w \in Uins, NEW n \in Messages, n \notin expired
               PROVE  Status(w, n)' = IF w = u /\ n \in ids /\ Status(u, n) = "queued"
                                      THEN "taken" ELSE Status(w, n)
    BY <1>1 DEF Status, Shrinks
  <1>2. CASE w = u /\ n \in ids
    BY <1>1, <1>2 DEF Status, Shrinks
  <1>3. CASE ~ (w = u /\ n \in ids)
    <2>1. (\E r \in index'[w] : r.id = n) <=> (\E r \in index[w] : r.id = n)
      BY <1>1, <1>3 DEF Shrinks
    <2> QED
      BY <1>1, <1>3, <2>1 DEF Status, Shrinks
  <1> QED
    BY <1>2, <1>3

\* The expiry of m moves m in every mailbox, and no other message.
LEMMA StatusExpired ==
    ASSUME TypeInv, NEW m \in Messages, Expire(m)
    PROVE  \A u \in Uins, n \in Messages :
              Status(u, n)' = IF n = m THEN "expired" ELSE Status(u, n)
  <1>1. /\ expired' = expired \union {m} /\ m \notin expired
        /\ \A u \in Uins :
             /\ seen'[u] = seen[u] \ {m}
             /\ \/ index'[u] = index[u]
                \/ index'[u] = {} /\ \A r \in index[u] : r.id \in expired'
    BY ExpireFacts
  <1> SUFFICES ASSUME NEW u \in Uins, NEW n \in Messages
               PROVE  Status(u, n)' = IF n = m THEN "expired" ELSE Status(u, n)
    OBVIOUS
  <1>2. CASE n \in expired'
    BY <1>1, <1>2 DEF Status
  <1>3. CASE n \notin expired'
    <2>1. (\E r \in index'[u] : r.id = n) <=> (\E r \in index[u] : r.id = n)
      BY <1>1, <1>3
    <2> QED
      BY <1>1, <1>3, <2>1 DEF Status
  <1> QED
    BY <1>2, <1>3
StatusMap == [u \in Uins |-> [m \in Messages |-> Status(u, m)]]
StoredMap == [u \in Uins |-> client[u].stored]

\* A step that moves no message, stores none and confirms none is a stutter.
LEMMA StutterMaps ==
    ASSUME \A u \in Uins, m \in Messages : Status(u, m)' = Status(u, m),
           \A u \in Uins : client'[u].stored = client[u].stored,
           confirmed' = confirmed
    PROVE  UNCHANGED Mailbox!vars
  <1>1. StatusMap' = StatusMap /\ StoredMap' = StoredMap
    BY DEF StatusMap, StoredMap
  <1> QED
    BY <1>1 DEF Mailbox!vars, StatusMap, StoredMap

\* The message is queued for one recipient.
LEMMA EnterMaps ==
    ASSUME NEW u \in Uins, NEW m \in Messages, u \in Range(To[m]),
           Status(u, m) = "absent", Status(u, m)' = "queued",
           \A w \in Uins, n \in Messages : w # u \/ n # m => Status(w, n)' = Status(w, n),
           client' = client, confirmed' = confirmed
    PROVE  Mailbox!Next
  <1>1. StatusMap \in [Uins -> [Messages -> {"absent", "queued", "taken", "expired"}]]
    BY DEF StatusMap, Status
  <1>2. StatusMap'[u] = [StatusMap[u] EXCEPT ![m] = "queued"]
    BY DEF StatusMap
  <1>3. \A w \in Uins : w # u => StatusMap'[w] = StatusMap[w]
    BY DEF StatusMap
  <1>4. StatusMap' = [StatusMap EXCEPT ![u] = [StatusMap[u] EXCEPT ![m] = "queued"]]
    <2> DEFINE f == [StatusMap[u] EXCEPT ![m] = "queued"]
    <2>1. StatusMap' = [w \in Uins |-> StatusMap'[w]] /\ StatusMap = [w \in Uins |-> StatusMap[w]]
      BY DEF StatusMap
    <2>2. StatusMap'[u] = f
      BY <1>2
    <2> HIDE DEF f
    <2>3. \A w \in Uins : StatusMap'[w] = [StatusMap EXCEPT ![u] = f][w]
      BY <1>1, <1>3, <2>2
    <2>4. StatusMap' = [StatusMap EXCEPT ![u] = f]
      BY <1>1, <2>1, <2>3
    <2> QED
      BY <2>4 DEF f
  <1>5. StatusMap[u][m] = "absent" /\ StoredMap' = StoredMap
    BY DEF StatusMap, StoredMap
  <1>6. StatusMap' = [StatusMap EXCEPT ![u][m] = "queued"]
    BY <1>1, <1>4
  <1>7. Mailbox!Enter(u, m)
    BY <1>5, <1>6 DEF Mailbox!Enter, StatusMap, StoredMap
  <1> QED
    BY <1>7 DEF Mailbox!Next

\* Messages that were stored leave the queue of u.
LEMMA TakeMaps ==
    ASSUME NEW u \in Uins, NEW S \in SUBSET Messages, S \subseteq client[u].stored,
           \A m \in S : Status(u, m) = "queued",
           \A w \in Uins, n \in Messages :
              Status(w, n)' = IF w = u /\ n \in S THEN "taken" ELSE Status(w, n),
           client' = client, confirmed' = confirmed
    PROVE  Mailbox!Next
  <1> DEFINE f == [n \in Messages |-> IF n \in S THEN "taken" ELSE StatusMap[u][n]]
  <1>1. StatusMap \in [Uins -> [Messages -> {"absent", "queued", "taken", "expired"}]]
    BY DEF StatusMap, Status
  <1>2. StatusMap'[u] = f
    BY DEF StatusMap
  <1>3. \A w \in Uins : w # u => StatusMap'[w] = StatusMap[w]
    BY DEF StatusMap
  <1>4. StatusMap' = [w \in Uins |-> StatusMap'[w]]
    BY DEF StatusMap
  <1>5. StatusMap' = [StatusMap EXCEPT ![u] = f]
    <2> HIDE DEF f
    <2>1. \A w \in Uins : StatusMap'[w] = [StatusMap EXCEPT ![u] = f][w]
      BY <1>1, <1>2, <1>3
    <2> QED
      BY <1>1, <1>4, <2>1
  <1>6. /\ S \subseteq StoredMap[u] /\ \A m \in S : StatusMap[u][m] = "queued"
        /\ StoredMap' = StoredMap
    BY DEF StatusMap, StoredMap
  <1>7. Mailbox!Take(u, S)
    BY <1>5, <1>6 DEF Mailbox!Take, StatusMap, StoredMap
  <1> QED
    BY <1>7 DEF Mailbox!Next

\* The client of u stores messages its queue has or had.
LEMMA StoreMaps ==
    ASSUME NEW u \in Uins, NEW S \in SUBSET Messages, \A m \in S : Reached(u, m),
           \A w \in Uins, n \in Messages : Status(w, n)' = Status(w, n),
           client'[u].stored = client[u].stored \union S,
           \A w \in Uins : w # u => client'[w].stored = client[w].stored,
           confirmed' = confirmed
    PROVE  Mailbox!Next
  <1>1. StatusMap' = StatusMap /\ \A m \in S : StatusMap[u][m] # "absent"
    BY DEF StatusMap, Status, Reached
  <1>2. StoredMap' = [StoredMap EXCEPT ![u] = StoredMap[u] \union S]
    BY DEF StoredMap
  <1>3. Mailbox!Store(u, S)
    BY <1>1, <1>2 DEF Mailbox!Store, StatusMap, StoredMap
  <1> QED
    BY <1>3 DEF Mailbox!Next

\* The expiry of a message.
LEMMA ExpireMaps ==
    ASSUME NEW m \in Messages,
           \A u \in Uins, n \in Messages :
              Status(u, n)' = IF n = m THEN "expired" ELSE Status(u, n),
           client' = client, confirmed' = confirmed
    PROVE  Mailbox!Next
  <1>1. StatusMap' = [u \in Uins |-> [StatusMap[u] EXCEPT ![m] = "expired"]]
    <2>1. ASSUME NEW u \in Uins
          PROVE  StatusMap'[u] = [StatusMap[u] EXCEPT ![m] = "expired"]
      BY DEF StatusMap
    <2>2. StatusMap' = [u \in Uins |-> StatusMap'[u]]
      BY DEF StatusMap
    <2> QED
      BY <2>1, <2>2
  <1>2. StoredMap' = StoredMap
    BY DEF StoredMap
  <1>3. Mailbox!Expire(m)
    BY <1>1, <1>2 DEF Mailbox!Expire, StatusMap, StoredMap
  <1> QED
    BY <1>3 DEF Mailbox!Next

\* A delivery receipt for a message every recipient's queue has or had.
LEMMA ConfirmMaps ==
    ASSUME NEW m \in Messages, \A u \in Range(To[m]) : u \in Uins /\ Reached(u, m),
           \A u \in Uins, n \in Messages : Status(u, n)' = Status(u, n),
           client' = client, confirmed' = confirmed \union {m}
    PROVE  Mailbox!Next
  <1>1. StatusMap' = StatusMap /\ StoredMap' = StoredMap
    BY DEF StatusMap, StoredMap
  <1>2. \A u \in Range(To[m]) : StatusMap[u][m] # "absent"
    BY DEF StatusMap, Status, Reached
  <1>3. Mailbox!Confirm(m)
    BY <1>1, <1>2 DEF Mailbox!Confirm, StatusMap, StoredMap
  <1> QED
    BY <1>3 DEF Mailbox!Next
\* Every step of a gateway, a handler or a client is a step of the mailbox, or
\* nothing the mailbox shows.
LEMMA MailboxStep ==
    ASSUME TypeInv, QueueInv, GatewayInv, RequestInv, CursorInv, [Next]_vars
    PROVE  Mailbox!Next \/ UNCHANGED Mailbox!vars
  <1>1. ASSUME NEW g \in Gateways, AcceptNew(g)
        PROVE  Mailbox!Next
    <2>1. client' = client /\ confirmed' = confirmed
      BY <1>1 DEF AcceptNew
    <2> QED
      BY <1>1, <2>1, StatusEntered, EnterMaps
  <1>2. ASSUME NEW m \in Messages, Expire(m)
        PROVE  Mailbox!Next
    <2>1. client' = client /\ confirmed' = confirmed
      BY <1>2 DEF Expire
    <2> QED
      BY <1>2, <2>1, StatusExpired, ExpireMaps
  <1>3. ASSUME NEW u \in Uins, NEW ids \in SUBSET client[u].stored, AckScript(u, ids),
               expired' = expired, client' = client, confirmed' = confirmed
        PROVE  Mailbox!Next
    <2> DEFINE S == {n \in ids : Status(u, n) = "queued"}
    <2>1. ids \subseteq Messages
      BY TypeFacts DEF Receiver
    <2>2. \A w \in Uins, n \in Messages :
             Status(w, n)' = IF w = u /\ n \in ids /\ Status(u, n) = "queued"
                             THEN "taken" ELSE Status(w, n)
      BY <1>3, StatusTaken
    <2>3. /\ S \in SUBSET Messages /\ S \subseteq client[u].stored
          /\ \A n \in S : Status(u, n) = "queued"
          /\ \A w \in Uins, n \in Messages :
               Status(w, n)' = IF w = u /\ n \in S THEN "taken" ELSE Status(w, n)
      BY <2>1, <2>2
    <2> HIDE DEF S
    <2> QED
      BY <1>3, <2>3, TakeMaps
  <1>4. ASSUME NEW p \in Polls, PollAck(p), poll[p].uin \in Uins,
               AckScript(poll[p].uin, poll[p].ids), expired' = expired
        PROVE  Mailbox!Next
    <2>1. client' = client /\ confirmed' = confirmed
      BY <1>4 DEF PollAck
    <2>2. poll[p].ids \subseteq client[poll[p].uin].stored
      BY <1>4 DEF PollAck, RequestInv, Knows
    <2> QED
      BY <1>3, <1>4, <2>1, <2>2
  <1>5. ASSUME NEW u \in Uins, NEW m \in Messages, TransportAck(u, m)
        PROVE  Mailbox!Next
    <2>1. /\ client' = client /\ confirmed' = confirmed /\ expired' = expired
          /\ {m} \in SUBSET client[u].stored /\ AckScript(u, {m})
      BY <1>5 DEF TransportAck
    <2> QED
      BY <1>3, <2>1
  <1>6. CASE ClearsDead
    <2>1. \A u \in Uins, m \in Messages : Status(u, m)' = Status(u, m)
      BY <1>6, StatusKept
    <2>2. ASSUME \A u \in Uins : client'[u].stored = client[u].stored, confirmed' = confirmed
          PROVE  UNCHANGED Mailbox!vars
      BY <2>1, <2>2, StutterMaps
    <2>3. ASSUME NEW g \in Gateways, Receipt(g) \/ ReceiptLost(g)
          PROVE  Mailbox!Next
      <3>1. /\ gw[g].pc = "receipt" /\ client' = client
            /\ confirmed' = confirmed \union {gw[g].msg}
        BY <2>3 DEF Receipt, ReceiptLost
      <3>2. gw[g].msg \in Messages /\ \A u \in Range(To[gw[g].msg]) : Reached(u, gw[g].msg)
        BY <3>1 DEF GatewayInv, Handled
      <3>3. PICK m \in Messages : m = gw[g].msg
        BY <3>2
      <3>4. \A u \in Range(To[m]) : u \in Uins /\ Reached(u, m)
        BY <3>2, <3>3, Recipients
      <3> QED
        BY <2>1, <3>1, <3>3, <3>4, ConfirmMaps
    <2>4. ASSUME NEW g \in Gateways, Consume(g)
          PROVE  Mailbox!Next \/ UNCHANGED Mailbox!vars
      <3>1. CASE UNCHANGED <<client, confirmed>>
        BY <2>2, <3>1
      <3> QED
        BY <2>3, <2>4, <3>1 DEF Consume, Handle, Fetch, AcceptNew, AcceptSeen, AcceptFull,
           AcceptExpired, AcceptRejected, Replay, StreamAck, GatewayFail
    <2>5. ASSUME NEW p \in Polls, NEW S \in SUBSET poll[p].ids, poll[p].pc = "store",
                 client'[poll[p].uin].stored = client[poll[p].uin].stored \union S,
                 \A w \in Uins : w # poll[p].uin => client'[w].stored = client[w].stored,
                 confirmed' = confirmed
          PROVE  Mailbox!Next
      <3>1. PICK u \in Uins : u = poll[p].uin
        BY <2>5 DEF RequestInv, Knows
      <3>2. S \in SUBSET Messages /\ \A m \in S : Reached(u, m)
        BY <2>5, <3>1, TypeFacts DEF RequestInv, Knows, Request
      <3> QED
        BY <2>1, <2>5, <3>1, <3>2, StoreMaps
    <2>6. ASSUME NEW p \in Polls, Serve(p)
          PROVE  Mailbox!Next \/ UNCHANGED Mailbox!vars
      <3>1. CASE PollStored(p)
        <4>1. poll[p].pc = "store" /\ confirmed' = confirmed /\ poll[p].uin \in Uins
          BY <3>1 DEF PollStored, RequestInv, Knows
        <4>2. /\ client'[poll[p].uin].stored = client[poll[p].uin].stored \union poll[p].ids
              /\ \A w \in Uins : w # poll[p].uin => client'[w].stored = client[w].stored
          BY <3>1, <4>1, TypeFacts DEF PollStored
        <4> QED
          BY <2>5, <4>1, <4>2
      <3>2. ASSUME NEW S \in SUBSET poll[p].ids, PollStoreFails(p, S)
            PROVE  Mailbox!Next
        <4>1. poll[p].pc = "store" /\ confirmed' = confirmed /\ poll[p].uin \in Uins
          BY <3>2 DEF PollStoreFails, RequestInv, Knows
        <4>2. client \in [Uins -> Receiver] /\ client[poll[p].uin] \in Receiver
          BY <4>1, TypeFacts
        <4>3. /\ client'[poll[p].uin].stored = client[poll[p].uin].stored \union S
              /\ \A w \in Uins : w # poll[p].uin => client'[w].stored = client[w].stored
          BY <3>2, <4>1, <4>2 DEF PollStoreFails, Receiver
        <4> QED
          BY <2>5, <4>1, <4>3
      <3>3. ASSUME NEW u \in Uins, PollStart(p, u)
            PROVE  UNCHANGED Mailbox!vars
        <4>1. client \in [Uins -> Receiver] /\ client[u] \in Receiver
          BY TypeFacts
        <4>2. (\A w \in Uins : client'[w].stored = client[w].stored) /\ confirmed' = confirmed
          BY <3>3, <4>1 DEF PollStart, Receiver
        <4> QED
          BY <2>2, <4>2
      <3>4. CASE PollLoad(p) \/ PollIssue(p)
        <4>1. poll[p].uin \in Uins /\ confirmed' = confirmed /\ (Reject(p) \/ client' = client)
          BY <3>4 DEF PollLoad, PollIssue, RequestInv, Knows
        <4>2. \A w \in Uins : client'[w].stored = client[w].stored
          BY <4>1, RejectFacts
        <4> QED
          BY <2>2, <4>1, <4>2
      <3>5. CASE PollAck(p) \/ PollWait(p) \/ PollRead(p) \/ PollArrive(p)
        <4>1. client' = client /\ confirmed' = confirmed
          BY <3>5 DEF PollAck, PollWait, PollRead, PollArrive
        <4> QED
          BY <2>2, <4>1
      <3> QED
        BY <2>6, <3>1, <3>2, <3>3, <3>4, <3>5 DEF Serve
    <2>7. ASSUME NEW u \in Uins, NEW r \in index[u], LivePush(u, r)
          PROVE  Mailbox!Next
      <3>1. {r.id} \in SUBSET Messages /\ \A m \in {r.id} : Reached(u, m)
        BY TypeFacts DEF QueueInv
      <3>2. client \in [Uins -> Receiver] /\ client[u] \in Receiver
        BY TypeFacts
      <3>3. /\ client'[u].stored = client[u].stored \union {r.id} /\ confirmed' = confirmed
            /\ \A w \in Uins : w # u => client'[w].stored = client[w].stored
        BY <2>7, <3>2 DEF LivePush, Receiver
      <3> QED
        BY <2>1, <3>1, <3>3, StoreMaps
    <2>8. ASSUME NEW u \in Uins, PollAbort(u)
          PROVE  UNCHANGED Mailbox!vars
      <3>1. client \in [Uins -> Receiver] /\ client[u] \in Receiver
        BY TypeFacts
      <3>2. (\A w \in Uins : client'[w].stored = client[w].stored) /\ confirmed' = confirmed
        BY <2>8, <3>1 DEF PollAbort, Receiver
      <3> QED
        BY <2>2, <3>2
    <2>9. ASSUME \/ \E m \in Messages : Publish(m)
                 \/ \E t \in Typing : PublishTyping(t)
                 \/ \E u \in Uins : CursorsExpire(u)
                 \/ UNCHANGED vars
          PROVE  UNCHANGED Mailbox!vars
      <3>1. client' = client /\ confirmed' = confirmed
        BY <2>9 DEF Publish, PublishTyping, CursorsExpire, vars
      <3> QED
        BY <2>2, <3>1
    <2> QED
      BY <1>2, <1>5, <2>4, <2>6, <2>7, <2>8, <2>9 DEF Next
  <1> QED
    BY <1>1, <1>2, <1>4, <1>5, <1>6, QueueSteps

\* Redelivery, crashes between acceptScript and the receipt, polls that outlive
\* their client and lost answers never queue a message twice, remove one the
\* client has not stored, or confirm one a recipient's queue has not accepted:
\* the gateways, queues and clients together implement the mailbox.
THEOREM DeliveryImplementsMailbox == Spec => ImplementsMailbox
  <1>1. Init => Mailbox!Init
    BY DEF Init, Mailbox!Init, Status
  <1>2. DeliveryInv /\ [Next]_vars => [Mailbox!Next]_(Mailbox!vars)
    BY MailboxStep DEF DeliveryInv
  <1> QED
    BY DeliveryInitInv, DeliveryNextInv, <1>1, <1>2, PTL DEF Spec, ImplementsMailbox, Mailbox!Spec
=============================================================================
