------------------------- MODULE DurableIngestProofs -------------------------
(***************************************************************************)
(* Proofs about DurableIngest for every set of keys, requests and          *)
(* handlers, every lease and every TTL: the type invariant, and the        *)
(* promises AckedIsDurable, OneStorePerKey, StoredAwaitsDelivery,          *)
(* LeaseExclusive and OutboxOutlivesDelivery, which all follow from one    *)
(* inductive invariant, IInv; the refinement of StoreAndForward, from IInv *)
(* and PromiseInv; and about OutboxFetch the shares of a fetch, for any    *)
(* number of buckets and rows and any limit (FetchInv).                    *)
(***************************************************************************)
EXTENDS DurableIngest, OutboxFetch, FiniteSetTheorems, WellFoundedInduction,
        TLAPS

\* The request holds a copy of the receipt it works for.
Holds(q) == req[q].pc \in {"index", "takeover", "write", "mark", "cas",
                           "publish", "reply", "acked"}

\* The request has not yet acquired a claim.
Before(q) == req[q].pc \in {"idle", "claim", "load", "takeover"}

-----------------------------------------------------------------------------
(***************************************************************************)
(* The inductive invariant, first what it says of one request              *)
(***************************************************************************)

\* What the handler refers to exists.
HandlerOK(q) ==
    /\ req[q].pc \notin {"idle", "failed"} =>
           req[q].key \in Keys /\ req[q].env \in Envelopes
    /\ Holds(q) => req[q].rec \in Receipt
    /\ req[q].now <= clock

\* While the claim lives, the receipt is the one the request works for.
HeldIsCurrent(q) ==
    Holds(q) =>
        /\ req[q].rec.env = req[q].env
        /\ Unexpired(req[q].rec.created) =>
               ReceiptIs(req[q].key, req[q].rec.created, req[q].env)

\* An owner token is used once: its request is past the acquisition, and a
\* receipt with the owner that a request knows is the one it knows.
OwnerOnce(q) ==
    Holds(q) =>
        /\ ~Before(req[q].rec.owner)
        /\ receipt[req[q].key] # None
             /\ receipt[req[q].key].owner = req[q].rec.owner
           => receipt[req[q].key].created = req[q].rec.created

\* A request that is past its batch has a message row, and an outbox row for
\* as long as the receipt is pending.
BatchWritten(q) ==
    req[q].pc \in {"mark", "cas"} /\ Unexpired(req[q].rec.created) =>
        /\ [key |-> req[q].key, created |-> req[q].rec.created,
            env |-> req[q].env] \in rows
        /\ receipt[req[q].key].state = "pending" =>
             \E o \in outbox : SameRow(o, req[q].key, req[q].rec.created)

\* A request about to reply has a committed receipt.
ReplyCommitted(q) ==
    /\ req[q].pc \in {"publish", "reply", "acked"}
    /\ Unexpired(req[q].rec.created)
    => receipt[req[q].key].state \in {"stored", "delivered"}

\* The receipt names the handler that holds a live lease; a takeover only
\* replaces a lease that had lapsed.
LeaseIsReceipts(q) ==
    /\ LeaseLive(q) =>
         /\ receipt[req[q].key].owner = q
         /\ receipt[req[q].key].lease = req[q].rec.lease
    /\ req[q].pc = "takeover" => req[q].rec.lease <= req[q].now
    /\ Working(q) => req[q].rec.owner = q

RequestInv(q) ==
    /\ HandlerOK(q)
    /\ HeldIsCurrent(q)
    /\ OwnerOnce(q)
    /\ BatchWritten(q)
    /\ ReplyCommitted(q)
    /\ LeaseIsReceipts(q)

(***************************************************************************)
(* ... then of the store and of the delivery-receipt handlers              *)
(***************************************************************************)

ReceiptOwners == \A k \in Keys : receipt[k] # None => ~Before(receipt[k].owner)

\* A committed receipt has its message row, and its outbox row until delivered.
CommittedStored ==
    \A k \in Keys :
        receipt[k] # None /\ Unexpired(receipt[k].created) =>
            /\ receipt[k].state \in {"stored", "delivered"} =>
                 [key |-> k, created |-> receipt[k].created,
                  env |-> receipt[k].env] \in rows
            /\ receipt[k].state = "stored" =>
                 \E o \in outbox : SameRow(o, k, receipt[k].created)

\* An unexpired message row belongs to the receipt.
RowsAreReceipts ==
    \A r \in rows : Unexpired(r.created) => ReceiptIs(r.key, r.created, r.env)

\* A delivery-receipt handler works on the receipt it loaded, and deletes the
\* outbox row only of a delivered one.
ConfirmerInv(d) ==
    /\ conf[d].pc # "idle" => conf[d].key \in Keys
    /\ conf[d].pc \in {"cas", "delete"} /\ Unexpired(conf[d].created) =>
         /\ receipt[conf[d].key] # None
         /\ receipt[conf[d].key].created = conf[d].created
         /\ conf[d].pc = "delete" => receipt[conf[d].key].state = "delivered"

StoreInv == ReceiptOwners /\ CommittedStored /\ RowsAreReceipts

IInv ==
    /\ TypeOK
    /\ \A q \in Requests : RequestInv(q)
    /\ StoreInv
    /\ \A d \in Confirmers : ConfirmerInv(d)

-----------------------------------------------------------------------------
(***************************************************************************)
(* Lemmas                                                                  *)
(***************************************************************************)

\* The initial state satisfies the invariant: no receipt, no handler.
LEMMA InitIInv == Init => IInv
<1> SUFFICES ASSUME Init PROVE IInv
  OBVIOUS
<1> USE DEF Init, NoRequest, NoConfirmation
<1>1. TypeOK
  BY DEF TypeOK, Request, RequestPC, Confirmation, ConfirmerPC
<1>2. ASSUME NEW q \in Requests PROVE RequestInv(q)
  BY DEF RequestInv, HandlerOK, HeldIsCurrent, OwnerOnce, BatchWritten,
         ReplyCommitted, LeaseIsReceipts, Holds, LeaseLive, Working
<1>3. StoreInv
  BY DEF StoreInv, ReceiptOwners, CommittedStored, RowsAreReceipts
<1>4. ASSUME NEW d \in Confirmers PROVE ConfirmerInv(d)
  BY DEF ConfirmerInv
<1> QED
  BY <1>1, <1>2, <1>3, <1>4 DEF IInv

\* What the invariant says of the types of one request and of one receipt.
LEMMA Typing ==
    ASSUME IInv
    PROVE  /\ clock \in Nat
           /\ req \in [Requests -> Request]
           /\ conf \in [Confirmers -> Confirmation]
           /\ receipt \in [Keys -> Receipt \union {None}]
           /\ \A q \in Requests : req[q] \in Request
           /\ \A q \in Requests : Holds(q) =>
                 /\ req[q].rec \in Receipt /\ req[q].rec.owner \in Requests
                 /\ req[q].rec.created \in Nat /\ req[q].rec.lease \in Nat
                 /\ req[q].key \in Keys /\ req[q].env \in Envelopes
           /\ \A k \in Keys : receipt[k] # None =>
                 /\ receipt[k] \in Receipt /\ receipt[k].owner \in Requests
                 /\ receipt[k].created \in Nat /\ receipt[k].lease \in Nat
BY DEF IInv, RequestInv, HandlerOK, TypeOK, Holds, Receipt

\* A step of one request that leaves the receipts, the rows, the outbox and
\* the other handlers alone preserves the invariant if it keeps that
\* request's part of it.
LEMMA RequestLocal ==
    ASSUME IInv, NEW q \in Requests,
           TypeOK', RequestInv(q)', ~Before(q) => ~Before(q)',
           \A p \in Requests : p # q => req'[p] = req[p],
           UNCHANGED <<clock, receipt, rows, outbox, conf>>
    PROVE  IInv'
<1>1. \A p \in Requests : ~Before(p) => ~Before(p)'
  BY DEF Before
<1>2. ASSUME NEW p \in Requests PROVE RequestInv(p)'
  <2>1. CASE p = q
    BY <2>1
  <2>2. CASE p # q
    <3>1. req'[p] = req[p] /\ RequestInv(p)
      BY <2>2 DEF IInv
    <3>2. Holds(p)' = Holds(p) /\ Working(p)' = Working(p) /\ LeaseLive(p)' = LeaseLive(p)
      BY <3>1 DEF Holds, Working, LeaseLive, Unexpired
    <3>3. HandlerOK(p)' /\ HeldIsCurrent(p)' /\ ReplyCommitted(p)' /\ LeaseIsReceipts(p)'
      BY <3>1, <3>2 DEF RequestInv, HandlerOK, HeldIsCurrent, ReplyCommitted,
                        LeaseIsReceipts, Unexpired, ReceiptIs
    <3>4. OwnerOnce(p)'
      BY <1>1, <3>1, <3>2, Typing DEF RequestInv, OwnerOnce
    <3>5. BatchWritten(p)'
      BY <3>1 DEF RequestInv, BatchWritten, Unexpired, SameRow
    <3> QED
      BY <3>3, <3>4, <3>5 DEF RequestInv
  <2> QED
    BY <2>1, <2>2
<1>3. StoreInv'
  BY <1>1, Typing DEF IInv, StoreInv, ReceiptOwners, CommittedStored, RowsAreReceipts,
                      Unexpired, ReceiptIs, SameRow
<1>4. ASSUME NEW d \in Confirmers PROVE ConfirmerInv(d)'
  BY DEF IInv, ConfirmerInv, Unexpired
<1> QED
  BY <1>2, <1>3, <1>4 DEF IInv

\* A handler that gives up keeps nothing that the invariant speaks of.
LEMMA GiveUpStep ==
    ASSUME IInv, NEW q \in Requests, GiveUp(q),
           UNCHANGED <<clock, storeVars, conf, published>>
    PROVE  IInv'
<1>1. NoRequest("failed") \in Request
  BY DEF NoRequest, Request, RequestPC
<1>2. /\ req' \in [Requests -> Request]
      /\ req'[q].pc = "failed" /\ req'[q].now = 0
      /\ \A p \in Requests : p # q => req'[p] = req[p]
  BY <1>1, Typing DEF GiveUp, NoRequest
<1>3. TypeOK'
  BY <1>2 DEF IInv, TypeOK, storeVars
<1>4. RequestInv(q)'
  BY <1>2, Typing DEF RequestInv, HandlerOK, HeldIsCurrent, OwnerOnce, BatchWritten,
                      ReplyCommitted, LeaseIsReceipts, Holds, LeaseLive, Working
<1> QED
  BY <1>2, <1>3, <1>4, RequestLocal DEF Before, storeVars

\* A step that only moves the handler on, changing no other local variable.
LEMMA GotoTyping ==
    ASSUME IInv, NEW q \in Requests, NEW pc \in RequestPC, Goto(q, pc)
    PROVE  /\ req' \in [Requests -> Request]
           /\ req'[q].pc = pc
           /\ req'[q].key = req[q].key /\ req'[q].env = req[q].env
           /\ req'[q].now = req[q].now /\ req'[q].rec = req[q].rec
           /\ \A p \in Requests : p # q => req'[p] = req[p]
<1>1. [req[q] EXCEPT !.pc = pc] \in Request
  BY Typing DEF Request
<1> QED
  BY <1>1, Typing DEF Goto, Request

\* Receive preserves the invariant: the handler holds nothing but its input.
LEMMA ReceiveStep ==
    ASSUME IInv, NEW q \in Requests, NEW k \in Keys, NEW e \in Envelopes,
           Receive(q, k, e)
    PROVE  IInv'
<1>1. [[[[req[q] EXCEPT !.pc = "claim"] EXCEPT !.key = k] EXCEPT !.env = e]
          EXCEPT !.now = clock] \in Request
  <2>1. "claim" \in RequestPC
    BY DEF RequestPC
  <2> QED
    BY <2>1, Typing DEF Request
<1>2. /\ req' \in [Requests -> Request]
      /\ req'[q].pc = "claim" /\ req'[q].key = k /\ req'[q].env = e
      /\ req'[q].now = clock
      /\ \A p \in Requests : p # q => req'[p] = req[p]
  BY <1>1, Typing DEF Receive, Request
<1>3. TypeOK'
  BY <1>2 DEF IInv, TypeOK, Receive, storeVars
<1>4. RequestInv(q)'
  BY <1>2, Typing
  DEF Receive, RequestInv, HandlerOK, HeldIsCurrent, OwnerOnce, BatchWritten,
      ReplyCommitted, LeaseIsReceipts, Holds, LeaseLive, Working
<1>5. ~Before(q) => ~Before(q)'
  BY DEF Receive, Before
<1> QED
  BY <1>2, <1>3, <1>4, <1>5, RequestLocal DEF Receive, storeVars

\* ClaimExists preserves the invariant: the handler goes on to load.
LEMMA ClaimExistsStep ==
    ASSUME IInv, NEW q \in Requests, ClaimExists(q)
    PROVE  IInv'
<1>1. "load" \in RequestPC
  BY DEF RequestPC
<1>2. /\ req[q].pc = "claim"
      /\ Goto(q, "load")
      /\ UNCHANGED <<clock, storeVars, conf, published>>
  BY DEF ClaimExists
<1>3. TypeOK'
  BY <1>1, <1>2, GotoTyping DEF IInv, TypeOK, storeVars
<1>4. RequestInv(q)'
  BY <1>1, <1>2, GotoTyping
  DEF IInv, RequestInv, HandlerOK, HeldIsCurrent, OwnerOnce, BatchWritten,
      ReplyCommitted, LeaseIsReceipts, Holds, LeaseLive, Working
<1> QED
  BY <1>1, <1>2, <1>3, <1>4, GotoTyping, RequestLocal DEF Before, storeVars

\* ClaimCommitted preserves the invariant: the receipt that was loaded is the
\* current one, and it is stored or delivered.
LEMMA ClaimCommittedStep ==
    ASSUME IInv, NEW q \in Requests, ClaimCommitted(q)
    PROVE  IInv'
<1> DEFINE k == req[q].key
           r == receipt[k]
           pc == IF r.state = "stored" THEN "publish" ELSE "reply"
<1>1. /\ req[q].pc = "load" /\ req[q].now <= clock
      /\ k \in Keys /\ req[q].env \in Envelopes
      /\ r # None /\ r \in Receipt /\ r.env = req[q].env
      /\ r.state \in {"stored", "delivered"}
  BY Typing DEF IInv, RequestInv, HandlerOK, ClaimCommitted, Committed, Loadable, SameSubmission
<1>2. [[req[q] EXCEPT !.rec = r] EXCEPT !.pc = pc] \in Request
  <2>1. pc \in RequestPC
    BY DEF RequestPC
  <2> QED
    BY <1>1, <2>1, Typing DEF Request
<1>3. /\ req' \in [Requests -> Request]
      /\ req'[q].pc = pc /\ req'[q].key = k /\ req'[q].env = req[q].env
      /\ req'[q].now = req[q].now /\ req'[q].rec = r
      /\ \A p \in Requests : p # q => req'[p] = req[p]
  BY <1>2, Typing DEF ClaimCommitted, Request
<1>4. UNCHANGED <<clock, storeVars, conf, published>>
  BY DEF ClaimCommitted
<1>5. TypeOK'
  BY <1>3, <1>4 DEF IInv, TypeOK, storeVars
<1>6. /\ req'[q].pc \in {"publish", "reply"}
      /\ receipt'[k] = r
      /\ r.owner # q
  BY <1>1, <1>3, <1>4 DEF IInv, StoreInv, ReceiptOwners, Before, storeVars
<1> HIDE DEF k, r, pc
<1>7. RequestInv(q)'
  <2>1. req'[r.owner].pc \notin {"idle", "claim", "load", "takeover"}
    BY <1>1, <1>3, <1>6 DEF IInv, StoreInv, ReceiptOwners, Before, Receipt, r, k
  <2>2. HandlerOK(q)' /\ BatchWritten(q)' /\ ReplyCommitted(q)' /\ LeaseIsReceipts(q)'
    BY <1>1, <1>3, <1>4, <1>6
    DEF HandlerOK, BatchWritten, ReplyCommitted, LeaseIsReceipts, LeaseLive, Working
  <2>3. HeldIsCurrent(q)' /\ OwnerOnce(q)'
    BY <1>1, <1>3, <1>6, <2>1 DEF HeldIsCurrent, OwnerOnce, Before, ReceiptIs
  <2> QED
    BY <2>2, <2>3 DEF RequestInv
<1> QED
  BY <1>3, <1>4, <1>5, <1>6, <1>7, RequestLocal DEF Before, storeVars

\* ClaimStale preserves the invariant: the loaded receipt is current and its
\* owner is a request past the acquisition.
LEMMA ClaimStaleStep ==
    ASSUME IInv, NEW q \in Requests, ClaimStale(q)
    PROVE  IInv'
<1> DEFINE k == req[q].key
           r == receipt[k]
<1>1. /\ req[q].pc = "load" /\ req[q].now <= clock
      /\ k \in Keys /\ req[q].env \in Envelopes
      /\ r # None /\ r \in Receipt /\ r.env = req[q].env
      /\ r.lease <= req[q].now
  BY Typing DEF IInv, RequestInv, HandlerOK, ClaimStale, TakeoverAllowed, Loadable, SameSubmission
<1>2. [[req[q] EXCEPT !.rec = r] EXCEPT !.pc = "takeover"] \in Request
  <2>1. "takeover" \in RequestPC
    BY DEF RequestPC
  <2> QED
    BY <1>1, <2>1, Typing DEF Request
<1>3. /\ req' \in [Requests -> Request]
      /\ req'[q].pc = "takeover" /\ req'[q].key = k /\ req'[q].env = req[q].env
      /\ req'[q].now = req[q].now /\ req'[q].rec = r
      /\ \A p \in Requests : p # q => req'[p] = req[p]
  BY <1>2, Typing DEF ClaimStale, Request
<1>4. UNCHANGED <<clock, storeVars, conf, published>>
  BY DEF ClaimStale
<1>5. TypeOK'
  BY <1>3, <1>4 DEF IInv, TypeOK, storeVars
<1>6. /\ receipt'[k] = r
      /\ r.owner # q
  BY <1>1, <1>4 DEF IInv, StoreInv, ReceiptOwners, Before, storeVars
<1> HIDE DEF k, r
<1>7. RequestInv(q)'
  <2>1. req'[r.owner].pc \notin {"idle", "claim", "load", "takeover"}
    BY <1>1, <1>3, <1>6 DEF IInv, StoreInv, ReceiptOwners, Before, Receipt, r, k
  <2>2. HandlerOK(q)' /\ BatchWritten(q)' /\ ReplyCommitted(q)' /\ LeaseIsReceipts(q)'
    BY <1>1, <1>3, <1>4
    DEF HandlerOK, BatchWritten, ReplyCommitted, LeaseIsReceipts, LeaseLive, Working
  <2>3. HeldIsCurrent(q)' /\ OwnerOnce(q)'
    BY <1>1, <1>3, <1>6, <2>1 DEF HeldIsCurrent, OwnerOnce, Before, ReceiptIs
  <2> QED
    BY <2>2, <2>3 DEF RequestInv
<1> QED
  BY <1>1, <1>3, <1>4, <1>5, <1>7, RequestLocal DEF Before, storeVars

\* IndexWrite preserves the invariant, which does not speak of the indexes.
LEMMA IndexWriteStep ==
    ASSUME IInv, NEW q \in Requests, NEW u \in Uins, IndexWrite(q, u)
    PROVE  IInv'
<1> DEFINE pc == IF req[q].todo = {u} THEN "write" ELSE "index"
<1>1. req[q].pc = "index" /\ Holds(q) /\ req[q].key \in Keys
  BY Typing DEF IndexWrite, Holds
<1>2. [[req[q] EXCEPT !.todo = req[q].todo \ {u}] EXCEPT !.pc = pc] \in Request
  <2>1. pc \in RequestPC
    BY DEF RequestPC
  <2>2. req[q].todo \ {u} \in SUBSET Uins
    BY Typing DEF Request
  <2> QED
    BY <2>1, <2>2, Typing DEF Request
<1>3. /\ req' \in [Requests -> Request]
      /\ req'[q].pc = pc
      /\ req'[q].key = req[q].key /\ req'[q].env = req[q].env
      /\ req'[q].now = req[q].now /\ req'[q].rec = req[q].rec
      /\ \A p \in Requests : p # q => req'[p] = req[p]
  BY <1>2, Typing DEF IndexWrite, Request
<1>4. UNCHANGED <<clock, receipt, rows, outbox, rowIndex, outboxIndex, conf, published>>
  BY DEF IndexWrite
<1>5. TypeOK'
  <2>1. receiptIndex' \subseteq ReceiptIndexEntry
    BY <1>1 DEF ReceiptIndexEntry, IndexWrite, IInv, TypeOK
  <2> QED
    BY <1>3, <1>4, <2>1 DEF IInv, TypeOK
<1>6. req'[q].pc \in {"index", "write"}
  BY <1>3
<1>7. ~Before(q) /\ \A p \in Requests : ~Before(p) => ~Before(p)'
  BY <1>1, <1>3, <1>6 DEF Before
<1>8. RequestInv(q) /\ req[q].rec.owner \in Requests
  BY <1>1, Typing DEF IInv
<1> HIDE DEF pc
<1>9. RequestInv(q)'
  <2>1. HandlerOK(q)' /\ HeldIsCurrent(q)' /\ OwnerOnce(q)'
    BY <1>1, <1>3, <1>4, <1>6, <1>7, <1>8
    DEF RequestInv, HandlerOK, HeldIsCurrent, OwnerOnce, Holds, Unexpired, ReceiptIs
  <2>2. BatchWritten(q)' /\ ReplyCommitted(q)' /\ LeaseIsReceipts(q)'
    BY <1>1, <1>3, <1>4, <1>6, <1>8
    DEF RequestInv, BatchWritten, ReplyCommitted, LeaseIsReceipts, LeaseLive, Working, Unexpired
  <2> QED
    BY <2>1, <2>2 DEF RequestInv
<1> QED
  BY <1>3, <1>4, <1>5, <1>7, <1>9, RequestLocal

\* Steps after the batch that only move the handler on.
LEMMA AdvanceStep ==
    ASSUME IInv, NEW q \in Requests, NEW pc,
           \/ req[q].pc = "mark" /\ pc = "cas"
           \/ req[q].pc = "publish" /\ pc = "reply"
           \/ req[q].pc = "reply" /\ pc = "acked",
           Goto(q, pc), published' \subseteq Delivery,
           UNCHANGED <<clock, storeVars, conf>>
    PROVE  IInv'
<1>1. pc \in RequestPC
  BY DEF RequestPC
<1>2. /\ req' \in [Requests -> Request]
      /\ req'[q].pc = pc
      /\ req'[q].key = req[q].key /\ req'[q].env = req[q].env
      /\ req'[q].now = req[q].now /\ req'[q].rec = req[q].rec
      /\ \A p \in Requests : p # q => req'[p] = req[p]
  BY <1>1, GotoTyping
<1>3. TypeOK'
  BY <1>2 DEF IInv, TypeOK, storeVars
<1>4. Holds(q) /\ Holds(q)' /\ \A p \in Requests : ~Before(p) => ~Before(p)'
  BY <1>2 DEF Holds, Before
<1>5. RequestInv(q) /\ req[q].rec.owner \in Requests
  BY <1>4, Typing DEF IInv
<1>6. HandlerOK(q)' /\ HeldIsCurrent(q)' /\ OwnerOnce(q)'
  BY <1>2, <1>4, <1>5
  DEF RequestInv, HandlerOK, HeldIsCurrent, OwnerOnce, Unexpired, ReceiptIs, storeVars
<1>7. BatchWritten(q)' /\ ReplyCommitted(q)'
  BY <1>2, <1>5 DEF RequestInv, BatchWritten, ReplyCommitted, Unexpired, SameRow, storeVars
<1>8. LeaseIsReceipts(q)'
  BY <1>2, <1>5
  DEF RequestInv, LeaseIsReceipts, LeaseLive, Working, Unexpired, storeVars
<1> QED
  BY <1>2, <1>3, <1>4, <1>6, <1>7, <1>8, RequestLocal DEF RequestInv, storeVars

\* Publish preserves the invariant: a delivery needs only its type.
LEMMA PublishStep ==
    ASSUME IInv, NEW q \in Requests, Publish(q) \/ PublishError(q) \/ Reply(q)
    PROVE  IInv'
<1>1. RequestDelivery(q) \in Delivery \/ req[q].pc # "publish"
  BY Typing DEF RequestDelivery, Delivery, Holds
<1>2. published' \subseteq Delivery
  BY <1>1 DEF Publish, PublishError, Reply, IInv, TypeOK
<1> QED
  BY <1>2, AdvanceStep DEF Publish, PublishError, Reply

\* MarkStoredLoad preserves the invariant: the handler moves on or gives up.
LEMMA MarkStoredLoadStep ==
    ASSUME IInv, NEW q \in Requests, MarkStoredLoad(q)
    PROVE  IInv'
<1>1. CASE LeaseHeld(q)
  <2>1. req[q].pc = "mark" /\ Goto(q, "cas") /\ UNCHANGED <<clock, storeVars, conf, published>>
    BY <1>1 DEF MarkStoredLoad
  <2>2. published' \subseteq Delivery
    BY <2>1 DEF IInv, TypeOK
  <2> QED
    BY <2>1, <2>2, AdvanceStep
<1>2. CASE ~LeaseHeld(q)
  BY <1>2, GiveUpStep DEF MarkStoredLoad
<1> QED
  BY <1>1, <1>2

\* A new receipt displaces none: whoever holds a live claim on the key has a
\* receipt, and the insert found none.
LEMMA ClaimInsertStep ==
    ASSUME IInv, NEW q \in Requests, ClaimInsert(q)
    PROVE  IInv'
<1> DEFINE n == NewReceipt(q)
           k == req[q].key
<1>0. /\ k \in Keys /\ req[q].env \in Envelopes /\ n \in Receipt /\ n # None
      /\ ErasureIndexUins(k, req[q].env) \in SUBSET Uins
  <2>1. req[q].pc = "claim" /\ req[q] \in Request /\ HandlerOK(q)
    BY Typing DEF ClaimInsert, IInv, RequestInv
  <2>2. k \in Keys /\ req[q].env \in Envelopes
    BY <2>1 DEF HandlerOK
  <2>3. n \in Receipt
    BY <2>1, <2>2, KeysAssumption, TimeAssumption DEF NewReceipt, LeaseUntil, Receipt, Request
  <2> QED
    BY <2>2, <2>3, KeysAssumption, NoneAssumption DEF ErasureIndexUins
<1>1. /\ req[q].pc = "claim"
      /\ req[q].now <= clock
      /\ receipt[k] = None
      /\ n.env = req[q].env /\ n.created = req[q].now /\ n.owner = q /\ n.state = "pending"
  BY <1>0 DEF ClaimInsert, NewReceipt, IInv, RequestInv, HandlerOK
<1>2. /\ req' \in [Requests -> Request]
      /\ req'[q].pc = "index" /\ req'[q].key = k /\ req'[q].env = req[q].env
      /\ req'[q].now = req[q].now /\ req'[q].rec = n
      /\ \A p \in Requests : p # q => req'[p] = req[p]
  <2>1. "index" \in RequestPC
    BY DEF RequestPC
  <2>2. [[[req[q] EXCEPT !.pc = "index"] EXCEPT !.rec = n]
            EXCEPT !.todo = ErasureIndexUins(k, req[q].env)] \in Request
    BY <1>0, <2>1, Typing DEF Request
  <2> QED
    BY <2>2, Typing DEF ClaimInsert, Request
<1>3. /\ receipt' \in [Keys -> Receipt \union {None}]
      /\ receipt'[k] = n
      /\ \A j \in Keys : j # k => receipt'[j] = receipt[j]
  BY <1>0, Typing DEF ClaimInsert
<1>4. UNCHANGED <<clock, rows, outbox, receiptIndex, rowIndex, outboxIndex, conf, published>>
  BY DEF ClaimInsert
<1> HIDE DEF n, k
<1>5. TypeOK'
  BY <1>2, <1>3, <1>4 DEF IInv, TypeOK
<1>6. \A p \in Requests : ~Before(p) => ~Before(p)' /\ p # q
  BY <1>1, <1>2 DEF Before
<1>7. RequestInv(q)'
  <2>1. HandlerOK(q)' /\ BatchWritten(q)' /\ ReplyCommitted(q)'
    BY <1>0, <1>1, <1>2, <1>4 DEF HandlerOK, BatchWritten, ReplyCommitted
  <2>2. HeldIsCurrent(q)' /\ OwnerOnce(q)' /\ LeaseIsReceipts(q)'
    BY <1>0, <1>1, <1>2, <1>3
    DEF HeldIsCurrent, OwnerOnce, Before, LeaseIsReceipts, LeaseLive, Working, ReceiptIs
  <2> QED
    BY <2>1, <2>2 DEF RequestInv
<1>8. ASSUME NEW p \in Requests, p # q PROVE RequestInv(p)'
  <2>1. req'[p] = req[p] /\ RequestInv(p)
    BY <1>2, <1>8 DEF IInv
  <2>2. Holds(p)' = Holds(p) /\ Working(p)' = Working(p) /\ LeaseLive(p)' = LeaseLive(p)
    BY <1>4, <2>1 DEF Holds, Working, LeaseLive, Unexpired
  <2>3. HandlerOK(p)' /\ HeldIsCurrent(p)'
    BY <1>1, <1>3, <1>4, <2>1, <2>2, Typing
    DEF RequestInv, HandlerOK, HeldIsCurrent, Unexpired, ReceiptIs
  <2>4. OwnerOnce(p)'
    <3>1. Holds(p) => req[p].rec.owner \in Requests /\ req[p].key \in Keys
      BY Typing
    <3>2. Holds(p) => req[p].rec.owner # q /\ req'[req[p].rec.owner] = req[req[p].rec.owner]
      BY <1>2, <1>6, <2>1, <3>1 DEF RequestInv, OwnerOnce
    <3> QED
      BY <1>1, <1>3, <2>1, <2>2, <3>1, <3>2 DEF RequestInv, OwnerOnce, Before
  <2>5. Holds(p) /\ Unexpired(req[p].rec.created) => receipt'[req[p].key] = receipt[req[p].key]
    BY <1>1, <1>3, <2>1, Typing DEF RequestInv, HeldIsCurrent, ReceiptIs
  <2>6. BatchWritten(p)' /\ ReplyCommitted(p)' /\ LeaseIsReceipts(p)'
    BY <1>4, <2>1, <2>2, <2>5
    DEF RequestInv, BatchWritten, ReplyCommitted, LeaseIsReceipts, LeaseLive, Working,
        Holds, Unexpired, SameRow
  <2> QED
    BY <2>3, <2>4, <2>6 DEF RequestInv
<1>9. StoreInv'
  <2>1. ReceiptOwners'
    BY <1>0, <1>1, <1>2, <1>3, <1>6, Typing DEF IInv, StoreInv, ReceiptOwners, Before
  <2>2. CommittedStored'
    BY <1>1, <1>3, <1>4 DEF IInv, StoreInv, CommittedStored, Unexpired, SameRow
  <2>3. RowsAreReceipts'
    BY <1>1, <1>3, <1>4 DEF IInv, TypeOK, Row, StoreInv, RowsAreReceipts, Unexpired, ReceiptIs
  <2> QED
    BY <2>1, <2>2, <2>3 DEF StoreInv
<1>10. ASSUME NEW d \in Confirmers PROVE ConfirmerInv(d)'
  BY <1>1, <1>3, <1>4 DEF IInv, ConfirmerInv, Unexpired
<1> QED
  BY <1>5, <1>7, <1>8, <1>9, <1>10 DEF IInv

\* A takeover replaces only a lapsed lease: the old owner keeps its work but
\* no longer its lease.
LEMMA TakeoverStep ==
    ASSUME IInv, NEW q \in Requests, Takeover(q)
    PROVE  IInv'
<1> DEFINE k == req[q].key
           r == receipt[k]
           n == [[r EXCEPT !.owner = q] EXCEPT !.lease = LeaseUntil(req[q].now)]
           m == [[req[q].rec EXCEPT !.owner = q] EXCEPT !.lease = LeaseUntil(req[q].now)]
<1>0. /\ req[q].pc = "takeover" /\ Holds(q) /\ RequestInv(q)
      /\ k \in Keys /\ req[q].rec \in Receipt /\ req[q].env \in Envelopes
      /\ r # None /\ r \in Receipt
      /\ r.state = "pending" /\ r.owner = req[q].rec.owner /\ r.lease = req[q].rec.lease
  BY Typing DEF Takeover, OwnedAsLoaded, Holds, IInv
<1>1. LeaseUntil(req[q].now) \in Nat
  BY Typing, TimeAssumption DEF LeaseUntil, Request
<1>2. /\ n \in Receipt /\ n # None /\ m \in Receipt
      /\ n.owner = q /\ n.lease = LeaseUntil(req[q].now) /\ n.created = r.created
      /\ n.env = r.env /\ n.state = "pending"
      /\ m.owner = q /\ m.lease = LeaseUntil(req[q].now) /\ m.created = req[q].rec.created
      /\ m.env = req[q].rec.env
  BY <1>0, <1>1, NoneAssumption DEF Receipt
<1>3. /\ req' \in [Requests -> Request]
      /\ req'[q].pc = "write" /\ req'[q].key = k /\ req'[q].env = req[q].env
      /\ req'[q].now = req[q].now /\ req'[q].rec = m
      /\ \A p \in Requests : p # q => req'[p] = req[p]
  <2>1. "write" \in RequestPC
    BY DEF RequestPC
  <2>2. [[req[q] EXCEPT !.pc = "write"] EXCEPT !.rec = m] \in Request
    BY <1>2, <2>1, Typing DEF Request
  <2>3. req' = [req EXCEPT ![q] = [[req[q] EXCEPT !.pc = "write"] EXCEPT !.rec = m]]
    BY Typing DEF Takeover, Request
  <2> QED
    BY <2>2, <2>3, Typing DEF Request
<1>4. /\ receipt' \in [Keys -> Receipt \union {None}]
      /\ receipt'[k] = n
      /\ \A j \in Keys : j # k => receipt'[j] = receipt[j]
  <2>1. receipt' = [receipt EXCEPT ![k] = n]
    BY DEF Takeover
  <2> QED
    BY <1>0, <1>2, <2>1, Typing
<1>5. UNCHANGED <<clock, rows, outbox, receiptIndex, rowIndex, outboxIndex, conf, published>>
  BY DEF Takeover
<1>6. r.created = req[q].rec.created /\ r.lease <= clock
  BY <1>0, Typing DEF RequestInv, OwnerOnce, LeaseIsReceipts, HandlerOK, Request
<1> HIDE DEF n, m, r, k
<1>7. TypeOK'
  BY <1>3, <1>4, <1>5 DEF IInv, TypeOK
<1>8. \A p \in Requests : ~Before(p) => ~Before(p)' /\ p # q
  BY <1>0, <1>3 DEF Before
<1>9. receipt[k] = r /\ req[q].key = k
  BY DEF r, k
<1>10. RequestInv(q)'
  <2>1. HandlerOK(q)' /\ BatchWritten(q)' /\ ReplyCommitted(q)'
    BY <1>0, <1>2, <1>3, <1>5 DEF RequestInv, HandlerOK, BatchWritten, ReplyCommitted
  <2>2. HeldIsCurrent(q)'
    BY <1>0, <1>2, <1>3, <1>4, <1>5, <1>9 DEF RequestInv, HeldIsCurrent, ReceiptIs, Unexpired
  <2>3. OwnerOnce(q)' /\ LeaseIsReceipts(q)'
    BY <1>2, <1>3, <1>4, <1>6 DEF OwnerOnce, Before, LeaseIsReceipts, LeaseLive, Working
  <2> QED
    BY <2>1, <2>2, <2>3 DEF RequestInv
<1>11. ASSUME NEW p \in Requests, p # q PROVE RequestInv(p)'
  <2>1. req'[p] = req[p] /\ RequestInv(p)
    BY <1>3, <1>11 DEF IInv
  <2>2. Holds(p)' = Holds(p) /\ Working(p)' = Working(p) /\ LeaseLive(p)' = LeaseLive(p)
    BY <1>5, <2>1 DEF Holds, Working, LeaseLive, Unexpired
  <2>3. HandlerOK(p)' /\ HeldIsCurrent(p)'
    BY <1>2, <1>4, <1>5, <1>9, <2>1, <2>2, Typing
    DEF RequestInv, HandlerOK, HeldIsCurrent, Unexpired, ReceiptIs
  <2>4. OwnerOnce(p)'
    <3>1. Holds(p) => req[p].rec.owner \in Requests /\ req[p].key \in Keys
      BY Typing
    <3>2. Holds(p) => req[p].rec.owner # q /\ req'[req[p].rec.owner] = req[req[p].rec.owner]
      BY <1>3, <1>8, <2>1, <3>1 DEF RequestInv, OwnerOnce
    <3> QED
      BY <1>2, <1>4, <1>9, <2>1, <2>2, <3>1, <3>2 DEF RequestInv, OwnerOnce, Before
  <2>5. BatchWritten(p)' /\ ReplyCommitted(p)'
    <3>1. Holds(p) => receipt'[req[p].key].state = receipt[req[p].key].state
      BY <1>0, <1>2, <1>4, <1>9, Typing
    <3> QED
      BY <1>5, <2>1, <3>1 DEF RequestInv, BatchWritten, ReplyCommitted, Holds, Unexpired, SameRow
  <2>6. LeaseIsReceipts(p)'
    <3>1. ASSUME LeaseLive(p) PROVE req[p].key # k
      BY <1>6, <1>9, <2>1, <3>1, Typing
      DEF RequestInv, LeaseIsReceipts, LeaseLive, Working, Holds
    <3>2. LeaseLive(p) => receipt'[req[p].key] = receipt[req[p].key]
      BY <1>4, <3>1, Typing DEF LeaseLive, Working, Holds
    <3> QED
      BY <2>1, <2>2, <3>2 DEF RequestInv, LeaseIsReceipts
  <2> QED
    BY <2>3, <2>4, <2>5, <2>6 DEF RequestInv
<1>12. StoreInv'
  <2>1. ReceiptOwners'
    BY <1>2, <1>3, <1>4, <1>8, Typing DEF IInv, StoreInv, ReceiptOwners, Before
  <2>2. CommittedStored'
    BY <1>2, <1>4, <1>5 DEF IInv, StoreInv, CommittedStored, Unexpired, SameRow
  <2>3. RowsAreReceipts'
    BY <1>2, <1>4, <1>5, <1>9 DEF IInv, TypeOK, Row, StoreInv, RowsAreReceipts, Unexpired, ReceiptIs
  <2> QED
    BY <2>1, <2>2, <2>3 DEF StoreInv
<1>13. ASSUME NEW d \in Confirmers PROVE ConfirmerInv(d)'
  BY <1>0, <1>2, <1>4, <1>5, <1>9 DEF IInv, ConfirmerInv, Unexpired
<1> QED
  BY <1>7, <1>10, <1>11, <1>12, <1>13 DEF IInv

\* The batch rewrites, if at all, the row that is already there: an unexpired
\* row has the envelope of the receipt, and so has the writer.
LEMMA WriteBatchStep ==
    ASSUME IInv, NEW q \in Requests, WriteBatch(q)
    PROVE  IInv'
<1> DEFINE k == req[q].key
           c == req[q].rec.created
           e == req[q].env
           row == [key |-> k, created |-> c, env |-> e]
           out == [key |-> k, created |-> c, env |-> req[q].rec.env, to |-> req[q].rec.to]
<1>0. /\ req[q].pc = "write" /\ Holds(q) /\ RequestInv(q) /\ Unexpired(c)
      /\ k \in Keys /\ c \in Nat /\ e \in Envelopes /\ req[q].rec \in Receipt
      /\ req[q].rec.env = e /\ req[q].rec.to \in SUBSET Uins
      /\ ReceiptIs(k, c, e)
      /\ UNCHANGED <<clock, receipt, receiptIndex, conf, published>>
  <2>1. req[q].pc = "write" /\ Holds(q) /\ RequestInv(q) /\ Unexpired(c)
    BY DEF WriteBatch, Holds, IInv
  <2> QED
    BY <2>1, Typing DEF WriteBatch, RequestInv, HeldIsCurrent, Receipt
<1>1. "mark" \in RequestPC /\ Goto(q, "mark")
  BY DEF RequestPC, WriteBatch
<1>2. /\ req' \in [Requests -> Request]
      /\ req'[q].pc = "mark" /\ req'[q].key = k /\ req'[q].env = e
      /\ req'[q].now = req[q].now /\ req'[q].rec = req[q].rec
      /\ \A p \in Requests : p # q => req'[p] = req[p]
  BY <1>1, GotoTyping
<1>3. row \in Row /\ out \in OutboxEntry
  BY <1>0 DEF Row, OutboxEntry
<1>4. /\ rows' = {x \in rows : ~SameRow(x, k, c)} \union {row}
      /\ outbox' = {x \in outbox : ~SameRow(x, k, c)} \union {out}
  BY DEF WriteBatch, Upsert
<1>5. TypeOK'
  <2>1. rowIndex' \subseteq RowIndexEntry
    <3>1. RowIndexEntries(k, c, e) \subseteq RowIndexEntry
      BY <1>0, KeysAssumption DEF RowIndexEntries, RowIndexUins, RowIndexEntry, Kind
    <3> QED
      BY <3>1 DEF WriteBatch, IInv, TypeOK
  <2>2. outboxIndex' \subseteq OutboxIndexEntry
    <3>1. OutboxIndexEntries(k, c, e, req[q].rec.to) \subseteq OutboxIndexEntry
      BY <1>0, KeysAssumption DEF OutboxIndexEntries, OutboxIndexEntry, Kind
    <3> QED
      BY <3>1 DEF WriteBatch, IInv, TypeOK
  <2>3. rows' \subseteq Row /\ outbox' \subseteq OutboxEntry
    BY <1>3, <1>4 DEF IInv, TypeOK
  <2> QED
    BY <1>0, <1>2, <2>1, <2>2, <2>3 DEF IInv, TypeOK
<1>6. /\ \A x \in rows : x \in rows'
      /\ row \in rows'
      /\ \A x \in rows' : x \in rows \/ x = row
  <2>1. ASSUME NEW x \in rows, SameRow(x, k, c) PROVE x = row
    <3>1. x \in Row /\ x.key = k /\ x.created = c
      BY <2>1 DEF IInv, TypeOK, SameRow
    <3>2. x.env = e
      BY <1>0, <2>1, <3>1 DEF IInv, StoreInv, RowsAreReceipts, ReceiptIs
    <3> QED
      BY <3>1, <3>2 DEF Row
  <2> QED
    BY <1>4, <2>1
<1>7. /\ \A j, b : (\E o \in outbox : SameRow(o, j, b)) => \E o \in outbox' : SameRow(o, j, b)
      /\ \E o \in outbox' : SameRow(o, k, c)
  <2>1. out \in outbox' /\ SameRow(out, k, c)
    BY <1>4 DEF SameRow
  <2>2. ASSUME NEW j, NEW b, NEW o \in outbox, SameRow(o, j, b)
        PROVE  \E x \in outbox' : SameRow(x, j, b)
    <3>1. CASE SameRow(o, k, c)
      BY <2>1, <2>2, <3>1 DEF SameRow
    <3>2. CASE ~SameRow(o, k, c)
      BY <1>4, <2>2, <3>2
    <3> QED
      BY <3>1, <3>2
  <2> QED
    BY <2>1, <2>2
<1>8. req[q].key = k /\ req[q].rec.created = c /\ req[q].env = e
  OBVIOUS
<1>9. row.key = k /\ row.created = c /\ row.env = e
      /\ row = [key |-> k, created |-> c, env |-> e]
  OBVIOUS
<1> HIDE DEF k, c, e, row, out
<1>10. \A p \in Requests : ~Before(p) => ~Before(p)'
  BY <1>0, <1>2 DEF Before
<1>11. RequestInv(q)'
  <2>1. HandlerOK(q)' /\ HeldIsCurrent(q)' /\ OwnerOnce(q)'
    BY <1>0, <1>2, <1>8, <1>10, Typing
    DEF RequestInv, HandlerOK, HeldIsCurrent, OwnerOnce, Holds, Unexpired, ReceiptIs
  <2>2. BatchWritten(q)'
    BY <1>2, <1>6, <1>7, <1>8, <1>9 DEF BatchWritten
  <2>3. ReplyCommitted(q)' /\ LeaseIsReceipts(q)'
    BY <1>0, <1>2, <1>8
    DEF RequestInv, ReplyCommitted, LeaseIsReceipts, LeaseLive, Working, Unexpired
  <2> QED
    BY <2>1, <2>2, <2>3 DEF RequestInv
<1>12. ASSUME NEW p \in Requests, p # q PROVE RequestInv(p)'
  <2>1. req'[p] = req[p] /\ RequestInv(p)
    BY <1>2, <1>12 DEF IInv
  <2>2. Holds(p)' = Holds(p) /\ Working(p)' = Working(p) /\ LeaseLive(p)' = LeaseLive(p)
    BY <1>0, <2>1 DEF Holds, Working, LeaseLive, Unexpired
  <2>3. HandlerOK(p)' /\ HeldIsCurrent(p)' /\ ReplyCommitted(p)' /\ LeaseIsReceipts(p)'
    BY <1>0, <2>1, <2>2
    DEF RequestInv, HandlerOK, HeldIsCurrent, ReplyCommitted, LeaseIsReceipts, Unexpired, ReceiptIs
  <2>4. OwnerOnce(p)'
    BY <1>0, <1>10, <2>1, <2>2, Typing DEF RequestInv, OwnerOnce
  <2>5. BatchWritten(p)'
    BY <1>0, <1>6, <1>7, <2>1 DEF RequestInv, BatchWritten, Unexpired
  <2> QED
    BY <2>3, <2>4, <2>5 DEF RequestInv
<1>13. StoreInv'
  <2>1. ReceiptOwners'
    BY <1>0, <1>10, Typing DEF IInv, StoreInv, ReceiptOwners
  <2>2. CommittedStored'
    BY <1>0, <1>6, <1>7 DEF IInv, StoreInv, CommittedStored, Unexpired
  <2>3. RowsAreReceipts'
    BY <1>0, <1>6, <1>9 DEF IInv, StoreInv, RowsAreReceipts, Unexpired, ReceiptIs
  <2> QED
    BY <2>1, <2>2, <2>3 DEF StoreInv
<1>14. ASSUME NEW d \in Confirmers PROVE ConfirmerInv(d)'
  BY <1>0 DEF IInv, ConfirmerInv, Unexpired
<1> QED
  BY <1>5, <1>11, <1>12, <1>13, <1>14 DEF IInv

\* Marking a receipt stored or delivered disturbs no other request.
LEMMA CommitPreservesRequest ==
    ASSUME IInv, NEW k \in Keys, receipt[k] # None, NEW st \in {"stored", "delivered"},
           receipt' = [receipt EXCEPT ![k].state = st],
           UNCHANGED <<clock, rows, outbox>>,
           \A x \in Requests : ~Before(x) => ~Before(x)'
    PROVE  /\ receipt' \in [Keys -> Receipt \union {None}]
           /\ receipt'[k] # None /\ receipt'[k].state = st
           /\ \A j \in Keys :
                 receipt[j] # None =>
                   /\ receipt'[j] # None /\ receipt'[j].owner = receipt[j].owner
                   /\ receipt'[j].lease = receipt[j].lease
                   /\ receipt'[j].created = receipt[j].created
                   /\ receipt'[j].env = receipt[j].env
           /\ \A j \in Keys : j # k => receipt'[j] = receipt[j]
           /\ \A p \in Requests : req'[p] = req[p] => RequestInv(p)'
           /\ ReceiptOwners' /\ RowsAreReceipts'
<1> DEFINE n == [receipt[k] EXCEPT !.state = st]
<1>1. /\ n \in Receipt /\ n # None /\ n.state = st
      /\ n.owner = receipt[k].owner /\ n.lease = receipt[k].lease
      /\ n.created = receipt[k].created /\ n.env = receipt[k].env
  BY Typing, NoneAssumption DEF Receipt
<1>2. receipt' \in [Keys -> Receipt \union {None}] /\ receipt'[k] = n
      /\ \A j \in Keys : j # k => receipt'[j] = receipt[j]
  BY <1>1, Typing
<1> HIDE DEF n
<1>3. ASSUME NEW p \in Requests, req'[p] = req[p] PROVE RequestInv(p)'
  <2>1. RequestInv(p)
    BY DEF IInv
  <2>2. Holds(p)' = Holds(p) /\ Working(p)' = Working(p) /\ LeaseLive(p)' = LeaseLive(p)
    BY <1>3 DEF Holds, Working, LeaseLive, Unexpired
  <2>3. HandlerOK(p)' /\ HeldIsCurrent(p)' /\ OwnerOnce(p)'
    BY <1>1, <1>2, <1>3, <2>1, <2>2, Typing
    DEF RequestInv, HandlerOK, HeldIsCurrent, OwnerOnce, Unexpired, ReceiptIs
  <2>4. BatchWritten(p)' /\ ReplyCommitted(p)'
    BY <1>1, <1>2, <1>3, <2>1, Typing
    DEF RequestInv, BatchWritten, ReplyCommitted, Holds, Unexpired, SameRow
  <2>5. LeaseIsReceipts(p)'
    BY <1>1, <1>2, <1>3, <2>1, <2>2, Typing
    DEF RequestInv, LeaseIsReceipts, LeaseLive, Working, Holds
  <2> QED
    BY <2>3, <2>4, <2>5 DEF RequestInv
<1>4. ReceiptOwners'
  BY <1>1, <1>2, Typing DEF IInv, StoreInv, ReceiptOwners
<1>5. RowsAreReceipts'
  BY <1>1, <1>2 DEF IInv, TypeOK, Row, StoreInv, RowsAreReceipts, Unexpired, ReceiptIs
<1> QED
  BY <1>1, <1>2, <1>3, <1>4, <1>5

\* The compare-and-set finds the receipt the request acquired, and the batch
\* of that receipt is already written.
LEMMA MarkStoredCASStep ==
    ASSUME IInv, NEW q \in Requests, MarkStoredCAS(q)
    PROVE  IInv'
<1> DEFINE k == req[q].key
<1>0. /\ req[q].pc = "cas" /\ Holds(q) /\ RequestInv(q) /\ k \in Keys
      /\ receipt[k] # None /\ receipt[k].state = "pending"
      /\ receipt[k].owner = req[q].rec.owner
      /\ receipt' = [receipt EXCEPT ![k].state = "stored"]
      /\ UNCHANGED <<clock, rows, outbox, receiptIndex, rowIndex, outboxIndex, conf, published>>
  BY Typing DEF MarkStoredCAS, OwnedAsLoaded, Holds, IInv
<1>1. "publish" \in RequestPC /\ Goto(q, "publish")
  BY DEF RequestPC, MarkStoredCAS
<1>2. /\ req' \in [Requests -> Request]
      /\ req'[q].pc = "publish" /\ req'[q].key = k /\ req'[q].env = req[q].env
      /\ req'[q].now = req[q].now /\ req'[q].rec = req[q].rec
      /\ \A p \in Requests : p # q => req'[p] = req[p]
  BY <1>1, GotoTyping
<1>3. \A p \in Requests : ~Before(p) => ~Before(p)'
  BY <1>0, <1>2 DEF Before
<1>4. /\ receipt' \in [Keys -> Receipt \union {None}]
      /\ receipt'[k] # None /\ receipt'[k].state = "stored"
      /\ \A j \in Keys :
            receipt[j] # None =>
              /\ receipt'[j] # None /\ receipt'[j].owner = receipt[j].owner
              /\ receipt'[j].lease = receipt[j].lease
              /\ receipt'[j].created = receipt[j].created
              /\ receipt'[j].env = receipt[j].env
      /\ \A j \in Keys : j # k => receipt'[j] = receipt[j]
      /\ \A p \in Requests : req'[p] = req[p] => RequestInv(p)'
      /\ ReceiptOwners' /\ RowsAreReceipts'
  BY <1>0, <1>3, CommitPreservesRequest
<1> HIDE DEF k
<1>5. TypeOK'
  BY <1>0, <1>2, <1>4 DEF IInv, TypeOK
<1>6. req[q].key = k /\ receipt[k].created = req[q].rec.created
  BY <1>0 DEF RequestInv, OwnerOnce, k
<1>7. RequestInv(q)'
  <2>1. HandlerOK(q)' /\ HeldIsCurrent(q)'
    BY <1>0, <1>2, <1>4, <1>6
    DEF RequestInv, HandlerOK, HeldIsCurrent, Holds, Unexpired, ReceiptIs
  <2>2. OwnerOnce(q)'
    BY <1>0, <1>2, <1>3, <1>4, <1>6, Typing DEF RequestInv, OwnerOnce
  <2>3. BatchWritten(q)' /\ ReplyCommitted(q)' /\ LeaseIsReceipts(q)'
    BY <1>2, <1>4 DEF BatchWritten, ReplyCommitted, LeaseIsReceipts, LeaseLive, Working
  <2> QED
    BY <2>1, <2>2, <2>3 DEF RequestInv
<1>8. CommittedStored'
  <2>1. Unexpired(receipt[k].created) =>
          /\ [key |-> k, created |-> receipt[k].created, env |-> receipt[k].env] \in rows
          /\ \E o \in outbox : SameRow(o, k, receipt[k].created)
    BY <1>0, <1>6 DEF RequestInv, BatchWritten, HeldIsCurrent, ReceiptIs
  <2> QED
    BY <1>0, <1>4, <2>1 DEF IInv, StoreInv, CommittedStored, Unexpired, SameRow
<1>9. ASSUME NEW d \in Confirmers PROVE ConfirmerInv(d)'
  BY <1>0, <1>4 DEF IInv, ConfirmerInv, Unexpired
<1> QED
  BY <1>2, <1>4, <1>5, <1>7, <1>8, <1>9 DEF IInv, StoreInv

\* A step of one delivery-receipt handler that leaves the store alone.
LEMMA ConfirmerLocal ==
    ASSUME IInv, NEW d \in Confirmers, NEW x \in Confirmation,
           conf' = [conf EXCEPT ![d] = x], ConfirmerInv(d)',
           UNCHANGED <<clock, storeVars, req, published>>
    PROVE  IInv'
<1>1. /\ conf' \in [Confirmers -> Confirmation]
      /\ \A f \in Confirmers : f # d => conf'[f] = conf[f]
  BY Typing
<1>2. TypeOK'
  BY <1>1 DEF IInv, TypeOK, storeVars
<1>3. ASSUME NEW p \in Requests PROVE RequestInv(p)'
  <2>1. RequestInv(p)
    BY DEF IInv
  <2>2. Holds(p)' = Holds(p) /\ Working(p)' = Working(p) /\ LeaseLive(p)' = LeaseLive(p)
    BY DEF Holds, Working, LeaseLive, Unexpired
  <2> QED
    BY <2>1, <2>2
    DEF RequestInv, HandlerOK, HeldIsCurrent, OwnerOnce, Before, BatchWritten, ReplyCommitted,
        LeaseIsReceipts, Unexpired, ReceiptIs, SameRow, storeVars
<1>4. StoreInv'
  BY DEF IInv, StoreInv, ReceiptOwners, Before, CommittedStored, RowsAreReceipts,
         Unexpired, ReceiptIs, SameRow, storeVars
<1>5. ASSUME NEW f \in Confirmers PROVE ConfirmerInv(f)'
  <2>1. CASE f = d
    BY <2>1
  <2>2. CASE f # d
    BY <1>1, <2>2 DEF IInv, ConfirmerInv, Unexpired, storeVars
  <2> QED
    BY <2>1, <2>2
<1> QED
  BY <1>2, <1>3, <1>4, <1>5 DEF IInv

\* ConfirmStart preserves the invariant: the key is that of a publication.
LEMMA ConfirmStartStep ==
    ASSUME IInv, NEW d \in Confirmers, NEW m \in published, ConfirmStart(d, m)
    PROVE  IInv'
<1> DEFINE x == [[conf[d] EXCEPT !.pc = "load"] EXCEPT !.key = m.key]
<1>1. m.key \in Keys
  BY DEF IInv, TypeOK, Delivery
<1>2. x \in Confirmation /\ x.pc = "load" /\ x.key = m.key
  BY <1>1, Typing DEF Confirmation, ConfirmerPC
<1>3. conf' = [conf EXCEPT ![d] = x]
  BY Typing DEF ConfirmStart, Confirmation
<1> HIDE DEF x
<1>4. ConfirmerInv(d)'
  BY <1>1, <1>2, <1>3, Typing DEF ConfirmerInv
<1> QED
  BY <1>2, <1>3, <1>4, ConfirmerLocal DEF ConfirmStart

\* ConfirmLoad preserves the invariant: a handler that goes on to delete the
\* outbox row has seen the receipt delivered.
LEMMA ConfirmLoadStep ==
    ASSUME IInv, NEW d \in Confirmers, ConfirmLoad(d)
    PROVE  IInv'
<1> DEFINE r == receipt[conf[d].key]
           pc == IF r.state = "delivered" THEN "delete" ELSE "cas"
           x == [[conf[d] EXCEPT !.created = r.created] EXCEPT !.pc = pc]
<1>1. conf[d].key \in Keys /\ r # None /\ r.created \in Nat
  BY Typing DEF ConfirmLoad, IInv, ConfirmerInv, Loadable
<1>2. x \in Confirmation /\ x.pc = pc /\ x.key = conf[d].key /\ x.created = r.created
  BY <1>1, Typing DEF Confirmation, ConfirmerPC
<1>3. conf' = [conf EXCEPT ![d] = x]
  BY Typing DEF ConfirmLoad, Confirmation
<1>4. UNCHANGED <<clock, storeVars, req, published>>
  BY DEF ConfirmLoad
<1>5. ConfirmerInv(d)'
  <2>1. conf'[d] = x /\ receipt' = receipt
    BY <1>3, <1>4, Typing DEF storeVars
  <2>2. pc = "delete" => r.state = "delivered"
    OBVIOUS
  <2> HIDE DEF x, pc
  <2> QED
    BY <1>1, <1>2, <2>1, <2>2 DEF ConfirmerInv
<1> QED
  BY <1>2, <1>3, <1>4, <1>5, ConfirmerLocal

\* ConfirmFail preserves the invariant: the handler forgets what it held.
LEMMA ConfirmFailStep ==
    ASSUME IInv, NEW d \in Confirmers, ConfirmFail(d)
    PROVE  IInv'
<1>1. NoConfirmation \in Confirmation /\ NoConfirmation.pc = "idle"
  BY DEF NoConfirmation, Confirmation, ConfirmerPC
<1>2. conf' = [conf EXCEPT ![d] = NoConfirmation]
  BY DEF ConfirmFail, ConfirmEnd
<1>3. ConfirmerInv(d)'
  BY <1>1, <1>2, Typing DEF ConfirmerInv
<1> QED
  BY <1>1, <1>2, <1>3, ConfirmerLocal DEF ConfirmFail

\* ConfirmCAS preserves the invariant: delivered follows stored, and the
\* handlers that wait for the receipt accept both.
LEMMA ConfirmCASStep ==
    ASSUME IInv, NEW d \in Confirmers, ConfirmCAS(d)
    PROVE  IInv'
<1> DEFINE k == conf[d].key
           x == [conf[d] EXCEPT !.pc = "delete"]
<1>0. /\ conf[d].pc = "cas" /\ k \in Keys /\ ConfirmerInv(d)
      /\ receipt[k] # None /\ receipt[k].state = "stored"
      /\ receipt' = [receipt EXCEPT ![k].state = "delivered"]
      /\ UNCHANGED <<clock, rows, outbox, receiptIndex, rowIndex, outboxIndex, req, published>>
  BY DEF ConfirmCAS, IInv, ConfirmerInv
<1>1. /\ x \in Confirmation /\ x.pc = "delete" /\ x.key = k /\ x.created = conf[d].created
      /\ conf' = [conf EXCEPT ![d] = x]
  BY Typing DEF ConfirmCAS, Confirmation, ConfirmerPC
<1>2. /\ conf' \in [Confirmers -> Confirmation] /\ conf'[d] = x
      /\ \A f \in Confirmers : f # d => conf'[f] = conf[f]
  BY <1>1, Typing
<1>3. \A p \in Requests : ~Before(p) => ~Before(p)'
  BY <1>0 DEF Before
<1>4. /\ receipt' \in [Keys -> Receipt \union {None}]
      /\ receipt'[k] # None /\ receipt'[k].state = "delivered"
      /\ \A j \in Keys :
            receipt[j] # None =>
              /\ receipt'[j] # None /\ receipt'[j].owner = receipt[j].owner
              /\ receipt'[j].lease = receipt[j].lease
              /\ receipt'[j].created = receipt[j].created
              /\ receipt'[j].env = receipt[j].env
      /\ \A j \in Keys : j # k => receipt'[j] = receipt[j]
      /\ \A p \in Requests : req'[p] = req[p] => RequestInv(p)'
      /\ ReceiptOwners' /\ RowsAreReceipts'
  BY <1>0, <1>3, CommitPreservesRequest
<1>5. TypeOK'
  BY <1>0, <1>2, <1>4 DEF IInv, TypeOK
<1> HIDE DEF x, k
<1>6. CommittedStored'
  BY <1>0, <1>4 DEF IInv, StoreInv, CommittedStored, Unexpired, SameRow
<1>7. ASSUME NEW f \in Confirmers PROVE ConfirmerInv(f)'
  <2>1. CASE f = d
    BY <1>0, <1>1, <1>2, <1>4, <2>1 DEF ConfirmerInv, Unexpired, k
  <2>2. CASE f # d
    BY <1>0, <1>2, <1>4, <2>2 DEF IInv, ConfirmerInv, Unexpired
  <2> QED
    BY <2>1, <2>2
<1> QED
  BY <1>0, <1>4, <1>5, <1>6, <1>7 DEF IInv, StoreInv

\* A message created at c is still unexpired after the step.
StillUnexpired(c) == clock' < ExpiresAt(c)

\* A step that removes rows, outbox rows or receipts, or lets time pass, keeps
\* the invariant if it removes nothing an unexpired receipt depends on.
LEMMA ShrinkStep ==
    ASSUME IInv, TypeOK', clock <= clock', UNCHANGED req,
           \A d \in Confirmers : conf'[d] = conf[d] \/ conf'[d].pc = "idle",
           \A k \in Keys :
              \/ receipt'[k] = receipt[k]
              \/ receipt'[k] = None /\ receipt[k] # None /\ ~StillUnexpired(receipt[k].created),
           rows' \subseteq rows,
           \A r \in rows : StillUnexpired(r.created) => r \in rows',
           \A k \in Keys, b \in Nat :
              /\ \E o \in outbox : SameRow(o, k, b)
              /\ StillUnexpired(b)
              /\ ReceiptIs(k, b, receipt[k].env) /\ receipt[k].state # "delivered"
              => \E o \in outbox' : SameRow(o, k, b)
    PROVE  IInv'
<1>1. \A b \in Nat : StillUnexpired(b) => Unexpired(b)
  BY Typing, TimeAssumption DEF IInv, TypeOK, Unexpired, StillUnexpired, ExpiresAt
<1>2. \A k \in Keys : receipt[k] # None /\ StillUnexpired(receipt[k].created) => receipt'[k] = receipt[k]
  OBVIOUS
<1>3. ASSUME NEW p \in Requests PROVE RequestInv(p)'
  <2>1. RequestInv(p) /\ (Holds(p)' = Holds(p)) /\ (Working(p)' = Working(p)) /\ (Before(p)' = Before(p))
    BY DEF IInv, Holds, Working, Before
  <2>2. HandlerOK(p)'
    BY <2>1, Typing DEF RequestInv, HandlerOK, TypeOK, Request
  <2>3. HeldIsCurrent(p)'
    BY <1>1, <1>2, <2>1, Typing DEF RequestInv, HeldIsCurrent, ReceiptIs, Unexpired, StillUnexpired
  <2>4. OwnerOnce(p)'
    BY <1>2, <2>1, Typing DEF RequestInv, OwnerOnce, Before
  <2>5. ASSUME Holds(p), StillUnexpired(req[p].rec.created)
        PROVE  /\ receipt'[req[p].key] = receipt[req[p].key]
               /\ Unexpired(req[p].rec.created)
               /\ ReceiptIs(req[p].key, req[p].rec.created, receipt[req[p].key].env)
    BY <1>1, <1>2, <2>1, <2>5, Typing DEF RequestInv, HeldIsCurrent, ReceiptIs, Unexpired, StillUnexpired
  <2>6. BatchWritten(p)'
    <3> SUFFICES ASSUME req[p].pc \in {"mark", "cas"}, StillUnexpired(req[p].rec.created)
                 PROVE  /\ [key |-> req[p].key, created |-> req[p].rec.created,
                            env |-> req[p].env] \in rows'
                        /\ receipt'[req[p].key].state = "pending" =>
                             \E o \in outbox' : SameRow(o, req[p].key, req[p].rec.created)
      BY DEF BatchWritten, SameRow, Unexpired, StillUnexpired
    <3>1. Holds(p) /\ req[p].key \in Keys /\ req[p].rec.created \in Nat
      BY Typing DEF Holds
    <3>2. BatchWritten(p)
      BY <2>1 DEF RequestInv
    <3>3. [key |-> req[p].key, created |-> req[p].rec.created, env |-> req[p].env] \in rows'
      BY <2>5, <3>1, <3>2 DEF BatchWritten, Unexpired, StillUnexpired
    <3> QED
      BY <2>5, <3>1, <3>2, <3>3 DEF BatchWritten
  <2>7. ReplyCommitted(p)'
    BY <2>1, <2>5 DEF RequestInv, ReplyCommitted, Holds, Unexpired, StillUnexpired
  <2>8. LeaseIsReceipts(p)'
    <3>1. LeaseLive(p)' => LeaseLive(p) /\ receipt'[req[p].key] = receipt[req[p].key]
      BY <1>1, <2>1, <2>5, Typing DEF LeaseLive, Working, Holds, TypeOK, Unexpired, StillUnexpired
    <3> QED
      BY <2>1, <3>1 DEF RequestInv, LeaseIsReceipts
  <2> QED
    BY <2>2, <2>3, <2>4, <2>6, <2>7, <2>8 DEF RequestInv
<1>4. ReceiptOwners'
  BY DEF IInv, StoreInv, ReceiptOwners, Before
<1>5. RowsAreReceipts'
  BY <1>1, <1>2, Typing DEF IInv, TypeOK, Row, StoreInv, RowsAreReceipts, ReceiptIs, Unexpired, StillUnexpired
<1>6. CommittedStored'
  <2> SUFFICES ASSUME NEW k \in Keys, receipt'[k] # None, StillUnexpired(receipt[k].created),
                      receipt'[k] = receipt[k]
               PROVE  /\ receipt[k].state \in {"stored", "delivered"} =>
                           [key |-> k, created |-> receipt[k].created,
                            env |-> receipt[k].env] \in rows'
                      /\ receipt[k].state = "stored" =>
                           \E o \in outbox' : SameRow(o, k, receipt[k].created)
    BY <1>2 DEF CommittedStored, Unexpired, StillUnexpired, SameRow
  <2>1. receipt[k].created \in Nat /\ Unexpired(receipt[k].created)
    BY <1>1, Typing
  <2> QED
    BY <2>1 DEF IInv, StoreInv, CommittedStored, ReceiptIs
<1>7. ASSUME NEW d \in Confirmers PROVE ConfirmerInv(d)'
  <2>1. ConfirmerInv(d) /\ conf[d].created \in Nat
    BY Typing DEF IInv, Confirmation
  <2> QED
    BY <1>1, <1>2, <2>1 DEF ConfirmerInv, Unexpired, StillUnexpired
<1> QED
  BY <1>3, <1>4, <1>5, <1>6, <1>7 DEF IInv, StoreInv

\* ConfirmDelete preserves the invariant: the row it removes belongs to a
\* receipt that is delivered.
LEMMA ConfirmDeleteStep ==
    ASSUME IInv, NEW d \in Confirmers, ConfirmDelete(d)
    PROVE  IInv'
<1>1. NoConfirmation \in Confirmation /\ NoConfirmation.pc = "idle"
  BY DEF NoConfirmation, Confirmation, ConfirmerPC
<1>2. /\ conf' \in [Confirmers -> Confirmation]
      /\ \A f \in Confirmers : conf'[f] = conf[f] \/ conf'[f].pc = "idle"
  BY <1>1, Typing DEF ConfirmDelete, ConfirmEnd
<1>3. /\ outbox' = {o \in outbox : ~SameRow(o, conf[d].key, conf[d].created)}
      /\ UNCHANGED <<clock, receipt, rows, receiptIndex, rowIndex, outboxIndex, req, published>>
  BY DEF ConfirmDelete
<1>4. TypeOK'
  BY <1>2, <1>3 DEF IInv, TypeOK
<1>5. ASSUME NEW k \in Keys, NEW b \in Nat, NEW o \in outbox, SameRow(o, k, b),
             StillUnexpired(b),
             ReceiptIs(k, b, receipt[k].env), receipt[k].state # "delivered"
      PROVE  \E x \in outbox' : SameRow(x, k, b)
  <2>1. ~(conf[d].key = k /\ conf[d].created = b)
    BY <1>3, <1>5 DEF ConfirmDelete, IInv, ConfirmerInv, Unexpired, StillUnexpired
  <2> QED
    BY <1>3, <1>5, <2>1 DEF SameRow
<1> QED
  BY <1>2, <1>3, <1>4, <1>5, ShrinkStep, Typing

\* OutboxPublish preserves the invariant: what it publishes is an outbox row.
LEMMA OutboxPublishStep ==
    ASSUME IInv, NEW o \in outbox, OutboxPublish(o)
    PROVE  IInv'
<1>1. [key |-> o.key, created |-> o.created, env |-> o.env] \in Delivery
  BY DEF IInv, TypeOK, OutboxEntry, Delivery
<1>2. TypeOK' /\ UNCHANGED <<clock, receipt, rows, outbox, req, conf>>
  BY <1>1 DEF OutboxPublish, IInv, TypeOK, storeVars
<1> QED
  BY <1>2, ShrinkStep, Typing

\* Tick preserves the invariant: what was unexpired before is spoken of less.
LEMMA TickStep ==
    ASSUME IInv, Tick
    PROVE  IInv'
<1>1. /\ TypeOK' /\ clock <= clock'
      /\ UNCHANGED <<receipt, rows, outbox, req, conf>>
  BY Typing DEF Tick, IInv, TypeOK, storeVars
<1> QED
  BY <1>1, ShrinkStep

\* The three evictions preserve the invariant: they remove expired data only.
LEMMA EvictStep ==
    ASSUME IInv,
           \/ \E k \in Keys : EvictReceipt(k)
           \/ \E r \in rows : EvictRow(r)
           \/ \E o \in outbox : EvictOutbox(o)
    PROVE  IInv'
<1>1. ASSUME NEW k \in Keys, EvictReceipt(k) PROVE IInv'
  <2>1. TypeOK' /\ clock <= clock' /\ UNCHANGED <<rows, outbox, req, conf>>
    BY <1>1, Typing DEF EvictReceipt, IInv, TypeOK
  <2>2. \A j \in Keys :
           \/ receipt'[j] = receipt[j]
           \/ receipt'[j] = None /\ receipt[j] # None /\ ~StillUnexpired(receipt[j].created)
    BY <1>1, Typing DEF EvictReceipt, Unexpired, StillUnexpired
  <2> QED
    BY <2>1, <2>2, ShrinkStep
<1>2. ASSUME NEW r \in rows, EvictRow(r) PROVE IInv'
  <2>1. TypeOK' /\ clock <= clock' /\ UNCHANGED <<clock, receipt, outbox, req, conf>>
    BY <1>2, Typing DEF EvictRow, IInv, TypeOK
  <2>2. rows' = rows \ {r} /\ ~StillUnexpired(r.created)
    BY <1>2 DEF EvictRow, Unexpired, StillUnexpired
  <2> QED
    BY <2>1, <2>2, ShrinkStep
<1>3. ASSUME NEW o \in outbox, EvictOutbox(o) PROVE IInv'
  <2>1. TypeOK' /\ clock <= clock' /\ UNCHANGED <<clock, receipt, rows, req, conf>>
    BY <1>3, Typing DEF EvictOutbox, IInv, TypeOK
  <2>2. \A k, b : (\E x \in outbox : SameRow(x, k, b)) /\ StillUnexpired(b) =>
                     \E x \in outbox' : SameRow(x, k, b)
    BY <1>3 DEF EvictOutbox, Unexpired, StillUnexpired, SameRow
  <2> QED
    BY <2>1, <2>2, ShrinkStep
<1> QED
  BY <1>1, <1>2, <1>3

\* The invariant is inductive: every action of DurableIngest preserves it.
LEMMA NextIInv == IInv /\ [Next]_vars => IInv'
<1> SUFFICES ASSUME IInv, [Next]_vars PROVE IInv'
  OBVIOUS
<1>1. ASSUME NEW q \in Requests, RequestStep(q) PROVE IInv'
  <2>1. CASE \E k \in Keys, e \in Envelopes : Receive(q, k, e)
    BY <2>1, ReceiveStep
  <2>2. CASE Claim(q)
    <3>1. CASE ClaimRefused(q) \/ TakeoverLost(q)
      BY <3>1, GiveUpStep DEF ClaimRefused, TakeoverLost
    <3> QED
      BY <2>2, <3>1, ClaimInsertStep, ClaimExistsStep, IndexWriteStep, ClaimCommittedStep,
         ClaimStaleStep, TakeoverStep DEF Claim
  <2>3. CASE Persist(q)
    <3>1. CASE WriteExpired(q) \/ MarkStoredLost(q)
      BY <3>1, GiveUpStep DEF WriteExpired, MarkStoredLost
    <3> QED
      BY <2>3, <3>1, WriteBatchStep, MarkStoredLoadStep, MarkStoredCASStep DEF Persist
  <2>4. CASE Publish(q) \/ PublishError(q) \/ Reply(q)
    BY <2>4, PublishStep
  <2>5. CASE Fail(q)
    BY <2>5, GiveUpStep DEF Fail
  <2> QED
    BY <1>1, <2>1, <2>2, <2>3, <2>4, <2>5 DEF RequestStep
<1>2. ASSUME NEW d \in Confirmers, ConfirmStep(d) PROVE IInv'
  BY <1>2, ConfirmLoadStep, ConfirmCASStep, ConfirmDeleteStep, ConfirmFailStep DEF ConfirmStep
<1>3. CASE UNCHANGED vars
  <2>1. TypeOK' /\ UNCHANGED <<clock, receipt, rows, outbox, req, conf>>
    BY <1>3 DEF vars, storeVars, IInv, TypeOK
  <2> QED
    BY <2>1, ShrinkStep, Typing
<1> QED
  BY <1>1, <1>2, <1>3, OutboxPublishStep, ConfirmStartStep, TickStep, EvictStep DEF Next, TimeStep

\* The invariant holds in every reachable state.
LEMMA Invariance == Spec => []IInv
<1>1. Init => IInv
  BY InitIInv
<1>2. IInv /\ [Next]_vars => IInv'
  BY NextIInv
<1> QED
  BY <1>1, <1>2, PTL DEF Spec

-----------------------------------------------------------------------------
(***************************************************************************)
(* Theorems                                                                *)
(***************************************************************************)

\* Every receipt, row, index entry and handler keeps its shape (the tables of
\* durable_ingest_scylla.go and the local variables of PersistDirect).
THEOREM TypeCorrect == Spec => []TypeOK
<1>1. IInv => TypeOK
  BY DEF IInv
<1> QED
  BY <1>1, Invariance, PTL

\* A persisted ACK is never premature and never taken back before the message
\* expires, for any number of retries, takeovers, crashes and clock readings.
THEOREM AckedDurability == Spec => []AckedIsDurable
<1>1. IInv => AckedIsDurable
  <2> SUFFICES ASSUME IInv, NEW q \in Requests, req[q].pc = "acked",
                      Unexpired(req[q].rec.created)
               PROVE  /\ ReceiptIs(req[q].key, req[q].rec.created, req[q].env)
                      /\ receipt[req[q].key].state \in {"stored", "delivered"}
                      /\ [key |-> req[q].key, created |-> req[q].rec.created,
                          env |-> req[q].env] \in rows
    BY DEF AckedIsDurable
  <2>1. Holds(q) /\ RequestInv(q) /\ req[q].key \in Keys
    BY Typing DEF Holds, IInv
  <2>2. /\ ReceiptIs(req[q].key, req[q].rec.created, req[q].env)
        /\ receipt[req[q].key].state \in {"stored", "delivered"}
    BY <2>1 DEF RequestInv, HeldIsCurrent, ReplyCommitted
  <2> QED
    BY <2>1, <2>2 DEF IInv, StoreInv, CommittedStored, ReceiptIs
<1> QED
  BY <1>1, Invariance, PTL

\* At most one unexpired message row per client_id, and it is the receipt's.
THEOREM OneStore == Spec => []OneStorePerKey
<1>1. IInv => OneStorePerKey
  <2> SUFFICES ASSUME IInv, NEW r1 \in rows, NEW r2 \in rows, r1.key = r2.key,
                      Unexpired(r1.created), Unexpired(r2.created)
               PROVE  r1 = r2 /\ ReceiptIs(r1.key, r1.created, r1.env)
    BY DEF OneStorePerKey
  <2>1. /\ ReceiptIs(r1.key, r1.created, r1.env)
        /\ ReceiptIs(r2.key, r2.created, r2.env)
        /\ r1 \in Row /\ r2 \in Row
    BY DEF IInv, TypeOK, StoreInv, RowsAreReceipts
  <2> QED
    BY <2>1 DEF ReceiptIs, Row
<1> QED
  BY <1>1, Invariance, PTL

\* The recovery worker finds every stored message: its outbox row is there
\* until MarkDelivered has changed the receipt.
THEOREM StoredIsPending == Spec => []StoredAwaitsDelivery
<1>1. IInv => StoredAwaitsDelivery
  BY DEF IInv, StoreInv, CommittedStored, StoredAwaitsDelivery
<1> QED
  BY <1>1, Invariance, PTL

\* Two handlers never hold a live lease on one claim, although a takeover
\* judges the old lease by a clock reading made before it loaded the receipt.
THEOREM LeaseMutex == Spec => []LeaseExclusive
<1>1. IInv => LeaseExclusive
  <2> SUFFICES ASSUME IInv, NEW p \in Requests, NEW q \in Requests,
                      LeaseLive(p), LeaseLive(q), req[p].key = req[q].key
               PROVE  p = q
    BY DEF LeaseExclusive
  <2> QED
    BY DEF IInv, RequestInv, LeaseIsReceipts
<1> QED
  BY <1>1, Invariance, PTL

\* An unexpired outbox row disappears only when the receipt is delivered: no
\* batch, eviction or other step of a handler removes one.
LEMMA OutboxKept ==
    ASSUME IInv, [Next]_vars, NEW o \in outbox, Unexpired(o.created),
           \A p \in outbox' : ~SameRow(p, o.key, o.created)
    PROVE  receipt[o.key] # None /\ receipt[o.key].state = "delivered"
<1>1. o \notin outbox'
  BY DEF SameRow
<1>2. ASSUME NEW q \in Requests, WriteBatch(q) PROVE FALSE
  BY <1>1, <1>2 DEF WriteBatch, Upsert, SameRow
<1>3. ASSUME NEW d \in Confirmers, ConfirmDelete(d)
      PROVE  receipt[o.key] # None /\ receipt[o.key].state = "delivered"
  BY <1>1, <1>3 DEF ConfirmDelete, SameRow, IInv, ConfirmerInv
<1>4. ASSUME NEW x \in outbox, EvictOutbox(x) PROVE FALSE
  BY <1>1, <1>4 DEF EvictOutbox
<1>5. ASSUME NEW q \in Requests, RequestStep(q) PROVE FALSE
  BY <1>1, <1>2, <1>5
  DEF RequestStep, Claim, Persist, Receive, ClaimInsert, ClaimExists, IndexWrite,
      ClaimCommitted, ClaimStale, ClaimRefused, Takeover, TakeoverLost, WriteExpired,
      MarkStoredLoad, MarkStoredCAS, MarkStoredLost, Publish, PublishError, Reply, Fail,
      storeVars
<1>6. ASSUME NEW d \in Confirmers,
             (\E m \in published : ConfirmStart(d, m)) \/ ConfirmLoad(d) \/ ConfirmCAS(d)
               \/ ConfirmFail(d)
      PROVE  FALSE
  BY <1>1, <1>6 DEF ConfirmStart, ConfirmLoad, ConfirmCAS, ConfirmFail, storeVars
<1>7. ASSUME \/ \E x \in outbox : OutboxPublish(x)
             \/ Tick
             \/ \E k \in Keys : EvictReceipt(k)
             \/ \E r \in rows : EvictRow(r)
             \/ UNCHANGED vars
      PROVE  FALSE
  BY <1>1, <1>7 DEF OutboxPublish, Tick, EvictReceipt, EvictRow, storeVars, vars
<1> QED
  BY <1>3, <1>4, <1>5, <1>6, <1>7 DEF Next, ConfirmStep, TimeStep

\* An unexpired outbox row is deleted only for a delivered receipt: the order
\* of MarkDelivered and deleteOutbox survives every interleaving.
THEOREM OutboxOrder == Spec => OutboxOutlivesDelivery
<1>1. IInv /\ [Next]_vars =>
        [\A o \in outbox :
           Unexpired(o.created) /\ (\A p \in outbox' : ~SameRow(p, o.key, o.created)) =>
             receipt[o.key] # None /\ receipt[o.key].state = "delivered"]_vars
  BY OutboxKept
<1> QED
  BY <1>1, Invariance, PTL DEF Spec, OutboxOutlivesDelivery

-----------------------------------------------------------------------------
(***************************************************************************)
(* The refinement of StoreAndForward.  Its invariant adds to IInv that the *)
(* batch wrote row and outbox row together, that only a delivered message  *)
(* loses the outbox row, and that a receipt handler heard of a delivery.   *)
(***************************************************************************)

\* An outbox row that has not expired belongs to a message row.
OutboxOfRow == \A o \in outbox : Unexpired(o.created) => Shown(o) \in rows

\* A message row that has not expired has its outbox row until it is delivered.
RowAwaits ==
    \A r \in rows :
        Unexpired(r.created) =>
            \/ receipt[r.key].state = "delivered"
            \/ \E o \in outbox : SameRow(o, r.key, r.created)

\* A delivery receipt is about a client_id that was published.
Heard(d) == conf[d].pc # "idle" => \E m \in published : m.key = conf[d].key

PromiseInv == OutboxOfRow /\ RowAwaits /\ \A d \in Confirmers : Heard(d)

\* No ACK is added or taken back, and nothing but handlers and indexes changes.
AcksKept ==
    \A q \in Requests : req[q].pc = "acked" \/ req'[q].pc = "acked" => req'[q] = req[q]
Quiet == UNCHANGED <<clock, receipt, rows, outbox, published>> /\ AcksKept

\* The initial state: no rows, no receipt handler at work.
LEMMA InitPromise == Init => PromiseInv
BY DEF Init, PromiseInv, OutboxOfRow, RowAwaits, Heard, NoConfirmation

\* A step of a request that is not and does not become acknowledged.
LEMMA AcksAside ==
    ASSUME IInv, NEW q \in Requests, req[q].pc # "acked", req'[q].pc # "acked",
           \A p \in Requests : p # q => req'[p] = req[p]
    PROVE  AcksKept
BY DEF AcksKept

\* The steps of a request that show nothing to anybody.
LEMMA QuietRequest ==
    ASSUME IInv, NEW q \in Requests, RequestStep(q),
           ~ClaimInsert(q), ~Takeover(q), ~WriteBatch(q), ~MarkStoredCAS(q),
           ~Publish(q), ~Reply(q)
    PROVE  Quiet /\ conf' = conf
<1>1. ASSUME GiveUp(q), req[q].pc # "acked" PROVE AcksKept
  <2>1. /\ req'[q] = NoRequest("failed")
        /\ \A p \in Requests : p # q => req'[p] = req[p]
    BY <1>1, Typing DEF GiveUp
  <2> QED
    BY <1>1, <2>1, AcksAside DEF NoRequest
<1>2. ASSUME NEW pc, Goto(q, pc), req[q].pc # "acked", pc # "acked" PROVE AcksKept
  <2>1. req'[q].pc = pc /\ \A p \in Requests : p # q => req'[p] = req[p]
    BY <1>2, Typing DEF Goto, Request
  <2> QED
    BY <1>2, <2>1, AcksAside
<1>3. ASSUME NEW k \in Keys, NEW e \in Envelopes, Receive(q, k, e) PROVE Quiet /\ conf' = conf
  <2>1. /\ req[q].pc = "idle" /\ req'[q].pc = "claim"
        /\ \A p \in Requests : p # q => req'[p] = req[p]
    BY <1>3, Typing DEF Receive, Request
  <2> QED
    BY <1>3, <2>1, AcksAside DEF Receive, Quiet, storeVars
<1>4. ASSUME NEW u \in Uins, IndexWrite(q, u) PROVE Quiet /\ conf' = conf
  <2>1. /\ req[q].pc = "index" /\ req'[q].pc \in {"write", "index"}
        /\ \A p \in Requests : p # q => req'[p] = req[p]
    BY <1>4, Typing DEF IndexWrite, Request
  <2> QED
    BY <1>4, <2>1, AcksAside DEF IndexWrite, Quiet, storeVars
<1>5. CASE ClaimCommitted(q) \/ ClaimStale(q)
  <2>1. /\ req[q].pc = "load" /\ req'[q].pc \in {"publish", "reply", "takeover"}
        /\ \A p \in Requests : p # q => req'[p] = req[p]
    BY <1>5, Typing DEF ClaimCommitted, ClaimStale, Request
  <2> QED
    BY <1>5, <2>1, AcksAside DEF ClaimCommitted, ClaimStale, Quiet, storeVars
<1>6. CASE ClaimExists(q) \/ PublishError(q)
  BY <1>2, <1>6 DEF ClaimExists, PublishError, Quiet, storeVars
<1>7. CASE MarkStoredLoad(q)
  BY <1>1, <1>2, <1>7 DEF MarkStoredLoad, Quiet, storeVars
<1>8. CASE ClaimRefused(q) \/ TakeoverLost(q) \/ WriteExpired(q) \/ MarkStoredLost(q) \/ Fail(q)
  BY <1>1, <1>8
  DEF ClaimRefused, TakeoverLost, WriteExpired, MarkStoredLost, Fail, Quiet, storeVars
<1> QED
  BY <1>3, <1>4, <1>5, <1>6, <1>7, <1>8 DEF RequestStep, Claim, Persist

\* The steps of a receipt handler that show nothing to anybody.
LEMMA QuietConfirmer ==
    ASSUME IInv, NEW d \in Confirmers,
           (\E m \in published : ConfirmStart(d, m)) \/ ConfirmLoad(d) \/ ConfirmFail(d)
    PROVE  Quiet
BY DEF ConfirmStart, ConfirmLoad, ConfirmFail, Quiet, AcksKept, storeVars

\* A message that is delivered stays so while it lives.
LEMMA DeliveredStays ==
    ASSUME IInv, [Next]_vars, NEW k \in Keys, LiveReceipt(k),
           receipt[k].state = "delivered", clock' < ExpiresAt(receipt[k].created)
    PROVE  receipt'[k] = receipt[k]
<1>1. ASSUME NEW q \in Requests, RequestStep(q) PROVE receipt'[k] = receipt[k]
  <2>1. CASE ClaimInsert(q)
    BY <2>1, Typing DEF ClaimInsert, LiveReceipt
  <2>2. CASE Takeover(q)
    BY <2>2, Typing DEF Takeover, OwnedAsLoaded
  <2>3. CASE MarkStoredCAS(q)
    BY <2>3, Typing DEF MarkStoredCAS, OwnedAsLoaded
  <2>4. CASE WriteBatch(q) \/ Publish(q) \/ Reply(q)
    BY <2>4 DEF WriteBatch, Publish, Reply, storeVars
  <2> QED
    BY <1>1, <2>1, <2>2, <2>3, <2>4, QuietRequest DEF Quiet
<1>2. ASSUME NEW d \in Confirmers, ConfirmCAS(d) \/ ConfirmDelete(d)
      PROVE  receipt'[k] = receipt[k]
  BY <1>2, Typing DEF ConfirmCAS, ConfirmDelete
<1>3. ASSUME NEW j \in Keys, EvictReceipt(j) PROVE receipt'[k] = receipt[k]
  <2>1. receipt[j] # None /\ ~Unexpired(receipt[j].created)
        /\ receipt' = [receipt EXCEPT ![j] = None]
    BY <1>3 DEF EvictReceipt
  <2>2. j # k
    BY <2>1 DEF LiveReceipt
  <2> QED
    BY <2>1, <2>2, Typing
<1>4. ASSUME \/ \E o \in outbox : OutboxPublish(o) \/ EvictOutbox(o)
             \/ \E r \in rows : EvictRow(r)
             \/ Tick \/ UNCHANGED vars
      PROVE  receipt'[k] = receipt[k]
  BY <1>4 DEF OutboxPublish, EvictOutbox, EvictRow, Tick, vars, storeVars
<1> QED
  BY <1>1, <1>2, <1>3, <1>4, QuietConfirmer DEF Next, ConfirmStep, TimeStep, Quiet

\* What the batch of q writes, and that it is of the receipt.
LEMMA BatchFacts ==
    ASSUME IInv, NEW q \in Requests, WriteBatch(q)
    PROVE  /\ \E k \in Keys, c \in Nat, e \in Envelopes, to \in SUBSET Uins :
                /\ Unexpired(c) /\ ReceiptIs(k, c, e)
                /\ rows' = rows \union {[key |-> k, created |-> c, env |-> e]}
                /\ outbox' = {x \in outbox : ~SameRow(x, k, c)}
                              \union {[key |-> k, created |-> c, env |-> e, to |-> to]}
           /\ UNCHANGED <<clock, receipt, conf, published>>
           /\ AcksKept
<1>1. /\ req[q].pc = "write" /\ Holds(q) /\ Unexpired(req[q].rec.created)
      /\ UNCHANGED <<clock, receipt, conf, published>>
  BY DEF WriteBatch, Holds
<1>2. PICK k \in Keys, c \in Nat, e \in Envelopes, to \in SUBSET Uins :
         /\ k = req[q].key /\ c = req[q].rec.created /\ e = req[q].env
         /\ req[q].rec.env = e /\ req[q].rec.to = to /\ ReceiptIs(k, c, e)
  BY <1>1, Typing DEF IInv, RequestInv, HeldIsCurrent, Receipt
<1> DEFINE row == [key |-> k, created |-> c, env |-> e]
           out == [key |-> k, created |-> c, env |-> e, to |-> to]
<1>3. ASSUME NEW x \in rows, SameRow(x, k, c) PROVE x = row
  <2>1. x \in Row /\ ReceiptIs(k, c, x.env)
    BY <1>1, <1>2, <1>3 DEF IInv, TypeOK, StoreInv, RowsAreReceipts, SameRow
  <2> QED
    BY <1>2, <1>3, <2>1 DEF ReceiptIs, Row, SameRow
<1>4. /\ rows' = {x \in rows : ~SameRow(x, k, c)} \union {row}
      /\ outbox' = {x \in outbox : ~SameRow(x, k, c)} \union {out}
  BY <1>2 DEF WriteBatch, Upsert
<1>5. rows' = rows \union {row}
  BY <1>3, <1>4
<1>6. req'[q].pc = "mark" /\ \A p \in Requests : p # q => req'[p] = req[p]
  BY Typing DEF WriteBatch, Goto, Request
<1>7. AcksKept
  BY <1>1, <1>6, AcksAside
<1> QED
  BY <1>1, <1>2, <1>4, <1>5, <1>7

\* Rows stay until they expire, and appear together with their outbox rows.
LEMMA RowChanges ==
    ASSUME IInv, [Next]_vars
    PROVE  /\ \A r \in rows : clock' < ExpiresAt(r.created) => r \in rows'
           /\ \A r \in rows' : r \in rows \/ \E o \in outbox' : Shown(o) = r
           /\ \A o \in outbox' : o \in outbox \/ Shown(o) \in rows'
<1>1. ASSUME NEW q \in Requests, RequestStep(q), ~WriteBatch(q)
      PROVE  rows' = rows /\ outbox' = outbox
  BY <1>1, QuietRequest
  DEF Quiet, ClaimInsert, Takeover, MarkStoredCAS, Publish, Reply, storeVars
<1>2. ASSUME NEW q \in Requests, WriteBatch(q)
      PROVE  \E o \in outbox' : /\ rows' = rows \union {Shown(o)}
                                /\ outbox' \subseteq outbox \union {o}
  BY <1>2, BatchFacts DEF Shown
<1>3. ASSUME NEW d \in Confirmers,
             (\E m \in published : ConfirmStart(d, m)) \/ ConfirmStep(d)
      PROVE  rows' = rows /\ outbox' \subseteq outbox
  BY <1>3, QuietConfirmer DEF ConfirmStep, Quiet, ConfirmCAS, ConfirmDelete
<1>4. ASSUME NEW r \in rows, EvictRow(r)
      PROVE  rows' = rows \ {r} /\ ~Unexpired(r.created) /\ clock' = clock /\ outbox' = outbox
  BY <1>4 DEF EvictRow
<1>5. ASSUME \/ \E k \in Keys : EvictReceipt(k)
             \/ \E o \in outbox : EvictOutbox(o) \/ OutboxPublish(o)
             \/ Tick \/ UNCHANGED vars
      PROVE  rows' = rows /\ outbox' \subseteq outbox
  BY <1>5 DEF EvictReceipt, EvictOutbox, OutboxPublish, Tick, vars, storeVars
<1> QED
  BY <1>1, <1>2, <1>3, <1>4, <1>5 DEF Next, TimeStep, Unexpired

\* The clock does not go back.
LEMMA ClockAdvances ==
    ASSUME IInv, [Next]_vars
    PROVE  clock \in Nat /\ (clock' = clock \/ clock' = clock + 1)
<1>1. ASSUME NEW q \in Requests, RequestStep(q) PROVE clock' = clock
  BY <1>1, QuietRequest
  DEF Quiet, ClaimInsert, WriteBatch, Takeover, MarkStoredCAS, Publish, Reply
<1>2. ASSUME NEW d \in Confirmers,
             (\E m \in published : ConfirmStart(d, m)) \/ ConfirmStep(d)
      PROVE  clock' = clock
  BY <1>2, QuietConfirmer DEF ConfirmStep, Quiet, ConfirmCAS, ConfirmDelete
<1> QED
  BY <1>1, <1>2, Typing
  DEF Next, TimeStep, Tick, EvictReceipt, EvictRow, EvictOutbox, OutboxPublish, vars

\* Nothing unpublishes, and a receipt handler starts with what was published.
LEMMA HeardStep ==
    ASSUME IInv, PromiseInv, [Next]_vars, NEW d \in Confirmers
    PROVE  Heard(d)'
<1>1. published \subseteq published'
  <2>1. ASSUME NEW q \in Requests, RequestStep(q) PROVE published \subseteq published'
    BY <2>1, QuietRequest
    DEF Quiet, ClaimInsert, WriteBatch, Takeover, MarkStoredCAS, Publish, Reply
  <2>2. ASSUME NEW f \in Confirmers,
               (\E m \in published : ConfirmStart(f, m)) \/ ConfirmStep(f)
        PROVE  published' = published
    BY <2>2, QuietConfirmer DEF ConfirmStep, Quiet, ConfirmCAS, ConfirmDelete
  <2> QED
    BY <2>1, <2>2
    DEF Next, TimeStep, Tick, EvictReceipt, EvictRow, EvictOutbox, OutboxPublish, vars
<1>2. ASSUME conf'[d].pc # "idle"
      PROVE  \/ conf[d].pc # "idle" /\ conf'[d].key = conf[d].key
             \/ \E m \in published : conf'[d].key = m.key
  <2>1. CASE conf'[d] = conf[d]
    BY <1>2, <2>1
  <2>2. ASSUME NEW f \in Confirmers, conf'[d] # conf[d],
               (\E m \in published : ConfirmStart(f, m)) \/ ConfirmStep(f)
        PROVE  \/ conf[d].pc # "idle" /\ conf'[d].key = conf[d].key
               \/ \E m \in published : conf'[d].key = m.key
    <3>1. conf \in [Confirmers -> Confirmation] /\ conf[f] \in Confirmation
      BY Typing
    <3>2. f = d
      BY <2>2, <3>1
      DEF ConfirmStep, ConfirmStart, ConfirmLoad, ConfirmCAS, ConfirmDelete, ConfirmFail, ConfirmEnd
    <3>3. ASSUME NEW m \in published, ConfirmStart(d, m) PROVE conf'[d].key = m.key
      BY <3>1, <3>2, <3>3 DEF ConfirmStart, Confirmation
    <3>4. CASE ConfirmLoad(d) \/ ConfirmCAS(d)
      BY <3>1, <3>2, <3>4 DEF ConfirmLoad, ConfirmCAS, Confirmation
    <3>5. CASE ConfirmDelete(d) \/ ConfirmFail(d)
      BY <1>2, <3>1, <3>2, <3>5 DEF ConfirmDelete, ConfirmFail, ConfirmEnd, NoConfirmation
    <3> QED
      BY <2>2, <3>2, <3>3, <3>4, <3>5 DEF ConfirmStep
  <2>3. ASSUME NEW q \in Requests, RequestStep(q) PROVE conf' = conf
    BY <2>3, QuietRequest
    DEF ClaimInsert, WriteBatch, Takeover, MarkStoredCAS, Publish, Reply
  <2> QED
    BY <2>1, <2>2, <2>3
    DEF Next, TimeStep, Tick, EvictReceipt, EvictRow, EvictOutbox, OutboxPublish, vars
<1> QED
  BY <1>1, <1>2 DEF Heard, PromiseInv

\* Every step keeps row and outbox row together.
LEMMA NextPromise == IInv /\ IInv' /\ PromiseInv /\ [Next]_vars => PromiseInv'
<1> SUFFICES ASSUME IInv, IInv', PromiseInv, [Next]_vars PROVE PromiseInv'
  OBVIOUS
<1>1. ASSUME NEW c \in Nat, Unexpired(c)' PROVE Unexpired(c)
  BY <1>1, ClockAdvances, TimeAssumption DEF Unexpired, ExpiresAt
<1>2. /\ rows \subseteq Row /\ outbox \subseteq OutboxEntry
      /\ rows' \subseteq Row /\ outbox' \subseteq OutboxEntry
  BY DEF IInv, TypeOK
<1>3. ASSUME NEW o \in outbox', Unexpired(o.created)' PROVE Shown(o) \in rows'
  <2>1. CASE o \in outbox
    <3>1. Shown(o) \in rows
      BY <1>1, <1>2, <1>3, <2>1 DEF PromiseInv, OutboxOfRow, OutboxEntry
    <3>2. Shown(o).created = o.created
      BY DEF Shown
    <3> QED
      BY <1>3, <3>1, <3>2, RowChanges DEF Unexpired, ExpiresAt
  <2>2. CASE o \notin outbox
    BY <2>2, RowChanges
  <2> QED
    BY <2>1, <2>2
<1>4. ASSUME NEW r \in rows', Unexpired(r.created)', receipt'[r.key].state # "delivered"
      PROVE  \E o \in outbox' : SameRow(o, r.key, r.created)
  <2>1. CASE r \in rows
    <3>1. Unexpired(r.created) /\ r.key \in Keys
      BY <1>1, <1>2, <1>4, <2>1 DEF Row
    <3>2. ReceiptIs(r.key, r.created, r.env)
      BY <2>1, <3>1 DEF IInv, StoreInv, RowsAreReceipts
    <3>3. receipt[r.key].state # "delivered"
      BY <1>4, <3>1, <3>2, DeliveredStays DEF LiveReceipt, ReceiptIs, Unexpired
    <3>4. PICK o \in outbox : SameRow(o, r.key, r.created)
      BY <2>1, <3>1, <3>3 DEF PromiseInv, RowAwaits
    <3> QED
      BY <3>1, <3>3, <3>4, OutboxKept DEF SameRow
  <2>2. CASE r \notin rows
    BY <2>2, RowChanges DEF SameRow, Shown
  <2> QED
    BY <2>1, <2>2
<1> QED
  BY <1>3, <1>4, HeardStep DEF PromiseInv, OutboxOfRow, RowAwaits

-----------------------------------------------------------------------------
(***************************************************************************)
(* The steps of StoreAndForward                                            *)
(***************************************************************************)

\* Nothing of the promise is touched.
LEMMA Stutters ==
    ASSUME clock' = clock, published' = published, Answered' = Answered,
           \A k \in Keys : MessageOf(k)' = MessageOf(k),
           LiveItems(rows)' = LiveItems(rows), LiveItems(outbox)' = LiveItems(outbox)
    PROVE  UNCHANGED Promise!vars
BY DEF Promise!vars

\* What was acknowledged and lives changes only with an ACK or with time.
LEMMA AnsweredKept ==
    ASSUME AcksKept, clock' = clock PROVE Answered' = Answered
BY DEF AcksKept, Answered, RequestDelivery, Unexpired

\* So do the live rows, with their tables or with time.
LEMMA ItemsKept ==
    ASSUME clock' = clock
    PROVE  /\ rows' = rows => LiveItems(rows)' = LiveItems(rows)
           /\ outbox' = outbox => LiveItems(outbox)' = LiveItems(outbox)
BY DEF LiveItems, Unexpired

\* A message is the same while its receipt is and no row of it comes or goes.
LEMMA MessageKept ==
    ASSUME NEW k \in Keys, clock' = clock, receipt'[k] = receipt[k],
           LiveReceipt(k) => \A r : SameRow(r, k, receipt[k].created) => (r \in rows' <=> r \in rows)
    PROVE  MessageOf(k)' = MessageOf(k)
<1>1. LiveReceipt(k)' = LiveReceipt(k)
  BY DEF LiveReceipt, Unexpired
<1>2. CASE LiveReceipt(k)
  <2>1. (\E r \in rows' : SameRow(r, k, receipt[k].created))
          <=> \E r \in rows : SameRow(r, k, receipt[k].created)
    BY <1>2
  <2>2. PhaseOf(k)' = PhaseOf(k)
    BY <2>1 DEF PhaseOf, SameRow
  <2> QED
    BY <1>1, <2>2 DEF MessageOf
<1>3. CASE ~LiveReceipt(k)
  BY <1>1, <1>3 DEF MessageOf
<1> QED
  BY <1>2, <1>3

\* A step that shows nothing is a stutter.
LEMMA QuietMaps == ASSUME Quiet PROVE UNCHANGED Promise!vars
BY Stutters, AnsweredKept, ItemsKept, MessageKept DEF Quiet

\* Of a receipt that has not expired the phase is what its row and state say.
LEMMA LiveMessage ==
    ASSUME IInv, NEW k \in Keys, LiveReceipt(k)
    PROVE  LET row == [key |-> k, created |-> receipt[k].created, env |-> receipt[k].env]
           IN  /\ MessageOf(k).env = receipt[k].env
               /\ MessageOf(k).created = receipt[k].created
               /\ MessageOf(k).phase = "delivered" <=> receipt[k].state = "delivered"
               /\ MessageOf(k).phase \in {"stored", "delivered"} <=> row \in rows
               /\ MessageOf(k).phase \in {"claimed", "stored", "delivered"}
<1> DEFINE row == [key |-> k, created |-> receipt[k].created, env |-> receipt[k].env]
<1>1. ASSUME NEW r \in rows, SameRow(r, k, receipt[k].created) PROVE r = row
  BY <1>1 DEF LiveReceipt, IInv, TypeOK, StoreInv, RowsAreReceipts, SameRow, ReceiptIs, Row
<1>2. (\E r \in rows : SameRow(r, k, receipt[k].created)) <=> row \in rows
  BY <1>1 DEF SameRow
<1>3. receipt[k].state = "delivered" => row \in rows
  BY DEF LiveReceipt, IInv, StoreInv, CommittedStored
<1> QED
  BY <1>2, <1>3 DEF MessageOf, PhaseOf

\* The promise's message of a key, and its item.
LEMMA Mapped ==
    ASSUME NEW k \in Keys
    PROVE  /\ [j \in Keys |-> MessageOf(j)][k] = MessageOf(k)
           /\ Promise!Item(k) = [key |-> k, created |-> MessageOf(k).created,
                                 env |-> MessageOf(k).env]
           /\ Promise!IsStored(k) <=> MessageOf(k).phase \in {"stored", "delivered"}
BY DEF Promise!Item, Promise!IsStored

\* The insert of a receipt claims the client_id, unless the handler was so slow
\* that the receipt has expired already.
LEMMA ClaimMaps ==
    ASSUME IInv, IInv', NEW q \in Requests, ClaimInsert(q)
    PROVE  Promise!Next \/ UNCHANGED Promise!vars
<1>0. PICK k \in Keys, c \in Nat, e \in Envelopes :
         k = req[q].key /\ c = req[q].now /\ e = req[q].env
  BY Typing DEF ClaimInsert, IInv, RequestInv, HandlerOK, Request
<1>1. /\ req[q].pc = "claim" /\ receipt[k] = None
      /\ receipt' = [receipt EXCEPT ![k] = NewReceipt(q)]
      /\ UNCHANGED <<clock, rows, outbox, conf, published>>
  BY <1>0 DEF ClaimInsert
<1>2. clock \in Nat /\ c <= clock
  BY <1>0, <1>1, Typing DEF IInv, RequestInv, HandlerOK, Request
<1>3. AcksKept
  <2>1. req'[q].pc = "index" /\ \A p \in Requests : p # q => req'[p] = req[p]
    BY Typing DEF ClaimInsert, Request
  <2> QED
    BY <1>1, <2>1, AcksAside
<1>4. /\ receipt'[k] = NewReceipt(q) /\ receipt'[k] # None
      /\ \A j \in Keys : j # k => receipt'[j] = receipt[j]
  <2>1. receipt'[k] = NewReceipt(q) /\ \A j \in Keys : j # k => receipt'[j] = receipt[j]
    BY <1>1, <1>2, Typing
  <2>2. NewReceipt(q) \in Receipt
    BY <1>0, <1>2, Typing, KeysAssumption, TimeAssumption
    DEF NewReceipt, Receipt, LeaseUntil
  <2> QED
    BY <2>1, <2>2, NoneAssumption
<1>5. receipt'[k].state = "pending" /\ receipt'[k].env = e /\ receipt'[k].created = c
  BY <1>0, <1>4 DEF NewReceipt
<1>6. \A j \in Keys : j # k => MessageOf(j)' = MessageOf(j)
  BY <1>1, <1>4, MessageKept
<1>7. /\ Answered' = Answered
      /\ LiveItems(rows)' = LiveItems(rows) /\ LiveItems(outbox)' = LiveItems(outbox)
  BY <1>1, <1>3, AnsweredKept, ItemsKept
<1>8. MessageOf(k) = [phase |-> "free", env |-> None, created |-> 0]
  BY <1>1 DEF MessageOf, LiveReceipt
<1>9. CASE Unexpired(c)
  <2>1. LiveReceipt(k)' /\ Unexpired(c)'
    BY <1>1, <1>4, <1>5, <1>9 DEF LiveReceipt, Unexpired
  <2>2. ASSUME NEW r \in rows, SameRow(r, k, c) PROVE FALSE
    BY <1>1, <1>9, <2>2 DEF IInv, StoreInv, RowsAreReceipts, ReceiptIs, SameRow
  <2>3. PhaseOf(k)' = "claimed"
    BY <1>1, <1>5, <2>2 DEF PhaseOf
  <2>4. MessageOf(k)' = [phase |-> "claimed", env |-> e, created |-> c]
    BY <1>5, <2>1, <2>3 DEF MessageOf
  <2>5. [j \in Keys |-> MessageOf(j)]' =
          [[j \in Keys |-> MessageOf(j)] EXCEPT ![k] =
             [phase |-> "claimed", env |-> e, created |-> c]]
    BY <1>2, <1>6, <2>4
  <2>6. c \in 0..clock /\ Promise!Live(c)
    BY <1>2, <1>9 DEF Promise!Live, Unexpired, ExpiresAt
  <2>7. Promise!Claim(k, e)
    BY <1>1, <1>2, <1>7, <1>8, <2>5, <2>6, Mapped DEF Promise!Claim, Promise!Free
  <2> QED
    BY <1>2, <2>7 DEF Promise!Next
<1>10. CASE ~Unexpired(c)
  <2>1. MessageOf(k)' = MessageOf(k)
    BY <1>1, <1>5, <1>8, <1>10 DEF MessageOf, LiveReceipt, Unexpired
  <2> QED
    BY <1>1, <1>6, <1>7, <2>1, Stutters
<1> QED
  BY <1>9, <1>10

\* The batch is the step that stores.  Repeated by a later owner, or late by a
\* stale one, it rewrites what is there; after the delivery it writes the
\* outbox row once more.
LEMMA BatchMaps ==
    ASSUME IInv, IInv', PromiseInv, NEW q \in Requests, WriteBatch(q)
    PROVE  Promise!Next \/ UNCHANGED Promise!vars
<1>1. UNCHANGED <<clock, receipt, conf, published>> /\ AcksKept
  BY BatchFacts
<1>2. PICK k \in Keys, c \in Nat, e \in Envelopes, to \in SUBSET Uins :
         /\ Unexpired(c) /\ ReceiptIs(k, c, e)
         /\ rows' = rows \union {[key |-> k, created |-> c, env |-> e]}
         /\ outbox' = {x \in outbox : ~SameRow(x, k, c)}
                       \union {[key |-> k, created |-> c, env |-> e, to |-> to]}
  BY BatchFacts
<1> DEFINE item == [key |-> k, created |-> c, env |-> e]
           out == [key |-> k, created |-> c, env |-> e, to |-> to]
<1>3. LiveReceipt(k) /\ receipt[k].env = e /\ receipt[k].created = c
  BY <1>2 DEF LiveReceipt, ReceiptIs
<1>4. Shown(out) = item /\ Shown(item) = item
  BY DEF Shown
<1>5. \A j \in Keys : j # k => MessageOf(j)' = MessageOf(j)
  BY <1>1, <1>2, MessageKept DEF SameRow
<1>6. LiveItems(rows)' = LiveItems(rows) \union {item}
  BY <1>1, <1>2, <1>4 DEF LiveItems, Unexpired
<1>7. LiveItems(outbox)' = LiveItems(outbox) \union {item}
  <2>1. ASSUME NEW x \in outbox, SameRow(x, k, c) PROVE Shown(x) = item
    <3>1. Shown(x) \in rows /\ ReceiptIs(Shown(x).key, Shown(x).created, Shown(x).env)
      BY <1>1, <1>2, <2>1
      DEF PromiseInv, OutboxOfRow, SameRow, IInv, StoreInv, RowsAreReceipts, Shown
    <3> QED
      BY <1>3, <2>1, <3>1 DEF Shown, SameRow, ReceiptIs
  <2>2. /\ outbox' = {x \in outbox : ~SameRow(x, k, c)} \union {out}
        /\ out.created = c /\ clock' = clock
    BY <1>1, <1>2
  <2> QED
    BY <1>1, <1>2, <1>4, <2>1, <2>2 DEF LiveItems, Unexpired
<1>8. Answered' = Answered
  BY <1>1, <1>2, AnsweredKept
<1>9. /\ MessageOf(k).env = e /\ MessageOf(k).created = c
      /\ MessageOf(k).phase \in {"claimed", "stored", "delivered"}
      /\ MessageOf(k).phase \in {"stored", "delivered"} <=> item \in rows
      /\ MessageOf(k).phase = "delivered" <=> receipt[k].state = "delivered"
  BY <1>1, <1>2, <1>3, LiveMessage
<1>10. item \in rows'
  BY <1>1, <1>2
<1>11. CASE item \in rows
  <2>1. rows' = rows
    BY <1>1, <1>2, <1>11
  <2>2. \A j \in Keys : MessageOf(j)' = MessageOf(j)
    BY <1>1, <1>2, <2>1, MessageKept
  <2>3. CASE receipt[k].state = "delivered"
    <3>1. Promise!Forget(k)
      BY <1>1, <1>2, <1>6, <1>7, <1>8, <1>9, <1>11, <2>1, <2>2, <2>3, Mapped, ItemsKept
      DEF Promise!Forget
    <3> QED
      BY <1>1, <1>2, <3>1 DEF Promise!Next
  <2>4. CASE receipt[k].state # "delivered"
    <3>1. PICK x \in outbox : SameRow(x, k, c)
      BY <1>1, <1>2, <1>11, <2>4 DEF PromiseInv, RowAwaits
    <3>2. Shown(x) \in rows /\ ReceiptIs(Shown(x).key, Shown(x).created, Shown(x).env)
      BY <1>1, <1>2, <3>1
      DEF PromiseInv, OutboxOfRow, SameRow, IInv, StoreInv, RowsAreReceipts, Shown
    <3>3. item \in LiveItems(outbox)
      BY <1>1, <1>2, <1>3, <3>1, <3>2 DEF LiveItems, Shown, SameRow, ReceiptIs
    <3> QED
      BY <1>1, <1>2, <1>7, <1>8, <2>1, <2>2, <3>3, Stutters, ItemsKept
  <2> QED
    BY <2>3, <2>4
<1>12. CASE item \notin rows
  <2>1. MessageOf(k).phase = "claimed" /\ receipt[k].state # "delivered"
    BY <1>9, <1>12
  <2>2. MessageOf(k)' = [MessageOf(k) EXCEPT !.phase = "stored"]
    <3>1. LiveReceipt(k)' /\ receipt'[k] = receipt[k]
      BY <1>1, <1>2, <1>3 DEF LiveReceipt, Unexpired
    <3>2. \E r \in rows' : SameRow(r, k, c)
      BY <1>10 DEF SameRow
    <3>3. PhaseOf(k)' = "stored"
      BY <1>3, <2>1, <3>1, <3>2 DEF PhaseOf, SameRow
    <3> QED
      BY <1>3, <3>1, <3>3 DEF MessageOf
  <2>3. [j \in Keys |-> MessageOf(j)]' =
          [[j \in Keys |-> MessageOf(j)] EXCEPT ![k].phase = "stored"]
    BY <1>1, <1>2, <1>5, <2>2
  <2>4. Promise!Item(k) = item
    BY <1>1, <1>2, <1>9, Mapped
  <2>5. Promise!Store(k)
    BY <1>1, <1>2, <1>6, <1>7, <1>8, <2>1, <2>3, <2>4, Mapped DEF Promise!Store
  <2> QED
    BY <1>1, <1>2, <2>5 DEF Promise!Next
<1> QED
  BY <1>11, <1>12

\* Changes of a receipt's owner, lease, or mark as stored after its batch show
\* nothing: the batch has stored the message.
LEMMA MarkMaps ==
    ASSUME IInv, NEW q \in Requests, Takeover(q) \/ MarkStoredCAS(q)
    PROVE  UNCHANGED Promise!vars
<1>1. PICK k \in Keys : k = req[q].key
  <2>1. Holds(q)
    BY DEF Takeover, MarkStoredCAS, Holds
  <2> QED
    BY <2>1, Typing
<1>2. /\ OwnedAsLoaded(q) /\ receipt[k] # None /\ receipt[k].state = "pending"
      /\ UNCHANGED <<clock, rows, outbox, published>>
  BY <1>1 DEF Takeover, MarkStoredCAS, OwnedAsLoaded
<1>3. AcksKept
  <2>1. /\ req[q].pc \in {"takeover", "cas"} /\ req'[q].pc \in {"write", "publish"}
        /\ \A p \in Requests : p # q => req'[p] = req[p]
    BY Typing DEF Takeover, MarkStoredCAS, Goto, Request
  <2> QED
    BY <2>1, AcksAside
<1>4. /\ \A j \in Keys : j # k => receipt'[j] = receipt[j]
      /\ receipt'[k] # None /\ receipt'[k].state # "delivered"
      /\ receipt'[k].env = receipt[k].env /\ receipt'[k].created = receipt[k].created
  <2>1. receipt[k] \in Receipt /\ receipt \in [Keys -> Receipt \union {None}]
    BY <1>2, Typing
  <2>2. CASE Takeover(q)
    <3>1. receipt'[k] = [[receipt[k] EXCEPT !.owner = q]
                           EXCEPT !.lease = LeaseUntil(req[q].now)]
      BY <1>1, <2>1, <2>2 DEF Takeover
    <3>2. LeaseUntil(req[q].now) \in Nat
      BY Typing, TimeAssumption DEF LeaseUntil, Request
    <3>3. receipt'[k] \in Receipt /\ receipt'[k].state = "pending"
      BY <1>2, <2>1, <3>1, <3>2 DEF Receipt
    <3> QED
      BY <1>1, <2>1, <2>2, <3>1, <3>3, NoneAssumption DEF Takeover, Receipt
  <2>3. CASE MarkStoredCAS(q)
    <3>1. receipt'[k] = [receipt[k] EXCEPT !.state = "stored"]
      BY <1>1, <2>1, <2>3 DEF MarkStoredCAS
    <3>2. receipt'[k] \in Receipt /\ receipt'[k].state = "stored"
      BY <2>1, <3>1 DEF Receipt
    <3> QED
      BY <1>1, <2>1, <2>3, <3>1, <3>2, NoneAssumption DEF MarkStoredCAS, Receipt
  <2> QED
    BY <2>2, <2>3
<1>5. MessageOf(k)' = MessageOf(k)
  <2>1. LiveReceipt(k)' = LiveReceipt(k)
    BY <1>2, <1>4 DEF LiveReceipt, Unexpired
  <2>2. PhaseOf(k)' = PhaseOf(k)
    BY <1>2, <1>4 DEF PhaseOf, SameRow
  <2> QED
    BY <1>4, <2>1, <2>2 DEF MessageOf
<1>6. \A j \in Keys : MessageOf(j)' = MessageOf(j)
  BY <1>2, <1>4, <1>5, MessageKept
<1> QED
  BY <1>2, <1>3, <1>6, Stutters, AnsweredKept, ItemsKept

\* What a request that has stored its message knows while it lives.
LEMMA HeldIsStored ==
    ASSUME IInv, NEW q \in Requests, req[q].pc \in {"publish", "reply"},
           Unexpired(req[q].rec.created)
    PROVE  /\ req[q].key \in Keys
           /\ MessageOf(req[q].key).phase \in {"stored", "delivered"}
           /\ MessageOf(req[q].key).env = req[q].env
           /\ MessageOf(req[q].key).created = req[q].rec.created
<1>1. /\ req[q].key \in Keys
      /\ ReceiptIs(req[q].key, req[q].rec.created, req[q].env)
      /\ receipt[req[q].key].state \in {"stored", "delivered"}
  BY Typing DEF IInv, RequestInv, HeldIsCurrent, ReplyCommitted, Holds
<1>2. /\ LiveReceipt(req[q].key)
      /\ [key |-> req[q].key, created |-> receipt[req[q].key].created,
          env |-> receipt[req[q].key].env] \in rows
  BY <1>1 DEF LiveReceipt, ReceiptIs, IInv, StoreInv, CommittedStored
<1> QED
  BY <1>1, <1>2, LiveMessage DEF ReceiptIs

\* A publication by the handler, of a stored message or of an expired one.
LEMMA PublishMaps ==
    ASSUME IInv, NEW q \in Requests, Publish(q)
    PROVE  Promise!Next
<1>1. /\ req[q].pc = "publish" /\ Holds(q)
      /\ published' = published \union {RequestDelivery(q)}
      /\ UNCHANGED <<clock, receipt, rows, outbox>>
  BY DEF Publish, Holds, storeVars
<1>2. PICK k \in Keys, c \in Nat, e \in Envelopes :
         k = req[q].key /\ c = req[q].rec.created /\ e = req[q].env
  BY <1>1, Typing
<1>3. RequestDelivery(q) = [key |-> k, created |-> c, env |-> e]
  BY <1>2 DEF RequestDelivery
<1>4. AcksKept
  <2>1. req'[q].pc = "reply" /\ \A p \in Requests : p # q => req'[p] = req[p]
    BY Typing DEF Publish, Goto, Request
  <2> QED
    BY <1>1, <2>1, AcksAside
<1>5. /\ \A j \in Keys : MessageOf(j)' = MessageOf(j)
      /\ LiveItems(rows)' = LiveItems(rows) /\ LiveItems(outbox)' = LiveItems(outbox)
      /\ Answered' = Answered
  BY <1>1, <1>4, MessageKept, ItemsKept, AnsweredKept
<1>6. CASE Unexpired(c)
  <2>1. /\ MessageOf(k).phase \in {"stored", "delivered"}
        /\ MessageOf(k).env = e /\ MessageOf(k).created = c
    BY <1>1, <1>2, <1>6, HeldIsStored
  <2>2. Promise!Publish(k)
    BY <1>1, <1>3, <1>5, <2>1, Mapped DEF Promise!Publish
  <2> QED
    BY <2>2 DEF Promise!Next
<1>7. CASE ~Unexpired(c)
  <2>1. c \in 0..clock /\ ~Promise!Live(c)
    BY <1>7, Typing, TimeAssumption DEF Promise!Live, Unexpired, ExpiresAt
  <2>2. Promise!PublishLate(k, e)
    BY <1>1, <1>3, <1>5, <2>1 DEF Promise!PublishLate
  <2> QED
    BY <2>2 DEF Promise!Next
<1> QED
  BY <1>6, <1>7

\* The recovery worker publishes what is stored.
LEMMA OutboxPublishMaps ==
    ASSUME IInv, PromiseInv, NEW o \in outbox, OutboxPublish(o)
    PROVE  Promise!Next
<1>1. /\ Unexpired(o.created) /\ published' = published \union {Shown(o)}
      /\ UNCHANGED <<clock, receipt, rows, outbox, req>>
  BY DEF OutboxPublish, Shown, storeVars
<1>2. o.key \in Keys /\ Shown(o) \in rows
  BY <1>1 DEF PromiseInv, OutboxOfRow, IInv, TypeOK, OutboxEntry
<1>3. ReceiptIs(o.key, o.created, o.env)
  BY <1>1, <1>2 DEF IInv, StoreInv, RowsAreReceipts, Shown
<1>4. LiveReceipt(o.key)
  BY <1>1, <1>3 DEF LiveReceipt, ReceiptIs
<1>5. /\ MessageOf(o.key).phase \in {"stored", "delivered"}
      /\ MessageOf(o.key).env = o.env /\ MessageOf(o.key).created = o.created
  BY <1>2, <1>3, <1>4, LiveMessage DEF ReceiptIs, Shown
<1>6. /\ \A j \in Keys : MessageOf(j)' = MessageOf(j)
      /\ LiveItems(rows)' = LiveItems(rows) /\ LiveItems(outbox)' = LiveItems(outbox)
      /\ Answered' = Answered
  <2>1. AcksKept
    BY <1>1 DEF AcksKept
  <2> QED
    BY <1>1, <2>1, MessageKept, ItemsKept, AnsweredKept
<1>7. Promise!Publish(o.key)
  BY <1>1, <1>2, <1>5, <1>6, Mapped DEF Promise!Publish, Shown
<1> QED
  BY <1>2, <1>7 DEF Promise!Next

\* The reply acknowledges a stored message, or one that has expired.
LEMMA ReplyMaps ==
    ASSUME IInv, NEW q \in Requests, Reply(q)
    PROVE  Promise!Next \/ UNCHANGED Promise!vars
<1>1. /\ req[q].pc = "reply" /\ Holds(q)
      /\ UNCHANGED <<clock, receipt, rows, outbox, published>>
  BY DEF Reply, Holds, storeVars
<1>2. PICK k \in Keys, c \in Nat, e \in Envelopes :
         k = req[q].key /\ c = req[q].rec.created /\ e = req[q].env
  BY <1>1, Typing
<1>3. /\ req'[q].pc = "acked" /\ req'[q].key = k /\ req'[q].env = e
      /\ req'[q].rec = req[q].rec
      /\ \A p \in Requests : p # q => req'[p] = req[p]
  BY <1>2, Typing DEF Reply, Goto, Request
<1>4. RequestDelivery(q)' = [key |-> k, created |-> c, env |-> e]
  BY <1>2, <1>3 DEF RequestDelivery
<1>5. /\ \A j \in Keys : MessageOf(j)' = MessageOf(j)
      /\ LiveItems(rows)' = LiveItems(rows) /\ LiveItems(outbox)' = LiveItems(outbox)
  BY <1>1, MessageKept, ItemsKept
<1> DEFINE Acked == {p \in Requests : req[p].pc = "acked" /\ Unexpired(req[p].rec.created)}
<1>6. \A p \in Requests : p # q => RequestDelivery(p)' = RequestDelivery(p)
  BY <1>3 DEF RequestDelivery
<1>7. CASE Unexpired(c)
  <2>1. Acked' = Acked \union {q} /\ q \notin Acked
    BY <1>1, <1>2, <1>3, <1>7 DEF Unexpired
  <2>2. Answered' = Answered \union {[key |-> k, created |-> c, env |-> e]}
    BY <1>4, <1>6, <2>1 DEF Answered
  <2>3. /\ MessageOf(k).phase \in {"stored", "delivered"}
        /\ MessageOf(k).env = e /\ MessageOf(k).created = c
    BY <1>1, <1>2, <1>7, HeldIsStored
  <2>4. Promise!Answer(k)
    BY <1>1, <1>5, <2>2, <2>3, Mapped DEF Promise!Answer
  <2> QED
    BY <2>4 DEF Promise!Next
<1>8. CASE ~Unexpired(c)
  <2>1. Acked' = Acked /\ q \notin Acked
    BY <1>1, <1>2, <1>3, <1>8 DEF Unexpired
  <2>2. Answered' = Answered
    BY <1>6, <2>1 DEF Answered
  <2> QED
    BY <1>1, <1>5, <2>2, Stutters
<1> QED
  BY <1>7, <1>8

\* A delivery receipt delivers a stored message of a client_id that was
\* published.
LEMMA ConfirmMaps ==
    ASSUME IInv, PromiseInv, NEW d \in Confirmers, ConfirmCAS(d)
    PROVE  Promise!Next \/ UNCHANGED Promise!vars
<1>1. PICK k \in Keys : k = conf[d].key
  BY DEF ConfirmCAS, IInv, ConfirmerInv
<1>2. /\ receipt[k] # None /\ receipt[k].state = "stored"
      /\ receipt' = [receipt EXCEPT ![k].state = "delivered"]
      /\ UNCHANGED <<clock, rows, outbox, req, published>>
      /\ \E m \in published : m.key = k
  BY <1>1 DEF ConfirmCAS, PromiseInv, Heard
<1>3. /\ \A j \in Keys : j # k => receipt'[j] = receipt[j]
      /\ receipt'[k] # None /\ receipt'[k].state = "delivered"
      /\ receipt'[k].env = receipt[k].env /\ receipt'[k].created = receipt[k].created
  <2>1. receipt[k] \in Receipt /\ receipt \in [Keys -> Receipt \union {None}]
    BY <1>2, Typing
  <2>2. receipt'[k] = [receipt[k] EXCEPT !.state = "delivered"]
    BY <1>2, <2>1
  <2>3. receipt'[k] \in Receipt
    BY <2>1, <2>2 DEF Receipt
  <2> QED
    BY <1>2, <2>1, <2>2, <2>3, NoneAssumption DEF Receipt
<1>4. /\ \A j \in Keys : j # k => MessageOf(j)' = MessageOf(j)
      /\ LiveItems(rows)' = LiveItems(rows) /\ LiveItems(outbox)' = LiveItems(outbox)
  BY <1>2, <1>3, MessageKept, ItemsKept
<1>5. Answered' = Answered
  BY <1>2, AnsweredKept DEF AcksKept
<1>6. LiveReceipt(k)' = LiveReceipt(k)
  BY <1>2, <1>3 DEF LiveReceipt, Unexpired
<1>7. CASE LiveReceipt(k)
  <2>1. MessageOf(k)' = [phase |-> "delivered", env |-> receipt[k].env,
                         created |-> receipt[k].created]
    BY <1>3, <1>6, <1>7 DEF MessageOf, PhaseOf
  <2>2. [key |-> k, created |-> receipt[k].created, env |-> receipt[k].env] \in rows
    BY <1>2, <1>7 DEF LiveReceipt, IInv, StoreInv, CommittedStored
  <2>3. /\ MessageOf(k) = [phase |-> "stored", env |-> receipt[k].env,
                           created |-> receipt[k].created]
    BY <1>2, <1>7, <2>2 DEF MessageOf, PhaseOf, SameRow
  <2>4. [j \in Keys |-> MessageOf(j)]' =
          [[j \in Keys |-> MessageOf(j)] EXCEPT ![k].phase = "delivered"]
    <3>1. MessageOf(k)' = [MessageOf(k) EXCEPT !.phase = "delivered"]
      BY <2>1, <2>3
    <3> QED
      BY <1>4, <3>1
  <2>5. Promise!Deliver(k)
    BY <1>2, <1>4, <1>5, <2>3, <2>4, Mapped DEF Promise!Deliver
  <2> QED
    BY <2>5 DEF Promise!Next
<1>8. CASE ~LiveReceipt(k)
  <2>1. MessageOf(k)' = MessageOf(k)
    BY <1>6, <1>8 DEF MessageOf
  <2> QED
    BY <1>2, <1>4, <1>5, <2>1, Stutters
<1> QED
  BY <1>7, <1>8

\* The outbox row that is deleted is a delivered message's, or has expired.
LEMMA DeleteMaps ==
    ASSUME IInv, PromiseInv, NEW d \in Confirmers, ConfirmDelete(d)
    PROVE  Promise!Next \/ UNCHANGED Promise!vars
<1>1. PICK k \in Keys, c \in Nat : k = conf[d].key /\ c = conf[d].created
  BY Typing DEF ConfirmDelete, IInv, ConfirmerInv, Confirmation
<1>2. /\ outbox' = {o \in outbox : ~SameRow(o, k, c)}
      /\ UNCHANGED <<clock, receipt, rows, req, published>>
  BY <1>1 DEF ConfirmDelete
<1>3. /\ \A j \in Keys : MessageOf(j)' = MessageOf(j)
      /\ LiveItems(rows)' = LiveItems(rows) /\ Answered' = Answered
  BY <1>2, MessageKept, ItemsKept, AnsweredKept DEF AcksKept
<1>4. CASE Unexpired(c)
  <2>1. receipt[k] # None /\ receipt[k].created = c /\ receipt[k].state = "delivered"
    BY <1>1, <1>4 DEF ConfirmDelete, IInv, ConfirmerInv
  <2> DEFINE item == [key |-> k, created |-> c, env |-> receipt[k].env]
  <2>2. /\ MessageOf(k).phase = "delivered" /\ MessageOf(k).created = c
        /\ MessageOf(k).env = receipt[k].env
    BY <1>4, <2>1, LiveMessage DEF LiveReceipt
  <2>3. ASSUME NEW o \in outbox, Unexpired(o.created)
        PROVE  Shown(o) = item <=> SameRow(o, k, c)
    <3>1. Shown(o) \in rows /\ ReceiptIs(o.key, o.created, o.env)
      BY <2>3 DEF PromiseInv, OutboxOfRow, IInv, StoreInv, RowsAreReceipts, Shown
    <3> QED
      BY <2>1, <3>1 DEF ReceiptIs, Shown, SameRow
  <2>4. LiveItems(outbox)' = LiveItems(outbox) \ {item}
    BY <1>2, <2>3 DEF LiveItems, Unexpired
  <2>5. Promise!Forget(k)
    BY <1>2, <1>3, <2>2, <2>4, Mapped DEF Promise!Forget
  <2> QED
    BY <2>5 DEF Promise!Next
<1>5. CASE ~Unexpired(c)
  <2>1. LiveItems(outbox)' = LiveItems(outbox)
    BY <1>2, <1>5 DEF LiveItems, Unexpired, SameRow
  <2> QED
    BY <1>2, <1>3, <2>1, Stutters
<1> QED
  BY <1>4, <1>5

\* What is evicted was no longer live.
LEMMA EvictMaps ==
    ASSUME IInv,
           \/ \E k \in Keys : EvictReceipt(k)
           \/ \E r \in rows : EvictRow(r)
           \/ \E o \in outbox : EvictOutbox(o)
    PROVE  UNCHANGED Promise!vars
<1>1. AcksKept /\ UNCHANGED <<clock, published>>
  BY DEF EvictReceipt, EvictRow, EvictOutbox, AcksKept
<1>2. ASSUME NEW k \in Keys, EvictReceipt(k) PROVE UNCHANGED Promise!vars
  <2>1. /\ ~LiveReceipt(k) /\ receipt' = [receipt EXCEPT ![k] = None]
        /\ UNCHANGED <<rows, outbox>>
    BY <1>2 DEF EvictReceipt, LiveReceipt
  <2>2. receipt'[k] = None /\ \A j \in Keys : j # k => receipt'[j] = receipt[j]
    BY <2>1, Typing
  <2>3. MessageOf(k)' = MessageOf(k)
    BY <2>1, <2>2 DEF MessageOf, LiveReceipt
  <2> QED
    BY <1>1, <2>1, <2>2, <2>3, Stutters, AnsweredKept, ItemsKept, MessageKept
<1>3. ASSUME NEW r \in rows, EvictRow(r) PROVE UNCHANGED Promise!vars
  <2>1. rows' = rows \ {r} /\ ~Unexpired(r.created) /\ UNCHANGED <<receipt, outbox>>
    BY <1>3 DEF EvictRow
  <2>2. \A j \in Keys : MessageOf(j)' = MessageOf(j)
    BY <1>1, <2>1, MessageKept DEF LiveReceipt, SameRow
  <2>3. LiveItems(rows)' = LiveItems(rows)
    BY <1>1, <2>1 DEF LiveItems, Unexpired
  <2> QED
    BY <1>1, <2>1, <2>2, <2>3, Stutters, AnsweredKept, ItemsKept
<1>4. ASSUME NEW o \in outbox, EvictOutbox(o) PROVE UNCHANGED Promise!vars
  <2>1. outbox' = outbox \ {o} /\ ~Unexpired(o.created) /\ UNCHANGED <<receipt, rows>>
    BY <1>4 DEF EvictOutbox
  <2>2. LiveItems(outbox)' = LiveItems(outbox)
    BY <1>1, <2>1 DEF LiveItems, Unexpired
  <2> QED
    BY <1>1, <2>1, <2>2, Stutters, AnsweredKept, ItemsKept, MessageKept
<1> QED
  BY <1>2, <1>3, <1>4

\* Time takes away what it makes expire, and nothing else.
LEMMA TickMaps ==
    ASSUME IInv, Tick
    PROVE  Promise!Tick
<1>1. /\ clock \in Nat /\ clock' = clock + 1
      /\ UNCHANGED <<receipt, rows, outbox, req, published>>
  BY Typing DEF Tick, storeVars
<1>2. ASSUME NEW c \in Nat, clock' < c + TTL PROVE Unexpired(c)
  BY <1>1, <1>2, TimeAssumption DEF Unexpired, ExpiresAt
<1>3. ASSUME NEW k \in Keys
      PROVE  MessageOf(k)' = IF clock' < MessageOf(k).created + TTL
                             THEN MessageOf(k) ELSE Promise!Free
  <2>1. CASE LiveReceipt(k)
    <3>1. receipt[k].created \in Nat /\ MessageOf(k).created = receipt[k].created
      BY <2>1, Typing DEF LiveReceipt, MessageOf
    <3>2. LiveReceipt(k)' <=> clock' < MessageOf(k).created + TTL
      BY <1>1, <2>1, <3>1 DEF LiveReceipt, Unexpired, ExpiresAt
    <3>3. PhaseOf(k)' = PhaseOf(k)
      BY <1>1 DEF PhaseOf, SameRow
    <3> QED
      BY <1>1, <2>1, <3>2, <3>3 DEF MessageOf, Promise!Free
  <2>2. CASE ~LiveReceipt(k)
    <3>1. ~LiveReceipt(k)'
      BY <1>1, <1>2, <2>2, Typing DEF LiveReceipt, Unexpired, ExpiresAt
    <3> QED
      BY <2>2, <3>1 DEF MessageOf, Promise!Free
  <2> QED
    BY <2>1, <2>2
<1>4. ASSUME NEW S, S \in {rows, outbox}
      PROVE  \A x \in S : x.created \in Nat
  BY <1>4 DEF IInv, TypeOK, Row, OutboxEntry
<1>5. /\ LiveItems(rows)' = {m \in LiveItems(rows) : clock' < m.created + TTL}
      /\ LiveItems(outbox)' = {m \in LiveItems(outbox) : clock' < m.created + TTL}
  <2>1. \A x \in rows \union outbox : Unexpired(x.created)' => Unexpired(x.created)
    BY <1>1, <1>2, <1>4 DEF Unexpired, ExpiresAt
  <2>2. \A x : Unexpired(x.created)' <=> clock' < Shown(x).created + TTL
    BY DEF Unexpired, ExpiresAt, Shown
  <2> QED
    BY <1>1, <2>1, <2>2 DEF LiveItems
<1>6. Answered' = {m \in Answered : clock' < m.created + TTL}
  <2>1. \A q \in Requests : req[q].pc = "acked" => req[q].rec.created \in Nat
    BY Typing DEF Holds
  <2>2. \A q \in Requests : req[q].pc = "acked" =>
           (Unexpired(req[q].rec.created)' => Unexpired(req[q].rec.created))
    BY <1>1, <1>2, <2>1 DEF Unexpired, ExpiresAt
  <2>3. \A q \in Requests : /\ RequestDelivery(q)' = RequestDelivery(q)
                            /\ RequestDelivery(q).created = req[q].rec.created
    BY <1>1 DEF RequestDelivery
  <2> QED
    BY <1>1, <2>2, <2>3 DEF Answered, Unexpired, ExpiresAt
<1> QED
  BY <1>1, <1>3, <1>5, <1>6 DEF Promise!Tick

\* Every step of handlers, recovery, confirmations and time.
LEMMA PromiseStep ==
    ASSUME IInv, IInv', PromiseInv, [Next]_vars
    PROVE  [Promise!Next]_(Promise!vars)
<1>1. ASSUME NEW q \in Requests, RequestStep(q)
      PROVE  Promise!Next \/ UNCHANGED Promise!vars
  BY <1>1, ClaimMaps, BatchMaps, MarkMaps, PublishMaps, ReplyMaps, QuietRequest, QuietMaps
<1>2. ASSUME NEW d \in Confirmers, (\E m \in published : ConfirmStart(d, m)) \/ ConfirmStep(d)
      PROVE  Promise!Next \/ UNCHANGED Promise!vars
  BY <1>2, ConfirmMaps, DeleteMaps, QuietConfirmer, QuietMaps DEF ConfirmStep
<1>3. ASSUME TimeStep PROVE Promise!Next \/ UNCHANGED Promise!vars
  BY <1>3, TickMaps, EvictMaps DEF TimeStep, Promise!Next
<1>4. CASE UNCHANGED vars
  BY <1>4, QuietMaps DEF Quiet, AcksKept, vars, storeVars
<1> QED
  BY <1>1, <1>2, <1>3, <1>4, OutboxPublishMaps DEF Next

\* Handlers, retries, takeovers, crashes, confirmations and expiry implement
\* StoreAndForward: the batch is the one step that stores a message, nothing
\* takes it back before it expires, nothing is acknowledged or published that is
\* not stored, and the outbox keeps it until it is delivered.
THEOREM IngestKeepsPromise == Spec => ImplementsPromise
<1>1. Init => Promise!Init
  BY DEF Init, Promise!Init, Promise!Free, MessageOf, LiveReceipt, LiveItems, Answered, NoRequest
<1>2. IInv /\ IInv' /\ PromiseInv /\ [Next]_vars => [Promise!Next]_(Promise!vars)
  BY PromiseStep
<1>3. Init => PromiseInv
  BY InitPromise
<1>4. IInv /\ IInv' /\ PromiseInv /\ [Next]_vars => PromiseInv'
  BY NextPromise
<1> QED
  BY Invariance, <1>1, <1>2, <1>3, <1>4, PTL DEF Spec, ImplementsPromise, Promise!Spec

-----------------------------------------------------------------------------
(***************************************************************************)
(* OutboxFetch: pages, turns and shares                                    *)
(***************************************************************************)

\* A nonempty finite set of numbers has a greatest one, which Max names.
LEMMA MaxOfFinite ==
    ASSUME NEW S, S \subseteq Nat, S # {}, IsFiniteSet(S)
    PROVE  Max(S) \in S
  <1> DEFINE Above(x) == {y \in S : y > x}
             Counts == {Cardinality(Above(x)) : x \in S}
  <1>1. \A x \in S : IsFiniteSet(Above(x)) /\ Cardinality(Above(x)) \in Nat
    BY FS_Subset, FS_CardinalityType
  <1>2. PICK n \in Counts : \A m \in Counts : ~ (<<m, n>> \in OpToRel(<, Nat))
    <2>1. Counts \subseteq Nat /\ Counts # {}
      BY <1>1
    <2> QED
      BY <2>1, WFMin, NatLessThanWellFounded
  <1>3. PICK x \in S : n = Cardinality(Above(x))
    BY <1>2
  <1>4. ASSUME NEW y \in S PROVE y <= x
    <2>1. SUFFICES ASSUME y > x PROVE FALSE
      BY <1>4
    <2>2. Above(y) \subseteq Above(x) /\ y \in Above(x) /\ y \notin Above(y)
      BY <2>1, <1>3, <1>4
    <2>3. Cardinality(Above(y)) < Cardinality(Above(x))
      BY <2>2, <1>1, <1>3, <1>4, FS_Subset
    <2> QED
      BY <2>3, <1>1, <1>2, <1>3, <1>4 DEF OpToRel
  <1> QED
    BY <1>3, <1>4 DEF Max

\* SELECT ... LIMIT n returns at most n rows, all of the page.
LEMMA FirstFew ==
    ASSUME FetchAssumption, pending \subseteq Entries, NEW p, NEW n \in Nat
    PROVE  /\ FirstAfter(p, n) \subseteq Entries
           /\ \A e \in FirstAfter(p, n) : PageOf(e) = p
           /\ Cardinality(FirstAfter(p, n)) <= n
  <1> DEFINE later == {e \in pending : PageOf(e) = p /\ e.at > pages[p]}
             before(e) == {f \in later : f.at < e.at}
             rank == [e \in FirstAfter(p, n) |-> Cardinality(before(e)) + 1]
  <1>1. FirstAfter(p, n) = {e \in later : Cardinality(before(e)) < n}
    BY DEF FirstAfter
  <1>2. later \subseteq Entries /\ IsFiniteSet(later)
    BY FS_Subset DEF FetchAssumption
  <1>3. \A e \in later : IsFiniteSet(before(e)) /\ Cardinality(before(e)) \in Nat
    BY <1>2, FS_Subset, FS_CardinalityType
  <1>4. ASSUME NEW e \in later, NEW f \in later, e # f
        PROVE  Cardinality(before(e)) # Cardinality(before(f))
    <2>1. e.at \in Nat /\ f.at \in Nat /\ e.at # f.at
      BY <1>2, <1>4 DEF FetchAssumption, PageOf
    <2>2. CASE e.at < f.at
      <3>1. before(e) \subseteq before(f) /\ e \in before(f) /\ e \notin before(e)
        BY <2>1, <2>2, <1>2, <1>4 DEF FetchAssumption
      <3> QED
        BY <3>1, <1>3, FS_Subset
    <2>3. CASE f.at < e.at
      <3>1. before(f) \subseteq before(e) /\ f \in before(e) /\ f \notin before(f)
        BY <2>1, <2>3, <1>2, <1>4 DEF FetchAssumption
      <3> QED
        BY <3>1, <1>3, FS_Subset
    <2> QED
      BY <2>1, <2>2, <2>3
  <1>5. rank \in Injection(FirstAfter(p, n), 1 .. n)
    <2>1. rank \in [FirstAfter(p, n) -> 1 .. n]
      BY <1>1, <1>3
    <2>2. ASSUME NEW e \in FirstAfter(p, n), NEW f \in FirstAfter(p, n), rank[e] = rank[f]
          PROVE  e = f
      <3> DEFINE be == Cardinality(before(e))
                 bf == Cardinality(before(f))
      <3>1. be \in Nat /\ bf \in Nat /\ e \in later /\ f \in later
        BY <1>1, <1>3
      <3>2. be + 1 = bf + 1
        BY <2>2
      <3>3. be = bf
        <4> HIDE DEF be, bf
        <4> QED
          BY <3>1, <3>2
      <3> QED
        BY <3>1, <3>3, <1>4
    <2> QED
      BY <2>1, <2>2 DEF Injection, IsInjective
  <1>6. Cardinality(FirstAfter(p, n)) <= Cardinality(1 .. n) /\ Cardinality(1 .. n) = n
    BY <1>5, FS_Injection, FS_Interval
  <1> QED
    BY <1>1, <1>2, <1>6

LEMMA PerBucketNat == ASSUME FetchAssumption PROVE PerBucket \in Nat
  BY DEF FetchAssumption, PerBucket


\* The offset at which the fetch comes to a bucket.
Turn(b) == IF b >= fetcher.start THEN b - fetcher.start
           ELSE b - fetcher.start + BucketCount

\* The rows in hand are of buckets the fetch has come to; those of the bucket it
\* is in and what is left of its share do not exceed the share.
ReadingInv ==
    fetcher.pc = "reading" =>
        /\ fetcher.index = 1 =>
               /\ fetcher.offset < BucketCount
               /\ Cardinality(GotFrom(Bucket)) + fetcher.left <= PerBucket
        /\ \A e \in fetcher.got :
               \/ Turn(e.bucket) < fetcher.offset
               \/ Turn(e.bucket) = fetcher.offset /\ fetcher.index = 1

FetchInv == RecoveryTypeOK /\ SharesKept /\ ReadingInv

\* Every bucket has one turn in a fetch.
LEMMA TurnOfBucket ==
    ASSUME FetchAssumption, fetcher \in Fetcher
    PROVE  /\ fetcher.offset < BucketCount => Bucket \in Buckets /\ Turn(Bucket) = fetcher.offset
           /\ \A b \in Buckets : Turn(b) = fetcher.offset => b = Bucket
  BY DEF FetchAssumption, Fetcher, Buckets, Bucket, Turn

\* What the worker holds is finite, and so is what it holds of a bucket.
LEMMA GotFinite ==
    ASSUME FetchAssumption, fetcher \in Fetcher
    PROVE  /\ IsFiniteSet(fetcher.got) /\ Cardinality(fetcher.got) \in Nat
           /\ \A b : IsFiniteSet(GotFrom(b)) /\ Cardinality(GotFrom(b)) \in Nat
  <1>1. fetcher.got \subseteq Entries
    BY DEF Fetcher
  <1>2. IsFiniteSet(fetcher.got)
    BY <1>1, FS_Subset DEF FetchAssumption
  <1> QED
    BY <1>2, FS_Subset, FS_CardinalityType DEF GotFrom

\* The limit of a read, where there is one, is within the share and the fetch.
LEMMA LimitWithin ==
    ASSUME FetchAssumption, RecoveryTypeOK, SharesKept
    PROVE  /\ BucketRemaining \in Nat
           /\ FetchLimit \in Nat
           /\ FetchLimit <= BucketRemaining
           /\ FetchLimit + Cardinality(fetcher.got) <= FetchMax
  <1> DEFINE room == FetchMax - Cardinality(fetcher.got)
  <1>1. BucketRemaining \in Nat
    BY PerBucketNat DEF BucketRemaining, RecoveryTypeOK, Fetcher
  <1>2. room \in Nat /\ Cardinality(fetcher.got) \in Nat
    BY GotFinite DEF RecoveryTypeOK, SharesKept, FetchAssumption
  <1>3. FetchLimit = CHOOSE x \in {BucketRemaining, room} :
                         \A y \in {BucketRemaining, room} : x =< y
    BY DEF FetchLimit, Min
  <1>4. \E x \in {BucketRemaining, room} : \A y \in {BucketRemaining, room} : x =< y
    BY <1>1, <1>2
  <1>5. FetchLimit \in {BucketRemaining, room} /\ FetchLimit <= BucketRemaining /\ FetchLimit <= room
    BY <1>3, <1>4
  <1> QED
    BY <1>1, <1>2, <1>5 DEF FetchAssumption

\* Without a row in hand there is nothing to share.
LEMMA RestingStep ==
    ASSUME FetchAssumption, fetcher' \in Fetcher, fetcher'.got = {}, fetcher'.index = 0
    PROVE  SharesKept' /\ ReadingInv'
  <1>1. \A b : GotFrom(b)' = {}
    BY DEF GotFrom
  <1>2. Cardinality({}) = 0
    BY FS_EmptySet
  <1>3. SharesKept'
    <2>1. Cardinality(fetcher'.got) <= FetchMax
      BY <1>2 DEF FetchAssumption
    <2>2. ASSUME NEW b \in Buckets PROVE Cardinality(GotFrom(b)') <= PerBucket
      BY <1>1, <1>2, PerBucketNat
    <2> QED
      BY <2>1, <2>2 DEF SharesKept, PerBucket, Buckets
  <1>4. ReadingInv'
    BY DEF ReadingInv
  <1> QED
    BY <1>3, <1>4

\* The rows of a page join those in hand: the worker was in their bucket, and
\* there is room for as many as the limit of the read.
LEMMA ReadPageStep ==
    ASSUME FetchAssumption, FetchInv, ReadPage
    PROVE  FetchInv'
  <1> DEFINE found == FirstAfter(Page, FetchLimit) \ lapsed
             remaining == BucketRemaining - Cardinality(found)
             n == Cardinality(found)
  <1>1. /\ fetcher \in Fetcher /\ fetcher.pc = "reading" /\ fetcher.offset < BucketCount
        /\ pages' = [pages EXCEPT ![Page] = CursorAfter(found)]
        /\ fetcher' = [NextPage(remaining) EXCEPT !.got = fetcher.got \union found]
        /\ UNCHANGED <<pending, lapsed, nextStart, attempted, faults>>
    BY DEF ReadPage, FetchInv, RecoveryTypeOK
  <1>2. /\ BucketRemaining \in Nat /\ FetchLimit \in Nat /\ FetchLimit <= BucketRemaining
        /\ FetchLimit + Cardinality(fetcher.got) <= FetchMax
    BY LimitWithin DEF FetchInv
  <1>3. /\ found \subseteq Entries /\ IsFiniteSet(found) /\ n \in Nat /\ n <= FetchLimit
        /\ \A e \in found : e.bucket = Bucket
    <2>1. /\ FirstAfter(Page, FetchLimit) \subseteq Entries
          /\ \A e \in FirstAfter(Page, FetchLimit) : PageOf(e) = Page
          /\ Cardinality(FirstAfter(Page, FetchLimit)) <= FetchLimit
      BY <1>2, FirstFew DEF FetchInv, RecoveryTypeOK
    <2>2. IsFiniteSet(FirstAfter(Page, FetchLimit))
      BY <2>1, FS_Subset DEF FetchAssumption
    <2>3. IsFiniteSet(found) /\ n <= Cardinality(FirstAfter(Page, FetchLimit))
      BY <2>2, FS_Subset
    <2>4. n \in Nat /\ Cardinality(FirstAfter(Page, FetchLimit)) \in Nat
      BY <2>2, <2>3, FS_CardinalityType
    <2>5. n <= FetchLimit
      BY <1>2, <2>1, <2>3, <2>4
    <2>6. \A e \in found : e.bucket = Bucket
      BY <2>1 DEF PageOf, Page
    <2> QED
      BY <2>1, <2>3, <2>4, <2>5, <2>6
  <1>4. remaining \in Nat /\ n + remaining = BucketRemaining
    BY <1>2, <1>3
  <1> HIDE DEF found, remaining, n
  <1>5. /\ fetcher' \in Fetcher /\ fetcher'.pc = "reading" /\ fetcher'.start = fetcher.start
        /\ fetcher'.got = fetcher.got \union found
        /\ fetcher.index = 0 => /\ fetcher'.index = 1 /\ fetcher'.left = remaining
                               /\ fetcher'.offset = fetcher.offset
        /\ fetcher.index = 1 => /\ fetcher'.index = 0 /\ fetcher'.offset = fetcher.offset + 1
    <2>1. fetcher.got \union found \in SUBSET Entries
      BY <1>1, <1>3 DEF Fetcher
    <2>2. CASE fetcher.index = 0
      <3>1. fetcher' = [pc |-> "reading", start |-> fetcher.start, offset |-> fetcher.offset,
                       index |-> 1, left |-> remaining, got |-> fetcher.got \union found]
        BY <2>2, <1>1 DEF NextPage, Fetcher
      <3> QED
        BY <3>1, <2>1, <2>2, <1>1, <1>4 DEF Fetcher
    <2>3. CASE fetcher.index = 1
      <3>1. fetcher.offset + 1 \in 0 .. BucketCount
        BY <1>1 DEF Fetcher, FetchAssumption
      <3>2. fetcher' = [pc |-> "reading", start |-> fetcher.start, offset |-> fetcher.offset + 1,
                       index |-> 0, left |-> fetcher.left, got |-> fetcher.got \union found]
        <4>1. NextPage(remaining) = [fetcher EXCEPT !.index = 0, !.offset = fetcher.offset + 1]
          BY <2>3 DEF NextPage
        <4> DEFINE o == fetcher.offset + 1
        <4>2. fetcher' = [[fetcher EXCEPT !.index = 0, !.offset = o]
                           EXCEPT !.got = fetcher.got \union found]
          BY <4>1, <1>1
        <4> HIDE DEF o
        <4>3. fetcher' = [pc |-> "reading", start |-> fetcher.start, offset |-> o,
                         index |-> 0, left |-> fetcher.left, got |-> fetcher.got \union found]
          BY <4>2, <1>1 DEF Fetcher
        <4> QED
          BY <4>3 DEF o
      <3> QED
        BY <3>1, <3>2, <2>1, <2>3, <1>1 DEF Fetcher
    <2> QED
      BY <2>2, <2>3, <1>1 DEF Fetcher
  <1>6. RecoveryTypeOK'
    <2>1. CursorAfter(found) \in Nat
      <3>1. CASE found = {}
        BY <3>1 DEF CursorAfter
      <3>2. CASE found # {}
        <4> DEFINE places == {e.at : e \in found}
        <4>1. places \subseteq Nat /\ places # {}
          BY <1>3, <3>2 DEF FetchAssumption
        <4>2. IsFiniteSet(places)
          <5>1. [e \in found |-> e.at] \in Surjection(found, places)
            BY DEF Surjection
          <5> QED
            BY <5>1, <1>3, FS_Surjection
        <4> HIDE DEF places
        <4>3. Max(places) \in Nat
          BY <4>1, <4>2, MaxOfFinite
        <4> QED
          BY <4>3, <3>2 DEF CursorAfter, places
      <3> QED
        BY <3>1, <3>2
    <2>2. pages' \in [Pages -> Nat]
      BY <1>1, <2>1 DEF FetchInv, RecoveryTypeOK
    <2> QED
      BY <1>1, <1>5, <2>2 DEF FetchInv, RecoveryTypeOK
  <1>7. /\ Bucket \in Buckets /\ Turn(Bucket) = fetcher.offset
        /\ \A b \in Buckets : Turn(b) = fetcher.offset => b = Bucket
    BY <1>1, TurnOfBucket
  <1>8. \A b : Turn(b)' = Turn(b)
    BY <1>5 DEF Turn
  <1>9. ASSUME NEW b
        PROVE  GotFrom(b)' = GotFrom(b) \union (IF b = Bucket THEN found ELSE {})
    BY <1>3, <1>5 DEF GotFrom
  <1>10. /\ IsFiniteSet(fetcher.got) /\ Cardinality(fetcher.got) \in Nat
         /\ \A b : IsFiniteSet(GotFrom(b)) /\ Cardinality(GotFrom(b)) \in Nat
    BY <1>1, GotFinite
  <1>11. /\ Cardinality(fetcher.got \union found) <= Cardinality(fetcher.got) + n
         /\ \A b : Cardinality(GotFrom(b) \union found) <= Cardinality(GotFrom(b)) + n
    <2>1. ASSUME NEW S, IsFiniteSet(S) PROVE Cardinality(S \union found) <= Cardinality(S) + n
      <3>1. /\ Cardinality(S \union found)
                 = Cardinality(S) + Cardinality(found) - Cardinality(S \cap found)
            /\ Cardinality(S) \in Nat /\ Cardinality(S \cap found) \in Nat
        BY <2>1, <1>3, FS_Union, FS_Intersection, FS_CardinalityType
      <3> QED
        BY <3>1, <1>3 DEF n
    <2> QED
      BY <2>1, <1>10
  <1>12. Cardinality(fetcher'.got) <= FetchMax
    <2>1. Cardinality(fetcher'.got) \in Nat
      BY <1>3, <1>5, <1>10, FS_Union, FS_CardinalityType
    <2> QED
      BY <2>1, <1>2, <1>3, <1>5, <1>10, <1>11 DEF FetchAssumption
  \* What the read takes from the bucket and what it leaves.
  <1>13. ASSUME NEW b, b = Bucket
         PROVE  /\ Cardinality(GotFrom(b)') \in Nat
                /\ Cardinality(GotFrom(b)') + remaining <= PerBucket
    <2>1. /\ GotFrom(b)' = GotFrom(b) \union found
          /\ IsFiniteSet(GotFrom(b) \union found)
          /\ Cardinality(GotFrom(b) \union found) <= Cardinality(GotFrom(b)) + n
      BY <1>3, <1>9, <1>10, <1>11, <1>13, FS_Union
    <2>2. Cardinality(GotFrom(b) \union found) \in Nat
      BY <2>1, FS_CardinalityType
    <2>3. Cardinality(GotFrom(b)) + BucketRemaining <= PerBucket
      <3>1. CASE fetcher.index = 0
        <4>1. GotFrom(b) = {}
          <5>1. \A e \in fetcher.got : Turn(e.bucket) < fetcher.offset
            BY <1>1, <3>1 DEF FetchInv, ReadingInv
          <5>2. \A e \in fetcher.got : e.bucket # b
            BY <5>1, <1>1, <1>7, <1>13 DEF Fetcher
          <5> QED
            BY <5>2 DEF GotFrom
        <4> QED
          BY <4>1, <3>1, PerBucketNat, FS_EmptySet DEF BucketRemaining
      <3>2. CASE fetcher.index = 1
        BY <1>1, <1>13, <3>2 DEF FetchInv, ReadingInv, BucketRemaining
      <3> QED
        BY <3>1, <3>2, <1>1 DEF Fetcher
    <2> QED
      BY <2>1, <2>2, <2>3, <1>2, <1>3, <1>4, <1>10, PerBucketNat
  <1>14. SharesKept'
    <2>1. ASSUME NEW b \in Buckets PROVE Cardinality(GotFrom(b)') <= PerBucket
      <3>1. CASE b = Bucket
        BY <3>1, <1>4, <1>13, PerBucketNat
      <3>2. CASE b # Bucket
        BY <3>2, <1>9 DEF FetchInv, SharesKept
      <3> QED
        BY <3>1, <3>2
    <2> QED
      BY <2>1, <1>12 DEF SharesKept, PerBucket, Buckets
  <1>15. ReadingInv'
    <2>1. ASSUME NEW e \in fetcher'.got
          PROVE  \/ Turn(e.bucket)' < fetcher'.offset
                 \/ Turn(e.bucket)' = fetcher'.offset /\ fetcher'.index = 1
      <3>1. \/ Turn(e.bucket) < fetcher.offset
            \/ Turn(e.bucket) = fetcher.offset /\ (fetcher.index = 1 \/ e \in found)
        BY <2>1, <1>1, <1>3, <1>5, <1>7 DEF FetchInv, ReadingInv
      <3>2. fetcher.offset \in Nat /\ fetcher.index \in 0 .. 1
        BY <1>1 DEF Fetcher, FetchAssumption
      <3>3. Turn(e.bucket) \in Int
        BY <1>1, <1>3, <1>5 DEF Turn, Fetcher, FetchAssumption, Buckets
      <3> QED
        BY <3>1, <3>2, <3>3, <1>5, <1>8
    <2>2. ASSUME fetcher'.index = 1
          PROVE  /\ fetcher'.offset < BucketCount
                 /\ Cardinality(GotFrom(Bucket))' + fetcher'.left <= PerBucket
      <3>1. fetcher.index = 0 /\ fetcher'.offset = fetcher.offset /\ fetcher'.left = remaining
        BY <2>2, <1>1, <1>5 DEF Fetcher
      <3>2. Bucket' = Bucket
        BY <3>1, <1>5 DEF Bucket
      <3>3. ASSUME NEW b, b = Bucket PROVE Cardinality(GotFrom(Bucket))' = Cardinality(GotFrom(b)')
        BY <3>2, <3>3 DEF GotFrom
      <3> QED
        BY <3>1, <3>3, <1>1, <1>13
    <2> QED
      BY <2>1, <2>2 DEF ReadingInv, PerBucket
  <1> QED
    BY <1>6, <1>14, <1>15 DEF FetchInv

\* The worker leaves a bucket, or the fetch, with the rows in hand.
LEMMA LeaveStep ==
    ASSUME FetchAssumption, FetchInv, LeaveBucket \/ ReturnBatch
    PROVE  FetchInv'
  <1>1. fetcher \in Fetcher
    BY DEF FetchInv, RecoveryTypeOK
  <1>2. CASE LeaveBucket
    <2> DEFINE o == fetcher.offset + 1
    <2>1. /\ fetcher.pc = "reading" /\ fetcher.index = 1 /\ fetcher.offset < BucketCount
          /\ o \in 0 .. BucketCount
      BY <1>1, <1>2 DEF LeaveBucket, FetchInv, ReadingInv, Fetcher, FetchAssumption
    <2>2. fetcher' = [fetcher EXCEPT !.index = 0, !.offset = o]
      BY <1>2, <2>1 DEF LeaveBucket, NextPage
    <2> HIDE DEF o
    <2>3. /\ fetcher' \in Fetcher /\ fetcher'.got = fetcher.got /\ fetcher'.offset = o
          /\ fetcher'.start = fetcher.start /\ fetcher'.index = 0
      <3>1. fetcher' = [pc |-> fetcher.pc, start |-> fetcher.start, offset |-> o, index |-> 0,
                       left |-> fetcher.left, got |-> fetcher.got]
        BY <1>1, <2>2 DEF Fetcher
      <3> QED
        BY <1>1, <2>1, <3>1 DEF Fetcher
    <2>4. RecoveryTypeOK'
      BY <1>2, <2>3 DEF LeaveBucket, FetchInv, RecoveryTypeOK
    <2>5. SharesKept'
      BY <2>3 DEF FetchInv, SharesKept, GotFrom, PerBucket, Buckets
    <2>6. ASSUME NEW e \in fetcher'.got PROVE Turn(e.bucket)' < fetcher'.offset
      <3>1. Turn(e.bucket)' = Turn(e.bucket)
        BY <2>3 DEF Turn
      <3>2. Turn(e.bucket) \in Int /\ fetcher.offset \in Int
        BY <1>1, <2>3, <2>6 DEF Turn, Fetcher, FetchAssumption, Buckets
      <3>3. Turn(e.bucket) < fetcher.offset \/ Turn(e.bucket) = fetcher.offset
        BY <2>1, <2>3, <2>6 DEF FetchInv, ReadingInv
      <3> QED
        BY <3>1, <3>2, <3>3, <2>3 DEF o
    <2>7. ReadingInv'
      BY <2>3, <2>6 DEF ReadingInv
    <2> QED
      BY <2>4, <2>5, <2>7 DEF FetchInv
  <1>3. CASE ReturnBatch
    <2>1. fetcher' = [fetcher EXCEPT !.pc = "draining"]
      BY <1>3 DEF ReturnBatch
    <2>2. fetcher' \in Fetcher /\ fetcher'.pc = "draining" /\ fetcher'.got = fetcher.got
      BY <1>1, <2>1 DEF Fetcher
    <2>3. RecoveryTypeOK'
      BY <1>3, <2>2 DEF ReturnBatch, FetchInv, RecoveryTypeOK
    <2>4. SharesKept'
      BY <2>2 DEF FetchInv, SharesKept, GotFrom, PerBucket, Buckets
    <2> QED
      BY <2>2, <2>3, <2>4 DEF FetchInv, ReadingInv
  <1> QED
    BY <1>2, <1>3

\* Each attempt leaves one row less in hand.
LEMMA AttemptStep ==
    ASSUME FetchAssumption, FetchInv, NEW e \in Entries, Attempt(e)
    PROVE  FetchInv'
  <1>1. fetcher \in Fetcher /\ fetcher.pc = "draining"
        /\ fetcher' = [fetcher EXCEPT !.got = @ \ {e}]
    BY DEF FetchInv, RecoveryTypeOK, Attempt
  <1>2. fetcher' \in Fetcher /\ fetcher'.pc = "draining" /\ fetcher'.got = fetcher.got \ {e}
    BY <1>1 DEF Fetcher
  <1>3. RecoveryTypeOK'
    BY <1>2 DEF Attempt, FetchInv, RecoveryTypeOK
  <1>4. /\ Cardinality(fetcher'.got) <= Cardinality(fetcher.got)
        /\ Cardinality(fetcher'.got) \in Nat /\ Cardinality(fetcher.got) \in Nat
    BY <1>1, <1>2, GotFinite, FS_Subset, FS_CardinalityType
  <1>5. ASSUME NEW b \in Buckets PROVE Cardinality(GotFrom(b)') <= PerBucket
    <2>1. GotFrom(b)' \subseteq GotFrom(b)
      BY <1>2 DEF GotFrom
    <2>2. /\ IsFiniteSet(GotFrom(b)')
          /\ Cardinality(GotFrom(b)') <= Cardinality(GotFrom(b))
          /\ Cardinality(GotFrom(b)) \in Nat
      BY <1>1, <2>1, GotFinite, FS_Subset
    <2>3. Cardinality(GotFrom(b)') \in Nat /\ Cardinality(GotFrom(b)) <= PerBucket
      BY <2>2, FS_CardinalityType DEF FetchInv, SharesKept
    <2> QED
      BY <2>2, <2>3, PerBucketNat
  <1>6. Cardinality(fetcher'.got) <= FetchMax
    BY <1>4 DEF FetchInv, SharesKept, FetchAssumption
  <1>7. SharesKept'
    BY <1>5, <1>6 DEF SharesKept, PerBucket, Buckets
  <1> QED
    BY <1>2, <1>3, <1>7 DEF FetchInv, ReadingInv

\* A fetch begins, fails or is forgotten without a row in hand.
LEMMA EmptyHandsStep ==
    ASSUME FetchAssumption, FetchInv, DrainTick \/ ReadFails \/ FetcherRestart
    PROVE  FetchInv'
  <1>1. nextStart \in Buckets /\ 0 \in Buckets /\ {} \in SUBSET Entries /\ 0 \in 0 .. BucketCount
    BY DEF FetchInv, RecoveryTypeOK, FetchAssumption, Buckets
  <1>2. fetcher' \in Fetcher /\ fetcher'.got = {} /\ fetcher'.index = 0
    <2>1. fetcher' = [pc |-> "reading", start |-> nextStart, offset |-> 0, index |-> 0,
                     left |-> 0, got |-> {}]
          \/ fetcher' = [pc |-> "draining", start |-> 0, offset |-> 0, index |-> 0,
                        left |-> 0, got |-> {}]
      BY DEF DrainTick, ReadFails, FetcherRestart, Resting
    <2> QED
      BY <1>1, <2>1 DEF Fetcher
  <1>3. nextStart' \in Buckets /\ faults' \in 0 .. MaxFaults /\ pages' \in [Pages -> Nat]
    BY <1>1 DEF DrainTick, ReadFails, FetcherRestart, FetchInv, RecoveryTypeOK, FetchAssumption,
                Buckets
  <1>4. RecoveryTypeOK'
    BY <1>2, <1>3 DEF DrainTick, ReadFails, FetcherRestart, FetchInv, RecoveryTypeOK
  <1> QED
    BY <1>2, <1>4, RestingStep DEF FetchInv

\* The rows come and go without the fetcher.
LEMMA RowsStep ==
    ASSUME FetchInv, NEW e \in Entries, WriteEntry(e) \/ Lapse(e) \/ RemoveEntry(e)
    PROVE  FetchInv'
  <1>1. fetcher' = fetcher
    BY DEF WriteEntry, Lapse, RemoveEntry
  <1>2. RecoveryTypeOK'
    BY DEF WriteEntry, Lapse, RemoveEntry, FetchInv, RecoveryTypeOK
  <1>3. SharesKept' /\ ReadingInv'
    BY <1>1 DEF FetchInv, SharesKept, ReadingInv, GotFrom, Bucket, Turn, PerBucket, Buckets
  <1> QED
    BY <1>2, <1>3 DEF FetchInv

LEMMA FetchInvInit ==
    ASSUME FetchAssumption, RecoveryInit
    PROVE  FetchInv
  <1>1. 0 \in Buckets /\ {} \in SUBSET Entries /\ 0 \in 0 .. BucketCount
    BY DEF FetchAssumption, Buckets
  <1>2. RecoveryTypeOK
    BY <1>1 DEF RecoveryInit, RecoveryTypeOK, Resting, Fetcher, FetchAssumption
  <1>3. \A b : GotFrom(b) = {}
    BY DEF RecoveryInit, Resting, GotFrom
  <1>4. SharesKept
    BY <1>3, PerBucketNat, FS_EmptySet DEF RecoveryInit, Resting, SharesKept, FetchAssumption
  <1> QED
    BY <1>2, <1>4 DEF RecoveryInit, Resting, FetchInv, ReadingInv

LEMMA FetchInvNext ==
    ASSUME FetchAssumption, FetchInv, [RecoveryNext]_recoveryVars
    PROVE  FetchInv'
  <1>1. ASSUME UNCHANGED recoveryVars PROVE FetchInv'
    BY <1>1 DEF recoveryVars, FetchInv, RecoveryTypeOK, SharesKept, ReadingInv, GotFrom, Bucket,
                Turn, PerBucket, Buckets
  <1>2. ASSUME RecoveryNext PROVE FetchInv'
    BY <1>2, RowsStep, ReadPageStep, LeaveStep, AttemptStep, EmptyHandsStep
    DEF RecoveryNext, FetcherStep
  <1> QED
    BY <1>1, <1>2

\* The variables of OutboxFetch keep their types.
THEOREM RecoveryTyped == RecoverySpec => []RecoveryTypeOK
  <1>1. FetchInv => RecoveryTypeOK
    BY DEF FetchInv
  <1> QED
    BY <1>1, FetchAssumption, FetchInvInit, FetchInvNext, PTL DEF RecoverySpec

\* However many rows cannot be delivered, no bucket takes more of a fetch than
\* its share, so those visited later are not left out (outboxFetchCursor.fetch).
THEOREM BucketsKeepToShares == RecoverySpec => []SharesKept
  <1>1. FetchInv => SharesKept
    BY DEF FetchInv
  <1> QED
    BY <1>1, FetchAssumption, FetchInvInit, FetchInvNext, PTL DEF RecoverySpec
=============================================================================
