------------------------ MODULE IngestErasureProofs ------------------------
(***************************************************************************)
(* Theorems about IngestErasure, for every set of accounts, messages,       *)
(* requests and wipes.  First what holds at any time: the types, and that   *)
(* what a worker erased from a receipt stays erased (ErasedForGood).  Then  *)
(* what the wipe of some members of a group leaves to the others, while no  *)
(* message is old enough to expire (OthersKeepMessage and                   *)
(* TombstoneOnlyWhenAllWiped).  Last, with expiry again, that wipes leave   *)
(* the claim on a client_id of a live sender alone (ClaimSurvivesWipes).    *)
(***************************************************************************)
EXTENDS IngestErasure, TLAPS

\* The request holds a copy of the receipt it works for.
Holds(q) == req[q].pc \in {"index", "takeover", "write", "mark", "cas",
                           "publish", "reply", "acked"}

\* What a handler refers to exists.
HandlerOK(q) ==
    /\ req[q].pc \notin {"idle", "failed"} => req[q].key \in Keys /\ req[q].env \in Envelopes
    /\ Holds(q) => req[q].rec \in Receipt /\ req[q].rec.env = req[q].env
ConfirmerOK(d) == conf[d].pc # "idle" => conf[d].key \in Keys

\* A tombstone is empty; any other receipt has its envelope, and recipients
\* only of that envelope.
ReceiptOK(k) ==
    receipt[k] # None =>
        IF receipt[k].state = "recipient_erased"
        THEN receipt[k].env = None /\ receipt[k].to = {} /\ receipt[k].sanitized = TRUE
        ELSE receipt[k].env \in Envelopes /\ receipt[k].to \subseteq receipt[k].env.to

\* A worker has entries of the index it walks.  About to sanitize a receipt, it
\* has read a list with its account in it, of a direct message its account alone.
WorkerOK(u) ==
    /\ erase[u].phase = "receipts" => erase[u].todo \subseteq ReceiptIndexEntry
    /\ erase[u].phase \in OutboxPhases => erase[u].todo \subseteq OutboxIndexEntry
    /\ At(u, {"receipts"}, "cas") =>
          /\ erase[u].at \in ReceiptIndexEntry
          /\ u \in erase[u].read
          /\ erase[u].kind = "direct" => erase[u].read = {u}
    /\ At(u, OutboxPhases, "cas") => erase[u].at \in OutboxIndexEntry

TypeInv ==
    /\ ErasureTypeOK
    /\ \A q \in Requests : HandlerOK(q)
    /\ \A d \in Confirmers : ConfirmerOK(d)
    /\ \A k \in Keys : ReceiptOK(k)
    /\ \A u \in Wiped : WorkerOK(u)

-----------------------------------------------------------------------------
(***************************************************************************)
(* What the steps of a request do to its variables and to the receipt      *)
(***************************************************************************)

\* The variables of request q after a step; the other requests rest.
Becomes(q, pc, k, e, rec) ==
    /\ req' \in [Requests -> Request]
    /\ req'[q].pc = pc /\ req'[q].key = k /\ req'[q].env = e /\ req'[q].rec = rec
    /\ \A p \in Requests : p # q => req'[p] = req[p]

\* The receipt of key k after a step; the others stay.
ReceiptBecomes(k, r) ==
    /\ receipt' \in [Keys -> Receipt \union {None}]
    /\ receipt'[k] = r
    /\ \A j \in Keys : j # k => receipt'[j] = receipt[j]

\* The types as the steps use them.
LEMMA Types ==
    ASSUME TypeInv
    PROVE  /\ clock \in Nat /\ rows \subseteq Row /\ outbox \subseteq OutboxEntry
           /\ receiptIndex \subseteq ReceiptIndexEntry /\ rowIndex \subseteq RowIndexEntry
           /\ outboxIndex \subseteq OutboxIndexEntry /\ published \subseteq Delivery
           /\ receipt \in [Keys -> Receipt \union {None}]
           /\ req \in [Requests -> Request] /\ conf \in [Confirmers -> Confirmation]
           /\ erase \in [Wiped -> Worker]
           /\ \A q \in Requests : req[q] \in Request /\ HandlerOK(q)
           /\ \A u \in Wiped : erase[u] \in Worker /\ u \in Uins
           /\ \A k \in Keys : receipt[k] # None =>
                 /\ receipt[k] \in Receipt /\ receipt[k].created \in Nat
                 /\ receipt[k].to \in SUBSET Uins
  BY ErasureAssumption DEF TypeInv, ErasureTypeOK, TypeOK, Receipt

\* A handler that gives up.
LEMMA GiveUpEffect ==
    ASSUME TypeInv, NEW q \in Requests, GiveUp(q)
    PROVE  Becomes(q, "failed", None, None, None)
  <1>1. NoRequest("failed") \in Request
    BY DEF NoRequest, Request, RequestPC
  <1> QED
    BY <1>1, Types DEF GiveUp, Becomes, NoRequest

\* A handler that only moves on.
LEMMA GotoEffect ==
    ASSUME TypeInv, NEW q \in Requests, NEW pc \in RequestPC, Goto(q, pc)
    PROVE  Becomes(q, pc, req[q].key, req[q].env, req[q].rec)
  <1>1. [req[q] EXCEPT !.pc = pc] \in Request
    BY Types DEF Request
  <1> QED
    BY <1>1, Types DEF Goto, Becomes, Request

\* Receive: the handler has its input.
LEMMA ReceiveEffect ==
    ASSUME TypeInv, NEW q \in Requests, NEW k \in Keys, NEW e \in Envelopes, Receive(q, k, e)
    PROVE  Becomes(q, "claim", k, e, req[q].rec)
  <1>1. [[[[req[q] EXCEPT !.pc = "claim"] EXCEPT !.key = k] EXCEPT !.env = e]
            EXCEPT !.now = clock] \in Request
    <2>1. "claim" \in RequestPC
      BY DEF RequestPC
    <2> QED
      BY <2>1, Types DEF Request
  <1> QED
    BY <1>1, Types DEF Receive, Becomes, Request

\* ClaimCommitted and ClaimStale: the handler holds the receipt it loaded.
LEMMA LoadEffect ==
    ASSUME TypeInv, NEW q \in Requests, ClaimCommitted(q) \/ ClaimStale(q)
    PROVE  /\ req[q].key \in Keys /\ req[q].env \in Envelopes
           /\ receipt[req[q].key] \in Receipt /\ receipt[req[q].key] # None
           /\ receipt[req[q].key].env = req[q].env
           /\ \E pc \in {"publish", "reply", "takeover"} :
                 /\ Becomes(q, pc, req[q].key, req[q].env, receipt[req[q].key])
                 /\ pc # "takeover" => receipt[req[q].key].state \in {"stored", "delivered"}
           /\ UNCHANGED <<clock, storeVars, conf, published>>
  <1> DEFINE r == receipt[req[q].key]
             pc == IF ClaimCommitted(q)
                   THEN (IF r.state = "stored" THEN "publish" ELSE "reply") ELSE "takeover"
  <1>1. /\ req[q].pc = "load" /\ Loadable(r) /\ SameSubmission(q, r)
        /\ UNCHANGED <<clock, storeVars, conf, published>>
    BY DEF ClaimCommitted, ClaimStale, Committed, TakeoverAllowed
  <1>2. /\ req[q].key \in Keys /\ req[q].env \in Envelopes
        /\ r \in Receipt /\ r # None /\ r.env = req[q].env
    BY <1>1, Types DEF HandlerOK, Loadable, SameSubmission
  <1>3. pc \in {"publish", "reply", "takeover"} /\ pc \in RequestPC
    BY DEF RequestPC
  <1>4. ClaimCommitted(q) => r.state \in {"stored", "delivered"}
    BY DEF ClaimCommitted, Committed
  <1>5. req' = [req EXCEPT ![q] = [[req[q] EXCEPT !.rec = r] EXCEPT !.pc = pc]]
    <2>1. CASE ClaimCommitted(q)
      BY <2>1, Types DEF ClaimCommitted, Request
    <2>2. CASE ~ ClaimCommitted(q)
      BY <2>2, Types DEF ClaimStale, Request
    <2> QED
      BY <2>1, <2>2
  <1>6. [[req[q] EXCEPT !.rec = r] EXCEPT !.pc = pc] \in Request
    BY <1>2, <1>3, Types DEF Request
  <1>7. pc # "takeover" => ClaimCommitted(q)
    OBVIOUS
  <1> HIDE DEF pc
  <1>8. Becomes(q, pc, req[q].key, req[q].env, r)
    BY <1>5, <1>6, Types DEF Becomes, Request
  <1> QED
    BY <1>1, <1>2, <1>3, <1>4, <1>7, <1>8

\* IndexWrite: one index row, and the batch after the last one.
LEMMA IndexEffect ==
    ASSUME TypeInv, NEW q \in Requests, NEW u \in Uins, IndexWrite(q, u)
    PROVE  /\ Holds(q) /\ req[q].pc = "index" /\ req[q].key \in Keys
           /\ \E pc \in {"index", "write"} : Becomes(q, pc, req[q].key, req[q].env, req[q].rec)
  <1> DEFINE pc == IF req[q].todo = {u} THEN "write" ELSE "index"
  <1>1. Holds(q) /\ req[q].pc = "index" /\ req[q].key \in Keys
    BY Types DEF IndexWrite, Holds, HandlerOK
  <1>2. pc \in {"index", "write"} /\ pc \in RequestPC
    BY DEF RequestPC
  <1>3. req' = [req EXCEPT ![q] = [[req[q] EXCEPT !.todo = @ \ {u}] EXCEPT !.pc = pc]]
    BY Types DEF IndexWrite, Request
  <1> HIDE DEF pc
  <1>4. [[req[q] EXCEPT !.todo = @ \ {u}] EXCEPT !.pc = pc] \in Request
    <2>1. req[q].todo \ {u} \in SUBSET Uins
      BY Types DEF Request
    <2> QED
      BY <1>2, <2>1, Types DEF Request
  <1>5. Becomes(q, pc, req[q].key, req[q].env, req[q].rec)
    BY <1>3, <1>4, Types DEF Becomes, Request
  <1> QED
    BY <1>1, <1>2, <1>5

\* ClaimInsert: the new receipt, in the store and in the handler's hands.
LEMMA InsertEffect ==
    ASSUME TypeInv, NEW q \in Requests, ClaimInsert(q)
    PROVE  LET k == req[q].key
               n == NewReceipt(q)
           IN  /\ k \in Keys /\ req[q].env \in Envelopes /\ receipt[k] = None
               /\ n \in Receipt /\ n # None
               /\ n.state = "pending" /\ n.env = req[q].env /\ n.to = req[q].env.to
               /\ Becomes(q, "index", k, req[q].env, n)
               /\ ReceiptBecomes(k, n)
  <1> DEFINE k == req[q].key
             n == NewReceipt(q)
  <1>1. req[q].pc = "claim" /\ receipt[k] = None /\ k \in Keys /\ req[q].env \in Envelopes
    BY Types DEF ClaimInsert, HandlerOK
  <1>2. n \in Receipt
    BY <1>1, Types, KeysAssumption, TimeAssumption DEF NewReceipt, LeaseUntil, Receipt, Request
  <1>3. n.state = "pending" /\ n.env = req[q].env /\ n.to = req[q].env.to
    BY DEF NewReceipt
  <1>4. n # None /\ ErasureIndexUins(k, req[q].env) \in SUBSET Uins
    BY <1>1, <1>2, KeysAssumption, NoneAssumption DEF ErasureIndexUins
  <1>5. [[[req[q] EXCEPT !.pc = "index"] EXCEPT !.rec = n]
            EXCEPT !.todo = ErasureIndexUins(k, req[q].env)] \in Request
    <2>1. "index" \in RequestPC
      BY DEF RequestPC
    <2> QED
      BY <1>2, <1>4, <2>1, Types DEF Request
  <1>6. Becomes(q, "index", k, req[q].env, n)
    BY <1>5, Types DEF ClaimInsert, Becomes, Request
  <1>7. ReceiptBecomes(k, n)
    BY <1>1, <1>2, Types DEF ClaimInsert, ReceiptBecomes
  <1> QED
    BY <1>1, <1>2, <1>3, <1>4, <1>6, <1>7

\* Takeover: a new owner and lease, in the store and in the handler's copy.
LEMMA TakeoverEffect ==
    ASSUME TypeInv, NEW q \in Requests, Takeover(q)
    PROVE  LET k == req[q].key IN
           /\ k \in Keys /\ Holds(q) /\ receipt[k] # None /\ receipt[k].state = "pending"
           /\ receipt[k].lease = req[q].rec.lease
           /\ \E m \in Receipt : /\ m.env = req[q].rec.env /\ m.created = req[q].rec.created
                                 /\ m.to = req[q].rec.to /\ m.lease = LeaseUntil(req[q].now)
                                 /\ Becomes(q, "write", k, req[q].env, m)
           /\ \E n \in Receipt : /\ n.env = receipt[k].env /\ n.created = receipt[k].created
                                 /\ n.to = receipt[k].to /\ n.state = "pending"
                                 /\ n.sanitized = receipt[k].sanitized
                                 /\ n.owner = q /\ n.lease = LeaseUntil(req[q].now)
                                 /\ ReceiptBecomes(k, n)
  <1> DEFINE k == req[q].key
             r == receipt[k]
             t == LeaseUntil(req[q].now)
             n == [[r EXCEPT !.owner = q] EXCEPT !.lease = t]
             m == [[req[q].rec EXCEPT !.owner = q] EXCEPT !.lease = t]
  <1>1. /\ req[q].pc = "takeover" /\ Holds(q) /\ k \in Keys /\ req[q].rec \in Receipt
        /\ r # None /\ r \in Receipt /\ r.state = "pending" /\ r.lease = req[q].rec.lease
    BY Types DEF Takeover, OwnedAsLoaded, Holds, HandlerOK
  <1>2. t \in Nat
    BY Types, TimeAssumption DEF LeaseUntil, Request
  <1>3. /\ n \in Receipt /\ m \in Receipt
        /\ n.env = r.env /\ n.created = r.created /\ n.to = r.to /\ n.state = "pending"
        /\ n.sanitized = r.sanitized /\ n.owner = q /\ n.lease = t /\ m.lease = t
        /\ m.env = req[q].rec.env /\ m.created = req[q].rec.created /\ m.to = req[q].rec.to
    BY <1>1, <1>2 DEF Receipt
  <1>4. Becomes(q, "write", k, req[q].env, m)
    <2>1. "write" \in RequestPC
      BY DEF RequestPC
    <2>2. [[req[q] EXCEPT !.pc = "write"] EXCEPT !.rec = m] \in Request
      BY <1>3, <2>1, Types DEF Request
    <2>3. req' = [req EXCEPT ![q] = [[req[q] EXCEPT !.pc = "write"] EXCEPT !.rec = m]]
      BY Types DEF Takeover, Request
    <2> HIDE DEF m
    <2> QED
      BY <2>2, <2>3, Types DEF Becomes, Request
  <1>5. ReceiptBecomes(k, n)
    <2>1. receipt' = [receipt EXCEPT ![k] = n]
      BY DEF Takeover
    <2> HIDE DEF n
    <2> QED
      BY <1>1, <1>3, <2>1, Types DEF ReceiptBecomes
  <1> HIDE DEF n, m
  <1> QED
    BY <1>1, <1>3, <1>4, <1>5

\* MarkStored's compare-and-set: the receipt is stored.
LEMMA StoredEffect ==
    ASSUME TypeInv, NEW q \in Requests, MarkStoredCAS(q)
    PROVE  LET k == req[q].key IN
           /\ k \in Keys /\ Holds(q) /\ receipt[k] # None /\ receipt[k].state = "pending"
           /\ Becomes(q, "publish", k, req[q].env, req[q].rec)
           /\ \E n \in Receipt : /\ n.env = receipt[k].env /\ n.created = receipt[k].created
                                 /\ n.to = receipt[k].to /\ n.state = "stored"
                                 /\ n.owner = receipt[k].owner /\ n.lease = receipt[k].lease
                                 /\ ReceiptBecomes(k, n)
  <1> DEFINE k == req[q].key
             r == receipt[k]
             n == [r EXCEPT !.state = "stored"]
  <1>1. /\ Holds(q) /\ k \in Keys /\ r # None /\ r \in Receipt /\ r.state = "pending"
    BY Types DEF MarkStoredCAS, OwnedAsLoaded, Holds, HandlerOK
  <1>2. /\ n \in Receipt /\ n.env = r.env /\ n.created = r.created /\ n.to = r.to
        /\ n.state = "stored" /\ n.owner = r.owner /\ n.lease = r.lease
    BY <1>1 DEF Receipt
  <1>3. Becomes(q, "publish", k, req[q].env, req[q].rec)
    BY GotoEffect DEF MarkStoredCAS, RequestPC
  <1>4. receipt' = [receipt EXCEPT ![k] = n]
    BY DEF MarkStoredCAS
  <1> HIDE DEF n
  <1>5. ReceiptBecomes(k, n)
    BY <1>1, <1>2, <1>4, Types DEF ReceiptBecomes
  <1> QED
    BY <1>1, <1>2, <1>3, <1>5

-----------------------------------------------------------------------------
(***************************************************************************)
(* The types: requests                                                     *)
(***************************************************************************)

\* A receipt changed to one with the same recipients and envelope, or with
\* those of a new request, is in order if it was.
LEMMA ReceiptsOK ==
    ASSUME TypeInv, NEW k \in Keys, NEW r \in Receipt \union {None}, ReceiptBecomes(k, r),
           \/ r = None
           \/ r.state # "recipient_erased" /\ r.env \in Envelopes /\ r.to \subseteq r.env.to
           \/ r.state = "recipient_erased" /\ r.env = None /\ r.to = {} /\ r.sanitized = TRUE
    PROVE  \A j \in Keys : ReceiptOK(j)'
  <1>1. ASSUME NEW j \in Keys, j # k PROVE ReceiptOK(j)'
    BY <1>1 DEF TypeInv, ReceiptBecomes, ReceiptOK
  <1>2. ReceiptOK(k)'
    BY DEF ReceiptBecomes, ReceiptOK
  <1> QED
    BY <1>1, <1>2

\* A step of one request with typed effects on the store.
LEMMA RequestTyped ==
    ASSUME TypeInv, NEW q \in Requests, NEW pc, NEW k, NEW e, NEW rec,
           Becomes(q, pc, k, e, rec),
           pc \notin {"idle", "failed"} => k \in Keys /\ e \in Envelopes,
           pc \in {"index", "takeover", "write", "mark", "cas", "publish", "reply", "acked"} =>
               rec \in Receipt /\ rec.env = e,
           receipt' \in [Keys -> Receipt \union {None}], \A j \in Keys : ReceiptOK(j)',
           rows' \subseteq Row, outbox' \subseteq OutboxEntry,
           receiptIndex' \subseteq ReceiptIndexEntry, rowIndex' \subseteq RowIndexEntry,
           outboxIndex' \subseteq OutboxIndexEntry, published' \subseteq Delivery,
           UNCHANGED <<clock, conf, erase>>
    PROVE  TypeInv'
  <1>1. ErasureTypeOK'
    BY Types DEF ErasureTypeOK, TypeOK, Becomes
  <1>2. ASSUME NEW p \in Requests PROVE HandlerOK(p)'
    <2>1. CASE p = q
      BY <2>1 DEF Becomes, HandlerOK, Holds
    <2>2. CASE p # q
      BY <2>2 DEF TypeInv, Becomes, HandlerOK, Holds
    <2> QED
      BY <2>1, <2>2
  <1>3. \A d \in Confirmers : ConfirmerOK(d)'
    BY DEF TypeInv, ConfirmerOK
  <1>4. \A u \in Wiped : WorkerOK(u)'
    BY DEF TypeInv, WorkerOK, At
  <1> QED
    BY <1>1, <1>2, <1>3, <1>4 DEF TypeInv

\* ... and one that leaves the store alone.
LEMMA RequestTypedLocal ==
    ASSUME TypeInv, NEW q \in Requests, NEW pc, NEW k, NEW e, NEW rec,
           Becomes(q, pc, k, e, rec),
           pc \notin {"idle", "failed"} => k \in Keys /\ e \in Envelopes,
           pc \in {"index", "takeover", "write", "mark", "cas", "publish", "reply", "acked"} =>
               rec \in Receipt /\ rec.env = e,
           published' \subseteq Delivery,
           UNCHANGED <<clock, storeVars, conf, erase>>
    PROVE  TypeInv'
  <1>1. \A j \in Keys : ReceiptOK(j)'
    BY DEF TypeInv, ReceiptOK, storeVars
  <1>2. UNCHANGED <<receipt, rows, outbox, receiptIndex, rowIndex, outboxIndex>>
    BY DEF storeVars
  <1> QED
    BY <1>1, <1>2, Types, RequestTyped

\* The handlers that end: an error, a refused claim, a lost compare-and-set.
LEMMA GiveUpTyped ==
    ASSUME TypeInv, NEW q \in Requests, GiveUp(q),
           UNCHANGED <<clock, storeVars, conf, published, erase>>
    PROVE  TypeInv'
  BY GiveUpEffect, Types, RequestTypedLocal

\* The handlers that move on with what they hold.
LEMMA GotoTyped ==
    ASSUME TypeInv, NEW q \in Requests, NEW pc \in RequestPC \ {"idle", "failed"}, Goto(q, pc),
           req[q].pc \notin {"idle", "failed"}, pc \notin {"claim", "load"} => Holds(q),
           published' \subseteq Delivery,
           UNCHANGED <<clock, storeVars, conf, erase>>
    PROVE  TypeInv'
  <1>1. Becomes(q, pc, req[q].key, req[q].env, req[q].rec)
    BY GotoEffect
  <1>2. req[q].key \in Keys /\ req[q].env \in Envelopes
    BY Types DEF HandlerOK
  <1>3. pc \notin {"claim", "load"} => req[q].rec \in Receipt /\ req[q].rec.env = req[q].env
    BY Types DEF HandlerOK
  <1> QED
    BY <1>1, <1>2, <1>3, RequestTypedLocal

\* Receive, ClaimExists, ClaimCommitted, ClaimStale and IndexWrite keep the types.
LEMMA ClaimTyped ==
    ASSUME TypeInv, NEW q \in Requests, UNCHANGED erase,
           \/ \E k \in Keys, e \in Envelopes : Receive(q, k, e)
           \/ ClaimExists(q) \/ ClaimCommitted(q) \/ ClaimStale(q)
           \/ \E u \in Uins : IndexWrite(q, u)
    PROVE  TypeInv'
  <1>1. CASE \E k \in Keys, e \in Envelopes : Receive(q, k, e)
    <2>1. PICK k \in Keys, e \in Envelopes : Receive(q, k, e)
      BY <1>1
    <2>2. Becomes(q, "claim", k, e, req[q].rec) /\ UNCHANGED <<clock, storeVars, conf, published>>
      BY <2>1, ReceiveEffect DEF Receive
    <2> QED
      BY <2>2, Types, RequestTypedLocal
  <1>2. CASE ClaimExists(q)
    BY <1>2, GotoTyped, Types DEF ClaimExists, RequestPC
  <1>3. CASE ClaimCommitted(q) \/ ClaimStale(q)
    <2>1. PICK pc \in {"publish", "reply", "takeover"} :
             Becomes(q, pc, req[q].key, req[q].env, receipt[req[q].key])
      BY <1>3, LoadEffect
    <2> QED
      BY <1>3, <2>1, LoadEffect, Types, RequestTypedLocal
  <1>4. CASE \E u \in Uins : IndexWrite(q, u)
    <2>1. PICK u \in Uins : IndexWrite(q, u)
      BY <1>4
    <2>2. PICK pc \in {"index", "write"} : Becomes(q, pc, req[q].key, req[q].env, req[q].rec)
      BY <2>1, IndexEffect
    <2>3. /\ req[q].key \in Keys /\ req[q].env \in Envelopes
          /\ req[q].rec \in Receipt /\ req[q].rec.env = req[q].env
      BY <2>1, IndexEffect, Types DEF HandlerOK
    <2>4. receiptIndex' \subseteq ReceiptIndexEntry
      <3>1. [uin |-> u, key |-> req[q].key] \in ReceiptIndexEntry
        BY <2>3 DEF ReceiptIndexEntry
      <3>2. receiptIndex' = receiptIndex \union {[uin |-> u, key |-> req[q].key]}
        BY <2>1 DEF IndexWrite
      <3> QED
        BY <3>1, <3>2, Types
    <2>5. UNCHANGED <<clock, receipt, rows, outbox, rowIndex, outboxIndex, conf, published>>
      BY <2>1 DEF IndexWrite
    <2>6. \A j \in Keys : ReceiptOK(j)'
      BY <2>5 DEF TypeInv, ReceiptOK
    <2> QED
      BY <2>2, <2>3, <2>4, <2>5, <2>6, Types, RequestTyped
  <1> QED
    BY <1>1, <1>2, <1>3, <1>4

\* So do ClaimInsert, Takeover and the compare-and-set of MarkStored.
LEMMA ReceiptTyped ==
    ASSUME TypeInv, NEW q \in Requests, UNCHANGED erase,
           ClaimInsert(q) \/ Takeover(q) \/ MarkStoredCAS(q)
    PROVE  TypeInv'
  <1>0. UNCHANGED <<clock, rows, outbox, receiptIndex, rowIndex, outboxIndex, conf, published>>
    BY DEF ClaimInsert, Takeover, MarkStoredCAS
  <1>1. CASE ClaimInsert(q)
    <2>1. \A j \in Keys : ReceiptOK(j)'
      BY <1>1, InsertEffect, ReceiptsOK
    <2>2. receipt' \in [Keys -> Receipt \union {None}]
      BY <1>1, InsertEffect DEF ReceiptBecomes
    <2> QED
      BY <1>0, <1>1, <2>1, <2>2, InsertEffect, Types, RequestTyped
  <1>2. CASE Takeover(q)
    <2>1. PICK n \in Receipt : /\ n.env = receipt[req[q].key].env /\ n.to = receipt[req[q].key].to
                               /\ n.state = "pending" /\ ReceiptBecomes(req[q].key, n)
      BY <1>2, TakeoverEffect
    <2>2. PICK m \in Receipt : m.env = req[q].rec.env /\ Becomes(q, "write", req[q].key, req[q].env, m)
      BY <1>2, TakeoverEffect
    <2>3. /\ req[q].key \in Keys /\ Holds(q) /\ receipt[req[q].key] # None
          /\ receipt[req[q].key].state = "pending"
      BY <1>2, TakeoverEffect
    <2>4. req[q].env \in Envelopes /\ m.env = req[q].env
      BY <2>2, <2>3, Types DEF HandlerOK, Holds
    <2>5. n.env \in Envelopes /\ n.to \subseteq n.env.to
      BY <2>1, <2>3 DEF TypeInv, ReceiptOK
    <2>6. \A j \in Keys : ReceiptOK(j)'
      BY <2>1, <2>3, <2>5, ReceiptsOK
    <2>7. receipt' \in [Keys -> Receipt \union {None}]
      BY <2>1 DEF ReceiptBecomes
    <2> QED
      BY <1>0, <2>2, <2>3, <2>4, <2>6, <2>7, Types, RequestTyped
  <1>3. CASE MarkStoredCAS(q)
    <2>1. PICK n \in Receipt : /\ n.env = receipt[req[q].key].env /\ n.to = receipt[req[q].key].to
                               /\ n.state = "stored" /\ ReceiptBecomes(req[q].key, n)
      BY <1>3, StoredEffect
    <2>2. /\ req[q].key \in Keys /\ Holds(q) /\ receipt[req[q].key] # None
          /\ receipt[req[q].key].state = "pending"
          /\ Becomes(q, "publish", req[q].key, req[q].env, req[q].rec)
      BY <1>3, StoredEffect
    <2>3. req[q].env \in Envelopes /\ req[q].rec.env = req[q].env /\ req[q].rec \in Receipt
      BY <2>2, Types DEF HandlerOK, Holds
    <2>4. n.env \in Envelopes /\ n.to \subseteq n.env.to
      BY <2>1, <2>2 DEF TypeInv, ReceiptOK
    <2>5. \A j \in Keys : ReceiptOK(j)'
      BY <2>1, <2>2, <2>4, ReceiptsOK
    <2>6. receipt' \in [Keys -> Receipt \union {None}]
      BY <2>1 DEF ReceiptBecomes
    <2> QED
      BY <1>0, <2>2, <2>3, <2>5, <2>6, Types, RequestTyped
  <1> QED
    BY <1>1, <1>2, <1>3

\* What a batch writes.
LEMMA BatchEffect ==
    ASSUME TypeInv, NEW q \in Requests, WriteBatch(q)
    PROVE  LET k == req[q].key
               c == req[q].rec.created
           IN  /\ Holds(q) /\ k \in Keys /\ c \in Nat /\ req[q].env \in Envelopes
               /\ req[q].rec.to \in SUBSET Uins
               /\ req[q].rec \in Receipt /\ req[q].rec.env = req[q].env
               /\ Becomes(q, "mark", k, req[q].env, req[q].rec)
               /\ rows' = {x \in rows : ~SameRow(x, k, c)}
                            \union {[key |-> k, created |-> c, env |-> req[q].env]}
               /\ outbox' = {x \in outbox : ~SameRow(x, k, c)}
                              \union {[key |-> k, created |-> c, env |-> req[q].env,
                                       to |-> req[q].rec.to]}
               /\ rowIndex' \subseteq RowIndexEntry /\ outboxIndex' \subseteq OutboxIndexEntry
               /\ \A x \in outboxIndex' : x \in outboxIndex \/
                     (x.role = "sender" => x.uin = SenderOf[x.key])
  <1> DEFINE k == req[q].key
             c == req[q].rec.created
             e == req[q].env
  <1>1. /\ Holds(q) /\ k \in Keys /\ c \in Nat /\ e \in Envelopes /\ req[q].rec.to \in SUBSET Uins
        /\ req[q].rec \in Receipt /\ req[q].rec.env = e
    BY Types DEF WriteBatch, Holds, HandlerOK, Receipt
  <1>2. Becomes(q, "mark", k, e, req[q].rec)
    BY GotoEffect DEF WriteBatch, RequestPC
  <1>3. /\ rows' = {x \in rows : ~SameRow(x, k, c)} \union {[key |-> k, created |-> c, env |-> e]}
        /\ outbox' = {x \in outbox : ~SameRow(x, k, c)}
                       \union {[key |-> k, created |-> c, env |-> e, to |-> req[q].rec.to]}
    BY <1>1 DEF WriteBatch, Upsert
  <1>4. rowIndex' \subseteq RowIndexEntry
    <2>1. RowIndexEntries(k, c, e) \subseteq RowIndexEntry
      BY <1>1, KeysAssumption DEF RowIndexEntries, RowIndexUins, RowIndexEntry, Kind
    <2> QED
      BY <2>1, Types DEF WriteBatch
  <1>5. outboxIndex' \subseteq OutboxIndexEntry
    <2>1. OutboxIndexEntries(k, c, e, req[q].rec.to) \subseteq OutboxIndexEntry
      BY <1>1, KeysAssumption DEF OutboxIndexEntries, OutboxIndexEntry, Kind
    <2> QED
      BY <2>1, Types DEF WriteBatch
  <1>6. ASSUME NEW x \in outboxIndex', x \notin outboxIndex, x.role = "sender"
        PROVE  x.uin = SenderOf[x.key]
    <2>1. x \in OutboxIndexEntries(k, c, e, req[q].rec.to)
      BY <1>6 DEF WriteBatch
    <2>2. PICK u \in {SenderOf[k]} \union req[q].rec.to :
             x = [uin |-> u, key |-> k, created |-> c, kind |-> e.kind,
                  role |-> IF u = SenderOf[k] THEN "sender" ELSE "recipient"]
      BY <2>1 DEF OutboxIndexEntries
    <2> QED
      BY <1>6, <2>2
  <1> QED
    BY <1>1, <1>2, <1>3, <1>4, <1>5, <1>6

\* The batch keeps the types.
LEMMA BatchTyped ==
    ASSUME TypeInv, NEW q \in Requests, UNCHANGED erase, WriteBatch(q)
    PROVE  TypeInv'
  <1>1. UNCHANGED <<clock, receipt, receiptIndex, conf, published>>
    BY DEF WriteBatch
  <1>2. rows' \subseteq Row
    BY BatchEffect, Types DEF Row
  <1>3. outbox' \subseteq OutboxEntry
    BY BatchEffect, Types DEF OutboxEntry
  <1>4. \A j \in Keys : ReceiptOK(j)'
    BY <1>1 DEF TypeInv, ReceiptOK
  <1> QED
    BY <1>1, <1>2, <1>3, <1>4, BatchEffect, Types, RequestTyped

\* Every step of a request keeps the types.
LEMMA RequestStepTyped ==
    ASSUME TypeInv, NEW q \in Requests, RequestStep(q), UNCHANGED erase
    PROVE  TypeInv'
  <1>1. CASE \/ \E k \in Keys, e \in Envelopes : Receive(q, k, e)
             \/ ClaimExists(q) \/ ClaimCommitted(q) \/ ClaimStale(q)
             \/ \E u \in Uins : IndexWrite(q, u)
    BY <1>1, ClaimTyped
  <1>2. CASE ClaimInsert(q) \/ Takeover(q) \/ MarkStoredCAS(q)
    BY <1>2, ReceiptTyped
  <1>3. CASE WriteBatch(q)
    BY <1>3, BatchTyped
  <1>4. CASE GiveUp(q) /\ UNCHANGED <<clock, storeVars, conf, published>>
    BY <1>4, GiveUpTyped
  <1>5. CASE MarkStoredLoad(q) /\ LeaseHeld(q)
    <2>1. Goto(q, "cas") /\ req[q].pc = "mark" /\ UNCHANGED <<clock, storeVars, conf, published>>
      BY <1>5 DEF MarkStoredLoad
    <2> QED
      BY <2>1, GotoTyped, Types DEF RequestPC, Holds
  <1>6. CASE PublishError(q) \/ Reply(q)
    <2>1. /\ Goto(q, "reply") \/ Goto(q, "acked")
          /\ Holds(q) /\ req[q].pc \notin {"idle", "failed"}
          /\ UNCHANGED <<clock, storeVars, conf, published>>
      BY <1>6 DEF PublishError, Reply, Holds
    <2> QED
      BY <2>1, GotoTyped, Types DEF RequestPC
  <1>7. CASE Publish(q)
    <2>1. Goto(q, "reply") /\ req[q].pc = "publish" /\ Holds(q) /\ UNCHANGED <<clock, storeVars, conf>>
      BY <1>7 DEF Publish, Holds
    <2>2. RequestDelivery(q) \in Delivery
      BY <2>1, Types DEF RequestDelivery, Delivery, HandlerOK, Receipt
    <2>3. published' \subseteq Delivery
      BY <1>7, <2>2, Types DEF Publish
    <2> QED
      BY <2>1, <2>3, GotoTyped DEF RequestPC
  <1> QED
    BY <1>1, <1>2, <1>3, <1>4, <1>5, <1>6, <1>7
    DEF RequestStep, Claim, Persist, ClaimRefused, TakeoverLost, WriteExpired,
        MarkStoredLoad, MarkStoredLost, Fail

-----------------------------------------------------------------------------
(***************************************************************************)
(* The types: delivery receipts, time and the outbox worker                *)
(***************************************************************************)

\* A step that leaves the requests and the workers alone.
LEMMA StoreTyped ==
    ASSUME TypeInv, UNCHANGED <<req, erase>>, clock' \in Nat,
           receipt' \in [Keys -> Receipt \union {None}], \A j \in Keys : ReceiptOK(j)',
           rows' \subseteq Row, outbox' \subseteq OutboxEntry,
           UNCHANGED <<receiptIndex, rowIndex, outboxIndex>>, published' \subseteq Delivery,
           conf' \in [Confirmers -> Confirmation], \A d \in Confirmers : ConfirmerOK(d)'
    PROVE  TypeInv'
  <1>1. ErasureTypeOK'
    BY Types DEF ErasureTypeOK, TypeOK
  <1>2. (\A q \in Requests : HandlerOK(q)') /\ (\A u \in Wiped : WorkerOK(u)')
    BY DEF TypeInv, HandlerOK, Holds, WorkerOK, At
  <1> QED
    BY <1>1, <1>2 DEF TypeInv

\* The variables of a delivery-receipt handler after a step.
ConfBecomes(d, pc, k) ==
    /\ conf' \in [Confirmers -> Confirmation]
    /\ conf'[d].pc = pc /\ conf'[d].key = k
    /\ \A c \in Confirmers : c # d => conf'[c] = conf[c]

\* The end of a delivery-receipt handler.
LEMMA ConfirmEndEffect ==
    ASSUME TypeInv, NEW d \in Confirmers, ConfirmEnd(d)
    PROVE  ConfBecomes(d, "idle", None)
  <1>1. NoConfirmation \in Confirmation
    BY DEF NoConfirmation, Confirmation, ConfirmerPC
  <1> QED
    BY <1>1, Types DEF ConfirmEnd, ConfBecomes, NoConfirmation

\* A delivery receipt names a published message.
LEMMA ConfirmStartEffect ==
    ASSUME TypeInv, NEW d \in Confirmers, NEW m \in published, ConfirmStart(d, m)
    PROVE  m.key \in Keys /\ ConfBecomes(d, "load", m.key)
  <1>1. m.key \in Keys
    BY Types DEF Delivery
  <1>2. [[conf[d] EXCEPT !.pc = "load"] EXCEPT !.key = m.key] \in Confirmation
    <2>1. "load" \in ConfirmerPC
      BY DEF ConfirmerPC
    <2> QED
      BY <1>1, <2>1, Types DEF Confirmation
  <1> QED
    BY <1>1, <1>2, Types DEF ConfirmStart, ConfBecomes, Confirmation

\* MarkDelivered loads a receipt.
LEMMA ConfirmLoadEffect ==
    ASSUME TypeInv, NEW d \in Confirmers, ConfirmLoad(d)
    PROVE  LET k == conf[d].key IN
           /\ k \in Keys /\ receipt[k] # None
           /\ \E pc \in {"cas", "delete"} :
                 ConfBecomes(d, pc, k) /\ (pc = "delete" => receipt[k].state = "delivered")
  <1> DEFINE k == conf[d].key
             r == receipt[k]
             pc == IF r.state = "delivered" THEN "delete" ELSE "cas"
  <1>1. k \in Keys /\ r # None /\ r.created \in Nat
    BY Types DEF ConfirmLoad, Loadable, TypeInv, ConfirmerOK
  <1>2. pc \in {"cas", "delete"} /\ pc \in ConfirmerPC /\ (pc = "delete" => r.state = "delivered")
    BY DEF ConfirmerPC
  <1>3. conf' = [conf EXCEPT ![d] = [[conf[d] EXCEPT !.created = r.created] EXCEPT !.pc = pc]]
    BY Types DEF ConfirmLoad, Confirmation
  <1> HIDE DEF pc
  <1>4. [[conf[d] EXCEPT !.created = r.created] EXCEPT !.pc = pc] \in Confirmation
    BY <1>1, <1>2, Types DEF Confirmation
  <1>5. ConfBecomes(d, pc, k)
    BY <1>3, <1>4, Types DEF ConfBecomes, Confirmation
  <1> QED
    BY <1>1, <1>2, <1>5

\* MarkDelivered's compare-and-set.
LEMMA ConfirmCASEffect ==
    ASSUME TypeInv, NEW d \in Confirmers, ConfirmCAS(d)
    PROVE  LET k == conf[d].key IN
           /\ k \in Keys /\ receipt[k] # None /\ receipt[k].state = "stored"
           /\ ConfBecomes(d, "delete", k)
           /\ \E n \in Receipt : /\ n.env = receipt[k].env /\ n.created = receipt[k].created
                                 /\ n.to = receipt[k].to /\ n.state = "delivered"
                                 /\ n.owner = receipt[k].owner /\ n.lease = receipt[k].lease
                                 /\ ReceiptBecomes(k, n)
  <1> DEFINE k == conf[d].key
             r == receipt[k]
             n == [r EXCEPT !.state = "delivered"]
  <1>1. k \in Keys /\ r # None /\ r \in Receipt /\ r.state = "stored"
    BY Types DEF ConfirmCAS, TypeInv, ConfirmerOK
  <1>2. /\ n \in Receipt /\ n.env = r.env /\ n.created = r.created /\ n.to = r.to
        /\ n.state = "delivered" /\ n.owner = r.owner /\ n.lease = r.lease
    BY <1>1 DEF Receipt
  <1>3. receipt' = [receipt EXCEPT ![k] = n]
    BY DEF ConfirmCAS
  <1> HIDE DEF n
  <1>4. ReceiptBecomes(k, n)
    BY <1>1, <1>2, <1>3, Types DEF ReceiptBecomes
  <1>5. [conf[d] EXCEPT !.pc = "delete"] \in Confirmation
    <2>1. "delete" \in ConfirmerPC
      BY DEF ConfirmerPC
    <2> QED
      BY <2>1, Types DEF Confirmation
  <1>6. ConfBecomes(d, "delete", k)
    BY <1>5, Types DEF ConfirmCAS, ConfBecomes, Confirmation
  <1> QED
    BY <1>1, <1>2, <1>4, <1>6

\* The delivery-receipt handlers keep the types.
LEMMA ConfirmTyped ==
    ASSUME TypeInv, NEW d \in Confirmers, UNCHANGED erase,
           (\E m \in published : ConfirmStart(d, m)) \/ ConfirmStep(d)
    PROVE  TypeInv'
  <1>1. ASSUME NEW pc, NEW k, ConfBecomes(d, pc, k), pc # "idle" => k \in Keys,
               UNCHANGED <<clock, receipt, rows, receiptIndex, rowIndex, outboxIndex, req, published>>,
               outbox' \subseteq outbox
        PROVE  TypeInv'
    <2>1. \A c \in Confirmers : ConfirmerOK(c)'
      BY <1>1 DEF TypeInv, ConfirmerOK, ConfBecomes
    <2>2. \A j \in Keys : ReceiptOK(j)'
      BY <1>1 DEF TypeInv, ReceiptOK
    <2>3. conf' \in [Confirmers -> Confirmation]
      BY <1>1 DEF ConfBecomes
    <2> QED
      BY <1>1, <2>1, <2>2, <2>3, Types, StoreTyped
  <1>2. CASE \E m \in published : ConfirmStart(d, m)
    <2>1. PICK m \in published : ConfirmStart(d, m)
      BY <1>2
    <2> QED
      BY <1>1, <2>1, ConfirmStartEffect DEF ConfirmStart, storeVars
  <1>3. CASE ConfirmLoad(d)
    <2>1. PICK pc \in {"cas", "delete"} : ConfBecomes(d, pc, conf[d].key)
      BY <1>3, ConfirmLoadEffect
    <2> QED
      BY <1>1, <1>3, <2>1, ConfirmLoadEffect DEF ConfirmLoad, storeVars
  <1>4. CASE ConfirmCAS(d)
    <2>1. PICK n \in Receipt : /\ n.env = receipt[conf[d].key].env
                               /\ n.to = receipt[conf[d].key].to
                               /\ n.state = "delivered" /\ ReceiptBecomes(conf[d].key, n)
      BY <1>4, ConfirmCASEffect
    <2>2. /\ conf[d].key \in Keys /\ receipt[conf[d].key] # None
          /\ receipt[conf[d].key].state = "stored"
          /\ ConfBecomes(d, "delete", conf[d].key)
      BY <1>4, ConfirmCASEffect
    <2>3. n.env \in Envelopes /\ n.to \subseteq n.env.to
      BY <2>1, <2>2 DEF TypeInv, ReceiptOK
    <2>4. \A j \in Keys : ReceiptOK(j)'
      BY <2>1, <2>2, <2>3, ReceiptsOK
    <2>5. receipt' \in [Keys -> Receipt \union {None}] /\ conf' \in [Confirmers -> Confirmation]
      BY <2>1, <2>2 DEF ReceiptBecomes, ConfBecomes
    <2>6. \A c \in Confirmers : ConfirmerOK(c)'
      BY <2>2 DEF TypeInv, ConfirmerOK, ConfBecomes
    <2>7. UNCHANGED <<clock, rows, outbox, receiptIndex, rowIndex, outboxIndex, req, published>>
      BY <1>4 DEF ConfirmCAS
    <2> QED
      BY <2>4, <2>5, <2>6, <2>7, Types, StoreTyped
  <1>5. CASE ConfirmDelete(d)
    BY <1>1, <1>5, ConfirmEndEffect DEF ConfirmDelete
  <1>6. CASE ConfirmFail(d)
    BY <1>1, <1>6, ConfirmEndEffect DEF ConfirmFail, storeVars
  <1> QED
    BY <1>2, <1>3, <1>4, <1>5, <1>6 DEF ConfirmStep

\* Time and the outbox worker keep the types.
LEMMA TimeTyped ==
    ASSUME TypeInv, UNCHANGED erase, TimeStep \/ \E o \in outbox : OutboxPublish(o)
    PROVE  TypeInv'
  <1>1. ASSUME UNCHANGED <<receipt, req, conf, receiptIndex, rowIndex, outboxIndex>>,
               clock' \in Nat, rows' \subseteq rows, outbox' \subseteq outbox,
               published' \subseteq Delivery
        PROVE  TypeInv'
    <2>1. (\A j \in Keys : ReceiptOK(j)') /\ (\A c \in Confirmers : ConfirmerOK(c)')
      BY <1>1 DEF TypeInv, ReceiptOK, ConfirmerOK
    <2> QED
      BY <1>1, <2>1, Types, StoreTyped
  <1>2. CASE Tick
    BY <1>1, <1>2, Types DEF Tick, storeVars
  <1>3. ASSUME NEW k \in Keys, EvictReceipt(k) PROVE TypeInv'
    <2>1. ReceiptBecomes(k, None)
      BY <1>3, Types DEF EvictReceipt, ReceiptBecomes
    <2>2. \A j \in Keys : ReceiptOK(j)'
      BY <2>1, ReceiptsOK
    <2>3. (\A c \in Confirmers : ConfirmerOK(c)') /\ receipt' \in [Keys -> Receipt \union {None}]
      BY <1>3, <2>1 DEF TypeInv, ConfirmerOK, EvictReceipt, ReceiptBecomes
    <2> QED
      BY <1>3, <2>2, <2>3, Types, StoreTyped DEF EvictReceipt
  <1>4. ASSUME NEW r \in rows, EvictRow(r) PROVE TypeInv'
    BY <1>1, <1>4, Types DEF EvictRow
  <1>5. ASSUME NEW o \in outbox, EvictOutbox(o) PROVE TypeInv'
    BY <1>1, <1>5, Types DEF EvictOutbox
  <1>6. ASSUME NEW o \in outbox, OutboxPublish(o) PROVE TypeInv'
    <2>1. [key |-> o.key, created |-> o.created, env |-> o.env] \in Delivery
      BY Types DEF OutboxEntry, Delivery
    <2>2. published' \subseteq Delivery
      BY <1>6, <2>1, Types DEF OutboxPublish
    <2> QED
      BY <1>1, <1>6, <2>2, Types DEF OutboxPublish, storeVars
  <1> QED
    BY <1>2, <1>3, <1>4, <1>5, <1>6 DEF TimeStep

-----------------------------------------------------------------------------
(***************************************************************************)
(* What the steps of a worker do to its variables                          *)
(***************************************************************************)

\* The worker of u after a step; the others rest.
WorkerBecomes(u, w) ==
    /\ erase' \in [Wiped -> Worker]
    /\ erase'[u] = w
    /\ \A v \in Wiped : v # u => erase'[v] = erase[v]

\* The worker of u is between two statements of its walk, and has taken up no
\* entry since.
Walks(u) ==
    /\ erase' \in [Wiped -> Worker]
    /\ erase'[u].phase # "idle"
    /\ erase'[u].step # "cas"
    /\ erase'[u].todo = {} \/ (erase'[u].phase = erase[u].phase /\ erase'[u].todo \subseteq erase[u].todo)
    /\ \A v \in Wiped : v # u => erase'[v] = erase[v]

\* One worker steps.
LEMMA WorkerUpdate ==
    ASSUME TypeInv, NEW u \in Wiped, NEW w \in Worker, erase' = [erase EXCEPT ![u] = w]
    PROVE  WorkerBecomes(u, w)
  BY Types DEF WorkerBecomes

\* Workers before a scan and between two entries.
LEMMA WorkersTyped ==
    /\ \A p \in Phases : AtPhase(p) \in Worker
    /\ \A p \in Phases, todo \in SUBSET IndexEntry, tries \in 0 .. (CASAttempts - 1) :
          AtItem(p, todo, tries) \in Worker
  <1>1. 0 \in 0 .. (CASAttempts - 1) /\ "direct" \in Kind
    BY ErasureAssumption DEF Kind
  <1> QED
    BY <1>1 DEF AtPhase, AtItem, Worker

\* A worker that starts, or starts again.
LEMMA RestartEffect ==
    ASSUME TypeInv, NEW u \in Wiped, NEW p \in Phases \ {"idle"},
           erase' = [erase EXCEPT ![u] = AtPhase(p)]
    PROVE  Walks(u)
  <1>1. AtPhase(p) \in Worker
    BY WorkersTyped
  <1>2. WorkerBecomes(u, AtPhase(p))
    BY <1>1, WorkerUpdate
  <1> QED
    BY <1>2 DEF WorkerBecomes, Walks, AtPhase

\* A worker that is done with an entry.
LEMMA DoneEffect ==
    ASSUME TypeInv, NEW u \in Wiped, NEW e, Done(u, e), erase[u].phase # "idle"
    PROVE  Walks(u)
  <1>1. /\ erase[u].phase \in Phases /\ erase[u].todo \ {e} \in SUBSET IndexEntry
        /\ 0 \in 0 .. (CASAttempts - 1)
    BY Types, ErasureAssumption DEF Worker
  <1>2. AtItem(erase[u].phase, erase[u].todo \ {e}, 0) \in Worker
    BY <1>1, WorkersTyped
  <1>3. WorkerBecomes(u, AtItem(erase[u].phase, erase[u].todo \ {e}, 0))
    BY <1>2, WorkerUpdate DEF Done
  <1> QED
    BY <1>3 DEF WorkerBecomes, Walks, AtItem

\* A worker whose compare-and-set was not applied.
LEMMA RetryEffect ==
    ASSUME TypeInv, NEW u \in Wiped, Retry(u), erase[u].phase # "idle"
    PROVE  Walks(u)
  <1>1. CASE erase[u].tries + 1 = CASAttempts
    BY <1>1, RestartEffect DEF Retry, Phases
  <1>2. CASE erase[u].tries + 1 # CASAttempts
    <2>1. /\ erase[u].phase \in Phases /\ erase[u].todo \in SUBSET IndexEntry
          /\ erase[u].tries + 1 \in 0 .. (CASAttempts - 1)
      BY <1>2, Types, ErasureAssumption DEF Worker
    <2>2. AtItem(erase[u].phase, erase[u].todo, erase[u].tries + 1) \in Worker
      BY <2>1, WorkersTyped
    <2>3. WorkerBecomes(u, AtItem(erase[u].phase, erase[u].todo, erase[u].tries + 1))
      BY <1>2, <2>2, WorkerUpdate DEF Retry
    <2> QED
      BY <2>3 DEF WorkerBecomes, Walks, AtItem
  <1> QED
    BY <1>1, <1>2

\* A worker that has scanned its index.
LEMMA ScanEffect ==
    ASSUME TypeInv, NEW u \in Wiped, EraseScan(u)
    PROVE  /\ erase' \in [Wiped -> Worker]
           /\ erase'[u].phase = erase[u].phase /\ erase[u].phase # "idle" /\ erase'[u].step = "item"
           /\ erase[u].phase = "receipts" => erase'[u].todo \subseteq receiptIndex
           /\ erase[u].phase \in OutboxPhases =>
                 \A e \in erase'[u].todo : e \in outboxIndex /\ e.uin = u
           /\ \A v \in Wiped : v # u => erase'[v] = erase[v]
  <1> DEFINE found == CASE erase[u].phase \in RowPhases -> Rows(u)
                        [] erase[u].phase = "receipts" -> Receipts(u)
                        [] OTHER -> Outboxes(u)
  <1>1. /\ erase[u].phase \in Phases /\ erase[u].phase # "idle" /\ 0 \in 0 .. (CASAttempts - 1)
    BY Types, ErasureAssumption DEF Worker, EraseScan, At
  <1>2. found \in SUBSET IndexEntry
    BY Types DEF Rows, Receipts, Outboxes, IndexEntry
  <1>3. /\ erase[u].phase = "receipts" => found = Receipts(u)
        /\ erase[u].phase \in OutboxPhases => found = Outboxes(u)
    BY DEF RowPhases, OutboxPhases
  <1>4. erase' = [erase EXCEPT ![u] = AtItem(erase[u].phase, found, 0)]
    BY DEF EraseScan
  <1> HIDE DEF found
  <1>5. AtItem(erase[u].phase, found, 0) \in Worker
    BY <1>1, <1>2, WorkersTyped
  <1>6. WorkerBecomes(u, AtItem(erase[u].phase, found, 0))
    BY <1>4, <1>5, WorkerUpdate
  <1>7. erase'[u].phase = erase[u].phase /\ erase'[u].step = "item" /\ erase'[u].todo = found
    BY <1>6 DEF WorkerBecomes, AtItem
  <1> QED
    BY <1>1, <1>3, <1>6, <1>7 DEF WorkerBecomes, Receipts, Outboxes

-----------------------------------------------------------------------------
(***************************************************************************)
(* The types: workers                                                      *)
(***************************************************************************)

\* A step of one worker that changes no handler.
LEMMA WorkerTyped ==
    ASSUME TypeInv, NEW u \in Wiped, erase' \in [Wiped -> Worker], WorkerOK(u)',
           \A v \in Wiped : v # u => erase'[v] = erase[v],
           UNCHANGED <<clock, req, conf, published>>,
           receipt' \in [Keys -> Receipt \union {None}], \A j \in Keys : ReceiptOK(j)',
           rows' \subseteq rows, outbox' \subseteq OutboxEntry,
           receiptIndex' \subseteq receiptIndex, rowIndex' \subseteq rowIndex,
           outboxIndex' \subseteq outboxIndex
    PROVE  TypeInv'
  <1>1. ErasureTypeOK'
    BY Types DEF ErasureTypeOK, TypeOK
  <1>2. (\A q \in Requests : HandlerOK(q)') /\ (\A d \in Confirmers : ConfirmerOK(d)')
    BY DEF TypeInv, HandlerOK, Holds, ConfirmerOK
  <1>3. ASSUME NEW v \in Wiped PROVE WorkerOK(v)'
    <2>1. CASE v = u
      BY <2>1
    <2>2. CASE v # u
      BY <2>2 DEF TypeInv, WorkerOK, At
    <2> QED
      BY <2>1, <2>2
  <1> QED
    BY <1>1, <1>2, <1>3 DEF TypeInv

\* A worker that walks on has entries of its index, and nothing to compare.
LEMMA WalksOK ==
    ASSUME TypeInv, NEW u \in Wiped, Walks(u)
    PROVE  WorkerOK(u)'
  BY DEF TypeInv, Walks, WorkerOK, At

\* ... and one after which the worker walks on, the receipts being the same.
LEMMA WalkTyped ==
    ASSUME TypeInv, NEW u \in Wiped, Walks(u),
           UNCHANGED <<clock, req, conf, published, receipt>>,
           rows' \subseteq rows, outbox' \subseteq OutboxEntry,
           receiptIndex' \subseteq receiptIndex, rowIndex' \subseteq rowIndex,
           outboxIndex' \subseteq outboxIndex
    PROVE  TypeInv'
  <1>1. \A j \in Keys : ReceiptOK(j)'
    BY DEF TypeInv, ReceiptOK
  <1> QED
    BY <1>1, WalksOK, WorkerTyped, Types DEF Walks

\* The start of a wipe, a failure, the end of a phase.
LEMMA PhaseEffect ==
    ASSUME TypeInv, NEW u \in Wiped, EraseStart(u) \/ EraseFail(u) \/ EraseDropIndex(u)
    PROVE  Walks(u) /\ UNCHANGED <<clock, req, conf, published, receipt, rows, outbox>>
  <1>1. CASE EraseStart(u) \/ EraseFail(u)
    BY <1>1, RestartEffect DEF EraseStart, EraseFail, Phases, vars, storeVars
  <1>2. CASE EraseDropIndex(u)
    <2>1. erase[u].phase \in Phases \ {"idle", "done"}
      BY <1>2 DEF EraseDropIndex, At
    <2>2. NextPhase[erase[u].phase] \in Phases \ {"idle"}
      BY <2>1 DEF NextPhase, Phases
    <2> QED
      BY <1>2, <2>2, RestartEffect DEF EraseDropIndex
  <1> QED
    BY <1>1, <1>2

\* A worker that has deleted a message row goes on to the counterpart's index
\* entry, or to the next entry.
LEMMA RowEffect ==
    ASSUME TypeInv, NEW u \in Wiped, NEW e \in erase[u].todo, EraseRow(u, e)
    PROVE  Walks(u)
  <1>1. erase[u].phase # "idle"
    BY DEF EraseRow, At, RowPhases
  <1>2. CASE e.kind # "direct"
    BY <1>1, <1>2, DoneEffect DEF EraseRow
  <1>3. CASE e.kind = "direct"
    <2> DEFINE w == [[erase[u] EXCEPT !.step = "mirror"] EXCEPT !.at = e]
    <2>1. w \in Worker
      BY Types DEF Worker
    <2>2. erase' = [erase EXCEPT ![u] = w]
      BY <1>3, Types DEF EraseRow, Worker
    <2>3. w.phase = erase[u].phase /\ w.step = "mirror" /\ w.todo = erase[u].todo
      BY Types DEF Worker
    <2> HIDE DEF w
    <2> QED
      BY <1>1, <2>1, <2>2, <2>3, WorkerUpdate DEF WorkerBecomes, Walks
  <1> QED
    BY <1>2, <1>3

\* What a worker that read a receipt remembers.
LEMMA ReadReceiptEffect ==
    ASSUME TypeInv, NEW u \in Wiped, NEW e \in erase[u].todo, EraseReadReceipt(u, e)
    PROVE  /\ UNCHANGED vars
           /\ e \in ReceiptIndexEntry
           /\ \/ Walks(u)
              \/ /\ ~ NothingToSanitize(u, e.key)
                 /\ erase' \in [Wiped -> Worker]
                 /\ erase'[u].phase = "receipts" /\ erase'[u].step = "cas"
                 /\ erase'[u].todo = erase[u].todo /\ erase'[u].at = e
                 /\ erase'[u].read = receipt[e.key].to
                 /\ erase'[u].kind = receipt[e.key].env.kind
                 /\ \A v \in Wiped : v # u => erase'[v] = erase[v]
  <1> DEFINE r == receipt[e.key]
             w == [[[[erase[u] EXCEPT !.step = "cas"] EXCEPT !.at = e] EXCEPT !.read = r.to]
                     EXCEPT !.kind = r.env.kind]
  <1>1. /\ erase[u].phase = "receipts" /\ e \in ReceiptIndexEntry /\ e.key \in Keys
        /\ e \in IndexEntry /\ UNCHANGED vars
    BY DEF EraseReadReceipt, At, TypeInv, WorkerOK, ReceiptIndexEntry, IndexEntry
  <1>2. CASE NothingToSanitize(u, e.key)
    BY <1>1, <1>2, DoneEffect DEF EraseReadReceipt
  <1>3. CASE ~ NothingToSanitize(u, e.key)
    <2>1. r # None /\ r.state # "recipient_erased" /\ r.to \in SUBSET Uins /\ r.env \in Envelopes
      BY <1>1, <1>3, Types DEF NothingToSanitize, TypeInv, ReceiptOK
    <2>2. r.env.kind \in Kind
      BY <2>1, KeysAssumption DEF Kind
    <2>3. w \in Worker
      BY <1>1, <2>1, <2>2, Types DEF Worker
    <2>4. erase' = [erase EXCEPT ![u] = w]
      BY <1>3, Types DEF EraseReadReceipt, Worker
    <2>5. /\ w.phase = "receipts" /\ w.step = "cas" /\ w.todo = erase[u].todo /\ w.at = e
          /\ w.read = r.to /\ w.kind = r.env.kind
      BY <1>1, Types DEF Worker
    <2> HIDE DEF w
    <2> QED
      BY <1>1, <1>3, <2>3, <2>4, <2>5, WorkerUpdate DEF WorkerBecomes
  <1> QED
    BY <1>1, <1>2, <1>3

\* What a worker that read an outbox row remembers.
LEMMA ReadOutboxEffect ==
    ASSUME TypeInv, NEW u \in Wiped, NEW e \in erase[u].todo, EraseReadOutbox(u, e)
    PROVE  /\ UNCHANGED vars
           /\ e \in OutboxIndexEntry
           /\ \/ Walks(u)
              \/ /\ erase' \in [Wiped -> Worker]
                 /\ erase[u].phase \in OutboxPhases
                 /\ erase'[u].phase = erase[u].phase /\ erase'[u].step = "cas"
                 /\ erase'[u].todo = erase[u].todo /\ erase'[u].at = e
                 /\ \E o \in outbox : o.key = e.key /\ erase'[u].read = o.to
                 /\ \A v \in Wiped : v # u => erase'[v] = erase[v]
  <1>1. /\ erase[u].phase \in OutboxPhases /\ e \in OutboxIndexEntry
        /\ e \in IndexEntry /\ UNCHANGED vars
    BY DEF EraseReadOutbox, At, TypeInv, WorkerOK, IndexEntry
  <1> DEFINE live == {o \in OutboxAt(e) : Unexpired(o.created) /\ u \in o.to}
  <1>2. CASE live = {}
    BY <1>1, <1>2, DoneEffect DEF EraseReadOutbox, OutboxPhases
  <1>3. CASE live # {}
    <2>1. PICK o \in live :
             erase' = [erase EXCEPT ![u] = [@ EXCEPT !.step = "cas", !.at = e, !.read = o.to]]
      BY <1>3 DEF EraseReadOutbox
    <2>2. o \in outbox /\ o.key = e.key /\ o.to \in SUBSET Uins
      BY Types DEF OutboxAt, SameRow, OutboxEntry
    <2> DEFINE w == [[[erase[u] EXCEPT !.step = "cas"] EXCEPT !.at = e] EXCEPT !.read = o.to]
    <2>3. w \in Worker
      BY <1>1, <2>2, Types DEF Worker
    <2>4. erase' = [erase EXCEPT ![u] = w]
      BY <2>1, Types DEF Worker
    <2>5. /\ w.phase = erase[u].phase /\ w.step = "cas" /\ w.todo = erase[u].todo /\ w.at = e
          /\ w.read = o.to
      BY <1>1, Types DEF Worker
    <2> HIDE DEF w
    <2> QED
      BY <1>1, <2>2, <2>3, <2>4, <2>5, WorkerUpdate DEF WorkerBecomes
  <1> QED
    BY <1>1, <1>2, <1>3

\* What SanitizeReceipt leaves.
LEMMA SanitizeEffect ==
    ASSUME TypeInv, NEW u \in Wiped, SanitizeReceipt(u)
    PROVE  LET k == erase[u].at.key
               r == receipt[k]
               left == erase[u].read \ {u}
           IN  /\ k \in Keys /\ r # None /\ r \in Receipt
               /\ erase[u].kind = "direct" => left = {}
               /\ erase[u].kind = "direct" \/ r.to = erase[u].read
               /\ \E n \in Receipt :
                     /\ ReceiptBecomes(k, n) /\ n.created = r.created
                     /\ n.owner = r.owner /\ n.lease = r.lease
                     /\ left = {} => n = Tombstone(r)
                     /\ left # {} => n.state = r.state /\ n.env = r.env /\ n.to = left
               /\ left # {} => r.state # "recipient_erased"
               /\ Walks(u)
  <1> DEFINE k == erase[u].at.key
             r == receipt[k]
             left == erase[u].read \ {u}
             n == Sanitized(r, left)
  <1>1. /\ At(u, {"receipts"}, "cas") /\ erase[u].at \in ReceiptIndexEntry
        /\ u \in erase[u].read /\ (erase[u].kind = "direct" => erase[u].read = {u})
    BY DEF SanitizeReceipt, TypeInv, WorkerOK
  <1>2. k \in Keys /\ erase[u].kind \in {"direct", "group"} /\ left \in SUBSET Uins
    BY <1>1, Types DEF ReceiptIndexEntry, Worker, Kind
  <1>3. r # None /\ r \in Receipt /\ (erase[u].kind = "group" => r.to = erase[u].read)
    BY <1>2, Types DEF SanitizeReceipt, SanitizeApplies
  <1>4. /\ Tombstone(r) \in Receipt /\ Tombstone(r).created = r.created
        /\ Tombstone(r).owner = r.owner /\ Tombstone(r).lease = r.lease
    BY <1>3 DEF Tombstone, Receipt
  <1>5. left # {} => n \in Receipt /\ n.created = r.created /\ n.state = r.state
                     /\ n.env = r.env /\ n.to = left /\ n.owner = r.owner /\ n.lease = r.lease
    <2> SUFFICES ASSUME left # {} PROVE n \in Receipt /\ n.created = r.created /\ n.state = r.state
                                        /\ n.env = r.env /\ n.to = left
                                        /\ n.owner = r.owner /\ n.lease = r.lease
      OBVIOUS
    <2>1. n = [[r EXCEPT !.to = left] EXCEPT !.sanitized = TRUE]
      BY DEF Sanitized
    <2> HIDE DEF n, left
    <2> QED
      BY <1>2, <1>3, <2>1 DEF Receipt
  <1>6. left = {} => n = Tombstone(r)
    BY DEF Sanitized
  <1>7. left # {} => r.state # "recipient_erased"
    BY <1>1, <1>2, <1>3 DEF TypeInv, ReceiptOK
  <1>8. receipt' = [receipt EXCEPT ![k] = n]
    BY DEF SanitizeReceipt
  <1>9. Walks(u)
    BY <1>1, DoneEffect DEF SanitizeReceipt, At
  <1> HIDE DEF n
  <1>10. n \in Receipt /\ n.created = r.created /\ n.owner = r.owner /\ n.lease = r.lease
    BY <1>4, <1>5, <1>6
  <1>11. ReceiptBecomes(k, n)
    BY <1>2, <1>8, <1>10, Types DEF ReceiptBecomes
  <1> QED
    BY <1>1, <1>2, <1>3, <1>5, <1>6, <1>7, <1>9, <1>10, <1>11

\* The tombstone of a receipt, and that of a tombstone.
LEMMA TombstoneOf ==
    ASSUME NEW r \in Receipt
    PROVE  /\ Tombstone(r).state = "recipient_erased" /\ Tombstone(r).env = None
           /\ Tombstone(r).to = {} /\ Tombstone(r).sanitized = TRUE
           /\ r.state = "recipient_erased" /\ r.env = None /\ r.to = {} /\ r.sanitized = TRUE
                 => Tombstone(r) = r
  BY DEF Tombstone, Receipt

\* Every step of a worker keeps the types.
LEMMA EraseStepTyped ==
    ASSUME TypeInv, NEW u \in Wiped, EraseStep(u)
    PROVE  TypeInv'
  <1>1. CASE EraseStart(u) \/ EraseFail(u) \/ EraseDropIndex(u)
    <2>1. receiptIndex' \subseteq receiptIndex /\ rowIndex' \subseteq rowIndex
          /\ outboxIndex' \subseteq outboxIndex
      BY <1>1 DEF EraseStart, EraseFail, EraseDropIndex, vars, storeVars
    <2> QED
      BY <1>1, <2>1, PhaseEffect, WalkTyped, Types
  <1>2. CASE EraseScan(u)
    <2>1. UNCHANGED vars
      BY <1>2 DEF EraseScan
    <2>2. WorkerOK(u)'
      BY <1>2, ScanEffect, Types DEF WorkerOK, At
    <2>3. \A j \in Keys : ReceiptOK(j)'
      BY <2>1 DEF TypeInv, ReceiptOK, vars, storeVars
    <2> QED
      BY <1>2, <2>1, <2>2, <2>3, ScanEffect, WorkerTyped, Types DEF vars, storeVars
  <1>3. ASSUME NEW e \in erase[u].todo, EraseRow(u, e) PROVE TypeInv'
    <2>1. /\ erase[u].phase # "idle" /\ rows' \subseteq rows
          /\ UNCHANGED <<clock, receipt, outbox, receiptIndex, rowIndex, outboxIndex,
                         req, conf, published>>
      BY <1>3 DEF EraseRow, At, RowPhases
    <2> QED
      BY <1>3, <2>1, RowEffect, WalkTyped, Types
  <1>4. ASSUME NEW e \in erase[u].todo, EraseSenderReceipt(u, e) PROVE TypeInv'
    <2>1. e.key \in Keys /\ erase[u].phase # "idle"
      BY <1>4 DEF EraseSenderReceipt, At, TypeInv, WorkerOK, ReceiptIndexEntry
    <2>2. ReceiptBecomes(e.key, None)
      BY <1>4, <2>1, Types DEF EraseSenderReceipt, ReceiptBecomes
    <2>3. \A j \in Keys : ReceiptOK(j)'
      BY <2>1, <2>2, ReceiptsOK
    <2>4. Walks(u)
      BY <1>4, <2>1, DoneEffect DEF EraseSenderReceipt
    <2> QED
      BY <1>4, <2>2, <2>3, <2>4, WalksOK, WorkerTyped, Types
      DEF EraseSenderReceipt, ReceiptBecomes, Walks
  <1>5. ASSUME NEW e \in erase[u].todo, EraseReadReceipt(u, e) PROVE TypeInv'
    <2>1. \A j \in Keys : ReceiptOK(j)'
      BY <1>5, ReadReceiptEffect DEF TypeInv, ReceiptOK, vars, storeVars
    <2>2. CASE Walks(u)
      BY <1>5, <2>2, ReadReceiptEffect, WalkTyped, Types DEF vars, storeVars
    <2>3. CASE ~ Walks(u)
      <3>1. WorkerOK(u)'
        <4> DEFINE r == receipt[e.key]
        <4>1. /\ e \in ReceiptIndexEntry /\ e.key \in Keys /\ ~ NothingToSanitize(u, e.key)
              /\ erase[u].phase = "receipts"
          BY <1>5, <2>3, ReadReceiptEffect DEF ReceiptIndexEntry, EraseReadReceipt, At
        <4>2. u \in r.to /\ r.env \in Envelopes /\ r.to \subseteq r.env.to
          BY <4>1 DEF NothingToSanitize, TypeInv, ReceiptOK
        <4>3. r.env.kind = "direct" => r.to = {u}
          BY <4>2, ErasureAssumption
        <4>4. erase[u].todo \subseteq ReceiptIndexEntry
          BY <4>1 DEF TypeInv, WorkerOK
        <4> QED
          BY <1>5, <2>3, <4>1, <4>2, <4>3, <4>4, ReadReceiptEffect DEF WorkerOK, At, OutboxPhases
      <3> QED
        BY <1>5, <2>1, <2>3, <3>1, ReadReceiptEffect, WorkerTyped, Types DEF vars, storeVars
    <2> QED
      BY <2>2, <2>3
  <1>6. ASSUME NEW e \in erase[u].todo, EraseOutbox(u, e) PROVE TypeInv'
    <2>1. Walks(u)
      BY <1>6, DoneEffect DEF EraseOutbox, At, OutboxPhases
    <2> QED
      BY <1>6, <2>1, WalkTyped, Types DEF EraseOutbox
  <1>7. ASSUME NEW e \in erase[u].todo, EraseReadOutbox(u, e) PROVE TypeInv'
    <2>1. CASE Walks(u)
      BY <1>7, <2>1, ReadOutboxEffect, WalkTyped, Types DEF vars, storeVars
    <2>2. CASE ~ Walks(u)
      <3>1. \A j \in Keys : ReceiptOK(j)'
        BY <1>7, ReadOutboxEffect DEF TypeInv, ReceiptOK, vars, storeVars
      <3>2. WorkerOK(u)'
        BY <1>7, <2>2, ReadOutboxEffect DEF TypeInv, WorkerOK, At, OutboxPhases
      <3> QED
        BY <1>7, <2>2, <3>1, <3>2, ReadOutboxEffect, WorkerTyped, Types DEF vars, storeVars
    <2> QED
      BY <2>1, <2>2
  <1>8. CASE EraseMirror(u)
    <2>1. Walks(u)
      BY <1>8, DoneEffect DEF EraseMirror, At
    <2> QED
      BY <1>8, <2>1, WalkTyped, Types DEF EraseMirror
  <1>9. CASE SanitizeReceipt(u)
    <2>1. PICK n \in Receipt :
             /\ ReceiptBecomes(erase[u].at.key, n)
             /\ erase[u].read \ {u} = {} => n = Tombstone(receipt[erase[u].at.key])
             /\ erase[u].read \ {u} # {} => /\ n.state = receipt[erase[u].at.key].state
                                            /\ n.env = receipt[erase[u].at.key].env
                                            /\ n.to = erase[u].read \ {u}
      BY <1>9, SanitizeEffect
    <2> DEFINE k == erase[u].at.key
    <2>2. /\ k \in Keys /\ receipt[k] # None /\ receipt[k] \in Receipt /\ Walks(u)
          /\ erase[u].read \ {u} # {} => /\ receipt[k].state # "recipient_erased"
                                         /\ receipt[k].to = erase[u].read
      BY <1>9, SanitizeEffect
    <2>3. \/ n.state # "recipient_erased" /\ n.env \in Envelopes /\ n.to \subseteq n.env.to
          \/ n.state = "recipient_erased" /\ n.env = None /\ n.to = {} /\ n.sanitized = TRUE
      <3>1. CASE erase[u].read \ {u} = {}
        <4>1. n = Tombstone(receipt[k])
          BY <2>1, <3>1
        <4>2. receipt[k] \in Receipt
          BY <2>2
        <4> HIDE DEF k
        <4> QED
          BY <4>1, <4>2, TombstoneOf
      <3>2. CASE erase[u].read \ {u} # {}
        BY <2>1, <2>2, <3>2 DEF TypeInv, ReceiptOK
      <3> QED
        BY <3>1, <3>2
    <2>4. \A j \in Keys : ReceiptOK(j)'
      BY <2>1, <2>2, <2>3, ReceiptsOK
    <2> QED
      BY <1>9, <2>1, <2>2, <2>4, WalksOK, WorkerTyped, Types
      DEF SanitizeReceipt, ReceiptBecomes, Walks
  <1>10. CASE SanitizeReceiptLost(u)
    <2>1. Walks(u)
      BY <1>10, DoneEffect, RetryEffect DEF SanitizeReceiptLost, At
    <2> QED
      BY <1>10, <2>1, WalkTyped, Types DEF SanitizeReceiptLost, vars, storeVars
  <1>11. CASE SanitizeOutboxEmpty(u)
    <2>1. Walks(u)
      BY <1>11, DoneEffect DEF SanitizeOutboxEmpty, At, OutboxPhases
    <2> QED
      BY <1>11, <2>1, WalkTyped, Types DEF SanitizeOutboxEmpty
  <1>12. CASE SanitizeOutbox(u)
    <2>1. Walks(u)
      BY <1>12, DoneEffect DEF SanitizeOutbox, At, OutboxPhases
    <2>2. PICK o \in OutboxAt(erase[u].at) :
             outbox' = (outbox \ {o}) \union {[o EXCEPT !.to = o.to \ {u}]}
      BY <1>12 DEF SanitizeOutbox
    <2>3. [o EXCEPT !.to = o.to \ {u}] \in OutboxEntry
      <3>1. o \in OutboxEntry /\ o.to \ {u} \in SUBSET Uins
        BY Types DEF OutboxAt, OutboxEntry
      <3> QED
        BY <3>1 DEF OutboxEntry
    <2>4. outbox' \subseteq OutboxEntry
      BY <2>2, <2>3, Types
    <2> QED
      BY <1>12, <2>1, <2>4, WalkTyped, Types DEF SanitizeOutbox
  <1>13. CASE SanitizeOutboxLost(u)
    <2>1. Walks(u)
      BY <1>13, RetryEffect DEF SanitizeOutboxLost, At, OutboxPhases
    <2> QED
      BY <1>13, <2>1, WalkTyped, Types DEF SanitizeOutboxLost, vars, storeVars
  <1> QED
    BY <1>1, <1>2, <1>3, <1>4, <1>5, <1>6, <1>7, <1>8, <1>9, <1>10, <1>11, <1>12, <1>13
    DEF EraseStep

\* The types hold at the start ...
LEMMA ErasureInitTyped ==
    ASSUME ErasureInit
    PROVE  TypeInv
  <1>1. TypeOK
    BY DEF ErasureInit, Init, TypeOK, NoRequest, NoConfirmation, Request, RequestPC,
           Confirmation, ConfirmerPC
  <1>2. erase \in [Wiped -> Worker]
    <2>1. AtPhase("idle") \in Worker
      BY WorkersTyped DEF Phases
    <2> QED
      BY <2>1 DEF ErasureInit
  <1>3. /\ \A q \in Requests : HandlerOK(q)
        /\ \A d \in Confirmers : ConfirmerOK(d)
        /\ \A k \in Keys : ReceiptOK(k)
    BY DEF ErasureInit, Init, HandlerOK, Holds, ConfirmerOK, ReceiptOK, NoRequest, NoConfirmation
  <1>4. \A u \in Wiped : WorkerOK(u)
    BY DEF ErasureInit, AtPhase, WorkerOK, At, OutboxPhases
  <1> QED
    BY <1>1, <1>2, <1>3, <1>4 DEF TypeInv, ErasureTypeOK

\* ... and after every step.
LEMMA ErasureNextTyped ==
    ASSUME TypeInv, [ErasureNext]_erasureVars
    PROVE  TypeInv'
  <1>1. CASE Next /\ UNCHANGED erase
    <2>1. ASSUME NEW q \in Requests, RequestStep(q) PROVE TypeInv'
      BY <1>1, <2>1, RequestStepTyped
    <2>2. ASSUME NEW d \in Confirmers,
                 (\E m \in published : ConfirmStart(d, m)) \/ ConfirmStep(d)
          PROVE  TypeInv'
      BY <1>1, <2>2, ConfirmTyped
    <2>3. CASE TimeStep \/ \E o \in outbox : OutboxPublish(o)
      BY <1>1, <2>3, TimeTyped
    <2> QED
      BY <1>1, <2>1, <2>2, <2>3 DEF Next
  <1>2. ASSUME NEW u \in Wiped, EraseStep(u) PROVE TypeInv'
    BY <1>2, EraseStepTyped
  <1>3. CASE UNCHANGED erasureVars
    BY <1>3 DEF erasureVars, vars, storeVars, TypeInv, ErasureTypeOK, TypeOK, HandlerOK, Holds,
                ConfirmerOK, ReceiptOK, WorkerOK, At
  <1> QED
    BY <1>1, <1>2, <1>3 DEF ErasureNext

-----------------------------------------------------------------------------
(***************************************************************************)
(* What is erased stays erased                                             *)
(***************************************************************************)

\* What ErasedForGood asks of a step.
ErasedStep ==
    \A k \in Keys :
        SameIncarnation(k) =>
            /\ receipt'[k].to \subseteq receipt[k].to
            /\ receipt[k].state = "recipient_erased" => receipt'[k] = receipt[k]

\* The receipts change in seven of the actions, and only in these.
LEMMA ReceiptChanges ==
    ASSUME TypeInv, [ErasureNext]_erasureVars, receipt' # receipt
    PROVE  \/ \E q \in Requests : ClaimInsert(q) \/ Takeover(q) \/ MarkStoredCAS(q)
           \/ \E d \in Confirmers : ConfirmCAS(d)
           \/ \E k \in Keys : EvictReceipt(k)
           \/ \E u \in Wiped : \/ SanitizeReceipt(u)
                               \/ \E e \in erase[u].todo : EraseSenderReceipt(u, e)
  <1>1. CASE Next /\ UNCHANGED erase
    <2>1. ASSUME NEW q \in Requests, RequestStep(q)
          PROVE  ClaimInsert(q) \/ Takeover(q) \/ MarkStoredCAS(q)
      BY <2>1 DEF RequestStep, Claim, Persist, Receive, ClaimExists, IndexWrite,
                  ClaimCommitted, ClaimStale, ClaimRefused, TakeoverLost, WriteBatch, WriteExpired,
                  MarkStoredLoad, MarkStoredLost, Publish, PublishError, Reply, Fail, storeVars
    <2>2. ASSUME NEW d \in Confirmers,
                 (\E m \in published : ConfirmStart(d, m)) \/ ConfirmStep(d)
          PROVE  ConfirmCAS(d)
      BY <2>2 DEF ConfirmStart, ConfirmStep, ConfirmLoad, ConfirmDelete, ConfirmFail, storeVars
    <2>3. CASE TimeStep \/ \E o \in outbox : OutboxPublish(o)
      BY <2>3 DEF TimeStep, Tick, EvictRow, EvictOutbox, OutboxPublish, storeVars
    <2> QED
      BY <1>1, <2>1, <2>2, <2>3 DEF Next
  <1>2. ASSUME NEW u \in Wiped, EraseStep(u)
        PROVE  SanitizeReceipt(u) \/ \E e \in erase[u].todo : EraseSenderReceipt(u, e)
    <2>1. ~ (EraseStart(u) \/ EraseScan(u) \/ EraseDropIndex(u) \/ EraseFail(u) \/ EraseMirror(u)
             \/ SanitizeReceiptLost(u) \/ SanitizeOutboxEmpty(u) \/ SanitizeOutbox(u)
             \/ SanitizeOutboxLost(u))
      BY DEF EraseStart, EraseScan, EraseDropIndex, EraseFail, EraseMirror, SanitizeReceiptLost,
             SanitizeOutboxEmpty, SanitizeOutbox, SanitizeOutboxLost, vars, storeVars
    <2>2. ASSUME NEW e \in erase[u].todo
          PROVE  ~ (EraseRow(u, e) \/ EraseReadReceipt(u, e) \/ EraseOutbox(u, e)
                    \/ EraseReadOutbox(u, e))
      BY DEF EraseRow, EraseReadReceipt, EraseOutbox, EraseReadOutbox, vars, storeVars
    <2> QED
      BY <1>2, <2>1, <2>2 DEF EraseStep
  <1>3. CASE UNCHANGED erasureVars
    BY <1>3 DEF erasureVars, vars, storeVars
  <1> QED
    BY <1>1, <1>2, <1>3 DEF ErasureNext

\* No step gives a receipt a recipient, or changes a tombstone.
LEMMA ErasureStepErases ==
    ASSUME TypeInv, [ErasureNext]_erasureVars
    PROVE  ErasedStep
  <1>1. ASSUME NEW k \in Keys, NEW r \in Receipt \union {None}, ReceiptBecomes(k, r),
               \/ r = None
               \/ receipt[k] = None
               \/ r.to \subseteq receipt[k].to /\ receipt[k].state # "recipient_erased"
               \/ r = receipt[k]
        PROVE  ErasedStep
    BY <1>1 DEF ErasedStep, SameIncarnation, ReceiptBecomes
  <1>2. CASE receipt' = receipt
    BY <1>2 DEF ErasedStep, SameIncarnation
  <1>3. ASSUME NEW q \in Requests, ClaimInsert(q) PROVE ErasedStep
    BY <1>1, <1>3, InsertEffect
  <1>4. ASSUME NEW q \in Requests, Takeover(q) PROVE ErasedStep
    <2>1. PICK n \in Receipt : n.to = receipt[req[q].key].to /\ ReceiptBecomes(req[q].key, n)
      BY <1>4, TakeoverEffect
    <2> QED
      BY <1>1, <1>4, <2>1, TakeoverEffect
  <1>5. ASSUME NEW q \in Requests, MarkStoredCAS(q) PROVE ErasedStep
    <2>1. PICK n \in Receipt : n.to = receipt[req[q].key].to /\ ReceiptBecomes(req[q].key, n)
      BY <1>5, StoredEffect
    <2> QED
      BY <1>1, <1>5, <2>1, StoredEffect
  <1>6. ASSUME NEW d \in Confirmers, ConfirmCAS(d) PROVE ErasedStep
    <2>1. PICK n \in Receipt : n.to = receipt[conf[d].key].to /\ ReceiptBecomes(conf[d].key, n)
      BY <1>6, ConfirmCASEffect
    <2> QED
      BY <1>1, <1>6, <2>1, ConfirmCASEffect
  <1>7. ASSUME NEW k \in Keys, EvictReceipt(k) PROVE ErasedStep
    <2>1. ReceiptBecomes(k, None)
      BY <1>7, Types DEF EvictReceipt, ReceiptBecomes
    <2> QED
      BY <1>1, <2>1
  <1>8. ASSUME NEW u \in Wiped, NEW e \in erase[u].todo, EraseSenderReceipt(u, e) PROVE ErasedStep
    <2>1. e.key \in Keys
      BY <1>8 DEF EraseSenderReceipt, At, TypeInv, WorkerOK, ReceiptIndexEntry
    <2>2. ReceiptBecomes(e.key, None)
      BY <1>8, <2>1, Types DEF EraseSenderReceipt, ReceiptBecomes
    <2> QED
      BY <1>1, <2>1, <2>2
  <1>9. ASSUME NEW u \in Wiped, SanitizeReceipt(u) PROVE ErasedStep
    <2> DEFINE k == erase[u].at.key
               r == receipt[k]
               left == erase[u].read \ {u}
    <2>1. PICK n \in Receipt : /\ ReceiptBecomes(k, n)
                               /\ left = {} => n = Tombstone(r)
                               /\ left # {} => n.to = left
      BY <1>9, SanitizeEffect
    <2>2. /\ k \in Keys /\ r # None /\ r \in Receipt
          /\ left # {} => r.to = erase[u].read /\ r.state # "recipient_erased"
      BY <1>9, SanitizeEffect
    <2>3. CASE left # {}
      BY <1>1, <2>1, <2>2, <2>3
    <2>4. CASE left = {} /\ r.state # "recipient_erased"
      BY <1>1, <2>1, <2>2, <2>4, TombstoneOf
    <2>5. CASE left = {} /\ r.state = "recipient_erased"
      <3>1. n = r
        BY <2>1, <2>2, <2>5, TombstoneOf DEF TypeInv, ReceiptOK
      <3> QED
        BY <1>1, <2>1, <2>2, <3>1
    <2> QED
      BY <2>3, <2>4, <2>5
  <1> QED
    BY <1>2, <1>3, <1>4, <1>5, <1>6, <1>7, <1>8, <1>9, ReceiptChanges

-----------------------------------------------------------------------------
\* The store, the handlers and the workers of any number of wipes keep their types.
THEOREM ErasureTyped == ErasureSpec => []ErasureTypeOK
  <1>1. TypeInv => ErasureTypeOK
    BY DEF TypeInv
  <1> QED
    BY ErasureInitTyped, ErasureNextTyped, <1>1, PTL DEF ErasureSpec

\* Whatever requests, delivery receipts and other workers do between the read
\* and the write of sanitizeIngestReceipt, a recipient it removed does not come
\* back, and the tombstone of terminalizeIngestReceipt is final.
THEOREM ErasureIsForGood == ErasureSpec => ErasedForGood
  <1>1. TypeInv /\ [ErasureNext]_erasureVars => [ErasedStep]_erasureVars
    BY ErasureStepErases
  <1> QED
    BY ErasureInitTyped, ErasureNextTyped, <1>1, PTL DEF ErasureSpec, ErasedForGood, ErasedStep

-----------------------------------------------------------------------------
(***************************************************************************)
(* What a wipe leaves to the others, while no message is old enough to     *)
(* expire (MaxClock < TTL)                                                 *)
(***************************************************************************)

\* The sender of k is not being wiped.
Alive(k) == ~ Started(SenderOf[k])

\* The recipients of an envelope who are not being wiped.
Survivors(e) == {u \in e.to : ~ Started(u)}

\* The receipt of k still has its envelope; it is a group message that
\* somebody is still to get.
Kept(k) == Alive(k) /\ receipt[k] # None /\ receipt[k].env # None
Wanted(k) == Kept(k) /\ receipt[k].env.kind = "group" /\ Survivors(receipt[k].env) # {}

\* The message row of the receipt of k; the outbox has a row for k.
RowOf(k) == [key |-> k, created |-> receipt[k].created, env |-> receipt[k].env]
Named(k) == \E o \in outbox : o.key = k

\* A request that holds a receipt holds the one in the store, without a
\* survivor missing; a batch it has written is there, and what it has marked
\* as stored is stored.
RequestSafe(q) ==
    LET k == req[q].key IN
    Holds(q) /\ Alive(k) =>
        /\ receipt[k] # None
        /\ receipt[k].created = req[q].rec.created
        /\ Survivors(req[q].env) \subseteq req[q].rec.to
        /\ \/ receipt[k].env = req[q].env
           \/ receipt[k].env = None /\ Survivors(req[q].env) = {}
        /\ req[q].pc \in {"mark", "cas"} /\ Wanted(k) =>
              RowOf(k) \in rows /\ (receipt[k].state = "pending" => Named(k))
        /\ req[q].pc \in {"publish", "reply", "acked"} /\ receipt[k].env # None =>
              receipt[k].state \in {"stored", "delivered"}

\* A receipt names every survivor; a stored one has its row, and its outbox
\* row until it is delivered.
ReceiptSafe(k) ==
    /\ Kept(k) => Survivors(receipt[k].env) \subseteq receipt[k].to
    /\ Wanted(k) => /\ receipt[k].state \in {"stored", "delivered"} => RowOf(k) \in rows
                    /\ receipt[k].state = "stored" => Named(k)

\* An outbox row is the one of the receipt, and names every survivor.
OutboxSafe(o) ==
    Alive(o.key) =>
        /\ receipt[o.key] # None
        /\ receipt[o.key].created = o.created
        /\ receipt[o.key].env # None =>
              o.env = receipt[o.key].env /\ Survivors(o.env) \subseteq o.to

\* A handler about to delete an outbox row has seen the receipt delivered.
ConfirmSafe(d) ==
    conf[d].pc = "delete" /\ Alive(conf[d].key) =>
        /\ receipt[conf[d].key] # None
        /\ receipt[conf[d].key].env # None => receipt[conf[d].key].state = "delivered"

\* What a worker has read still covers every survivor, and it deletes outbox
\* rows as a sender only for its own account.
WorkerSafe(u) ==
    LET k == erase[u].at.key IN
    /\ At(u, {"receipts"}, "cas") =>
          /\ Alive(k) => receipt[k] # None
          /\ erase[u].kind = "direct" /\ Kept(k) => Survivors(receipt[k].env) = {}
    /\ At(u, OutboxPhases, "cas") =>
          /\ Alive(k) => receipt[k] # None
          /\ Kept(k) => Survivors(receipt[k].env) \subseteq erase[u].read
    /\ erase[u].phase \in OutboxPhases =>
          \A e \in erase[u].todo : e.role = "sender" => SenderOf[e.key] = u

SafeInv ==
    /\ clock <= MaxClock
    /\ \A e \in outboxIndex : e.role = "sender" => e.uin = SenderOf[e.key]
    /\ \A q \in Requests : RequestSafe(q)
    /\ \A k \in Keys : ReceiptSafe(k)
    /\ \A o \in outbox : OutboxSafe(o)
    /\ \A d \in Confirmers : ConfirmSafe(d)
    /\ \A u \in Wiped : WorkerSafe(u)

-----------------------------------------------------------------------------
(***************************************************************************)
(* What every step leaves of a message with a live sender                  *)
(***************************************************************************)

\* A receipt that exists stays the same one: it loses its envelope only when
\* nobody survives to read it, and its state only advances.
ReceiptAdvances(k) ==
    /\ receipt'[k] # None
    /\ receipt'[k].created = receipt[k].created
    /\ \/ receipt'[k].env = receipt[k].env
       \/ receipt'[k].env = None /\ Survivors(receipt[k].env) = {}
    /\ receipt'[k].env # None =>
          \/ receipt'[k].state = receipt[k].state
          \/ receipt[k].state = "pending" /\ receipt'[k].state = "stored"
          \/ receipt[k].state = "stored" /\ receipt'[k].state = "delivered"

StoreKept ==
    /\ \A u \in Uins : Started(u) => Started(u)'
    /\ \A k \in Keys : Alive(k) /\ receipt[k] # None => ReceiptAdvances(k)
    /\ \A k \in Keys : Wanted(k) /\ RowOf(k) \in rows => RowOf(k) \in rows'
    /\ \A k \in Keys : /\ Wanted(k) /\ Named(k)
                       /\ receipt[k].state \in {"pending", "stored"}
                       /\ receipt'[k] # None /\ receipt'[k].state \in {"pending", "stored"}
                       => Named(k)'

\* Nobody returns from a wipe, so what is wanted after a step was wanted before.
LEMMA WantedBefore ==
    ASSUME TypeInv, TypeInv', StoreKept
    PROVE  /\ \A k \in Keys : Alive(k)' => Alive(k)
           /\ \A e \in Envelopes : Survivors(e)' \subseteq Survivors(e)
           /\ \A k \in Keys : receipt[k] # None /\ Kept(k)' =>
                 /\ Kept(k) /\ receipt[k].env \in Envelopes /\ receipt'[k].env = receipt[k].env
                 /\ receipt'[k].created = receipt[k].created /\ RowOf(k)' = RowOf(k)
                 /\ Survivors(receipt[k].env)' \subseteq Survivors(receipt[k].env)
           /\ \A k \in Keys : receipt[k] # None /\ Wanted(k)' => Wanted(k)
  <1>1. ASSUME NEW k \in Keys, Alive(k)' PROVE Alive(k)
    <2>1. SenderOf[k] \in Uins
      BY KeysAssumption
    <2> QED
      BY <1>1, <2>1 DEF StoreKept, Alive
  <1>2. ASSUME NEW e \in Envelopes PROVE Survivors(e)' \subseteq Survivors(e)
    BY KeysAssumption DEF StoreKept, Survivors
  <1>3. ASSUME NEW k \in Keys, receipt[k] # None, Kept(k)'
        PROVE  /\ Kept(k) /\ receipt[k].env \in Envelopes /\ receipt'[k].env = receipt[k].env
               /\ receipt'[k].created = receipt[k].created /\ RowOf(k)' = RowOf(k)
               /\ Survivors(receipt[k].env)' \subseteq Survivors(receipt[k].env)
    <2>1. Alive(k) /\ receipt'[k].env # None
      BY <1>1, <1>3 DEF Kept
    <2>2. ReceiptAdvances(k)
      BY <1>3, <2>1 DEF StoreKept
    <2>3. receipt'[k].env = receipt[k].env /\ receipt'[k].created = receipt[k].created
      BY <2>1, <2>2 DEF ReceiptAdvances
    <2>4. receipt[k].env \in Envelopes
      BY <1>3, <2>1, <2>3 DEF TypeInv, ReceiptOK
    <2>5. Survivors(receipt[k].env)' = {u \in receipt[k].env.to : ~ Started(u)'}
      BY <2>3 DEF Survivors
    <2>6. {u \in receipt[k].env.to : ~ Started(u)'} \subseteq Survivors(receipt[k].env)
      BY <1>2, <2>4 DEF Survivors
    <2> QED
      BY <1>3, <2>1, <2>3, <2>4, <2>5, <2>6 DEF Kept, RowOf
  <1>4. ASSUME NEW k \in Keys, receipt[k] # None, Wanted(k)' PROVE Wanted(k)
    <2>1. Kept(k)' /\ receipt'[k].env.kind = "group" /\ Survivors(receipt[k].env)' # {}
      BY <1>4 DEF Wanted
    <2>2. /\ Kept(k) /\ receipt'[k].env = receipt[k].env
          /\ Survivors(receipt[k].env)' \subseteq Survivors(receipt[k].env)
      BY <1>3, <1>4, <2>1
    <2> QED
      BY <2>1, <2>2 DEF Wanted
  <1> QED
    BY <1>1, <1>2, <1>3, <1>4

\* A request that rests stays safe.
LEMMA RequestKept ==
    ASSUME TypeInv, TypeInv', SafeInv, StoreKept, NEW q \in Requests, req'[q] = req[q]
    PROVE  RequestSafe(q)'
  <1> DEFINE k == req[q].key
             e == req[q].env
  <1> SUFFICES ASSUME Holds(q)', Alive(k)'
               PROVE  /\ receipt'[k] # None
                      /\ receipt'[k].created = req[q].rec.created
                      /\ Survivors(e)' \subseteq req[q].rec.to
                      /\ \/ receipt'[k].env = e
                         \/ receipt'[k].env = None /\ Survivors(e)' = {}
                      /\ req[q].pc \in {"mark", "cas"} /\ Wanted(k)' =>
                            RowOf(k)' \in rows' /\ (receipt'[k].state = "pending" => Named(k)')
                      /\ req[q].pc \in {"publish", "reply", "acked"} /\ receipt'[k].env # None =>
                            receipt'[k].state \in {"stored", "delivered"}
    BY DEF RequestSafe
  <1>1. Holds(q) /\ k' = k /\ e' = e /\ k \in Keys /\ e \in Envelopes
    BY Types DEF Holds, HandlerOK
  <1>2. Alive(k)
    BY <1>1, WantedBefore
  <1>3. /\ receipt[k] # None /\ receipt[k].created = req[q].rec.created
        /\ Survivors(e) \subseteq req[q].rec.to
        /\ \/ receipt[k].env = e
           \/ receipt[k].env = None /\ Survivors(e) = {}
        /\ req[q].pc \in {"mark", "cas"} /\ Wanted(k) =>
              RowOf(k) \in rows /\ (receipt[k].state = "pending" => Named(k))
        /\ req[q].pc \in {"publish", "reply", "acked"} /\ receipt[k].env # None =>
              receipt[k].state \in {"stored", "delivered"}
    BY <1>1, <1>2 DEF SafeInv, RequestSafe
  <1>4. ReceiptAdvances(k)
    BY <1>1, <1>2, <1>3 DEF StoreKept
  <1>5. Survivors(e)' \subseteq Survivors(e)
    <2>1. Survivors(e)' = {u \in e.to : ~ Started(u)'}
      BY <1>1 DEF Survivors
    <2>2. {u \in e.to : ~ Started(u)'} \subseteq Survivors(e)
      BY <1>1, WantedBefore DEF Survivors
    <2> QED
      BY <2>1, <2>2
  <1>6. /\ receipt'[k] # None /\ receipt'[k].created = req[q].rec.created
        /\ Survivors(e)' \subseteq req[q].rec.to
        /\ \/ receipt'[k].env = e
           \/ receipt'[k].env = None /\ Survivors(e)' = {}
    BY <1>3, <1>4, <1>5 DEF ReceiptAdvances
  <1>7. ASSUME req[q].pc \in {"mark", "cas"}, Wanted(k)'
        PROVE  RowOf(k)' \in rows' /\ (receipt'[k].state = "pending" => Named(k)')
    <2>1. Wanted(k) /\ Kept(k)'
      BY <1>1, <1>3, <1>7, WantedBefore DEF Wanted
    <2>2. RowOf(k)' = RowOf(k)
      BY <1>1, <1>3, <2>1, WantedBefore
    <2>3. RowOf(k) \in rows'
      BY <1>1, <1>3, <1>7, <2>1 DEF StoreKept
    <2>4. receipt'[k].state = "pending" => receipt[k].state = "pending"
      BY <1>4, <2>1 DEF ReceiptAdvances, Kept
    <2> QED
      BY <1>1, <1>3, <1>6, <1>7, <2>1, <2>2, <2>3, <2>4 DEF StoreKept
  <1>8. ASSUME req[q].pc \in {"publish", "reply", "acked"}, receipt'[k].env # None
        PROVE  receipt'[k].state \in {"stored", "delivered"}
    <2>1. receipt[k].env # None
      BY <1>4, <1>8 DEF ReceiptAdvances
    <2> QED
      BY <1>3, <1>4, <1>8, <2>1 DEF ReceiptAdvances
  <1> QED
    BY <1>6, <1>7, <1>8

\* A receipt that keeps its survivors stays safe, unless it becomes stored.
LEMMA ReceiptKept ==
    ASSUME TypeInv, TypeInv', SafeInv, StoreKept, NEW k \in Keys,
           receipt[k] # None \/ receipt'[k] = None,
           Kept(k)' => Survivors(receipt[k].env)' \subseteq receipt'[k].to,
           receipt'[k] # None =>
               (receipt'[k].state = "stored" => receipt[k].state # "pending")
    PROVE  ReceiptSafe(k)'
  <1>1. ASSUME Wanted(k)', receipt'[k].state \in {"stored", "delivered"}
        PROVE  RowOf(k)' \in rows' /\ (receipt'[k].state = "stored" => Named(k)')
    <2>1. receipt'[k] # None /\ receipt[k] # None /\ Kept(k)'
      BY <1>1 DEF Wanted, Kept
    <2>2. Wanted(k) /\ Kept(k) /\ RowOf(k)' = RowOf(k) /\ Alive(k)
      BY <1>1, <2>1, WantedBefore DEF Kept
    <2>3. ReceiptAdvances(k) /\ receipt'[k].env # None
      BY <2>1, <2>2 DEF StoreKept, Kept
    <2>4. /\ receipt[k].state \in {"stored", "delivered"}
          /\ receipt'[k].state = "stored" => receipt[k].state = "stored"
      BY <1>1, <2>1, <2>3 DEF ReceiptAdvances
    <2>5. RowOf(k) \in rows /\ (receipt[k].state = "stored" => Named(k))
      BY <2>2, <2>4 DEF SafeInv, ReceiptSafe
    <2> QED
      BY <2>1, <2>2, <2>4, <2>5 DEF StoreKept
  <1> QED
    BY <1>1 DEF ReceiptSafe

\* So does one that does not change.
LEMMA ReceiptUnchanged ==
    ASSUME TypeInv, TypeInv', SafeInv, StoreKept, NEW k \in Keys, receipt'[k] = receipt[k]
    PROVE  ReceiptSafe(k)'
  <1>1. ASSUME Kept(k)' PROVE Survivors(receipt[k].env)' \subseteq receipt'[k].to
    <2>1. receipt[k] # None
      BY <1>1 DEF Kept
    <2>2. Kept(k) /\ Survivors(receipt[k].env)' \subseteq Survivors(receipt[k].env)
      BY <1>1, <2>1, WantedBefore
    <2> QED
      BY <2>2 DEF SafeInv, ReceiptSafe
  <1> QED
    BY <1>1, ReceiptKept

\* An outbox row that stays is still the one of the receipt.
LEMMA OutboxKept ==
    ASSUME TypeInv, TypeInv', SafeInv, StoreKept, NEW o \in outbox
    PROVE  OutboxSafe(o)'
  <1>1. o.key \in Keys /\ o.env \in Envelopes
    BY Types DEF OutboxEntry
  <1> SUFFICES ASSUME Alive(o.key)'
               PROVE  /\ receipt'[o.key] # None
                      /\ receipt'[o.key].created = o.created
                      /\ receipt'[o.key].env # None =>
                            o.env = receipt'[o.key].env /\ Survivors(o.env)' \subseteq o.to
    BY DEF OutboxSafe
  <1>2. Alive(o.key)
    BY <1>1, WantedBefore
  <1>3. /\ receipt[o.key] # None /\ receipt[o.key].created = o.created
        /\ receipt[o.key].env # None =>
              o.env = receipt[o.key].env /\ Survivors(o.env) \subseteq o.to
    BY <1>2 DEF SafeInv, OutboxSafe
  <1>4. ReceiptAdvances(o.key)
    BY <1>1, <1>2, <1>3 DEF StoreKept
  <1>5. Survivors(o.env)' \subseteq Survivors(o.env)
    BY <1>1, WantedBefore
  <1> QED
    BY <1>3, <1>4, <1>5 DEF ReceiptAdvances

\* A delivery-receipt handler that rests stays safe.
LEMMA ConfirmKept ==
    ASSUME TypeInv, TypeInv', SafeInv, StoreKept, NEW d \in Confirmers, conf'[d] = conf[d]
    PROVE  ConfirmSafe(d)'
  <1> DEFINE k == conf[d].key
  <1> SUFFICES ASSUME conf[d].pc = "delete", Alive(k)'
               PROVE  /\ receipt'[k] # None
                      /\ receipt'[k].env # None => receipt'[k].state = "delivered"
    BY DEF ConfirmSafe
  <1>1. k \in Keys /\ k' = k
    BY DEF TypeInv, ConfirmerOK
  <1>2. Alive(k)
    BY <1>1, WantedBefore
  <1>3. receipt[k] # None /\ (receipt[k].env # None => receipt[k].state = "delivered")
    BY <1>2 DEF SafeInv, ConfirmSafe
  <1>4. ReceiptAdvances(k)
    BY <1>1, <1>2, <1>3 DEF StoreKept
  <1> QED
    BY <1>3, <1>4 DEF ReceiptAdvances

\* So does a worker that rests.
LEMMA WorkerKept ==
    ASSUME TypeInv, TypeInv', SafeInv, StoreKept, NEW u \in Wiped, erase'[u] = erase[u]
    PROVE  WorkerSafe(u)'
  <1> DEFINE k == erase[u].at.key
  <1>1. k' = k /\ (erase[u].phase \in OutboxPhases =>
                     \A e \in erase[u].todo : e.role = "sender" => SenderOf[e.key] = u)
    BY DEF SafeInv, WorkerSafe
  <1>2. ASSUME At(u, {"receipts"} \union OutboxPhases, "cas"), Alive(k)',
               Alive(k) => receipt[k] # None
        PROVE  /\ receipt[k] # None /\ receipt'[k] # None
               /\ Kept(k)' => Kept(k) /\ Survivors(receipt[k].env)' \subseteq Survivors(receipt[k].env)
    <2>1. k \in Keys
      BY <1>2 DEF TypeInv, WorkerOK, At, ReceiptIndexEntry, OutboxIndexEntry
    <2>2. Alive(k) /\ receipt[k] # None
      BY <1>1, <1>2, <2>1, WantedBefore
    <2>3. ReceiptAdvances(k)
      BY <2>1, <2>2 DEF StoreKept
    <2> QED
      BY <1>1, <2>1, <2>2, <2>3, WantedBefore DEF ReceiptAdvances
  <1>3. ASSUME At(u, {"receipts"}, "cas"), Alive(k)'
        PROVE  /\ receipt'[k] # None
               /\ erase[u].kind = "direct" /\ Kept(k)' => Survivors(receipt[k].env)' = {}
    <2>1. /\ Alive(k) => receipt[k] # None
          /\ erase[u].kind = "direct" /\ Kept(k) => Survivors(receipt[k].env) = {}
      BY <1>3 DEF SafeInv, WorkerSafe
    <2> QED
      BY <1>2, <1>3, <2>1 DEF At
  <1>4. ASSUME At(u, OutboxPhases, "cas"), Alive(k)'
        PROVE  /\ receipt'[k] # None
               /\ Kept(k)' => Survivors(receipt[k].env)' \subseteq erase[u].read
    <2>1. /\ Alive(k) => receipt[k] # None
          /\ Kept(k) => Survivors(receipt[k].env) \subseteq erase[u].read
      BY <1>4 DEF SafeInv, WorkerSafe
    <2> QED
      BY <1>2, <1>4, <2>1 DEF At
  <1>5. Kept(k)' => Alive(k)'
    BY DEF Kept
  <1> QED
    BY <1>1, <1>3, <1>4, <1>5 DEF WorkerSafe, At

\* A step that changes neither receipts, rows nor outbox and takes no wipe back.
LEMMA StoreSame ==
    ASSUME UNCHANGED <<receipt, rows, outbox>>, \A u \in Uins : Started(u) => Started(u)'
    PROVE  StoreKept
  BY DEF StoreKept, ReceiptAdvances, Named

\* Only a worker's step starts a wipe.
LEMMA StartedSame ==
    ASSUME UNCHANGED erase
    PROVE  \A u \in Uins : Started(u)' = Started(u)
  BY DEF Started

-----------------------------------------------------------------------------
(***************************************************************************)
(* Steps of a request                                                      *)
(***************************************************************************)

\* A step of one request that leaves the store in the state the others need.
LEMMA RequestSafeStep ==
    ASSUME TypeInv, TypeInv', SafeInv, StoreKept, NEW q \in Requests,
           RequestSafe(q)', \A p \in Requests : p # q => req'[p] = req[p],
           \A k \in Keys : ReceiptSafe(k)',
           \A o \in outbox' : o \in outbox \/ OutboxSafe(o)',
           \A e \in outboxIndex' : e \in outboxIndex \/ (e.role = "sender" => e.uin = SenderOf[e.key]),
           UNCHANGED <<clock, conf, erase>>
    PROVE  SafeInv'
  <1>1. \A p \in Requests : RequestSafe(p)'
    BY RequestKept
  <1>2. \A o \in outbox' : OutboxSafe(o)'
    BY OutboxKept
  <1>3. (\A d \in Confirmers : ConfirmSafe(d)') /\ (\A u \in Wiped : WorkerSafe(u)')
    BY ConfirmKept, WorkerKept
  <1>4. clock' <= MaxClock /\ \A e \in outboxIndex' : e.role = "sender" => e.uin = SenderOf[e.key]
    BY DEF SafeInv
  <1> QED
    BY <1>1, <1>2, <1>3, <1>4 DEF SafeInv

\* ... one that leaves receipts, rows and outbox alone.
LEMMA RequestSafeLocal ==
    ASSUME TypeInv, TypeInv', SafeInv, NEW q \in Requests,
           RequestSafe(q)', \A p \in Requests : p # q => req'[p] = req[p],
           UNCHANGED <<clock, receipt, rows, outbox, outboxIndex, conf, erase>>
    PROVE  SafeInv'
  <1>1. StoreKept
    BY StoreSame, StartedSame
  <1>2. \A k \in Keys : ReceiptSafe(k)'
    BY <1>1, ReceiptUnchanged
  <1> QED
    BY <1>1, <1>2, RequestSafeStep

\* A handler that holds nothing after the step.
LEMMA EmptyHandedSafe ==
    ASSUME TypeInv, TypeInv', SafeInv, NEW q \in Requests, NEW pc, NEW k, NEW e, NEW rec,
           Becomes(q, pc, k, e, rec), pc \in {"claim", "load", "failed"},
           UNCHANGED <<clock, storeVars, conf, erase>>
    PROVE  SafeInv'
  <1>1. RequestSafe(q)'
    BY DEF Becomes, RequestSafe, Holds
  <1> QED
    BY <1>1, RequestSafeLocal DEF Becomes, storeVars

\* A handler that moves on with the receipt it holds.
LEMMA MovesOnSafe ==
    ASSUME TypeInv, TypeInv', SafeInv, NEW q \in Requests, NEW pc, Holds(q),
           Becomes(q, pc, req[q].key, req[q].env, req[q].rec),
           \/ pc \in {"index", "write"}
           \/ pc = "cas" /\ req[q].pc = "mark"
           \/ pc \in {"reply", "acked"} /\ req[q].pc \in {"publish", "reply"},
           UNCHANGED <<clock, receipt, rows, outbox, outboxIndex, conf, erase>>
    PROVE  SafeInv'
  <1> DEFINE k == req[q].key
             e == req[q].env
  <1>1. /\ k' = k /\ e' = e /\ req'[q].pc = pc /\ req'[q].rec = req[q].rec
        /\ \A p \in Requests : p # q => req'[p] = req[p]
    BY DEF Becomes
  <1>2. /\ Alive(k)' = Alive(k) /\ Survivors(e)' = Survivors(e) /\ Wanted(k)' = Wanted(k)
        /\ RowOf(k)' = RowOf(k) /\ Named(k)' = Named(k)
    BY <1>1 DEF Alive, Survivors, Wanted, Kept, RowOf, Named, Started
  <1>3. RequestSafe(q)
    BY DEF SafeInv
  <1>4. RequestSafe(q)'
    BY <1>1, <1>2, <1>3 DEF RequestSafe
  <1> QED
    BY <1>1, <1>4, RequestSafeLocal

\* A claim that finds a receipt holds it with all its survivors.
LEMMA LoadSafe ==
    ASSUME TypeInv, TypeInv', SafeInv, NEW q \in Requests, UNCHANGED erase,
           ClaimCommitted(q) \/ ClaimStale(q)
    PROVE  SafeInv'
  <1> DEFINE k == req[q].key
             e == req[q].env
  <1>1. PICK pc \in {"publish", "reply", "takeover"} :
           /\ Becomes(q, pc, k, e, receipt[k])
           /\ pc # "takeover" => receipt[k].state \in {"stored", "delivered"}
    BY LoadEffect
  <1>2. /\ k \in Keys /\ e \in Envelopes /\ receipt[k] # None /\ receipt[k].env = e
        /\ UNCHANGED <<clock, storeVars, conf, published>>
    BY LoadEffect
  <1>3. /\ k' = k /\ e' = e /\ req'[q].pc = pc /\ req'[q].rec = receipt[k]
        /\ \A p \in Requests : p # q => req'[p] = req[p]
    BY <1>1 DEF Becomes
  <1>4. UNCHANGED <<receipt, rows, outbox, outboxIndex>>
    BY <1>2 DEF storeVars
  <1>5. Alive(k)' = Alive(k) /\ Survivors(e)' = Survivors(e)
    BY <1>3 DEF Alive, Survivors, Started
  <1>6. Alive(k) => Survivors(e) \subseteq receipt[k].to
    BY <1>2, KeysAssumption DEF SafeInv, ReceiptSafe, Kept
  <1>7. RequestSafe(q)'
    BY <1>1, <1>2, <1>3, <1>4, <1>5, <1>6 DEF RequestSafe
  <1> QED
    BY <1>2, <1>3, <1>4, <1>7, RequestSafeLocal

\* A step that replaces the receipt of k by an advance of it, or by a new one.
LEMMA ReceiptStoreKept ==
    ASSUME TypeInv, TypeInv', NEW k \in Keys, NEW r, ReceiptBecomes(k, r),
           Alive(k) /\ receipt[k] # None => ReceiptAdvances(k),
           UNCHANGED <<rows, outbox>>, \A u \in Uins : Started(u) => Started(u)'
    PROVE  StoreKept
  <1>1. ASSUME NEW j \in Keys, Alive(j), receipt[j] # None PROVE ReceiptAdvances(j)
    <2>1. CASE j = k
      BY <1>1, <2>1
    <2>2. CASE j # k
      BY <1>1, <2>2 DEF ReceiptBecomes, ReceiptAdvances
    <2> QED
      BY <2>1, <2>2
  <1>2. \A j \in Keys : Named(j)' = Named(j)
    BY DEF Named
  <1> QED
    BY <1>1, <1>2 DEF StoreKept

\* A receipt whose owner, lease or state has changed stays safe; one that has
\* become stored needs its rows.
LEMMA ReceiptAdvanced ==
    ASSUME TypeInv, TypeInv', SafeInv, StoreKept, NEW k \in Keys,
           receipt[k] # None, receipt'[k] # None, receipt'[k].to = receipt[k].to,
           receipt[k].state = "pending" /\ receipt'[k].state = "stored" /\ Wanted(k) =>
               RowOf(k) \in rows /\ Named(k),
           UNCHANGED <<rows, outbox>>
    PROVE  ReceiptSafe(k)'
  <1>1. ASSUME Kept(k)' PROVE Survivors(receipt[k].env)' \subseteq receipt'[k].to
    <2>1. Kept(k) /\ Survivors(receipt[k].env)' \subseteq Survivors(receipt[k].env)
      BY <1>1, WantedBefore
    <2> QED
      BY <2>1 DEF SafeInv, ReceiptSafe
  <1>2. CASE receipt[k].state = "pending" /\ receipt'[k].state = "stored"
    <2>1. ASSUME Wanted(k)' PROVE RowOf(k)' \in rows' /\ Named(k)'
      <3>1. Wanted(k) /\ RowOf(k)' = RowOf(k) /\ Named(k)' = Named(k)
        BY <2>1, WantedBefore DEF Wanted, Named
      <3> QED
        BY <1>2, <3>1
    <2> QED
      BY <1>1, <2>1 DEF ReceiptSafe
  <1>3. CASE ~ (receipt[k].state = "pending" /\ receipt'[k].state = "stored")
    BY <1>1, <1>3, ReceiptKept
  <1> QED
    BY <1>2, <1>3

\* INSERT ... IF NOT EXISTS: the new receipt names every recipient.
LEMMA InsertSafe ==
    ASSUME TypeInv, TypeInv', SafeInv, NEW q \in Requests, UNCHANGED erase, ClaimInsert(q)
    PROVE  SafeInv'
  <1> DEFINE k == req[q].key
             e == req[q].env
             n == NewReceipt(q)
  <1>1. /\ k \in Keys /\ e \in Envelopes /\ receipt[k] = None /\ n # None
        /\ n.state = "pending" /\ n.env = e /\ n.to = e.to
        /\ Becomes(q, "index", k, e, n) /\ ReceiptBecomes(k, n)
    BY InsertEffect
  <1> HIDE DEF n
  <1>2. UNCHANGED <<clock, rows, outbox, outboxIndex, conf>>
    BY DEF ClaimInsert
  <1>3. /\ k' = k /\ e' = e /\ req'[q].pc = "index" /\ req'[q].rec = n /\ receipt'[k] = n
        /\ \A p \in Requests : p # q => req'[p] = req[p]
        /\ \A j \in Keys : j # k => receipt'[j] = receipt[j]
    BY <1>1 DEF Becomes, ReceiptBecomes
  <1>4. StoreKept
    BY <1>1, <1>2, ReceiptStoreKept, StartedSame
  <1>5. \A j \in Keys : j # k => ReceiptSafe(j)'
    BY <1>3, <1>4, ReceiptUnchanged
  <1>6. Survivors(e)' \subseteq e.to /\ Survivors(receipt[k].env)' \subseteq n.to
    BY <1>1, <1>3 DEF Survivors
  <1>7. ReceiptSafe(k)'
    BY <1>1, <1>3, <1>6 DEF ReceiptSafe
  <1>8. RequestSafe(q)'
    BY <1>1, <1>3, <1>6 DEF RequestSafe
  <1> QED
    BY <1>2, <1>3, <1>4, <1>5, <1>7, <1>8, RequestSafeStep

\* A takeover changes only the owner and the lease.
LEMMA TakeoverSafe ==
    ASSUME TypeInv, TypeInv', SafeInv, NEW q \in Requests, UNCHANGED erase, Takeover(q)
    PROVE  SafeInv'
  <1> DEFINE k == req[q].key
             e == req[q].env
  <1>1. k \in Keys /\ Holds(q) /\ receipt[k] # None /\ receipt[k].state = "pending"
    BY TakeoverEffect
  <1>2. PICK m \in Receipt : /\ m.env = req[q].rec.env /\ m.created = req[q].rec.created
                             /\ m.to = req[q].rec.to /\ Becomes(q, "write", k, e, m)
    BY TakeoverEffect
  <1>3. PICK n \in Receipt : /\ n.env = receipt[k].env /\ n.created = receipt[k].created
                             /\ n.to = receipt[k].to /\ n.state = "pending"
                             /\ ReceiptBecomes(k, n)
    BY TakeoverEffect
  <1>4. UNCHANGED <<clock, rows, outbox, outboxIndex, conf>>
    BY DEF Takeover
  <1>5. /\ k' = k /\ e' = e /\ req'[q].pc = "write" /\ req'[q].rec = m /\ receipt'[k] = n
        /\ n # None
        /\ \A p \in Requests : p # q => req'[p] = req[p]
        /\ \A j \in Keys : j # k => receipt'[j] = receipt[j]
    BY <1>2, <1>3, NoneAssumption DEF Becomes, ReceiptBecomes
  <1>6. StoreKept
    <2>1. ReceiptAdvances(k)
      BY <1>1, <1>3, <1>5 DEF ReceiptAdvances
    <2> QED
      BY <1>1, <1>3, <1>4, <2>1, ReceiptStoreKept, StartedSame
  <1>7. \A j \in Keys : j # k => ReceiptSafe(j)'
    BY <1>5, <1>6, ReceiptUnchanged
  <1>8. \A j \in Keys : j = k => ReceiptSafe(j)'
    BY <1>1, <1>3, <1>4, <1>5, <1>6, ReceiptAdvanced
  <1>9. RequestSafe(q)'
    <2>1. Alive(k)' = Alive(k) /\ Survivors(e)' = Survivors(e)
      BY <1>5 DEF Alive, Survivors, Started
    <2>2. RequestSafe(q)
      BY DEF SafeInv
    <2> QED
      BY <1>1, <1>2, <1>3, <1>5, <2>1, <2>2 DEF RequestSafe
  <1> QED
    BY <1>4, <1>5, <1>6, <1>7, <1>8, <1>9, RequestSafeStep

\* MarkStored's compare-and-set: the batch of the request that owns the
\* receipt has been written, and is still there.
LEMMA StoredSafe ==
    ASSUME TypeInv, TypeInv', SafeInv, NEW q \in Requests, UNCHANGED erase, MarkStoredCAS(q)
    PROVE  SafeInv'
  <1> DEFINE k == req[q].key
             e == req[q].env
  <1>1. /\ k \in Keys /\ Holds(q) /\ receipt[k] # None /\ receipt[k].state = "pending"
        /\ Becomes(q, "publish", k, e, req[q].rec) /\ req[q].pc = "cas"
    BY StoredEffect DEF MarkStoredCAS
  <1>2. PICK n \in Receipt : /\ n.env = receipt[k].env /\ n.created = receipt[k].created
                             /\ n.to = receipt[k].to /\ n.state = "stored"
                             /\ ReceiptBecomes(k, n)
    BY StoredEffect
  <1>3. UNCHANGED <<clock, rows, outbox, outboxIndex, conf>>
    BY DEF MarkStoredCAS
  <1>4. /\ k' = k /\ e' = e /\ req'[q].pc = "publish" /\ req'[q].rec = req[q].rec
        /\ receipt'[k] = n /\ n # None
        /\ \A p \in Requests : p # q => req'[p] = req[p]
        /\ \A j \in Keys : j # k => receipt'[j] = receipt[j]
    BY <1>1, <1>2, NoneAssumption DEF Becomes, ReceiptBecomes
  <1>5. StoreKept
    <2>1. ReceiptAdvances(k)
      BY <1>1, <1>2, <1>4 DEF ReceiptAdvances
    <2> QED
      BY <1>1, <1>2, <1>3, <2>1, ReceiptStoreKept, StartedSame
  <1>6. \A j \in Keys : j # k => ReceiptSafe(j)'
    BY <1>4, <1>5, ReceiptUnchanged
  <1>7. RequestSafe(q)
    BY DEF SafeInv
  <1>8. \A j \in Keys : j = k => ReceiptSafe(j)'
    <2>1. Wanted(k) => RowOf(k) \in rows /\ Named(k)
      BY <1>1, <1>7 DEF RequestSafe, Wanted, Kept
    <2> QED
      BY <1>1, <1>2, <1>3, <1>4, <1>5, <2>1, ReceiptAdvanced
  <1>9. RequestSafe(q)'
    <2>1. Alive(k)' = Alive(k) /\ Survivors(e)' = Survivors(e)
      BY <1>4 DEF Alive, Survivors, Started
    <2> QED
      BY <1>1, <1>2, <1>4, <1>7, <2>1 DEF RequestSafe
  <1> QED
    BY <1>3, <1>4, <1>5, <1>6, <1>8, <1>9, RequestSafeStep

\* A request about to write knows the receipt its rows are for.
LEMMA BatchIsOfReceipt ==
    ASSUME TypeInv, SafeInv, NEW q \in Requests, WriteBatch(q), NEW k \in Keys,
           k = req[q].key, Alive(k)
    PROVE  /\ receipt[k] # None /\ receipt[k].created = req[q].rec.created
           /\ Survivors(req[q].env) \subseteq req[q].rec.to
           /\ receipt[k].env # None => receipt[k].env = req[q].env
  <1>1. RequestSafe(q) /\ Holds(q)
    BY BatchEffect DEF SafeInv
  <1> QED
    BY <1>1 DEF RequestSafe

\* WriteDirect, WriteGroup: a batch written late, or again, replaces the rows
\* of the same receipt by the same rows, and puts no survivor off the list.
LEMMA BatchSafe ==
    ASSUME TypeInv, TypeInv', SafeInv, NEW q \in Requests, UNCHANGED erase, WriteBatch(q)
    PROVE  SafeInv'
  <1>1. PICK k \in Keys, c \in Nat, e \in Envelopes, to \in SUBSET Uins :
           k = req[q].key /\ c = req[q].rec.created /\ e = req[q].env /\ to = req[q].rec.to
    BY BatchEffect
  <1> DEFINE row == [key |-> k, created |-> c, env |-> e]
             box == [key |-> k, created |-> c, env |-> e, to |-> to]
  <1>2. /\ rows' = {x \in rows : ~SameRow(x, k, c)} \union {row}
        /\ outbox' = {x \in outbox : ~SameRow(x, k, c)} \union {box}
        /\ Becomes(q, "mark", k, e, req[q].rec) /\ Holds(q)
        /\ \A x \in outboxIndex' : x \in outboxIndex \/
                  (x.role = "sender" => x.uin = SenderOf[x.key])
    BY <1>1, BatchEffect
  <1>3. UNCHANGED <<clock, receipt, conf>>
    BY DEF WriteBatch
  <1>4. Alive(k) => /\ receipt[k] # None /\ receipt[k].created = c
                    /\ Survivors(e) \subseteq to
                    /\ receipt[k].env # None => receipt[k].env = e
    BY <1>1, BatchIsOfReceipt
  <1>5. Wanted(k) => RowOf(k) = row
    BY <1>4 DEF Wanted, Kept, RowOf
  <1>6. /\ row \in rows' /\ box \in outbox' /\ box.key = k
        /\ \A j \in Keys : RowOf(j).key = j
    BY <1>2 DEF RowOf
  <1> HIDE DEF row
  <1>7. ASSUME NEW j \in Keys, Wanted(j), RowOf(j) \in rows PROVE RowOf(j) \in rows'
    <2>1. CASE j = k
      BY <1>5, <1>6, <1>7, <2>1
    <2>2. CASE j # k
      BY <1>2, <1>6, <1>7, <2>2 DEF SameRow
    <2> QED
      BY <2>1, <2>2
  <1>8. ASSUME NEW j \in Keys, Named(j) PROVE Named(j)'
    <2>1. CASE j = k
      BY <1>6, <2>1 DEF Named
    <2>2. CASE j # k
      BY <1>2, <1>8, <2>2 DEF Named, SameRow
    <2> QED
      BY <2>1, <2>2
  <1>9. StoreKept
    BY <1>3, <1>7, <1>8, StartedSame DEF StoreKept, ReceiptAdvances
  <1>10. \A j \in Keys : ReceiptSafe(j)'
    BY <1>3, <1>9, ReceiptUnchanged
  <1>11. Alive(k)' = Alive(k) /\ Survivors(e)' = Survivors(e) /\ Wanted(k)' = Wanted(k)
         /\ RowOf(k)' = RowOf(k) /\ Named(k)'
    BY <1>3, <1>6 DEF Alive, Survivors, Wanted, Kept, RowOf, Named, Started
  <1>12. OutboxSafe(box)'
    BY <1>3, <1>4, <1>11 DEF OutboxSafe
  <1>13. RequestSafe(q)'
    <2>1. /\ req'[q].pc = "mark" /\ req'[q].key = k /\ req'[q].env = e
          /\ req'[q].rec.created = c /\ req'[q].rec.to = to
      BY <1>1, <1>2 DEF Becomes
    <2>2. Alive(k) => receipt[k].env = e \/ (receipt[k].env = None /\ Survivors(e) = {})
      BY <1>1, <1>2 DEF SafeInv, RequestSafe
    <2>3. Survivors(req[q].env)' = Survivors(e)'
      BY <2>1 DEF Survivors
    <2> QED
      BY <1>3, <1>4, <1>5, <1>6, <1>11, <2>1, <2>2, <2>3 DEF RequestSafe
  <1>14. \A o \in outbox' : o \in outbox \/ OutboxSafe(o)'
    BY <1>2, <1>12
  <1> QED
    BY <1>2, <1>3, <1>9, <1>10, <1>13, <1>14, RequestSafeStep DEF Becomes

\* Every step of a request is safe.
LEMMA RequestStepSafe ==
    ASSUME TypeInv, TypeInv', SafeInv, NEW q \in Requests, RequestStep(q), UNCHANGED erase
    PROVE  SafeInv'
  <1>1. CASE \E k \in Keys, e \in Envelopes : Receive(q, k, e)
    <2>1. PICK k \in Keys, e \in Envelopes : Receive(q, k, e)
      BY <1>1
    <2> QED
      BY <2>1, ReceiveEffect, EmptyHandedSafe DEF Receive
  <1>2. CASE ClaimExists(q)
    <2>1. Becomes(q, "load", req[q].key, req[q].env, req[q].rec)
      BY <1>2, GotoEffect DEF ClaimExists, RequestPC
    <2> QED
      BY <1>2, <2>1, EmptyHandedSafe DEF ClaimExists
  <1>3. CASE ClaimCommitted(q) \/ ClaimStale(q)
    BY <1>3, LoadSafe
  <1>4. CASE \E u \in Uins : IndexWrite(q, u)
    <2>1. PICK u \in Uins : IndexWrite(q, u)
      BY <1>4
    <2>2. PICK pc \in {"index", "write"} : Becomes(q, pc, req[q].key, req[q].env, req[q].rec)
      BY <2>1, IndexEffect
    <2> QED
      BY <2>1, <2>2, IndexEffect, MovesOnSafe DEF IndexWrite
  <1>5. CASE ClaimInsert(q) \/ Takeover(q) \/ MarkStoredCAS(q) \/ WriteBatch(q)
    BY <1>5, InsertSafe, TakeoverSafe, StoredSafe, BatchSafe
  <1>6. CASE GiveUp(q) /\ UNCHANGED <<clock, storeVars, conf, published>>
    BY <1>6, GiveUpEffect, EmptyHandedSafe
  <1>7. CASE MarkStoredLoad(q) /\ LeaseHeld(q)
    <2>1. /\ req[q].pc = "mark" /\ Holds(q) /\ UNCHANGED <<clock, storeVars, conf>>
          /\ Becomes(q, "cas", req[q].key, req[q].env, req[q].rec)
      BY <1>7, GotoEffect DEF MarkStoredLoad, RequestPC, Holds
    <2> QED
      BY <2>1, MovesOnSafe DEF storeVars
  <1>8. CASE Publish(q) \/ PublishError(q) \/ Reply(q)
    <2>1. PICK pc \in {"reply", "acked"} : Goto(q, pc)
      BY <1>8 DEF Publish, PublishError, Reply
    <2>2. /\ req[q].pc \in {"publish", "reply"} /\ Holds(q) /\ UNCHANGED <<clock, storeVars, conf>>
          /\ Becomes(q, pc, req[q].key, req[q].env, req[q].rec)
      BY <1>8, <2>1, GotoEffect DEF Publish, PublishError, Reply, RequestPC, Holds
    <2> QED
      BY <2>2, MovesOnSafe DEF storeVars
  <1> QED
    BY <1>1, <1>2, <1>3, <1>4, <1>5, <1>6, <1>7, <1>8
    DEF RequestStep, Claim, Persist, ClaimRefused, TakeoverLost, WriteExpired,
        MarkStoredLoad, MarkStoredLost, Fail

-----------------------------------------------------------------------------
(***************************************************************************)
(* Steps of delivery receipts, of the outbox worker and of time            *)
(***************************************************************************)

\* A step of one delivery-receipt handler.
LEMMA ConfirmSafeStep ==
    ASSUME TypeInv, TypeInv', SafeInv, StoreKept, NEW d \in Confirmers,
           ConfirmSafe(d)', \A c \in Confirmers : c # d => conf'[c] = conf[c],
           \A k \in Keys : ReceiptSafe(k)', outbox' \subseteq outbox,
           UNCHANGED <<clock, outboxIndex, req, erase>>
    PROVE  SafeInv'
  <1>1. (\A q \in Requests : RequestSafe(q)') /\ (\A u \in Wiped : WorkerSafe(u)')
    BY RequestKept, WorkerKept
  <1>2. \A o \in outbox' : OutboxSafe(o)'
    BY OutboxKept
  <1>3. \A c \in Confirmers : ConfirmSafe(c)'
    BY ConfirmKept
  <1> QED
    BY <1>1, <1>2, <1>3 DEF SafeInv

\* MarkDelivered comes before deleteOutbox: the outbox row a handler deletes
\* is that of a delivered receipt.
LEMMA ConfirmStepSafe ==
    ASSUME TypeInv, TypeInv', SafeInv, NEW d \in Confirmers, UNCHANGED erase,
           (\E m \in published : ConfirmStart(d, m)) \/ ConfirmStep(d)
    PROVE  SafeInv'
  <1>1. ASSUME NEW pc, NEW k \in Keys \union {None}, ConfBecomes(d, pc, k),
               pc = "delete" => k \in Keys /\ receipt[k] # None /\ receipt[k].state = "delivered",
               UNCHANGED <<clock, receipt, rows, outbox, outboxIndex, req>>
        PROVE  SafeInv'
    <2>1. StoreKept
      BY <1>1, StoreSame, StartedSame
    <2>2. \A j \in Keys : ReceiptSafe(j)'
      BY <1>1, <2>1, ReceiptUnchanged
    <2>3. ConfirmSafe(d)'
      BY <1>1 DEF ConfBecomes, ConfirmSafe
    <2> QED
      BY <1>1, <2>1, <2>2, <2>3, ConfirmSafeStep DEF ConfBecomes
  <1>2. CASE \E m \in published : ConfirmStart(d, m)
    <2>1. PICK m \in published : ConfirmStart(d, m)
      BY <1>2
    <2> QED
      BY <1>1, <2>1, ConfirmStartEffect DEF ConfirmStart, storeVars
  <1>3. CASE ConfirmLoad(d)
    <2>1. PICK pc \in {"cas", "delete"} :
             ConfBecomes(d, pc, conf[d].key) /\
             (pc = "delete" => receipt[conf[d].key].state = "delivered")
      BY <1>3, ConfirmLoadEffect
    <2> QED
      BY <1>1, <1>3, <2>1, ConfirmLoadEffect DEF ConfirmLoad, storeVars
  <1>4. CASE ConfirmCAS(d)
    <2>1. PICK k \in Keys : k = conf[d].key
      BY <1>4, ConfirmCASEffect
    <2>2. PICK n \in Receipt : /\ n.env = receipt[k].env /\ n.created = receipt[k].created
                               /\ n.to = receipt[k].to /\ n.state = "delivered"
                               /\ ReceiptBecomes(k, n)
      BY <1>4, <2>1, ConfirmCASEffect
    <2>3. receipt[k] # None /\ receipt[k].state = "stored" /\ ConfBecomes(d, "delete", k)
      BY <1>4, <2>1, ConfirmCASEffect
    <2>4. UNCHANGED <<clock, rows, outbox, outboxIndex, req>>
      BY <1>4 DEF ConfirmCAS
    <2>5. /\ receipt'[k] = n /\ n # None
          /\ \A j \in Keys : j # k => receipt'[j] = receipt[j]
      BY <2>2, NoneAssumption DEF ReceiptBecomes
    <2>6. StoreKept
      <3>1. ReceiptAdvances(k)
        BY <2>2, <2>3, <2>5 DEF ReceiptAdvances
      <3> QED
        BY <2>2, <2>4, <3>1, ReceiptStoreKept, StartedSame
    <2>7. \A j \in Keys : ReceiptSafe(j)'
      <3>1. ReceiptSafe(k)'
        BY <2>2, <2>3, <2>4, <2>5, <2>6, ReceiptAdvanced
      <3> QED
        BY <2>5, <2>6, <3>1, ReceiptUnchanged
    <2>8. ConfirmSafe(d)'
      BY <2>2, <2>3, <2>5 DEF ConfBecomes, ConfirmSafe
    <2> QED
      BY <2>3, <2>4, <2>6, <2>7, <2>8, ConfirmSafeStep DEF ConfBecomes
  <1>5. CASE ConfirmDelete(d)
    <2>1. /\ conf[d].pc = "delete" /\ ConfBecomes(d, "idle", None)
          /\ outbox' = {o \in outbox : ~SameRow(o, conf[d].key, conf[d].created)}
          /\ UNCHANGED <<clock, receipt, rows, outboxIndex, req>>
      BY <1>5, ConfirmEndEffect DEF ConfirmDelete
    <2>2. ASSUME NEW k \in Keys, Wanted(k), Named(k), receipt[k].state \in {"pending", "stored"}
          PROVE  Named(k)'
      <3>1. k # conf[d].key
        BY <2>1, <2>2 DEF SafeInv, ConfirmSafe, Wanted, Kept
      <3> QED
        BY <2>1, <2>2, <3>1 DEF Named, SameRow
    <2>3. StoreKept
      BY <2>1, <2>2, StartedSame DEF StoreKept, ReceiptAdvances
    <2>4. \A j \in Keys : ReceiptSafe(j)'
      BY <2>1, <2>3, ReceiptUnchanged
    <2>5. ConfirmSafe(d)'
      BY <2>1 DEF ConfBecomes, ConfirmSafe
    <2> QED
      BY <2>1, <2>3, <2>4, <2>5, ConfirmSafeStep DEF ConfBecomes
  <1>6. CASE ConfirmFail(d)
    BY <1>1, <1>6, ConfirmEndEffect DEF ConfirmFail, storeVars
  <1> QED
    BY <1>2, <1>3, <1>4, <1>5, <1>6 DEF ConfirmStep

\* Nothing expires before the clock has reached TTL.
LEMMA NothingExpires ==
    ASSUME TypeInv, SafeInv, MaxClock < TTL, NEW c \in Nat
    PROVE  Unexpired(c)
  <1>1. clock \in Nat /\ clock <= MaxClock /\ MaxClock \in Nat /\ TTL \in Nat
    BY Types, TimeAssumption DEF SafeInv
  <1> QED
    BY <1>1 DEF Unexpired, ExpiresAt

\* Time and the outbox worker are safe.
LEMMA TimeStepSafe ==
    ASSUME TypeInv, TypeInv', SafeInv, MaxClock < TTL, UNCHANGED erase,
           TimeStep \/ \E o \in outbox : OutboxPublish(o)
    PROVE  SafeInv'
  <1>1. \A k \in Keys : ~ EvictReceipt(k)
    BY Types, NothingExpires DEF EvictReceipt
  <1>2. (\A r \in rows : ~ EvictRow(r)) /\ (\A o \in outbox : ~ EvictOutbox(o))
    BY Types, NothingExpires DEF EvictRow, EvictOutbox, Row, OutboxEntry
  <1>3. UNCHANGED <<receipt, rows, outbox, outboxIndex, req, conf>> /\ clock' <= MaxClock
    <2>1. CASE Tick
      <3>1. clock' <= MaxClock
        BY <2>1, Types, TimeAssumption DEF Tick
      <3> QED
        BY <2>1, <3>1 DEF Tick, storeVars
    <2>2. CASE \E o \in outbox : OutboxPublish(o)
      BY <2>2 DEF OutboxPublish, storeVars, SafeInv
    <2> QED
      BY <1>1, <1>2, <2>1, <2>2 DEF TimeStep
  <1>4. StoreKept
    BY <1>3, StoreSame, StartedSame
  <1> QED
    BY <1>3, <1>4, RequestKept, ReceiptUnchanged, OutboxKept, ConfirmKept, WorkerKept DEF SafeInv

-----------------------------------------------------------------------------
(***************************************************************************)
(* Steps of a worker                                                       *)
(***************************************************************************)

\* A step of one worker.
LEMMA WorkerSafeStep ==
    ASSUME TypeInv, TypeInv', SafeInv, StoreKept, NEW u \in Wiped,
           WorkerSafe(u)', \A v \in Wiped : v # u => erase'[v] = erase[v],
           \A k \in Keys : ReceiptSafe(k)',
           \A o \in outbox' : o \in outbox \/ OutboxSafe(o)',
           outboxIndex' \subseteq outboxIndex, UNCHANGED <<clock, req, conf>>
    PROVE  SafeInv'
  <1>1. (\A q \in Requests : RequestSafe(q)') /\ (\A d \in Confirmers : ConfirmSafe(d)')
    BY RequestKept, ConfirmKept
  <1>2. \A o \in outbox' : OutboxSafe(o)'
    BY OutboxKept
  <1>3. \A v \in Wiped : WorkerSafe(v)'
    BY WorkerKept
  <1> QED
    BY <1>1, <1>2, <1>3 DEF SafeInv

\* A wipe that has begun goes on.
LEMMA WipesGoOn ==
    ASSUME NEW u \in Wiped, erase'[u].phase # "idle",
           \A v \in Wiped : v # u => erase'[v] = erase[v]
    PROVE  \A v \in Uins : Started(v) => Started(v)'
  BY DEF Started

\* A worker that walks on has nothing to compare.
LEMMA WalksSafe ==
    ASSUME TypeInv, SafeInv, NEW u \in Wiped, Walks(u)
    PROVE  WorkerSafe(u)' /\ \A v \in Uins : Started(v) => Started(v)'
  <1>1. ASSUME erase'[u].phase \in OutboxPhases, NEW e \in erase'[u].todo, e.role = "sender"
        PROVE  SenderOf[e.key] = u
    BY <1>1 DEF Walks, SafeInv, WorkerSafe
  <1>2. WorkerSafe(u)'
    BY <1>1 DEF Walks, WorkerSafe, At
  <1> QED
    BY <1>2, WipesGoOn DEF Walks

\* A step after which the worker walks on, the receipts being the same.
LEMMA WalkSafe ==
    ASSUME TypeInv, TypeInv', SafeInv, NEW u \in Wiped, Walks(u),
           \A k \in Keys : Wanted(k) /\ RowOf(k) \in rows => RowOf(k) \in rows',
           \A k \in Keys : Wanted(k) /\ Named(k) => Named(k)',
           \A o \in outbox' : o \in outbox \/ OutboxSafe(o)',
           outboxIndex' \subseteq outboxIndex, UNCHANGED <<clock, receipt, req, conf>>
    PROVE  SafeInv'
  <1>1. StoreKept
    BY WalksSafe DEF StoreKept, ReceiptAdvances
  <1>2. \A k \in Keys : ReceiptSafe(k)'
    BY <1>1, ReceiptUnchanged
  <1> QED
    BY <1>1, <1>2, WalksSafe, WorkerSafeStep DEF Walks

\* The same when rows and outbox do not change either.
LEMMA WalkOnlySafe ==
    ASSUME TypeInv, TypeInv', SafeInv, NEW u \in Wiped, Walks(u),
           outboxIndex' \subseteq outboxIndex,
           UNCHANGED <<clock, receipt, rows, outbox, req, conf>>
    PROVE  SafeInv'
  <1>1. \A k \in Keys : Named(k) => Named(k)'
    BY DEF Named
  <1> QED
    BY <1>1, WalkSafe

\* The worker takes as a sender only entries of its own account.
LEMMA ScanSafe ==
    ASSUME TypeInv, TypeInv', SafeInv, NEW u \in Wiped, EraseScan(u)
    PROVE  SafeInv'
  <1>1. UNCHANGED <<clock, receipt, rows, outbox, outboxIndex, req, conf>>
    BY DEF EraseScan, vars, storeVars
  <1>2. WorkerSafe(u)'
    <2>1. /\ erase'[u].step # "cas" /\ erase'[u].phase = erase[u].phase
          /\ erase[u].phase \in OutboxPhases =>
                \A e \in erase'[u].todo : e \in outboxIndex /\ e.uin = u
      BY ScanEffect
    <2>2. erase[u].phase \in OutboxPhases =>
             \A e \in erase'[u].todo : e.role = "sender" => SenderOf[e.key] = u
      BY <2>1 DEF SafeInv
    <2> QED
      BY <2>1, <2>2 DEF WorkerSafe, At
  <1>3. StoreKept
    BY <1>1, ScanEffect, WipesGoOn, StoreSame
  <1>4. \A k \in Keys : ReceiptSafe(k)'
    BY <1>1, <1>3, ReceiptUnchanged
  <1> QED
    BY <1>1, <1>2, <1>3, <1>4, ScanEffect, WorkerSafeStep

\* Message rows: a group row goes only with its sender.
LEMMA RowSafe ==
    ASSUME TypeInv, TypeInv', SafeInv, NEW u \in Wiped, NEW e \in erase[u].todo, EraseRow(u, e)
    PROVE  SafeInv'
  <1>1. /\ UNCHANGED <<clock, receipt, outbox, outboxIndex, req, conf>>
        /\ rows' = {r \in rows : ~(/\ SameRow(r, e.key, e.created) /\ r.env.kind = e.kind
                                   /\ e.kind = "direct" \/ SenderOf[e.key] = u)}
    BY DEF EraseRow
  <1>2. Started(u)
    BY DEF EraseRow, At, RowPhases, Started
  <1>3. ASSUME NEW k \in Keys, Wanted(k), RowOf(k) \in rows PROVE RowOf(k) \in rows'
    <2>1. RowOf(k).key = k /\ RowOf(k).env.kind = "group" /\ SenderOf[k] # u
      BY <1>2, <1>3 DEF Wanted, Kept, Alive, RowOf
    <2> QED
      BY <1>1, <1>3, <2>1 DEF SameRow
  <1>4. \A k \in Keys : Named(k) => Named(k)'
    BY <1>1 DEF Named
  <1> QED
    BY <1>1, <1>3, <1>4, RowEffect, WalkSafe

\* The receipt of a wiped sender: nobody relies on it any more.
LEMMA SenderReceiptSafe ==
    ASSUME TypeInv, TypeInv', SafeInv, NEW u \in Wiped, NEW e \in erase[u].todo,
           EraseSenderReceipt(u, e)
    PROVE  SafeInv'
  <1>1. /\ e.key \in Keys /\ Started(u) /\ erase[u].phase # "idle" /\ SenderOf[e.key] = u
        /\ UNCHANGED <<clock, rows, outbox, outboxIndex, req, conf>>
    BY DEF EraseSenderReceipt, At, TypeInv, WorkerOK, ReceiptIndexEntry, Started
  <1>2. ReceiptBecomes(e.key, None)
    BY <1>1, Types DEF EraseSenderReceipt, ReceiptBecomes
  <1>3. Walks(u)
    BY <1>1, DoneEffect DEF EraseSenderReceipt
  <1>4. StoreKept
    BY <1>1, <1>2, <1>3, WalksSafe, ReceiptStoreKept DEF Alive
  <1>5. ASSUME NEW k \in Keys PROVE ReceiptSafe(k)'
    <2>1. CASE k = e.key
      BY <1>2, <2>1 DEF ReceiptBecomes, ReceiptSafe, Wanted, Kept
    <2>2. CASE k # e.key
      BY <1>2, <1>4, <2>2, ReceiptUnchanged DEF ReceiptBecomes
    <2> QED
      BY <2>1, <2>2
  <1> QED
    BY <1>1, <1>3, <1>4, <1>5, WalksSafe, WorkerSafeStep DEF Walks

\* A worker that has read the receipt of a direct message has read the whole
\* list of its recipients: its own account.
LEMMA ReadReceiptSafe ==
    ASSUME TypeInv, TypeInv', SafeInv, NEW u \in Wiped, NEW e \in erase[u].todo,
           EraseReadReceipt(u, e)
    PROVE  SafeInv'
  <1>1. UNCHANGED <<clock, receipt, rows, outbox, outboxIndex, req, conf>>
    BY ReadReceiptEffect DEF vars, storeVars
  <1>2. CASE Walks(u)
    BY <1>1, <1>2, WalkOnlySafe
  <1>3. CASE ~ Walks(u)
    <2>1. PICK k \in Keys : k = e.key
      BY ReadReceiptEffect DEF ReceiptIndexEntry
    <2>2. /\ ~ NothingToSanitize(u, k)
          /\ erase'[u].phase = "receipts" /\ erase'[u].step = "cas" /\ erase'[u].at = e
          /\ erase'[u].read = receipt[k].to
          /\ \A v \in Wiped : v # u => erase'[v] = erase[v]
      BY <1>3, <2>1, ReadReceiptEffect
    <2>3. StoreKept
      BY <1>1, <2>2, WipesGoOn, StoreSame
    <2>4. \A j \in Keys : ReceiptSafe(j)'
      BY <1>1, <2>3, ReceiptUnchanged
    <2>5. receipt[k] # None /\ Started(u)'
      BY <2>2 DEF NothingToSanitize, Started
    <2>6. ASSUME erase'[u].kind = "direct", Kept(k)' PROVE Survivors(receipt[k].env)' = {}
      <3>1. receipt[k].to = {u}
        BY <2>2, <2>6 DEF TypeInv, WorkerOK, At
      <3>2. Survivors(receipt[k].env)' \subseteq receipt'[k].to
        BY <2>4, <2>6 DEF ReceiptSafe
      <3>3. u \notin Survivors(receipt[k].env)'
        BY <2>5 DEF Survivors
      <3> QED
        BY <1>1, <3>1, <3>2, <3>3
    <2>7. WorkerSafe(u)'
      BY <1>1, <2>1, <2>2, <2>5, <2>6 DEF WorkerSafe, At, OutboxPhases
    <2> QED
      BY <1>1, <2>2, <2>3, <2>4, <2>7, WorkerSafeStep
  <1> QED
    BY <1>2, <1>3

\* What SanitizeReceipt takes from a receipt of a live sender: the worker's own
\* account, and the envelope when nobody survives.
LEMMA SanitizeAdvances ==
    ASSUME TypeInv, SafeInv, NEW u \in Wiped, SanitizeReceipt(u), NEW k \in Keys,
           k = erase[u].at.key, Alive(k)
    PROVE  /\ receipt[k] # None /\ ReceiptAdvances(k)
           /\ receipt'[k].env # None => /\ receipt'[k].state = receipt[k].state
                                        /\ receipt'[k].to = receipt[k].to \ {u}
           /\ receipt'[k].env = None /\ receipt[k].env # None => Survivors(receipt[k].env) = {}
  <1>1. /\ receipt[k] # None /\ receipt[k] \in Receipt
        /\ erase[u].kind = "direct" \/ receipt[k].to = erase[u].read
        /\ erase[u].kind = "direct" => erase[u].read \ {u} = {}
        /\ erase[u].read \ {u} # {} => receipt[k].state # "recipient_erased"
    BY SanitizeEffect
  <1>2. PICK n \in Receipt :
           /\ ReceiptBecomes(k, n) /\ n.created = receipt[k].created
           /\ erase[u].read \ {u} = {} => n = Tombstone(receipt[k])
           /\ erase[u].read \ {u} # {} => /\ n.state = receipt[k].state
                                          /\ n.env = receipt[k].env
                                          /\ n.to = erase[u].read \ {u}
    BY SanitizeEffect
  <1>3. receipt'[k] = n /\ n # None /\ Started(u) /\ At(u, {"receipts"}, "cas")
    BY <1>2, NoneAssumption DEF ReceiptBecomes, SanitizeReceipt, At, Started
  <1>4. CASE erase[u].read \ {u} # {}
    <2>1. receipt[k].env \in Envelopes
      BY <1>1, <1>4 DEF TypeInv, ReceiptOK
    <2> QED
      BY <1>1, <1>2, <1>3, <1>4, <2>1, KeysAssumption DEF ReceiptAdvances
  <1>5. CASE erase[u].read \ {u} = {}
    <2>1. n.env = None
      <3>1. n = Tombstone(receipt[k]) /\ receipt[k] \in Receipt
        BY <1>1, <1>2, <1>5
      <3> QED
        BY <3>1, TombstoneOf
    <2>2. receipt[k].env # None => Survivors(receipt[k].env) = {}
      <3>1. ASSUME receipt[k].env # None, erase[u].kind = "direct"
            PROVE  Survivors(receipt[k].env) = {}
        BY <1>1, <1>3, <3>1 DEF SafeInv, WorkerSafe, Kept
      <3>2. ASSUME receipt[k].env # None, receipt[k].to = erase[u].read
            PROVE  Survivors(receipt[k].env) = {}
        <4>1. Survivors(receipt[k].env) \subseteq receipt[k].to
          BY <1>1, <3>2 DEF SafeInv, ReceiptSafe, Kept
        <4>2. u \notin Survivors(receipt[k].env)
          BY <1>3 DEF Survivors
        <4> QED
          BY <1>5, <3>2, <4>1, <4>2
      <3> QED
        BY <1>1, <3>1, <3>2
    <2> QED
      BY <1>1, <1>2, <1>3, <2>1, <2>2 DEF ReceiptAdvances
  <1> QED
    BY <1>4, <1>5

\* sanitizeIngestReceipt takes nothing from the survivors.
LEMMA SanitizeSafe ==
    ASSUME TypeInv, TypeInv', SafeInv, NEW u \in Wiped, SanitizeReceipt(u)
    PROVE  SafeInv'
  <1>1. PICK k \in Keys : k = erase[u].at.key
    BY SanitizeEffect
  <1>2. PICK n \in Receipt : ReceiptBecomes(k, n)
    BY <1>1, SanitizeEffect
  <1>3. /\ Walks(u) /\ receipt[k] # None /\ Started(u)'
        /\ UNCHANGED <<clock, rows, outbox, outboxIndex, req, conf>>
    BY <1>1, SanitizeEffect DEF SanitizeReceipt, Walks, Started
  <1>4. StoreKept
    <2>1. Alive(k) /\ receipt[k] # None => ReceiptAdvances(k)
      BY <1>1, SanitizeAdvances
    <2> QED
      BY <1>2, <1>3, <2>1, WalksSafe, ReceiptStoreKept
  <1>5. \A j \in Keys : j # k => ReceiptSafe(j)'
    BY <1>2, <1>4, ReceiptUnchanged DEF ReceiptBecomes
  <1>6. ReceiptSafe(k)'
    <2>1. ASSUME Kept(k)'
          PROVE  /\ receipt'[k].state = receipt[k].state
                 /\ Survivors(receipt[k].env)' \subseteq receipt'[k].to
      <3>1. Kept(k) /\ Survivors(receipt[k].env)' \subseteq Survivors(receipt[k].env) /\ Alive(k)
        BY <1>3, <1>4, <2>1, WantedBefore DEF Kept
      <3>2. receipt'[k].state = receipt[k].state /\ receipt'[k].to = receipt[k].to \ {u}
        BY <1>1, <2>1, <3>1, SanitizeAdvances DEF Kept
      <3>3. Survivors(receipt[k].env) \subseteq receipt[k].to
        BY <3>1 DEF SafeInv, ReceiptSafe
      <3>4. u \notin Survivors(receipt[k].env)'
        BY <1>3 DEF Survivors
      <3> QED
        BY <3>1, <3>2, <3>3, <3>4
    <2>2. ASSUME Wanted(k)', receipt'[k].state \in {"stored", "delivered"}
          PROVE  RowOf(k)' \in rows' /\ (receipt'[k].state = "stored" => Named(k)')
      <3>1. /\ Wanted(k) /\ RowOf(k)' = RowOf(k) /\ Named(k)' = Named(k)
            /\ receipt'[k].state = receipt[k].state
        BY <1>3, <1>4, <2>1, <2>2, WantedBefore DEF Wanted, Named
      <3> QED
        BY <1>3, <2>2, <3>1 DEF SafeInv, ReceiptSafe
    <2> QED
      BY <2>1, <2>2 DEF ReceiptSafe
  <1> QED
    BY <1>3, <1>4, <1>5, <1>6, WalksSafe, WorkerSafeStep DEF Walks

\* A worker deletes an outbox row of a direct message, or of its own account's
\* group message.
LEMMA EraseOutboxSafe ==
    ASSUME TypeInv, TypeInv', SafeInv, NEW u \in Wiped, NEW e \in erase[u].todo, EraseOutbox(u, e)
    PROVE  SafeInv'
  <1>1. /\ erase[u].phase \in OutboxPhases /\ Started(u)
        /\ e.kind = "direct" \/ e.role = "sender"
        /\ outbox' = outbox \ OutboxAt(e) /\ Done(u, e)
        /\ UNCHANGED <<clock, receipt, rows, outboxIndex, req, conf>>
    BY DEF EraseOutbox, At, Started, OutboxPhases
  <1>2. Walks(u)
    BY <1>1, DoneEffect DEF OutboxPhases
  <1>3. e.role = "sender" => SenderOf[e.key] = u
    BY <1>1 DEF SafeInv, WorkerSafe
  <1>4. ASSUME NEW k \in Keys, Wanted(k), NEW o \in outbox, o.key = k PROVE o \notin OutboxAt(e)
    <2>1. o.env.kind = "group" /\ SenderOf[k] # u
      BY <1>1, <1>4 DEF SafeInv, OutboxSafe, Wanted, Kept, Alive
    <2> QED
      BY <1>1, <1>3, <1>4, <2>1 DEF OutboxAt, SameRow
  <1>5. \A k \in Keys : Wanted(k) /\ Named(k) => Named(k)'
    BY <1>1, <1>4 DEF Named
  <1> QED
    BY <1>1, <1>2, <1>5, WalkSafe

\* A worker that has read a group's outbox row has read every survivor.
LEMMA ReadOutboxSafe ==
    ASSUME TypeInv, TypeInv', SafeInv, NEW u \in Wiped, NEW e \in erase[u].todo,
           EraseReadOutbox(u, e)
    PROVE  SafeInv'
  <1>1. UNCHANGED <<clock, receipt, rows, outbox, outboxIndex, req, conf>>
    BY ReadOutboxEffect DEF vars, storeVars
  <1>2. CASE Walks(u)
    BY <1>1, <1>2, WalkOnlySafe
  <1>3. CASE ~ Walks(u)
    <2>1. PICK k \in Keys : k = e.key
      BY ReadOutboxEffect DEF OutboxIndexEntry
    <2>2. /\ erase[u].phase \in OutboxPhases /\ erase'[u].phase = erase[u].phase
          /\ erase'[u].step = "cas" /\ erase'[u].at = e /\ erase'[u].todo = erase[u].todo
          /\ \A v \in Wiped : v # u => erase'[v] = erase[v]
      BY <1>3, ReadOutboxEffect
    <2>3. PICK o \in outbox : o.key = k /\ erase'[u].read = o.to
      BY <1>3, <2>1, ReadOutboxEffect
    <2>4. StoreKept
      BY <1>1, <2>2, WipesGoOn, StoreSame DEF OutboxPhases
    <2>5. \A j \in Keys : ReceiptSafe(j)'
      BY <1>1, <2>4, ReceiptUnchanged
    <2>6. OutboxSafe(o)'
      BY <2>4, OutboxKept
    <2>7. /\ Alive(k)' => receipt'[k] # None
          /\ Kept(k)' => Survivors(receipt[k].env)' \subseteq erase'[u].read
      <3>1. ASSUME Alive(k)'
            PROVE  /\ receipt'[k] # None
                   /\ receipt'[k].env # None =>
                         o.env = receipt'[k].env /\ Survivors(o.env)' \subseteq o.to
        BY <2>3, <2>6, <3>1 DEF OutboxSafe
      <3> QED
        BY <2>3, <3>1 DEF Kept, Survivors
    <2>8. \A x \in erase'[u].todo : x.role = "sender" => SenderOf[x.key] = u
      BY <2>2 DEF SafeInv, WorkerSafe
    <2>9. WorkerSafe(u)'
      BY <2>1, <2>2, <2>7, <2>8 DEF WorkerSafe, At, OutboxPhases
    <2> QED
      BY <1>1, <2>2, <2>4, <2>5, <2>9, WorkerSafeStep
  <1> QED
    BY <1>2, <1>3

\* The row goes with the last recipient.
LEMMA OutboxEmptySafe ==
    ASSUME TypeInv, TypeInv', SafeInv, NEW u \in Wiped, SanitizeOutboxEmpty(u)
    PROVE  SafeInv'
  <1>1. PICK k \in Keys : k = erase[u].at.key
    BY DEF SanitizeOutboxEmpty, TypeInv, WorkerOK, OutboxIndexEntry
  <1>2. /\ At(u, OutboxPhases, "cas") /\ erase[u].read = {u} /\ Started(u)
        /\ outbox' = outbox \ OutboxAt(erase[u].at)
        /\ UNCHANGED <<clock, receipt, rows, outboxIndex, req, conf>>
    BY DEF SanitizeOutboxEmpty, At, Started, OutboxPhases
  <1>3. Walks(u)
    BY <1>2, DoneEffect DEF SanitizeOutboxEmpty, At, OutboxPhases
  <1>4. ~ Wanted(k)
    <2>1. Kept(k) => Survivors(receipt[k].env) \subseteq {u}
      BY <1>1, <1>2 DEF SafeInv, WorkerSafe
    <2>2. u \notin Survivors(receipt[k].env)
      BY <1>2 DEF Survivors
    <2> QED
      BY <2>1, <2>2 DEF Wanted
  <1>5. ASSUME NEW j \in Keys, Wanted(j), Named(j) PROVE Named(j)'
    BY <1>1, <1>2, <1>4, <1>5 DEF Named, OutboxAt, SameRow
  <1> QED
    BY <1>2, <1>3, <1>5, WalkSafe

\* The compare-and-set on a group's outbox row takes only the worker's account.
LEMMA SanitizeOutboxSafe ==
    ASSUME TypeInv, TypeInv', SafeInv, NEW u \in Wiped, SanitizeOutbox(u)
    PROVE  SafeInv'
  <1>1. PICK o \in OutboxAt(erase[u].at) :
           outbox' = (outbox \ {o}) \union {[o EXCEPT !.to = o.to \ {u}]}
    BY DEF SanitizeOutbox
  <1>2. /\ At(u, OutboxPhases, "cas")
        /\ UNCHANGED <<clock, receipt, rows, outboxIndex, req, conf>>
    BY DEF SanitizeOutbox
  <1>3. Walks(u)
    BY <1>2, DoneEffect DEF SanitizeOutbox, At, OutboxPhases
  <1> DEFINE p == [o EXCEPT !.to = o.to \ {u}]
  <1>4. /\ o \in outbox /\ o \in OutboxEntry
        /\ p.key = o.key /\ p.created = o.created /\ p.env = o.env /\ p.to = o.to \ {u}
    BY Types DEF OutboxAt, OutboxEntry
  <1>5. outbox' = (outbox \ {o}) \union {p}
    BY <1>1
  <1> HIDE DEF p
  <1>6. \A k \in Keys : Named(k) => Named(k)'
    BY <1>4, <1>5 DEF Named
  <1>7. OutboxSafe(p)'
    <2>1. StoreKept
      BY <1>2, <1>3, <1>6, WalksSafe DEF StoreKept, ReceiptAdvances
    <2>2. OutboxSafe(o)'
      BY <1>4, <2>1, OutboxKept
    <2>3. u \notin Survivors(o.env)'
      BY <1>3 DEF Survivors, Walks, Started
    <2> QED
      BY <1>4, <2>2, <2>3 DEF OutboxSafe
  <1> QED
    BY <1>2, <1>3, <1>5, <1>6, <1>7, WalkSafe

\* Every step of a worker is safe.
LEMMA EraseStepSafe ==
    ASSUME TypeInv, TypeInv', SafeInv, NEW u \in Wiped, EraseStep(u)
    PROVE  SafeInv'
  <1>1. CASE EraseStart(u) \/ EraseFail(u) \/ EraseDropIndex(u)
    <2>1. outboxIndex' \subseteq outboxIndex
      BY <1>1 DEF EraseStart, EraseFail, EraseDropIndex, vars, storeVars
    <2> QED
      BY <1>1, <2>1, PhaseEffect, WalkOnlySafe
  <1>2. CASE EraseScan(u)
    BY <1>2, ScanSafe
  <1>3. ASSUME NEW e \in erase[u].todo,
               \/ EraseRow(u, e) \/ EraseSenderReceipt(u, e) \/ EraseReadReceipt(u, e)
               \/ EraseOutbox(u, e) \/ EraseReadOutbox(u, e)
        PROVE  SafeInv'
    BY <1>3, RowSafe, SenderReceiptSafe, ReadReceiptSafe, EraseOutboxSafe, ReadOutboxSafe
  <1>4. CASE EraseMirror(u)
    <2>1. Walks(u)
      BY <1>4, DoneEffect DEF EraseMirror, At
    <2> QED
      BY <1>4, <2>1, WalkOnlySafe DEF EraseMirror
  <1>5. CASE SanitizeReceiptLost(u)
    <2>1. Walks(u)
      BY <1>5, DoneEffect, RetryEffect DEF SanitizeReceiptLost, At
    <2> QED
      BY <1>5, <2>1, WalkOnlySafe DEF SanitizeReceiptLost, vars, storeVars
  <1>6. CASE SanitizeOutboxLost(u)
    <2>1. Walks(u)
      BY <1>6, RetryEffect DEF SanitizeOutboxLost, At, OutboxPhases
    <2> QED
      BY <1>6, <2>1, WalkOnlySafe DEF SanitizeOutboxLost, vars, storeVars
  <1>7. CASE SanitizeReceipt(u) \/ SanitizeOutboxEmpty(u) \/ SanitizeOutbox(u)
    BY <1>7, SanitizeSafe, OutboxEmptySafe, SanitizeOutboxSafe
  <1> QED
    BY <1>1, <1>2, <1>3, <1>4, <1>5, <1>6, <1>7 DEF EraseStep

-----------------------------------------------------------------------------
\* The invariant of the survivors holds at the start ...
LEMMA SafeInit ==
    ASSUME ErasureInit
    PROVE  SafeInv
  <1>1. clock <= MaxClock
    BY TimeAssumption DEF ErasureInit, Init
  <1> QED
    BY <1>1 DEF ErasureInit, Init, SafeInv, RequestSafe, Holds, NoRequest, ReceiptSafe, Kept, Wanted,
                ConfirmSafe, NoConfirmation, WorkerSafe, AtPhase, At, OutboxPhases

\* ... and after every step, before anything can expire.
LEMMA SafeNext ==
    ASSUME MaxClock < TTL, TypeInv, SafeInv, [ErasureNext]_erasureVars
    PROVE  SafeInv'
  <1>1. TypeInv'
    BY ErasureNextTyped
  <1>2. CASE Next /\ UNCHANGED erase
    <2>1. ASSUME NEW q \in Requests, RequestStep(q) PROVE SafeInv'
      BY <1>1, <1>2, <2>1, RequestStepSafe
    <2>2. ASSUME NEW d \in Confirmers,
                 (\E m \in published : ConfirmStart(d, m)) \/ ConfirmStep(d)
          PROVE  SafeInv'
      BY <1>1, <1>2, <2>2, ConfirmStepSafe
    <2>3. CASE TimeStep \/ \E o \in outbox : OutboxPublish(o)
      BY <1>1, <1>2, <2>3, TimeStepSafe
    <2> QED
      BY <1>2, <2>1, <2>2, <2>3 DEF Next
  <1>3. ASSUME NEW u \in Wiped, EraseStep(u) PROVE SafeInv'
    BY <1>1, <1>3, EraseStepSafe
  <1>4. CASE UNCHANGED erasureVars
    <2>1. UNCHANGED <<clock, receipt, rows, outbox, outboxIndex, req, conf, erase>>
      BY <1>4 DEF erasureVars, vars, storeVars
    <2>2. StoreKept
      BY <2>1, StoreSame, StartedSame
    <2> QED
      BY <1>1, <2>1, <2>2, RequestKept, ReceiptUnchanged, OutboxKept, ConfirmKept, WorkerKept
      DEF SafeInv
  <1> QED
    BY <1>2, <1>3, <1>4 DEF ErasureNext

\* An acknowledged request holds a receipt that is stored.
LEMMA SafeKeeps ==
    ASSUME TypeInv, SafeInv
    PROVE  OthersKeepMessage
  <1> SUFFICES ASSUME NEW q \in Requests, req[q].pc = "acked", StillWanted(req[q].key, req[q].env)
               PROVE  LET k == req[q].key
                          c == req[q].rec.created
                      IN  /\ ReceiptIs(k, c, req[q].env)
                          /\ [key |-> k, created |-> c, env |-> req[q].env] \in rows
                          /\ receipt[k].state = "stored" =>
                               \E o \in outbox :
                                   /\ SameRow(o, k, c)
                                   /\ {u \in req[q].env.to : ~Started(u)} \subseteq o.to
    BY DEF OthersKeepMessage
  <1> DEFINE k == req[q].key
             e == req[q].env
  <1>1. k \in Keys /\ e \in Envelopes /\ e # None /\ Holds(q)
    BY Types, KeysAssumption DEF HandlerOK, Holds
  <1>2. Alive(k) /\ e.kind = "group" /\ Survivors(e) # {}
    BY DEF StillWanted, Alive, Survivors
  <1>3. /\ receipt[k] # None /\ receipt[k].created = req[q].rec.created /\ receipt[k].env = e
        /\ receipt[k].state \in {"stored", "delivered"}
    BY <1>1, <1>2 DEF SafeInv, RequestSafe
  <1>4. Wanted(k)
    BY <1>1, <1>2, <1>3 DEF Wanted, Kept
  <1>5. RowOf(k) \in rows /\ (receipt[k].state = "stored" => Named(k))
    BY <1>1, <1>3, <1>4 DEF SafeInv, ReceiptSafe
  <1>6. ASSUME NEW o \in outbox, o.key = k
        PROVE  SameRow(o, k, req[q].rec.created) /\ Survivors(e) \subseteq o.to
    BY <1>1, <1>2, <1>3, <1>6 DEF SafeInv, OutboxSafe, SameRow
  <1>7. receipt[k].state = "stored" =>
           \E o \in outbox : SameRow(o, k, req[q].rec.created) /\ Survivors(e) \subseteq o.to
    BY <1>5, <1>6 DEF Named
  <1> QED
    BY <1>3, <1>5, <1>7 DEF ReceiptIs, RowOf, Survivors

\* What TombstoneOnlyWhenAllWiped asks of a step.
TombstoneStep ==
    \A k \in Keys :
        /\ SameIncarnation(k)
        /\ ~Started(SenderOf[k])
        /\ receipt[k].state # "recipient_erased"
        /\ receipt'[k].state = "recipient_erased"
        => \A u \in receipt[k].to : Started(u)

\* Only SanitizeReceipt makes a tombstone.
LEMMA TombstoneSteps ==
    ASSUME TypeInv, SafeInv, [ErasureNext]_erasureVars
    PROVE  TombstoneStep
  <1> SUFFICES ASSUME NEW k \in Keys, SameIncarnation(k), Alive(k),
                      receipt[k].state # "recipient_erased",
                      receipt'[k].state = "recipient_erased"
               PROVE  \A u \in receipt[k].to : Started(u)
    BY DEF TombstoneStep, Alive
  <1>1. receipt' # receipt /\ receipt[k] # None /\ receipt'[k] # None
    BY DEF SameIncarnation
  <1>2. ASSUME NEW j \in Keys, NEW n, ReceiptBecomes(j, n),
               n # None => n.state # "recipient_erased"
        PROVE  FALSE
    BY <1>1, <1>2 DEF ReceiptBecomes
  <1>3. ASSUME NEW q \in Requests, ClaimInsert(q) PROVE FALSE
    BY <1>2, <1>3, InsertEffect
  <1>4. ASSUME NEW q \in Requests, Takeover(q) PROVE FALSE
    <2>1. PICK n \in Receipt : n.state = "pending" /\ ReceiptBecomes(req[q].key, n)
      BY <1>4, TakeoverEffect
    <2> QED
      BY <1>2, <1>4, <2>1, TakeoverEffect
  <1>5. ASSUME NEW q \in Requests, MarkStoredCAS(q) PROVE FALSE
    <2>1. PICK n \in Receipt : n.state = "stored" /\ ReceiptBecomes(req[q].key, n)
      BY <1>5, StoredEffect
    <2> QED
      BY <1>2, <1>5, <2>1, StoredEffect
  <1>6. ASSUME NEW d \in Confirmers, ConfirmCAS(d) PROVE FALSE
    <2>1. PICK n \in Receipt : n.state = "delivered" /\ ReceiptBecomes(conf[d].key, n)
      BY <1>6, ConfirmCASEffect
    <2> QED
      BY <1>2, <1>6, <2>1, ConfirmCASEffect
  <1>7. ASSUME NEW j \in Keys, EvictReceipt(j) PROVE FALSE
    <2>1. ReceiptBecomes(j, None)
      BY <1>7, Types DEF EvictReceipt, ReceiptBecomes
    <2> QED
      BY <1>2, <2>1
  <1>8. ASSUME NEW u \in Wiped, NEW e \in erase[u].todo, EraseSenderReceipt(u, e) PROVE FALSE
    <2>1. e.key \in Keys
      BY <1>8 DEF EraseSenderReceipt, At, TypeInv, WorkerOK, ReceiptIndexEntry
    <2>2. ReceiptBecomes(e.key, None)
      BY <1>8, <2>1, Types DEF EraseSenderReceipt, ReceiptBecomes
    <2> QED
      BY <1>2, <2>1, <2>2
  <1>9. ASSUME NEW u \in Wiped, SanitizeReceipt(u) PROVE \A v \in receipt[k].to : Started(v)
    <2>1. PICK j \in Keys, n \in Receipt : j = erase[u].at.key /\ ReceiptBecomes(j, n)
      BY <1>9, SanitizeEffect
    <2>2. k = erase[u].at.key
      BY <1>1, <2>1 DEF ReceiptBecomes
    <2>3. /\ receipt'[k].env # None => receipt'[k].state = receipt[k].state
          /\ receipt'[k].env = None /\ receipt[k].env # None => Survivors(receipt[k].env) = {}
      BY <1>9, <2>2, SanitizeAdvances
    <2>4. receipt[k].env \in Envelopes /\ receipt[k].to \subseteq receipt[k].env.to
      BY <1>1 DEF TypeInv, ReceiptOK
    <2>5. Survivors(receipt[k].env) = {}
      BY <2>3, <2>4, KeysAssumption
    <2> QED
      BY <2>4, <2>5 DEF Survivors
  <1> QED
    BY <1>1, <1>3, <1>4, <1>5, <1>6, <1>7, <1>8, <1>9, ReceiptChanges

\* While no message is old enough to expire, the wipe of any members of a group,
\* interleaved with requests, retries, takeovers and delivery receipts, leaves an
\* acknowledged message to the members who are not wiped: receipt, row and, until
\* it is delivered, an outbox row that names them all.
THEOREM OthersKeepTheirMessages == MaxClock < TTL => (ErasureSpec => []OthersKeepMessage)
  <1> SUFFICES ASSUME MaxClock < TTL PROVE ErasureSpec => []OthersKeepMessage
    OBVIOUS
  <1>1. ErasureInit => TypeInv /\ SafeInv
    BY ErasureInitTyped, SafeInit
  <1>2. (TypeInv /\ SafeInv) /\ [ErasureNext]_erasureVars => (TypeInv /\ SafeInv)'
    BY ErasureNextTyped, SafeNext
  <1>3. TypeInv /\ SafeInv => OthersKeepMessage
    BY SafeKeeps
  <1> QED
    BY <1>1, <1>2, <1>3, PTL DEF ErasureSpec

\* While no message is old enough to expire, terminalizeIngestReceipt, which asks
\* only that a receipt exists, terminalizes one of a live sender only when
\* everybody on its list is being wiped.
THEOREM TombstonesAreDeserved == MaxClock < TTL => (ErasureSpec => TombstoneOnlyWhenAllWiped)
  <1> SUFFICES ASSUME MaxClock < TTL PROVE ErasureSpec => TombstoneOnlyWhenAllWiped
    OBVIOUS
  <1>1. ErasureInit => TypeInv /\ SafeInv
    BY ErasureInitTyped, SafeInit
  <1>2. (TypeInv /\ SafeInv) /\ [ErasureNext]_erasureVars => (TypeInv /\ SafeInv)'
    BY ErasureNextTyped, SafeNext
  <1>3. (TypeInv /\ SafeInv) /\ [ErasureNext]_erasureVars => [TombstoneStep]_erasureVars
    BY TombstoneSteps
  <1> QED
    BY <1>1, <1>2, <1>3, PTL DEF ErasureSpec, TombstoneOnlyWhenAllWiped, TombstoneStep

-----------------------------------------------------------------------------
(***************************************************************************)
(* The claim on a client_id of a live sender, with takeovers and expiry    *)
(***************************************************************************)

\* A request works on the receipt in the store, has committed it when it
\* replies, and is its owner while its lease has not lapsed; a takeover
\* replaces a lease that had.
RequestClaim(q) ==
    LET k == req[q].key
        rec == req[q].rec
    IN
    /\ req[q].now <= clock
    /\ req[q].pc = "takeover" => rec.lease <= req[q].now
    /\ Holds(q) /\ Alive(k) /\ Unexpired(rec.created) =>
          /\ receipt[k] # None
          /\ receipt[k].created = rec.created
          /\ req[q].pc \in {"publish", "reply", "acked"} => receipt[k].state # "pending"
    /\ LeaseLive(q) /\ Alive(k) => receipt[k].owner = q /\ receipt[k].lease = rec.lease

\* An unexpired row of a live sender is the row of the receipt.
RowClaim(x) ==
    Alive(x.key) /\ Unexpired(x.created) =>
        receipt[x.key] # None /\ receipt[x.key].created = x.created
RowsDistinct == \A x, y \in rows : SameRow(x, y.key, y.created) => x = y

ClaimInv ==
    /\ \A q \in Requests : RequestClaim(q)
    /\ \A x \in rows : RowClaim(x)
    /\ RowsDistinct

\* A step leaves the claim on k: the receipt stays until it expires, its state
\* does not go back, and a lease that has not lapsed stays with its owner.
ClaimKept(k) ==
    Alive(k) /\ receipt[k] # None /\ Unexpired(receipt[k].created) =>
        /\ receipt'[k] # None
        /\ receipt'[k].created = receipt[k].created
        /\ receipt[k].state # "pending" => receipt'[k].state # "pending"
        /\ receipt[k].lease > clock =>
              receipt'[k].owner = receipt[k].owner /\ receipt'[k].lease = receipt[k].lease

\* Every action that changes a receipt leaves the claims: ClaimInsert finds
\* none, a takeover a lease that has lapsed, and a wipe deletes only those of
\* its own account.
LEMMA ClaimsKept ==
    ASSUME TypeInv, ClaimInv, [ErasureNext]_erasureVars
    PROVE  \A k \in Keys : ClaimKept(k)
  <1>1. ASSUME NEW k \in Keys, NEW r \in Receipt \union {None}, ReceiptBecomes(k, r),
               Alive(k) /\ receipt[k] # None /\ Unexpired(receipt[k].created) =>
                  /\ r # None /\ r.created = receipt[k].created
                  /\ receipt[k].state # "pending" => r.state # "pending"
                  /\ receipt[k].lease > clock => r.owner = receipt[k].owner /\ r.lease = receipt[k].lease
        PROVE  \A j \in Keys : ClaimKept(j)
    BY <1>1 DEF ClaimKept, ReceiptBecomes
  <1>2. CASE receipt' = receipt
    BY <1>2 DEF ClaimKept
  <1>3. ASSUME NEW q \in Requests, ClaimInsert(q) PROVE \A k \in Keys : ClaimKept(k)
    BY <1>1, <1>3, InsertEffect
  <1>4. ASSUME NEW q \in Requests, Takeover(q) PROVE \A k \in Keys : ClaimKept(k)
    <2>1. PICK n \in Receipt :
             /\ n.created = receipt[req[q].key].created /\ n.state = "pending"
             /\ ReceiptBecomes(req[q].key, n)
      BY <1>4, TakeoverEffect
    <2>2. /\ req[q].key \in Keys /\ receipt[req[q].key] # None
          /\ receipt[req[q].key].state = "pending"
          /\ receipt[req[q].key].lease = req[q].rec.lease /\ receipt[req[q].key] \in Receipt
      BY <1>4, TakeoverEffect, Types
    <2>3. req[q].rec.lease <= req[q].now /\ req[q].now <= clock
      BY <1>4 DEF Takeover, ClaimInv, RequestClaim
    <2>4. ~ (receipt[req[q].key].lease > clock)
      <3>1. req[q].now \in Nat /\ clock \in Nat /\ receipt[req[q].key].lease \in Nat
        BY <2>2, Types DEF Request, Receipt
      <3> QED
        BY <2>2, <2>3, <3>1
    <2>5. n # None
      BY NoneAssumption
    <2> QED
      BY <1>1, <2>1, <2>2, <2>4, <2>5
  <1>5. ASSUME NEW q \in Requests, MarkStoredCAS(q) PROVE \A k \in Keys : ClaimKept(k)
    <2>1. PICK n \in Receipt :
             /\ n.created = receipt[req[q].key].created /\ n.state = "stored"
             /\ n.owner = receipt[req[q].key].owner /\ n.lease = receipt[req[q].key].lease
             /\ ReceiptBecomes(req[q].key, n)
      BY <1>5, StoredEffect
    <2>2. req[q].key \in Keys /\ n # None
      BY <1>5, StoredEffect, NoneAssumption
    <2> QED
      BY <1>1, <2>1, <2>2
  <1>6. ASSUME NEW d \in Confirmers, ConfirmCAS(d) PROVE \A k \in Keys : ClaimKept(k)
    <2>1. PICK n \in Receipt :
             /\ n.created = receipt[conf[d].key].created /\ n.state = "delivered"
             /\ n.owner = receipt[conf[d].key].owner /\ n.lease = receipt[conf[d].key].lease
             /\ ReceiptBecomes(conf[d].key, n)
      BY <1>6, ConfirmCASEffect
    <2>2. conf[d].key \in Keys /\ n # None
      BY <1>6, ConfirmCASEffect, NoneAssumption
    <2> QED
      BY <1>1, <2>1, <2>2
  <1>7. ASSUME NEW k \in Keys, EvictReceipt(k) PROVE \A j \in Keys : ClaimKept(j)
    <2>1. ReceiptBecomes(k, None) /\ ~ Unexpired(receipt[k].created)
      BY <1>7, Types DEF EvictReceipt, ReceiptBecomes
    <2> QED
      BY <1>1, <2>1
  <1>8. ASSUME NEW u \in Wiped, NEW e \in erase[u].todo, EraseSenderReceipt(u, e)
        PROVE  \A k \in Keys : ClaimKept(k)
    <2>1. /\ e.key \in Keys /\ erase[u].phase = "receipts" /\ SenderOf[e.key] = u
      BY <1>8 DEF EraseSenderReceipt, At, TypeInv, WorkerOK, ReceiptIndexEntry
    <2>2. ReceiptBecomes(e.key, None)
      BY <1>8, <2>1, Types DEF EraseSenderReceipt, ReceiptBecomes
    <2>3. ~ Alive(e.key)
      BY <2>1 DEF Alive, Started
    <2> QED
      BY <1>1, <2>1, <2>2, <2>3
  <1>9. ASSUME NEW u \in Wiped, SanitizeReceipt(u) PROVE \A k \in Keys : ClaimKept(k)
    <2> DEFINE k == erase[u].at.key
               r == receipt[k]
               left == erase[u].read \ {u}
    <2>1. PICK n \in Receipt : /\ ReceiptBecomes(k, n) /\ n.created = r.created
                               /\ n.owner = r.owner /\ n.lease = r.lease
                               /\ left = {} => n = Tombstone(r)
                               /\ left # {} => n.state = r.state
      BY <1>9, SanitizeEffect
    <2>2. k \in Keys /\ r \in Receipt /\ n # None
      BY <1>9, SanitizeEffect, NoneAssumption
    <2>3. r.state # "pending" => n.state # "pending"
      BY <2>1, <2>2, TombstoneOf
    <2> QED
      BY <1>1, <2>1, <2>2, <2>3
  <1> QED
    BY <1>2, <1>3, <1>4, <1>5, <1>6, <1>7, <1>8, <1>9, ReceiptChanges

\* No step of a worker takes a wipe back.
LEMMA EraseStepGoesOn ==
    ASSUME TypeInv, NEW u \in Wiped, EraseStep(u)
    PROVE  \A v \in Uins : Started(v) => Started(v)'
  <1>1. CASE Walks(u)
    BY <1>1, WipesGoOn DEF Walks
  <1>2. CASE EraseScan(u)
    BY <1>2, ScanEffect, WipesGoOn
  <1>3. ASSUME NEW e \in erase[u].todo, EraseReadReceipt(u, e) \/ EraseReadOutbox(u, e), ~ Walks(u)
        PROVE  \A v \in Uins : Started(v) => Started(v)'
    BY <1>3, ReadReceiptEffect, ReadOutboxEffect, WipesGoOn DEF OutboxPhases
  <1>4. ASSUME \/ EraseStart(u) \/ EraseFail(u) \/ EraseDropIndex(u)
               \/ \E e \in erase[u].todo : \/ EraseRow(u, e) \/ EraseSenderReceipt(u, e)
                                           \/ EraseOutbox(u, e)
               \/ EraseMirror(u) \/ SanitizeReceipt(u) \/ SanitizeReceiptLost(u)
               \/ SanitizeOutboxEmpty(u) \/ SanitizeOutbox(u) \/ SanitizeOutboxLost(u)
        PROVE  Walks(u)
    <2>1. CASE EraseStart(u) \/ EraseFail(u) \/ EraseDropIndex(u)
      BY <2>1, PhaseEffect
    <2>2. ASSUME NEW e \in erase[u].todo, EraseRow(u, e) PROVE Walks(u)
      BY <2>2, RowEffect
    <2>3. ASSUME NEW e \in erase[u].todo, EraseSenderReceipt(u, e) \/ EraseOutbox(u, e) PROVE Walks(u)
      BY <2>3, DoneEffect DEF EraseSenderReceipt, EraseOutbox, At, OutboxPhases
    <2>4. CASE EraseMirror(u) \/ SanitizeOutboxEmpty(u) \/ SanitizeOutbox(u)
      BY <2>4, DoneEffect DEF EraseMirror, SanitizeOutboxEmpty, SanitizeOutbox, At, OutboxPhases
    <2>5. CASE SanitizeReceipt(u)
      BY <2>5, SanitizeEffect
    <2>6. CASE SanitizeReceiptLost(u) \/ SanitizeOutboxLost(u)
      BY <2>6, DoneEffect, RetryEffect DEF SanitizeReceiptLost, SanitizeOutboxLost, At, OutboxPhases
    <2> QED
      BY <1>4, <2>1, <2>2, <2>3, <2>4, <2>5, <2>6
  <1> QED
    BY <1>1, <1>2, <1>3, <1>4 DEF EraseStep

\* Time does not run backwards, and a wipe that has begun goes on.
LEMMA OnlyForward ==
    ASSUME TypeInv, TypeInv', [ErasureNext]_erasureVars
    PROVE  /\ clock \in Nat /\ clock' \in Nat /\ clock <= clock'
           /\ \A k \in Keys : Alive(k)' => Alive(k)
           /\ \A c \in Nat : Unexpired(c)' => Unexpired(c)
  <1>1. clock \in Nat /\ clock' \in Nat
    BY Types DEF TypeInv, ErasureTypeOK, TypeOK
  <1>2. clock' = clock \/ clock' = clock + 1
    <2>1. CASE Next
      BY <2>1 DEF Next, RequestStep, Claim, Persist, Receive, ClaimInsert, ClaimExists, IndexWrite,
         ClaimCommitted, ClaimStale, ClaimRefused, Takeover, TakeoverLost, WriteBatch, WriteExpired,
         MarkStoredLoad, MarkStoredCAS, MarkStoredLost, Publish, PublishError, Reply, Fail,
         OutboxPublish, ConfirmStart, ConfirmStep, ConfirmLoad, ConfirmCAS, ConfirmDelete,
         ConfirmFail, TimeStep, Tick, EvictReceipt, EvictRow, EvictOutbox
    <2>2. ASSUME NEW u \in Wiped, EraseStep(u) PROVE clock' = clock
      BY <2>2 DEF EraseStep, EraseStart, EraseScan, EraseDropIndex, EraseFail, EraseRow,
         EraseMirror, EraseSenderReceipt, EraseReadReceipt, SanitizeReceipt, SanitizeReceiptLost,
         EraseOutbox, EraseReadOutbox, SanitizeOutboxEmpty, SanitizeOutbox, SanitizeOutboxLost, vars
    <2>3. CASE UNCHANGED erasureVars
      BY <2>3 DEF erasureVars, vars
    <2> QED
      BY <2>1, <2>2, <2>3 DEF ErasureNext
  <1>3. ASSUME NEW v \in Uins, Started(v) PROVE Started(v)'
    <2>1. CASE UNCHANGED erase
      BY <1>3, <2>1, StartedSame
    <2>2. ASSUME NEW u \in Wiped, EraseStep(u) PROVE Started(v)'
      BY <1>3, <2>2, EraseStepGoesOn
    <2> QED
      BY <2>1, <2>2 DEF ErasureNext, erasureVars
  <1>4. \A k \in Keys : SenderOf[k] \in Uins
    BY KeysAssumption
  <1>5. clock <= clock'
    BY <1>1, <1>2
  <1>6. \A c \in Nat : Unexpired(c)' => Unexpired(c)
    BY <1>1, <1>5, TimeAssumption DEF Unexpired, ExpiresAt
  <1> QED
    BY <1>1, <1>3, <1>4, <1>5, <1>6 DEF Alive

\* What another request has claimed, a step leaves to it.
LEMMA OtherClaimKept ==
    ASSUME TypeInv, TypeInv', ClaimInv, [ErasureNext]_erasureVars, NEW q \in Requests,
           req'[q] = req[q]
    PROVE  RequestClaim(q)'
  <1> DEFINE k == req[q].key
             rec == req[q].rec
  <1>1. clock \in Nat /\ clock' \in Nat /\ clock <= clock' /\ req[q].now \in Nat
    BY OnlyForward, Types DEF Request
  <1>2. Holds(q)' = Holds(q) /\ Working(q)' = Working(q) /\ (Working(q) => Holds(q))
    BY DEF Holds, Working
  <1>3. RequestClaim(q)
    BY DEF ClaimInv
  <1>4. Holds(q) => k \in Keys /\ rec \in Receipt /\ rec.created \in Nat /\ rec.lease \in Nat
    BY Types DEF HandlerOK, Holds, Receipt
  <1>5. req'[q].now <= clock' /\ (req'[q].pc = "takeover" => req'[q].rec.lease <= req'[q].now)
    BY <1>1, <1>3 DEF RequestClaim
  <1>6. ASSUME Holds(q), Alive(k)', Unexpired(rec.created)'
        PROVE  /\ Alive(k) /\ Unexpired(rec.created) /\ ClaimKept(k)
               /\ receipt[k] # None /\ receipt[k].created = rec.created
    BY <1>3, <1>4, <1>6, OnlyForward, ClaimsKept DEF RequestClaim
  <1>7. ASSUME Holds(q)', Alive(req[q].key)', Unexpired(req[q].rec.created)'
        PROVE  /\ receipt'[k] # None /\ receipt'[k].created = rec.created
               /\ req[q].pc \in {"publish", "reply", "acked"} => receipt'[k].state # "pending"
    BY <1>2, <1>3, <1>6, <1>7 DEF RequestClaim, ClaimKept
  <1>8. ASSUME LeaseLive(q)', Alive(req[q].key)'
        PROVE  receipt'[k].owner = q /\ receipt'[k].lease = rec.lease
    <2>1. Working(q) /\ Holds(q) /\ Unexpired(rec.created)' /\ rec.lease > clock'
      BY <1>2, <1>8 DEF LeaseLive, Unexpired
    <2>2. Alive(k) /\ Unexpired(rec.created) /\ ClaimKept(k)
          /\ receipt[k] # None /\ receipt[k].created = rec.created
      BY <1>6, <1>8, <2>1
    <2>3. rec.lease > clock
      BY <1>1, <1>4, <2>1
    <2>4. receipt[k].owner = q /\ receipt[k].lease = rec.lease
      BY <1>3, <2>1, <2>2, <2>3 DEF RequestClaim, LeaseLive
    <2> QED
      BY <2>2, <2>3, <2>4 DEF ClaimKept
  <1> QED
    BY <1>5, <1>7, <1>8 DEF RequestClaim

\* The rows that stay are still the ones of their receipts.
LEMMA RowsKept ==
    ASSUME TypeInv, TypeInv', ClaimInv, [ErasureNext]_erasureVars
    PROVE  \A x \in rows : RowClaim(x)'
  <1> SUFFICES ASSUME NEW x \in rows, Alive(x.key)', Unexpired(x.created)'
               PROVE  receipt'[x.key] # None /\ receipt'[x.key].created = x.created
    BY DEF RowClaim
  <1>1. x.key \in Keys /\ x.created \in Nat
    BY Types DEF Row
  <1>2. Alive(x.key) /\ Unexpired(x.created) /\ ClaimKept(x.key) /\ RowClaim(x)
    BY <1>1, OnlyForward, ClaimsKept DEF ClaimInv
  <1> QED
    BY <1>2 DEF RowClaim, ClaimKept

\* A step of one request that writes no row.
LEMMA RequestClaimStep ==
    ASSUME TypeInv, TypeInv', ClaimInv, [ErasureNext]_erasureVars, NEW q \in Requests,
           \A p \in Requests : p # q => req'[p] = req[p],
           RequestClaim(q)', rows' \subseteq rows
    PROVE  ClaimInv'
  <1>1. \A p \in Requests : RequestClaim(p)'
    BY OtherClaimKept
  <1>2. \A x \in rows' : RowClaim(x)'
    BY RowsKept
  <1>3. RowsDistinct'
    BY DEF ClaimInv, RowsDistinct, SameRow
  <1> QED
    BY <1>1, <1>2, <1>3 DEF ClaimInv

\* A request that holds no receipt claims nothing.
LEMMA HoldsNothing ==
    ASSUME NEW q \in Requests, req'[q].pc \in {"failed", "claim", "load"}, req'[q].now <= clock'
    PROVE  RequestClaim(q)'
  BY DEF RequestClaim, Holds, LeaseLive, Working

\* A request that goes on with the receipt it holds.
LEMMA HoldsOn ==
    ASSUME TypeInv, TypeInv', ClaimInv, [ErasureNext]_erasureVars, NEW q \in Requests,
           NEW pc \in {"index", "write", "mark", "cas", "publish", "reply", "acked"},
           Becomes(q, pc, req[q].key, req[q].env, req[q].rec), req'[q].now = req[q].now,
           Holds(q), pc \in {"index", "write", "mark", "cas"} => Working(q),
           \/ pc \notin {"publish", "reply", "acked"}
           \/ req[q].pc \in {"publish", "reply", "acked"}
           \/ receipt'[req[q].key].state # "pending"
    PROVE  RequestClaim(q)'
  <1> DEFINE k == req[q].key
             rec == req[q].rec
  <1>1. /\ req'[q].pc = pc /\ req'[q].key = k /\ req'[q].rec = rec
        /\ clock \in Nat /\ clock' \in Nat /\ clock <= clock' /\ req[q].now \in Nat
        /\ k \in Keys /\ rec.created \in Nat /\ rec.lease \in Nat
    BY OnlyForward, Types DEF Becomes, Request, HandlerOK, Holds, Receipt
  <1>2. RequestClaim(q)
    BY DEF ClaimInv
  <1>3. req'[q].now <= clock' /\ req'[q].pc # "takeover"
    BY <1>1, <1>2 DEF RequestClaim
  <1>4. ASSUME Alive(k)', Unexpired(rec.created)'
        PROVE  /\ Alive(k) /\ Unexpired(rec.created) /\ ClaimKept(k)
               /\ receipt[k] # None /\ receipt[k].created = rec.created
    BY <1>1, <1>2, <1>4, OnlyForward, ClaimsKept DEF RequestClaim
  <1>5. ASSUME Alive(req[q].key)', Unexpired(req[q].rec.created)'
        PROVE  /\ receipt'[k] # None /\ receipt'[k].created = rec.created
               /\ pc \in {"publish", "reply", "acked"} => receipt'[k].state # "pending"
    BY <1>2, <1>4, <1>5 DEF RequestClaim, ClaimKept
  <1>6. ASSUME LeaseLive(q)', Alive(req[q].key)'
        PROVE  receipt'[k].owner = q /\ receipt'[k].lease = rec.lease
    <2>1. Working(q) /\ Unexpired(rec.created)' /\ rec.lease > clock'
      BY <1>1, <1>6 DEF LeaseLive, Working, Unexpired
    <2>2. Alive(k) /\ Unexpired(rec.created) /\ ClaimKept(k)
          /\ receipt[k] # None /\ receipt[k].created = rec.created
      BY <1>4, <1>6, <2>1
    <2>3. rec.lease > clock
      BY <1>1, <2>1
    <2>4. receipt[k].owner = q /\ receipt[k].lease = rec.lease
      BY <1>2, <2>1, <2>2, <2>3 DEF RequestClaim, LeaseLive
    <2> QED
      BY <2>2, <2>3, <2>4 DEF ClaimKept
  <1> QED
    BY <1>1, <1>3, <1>5, <1>6 DEF RequestClaim

\* ClaimCommitted and ClaimStale: the receipt that was loaded is the one in the
\* store, committed, or with a lease that had lapsed.
LEMMA LoadClaim ==
    ASSUME TypeInv, TypeInv', ClaimInv, [ErasureNext]_erasureVars, NEW q \in Requests,
           ClaimCommitted(q) \/ ClaimStale(q)
    PROVE  RequestClaim(q)'
  <1>1. PICK k \in Keys, pc \in {"publish", "reply", "takeover"} :
           /\ k = req[q].key
           /\ receipt[k] \in Receipt /\ receipt[k] # None
           /\ Becomes(q, pc, k, req[q].env, receipt[k])
           /\ pc # "takeover" => receipt[k].state \in {"stored", "delivered"}
    BY LoadEffect
  <1>2. /\ req'[q].pc = pc /\ req'[q].key = k /\ req'[q].rec = receipt[k]
        /\ UNCHANGED <<clock, receipt>> /\ req'[q].now = req[q].now
    BY <1>1, Types DEF Becomes, ClaimCommitted, ClaimStale, storeVars, Request
  <1>3. req[q].now <= clock
    BY DEF ClaimInv, RequestClaim
  <1>4. pc = "takeover" => receipt[k].lease <= req[q].now
    <2>1. CASE ClaimStale(q)
      BY <1>1, <2>1 DEF ClaimStale, TakeoverAllowed
    <2>2. CASE ClaimCommitted(q)
      <3>1. req'[q].pc \in {"publish", "reply"}
        BY <2>2, Types DEF ClaimCommitted, Request
      <3> QED
        BY <1>2, <3>1
    <2> QED
      BY <2>1, <2>2
  <1> QED
    BY <1>1, <1>2, <1>3, <1>4 DEF RequestClaim, LeaseLive, Working

\* ClaimInsert: the new receipt is the request's own.
LEMMA InsertClaim ==
    ASSUME TypeInv, TypeInv', ClaimInv, [ErasureNext]_erasureVars, NEW q \in Requests,
           ClaimInsert(q)
    PROVE  RequestClaim(q)'
  <1>1. PICK k \in Keys, n \in Receipt :
           /\ k = req[q].key /\ n = NewReceipt(q) /\ n # None
           /\ Becomes(q, "index", k, req[q].env, n) /\ ReceiptBecomes(k, n)
    BY InsertEffect
  <1>2. n.owner = q /\ req'[q].now = req[q].now /\ UNCHANGED clock
    BY <1>1, Types DEF NewReceipt, ClaimInsert, Request
  <1>3. req[q].now <= clock
    BY DEF ClaimInv, RequestClaim
  <1> QED
    BY <1>1, <1>2, <1>3 DEF RequestClaim, Becomes, ReceiptBecomes

\* Takeover: the receipt, if it lives, is the one the request loaded, and is
\* now its own.
LEMMA TakeoverClaim ==
    ASSUME TypeInv, TypeInv', ClaimInv, [ErasureNext]_erasureVars, NEW q \in Requests,
           Takeover(q)
    PROVE  RequestClaim(q)'
  <1>1. PICK k \in Keys, m \in Receipt, n \in Receipt :
           /\ k = req[q].key /\ Holds(q) /\ receipt[k] # None
           /\ m.created = req[q].rec.created /\ m.lease = LeaseUntil(req[q].now)
           /\ n.created = receipt[k].created /\ n.lease = LeaseUntil(req[q].now) /\ n.owner = q
           /\ Becomes(q, "write", k, req[q].env, m) /\ ReceiptBecomes(k, n)
    BY TakeoverEffect
  <1>2. req'[q].now = req[q].now /\ UNCHANGED clock /\ n # None
    BY Types, NoneAssumption DEF Takeover, Request
  <1>3. RequestClaim(q)
    BY DEF ClaimInv
  <1>4. /\ req'[q].pc = "write" /\ req'[q].key = k /\ req'[q].rec = m
        /\ receipt'[k] = n
    BY <1>1 DEF Becomes, ReceiptBecomes
  <1>5. ASSUME Alive(req[q].key)', Unexpired(req[q].rec.created)'
        PROVE  n.created = m.created
    <2>1. Alive(k)' /\ Unexpired(m.created)'
      BY <1>4, <1>5
    <2>2. Alive(k) /\ Unexpired(m.created)
      BY <2>1, OnlyForward DEF Receipt
    <2> QED
      BY <1>1, <1>3, <2>2 DEF RequestClaim
  <1> QED
    BY <1>1, <1>2, <1>3, <1>4, <1>5 DEF RequestClaim, LeaseLive

\* WriteDirect, WriteGroup: the row is that of the receipt the request holds,
\* and takes the place of the same row.
LEMMA BatchClaim ==
    ASSUME TypeInv, TypeInv', ClaimInv, [ErasureNext]_erasureVars, NEW q \in Requests,
           WriteBatch(q)
    PROVE  ClaimInv'
  <1>1. PICK k \in Keys, c \in Nat, e \in Envelopes :
           k = req[q].key /\ c = req[q].rec.created /\ e = req[q].env
    BY BatchEffect
  <1> DEFINE row == [key |-> k, created |-> c, env |-> e]
  <1>2. /\ rows' = {x \in rows : ~SameRow(x, k, c)} \union {row}
        /\ Becomes(q, "mark", k, e, req[q].rec) /\ Holds(q)
    BY <1>1, BatchEffect
  <1>3. req'[q].now = req[q].now /\ Working(q)
    BY Types DEF WriteBatch, Goto, Request, Working
  <1>4. RequestClaim(q)'
    BY <1>1, <1>2, <1>3, HoldsOn
  <1>5. \A p \in Requests : RequestClaim(p)'
    BY <1>2, <1>4, OtherClaimKept DEF Becomes
  <1>6. row.key = k /\ row.created = c
    OBVIOUS
  <1> HIDE DEF row
  <1>7. RowClaim(row)'
    <2>1. req'[q].pc = "mark" /\ req'[q].key = k /\ req'[q].rec.created = c
      BY <1>1, <1>2 DEF Becomes
    <2> QED
      BY <1>4, <1>6, <2>1 DEF RequestClaim, RowClaim, Holds
  <1>8. \A x \in rows' : RowClaim(x)'
    BY <1>2, <1>7, RowsKept
  <1>9. RowsDistinct'
    BY <1>2, <1>6 DEF ClaimInv, RowsDistinct, SameRow
  <1> QED
    BY <1>5, <1>8, <1>9 DEF ClaimInv

\* Every step of a request leaves the claims in order.
LEMMA RequestStepClaim ==
    ASSUME TypeInv, TypeInv', ClaimInv, [ErasureNext]_erasureVars, NEW q \in Requests,
           RequestStep(q)
    PROVE  ClaimInv'
  <1>1. ASSUME NEW k, NEW e, NEW pc, NEW rec, Becomes(q, pc, k, e, rec), RequestClaim(q)',
               rows' \subseteq rows
        PROVE  ClaimInv'
    BY <1>1, RequestClaimStep DEF Becomes
  <1>2. req[q].now \in Nat /\ req[q].now <= clock /\ clock \in Nat /\ 0 <= clock
    BY Types DEF ClaimInv, RequestClaim, Request
  <1>3. ASSUME NEW k \in Keys, NEW e \in Envelopes, Receive(q, k, e) PROVE ClaimInv'
    <2>1. req'[q].now = clock /\ UNCHANGED <<clock, rows>> /\ Becomes(q, "claim", k, e, req[q].rec)
      BY <1>3, ReceiveEffect, Types DEF Receive, storeVars, Request
    <2>2. req'[q].pc = "claim" /\ req'[q].now <= clock'
      BY <1>2, <2>1 DEF Becomes
    <2> QED
      BY <1>1, <2>1, <2>2, HoldsNothing
  <1>4. CASE ClaimExists(q)
    <2>1. /\ req'[q].now = req[q].now /\ UNCHANGED <<clock, rows>>
          /\ Becomes(q, "load", req[q].key, req[q].env, req[q].rec)
      BY <1>4, GotoEffect, Types DEF ClaimExists, Goto, storeVars, Request, RequestPC
    <2>2. req'[q].pc = "load" /\ req'[q].now <= clock'
      BY <1>2, <2>1 DEF Becomes
    <2> QED
      BY <1>1, <2>1, <2>2, HoldsNothing
  <1>5. CASE GiveUp(q) /\ UNCHANGED <<clock, storeVars, conf, published>>
    <2>1. /\ req'[q].now = 0 /\ UNCHANGED <<clock, rows>>
          /\ Becomes(q, "failed", None, None, None)
      BY <1>5, GiveUpEffect, Types DEF GiveUp, NoRequest, storeVars
    <2>2. req'[q].pc = "failed" /\ req'[q].now <= clock'
      BY <1>2, <2>1 DEF Becomes
    <2> QED
      BY <1>1, <2>1, <2>2, HoldsNothing
  <1>6. CASE ClaimCommitted(q) \/ ClaimStale(q)
    <2>1. PICK pc : Becomes(q, pc, req[q].key, req[q].env, receipt[req[q].key])
      BY <1>6, LoadEffect
    <2>2. rows' = rows
      BY <1>6 DEF ClaimCommitted, ClaimStale, storeVars
    <2> QED
      BY <1>1, <1>6, <2>1, <2>2, LoadClaim
  <1>7. CASE ClaimInsert(q)
    BY <1>1, <1>7, InsertEffect, InsertClaim DEF ClaimInsert
  <1>8. CASE Takeover(q)
    <2>1. PICK m \in Receipt : Becomes(q, "write", req[q].key, req[q].env, m)
      BY <1>8, TakeoverEffect
    <2> QED
      BY <1>1, <1>8, <2>1, TakeoverClaim DEF Takeover
  <1>9. CASE WriteBatch(q)
    BY <1>9, BatchClaim
  <1>10. ASSUME NEW u \in Uins, IndexWrite(q, u) PROVE ClaimInv'
    <2>1. PICK pc \in {"index", "write"} : Becomes(q, pc, req[q].key, req[q].env, req[q].rec)
      BY <1>10, IndexEffect
    <2>2. req'[q].now = req[q].now /\ rows' = rows /\ Holds(q) /\ Working(q)
      BY <1>10, Types DEF IndexWrite, Request, Holds, Working
    <2>3. RequestClaim(q)'
      BY <2>1, <2>2, HoldsOn
    <2> QED
      BY <1>1, <2>1, <2>2, <2>3
  <1>11. ASSUME NEW pc \in {"cas", "publish", "reply", "acked"}, Goto(q, pc), Holds(q),
                pc = "cas" => Working(q), rows' = rows,
                \/ pc = "cas"
                \/ req[q].pc \in {"publish", "reply", "acked"}
                \/ receipt'[req[q].key].state # "pending"
         PROVE  ClaimInv'
    <2>1. Becomes(q, pc, req[q].key, req[q].env, req[q].rec)
      BY <1>11, GotoEffect DEF RequestPC
    <2>2. req'[q].now = req[q].now
      BY <1>11, Types DEF Goto, Request
    <2>3. RequestClaim(q)'
      BY <1>11, <2>1, <2>2, HoldsOn
    <2> QED
      BY <1>1, <1>11, <2>1, <2>3
  <1>12. CASE MarkStoredLoad(q) /\ LeaseHeld(q)
    BY <1>11, <1>12 DEF MarkStoredLoad, Holds, Working, storeVars
  <1>13. CASE MarkStoredCAS(q)
    <2>1. receipt'[req[q].key].state # "pending"
      <3>1. PICK n \in Receipt : n.state = "stored" /\ ReceiptBecomes(req[q].key, n)
        BY <1>13, StoredEffect
      <3> QED
        BY <3>1 DEF ReceiptBecomes
    <2>2. Goto(q, "publish") /\ Holds(q) /\ rows' = rows
      BY <1>13 DEF MarkStoredCAS, Holds
    <2> QED
      BY <1>11, <2>1, <2>2
  <1>14. CASE Publish(q) \/ PublishError(q) \/ Reply(q)
    <2>1. /\ Goto(q, "reply") \/ Goto(q, "acked")
          /\ Holds(q) /\ req[q].pc \in {"publish", "reply", "acked"} /\ rows' = rows
      BY <1>14 DEF Publish, PublishError, Reply, Holds, storeVars
    <2> QED
      BY <1>11, <2>1
  <1> QED
    BY <1>3, <1>4, <1>5, <1>6, <1>7, <1>8, <1>9, <1>10, <1>12, <1>13, <1>14
    DEF RequestStep, Claim, Persist, ClaimRefused, TakeoverLost, WriteExpired,
        MarkStoredLoad, MarkStoredLost, Fail

\* The claims are in order at the start ...
LEMMA ClaimInit ==
    ASSUME ErasureInit
    PROVE  ClaimInv
  BY DEF ErasureInit, Init, NoRequest, ClaimInv, RequestClaim, RowsDistinct, Holds, LeaseLive, Working

\* ... and after every step, whatever expires.
LEMMA ClaimNext ==
    ASSUME TypeInv, ClaimInv, [ErasureNext]_erasureVars
    PROVE  ClaimInv'
  <1>1. TypeInv'
    BY ErasureNextTyped
  <1>2. ASSUME UNCHANGED req, rows' \subseteq rows PROVE ClaimInv'
    <2>1. \A q \in Requests : RequestClaim(q)'
      BY <1>1, <1>2, OtherClaimKept
    <2>2. \A x \in rows' : RowClaim(x)'
      BY <1>1, <1>2, RowsKept
    <2>3. RowsDistinct'
      BY <1>2 DEF ClaimInv, RowsDistinct, SameRow
    <2> QED
      BY <2>1, <2>2, <2>3 DEF ClaimInv
  <1>3. CASE Next /\ UNCHANGED erase
    <2>1. ASSUME NEW q \in Requests, RequestStep(q) PROVE ClaimInv'
      BY <1>1, <2>1, RequestStepClaim
    <2>2. ASSUME NEW d \in Confirmers,
                 (\E m \in published : ConfirmStart(d, m)) \/ ConfirmStep(d)
          PROVE  ClaimInv'
      BY <1>2, <2>2
      DEF ConfirmStart, ConfirmStep, ConfirmLoad, ConfirmCAS, ConfirmDelete, ConfirmFail, storeVars
    <2>3. CASE TimeStep \/ \E o \in outbox : OutboxPublish(o)
      BY <1>2, <2>3
      DEF TimeStep, Tick, EvictReceipt, EvictRow, EvictOutbox, OutboxPublish, storeVars
    <2> QED
      BY <1>3, <2>1, <2>2, <2>3 DEF Next
  <1>4. ASSUME NEW u \in Wiped, EraseStep(u) PROVE ClaimInv'
    <2>1. UNCHANGED req /\ rows' \subseteq rows
      BY <1>4 DEF EraseStep, EraseStart, EraseScan, EraseDropIndex, EraseFail, EraseRow,
         EraseMirror, EraseSenderReceipt, EraseReadReceipt, SanitizeReceipt, SanitizeReceiptLost,
         EraseOutbox, EraseReadOutbox, SanitizeOutboxEmpty, SanitizeOutbox, SanitizeOutboxLost,
         vars, storeVars
    <2> QED
      BY <1>2, <2>1
  <1>5. CASE UNCHANGED erasureVars
    BY <1>2, <1>5 DEF erasureVars, vars, storeVars
  <1> QED
    BY <1>3, <1>4, <1>5 DEF ErasureNext

\* Two owners of one receipt are one request, and two rows of one receipt one row.
LEMMA ClaimHolds ==
    ASSUME TypeInv, ClaimInv
    PROVE  ClaimSurvivesWipes
  <1>1. ASSUME NEW p \in Requests, NEW q \in Requests, LeaseLive(p), LeaseLive(q),
               req[p].key = req[q].key, ~ Started(SenderOf[req[p].key])
        PROVE  p = q
    BY <1>1 DEF ClaimInv, RequestClaim, Alive
  <1>2. ASSUME NEW x \in rows, NEW y \in rows, Unexpired(x.created), Unexpired(y.created),
               x.key = y.key, ~ Started(SenderOf[x.key])
        PROVE  x = y
    BY <1>2 DEF ClaimInv, RowClaim, RowsDistinct, SameRow, Alive
  <1>3. ASSUME NEW q \in Requests, req[q].pc = "acked", Unexpired(req[q].rec.created),
               ~ Started(SenderOf[req[q].key])
        PROVE  /\ receipt[req[q].key] # None
               /\ receipt[req[q].key].created = req[q].rec.created
               /\ receipt[req[q].key].state # "pending"
    BY <1>3 DEF ClaimInv, RequestClaim, Holds, Alive
  <1> QED
    BY <1>1, <1>2, <1>3 DEF ClaimSurvivesWipes

\* However many recipients are wiped while requests, retries and takeovers of one
\* client_id run and receipts expire: as long as the sender is not wiped, one
\* handler at a time has the lease, one unexpired row is stored, and what was
\* acknowledged cannot be claimed again.
THEOREM ClaimsSurviveWipes == ErasureSpec => []ClaimSurvivesWipes
  <1>1. ErasureInit => TypeInv /\ ClaimInv
    BY ErasureInitTyped, ClaimInit
  <1>2. (TypeInv /\ ClaimInv) /\ [ErasureNext]_erasureVars => (TypeInv /\ ClaimInv)'
    BY ErasureNextTyped, ClaimNext
  <1>3. TypeInv /\ ClaimInv => ClaimSurvivesWipes
    BY ClaimHolds
  <1> QED
    BY <1>1, <1>2, <1>3, PTL DEF ErasureSpec
=============================================================================
