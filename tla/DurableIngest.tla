---------------------------- MODULE DurableIngest ----------------------------
(***************************************************************************)
(* The durable ingest store of message-service: the Scylla receipt keyed   *)
(* by (sender, client_id), the message row and the outbox row written by   *)
(* one logged batch, the erasure indexes, and the request handlers and     *)
(* delivery-receipt handlers that race on them.                            *)
(*                                                                         *)
(* A handler is a sequence of Scylla statements.  Every statement is an    *)
(* action, so two handlers interleave between any two statements; a crash, *)
(* a timed-out context or a failed statement is the action Fail, taken     *)
(* before the next statement and therefore also after one that was applied *)
(* although its caller saw an error.                                       *)
(***************************************************************************)
EXTENDS Naturals, FiniteSets

CONSTANTS
    Keys,        \* idempotency keys: (sender_uin, client_id) pairs
    Uins,        \* user identification numbers
    SenderOf,    \* the sender_uin part of a key
    Envelopes,   \* envelopes a client may submit: [kind, body, to]
    Requests,    \* ingest requests; a request is also its owner_token
    Confirmers,  \* concurrent delivery.accepted handlers
    Lease,       \* ingest lease, in clock units
    TTL,         \* effectiveMessageTTL of every message, in clock units
    MaxClock,    \* bound on the clock
    None         \* no value

ASSUME KeysAssumption ==
    /\ SenderOf \in [Keys -> Uins]
    /\ None \notin Envelopes
    /\ \A e \in Envelopes :
           /\ e.kind \in {"direct", "group"}
           /\ e.to \in SUBSET Uins
           /\ e.to # {}

ASSUME TimeAssumption ==
    /\ Lease \in Nat \ {0}
    /\ TTL \in Nat \ {0}
    /\ MaxClock \in Nat

VARIABLES
    clock,        \* the time every node reads
    receipt,      \* message_ingest
    rows,         \* messages and group_messages
    outbox,       \* message_outbox and group_message_outbox
    receiptIndex, \* message_ingest_erasure_index
    rowIndex,     \* message_deletion_index and group_message_deletion_index
    outboxIndex,  \* message_outbox_erasure_index and its group twin
    req,          \* ingest request handlers
    conf,         \* delivery.accepted handlers
    published     \* deliveries handed to JetStream

storeVars == <<receipt, rows, outbox, receiptIndex, rowIndex, outboxIndex>>
vars == <<clock, storeVars, req, conf, published>>

-----------------------------------------------------------------------------
(***************************************************************************)
(* Records                                                                 *)
(***************************************************************************)

\* IngestRecord.  env stands for every column that Claim compares (envelope
\* hash, kind, receiver, conversation, group, epoch); to is recipient_uins,
\* or the single receiver_uin of a direct message.
Receipt ==
    [state : {"pending", "stored", "delivered", "recipient_erased"},
     env : Envelopes \union {None}, to : SUBSET Uins, sanitized : BOOLEAN,
     owner : Requests, lease : Nat, created : Nat]

ASSUME NoneAssumption == None \notin Receipt

Row == [key : Keys, created : Nat, env : Envelopes]
OutboxEntry == [key : Keys, created : Nat, env : Envelopes, to : SUBSET Uins]
Delivery == [key : Keys, created : Nat, env : Envelopes]

\* Deletion-index and erasure-index rows; the tables of direct and of group
\* messages are told apart by kind.
Kind == {"direct", "group"}
ReceiptIndexEntry == [uin : Uins, key : Keys]
RowIndexEntry == [uin : Uins, key : Keys, created : Nat, kind : Kind]
OutboxIndexEntry == [uin : Uins, key : Keys, created : Nat, kind : Kind,
                     role : {"sender", "recipient"}]

\* Where a handler stands: the statement it executes next.
RequestPC == {"idle", "claim", "index", "load", "takeover", "write", "mark",
              "cas", "publish", "reply", "acked", "failed"}
ConfirmerPC == {"idle", "load", "cas", "delete"}

\* A handler and its local variables.
Request ==
    [pc : RequestPC, key : Keys \union {None}, env : Envelopes \union {None},
     now : Nat, rec : Receipt \union {None}, todo : SUBSET Uins]
Confirmation ==
    [pc : ConfirmerPC, key : Keys \union {None}, created : Nat]

\* A row, an outbox row or a receipt created at c lives until ExpiresAt(c).
ExpiresAt(c) == c + TTL
Unexpired(c) == clock < ExpiresAt(c)

\* newIngestRecord plus the cap PersistDirect puts on LeaseUntil.
LeaseUntil(now) == now + (IF Lease > TTL THEN TTL ELSE Lease)

\* Mutant: the insert leaves owner_token null.
NewReceiptUnowned(q) ==
    [state |-> "pending", env |-> req[q].env, to |-> req[q].env.to,
     sanitized |-> FALSE, owner |-> None, lease |-> LeaseUntil(req[q].now),
     created |-> req[q].now]

NewReceipt(q) ==
    [state |-> "pending", env |-> req[q].env, to |-> req[q].env.to,
     sanitized |-> FALSE, owner |-> q, lease |-> LeaseUntil(req[q].now),
     created |-> req[q].now]

\* erasureIndexUINs: the sender and every recipient.
ErasureIndexUins(k, e) == {SenderOf[k]} \union e.to

\* Primary keys: two rows are the same row iff key and created_at agree.
SameRow(r, k, c) == r.key = k /\ r.created = c
Upsert(table, r) == {x \in table : ~SameRow(x, r.key, r.created)} \union {r}

TypeOK ==
    /\ clock \in Nat
    /\ receipt \in [Keys -> Receipt \union {None}]
    /\ rows \subseteq Row
    /\ outbox \subseteq OutboxEntry
    /\ receiptIndex \subseteq ReceiptIndexEntry
    /\ rowIndex \subseteq RowIndexEntry
    /\ outboxIndex \subseteq OutboxIndexEntry
    /\ req \in [Requests -> Request]
    /\ conf \in [Confirmers -> Confirmation]
    /\ published \subseteq Delivery

\* A handler that holds nothing: not started, or gone after an error.
NoRequest(pc) ==
    [pc |-> pc, key |-> None, env |-> None, now |-> 0, rec |-> None, todo |-> {}]
NoConfirmation == [pc |-> "idle", key |-> None, created |-> 0]

Init ==
    /\ clock = 0
    /\ receipt = [k \in Keys |-> None]
    /\ rows = {}
    /\ outbox = {}
    /\ receiptIndex = {}
    /\ rowIndex = {}
    /\ outboxIndex = {}
    /\ req = [q \in Requests |-> NoRequest("idle")]
    /\ conf = [d \in Confirmers |-> NoConfirmation]
    /\ published = {}

-----------------------------------------------------------------------------
(***************************************************************************)
(* Ingest requests: processDurableIngest, PersistDirect, PersistGroup      *)
(***************************************************************************)

Goto(q, pc) == req' = [req EXCEPT ![q].pc = pc]
GiveUp(q) == req' = [req EXCEPT ![q] = NoRequest("failed")]

\* A request for key k arrives; PersistDirect reads the clock once and uses
\* that reading for the whole claim.  The envelope of a group message already
\* holds the membership snapshot of snapshotGroupRecipients.
Receive(q, k, e) ==
    /\ req[q].pc = "idle"
    /\ req' = [req EXCEPT ![q].pc = "claim", ![q].key = k, ![q].env = e,
                          ![q].now = clock]
    /\ UNCHANGED <<clock, storeVars, conf, published>>

\* INSERT ... IF NOT EXISTS finds no receipt and creates it.
ClaimInsert(q) ==
    /\ req[q].pc = "claim"
    /\ receipt[req[q].key] = None
    /\ receipt' = [receipt EXCEPT ![req[q].key] = NewReceipt(q)]
    /\ req' = [req EXCEPT ![q].pc = "index", ![q].rec = NewReceipt(q),
                          ![q].todo = ErasureIndexUins(req[q].key, req[q].env)]
    /\ UNCHANGED <<clock, rows, outbox, receiptIndex, rowIndex, outboxIndex,
                   conf, published>>

\* INSERT ... IF NOT EXISTS finds a receipt and changes nothing.
ClaimExists(q) ==
    /\ req[q].pc = "claim"
    /\ receipt[req[q].key] # None
    /\ Goto(q, "load")
    /\ UNCHANGED <<clock, storeVars, conf, published>>

\* One row of the erasure index, after the claim and outside its transaction;
\* the sender's row is the first.
IndexWrite(q, u) ==
    /\ req[q].pc = "index"
    /\ u \in req[q].todo
    /\ SenderOf[req[q].key] \in req[q].todo => u = SenderOf[req[q].key]
    /\ receiptIndex' = receiptIndex \union {[uin |-> u, key |-> req[q].key]}
    /\ req' = [req EXCEPT ![q].todo = @ \ {u},
                          ![q].pc = IF req[q].todo = {u} THEN "write" ELSE "index"]
    /\ UNCHANGED <<clock, receipt, rows, outbox, rowIndex, outboxIndex,
                   conf, published>>

\* load rejects a row whose envelope_hash is not 32 bytes long.
Loadable(r) == r # None /\ r.env # None

\* Every column Claim compares is equal; the recipient list is not compared
\* once a panic wipe has shortened it.
SameSubmission(q, r) ==
    /\ r.env = req[q].env
    /\ r.sanitized \/ r.to = req[q].env.to

\* Mutant: any receipt of the same submission counts as committed.
CommittedInAnyState(q, r) == Loadable(r) /\ SameSubmission(q, r)

\* The receipt q found is already stored or delivered: ClaimCommitted.
Committed(q, r) ==
    Loadable(r) /\ SameSubmission(q, r) /\ r.state \in {"stored", "delivered"}

\* Mutant: a takeover does not wait for the lease to lapse.
TakeoverWithoutLease(q, r) ==
    /\ Loadable(r)
    /\ SameSubmission(q, r)
    /\ r.state = "pending"
    /\ ExpiresAt(r.created) > req[q].now

\* The receipt q found is pending, live, and its lease had lapsed when q
\* read the clock.
TakeoverAllowed(q, r) ==
    /\ Loadable(r)
    /\ SameSubmission(q, r)
    /\ r.state = "pending"
    /\ ExpiresAt(r.created) > req[q].now
    /\ r.lease <= req[q].now

ClaimCommitted(q) ==
    LET r == receipt[req[q].key] IN
    /\ req[q].pc = "load"
    /\ Committed(q, r)
    /\ req' = [req EXCEPT ![q].rec = r,
                          ![q].pc = IF r.state = "stored" THEN "publish" ELSE "reply"]
    /\ UNCHANGED <<clock, storeVars, conf, published>>

ClaimStale(q) ==
    LET r == receipt[req[q].key] IN
    /\ req[q].pc = "load"
    /\ TakeoverAllowed(q, r)
    /\ req' = [req EXCEPT ![q].rec = r, ![q].pc = "takeover"]
    /\ UNCHANGED <<clock, storeVars, conf, published>>

\* The receipt is gone or unreadable (load fails), belongs to a different
\* submission (ErrIngestConflict), or is owned or expired (ErrIngestBusy).
\* The disposition ClaimRecipientErased comes after load, and load fails on
\* every tombstone, so no request ever reaches it.
ClaimRefused(q) ==
    LET r == receipt[req[q].key] IN
    /\ req[q].pc = "load"
    /\ ~Committed(q, r)
    /\ ~TakeoverAllowed(q, r)
    /\ GiveUp(q)
    /\ UNCHANGED <<clock, storeVars, conf, published>>

\* The receipt is still pending under the owner and lease that q loaded.
OwnedAsLoaded(q) ==
    LET r == receipt[req[q].key] IN
    /\ r # None
    /\ r.state = "pending"
    /\ r.owner = req[q].rec.owner
    /\ r.lease = req[q].rec.lease

\* Mutant: the new owner assumes that the old one wrote the batch.
TakeoverSkippingWrite(q) ==
    /\ req[q].pc = "takeover"
    /\ OwnedAsLoaded(q)
    /\ receipt' = [receipt EXCEPT ![req[q].key].owner = q,
                                  ![req[q].key].lease = LeaseUntil(req[q].now)]
    /\ req' = [req EXCEPT ![q].pc = "mark", ![q].rec.owner = q,
                          ![q].rec.lease = LeaseUntil(req[q].now)]
    /\ UNCHANGED <<clock, rows, outbox, receiptIndex, rowIndex, outboxIndex,
                   conf, published>>

Takeover(q) ==
    /\ req[q].pc = "takeover"
    /\ OwnedAsLoaded(q)
    /\ receipt' = [receipt EXCEPT ![req[q].key].owner = q,
                                  ![req[q].key].lease = LeaseUntil(req[q].now)]
    /\ req' = [req EXCEPT ![q].pc = "write", ![q].rec.owner = q,
                          ![q].rec.lease = LeaseUntil(req[q].now)]
    /\ UNCHANGED <<clock, rows, outbox, receiptIndex, rowIndex, outboxIndex,
                   conf, published>>

TakeoverLost(q) ==
    /\ req[q].pc = "takeover"
    /\ ~OwnedAsLoaded(q)
    /\ GiveUp(q)
    /\ UNCHANGED <<clock, storeVars, conf, published>>

\* The users the deletion index of a message points from: both ends of a
\* direct message, only the sender of a group message.
RowIndexUins(k, e) ==
    {SenderOf[k]} \union (IF e.kind = "direct" THEN e.to ELSE {})

RowIndexEntries(k, c, e) ==
    {[uin |-> u, key |-> k, created |-> c, kind |-> e.kind] : u \in RowIndexUins(k, e)}

OutboxIndexEntries(k, c, e, to) ==
    {[uin |-> u, key |-> k, created |-> c, kind |-> e.kind,
      role |-> IF u = SenderOf[k] THEN "sender" ELSE "recipient"] :
        u \in {SenderOf[k]} \union to}

\* Mutant: the batch takes its created_at from the clock, not from the claim.
WriteBatchFreshTime(q) ==
    LET k == req[q].key
        c == clock
        e == req[q].env
    IN
    /\ req[q].pc = "write"
    /\ rows' = Upsert(rows, [key |-> k, created |-> c, env |-> e])
    /\ outbox' = Upsert(outbox, [key |-> k, created |-> c,
                                 env |-> req[q].rec.env, to |-> req[q].rec.to])
    /\ Goto(q, "mark")
    /\ UNCHANGED <<clock, receipt, receiptIndex, rowIndex, outboxIndex, conf,
                   published>>

\* WriteDirect, WriteGroup: one logged batch for the message row, the outbox
\* row and their indexes.  It checks the expiry and never the lease.
WriteBatch(q) ==
    LET k == req[q].key
        c == req[q].rec.created
        e == req[q].env
    IN
    /\ req[q].pc = "write"
    /\ Unexpired(c)
    /\ rows' = Upsert(rows, [key |-> k, created |-> c, env |-> e])
    /\ outbox' = Upsert(outbox, [key |-> k, created |-> c,
                                 env |-> req[q].rec.env, to |-> req[q].rec.to])
    /\ rowIndex' = rowIndex \union RowIndexEntries(k, c, e)
    /\ outboxIndex' = outboxIndex \union OutboxIndexEntries(k, c, e, req[q].rec.to)
    /\ Goto(q, "mark")
    /\ UNCHANGED <<clock, receipt, receiptIndex, conf, published>>

WriteExpired(q) ==
    /\ req[q].pc = "write"
    /\ ~Unexpired(req[q].rec.created)
    /\ GiveUp(q)
    /\ UNCHANGED <<clock, storeVars, conf, published>>

\* MarkStored reads the receipt and the clock ...
LeaseHeld(q) ==
    /\ Loadable(receipt[req[q].key])
    /\ OwnedAsLoaded(q)
    /\ req[q].rec.lease > clock
    /\ Unexpired(receipt[req[q].key].created)

MarkStoredLoad(q) ==
    /\ req[q].pc = "mark"
    /\ IF LeaseHeld(q) THEN Goto(q, "cas") ELSE GiveUp(q)
    /\ UNCHANGED <<clock, storeVars, conf, published>>

\* ... and then compares and sets, on state, owner and lease but not on time.
MarkStoredCAS(q) ==
    /\ req[q].pc = "cas"
    /\ OwnedAsLoaded(q)
    /\ receipt' = [receipt EXCEPT ![req[q].key].state = "stored"]
    /\ Goto(q, "publish")
    /\ UNCHANGED <<clock, rows, outbox, receiptIndex, rowIndex, outboxIndex,
                   conf, published>>

MarkStoredLost(q) ==
    /\ req[q].pc = "cas"
    /\ ~OwnedAsLoaded(q)
    /\ GiveUp(q)
    /\ UNCHANGED <<clock, storeVars, conf, published>>

\* What the handler publishes for a stored message, whether or not this
\* request stored it; a publish error is ignored.
RequestDelivery(q) ==
    [key |-> req[q].key, created |-> req[q].rec.created, env |-> req[q].env]

Publish(q) ==
    /\ req[q].pc = "publish"
    /\ published' = published \union {RequestDelivery(q)}
    /\ Goto(q, "reply")
    /\ UNCHANGED <<clock, storeVars, conf>>

PublishError(q) ==
    /\ req[q].pc = "publish"
    /\ Goto(q, "reply")
    /\ UNCHANGED <<clock, storeVars, conf, published>>

\* The persisted ACK leaves message-service.
Reply(q) ==
    /\ req[q].pc = "reply"
    /\ Goto(q, "acked")
    /\ UNCHANGED <<clock, storeVars, conf, published>>

\* The process dies, the 8 s context ends or a statement fails: the caller
\* gets INGEST_UNAVAILABLE or nothing.
Fail(q) ==
    /\ req[q].pc \notin {"idle", "acked", "failed"}
    /\ GiveUp(q)
    /\ UNCHANGED <<clock, storeVars, conf, published>>

-----------------------------------------------------------------------------
(***************************************************************************)
(* Outbox worker and delivery receipts                                     *)
(***************************************************************************)

\* deliverOutboxEntry: the stored envelope is published again, unchanged.
OutboxPublish(o) ==
    /\ o \in outbox
    /\ Unexpired(o.created)
    /\ published' = published \union
                      {[key |-> o.key, created |-> o.created, env |-> o.env]}
    /\ UNCHANGED <<clock, storeVars, req, conf>>

\* A delivery.accepted receipt arrives.  It names the key and the message id,
\* which is a function of the key; it does not say when the message was created.
ConfirmStart(d, m) ==
    /\ conf[d].pc = "idle"
    /\ m \in published
    /\ conf' = [conf EXCEPT ![d].pc = "load", ![d].key = m.key]
    /\ UNCHANGED <<clock, storeVars, req, published>>

ConfirmEnd(d) == conf' = [conf EXCEPT ![d] = NoConfirmation]

\* Mutant: the outbox row is deleted without marking the receipt first.
ConfirmWithoutMark(d) ==
    LET r == receipt[conf[d].key] IN
    /\ conf[d].pc = "load"
    /\ Loadable(r)
    /\ conf' = [conf EXCEPT ![d].created = r.created, ![d].pc = "delete"]
    /\ UNCHANGED <<clock, storeVars, req, published>>

\* MarkDelivered loads the receipt: a delivered one only needs its outbox row
\* deleted again, any other is compared and set unless it has expired.
ConfirmLoad(d) ==
    LET r == receipt[conf[d].key] IN
    /\ conf[d].pc = "load"
    /\ Loadable(r)
    /\ r.state = "delivered" \/ Unexpired(r.created)
    /\ conf' = [conf EXCEPT
                  ![d].created = r.created,
                  ![d].pc = IF r.state = "delivered" THEN "delete" ELSE "cas"]
    /\ UNCHANGED <<clock, storeVars, req, published>>

\* Mutant: UPDATE ... IF EXISTS, whatever the state.
ConfirmAnyState(d) ==
    /\ conf[d].pc = "cas"
    /\ receipt[conf[d].key] # None
    /\ receipt' = [receipt EXCEPT ![conf[d].key].state = "delivered"]
    /\ conf' = [conf EXCEPT ![d].pc = "delete"]
    /\ UNCHANGED <<clock, rows, outbox, receiptIndex, rowIndex, outboxIndex,
                   req, published>>

ConfirmCAS(d) ==
    LET r == receipt[conf[d].key] IN
    /\ conf[d].pc = "cas"
    /\ r # None
    /\ r.state = "stored"
    /\ receipt' = [receipt EXCEPT ![conf[d].key].state = "delivered"]
    /\ conf' = [conf EXCEPT ![d].pc = "delete"]
    /\ UNCHANGED <<clock, rows, outbox, receiptIndex, rowIndex, outboxIndex,
                   req, published>>

\* deleteOutbox, then the reply to the gateway.
ConfirmDelete(d) ==
    /\ conf[d].pc = "delete"
    /\ outbox' = {o \in outbox : ~SameRow(o, conf[d].key, conf[d].created)}
    /\ ConfirmEnd(d)
    /\ UNCHANGED <<clock, receipt, rows, receiptIndex, rowIndex, outboxIndex,
                   req, published>>

\* The receipt is unreadable or expired, the compare-and-set was not applied, or the
\* handler dies at any statement: no reply.
ConfirmFail(d) ==
    /\ conf[d].pc # "idle"
    /\ ConfirmEnd(d)
    /\ UNCHANGED <<clock, storeVars, req, published>>

-----------------------------------------------------------------------------
(***************************************************************************)
(* Time.  Scylla drops an expired cell at some moment after its expiry.    *)
(***************************************************************************)

Tick ==
    /\ clock < MaxClock
    /\ clock' = clock + 1
    /\ UNCHANGED <<storeVars, req, conf, published>>

EvictReceipt(k) ==
    /\ receipt[k] # None
    /\ ~Unexpired(receipt[k].created)
    /\ receipt' = [receipt EXCEPT ![k] = None]
    /\ UNCHANGED <<clock, rows, outbox, receiptIndex, rowIndex, outboxIndex,
                   req, conf, published>>

EvictRow(r) ==
    /\ r \in rows
    /\ ~Unexpired(r.created)
    /\ rows' = rows \ {r}
    /\ UNCHANGED <<clock, receipt, outbox, receiptIndex, rowIndex, outboxIndex,
                   req, conf, published>>

EvictOutbox(o) ==
    /\ o \in outbox
    /\ ~Unexpired(o.created)
    /\ outbox' = outbox \ {o}
    /\ UNCHANGED <<clock, receipt, rows, receiptIndex, rowIndex, outboxIndex,
                   req, conf, published>>

-----------------------------------------------------------------------------
Claim(q) ==
    \/ ClaimInsert(q) \/ ClaimExists(q)
    \/ \E u \in Uins : IndexWrite(q, u)
    \/ ClaimCommitted(q) \/ ClaimStale(q) \/ ClaimRefused(q)
    \/ Takeover(q) \/ TakeoverLost(q)

Persist(q) ==
    \/ WriteBatch(q) \/ WriteExpired(q)
    \/ MarkStoredLoad(q) \/ MarkStoredCAS(q) \/ MarkStoredLost(q)

RequestStep(q) ==
    \/ \E k \in Keys, e \in Envelopes : Receive(q, k, e)
    \/ Claim(q) \/ Persist(q)
    \/ Publish(q) \/ PublishError(q) \/ Reply(q) \/ Fail(q)

ConfirmStep(d) ==
    ConfirmLoad(d) \/ ConfirmCAS(d) \/ ConfirmDelete(d) \/ ConfirmFail(d)

TimeStep ==
    \/ Tick
    \/ \E k \in Keys : EvictReceipt(k)
    \/ \E r \in rows : EvictRow(r)
    \/ \E o \in outbox : EvictOutbox(o)

Next ==
    \/ \E q \in Requests : RequestStep(q)
    \/ \E o \in outbox : OutboxPublish(o)
    \/ \E d \in Confirmers : (\E m \in published : ConfirmStart(d, m)) \/ ConfirmStep(d)
    \/ TimeStep

Spec == Init /\ [][Next]_vars

-----------------------------------------------------------------------------
(***************************************************************************)
(* Properties                                                              *)
(***************************************************************************)

\* The receipt of key k is the one created at c for envelope e.
ReceiptIs(k, c, e) ==
    receipt[k] # None /\ receipt[k].created = c /\ receipt[k].env = e

\* A persisted ACK (processDurableIngest's reply) is a promise: until the
\* message expires its receipt is stored or delivered and the message row
\* holds exactly the envelope this request submitted, whichever handler
\* wrote it and whatever crashed in between.
AckedIsDurable ==
    \A q \in Requests :
        req[q].pc = "acked" /\ Unexpired(req[q].rec.created) =>
            /\ ReceiptIs(req[q].key, req[q].rec.created, req[q].env)
            /\ receipt[req[q].key].state \in {"stored", "delivered"}
            /\ [key |-> req[q].key, created |-> req[q].rec.created,
                env |-> req[q].env] \in rows

\* No second store: retries, lease takeovers and late batches of one
\* client_id leave at most one unexpired message row, the receipt's own.
OneStorePerKey ==
    \A r1, r2 \in rows :
        /\ r1.key = r2.key
        /\ Unexpired(r1.created)
        /\ Unexpired(r2.created)
        => r1 = r2 /\ ReceiptIs(r1.key, r1.created, r1.env)

\* A stored message still has its outbox row, so the recovery worker of
\* runOutboxWorker will find it after any crash until MarkDelivered.
StoredAwaitsDelivery ==
    \A k \in Keys :
        receipt[k] # None =>
            (receipt[k].state = "stored" /\ Unexpired(receipt[k].created) =>
                \E o \in outbox : SameRow(o, k, receipt[k].created))

\* Two handlers never hold an unlapsed lease on the same live claim at the
\* same time, although each judges the other's lease by its own, older clock
\* reading (Claim in durable_ingest_scylla.go).  The claim must be live: the
\* lease of a takeover may outlast the receipt, which another request may
\* then create anew; WriteDirect refuses the batch of the first.
Working(q) == req[q].pc \in {"index", "write", "mark", "cas"}
LeaseLive(q) ==
    Working(q) /\ Unexpired(req[q].rec.created) /\ req[q].rec.lease > clock
LeaseExclusive ==
    \A p, q \in Requests :
        LeaseLive(p) /\ LeaseLive(q) /\ req[p].key = req[q].key => p = q

\* An unexpired outbox row disappears only in a step of a delivery-receipt
\* handler whose receipt is already delivered (MarkDelivered before
\* deleteOutbox): a crash between the two leaves the row to be replayed.
OutboxOutlivesDelivery ==
    [][\A o \in outbox :
          Unexpired(o.created) /\ (\A p \in outbox' : ~SameRow(p, o.key, o.created)) =>
              receipt[o.key] # None /\ receipt[o.key].state = "delivered"]_vars

\* "Write the erasure index so panic-wipe can find this ingest row ... for
\* EVERY uin that appears in it": once no claim is still writing its index
\* rows, a stored or delivered receipt is indexed under its sender and under
\* every recipient.
CommittedIsIndexed ==
    (\A q \in Requests : req[q].pc # "index") =>
    \A k \in Keys :
        receipt[k] # None =>
            (receipt[k].state \in {"stored", "delivered"} =>
                \A u \in {SenderOf[k]} \union receipt[k].to :
                    [uin |-> u, key |-> k] \in receiptIndex)

-----------------------------------------------------------------------------
(***************************************************************************)
(* What the store shows of its promise: of a receipt that has not expired  *)
(* its envelope, and whether the batch, the commit point, was applied.     *)
(***************************************************************************)

Shown(x) == [key |-> x.key, created |-> x.created, env |-> x.env]
LiveItems(S) == {Shown(x) : x \in {y \in S : Unexpired(y.created)}}

LiveReceipt(k) == receipt[k] # None /\ Unexpired(receipt[k].created)

PhaseOf(k) ==
    IF receipt[k].state = "delivered" THEN "delivered"
    ELSE IF \E r \in rows : SameRow(r, k, receipt[k].created) THEN "stored"
    ELSE "claimed"

MessageOf(k) ==
    IF LiveReceipt(k)
    THEN [phase |-> PhaseOf(k), env |-> receipt[k].env, created |-> receipt[k].created]
    ELSE [phase |-> "free", env |-> None, created |-> 0]

Answered ==
    {RequestDelivery(q) : q \in {p \in Requests :
                                   req[p].pc = "acked" /\ Unexpired(req[p].rec.created)}}

Promise == INSTANCE StoreAndForward WITH
    message <- [k \in Keys |-> MessageOf(k)],
    visible <- LiveItems(rows),
    waiting <- LiveItems(outbox),
    answered <- Answered

\* Handlers, retries, takeovers, crashes, confirmations and expiry together do
\* nothing but claim, store, acknowledge, publish and deliver each message as
\* StoreAndForward says: the logged batch is the one step that stores it, no
\* stale batch, compare-and-set or late receipt moves it back, and its outbox
\* row does not go before it is delivered.
ImplementsPromise == Promise!Spec
=============================================================================
