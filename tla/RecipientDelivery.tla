-------------------------- MODULE RecipientDelivery --------------------------
(***************************************************************************)
(* From the JetStream delivery stream to the recipient's client: the       *)
(* gateways that consume the stream, the Redis queue of every recipient,   *)
(* the poll cursors, the poll handlers, and the client's transport         *)
(* coordinator.  A Lua script is one action; a handler is interrupted      *)
(* between any two scripts.                                                *)
(***************************************************************************)
EXTENDS Naturals, FiniteSets, Sequences, SequencesExt

CONSTANTS
    Messages,    \* envelopes, each with its stable message id
    Uins,        \* recipients
    To,          \* the recipients of an envelope, in the order it names them
    Expiring,    \* envelopes with expires_in_seconds > 0
    Typing,      \* typing frames, published on the same subjects
    MaxAckPending, \* of the durable consumer
    MaxActive,   \* recipientAcceptanceMaxActive
    MaxCursors,  \* MaxOutstandingPollCursors
    PageSize,    \* the poll limit
    Gateways,    \* concurrent executions of acceptDelivery
    Polls,       \* poll requests; a request is also the token it issues
    None         \* no value

ASSUME DeliveryAssumption ==
    /\ To \in [Messages -> Seq(Uins) \ {<<>>}]
    /\ Expiring \subseteq Messages
    /\ Typing \intersect Messages = {}
    /\ MaxAckPending \in Nat \ {0}
    /\ MaxActive \in Nat \ {0}
    /\ MaxCursors \in Nat \ {0}
    /\ PageSize \in Nat \ {0}
    /\ None \notin Messages \union Typing \union Uins \union Polls

VARIABLES
    stream,     \* entries the durable consumer has not acknowledged
    pending,    \* those it has handed out, until they are acknowledged
    expired,    \* messages past their expiry
    gw,         \* acceptDelivery executions
    index,      \* poll:{uin}:index, the references and their scores
    sequence,   \* poll:{uin}:sequence, 0 when the key does not exist
    seen,       \* poll:{uin}:seen markers
    cursors,    \* poll:cursors and poll:cursor-order
    poll,       \* poll handlers
    client,     \* the recipient's transport coordinator and durable store
    confirmed   \* messages whose delivery.accepted was handled

queueVars == <<index, sequence, seen>>
vars == <<stream, pending, expired, gw, queueVars, cursors, poll, client, confirmed>>

Ref == [id : Messages, seq : Nat]
Cursor == [token : Polls, after : Nat, ids : SUBSET Messages]

TypeOK ==
    /\ stream \subseteq Messages \union Typing
    /\ pending \subseteq stream /\ Cardinality(pending) <= MaxAckPending
    /\ expired \subseteq Expiring
    /\ gw \in [Gateways ->
                 [pc : {"idle", "accept", "reject", "replay", "receipt", "ack"},
                  msg : Messages \union Typing \union {None}, todo : Seq(Uins)]]
    /\ index \in [Uins -> SUBSET Ref]
    /\ sequence \in [Uins -> Nat]
    /\ seen \in [Uins -> SUBSET Messages]
    /\ \A u \in Uins :
         cursors[u] \in Seq(Cursor) /\ Len(cursors[u]) <= MaxCursors
    /\ poll \in [Polls ->
                   [pc : {"new", "load", "ack", "read", "issue", "sent", "store", "done"},
                    uin : Uins \union {None}, cursor : Polls \union {None},
                    after : Nat, ids : SUBSET Messages]]
    /\ client \in [Uins ->
                     [cursor : Polls \union {None}, stored : SUBSET Messages,
                      polling : Polls \union {None}]]
    /\ confirmed \subseteq Messages

NoDelivery == [pc |-> "idle", msg |-> None, todo |-> <<>>]
NoPoll(pc) ==
    [pc |-> pc, uin |-> None, cursor |-> None, after |-> 0, ids |-> {}]

Init ==
    /\ stream = {}
    /\ pending = {}
    /\ expired = {}
    /\ gw = [g \in Gateways |-> NoDelivery]
    /\ index = [u \in Uins |-> {}]
    /\ sequence = [u \in Uins |-> 0]
    /\ seen = [u \in Uins |-> {}]
    /\ cursors = [u \in Uins |-> <<>>]
    /\ poll = [p \in Polls |-> NoPoll("new")]
    /\ client = [u \in Uins |-> [cursor |-> None, stored |-> {}, polling |-> None]]
    /\ confirmed = {}

-----------------------------------------------------------------------------
(***************************************************************************)
(* The Redis scripts of RecipientAcceptanceStore                           *)
(***************************************************************************)

\* The references whose record still exists.
Live(u) == {r \in index[u] : r.id \notin expired}

\* Mutant: the counter restarts whenever records were removed.
SetIndexAlwaysReset(u, refs) ==
    /\ index' = [index EXCEPT ![u] = refs]
    /\ sequence' = [sequence EXCEPT ![u] = IF refs # index[u] THEN 0 ELSE @]
    /\ UNCHANGED seen

\* The tail of the read and ack scripts: an empty index is deleted, and the
\* sequence counter with it.
SetIndex(u, refs) ==
    /\ index' = [index EXCEPT ![u] = refs]
    /\ sequence' = [sequence EXCEPT ![u] = IF refs = {} THEN 0 ELSE @]
    /\ UNCHANGED seen

\* ackAcceptedScript: dead references go, and so do the records ids names.
AckScript(u, ids) == SetIndex(u, {r \in Live(u) : r.id \notin ids})

\* readAcceptedScript: returns live records after a cursor, and removes the
\* dead references it walked over.
ReadScript(u, after) ==
    SetIndex(u, {r \in index[u] : r.seq > after => r.id \notin expired})

\* The records a read returns: the first PageSize live ones in sequence order.
Page(u, after) ==
    LET later == {r \in Live(u) : r.seq > after}
    IN  {r \in later : Cardinality({x \in later : x.seq < r.seq}) < PageSize}

-----------------------------------------------------------------------------
(***************************************************************************)
(* The delivery consumer                                                   *)
(***************************************************************************)

\* External: message-service publishes m, for the first time or again.
Publish(m) ==
    /\ stream' = stream \union {m}
    /\ UNCHANGED <<pending, expired, gw, queueVars, cursors, poll, client, confirmed>>

\* handleTyping publishes the frame where the stream captures it.
PublishTyping(t) ==
    /\ stream' = stream \union {t}
    /\ UNCHANGED <<pending, expired, gw, queueVars, cursors, poll, client, confirmed>>

\* A gateway fetches m, which is handed out again or finds room among the
\* unacknowledged entries; AckWait may have run out on another gateway that is
\* still working on it.
Fetch(g, m) ==
    /\ gw[g].pc = "idle"
    /\ m \in stream
    /\ m \in pending \/ Cardinality(pending) < MaxAckPending
    /\ pending' = pending \union {m}
    /\ gw' = [gw EXCEPT ![g] = IF m \in Typing
                               THEN [pc |-> "reject", msg |-> m, todo |-> <<>>]
                               ELSE [pc |-> "accept", msg |-> m, todo |-> To[m]]]
    /\ UNCHANGED <<stream, expired, queueVars, cursors, poll, client, confirmed>>

\* The recipient acceptDelivery is at.
Recipient(g) == Head(gw[g].todo)

GatewayGoto(g, pc) == gw' = [gw EXCEPT ![g].pc = pc]
Release(g) == gw' = [gw EXCEPT ![g] = NoDelivery]

\* "unsupported delivery type": negatively acknowledged, as every error is.
AcceptRejected(g) ==
    /\ gw[g].pc = "reject"
    /\ Release(g)
    /\ UNCHANGED <<stream, pending, expired, queueVars, cursors, poll, client, confirmed>>

AcceptNew(g) ==
    LET m == gw[g].msg
        u == Recipient(g)
    IN
    /\ gw[g].pc = "accept"
    /\ m \notin expired
    /\ m \notin seen[u]
    /\ Cardinality(Live(u)) < MaxActive
    /\ sequence' = [sequence EXCEPT ![u] = @ + 1]
    /\ index' = [index EXCEPT
                   ![u] = Live(u) \union {[id |-> m, seq |-> sequence[u] + 1]}]
    /\ seen' = [seen EXCEPT ![u] = @ \union {m}]
    /\ GatewayGoto(g, "replay")
    /\ UNCHANGED <<stream, pending, expired, cursors, poll, client, confirmed>>

AcceptSeen(g) ==
    /\ gw[g].pc = "accept"
    /\ gw[g].msg \notin expired
    /\ gw[g].msg \in seen[Recipient(g)]
    /\ GatewayGoto(g, "replay")
    /\ UNCHANGED <<stream, pending, expired, queueVars, cursors, poll, client, confirmed>>

QueueFull(g) ==
    /\ gw[g].pc = "accept"
    /\ gw[g].msg \notin expired \union seen[Recipient(g)]
    /\ Cardinality(Live(Recipient(g))) >= MaxActive

\* Mutant: a full queue is treated as a delivered message.
AcceptFullAcked(g) ==
    /\ QueueFull(g)
    /\ index' = [index EXCEPT ![Recipient(g)] = Live(Recipient(g))]
    /\ GatewayGoto(g, "ack")
    /\ UNCHANGED <<stream, pending, expired, sequence, seen, cursors, poll, client, confirmed>>

\* ErrAcceptanceQueueFull, after the dead references were removed.
AcceptFull(g) ==
    /\ QueueFull(g)
    /\ index' = [index EXCEPT ![Recipient(g)] = Live(Recipient(g))]
    /\ Release(g)
    /\ UNCHANGED <<stream, pending, expired, sequence, seen, cursors, poll, client, confirmed>>

\* ErrAcceptanceExpired, before any script.
AcceptExpired(g) ==
    /\ gw[g].pc = "accept"
    /\ gw[g].msg \in expired
    /\ Release(g)
    /\ UNCHANGED <<stream, pending, expired, queueVars, cursors, poll, client, confirmed>>

\* Mutant: the receipt is sent after the first recipient.
ReplayFirstOnly(g) ==
    /\ gw[g].pc = "replay"
    /\ ReadScript(Recipient(g), 0)
    /\ GatewayGoto(g, "receipt")
    /\ UNCHANGED <<stream, pending, expired, cursors, poll, client, confirmed>>

\* replayAccepted pushes the recipient's whole queue (see LivePush); then it
\* is the next recipient's turn.
Replay(g) ==
    /\ gw[g].pc = "replay"
    /\ ReadScript(Recipient(g), 0)
    /\ gw' = [gw EXCEPT ![g] = [@ EXCEPT
                  !.todo = Tail(gw[g].todo),
                  !.pc = IF Tail(gw[g].todo) = <<>> THEN "receipt" ELSE "accept"]]
    /\ UNCHANGED <<stream, pending, expired, cursors, poll, client, confirmed>>

\* The delivery.accepted request is handled and answered ...
Receipt(g) ==
    /\ gw[g].pc = "receipt"
    /\ confirmed' = confirmed \union {gw[g].msg}
    /\ GatewayGoto(g, "ack")
    /\ UNCHANGED <<stream, pending, expired, queueVars, cursors, poll, client>>

\* ... or handled, and the answer does not arrive in time.
ReceiptLost(g) ==
    /\ gw[g].pc = "receipt"
    /\ confirmed' = confirmed \union {gw[g].msg}
    /\ Release(g)
    /\ UNCHANGED <<stream, pending, expired, queueVars, cursors, poll, client>>

StreamAck(g) ==
    /\ gw[g].pc = "ack"
    /\ stream' = stream \ {gw[g].msg}
    /\ pending' = pending \ {gw[g].msg}
    /\ Release(g)
    /\ UNCHANGED <<expired, queueVars, cursors, poll, client, confirmed>>

\* An error of any call, the 8 s limit or a crash: the entry is not
\* acknowledged and will be fetched again.
GatewayFail(g) ==
    /\ gw[g].pc # "idle"
    /\ Release(g)
    /\ UNCHANGED <<stream, pending, expired, queueVars, cursors, poll, client, confirmed>>

\* The record and the seen marker of m expire; with the last record of an
\* index, the index and the sequence counter expire too.
Expire(m) ==
    LET dead == expired \union {m}
        gone(u) == index[u] # {} /\ \A r \in index[u] : r.id \in dead
    IN
    /\ m \in Expiring \ expired
    /\ expired' = dead
    /\ seen' = [u \in Uins |-> seen[u] \ {m}]
    /\ index' = [u \in Uins |-> IF gone(u) THEN {} ELSE index[u]]
    /\ sequence' = [u \in Uins |-> IF gone(u) THEN 0 ELSE sequence[u]]
    /\ UNCHANGED <<stream, pending, gw, cursors, poll, client, confirmed>>

-----------------------------------------------------------------------------
(***************************************************************************)
(* Poll requests and the client                                            *)
(***************************************************************************)

\* The coordinator asks for the next page with the cursor it holds.
PollStart(p, u) ==
    /\ poll[p].pc = "new"
    /\ client[u].polling = None
    /\ poll' = [poll EXCEPT ![p] = [@ EXCEPT
                    !.uin = u, !.cursor = client[u].cursor,
                    !.pc = IF client[u].cursor = None THEN "read" ELSE "load"]]
    /\ client' = [client EXCEPT ![u].polling = p]
    /\ UNCHANGED <<stream, pending, expired, gw, queueVars, cursors, confirmed>>

\* The stored cursors that carry token t.
Issued(u, t) == {c \in Range(cursors[u]) : c.token = t}

\* The answer INVALID_POLL_CURSOR: a client that still waits forgets its cursor.
Reject(p) ==
    /\ poll' = [poll EXCEPT ![p] = NoPoll("done")]
    /\ client' = IF client[poll[p].uin].polling = p
                 THEN [client EXCEPT ![poll[p].uin] = [@ EXCEPT !.polling = None,
                                                                !.cursor = None]]
                 ELSE client

PollLoad(p) ==
    /\ poll[p].pc = "load"
    /\ IF Issued(poll[p].uin, poll[p].cursor) = {}
       THEN Reject(p)
       ELSE /\ \E c \in Issued(poll[p].uin, poll[p].cursor) :
                 poll' = [poll EXCEPT ![p] = [@ EXCEPT !.pc = "ack", !.after = c.after,
                                                       !.ids = c.ids]]
            /\ UNCHANGED client
    /\ UNCHANGED <<stream, pending, expired, gw, queueVars, cursors, confirmed>>

\* AckRecipient for the page the presented cursor stands for; without ids it
\* returns before it reaches Redis.
PollAck(p) ==
    /\ poll[p].pc = "ack"
    /\ IF poll[p].ids = {} THEN UNCHANGED queueVars
                           ELSE AckScript(poll[p].uin, poll[p].ids)
    /\ poll' = [poll EXCEPT ![p] = [@ EXCEPT !.pc = "read", !.ids = {}]]
    /\ UNCHANGED <<stream, pending, expired, gw, cursors, client, confirmed>>

\* A read that finds nothing, while the request may still wait.
PollWait(p) ==
    /\ poll[p].pc = "read"
    /\ Page(poll[p].uin, poll[p].after) = {}
    /\ ReadScript(poll[p].uin, poll[p].after)
    /\ UNCHANGED <<stream, pending, expired, gw, cursors, poll, client, confirmed>>

\* Mutant: DrainAccepted instead of ReadAcceptedAfter.
PollReadDraining(p) ==
    LET page == Page(poll[p].uin, poll[p].after) IN
    /\ poll[p].pc = "read"
    /\ SetIndex(poll[p].uin, Live(poll[p].uin) \ page)
    /\ poll' = [poll EXCEPT ![p].pc = "issue", ![p].ids = {r.id : r \in page}]
    /\ UNCHANGED <<stream, pending, expired, gw, cursors, client, confirmed>>

\* The score of the last record of a page.
LastScore(page) ==
    CHOOSE s \in {r.seq : r \in page} : \A r \in page : r.seq <= s

\* The read that ends the loop: it found records, or the wait is over.
PollRead(p) ==
    LET page == Page(poll[p].uin, poll[p].after) IN
    /\ poll[p].pc = "read"
    /\ ReadScript(poll[p].uin, poll[p].after)
    /\ poll' = [poll EXCEPT ![p] = [@ EXCEPT
                    !.pc = "issue", !.ids = {r.id : r \in page},
                    !.after = IF page = {} THEN poll[p].after ELSE LastScore(page)]]
    /\ UNCHANGED <<stream, pending, expired, gw, cursors, client, confirmed>>

\* Mutant: one cursor too many survives.
BoundedLate(s) ==
    IF Len(s) > MaxCursors + 1 THEN SubSeq(s, Len(s) - MaxCursors + 1, Len(s)) ELSE s

\* The newest MaxCursors cursors survive.
Bounded(s) == IF Len(s) > MaxCursors THEN SubSeq(s, Len(s) - MaxCursors + 1, Len(s)) ELSE s

\* issueCursor, or advanceCursor, which consumes the presented cursor.
PollIssue(p) ==
    LET u == poll[p].uin
        new == [token |-> p, after |-> poll[p].after, ids |-> poll[p].ids]
        presented == {i \in DOMAIN cursors[u] : cursors[u][i].token = poll[p].cursor}
        Issue(rest) ==
            /\ cursors' = [cursors EXCEPT ![u] = Bounded(Append(rest, new))]
            /\ poll' = [poll EXCEPT ![p].pc = "sent"]
            /\ UNCHANGED client
    IN
    /\ poll[p].pc = "issue"
    /\ \/ poll[p].cursor = None /\ Issue(cursors[u])
       \/ poll[p].cursor # None /\ \E i \in presented : Issue(RemoveAt(cursors[u], i))
       \/ poll[p].cursor # None /\ presented = {} /\ Reject(p) /\ UNCHANGED cursors
    /\ UNCHANGED <<stream, pending, expired, gw, queueVars, confirmed>>

\* The page arrives at a client that still waits for it.
PollArrive(p) ==
    /\ poll[p].pc = "sent"
    /\ client[poll[p].uin].polling = p
    /\ poll' = [poll EXCEPT ![p].pc = "store"]
    /\ UNCHANGED <<stream, pending, expired, gw, queueVars, cursors, client, confirmed>>

\* A poll loop that ends leaves alone the loop that replaced it.
StopPolling(p, u) == IF client[u].polling = p THEN None ELSE client[u].polling

\* The client stores every envelope of the page before it keeps the new
\* cursor; it does so even when the loop was stopped meanwhile.
PollStored(p) ==
    LET u == poll[p].uin IN
    /\ poll[p].pc = "store"
    /\ client' = [client EXCEPT ![u] = [cursor |-> p, polling |-> StopPolling(p, u),
                                        stored |-> @.stored \union poll[p].ids]]
    /\ poll' = [poll EXCEPT ![p] = NoPoll("done")]
    /\ UNCHANGED <<stream, pending, expired, gw, queueVars, cursors, confirmed>>

\* Mutant: the cursor advances although the page was not stored.
PollStoreFailsAdvancing(p, S) ==
    LET u == poll[p].uin IN
    /\ poll[p].pc = "store"
    /\ client' = [client EXCEPT ![u].polling = StopPolling(p, u), ![u].cursor = p,
                                ![u].stored = @ \union S]
    /\ poll' = [poll EXCEPT ![p] = NoPoll("done")]
    /\ UNCHANGED <<stream, pending, expired, gw, queueVars, cursors, confirmed>>

\* It fails on one of them and keeps the cursor it had.
PollStoreFails(p, S) ==
    LET u == poll[p].uin IN
    /\ poll[p].pc = "store"
    /\ S \subseteq poll[p].ids /\ S # poll[p].ids
    /\ client' = [client EXCEPT ![u] = [@ EXCEPT !.polling = StopPolling(p, u),
                                                 !.stored = client[u].stored \union S]]
    /\ poll' = [poll EXCEPT ![p] = NoPoll("done")]
    /\ UNCHANGED <<stream, pending, expired, gw, queueVars, cursors, confirmed>>

\* The client stops waiting (WebSocket back, network error, error answer).
\* The handler may still run; one that died takes no further step.
PollAbort(u) ==
    /\ client[u].polling # None
    /\ client' = [client EXCEPT ![u].polling = None]
    /\ UNCHANGED <<stream, pending, expired, gw, queueVars, cursors, poll, confirmed>>

\* The cursor hash of u expires, pollStreamTTL after its last use.
CursorsExpire(u) ==
    /\ cursors[u] # <<>>
    /\ cursors' = [cursors EXCEPT ![u] = <<>>]
    /\ UNCHANGED <<stream, pending, expired, gw, queueVars, poll, client, confirmed>>

\* Wake-up over the WebSocket: replayAccepted pushes the queue and the client
\* stores one of the pushed envelopes.
LivePush(u, r) ==
    /\ r \in Live(u)
    /\ client[u].polling = None
    /\ ReadScript(u, 0)
    /\ client' = [client EXCEPT ![u].stored = @ \union {r.id}]
    /\ UNCHANGED <<stream, pending, expired, gw, cursors, poll, confirmed>>

\* transport_ack for an envelope that was pushed, perhaps long ago, and is
\* committed locally.
TransportAck(u, m) ==
    /\ m \in client[u].stored
    /\ AckScript(u, {m})
    /\ UNCHANGED <<stream, pending, expired, gw, cursors, poll, client, confirmed>>

-----------------------------------------------------------------------------
Handle(g) ==
    \/ AcceptNew(g) \/ AcceptSeen(g) \/ AcceptFull(g) \/ AcceptExpired(g)
    \/ AcceptRejected(g) \/ Replay(g) \/ Receipt(g) \/ StreamAck(g)

Consume(g) ==
    (\E m \in Messages \union Typing : Fetch(g, m)) \/ Handle(g) \/ ReceiptLost(g) \/ GatewayFail(g)

Serve(p) ==
    \/ \E u \in Uins : PollStart(p, u)
    \/ PollLoad(p) \/ PollAck(p) \/ PollWait(p) \/ PollRead(p) \/ PollIssue(p)
    \/ PollArrive(p) \/ PollStored(p)
    \/ \E S \in SUBSET poll[p].ids : PollStoreFails(p, S)

Next ==
    \/ \E m \in Messages : Publish(m) \/ Expire(m)
    \/ \E t \in Typing : PublishTyping(t)
    \/ \E g \in Gateways : Consume(g)
    \/ \E p \in Polls : Serve(p)
    \/ \E u \in Uins :
         \/ PollAbort(u) \/ CursorsExpire(u)
         \/ \E r \in index[u] : LivePush(u, r)
         \/ \E m \in Messages : TransportAck(u, m)

Spec == Init /\ [][Next]_vars

\* A fault that is not also a step the handler takes by itself.
Fault == \E g \in Gateways : (ReceiptLost(g) \/ GatewayFail(g)) /\ ~Handle(g)

\* Gateways go on with what they fetched; a negatively acknowledged entry is
\* delivered again without limit (the consumer has no MaxDeliver), so no entry
\* waits for ever behind the others; the client's WebSocket loop stores and
\* acknowledges what it gets; Redis, NATS and the gateways stop failing.
Fairness ==
    /\ \A g \in Gateways : WF_vars(Handle(g))
    /\ \A m \in Messages : SF_vars(\E g \in Gateways : Fetch(g, m))
    /\ \A u \in Uins :
         /\ \A m \in Messages : WF_vars(\E r \in index[u] : r.id = m /\ LivePush(u, r))
         /\ WF_vars(\E m \in Messages : TransportAck(u, m))
    /\ <>[][~Fault]_vars

FairSpec == Spec /\ Fairness

-----------------------------------------------------------------------------
(***************************************************************************)
(* Properties                                                              *)
(***************************************************************************)

\* How far m has come in the mailbox of u.
Status(u, m) ==
    IF m \in expired THEN "expired"
    ELSE IF m \notin seen[u] THEN "absent"
    ELSE IF \E r \in index[u] : r.id = m THEN "queued"
    ELSE "taken"

Mailbox == INSTANCE RecipientMailbox WITH
    To <- [m \in Messages |-> Range(To[m])],
    status <- [u \in Uins |-> [m \in Messages |-> Status(u, m)]],
    stored <- [u \in Uins |-> client[u].stored]

\* The queue, the cursors and the consumers together implement the abstract
\* mailbox: redelivery, a crash between Accept and the receipt, a lost poll
\* answer or a poll that outlives its client never queue a message twice,
\* never remove one the client has not stored, and never confirm one that
\* a recipient's queue has not accepted.
ImplementsMailbox == Mailbox!Spec

\* Two queued records of a user never share a score, and the counter is at
\* least every score, although the counter is deleted and restarts at 1.
ScoresDistinct ==
    \A u \in Uins : \A r1, r2 \in index[u] :
        r1.seq <= sequence[u] /\ (r1.seq = r2.seq => r1 = r2)

\* The cursor a client holds never stands for envelopes the client has not
\* stored: presenting it deletes them (AckRecipient in Poll).
CursorStored ==
    \A u \in Uins :
        \A c \in Range(cursors[u]) :
            c.token = client[u].cursor => c.ids \subseteq client[u].stored

\* A message in the stream reaches the local store of every recipient and is
\* confirmed, or expires: a full queue, a crash in the middle of a group's
\* fan-out and redelivery to another gateway only delay it (acceptDelivery,
\* NakWithDelay in startDeliveryConsumer).
EventuallyDelivered ==
    \A m \in Messages :
        m \in stream ~> \/ m \in expired
                        \/ m \in confirmed /\ \A u \in Range(To[m]) : m \in client[u].stored

\* "ReadAcceptedAfter returns live records ordered after the durable sequence
\* cursor": a live record the client has not stored is after the cursor it
\* holds, so that the next poll can return it.
CursorNeverSkips ==
    \A u \in Uins :
        \A c \in Range(cursors[u]) : \A r \in Live(u) :
            c.token = client[u].cursor /\ r.id \notin client[u].stored =>
                r.seq > c.after

\* "For typing: forward ... No ACK, no storage": a typing indicator is in
\* nobody's way, so that a message in the stream never waits to be handed out
\* because typing frames take up the consumer's unacknowledged entries.
TypingTakesNoRoom ==
    \A m \in Messages :
        m \in stream \ pending => Cardinality(pending \intersect Typing) < MaxAckPending
=============================================================================
