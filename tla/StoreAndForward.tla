--------------------------- MODULE StoreAndForward ---------------------------
(***************************************************************************)
(* What message-service's durable ingest promises, without handlers,       *)
(* leases, owner tokens or indexes.  Under each client_id at most one      *)
(* message lives at a time.  It is claimed by one envelope, stored once,   *)
(* from then on visible, acknowledged and published any number of times,   *)
(* and it waits in the outbox until it has been delivered.  Only time      *)
(* takes it away.                                                          *)
(***************************************************************************)
EXTENDS Naturals

CONSTANTS Keys, Envelopes, TTL, None

VARIABLES
    clock,
    message,    \* the live message of each key: [phase, env, created]
    visible,    \* the live rows that a history page shows
    waiting,    \* the live outbox rows
    answered,   \* the live messages a persisted ACK was sent for
    published   \* everything handed to JetStream so far

vars == <<clock, message, visible, waiting, answered, published>>

Live(c) == clock < c + TTL

Free == [phase |-> "free", env |-> None, created |-> 0]

\* A message as it is shown, kept in the outbox, acknowledged and published.
Item(k) == [key |-> k, created |-> message[k].created, env |-> message[k].env]

IsStored(k) == message[k].phase \in {"stored", "delivered"}

Init ==
    /\ clock = 0
    /\ message = [k \in Keys |-> Free]
    /\ visible = {}
    /\ waiting = {}
    /\ answered = {}
    /\ published = {}

Claim(k, e) ==
    /\ message[k] = Free
    /\ \E c \in 0..clock :
         /\ Live(c)
         /\ message' = [message EXCEPT ![k] =
                          [phase |-> "claimed", env |-> e, created |-> c]]
    /\ UNCHANGED <<clock, visible, waiting, answered, published>>

Store(k) ==
    /\ message[k].phase = "claimed"
    /\ message' = [message EXCEPT ![k].phase = "stored"]
    /\ visible' = visible \union {Item(k)}
    /\ waiting' = waiting \union {Item(k)}
    /\ UNCHANGED <<clock, answered, published>>

Answer(k) ==
    /\ IsStored(k)
    /\ answered' = answered \union {Item(k)}
    /\ UNCHANGED <<clock, message, visible, waiting, published>>

Publish(k) ==
    /\ IsStored(k)
    /\ published' = published \union {Item(k)}
    /\ UNCHANGED <<clock, message, visible, waiting, answered>>

\* A handler that was slow publishes what has expired meanwhile.
PublishLate(k, e) ==
    /\ \E c \in 0..clock :
         /\ ~Live(c)
         /\ published' = published \union {[key |-> k, created |-> c, env |-> e]}
    /\ UNCHANGED <<clock, message, visible, waiting, answered>>

\* A receipt names the client_id and not the message, so a late one may be
\* about an earlier message of the same client_id.
Deliver(k) ==
    /\ message[k].phase = "stored"
    /\ \E m \in published : m.key = k
    /\ message' = [message EXCEPT ![k].phase = "delivered"]
    /\ UNCHANGED <<clock, visible, waiting, answered, published>>

\* The outbox row of a delivered message goes; a retry that was slow writes it
\* once more.
Forget(k) ==
    /\ message[k].phase = "delivered"
    /\ waiting' \in {waiting \ {Item(k)}, waiting \union {Item(k)}}
    /\ UNCHANGED <<clock, message, visible, answered, published>>

Tick ==
    /\ clock' = clock + 1
    /\ message' = [k \in Keys |->
                     IF clock' < message[k].created + TTL THEN message[k] ELSE Free]
    /\ visible' = {m \in visible : clock' < m.created + TTL}
    /\ waiting' = {m \in waiting : clock' < m.created + TTL}
    /\ answered' = {m \in answered : clock' < m.created + TTL}
    /\ UNCHANGED published

Next ==
    \/ \E k \in Keys, e \in Envelopes : Claim(k, e) \/ PublishLate(k, e)
    \/ \E k \in Keys : Store(k) \/ Answer(k) \/ Publish(k) \/ Deliver(k) \/ Forget(k)
    \/ Tick

Spec == Init /\ [][Next]_vars
=============================================================================
