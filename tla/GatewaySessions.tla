--------------------------- MODULE GatewaySessions ---------------------------
(***************************************************************************)
(* The WebSocket sessions of one account in ws-gateway, from ServeHTTP's    *)
(* handshake to the teardown, against the account's panic wipe and the      *)
(* presence service.  ServeHTTP's goroutine, the write loop, the goroutines *)
(* hub.CloseWiped starts, the NATS callback of account.wiped, the wipe and  *)
(* the presence service interleave; each action is the code between two     *)
(* reads or writes of what they share (the hub's map, the done channel and  *)
(* presenceMu, PostgreSQL, Redis, the bus).                                 *)
(***************************************************************************)
EXTENDS Naturals, Sequences, FiniteSets

CONSTANTS
    Conns,           \* connection attempts
    MaxConnections,  \* maxConnectionsPerUIN
    MaxBus           \* bound: presence events queued when a client sends one

ASSUME GatewayAssumption == MaxConnections \in Nat /\ MaxBus \in Nat

VARIABLES
    conn,     \* the connections: where ServeHTTP is, and the Client's fields
    hub,      \* hub.clients: the registered connections
    acct,     \* PostgreSQL: users row and wiped_accounts marker
    blocked,  \* Redis: the panic-wipe blocklist key
    notice,   \* the account.wiped message on its way to the gateway
    bus,      \* presence.update
    service,  \* what presence-service is about to notify, or idle
    stored,   \* presence:{uin} in Redis
    seen,     \* the status a contact was last notified of
    lost      \* history: a presence publish, write or lookup failed

gatewayVars == <<conn, hub, acct, blocked, notice, bus, service, stored, seen, lost>>

Status == {"online", "away", "offline"}

\* teardown: shutdown() not called, done closed, presence subscription taken too.
\* sub: the presence.notify subscription, held by ServeHTTP or by the Client.
\* closer: the goroutine hub.CloseWiped starts.
Conn == [pc : {"new", "verified", "admitted", "registered", "accepted", "greeted",
               "subscribed", "opening", "running", "dispatching", "unwinding",
               "leaving", "closed"},
         shows : BOOLEAN,
         teardown : {"no", "closing", "done"},
         sub : {"none", "held", "stored"},
         closer : {"none", "started", "ended"}]

GatewayTypeOK ==
    /\ conn \in [Conns -> Conn]
    /\ hub \subseteq Conns /\ Cardinality(hub) <= MaxConnections
    /\ acct \in {"live", "marked", "gone"}
    /\ blocked \in BOOLEAN
    /\ notice \in {"none", "owed", "sent", "handled", "missed"}
    /\ bus \in Seq(Status)
    /\ service \in Status \union {"idle"}
    /\ stored \in Status \union {"none"}
    /\ seen \in Status \union {"none"}
    /\ lost \in BOOLEAN

GatewayInit ==
    /\ conn \in {[c \in Conns |-> [pc |-> "new", shows |-> s[c], teardown |-> "no",
                                   sub |-> "none", closer |-> "none"]]
                  : s \in [Conns -> BOOLEAN]}
    /\ hub = {}
    /\ acct = "live"
    /\ blocked = FALSE
    /\ notice = "none"
    /\ bus = <<>>
    /\ service = "idle"
    /\ stored = "none"
    /\ seen = "none"
    /\ lost = FALSE

Done(c) == conn[c].teardown # "no"

\* IsAccountWipedOrMissing.
WipedOrMissing == acct # "live"

\* nc.Publish on presence.update: sent, or dropped with a log line.
Publish(status) ==
    \/ bus' = Append(bus, status) /\ UNCHANGED lost
    \/ lost' = TRUE /\ UNCHANGED bus

\* The Client after the first call of shutdown(): done is closed.
ShutDown(k) == [k EXCEPT !.teardown = IF @ = "no" THEN "closing" ELSE @]

Goto(c, pc) == conn' = [conn EXCEPT ![c].pc = pc]

-----------------------------------------------------------------------------
\* The handshake.  Verify reads PostgreSQL, the blocklist is in Redis; the
\* rate limiter and every failure end the attempt.
Verify(c) ==
    /\ conn[c].pc = "new"
    /\ \/ ~WipedOrMissing /\ Goto(c, "verified")
       \/ Goto(c, "closed")
    /\ UNCHANGED <<hub, acct, blocked, notice, bus, service, stored, seen, lost>>

CheckBlocklist(c) ==
    /\ conn[c].pc = "verified"
    /\ \/ ~blocked /\ Goto(c, "admitted")
       \/ Goto(c, "closed")
    /\ UNCHANGED <<hub, acct, blocked, notice, bus, service, stored, seen, lost>>

Register(c) ==
    /\ conn[c].pc = "admitted"
    /\ IF Cardinality(hub) >= MaxConnections
       THEN Goto(c, "closed") /\ UNCHANGED hub
       ELSE Goto(c, "registered") /\ hub' = hub \union {c}
    /\ UNCHANGED <<acct, blocked, notice, bus, service, stored, seen, lost>>

\* Mutant: the checks before the registration are trusted.
RecheckSkipped(c) ==
    /\ conn[c].pc = "registered"
    /\ Goto(c, "accepted")
    /\ UNCHANGED <<hub, acct, blocked, notice, bus, service, stored, seen, lost>>

\* The durable recheck after the registration; an error counts as wiped.
RecheckWiped(c) ==
    /\ conn[c].pc = "registered"
    /\ \/ ~WipedOrMissing /\ Goto(c, "accepted") /\ UNCHANGED hub
       \/ /\ conn' = [conn EXCEPT ![c] = [ShutDown(@) EXCEPT !.pc = "closed"]]
          /\ hub' = hub \ {c}
    /\ UNCHANGED <<acct, blocked, notice, bus, service, stored, seen, lost>>

\* The select on done, then auth_ok.
Greet(c) ==
    /\ conn[c].pc = "accepted"
    /\ IF Done(c) THEN Goto(c, "closed") /\ hub' = hub \ {c}
                  ELSE Goto(c, "greeted") /\ UNCHANGED hub
    /\ UNCHANGED <<acct, blocked, notice, bus, service, stored, seen, lost>>

Subscribe(c) ==
    /\ conn[c].pc = "greeted"
    /\ \/ /\ conn[c].shows
          /\ conn' = [conn EXCEPT ![c].pc = "subscribed", ![c].sub = "held"]
       \/ Goto(c, "opening")
    /\ UNCHANGED <<hub, acct, blocked, notice, bus, service, stored, seen, lost>>

\* Mutant: the subscription is stored whether or not the client is shut down.
SetPresenceSubAlways(c) ==
    /\ conn[c].pc = "subscribed"
    /\ conn' = [conn EXCEPT ![c].pc = "opening", ![c].sub = "stored"]
    /\ UNCHANGED <<hub, acct, blocked, notice, bus, service, stored, seen, lost>>

\* setPresenceSub, under presenceMu.
SetPresenceSub(c) ==
    /\ conn[c].pc = "subscribed"
    /\ conn' = [conn EXCEPT ![c].pc = "opening",
                            ![c].sub = IF Done(c) THEN "none" ELSE "stored"]
    /\ UNCHANGED <<hub, acct, blocked, notice, bus, service, stored, seen, lost>>

\* Presence online, then the loops start (the drain is in OfflineQueue).
GoOnline(c) ==
    /\ conn[c].pc = "opening"
    /\ Goto(c, "running")
    /\ IF conn[c].shows THEN Publish("online") ELSE UNCHANGED <<bus, lost>>
    /\ UNCHANGED <<hub, acct, blocked, notice, service, stored, seen>>

\* readLoop got a frame: the marker in PostgreSQL, the blocklist in Redis and
\* the frame budget.  terminateWiped shuts the client down first.
ReadFrame(c) ==
    /\ conn[c].pc = "running"
    /\ \/ acct # "marked" /\ ~blocked /\ Goto(c, "dispatching")
       \/ conn' = [conn EXCEPT ![c] = [ShutDown(@) EXCEPT !.pc = "unwinding"]]
    /\ UNCHANGED <<hub, acct, blocked, notice, bus, service, stored, seen, lost>>

\* router.Dispatch: a presence frame is published under the session's own uin
\* (a client with presence disabled sends none), others change nothing here.
Dispatch(c) ==
    /\ conn[c].pc = "dispatching"
    /\ Goto(c, "running")
    /\ \/ conn[c].shows /\ Len(bus) < MaxBus /\ Publish("away")
       \/ UNCHANGED <<bus, lost>>
    /\ UNCHANGED <<hub, acct, blocked, notice, service, stored, seen>>

\* The socket closes, fails or stays silent past the read deadline.
ReadEnds(c) ==
    /\ conn[c].pc = "running"
    /\ conn' = [conn EXCEPT ![c] = [ShutDown(@) EXCEPT !.pc = "unwinding"]]
    /\ UNCHANGED <<hub, acct, blocked, notice, bus, service, stored, seen, lost>>

\* A write error in writeLoop: only done is signalled.
WriteFails(c) ==
    /\ conn[c].pc \in {"running", "dispatching"}
    /\ conn' = [conn EXCEPT ![c] = ShutDown(@)]
    /\ UNCHANGED <<hub, acct, blocked, notice, bus, service, stored, seen, lost>>

\* The rest of shutdown(), under presenceMu.
TakePresenceSub(c) ==
    /\ conn[c].teardown = "closing"
    /\ conn' = [conn EXCEPT ![c].teardown = "done",
                            ![c].sub = IF @ = "stored" THEN "none" ELSE @]
    /\ UNCHANGED <<hub, acct, blocked, notice, bus, service, stored, seen, lost>>

\* ServeHTTP after readLoop (which waits for shutdown()): Unregister, then
\* presence offline, then the close frame.
Unregister(c) ==
    /\ conn[c].pc = "unwinding" /\ conn[c].teardown = "done"
    /\ Goto(c, "leaving")
    /\ hub' = hub \ {c}
    /\ UNCHANGED <<acct, blocked, notice, bus, service, stored, seen, lost>>

\* Mutant: offline is published only by the last connection the hub knows.
GoOfflineIfLast(c) ==
    /\ conn[c].pc = "leaving"
    /\ Goto(c, "closed")
    /\ IF conn[c].shows /\ hub = {} THEN Publish("offline") ELSE UNCHANGED <<bus, lost>>
    /\ UNCHANGED <<hub, acct, blocked, notice, service, stored, seen>>

GoOffline(c) ==
    /\ conn[c].pc = "leaving"
    /\ Goto(c, "closed")
    /\ IF conn[c].shows THEN Publish("offline") ELSE UNCHANGED <<bus, lost>>
    /\ UNCHANGED <<hub, acct, blocked, notice, service, stored, seen>>

-----------------------------------------------------------------------------
\* The panic wipe as the gateway sees it (AccountWipe has its own steps):
\* blocklist, transaction (or rollback), presence key, notification.
WipeBlocks ==
    /\ acct = "live" /\ ~blocked
    /\ blocked' = TRUE
    /\ UNCHANGED <<conn, hub, acct, notice, bus, service, stored, seen, lost>>

WipeRollsBack ==
    /\ acct = "live" /\ blocked
    /\ blocked' = FALSE
    /\ UNCHANGED <<conn, hub, acct, notice, bus, service, stored, seen, lost>>

WipeCommits ==
    /\ acct = "live" /\ blocked
    /\ acct' = "marked"
    /\ notice' = "owed"
    /\ UNCHANGED <<conn, hub, blocked, bus, service, stored, seen, lost>>

WipePublishes ==
    /\ notice = "owed"
    /\ notice' \in {"sent", "missed"}
    /\ stored' \in {stored, "none"}
    /\ UNCHANGED <<conn, hub, acct, blocked, bus, service, seen, lost>>

\* The worker's final erasure: user row, marker and Redis keys.
FinalErase ==
    /\ acct = "marked"
    /\ acct' = "gone"
    /\ blocked' = FALSE
    /\ stored' = "none"
    /\ UNCHANGED <<conn, hub, notice, bus, service, seen, lost>>

\* handleAccountWipedNotification: verified against PostgreSQL (a failed check
\* drops it), then one goroutine per connection of the hub's snapshot.
HandleAccountWiped ==
    /\ notice = "sent"
    /\ \/ /\ WipedOrMissing
          /\ notice' = "handled"
          /\ conn' = [c \in Conns |-> IF c \in hub THEN [conn[c] EXCEPT !.closer = "started"]
                                      ELSE conn[c]]
       \/ notice' = "missed" /\ UNCHANGED conn
    /\ UNCHANGED <<hub, acct, blocked, bus, service, stored, seen, lost>>

\* terminateWiped in that goroutine.
CloseWiped(c) ==
    /\ conn[c].closer = "started"
    /\ conn' = [conn EXCEPT ![c] = [ShutDown(@) EXCEPT !.closer = "ended"]]
    /\ UNCHANGED <<hub, acct, blocked, notice, bus, service, stored, seen, lost>>

-----------------------------------------------------------------------------
\* presence-service.  handlePresenceUpdate stores first and notifies the
\* accepted contacts after a query; either may fail.
SetStatus ==
    /\ service = "idle" /\ bus # <<>>
    /\ bus' = Tail(bus)
    /\ \/ stored' = Head(bus) /\ service' = Head(bus) /\ UNCHANGED lost
       \/ lost' = TRUE /\ UNCHANGED <<stored, service>>
    /\ UNCHANGED <<conn, hub, acct, blocked, notice, seen>>

NotifyContacts ==
    /\ service # "idle"
    /\ service' = "idle"
    /\ \/ seen' = service /\ UNCHANGED lost
       \/ lost' = TRUE /\ UNCHANGED seen
    /\ UNCHANGED <<conn, hub, acct, blocked, notice, bus, stored>>

\* The key's time to live ends.
PresenceExpires ==
    /\ stored # "none"
    /\ stored' = "none"
    /\ UNCHANGED <<conn, hub, acct, blocked, notice, bus, service, seen, lost>>

\* GetPresence, GetBulkPresence: no record reads as offline.
Presence == IF stored = "none" THEN "offline" ELSE stored

-----------------------------------------------------------------------------
GatewayNext ==
    \/ \E c \in Conns :
         \/ Verify(c) \/ CheckBlocklist(c) \/ Register(c) \/ RecheckWiped(c) \/ Greet(c)
         \/ Subscribe(c) \/ SetPresenceSub(c) \/ GoOnline(c) \/ ReadFrame(c) \/ Dispatch(c)
         \/ ReadEnds(c) \/ WriteFails(c) \/ TakePresenceSub(c) \/ Unregister(c)
         \/ GoOffline(c) \/ CloseWiped(c)
    \/ WipeBlocks \/ WipeRollsBack \/ WipeCommits \/ WipePublishes \/ FinalErase
    \/ HandleAccountWiped
    \/ SetStatus \/ NotifyContacts \/ PresenceExpires

GatewaySpec == GatewayInit /\ [][GatewayNext]_gatewayVars

-----------------------------------------------------------------------------
(***************************************************************************)
(* Properties                                                              *)
(***************************************************************************)

\* "Close the check/register race" (client.go): once the gateway has handled
\* the wipe notification, every session that got past its recheck is shut
\* down or has the closing goroutine on it, whichever of the registration,
\* the hub's snapshot and the commit came first.
WipedIsCut ==
    notice = "handled" =>
        \A c \in Conns :
            conn[c].pc \in {"accepted", "greeted", "subscribed", "opening", "running",
                            "dispatching"}
                => Done(c) \/ conn[c].closer = "started"

\* A shut-down client leaves no presence.notify subscription behind, although
\* shutdown() can run while ServeHTTP is still subscribing (setPresenceSub and
\* shutdown under presenceMu).
NoStrandedSubscription ==
    \A c \in Conns :
        conn[c].teardown = "done" \/ conn[c].pc = "closed" => conn[c].sub # "stored"

\* When every session has ended and the bus is drained, the account reads as
\* offline and its contact was told so, however the sessions overlapped and
\* whoever closed them, unless a publish, write or lookup failed.
PresenceSettles ==
    (/\ \A c \in Conns : conn[c].pc \in {"new", "closed"}
     /\ bus = <<>> /\ service = "idle" /\ ~lost)
        => Presence = "offline" /\ seen \in {"none", "offline"}
=============================================================================
