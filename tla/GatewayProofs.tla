---------------------------- MODULE GatewayProofs ----------------------------
(***************************************************************************)
(* Proofs about ws-gateway for any number of connections, subscriptions and *)
(* frames: the sessions of an account against its wipe and its presence     *)
(* (GatewaySessions), and the undelivered list (OfflineQueue).              *)
(***************************************************************************)
EXTENDS GatewaySessions, OfflineQueue, FiniteSetTheorems,
        SequenceTheorems, TLAPS

-----------------------------------------------------------------------------
(***************************************************************************)
(* GatewaySessions                                                         *)
(***************************************************************************)

\* The steps of ServeHTTP with the connection in the hub's map, those before
\* the subscription, and those between presence online and offline.
InHub == {"registered", "accepted", "greeted", "subscribed", "opening", "running",
          "dispatching", "unwinding"}
Unsubscribed == {"new", "verified", "admitted", "registered", "accepted", "greeted"}
Online == {"running", "dispatching", "unwinding", "leaving"}

\* A connection past its registration is in the hub's snapshot.
HubInv == \A c \in Conns : conn[c].pc \in InHub => c \in hub

\* Whoever publishes account.wiped has committed the wipe.
NoticeInv == notice # "none" => acct # "live"

\* Subscriptions are made once, and readLoop returns only after shutdown().
SubInv ==
    \A c \in Conns : /\ conn[c].pc \in Unsubscribed => conn[c].sub = "none"
                     /\ conn[c].pc = "leaving" => conn[c].teardown = "done"

\* When nobody is online the last thing said, on the bus, in the presence
\* service or in what it stored and told, is offline.
LastWord ==
    (~ lost /\ \A c \in Conns : conn[c].shows => conn[c].pc \notin Online) =>
        IF bus # <<>> THEN bus[Len(bus)] = "offline"
        ELSE /\ stored \in {"none", "offline"}
             /\ IF service # "idle" THEN service = "offline"
                ELSE seen \in {"none", "offline"}

SessionsInv ==
    /\ GatewayTypeOK /\ IsFiniteSet(hub)
    /\ HubInv /\ NoticeInv /\ SubInv /\ LastWord
    /\ WipedIsCut /\ NoStrandedSubscription

\* No connection, no wipe and no status at the start.
LEMMA SessionsInitInv ==
    ASSUME GatewayInit
    PROVE  SessionsInv
  <1>1. PICK s \in [Conns -> BOOLEAN] :
          conn = [c \in Conns |-> [pc |-> "new", shows |-> s[c], teardown |-> "no",
                                   sub |-> "none", closer |-> "none"]]
    BY DEF GatewayInit
  <1>2. conn \in [Conns -> Conn]
    <2>1. ASSUME NEW b \in BOOLEAN
          PROVE  [pc |-> "new", shows |-> b, teardown |-> "no", sub |-> "none",
                  closer |-> "none"] \in Conn
      BY DEF Conn
    <2>2. \A c \in Conns : s[c] \in BOOLEAN
      OBVIOUS
    <2>3. \A c \in Conns : [pc |-> "new", shows |-> s[c], teardown |-> "no", sub |-> "none",
                            closer |-> "none"] \in Conn
      BY <2>1, <2>2
    <2> QED
      BY <1>1, <2>3
  <1>3. GatewayTypeOK /\ IsFiniteSet(hub)
    <2>1. IsFiniteSet({}) /\ Cardinality({}) <= MaxConnections
      BY FS_EmptySet, GatewayAssumption
    <2>2. /\ hub = {} /\ acct = "live" /\ blocked = FALSE /\ notice = "none" /\ bus = <<>>
          /\ service = "idle" /\ stored = "none" /\ seen = "none" /\ lost = FALSE
      BY DEF GatewayInit
    <2>3. bus \in Seq(Status)
      BY <2>2
    <2> QED
      BY <1>2, <2>1, <2>2, <2>3 DEF GatewayTypeOK
  <1>4. \A c \in Conns : conn[c].pc = "new" /\ conn[c].sub = "none" /\ conn[c].teardown = "no"
    BY <1>1
  <1> QED
    BY <1>3, <1>4 DEF GatewayInit, SessionsInv, HubInv, NoticeInv, SubInv, LastWord, WipedIsCut,
                      NoStrandedSubscription, InHub, Unsubscribed, Online

\* Only one connection changes, and it keeps its mode.
Moves(c) ==
    /\ conn' \in [Conns -> Conn]
    /\ \A d \in Conns : d # c => conn'[d] = conn[d]
    /\ conn'[c].shows = conn[c].shows
    /\ Done(c) => conn'[c].teardown # "no"

\* What a step of connection c has to respect.
Respects(c) ==
    /\ Moves(c)
    /\ hub' = hub \/ (hub' = hub \ {c} /\ conn'[c].pc \notin InHub)
    /\ conn'[c].pc \in InHub => conn[c].pc \in InHub
    /\ conn'[c].pc \in Unsubscribed => conn[c].pc \in Unsubscribed /\ conn'[c].sub = "none"
    /\ conn'[c].pc = "leaving" => conn'[c].teardown = "done"
    /\ conn'[c].teardown = "done" \/ conn'[c].pc = "closed" => conn'[c].sub # "stored"
    /\ notice = "handled" /\ conn'[c].pc \in InHub \ {"registered", "unwinding"} =>
           conn'[c].teardown # "no" \/ conn'[c].closer = "started"

\* A step of one connection that respects the hub, its subscription and the
\* wipe keeps the invariant for all connections.
LEMMA SessionStep ==
    ASSUME SessionsInv, NEW c \in Conns, Respects(c),
           UNCHANGED <<acct, blocked, notice, service, stored, seen>>,
           bus' \in Seq(Status), lost' \in BOOLEAN, LastWord'
    PROVE  SessionsInv'
  <1> USE DEF SessionsInv
  <1>1. hub' \subseteq hub /\ IsFiniteSet(hub') /\ Cardinality(hub') <= MaxConnections
    <2>1. hub' \in SUBSET hub
      BY DEF Respects
    <2>2. IsFiniteSet(hub') /\ Cardinality(hub') <= Cardinality(hub)
      BY <2>1, FS_Subset
    <2>3. Cardinality(hub) \in Nat /\ Cardinality(hub') \in Nat
      BY <2>2, FS_CardinalityType
    <2> QED
      BY <2>1, <2>2, <2>3, GatewayAssumption DEF GatewayTypeOK
  <1>2. GatewayTypeOK'
    BY <1>1 DEF GatewayTypeOK, Moves, Respects
  <1>3. HubInv' /\ NoticeInv' /\ SubInv' /\ NoStrandedSubscription'
    BY DEF HubInv, NoticeInv, SubInv, NoStrandedSubscription, Moves, Respects
  <1>4. WipedIsCut'
    BY DEF WipedIsCut, Moves, Done, InHub, Respects
  <1> QED
    BY <1>1, <1>2, <1>3, <1>4

\* ... and one that says nothing about presence.
LEMMA ConnStep ==
    ASSUME SessionsInv, NEW c \in Conns, Respects(c),
           UNCHANGED <<acct, blocked, notice, bus, service, stored, seen, lost>>,
           conn[c].shows /\ conn[c].pc \in Online => conn'[c].pc \in Online
    PROVE  SessionsInv'
  <1>1. (\A d \in Conns : conn'[d].shows => conn'[d].pc \notin Online) =>
            \A d \in Conns : conn[d].shows => conn[d].pc \notin Online
    BY DEF Moves, Respects
  <1>2. LastWord'
    BY <1>1 DEF SessionsInv, LastWord
  <1> QED
    BY <1>2, SessionStep DEF SessionsInv, GatewayTypeOK

\* What the code of one step makes of one Client.
LEMMA Changed ==
    ASSUME GatewayTypeOK, NEW c \in Conns, NEW k \in Conn, conn' = [conn EXCEPT ![c] = k],
           k.shows = conn[c].shows, Done(c) => k.teardown # "no"
    PROVE  Moves(c) /\ conn'[c] = k
  BY DEF GatewayTypeOK, Moves

\* Goto, and the end of ServeHTTP with the connection shut down.
LEMMA Gone ==
    ASSUME GatewayTypeOK, NEW c \in Conns,
           NEW pc \in {"new", "verified", "admitted", "registered", "accepted", "greeted",
                       "subscribed", "opening", "running", "dispatching", "unwinding",
                       "leaving", "closed"},
           \/ Goto(c, pc)
           \/ conn' = [conn EXCEPT ![c] = [ShutDown(@) EXCEPT !.pc = pc]]
    PROVE  /\ Moves(c) /\ conn'[c].pc = pc /\ conn'[c].sub = conn[c].sub
           /\ conn'[c].closer = conn[c].closer
           /\ conn'[c].teardown = "done" <=> conn[c].teardown = "done"
           /\ Goto(c, pc) => conn'[c].teardown = conn[c].teardown
  <1>1. conn \in [Conns -> Conn] /\ conn[c] \in Conn
    BY DEF GatewayTypeOK
  <1>2. CASE Goto(c, pc)
    <2>1. [conn[c] EXCEPT !.pc = pc] \in Conn
      BY <1>1 DEF Conn
    <2>2. conn' = [conn EXCEPT ![c] = [conn[c] EXCEPT !.pc = pc]]
      BY <1>2 DEF Goto
    <2> QED
      BY <1>1, <2>1, <2>2, Changed DEF Conn, Done
  <1>3. CASE conn' = [conn EXCEPT ![c] = [ShutDown(@) EXCEPT !.pc = pc]]
    <2> DEFINE k == [ShutDown(conn[c]) EXCEPT !.pc = pc]
    <2>1. /\ k \in Conn /\ k.pc = pc /\ k.sub = conn[c].sub /\ k.closer = conn[c].closer
          /\ k.shows = conn[c].shows /\ k.teardown # "no"
          /\ k.teardown = "done" <=> conn[c].teardown = "done"
      BY <1>1 DEF Conn, ShutDown
    <2>2. conn' = [conn EXCEPT ![c] = k]
      BY <1>3
    <2>3. ~ Goto(c, pc) \/ conn'[c].teardown = conn[c].teardown
      BY <1>1 DEF Goto, Conn
    <2> HIDE DEF k
    <2> QED
      BY <2>1, <2>2, <2>3, Changed
  <1> QED
    BY <1>2, <1>3

\* A connection that ends before or in its handshake, or in its teardown.
LEMMA ClosedStep ==
    ASSUME SessionsInv, NEW c \in Conns, hub' \in {hub, hub \ {c}},
           UNCHANGED <<acct, blocked, notice, bus, service, stored, seen, lost>>,
           \/ Goto(c, "closed")
           \/ conn' = [conn EXCEPT ![c] = [ShutDown(@) EXCEPT !.pc = "closed"]],
           conn[c].sub # "stored", conn[c].pc \notin Online
    PROVE  SessionsInv'
  <1>1. /\ Moves(c) /\ conn'[c].pc = "closed" /\ conn'[c].sub = conn[c].sub
    BY Gone DEF SessionsInv
  <1> QED
    BY <1>1, ConnStep DEF InHub, Unsubscribed, Online, Respects

\* The wipe, its notification and the presence service leave the
\* connections alone.
LEMMA OutsideStep ==
    ASSUME SessionsInv, UNCHANGED <<conn, hub>>, GatewayTypeOK', NoticeInv', LastWord',
           notice' = "handled" => notice = "handled"
    PROVE  SessionsInv'
  BY DEF SessionsInv, HubInv, SubInv, WipedIsCut, NoStrandedSubscription, Done

\* A publish without error leaves its status last on the bus.
LEMMA Published ==
    ASSUME GatewayTypeOK, NEW status \in Status, Publish(status)
    PROVE  /\ bus' \in Seq(Status) /\ lost' \in BOOLEAN
           /\ ~ lost' => bus' # <<>> /\ bus'[Len(bus')] = status
  <1>1. bus \in Seq(Status) /\ lost \in BOOLEAN
    BY DEF GatewayTypeOK
  <1>2. CASE bus' = Append(bus, status) /\ UNCHANGED lost
    BY <1>1, <1>2
  <1>3. CASE lost' = TRUE /\ UNCHANGED bus
    BY <1>1, <1>3
  <1> QED
    BY <1>2, <1>3 DEF Publish

\* Taking the head off a queue leaves its last element.
LEMMA TailLast ==
    ASSUME NEW S, NEW q \in Seq(S), q # <<>>
    PROVE  /\ Tail(q) # <<>> => Tail(q)[Len(Tail(q))] = q[Len(q)]
           /\ Tail(q) = <<>> => Head(q) = q[Len(q)]
  <1>1. Len(q) \in Nat \ {0} /\ Len(Tail(q)) = Len(q) - 1 /\ Tail(q) \in Seq(S)
    BY EmptySeq, HeadTailProperties
  <1>2. \A i \in 1 .. Len(q) - 1 : Tail(q)[i] = q[i + 1]
    BY <1>1, HeadTailProperties
  <1>3. Tail(q) = <<>> <=> Len(Tail(q)) = 0
    BY <1>1, EmptySeq
  <1>4. CASE Tail(q) = <<>>
    <2>1. Len(q) = 1
      BY <1>1, <1>3, <1>4
    <2> QED
      BY <1>4, <2>1
  <1>5. CASE Tail(q) # <<>>
    <2>1. Len(q) - 1 \in 1 .. Len(q) - 1 /\ (Len(q) - 1) + 1 = Len(q)
      BY <1>1, <1>3, <1>5
    <2> QED
      BY <1>1, <1>2, <1>5, <2>1
  <1> QED
    BY <1>4, <1>5

\* Every step of a connection, the wipe or the presence service keeps the
\* invariant.
LEMMA SessionsNextInv ==
    ASSUME SessionsInv, [GatewayNext]_gatewayVars
    PROVE  SessionsInv'
  <1>1. ASSUME NEW c \in Conns, Verify(c) \/ CheckBlocklist(c)
        PROVE  SessionsInv'
    <2>1. /\ UNCHANGED <<hub, acct, blocked, notice, bus, service, stored, seen, lost>>
          /\ conn[c].pc \in {"new", "verified"} /\ conn[c].sub = "none"
      BY <1>1 DEF Verify, CheckBlocklist, SessionsInv, SubInv, Unsubscribed
    <2>2. CASE Goto(c, "closed")
      BY <2>1, <2>2, ClosedStep DEF Online
    <2>3. ASSUME NEW pc \in {"verified", "admitted"}, Goto(c, pc)
          PROVE  SessionsInv'
      <3>1. Moves(c) /\ conn'[c].pc = pc /\ conn'[c].sub = "none"
        BY <2>1, <2>3, Gone DEF SessionsInv
      <3> QED
        BY <2>1, <3>1, ConnStep DEF InHub, Unsubscribed, Online, Respects
    <2> QED
      BY <1>1, <2>2, <2>3 DEF Verify, CheckBlocklist
  <1>2. ASSUME NEW c \in Conns, Register(c)
        PROVE  SessionsInv'
    <2>1. /\ UNCHANGED <<acct, blocked, notice, bus, service, stored, seen, lost>>
          /\ conn[c].pc = "admitted" /\ conn[c].sub = "none"
      BY <1>2 DEF Register, SessionsInv, SubInv, Unsubscribed
    <2>2. CASE Cardinality(hub) >= MaxConnections
      BY <1>2, <2>1, <2>2, ClosedStep DEF Register, Online
    <2>3. CASE ~ (Cardinality(hub) >= MaxConnections)
      <3>1. Goto(c, "registered") /\ hub' = hub \union {c}
        BY <1>2, <2>3 DEF Register
      <3>2. Moves(c) /\ conn'[c].pc = "registered" /\ conn'[c].sub = "none"
        BY <2>1, <3>1, Gone DEF SessionsInv
      <3>3. IsFiniteSet(hub') /\ Cardinality(hub') <= Cardinality(hub) + 1
        <4>1. IsFiniteSet(hub)
          BY DEF SessionsInv
        <4>2. IsFiniteSet(hub \union {c}) /\ Cardinality(hub) \in Nat
              /\ Cardinality(hub \union {c}) =
                   IF c \in hub THEN Cardinality(hub) ELSE Cardinality(hub) + 1
          BY <4>1, FS_AddElement, FS_CardinalityType
        <4> QED
          BY <3>1, <4>2
      <3>4. Cardinality(hub) \in Nat /\ Cardinality(hub') \in Nat
        BY <3>3, FS_CardinalityType DEF SessionsInv
      <3>5. Cardinality(hub') <= MaxConnections
        BY <2>3, <3>3, <3>4, GatewayAssumption
      <3>6. GatewayTypeOK'
        BY <2>1, <3>1, <3>2, <3>5 DEF SessionsInv, GatewayTypeOK, Moves
      <3>7. HubInv' /\ NoticeInv' /\ SubInv' /\ NoStrandedSubscription'
        BY <2>1, <3>1, <3>2 DEF SessionsInv, HubInv, NoticeInv, SubInv, NoStrandedSubscription,
                                Moves, InHub
      <3>8. WipedIsCut'
        BY <2>1, <3>2 DEF SessionsInv, WipedIsCut, Moves, Done
      <3>9. LastWord'
        <4>1. (\A d \in Conns : conn'[d].shows => conn'[d].pc \notin Online) =>
                \A d \in Conns : conn[d].shows => conn[d].pc \notin Online
          BY <2>1, <3>2 DEF Moves, Online
        <4> QED
          BY <2>1, <4>1 DEF SessionsInv, LastWord
      <3> QED
        BY <3>3, <3>6, <3>7, <3>8, <3>9 DEF SessionsInv
    <2> QED
      BY <2>2, <2>3
  <1>3. ASSUME NEW c \in Conns, RecheckWiped(c)
        PROVE  SessionsInv'
    <2>1. /\ UNCHANGED <<acct, blocked, notice, bus, service, stored, seen, lost>>
          /\ conn[c].pc = "registered" /\ conn[c].sub = "none"
      BY <1>3 DEF RecheckWiped, SessionsInv, SubInv, Unsubscribed
    <2>2. CASE acct = "live" /\ Goto(c, "accepted") /\ UNCHANGED hub
      <3>1. Moves(c) /\ conn'[c].pc = "accepted" /\ conn'[c].sub = "none"
        BY <2>1, <2>2, Gone DEF SessionsInv
      <3>2. notice # "handled"
        BY <2>2 DEF SessionsInv, NoticeInv
      <3> QED
        BY <2>1, <2>2, <3>1, <3>2, ConnStep DEF InHub, Unsubscribed, Online, Respects
    <2>3. CASE /\ conn' = [conn EXCEPT ![c] = [ShutDown(@) EXCEPT !.pc = "closed"]]
               /\ hub' = hub \ {c}
      BY <2>1, <2>3, ClosedStep DEF Online
    <2> QED
      BY <1>3, <2>2, <2>3 DEF RecheckWiped, WipedOrMissing
  <1>4. ASSUME NEW c \in Conns, Greet(c)
        PROVE  SessionsInv'
    <2>1. /\ UNCHANGED <<acct, blocked, notice, bus, service, stored, seen, lost>>
          /\ conn[c].pc = "accepted" /\ conn[c].sub = "none"
      BY <1>4 DEF Greet, SessionsInv, SubInv, Unsubscribed
    <2>2. CASE Goto(c, "greeted") /\ UNCHANGED hub
      <3>1. /\ Moves(c) /\ conn'[c].pc = "greeted" /\ conn'[c].sub = "none"
            /\ conn'[c].teardown = conn[c].teardown /\ conn'[c].closer = conn[c].closer
        BY <2>1, <2>2, Gone DEF SessionsInv
      <3>2. notice = "handled" => conn[c].teardown # "no" \/ conn[c].closer = "started"
        BY <2>1 DEF SessionsInv, WipedIsCut, Done
      <3> QED
        BY <2>1, <2>2, <3>1, <3>2, ConnStep DEF InHub, Unsubscribed, Online, Respects
    <2> QED
      BY <1>4, <2>1, <2>2, ClosedStep DEF Greet, Online
  <1>5. ASSUME NEW c \in Conns, Subscribe(c) \/ SetPresenceSub(c)
        PROVE  SessionsInv'
    <2>1. /\ UNCHANGED <<hub, acct, blocked, notice, bus, service, stored, seen, lost>>
          /\ conn[c].pc \in {"greeted", "subscribed"}
          /\ conn[c].pc = "greeted" => conn[c].sub = "none"
      BY <1>5 DEF Subscribe, SetPresenceSub, SessionsInv, SubInv, Unsubscribed
    <2>2. PICK pc \in {"subscribed", "opening"}, sub \in {"none", "held", "stored"} :
            /\ conn' = [conn EXCEPT ![c] = [conn[c] EXCEPT !.pc = pc, !.sub = sub]]
            /\ Done(c) => sub # "stored"
      <3>1. conn \in [Conns -> Conn] /\ conn[c] \in Conn
        BY DEF SessionsInv, GatewayTypeOK
      <3>2. CASE conn' = [conn EXCEPT ![c].pc = "subscribed", ![c].sub = "held"]
        <4>1. conn' = [conn EXCEPT ![c] = [conn[c] EXCEPT !.pc = "subscribed", !.sub = "held"]]
          BY <3>1, <3>2
        <4> QED
          BY <4>1
      <3>3. CASE Goto(c, "opening") /\ conn[c].sub = "none"
        <4>1. conn' = [conn EXCEPT ![c] = [conn[c] EXCEPT !.pc = "opening", !.sub = "none"]]
          BY <3>1, <3>3 DEF Goto, Conn
        <4> QED
          BY <4>1
      <3>4. CASE conn' = [conn EXCEPT ![c].pc = "opening",
                                      ![c].sub = IF Done(c) THEN "none" ELSE "stored"]
        <4>1. conn' = [conn EXCEPT ![c] =
                         [conn[c] EXCEPT !.pc = "opening",
                                         !.sub = IF Done(c) THEN "none" ELSE "stored"]]
          BY <3>1, <3>4
        <4>2. CASE Done(c)
          BY <4>1, <4>2
        <4>3. CASE ~ Done(c)
          BY <4>1, <4>3
        <4> QED
          BY <4>2, <4>3
      <3> QED
        BY <1>5, <2>1, <3>2, <3>3, <3>4 DEF Subscribe, SetPresenceSub
    <2> DEFINE k == [conn[c] EXCEPT !.pc = pc, !.sub = sub]
    <2>3. /\ k \in Conn /\ k.pc = pc /\ k.sub = sub /\ k.teardown = conn[c].teardown
          /\ k.closer = conn[c].closer /\ k.shows = conn[c].shows
      BY DEF SessionsInv, GatewayTypeOK, Conn
    <2>4. conn' = [conn EXCEPT ![c] = k]
      BY <2>2
    <2> HIDE DEF k
    <2>5. Moves(c) /\ conn'[c] = k
      BY <2>3, <2>4, Changed DEF SessionsInv, Done
    <2>6. notice = "handled" => conn[c].teardown # "no" \/ conn[c].closer = "started"
      BY <2>1 DEF SessionsInv, WipedIsCut, Done
    <2>7. Respects(c)
      BY <2>1, <2>2, <2>3, <2>5, <2>6 DEF Respects, InHub, Unsubscribed, Done
    <2> QED
      BY <2>1, <2>7, ConnStep DEF Online
  <1>6. ASSUME NEW c \in Conns, GoOnline(c) \/ Dispatch(c)
        PROVE  SessionsInv'
    <2>1. /\ UNCHANGED <<hub, acct, blocked, notice, service, stored, seen>>
          /\ Goto(c, "running") /\ conn[c].pc \in {"opening", "dispatching"}
          /\ \/ conn[c].shows /\ \E status \in Status : Publish(status)
             \/ ~ conn[c].shows /\ UNCHANGED <<bus, lost>>
             \/ conn[c].pc = "dispatching" /\ UNCHANGED <<bus, lost>>
      BY <1>6 DEF GoOnline, Dispatch, Status
    <2>2. /\ Moves(c) /\ conn'[c].pc = "running" /\ conn'[c].sub = conn[c].sub
          /\ conn'[c].teardown = conn[c].teardown /\ conn'[c].closer = conn[c].closer
      BY <2>1, Gone DEF SessionsInv
    <2>3. /\ notice = "handled" => conn[c].teardown # "no" \/ conn[c].closer = "started"
          /\ conn[c].teardown = "done" => conn[c].sub # "stored"
      BY <2>1 DEF SessionsInv, WipedIsCut, NoStrandedSubscription, Done
    <2>4. Respects(c)
      BY <2>1, <2>2, <2>3 DEF Respects, InHub, Unsubscribed
    <2>5. CASE conn[c].shows
      <3>1. bus' \in Seq(Status) /\ lost' \in BOOLEAN
        BY <2>1, Published DEF SessionsInv, GatewayTypeOK
      <3>2. conn'[c].shows /\ conn'[c].pc \in Online
        BY <2>2, <2>5 DEF Moves, Online
      <3>3. LastWord'
        BY <3>2 DEF LastWord
      <3> QED
        BY <2>1, <2>4, <3>1, <3>3, SessionStep
    <2>6. CASE ~ conn[c].shows
      BY <2>1, <2>4, <2>6, ConnStep
    <2> QED
      BY <2>5, <2>6
  <1>7. ASSUME NEW c \in Conns, ReadFrame(c) \/ ReadEnds(c)
        PROVE  SessionsInv'
    <2>1. /\ UNCHANGED <<hub, acct, blocked, notice, bus, service, stored, seen, lost>>
          /\ conn[c].pc = "running"
      BY <1>7 DEF ReadFrame, ReadEnds
    <2>2. /\ notice = "handled" => conn[c].teardown # "no" \/ conn[c].closer = "started"
          /\ conn[c].teardown = "done" => conn[c].sub # "stored"
      BY <2>1 DEF SessionsInv, WipedIsCut, NoStrandedSubscription, Done
    <2>3. CASE Goto(c, "dispatching")
      <3>1. /\ Moves(c) /\ conn'[c].pc = "dispatching" /\ conn'[c].sub = conn[c].sub
            /\ conn'[c].teardown = conn[c].teardown /\ conn'[c].closer = conn[c].closer
        BY <2>3, Gone DEF SessionsInv
      <3> QED
        BY <2>1, <2>2, <3>1, ConnStep DEF InHub, Unsubscribed, Online, Respects
    <2>4. CASE conn' = [conn EXCEPT ![c] = [ShutDown(@) EXCEPT !.pc = "unwinding"]]
      <3>1. /\ Moves(c) /\ conn'[c].pc = "unwinding" /\ conn'[c].sub = conn[c].sub
            /\ conn'[c].teardown = "done" <=> conn[c].teardown = "done"
        BY <2>4, Gone DEF SessionsInv
      <3> QED
        BY <2>1, <2>2, <3>1, ConnStep DEF InHub, Unsubscribed, Online, Respects
    <2> QED
      BY <1>7, <2>3, <2>4 DEF ReadFrame, ReadEnds
  <1>8. ASSUME NEW c \in Conns, WriteFails(c) \/ CloseWiped(c)
        PROVE  SessionsInv'
    <2>1. UNCHANGED <<hub, acct, blocked, notice, bus, service, stored, seen, lost>>
      BY <1>8 DEF WriteFails, CloseWiped
    <2>2. PICK e \in {"none", "started", "ended"} :
            conn' = [conn EXCEPT ![c] = [ShutDown(conn[c]) EXCEPT !.closer = e]]
      <3>1. conn[c] \in Conn
        BY DEF SessionsInv, GatewayTypeOK
      <3>2. CASE WriteFails(c)
        <4>1. ShutDown(conn[c]) = [ShutDown(conn[c]) EXCEPT !.closer = conn[c].closer]
          BY <3>1 DEF ShutDown, Conn
        <4>2. conn' = [conn EXCEPT ![c] = ShutDown(conn[c])]
          BY <3>2 DEF WriteFails
        <4>3. conn[c].closer \in {"none", "started", "ended"}
          BY <3>1 DEF Conn
        <4> QED
          BY <4>1, <4>2, <4>3
      <3>3. CASE CloseWiped(c)
        BY <3>3 DEF CloseWiped
      <3> QED
        BY <1>8, <3>2, <3>3
    <2> DEFINE k == [ShutDown(conn[c]) EXCEPT !.closer = e]
    <2>3. /\ k \in Conn /\ k.pc = conn[c].pc /\ k.sub = conn[c].sub /\ k.teardown # "no"
          /\ k.teardown = "done" <=> conn[c].teardown = "done"
          /\ k.shows = conn[c].shows
      BY DEF SessionsInv, GatewayTypeOK, Conn, ShutDown
    <2>4. conn' = [conn EXCEPT ![c] = k]
      BY <2>2
    <2> HIDE DEF k
    <2>5. Moves(c) /\ conn'[c] = k
      BY <2>3, <2>4, Changed DEF SessionsInv
    <2>6. /\ conn[c].teardown = "done" \/ conn[c].pc = "closed" => conn[c].sub # "stored"
          /\ conn[c].pc \in Unsubscribed => conn[c].sub = "none"
          /\ conn[c].pc = "leaving" => conn[c].teardown = "done"
      BY DEF SessionsInv, NoStrandedSubscription, SubInv
    <2>7. Respects(c)
      BY <2>1, <2>3, <2>5, <2>6 DEF Respects
    <2> QED
      BY <2>1, <2>3, <2>5, <2>7, ConnStep
  <1>9. ASSUME NEW c \in Conns, TakePresenceSub(c)
        PROVE  SessionsInv'
    <2>1. /\ UNCHANGED <<hub, acct, blocked, notice, bus, service, stored, seen, lost>>
          /\ conn[c].teardown = "closing"
      BY <1>9 DEF TakePresenceSub
    <2> DEFINE k == [conn[c] EXCEPT !.teardown = "done",
                                    !.sub = IF conn[c].sub = "stored" THEN "none" ELSE conn[c].sub]
    <2>2. /\ k \in Conn /\ k.pc = conn[c].pc /\ k.sub # "stored" /\ k.teardown = "done"
          /\ k.closer = conn[c].closer /\ k.shows = conn[c].shows
          /\ conn[c].sub = "none" => k.sub = "none"
      BY DEF SessionsInv, GatewayTypeOK, Conn
    <2>3. conn' = [conn EXCEPT ![c] = k]
      BY <1>9 DEF TakePresenceSub, SessionsInv, GatewayTypeOK
    <2> HIDE DEF k
    <2>4. Moves(c) /\ conn'[c] = k
      BY <2>2, <2>3, Changed DEF SessionsInv
    <2>5. conn[c].pc \in Unsubscribed => conn[c].sub = "none"
      BY DEF SessionsInv, SubInv
    <2>6. Respects(c)
      BY <2>1, <2>2, <2>4, <2>5 DEF Respects
    <2> QED
      BY <2>1, <2>2, <2>4, <2>6, ConnStep
  <1>10. ASSUME NEW c \in Conns, Unregister(c)
         PROVE  SessionsInv'
    <2>1. /\ UNCHANGED <<acct, blocked, notice, bus, service, stored, seen, lost>>
          /\ conn[c].pc = "unwinding" /\ conn[c].teardown = "done" /\ hub' = hub \ {c}
          /\ Goto(c, "leaving")
      BY <1>10 DEF Unregister
    <2>2. /\ Moves(c) /\ conn'[c].pc = "leaving" /\ conn'[c].sub = conn[c].sub
          /\ conn'[c].teardown = "done"
      BY <2>1, Gone DEF SessionsInv
    <2>3. conn[c].sub # "stored"
      BY <2>1 DEF SessionsInv, NoStrandedSubscription
    <2> QED
      BY <2>1, <2>2, <2>3, ConnStep DEF InHub, Unsubscribed, Online, Respects
  <1>11. ASSUME NEW c \in Conns, GoOffline(c)
         PROVE  SessionsInv'
    <2>1. /\ UNCHANGED <<hub, acct, blocked, notice, service, stored, seen>>
          /\ conn[c].pc = "leaving" /\ Goto(c, "closed")
          /\ IF conn[c].shows THEN Publish("offline") ELSE UNCHANGED <<bus, lost>>
      BY <1>11 DEF GoOffline
    <2>2. /\ Moves(c) /\ conn'[c].pc = "closed" /\ conn'[c].sub = conn[c].sub
      BY <2>1, Gone DEF SessionsInv
    <2>3. conn[c].sub # "stored"
      BY <2>1 DEF SessionsInv, NoStrandedSubscription, SubInv
    <2>4. Respects(c)
      BY <2>1, <2>2, <2>3 DEF InHub, Unsubscribed, Respects
    <2>5. CASE conn[c].shows
      <3>1. /\ bus' \in Seq(Status) /\ lost' \in BOOLEAN
            /\ ~ lost' => bus' # <<>> /\ bus'[Len(bus')] = "offline"
        BY <2>1, <2>5, Published DEF SessionsInv, Status
      <3>2. LastWord'
        BY <3>1 DEF LastWord
      <3> QED
        BY <2>1, <2>4, <3>1, <3>2, SessionStep
    <2>6. CASE ~ conn[c].shows
      BY <2>1, <2>4, <2>6, ConnStep
    <2> QED
      BY <2>5, <2>6
  <1>12. CASE WipeBlocks \/ WipeRollsBack \/ WipeCommits \/ WipePublishes \/ FinalErase
    <2>1. UNCHANGED <<conn, hub, bus, service, seen, lost>> /\ stored' \in {stored, "none"}
      BY <1>12 DEF WipeBlocks, WipeRollsBack, WipeCommits, WipePublishes, FinalErase
    <2>2. GatewayTypeOK'
      BY <1>12, <2>1 DEF SessionsInv, GatewayTypeOK, WipeBlocks, WipeRollsBack, WipeCommits,
                         WipePublishes, FinalErase
    <2>3. NoticeInv' /\ (notice' = "handled" => notice = "handled")
      BY <1>12 DEF SessionsInv, NoticeInv, WipeBlocks, WipeRollsBack, WipeCommits,
                   WipePublishes, FinalErase
    <2>4. LastWord'
      BY <2>1 DEF SessionsInv, LastWord
    <2> QED
      BY <2>1, <2>2, <2>3, <2>4, OutsideStep
  <1>13. CASE HandleAccountWiped
    <2>1. /\ UNCHANGED <<hub, acct, blocked, bus, service, stored, seen, lost>>
          /\ notice = "sent"
      BY <1>13 DEF HandleAccountWiped
    <2>2. CASE notice' = "missed" /\ UNCHANGED conn
      BY <2>1, <2>2, OutsideStep DEF SessionsInv, GatewayTypeOK, NoticeInv, LastWord
    <2>3. CASE /\ notice' = "handled"
               /\ conn' = [c \in Conns |-> IF c \in hub
                                            THEN [conn[c] EXCEPT !.closer = "started"]
                                            ELSE conn[c]]
      <3>1. \A c \in Conns : conn[c] \in Conn
        BY DEF SessionsInv, GatewayTypeOK
      <3>2. \A c \in Conns :
              /\ conn'[c] \in Conn /\ conn'[c].pc = conn[c].pc /\ conn'[c].sub = conn[c].sub
              /\ conn'[c].teardown = conn[c].teardown /\ conn'[c].shows = conn[c].shows
              /\ c \in hub => conn'[c].closer = "started"
        BY <2>3, <3>1 DEF Conn
      <3>3. conn' \in [Conns -> Conn]
        BY <2>3, <3>2
      <3>4. GatewayTypeOK'
        BY <2>1, <2>3, <3>3 DEF SessionsInv, GatewayTypeOK
      <3>5. HubInv' /\ NoticeInv' /\ SubInv' /\ NoStrandedSubscription'
        BY <2>1, <3>2 DEF SessionsInv, HubInv, NoticeInv, SubInv, NoStrandedSubscription
      <3>6. LastWord'
        BY <2>1, <3>2 DEF SessionsInv, LastWord
      <3>7. WipedIsCut'
        BY <3>2 DEF SessionsInv, WipedIsCut, HubInv, InHub
      <3> QED
        BY <2>1, <3>4, <3>5, <3>6, <3>7 DEF SessionsInv
    <2> QED
      BY <1>13, <2>2, <2>3 DEF HandleAccountWiped
  <1>14. CASE SetStatus
    <2>1. /\ UNCHANGED <<conn, hub, acct, blocked, notice, seen>> /\ service = "idle"
          /\ bus # <<>> /\ bus' = Tail(bus)
          /\ \/ stored' = Head(bus) /\ service' = Head(bus) /\ UNCHANGED lost
             \/ lost' = TRUE /\ UNCHANGED <<stored, service>>
      BY <1>14 DEF SetStatus
    <2>2. bus \in Seq(Status) /\ Head(bus) \in Status /\ Tail(bus) \in Seq(Status)
      BY <2>1 DEF SessionsInv, GatewayTypeOK
    <2>3. GatewayTypeOK'
      BY <2>1, <2>2 DEF SessionsInv, GatewayTypeOK
    <2>4. /\ Tail(bus) # <<>> => Tail(bus)[Len(Tail(bus))] = bus[Len(bus)]
          /\ Tail(bus) = <<>> => Head(bus) = bus[Len(bus)]
      BY <2>1, <2>2, TailLast
    <2>5. LastWord'
      BY <2>1, <2>4 DEF SessionsInv, LastWord
    <2> QED
      BY <2>1, <2>3, <2>5, OutsideStep DEF SessionsInv, NoticeInv
  <1>15. CASE NotifyContacts \/ PresenceExpires
    <2>1. /\ UNCHANGED <<conn, hub, acct, blocked, notice, bus>>
          /\ stored' \in {stored, "none"}
          /\ \/ UNCHANGED <<service, seen, lost>>
             \/ service # "idle" /\ service' = "idle" /\ seen' = service /\ UNCHANGED lost
             \/ service' = "idle" /\ lost' = TRUE /\ UNCHANGED seen
      BY <1>15 DEF NotifyContacts, PresenceExpires
    <2>2. GatewayTypeOK'
      BY <2>1 DEF SessionsInv, GatewayTypeOK
    <2>3. LastWord'
      BY <2>1 DEF SessionsInv, LastWord
    <2> QED
      BY <2>1, <2>2, <2>3, OutsideStep DEF SessionsInv, NoticeInv
  <1>16. CASE UNCHANGED gatewayVars
    BY <1>16, OutsideStep DEF gatewayVars, SessionsInv, GatewayTypeOK, NoticeInv, LastWord
  <1> QED
    BY <1>1, <1>2, <1>3, <1>4, <1>5, <1>6, <1>7, <1>8, <1>9, <1>10, <1>11, <1>12, <1>13, <1>14,
       <1>15, <1>16 DEF GatewayNext

\* The last word on the bus is what the contact will see.
LEMMA SessionsInvSettles ==
    ASSUME SessionsInv
    PROVE  PresenceSettles
  BY DEF SessionsInv, LastWord, PresenceSettles, Presence, Online

\* ws-gateway's hub and clients, and the presence records, keep their types,
\* and the hub admits no more connections than maxConnectionsPerUIN.
THEOREM GatewayTyped == GatewaySpec => []GatewayTypeOK
  <1>1. SessionsInv => GatewayTypeOK
    BY DEF SessionsInv
  <1> QED
    BY SessionsInitInv, SessionsNextInv, <1>1, PTL DEF GatewaySpec

\* Once the gateway has handled account.wiped, no session of the account that
\* got past ServeHTTP's recheck is left running (handleAccountWipedNotification,
\* hub.CloseWiped, IsAccountWipedOrMissing).
THEOREM WipedSessionsCut == GatewaySpec => []WipedIsCut
  <1>1. SessionsInv => WipedIsCut
    BY DEF SessionsInv
  <1> QED
    BY SessionsInitInv, SessionsNextInv, <1>1, PTL DEF GatewaySpec

\* No interleaving of ServeHTTP's subscription and shutdown() leaves a
\* presence.notify subscription behind (setPresenceSub).
THEOREM SubscriptionsReleased == GatewaySpec => []NoStrandedSubscription
  <1>1. SessionsInv => NoStrandedSubscription
    BY DEF SessionsInv
  <1> QED
    BY SessionsInitInv, SessionsNextInv, <1>1, PTL DEF GatewaySpec

\* With every session over and the bus drained the account is offline for
\* itself and its contacts, unless a publish, write or lookup failed
\* (ServeHTTP's presence publishes, handlePresenceUpdate).
THEOREM PresenceEndsOffline == GatewaySpec => []PresenceSettles
  BY SessionsInitInv, SessionsNextInv, SessionsInvSettles, PTL DEF GatewaySpec

-----------------------------------------------------------------------------
(***************************************************************************)
(* OfflineQueue: sequences of frames                                       *)
(***************************************************************************)

\* A frame of hub.Send; copies of accepted envelopes are not told apart.
Holds(q, x) == x # AcceptedCopy /\ \E i \in 1 .. Len(q) : q[i] = x

Distinct(q) == \A i, k \in 1 .. Len(q) : q[i] = q[k] /\ q[i] # AcceptedCopy => i = k

\* A sequence that is cut at either end (LTRIM, LRANGE, a frame written).
LEMMA CutFrames ==
    ASSUME NEW S, NEW q \in Seq(S), NEW m \in 1 .. Len(q) + 1, NEW n \in 0 .. Len(q)
    PROVE  LET p == SubSeq(q, m, n)
           IN  /\ p \in Seq(S) /\ Len(p) = (IF m <= n THEN n - m + 1 ELSE 0)
               /\ \A x : Holds(p, x) => Holds(q, x)
               /\ Distinct(q) => Distinct(p)
  <1> DEFINE p == SubSeq(q, m, n)
  <1>1. Len(q) \in Nat /\ \A i \in m .. n : q[i] \in S
    BY LenProperties
  <1>2. /\ p \in Seq(S) /\ Len(p) = (IF m <= n THEN n - m + 1 ELSE 0)
        /\ \A i \in 1 .. n - m + 1 : p[i] = q[m + i - 1]
    BY <1>1, SubSeqProperties
  <1> HIDE DEF p
  <1>3. \A i \in 1 .. Len(p) : m + i - 1 \in 1 .. Len(q) /\ p[i] = q[m + i - 1]
    BY <1>1, <1>2
  <1>4. \A x : Holds(p, x) => Holds(q, x)
    BY <1>3 DEF Holds
  <1>5. Distinct(q) => Distinct(p)
    <2> SUFFICES ASSUME Distinct(q), NEW i \in 1 .. Len(p), NEW k \in 1 .. Len(p), p[i] = p[k],
                        p[i] # AcceptedCopy
                 PROVE  i = k
      BY DEF Distinct
    <2>1. m + i - 1 = m + k - 1
      BY <1>3 DEF Distinct
    <2> QED
      BY <1>2, <2>1
  <1> QED
    BY <1>2, <1>4, <1>5 DEF p

\* Two sequences of frames, one after the other.
LEMMA JoinFrames ==
    ASSUME NEW S, NEW q \in Seq(S), NEW p \in Seq(S)
    PROVE  /\ q \o p \in Seq(S) /\ Len(q \o p) = Len(q) + Len(p)
           /\ \A x : Holds(q \o p, x) => Holds(q, x) \/ Holds(p, x)
           /\ Distinct(q) /\ Distinct(p) /\ (\A x : Holds(q, x) => ~ Holds(p, x)) =>
                 Distinct(q \o p)
  <1> DEFINE j == q \o p
  <1>1. /\ j \in Seq(S) /\ Len(j) = Len(q) + Len(p) /\ Len(q) \in Nat /\ Len(p) \in Nat
        /\ \A i \in 1 .. Len(q) + Len(p) : j[i] = IF i <= Len(q) THEN q[i] ELSE p[i - Len(q)]
    BY ConcatProperties, LenProperties
  <1> HIDE DEF j
  <1>2. \A i \in 1 .. Len(j) :
           \/ i \in 1 .. Len(q) /\ j[i] = q[i]
           \/ ~ (i <= Len(q)) /\ i - Len(q) \in 1 .. Len(p) /\ j[i] = p[i - Len(q)]
    BY <1>1
  <1>3. \A x : Holds(j, x) => Holds(q, x) \/ Holds(p, x)
    BY <1>2 DEF Holds
  <1>4. ASSUME Distinct(q), Distinct(p), \A x : Holds(q, x) => ~ Holds(p, x),
               NEW i \in 1 .. Len(j), NEW k \in 1 .. Len(j), j[i] = j[k],
               j[i] # AcceptedCopy
        PROVE  i = k
    <2>1. CASE i \in 1 .. Len(q) /\ k \in 1 .. Len(q)
      BY <1>2, <1>4, <2>1 DEF Distinct
    <2>2. CASE ~ (i <= Len(q)) /\ ~ (k <= Len(q))
      <3>1. /\ i - Len(q) \in 1 .. Len(p) /\ k - Len(q) \in 1 .. Len(p)
            /\ p[i - Len(q)] = p[k - Len(q)] /\ p[i - Len(q)] # AcceptedCopy
        BY <1>1, <1>2, <1>4, <2>2
      <3>2. i - Len(q) = k - Len(q)
        BY <1>4, <3>1 DEF Distinct
      <3> QED
        BY <1>1, <3>2
    <2>3. CASE i \in 1 .. Len(q) /\ ~ (k <= Len(q))
      <3>1. Holds(q, j[i]) /\ Holds(p, j[k])
        BY <1>1, <1>2, <1>4, <2>3 DEF Holds
      <3> QED
        BY <1>4, <3>1
    <2>4. CASE k \in 1 .. Len(q) /\ ~ (i <= Len(q))
      <3>1. Holds(q, j[k]) /\ Holds(p, j[i])
        BY <1>1, <1>2, <1>4, <2>4 DEF Holds
      <3> QED
        BY <1>4, <3>1
    <2> QED
      BY <1>1, <2>1, <2>2, <2>3, <2>4
  <1>5. Distinct(q) /\ Distinct(p) /\ (\A x : Holds(q, x) => ~ Holds(p, x)) => Distinct(j)
    BY <1>4 DEF Distinct
  <1> QED
    BY <1>1, <1>3, <1>5 DEF j

\* A new frame behind the others.
LEMMA NextFrame ==
    ASSUME NEW S, NEW q \in Seq(S), NEW x \in S
    PROVE  /\ Append(q, x) \in Seq(S) /\ Len(Append(q, x)) = Len(q) + 1
           /\ \A y : Holds(Append(q, x), y) => Holds(q, y) \/ y = x
           /\ Distinct(q) /\ ~ Holds(q, x) => Distinct(Append(q, x))
  <1>1. Len(q) \in Nat
    BY LenProperties
  <1>2. /\ Append(q, x) \in Seq(S) /\ Len(Append(q, x)) = Len(q) + 1
        /\ \A i \in 1 .. Len(q) : Append(q, x)[i] = q[i]
        /\ Append(q, x)[Len(q) + 1] = x
    BY <1>1
  <1>3. \A i \in 1 .. Len(q) + 1 : i \in 1 .. Len(q) \/ i = Len(q) + 1
    BY <1>1
  <1>4. \A y : Holds(Append(q, x), y) => Holds(q, y) \/ y = x
    BY <1>2, <1>3 DEF Holds
  <1>5. Distinct(q) /\ ~ Holds(q, x) => Distinct(Append(q, x))
    BY <1>2, <1>3 DEF Distinct, Holds
  <1> QED
    BY <1>2, <1>4, <1>5

\* The first frame is not among the others.
LEMMA FirstFrame ==
    ASSUME NEW S, NEW q \in Seq(S), q # <<>>, Distinct(q)
    PROVE  /\ Tail(q) \in Seq(S) /\ Len(Tail(q)) <= Len(q) /\ Distinct(Tail(q))
           /\ Head(q) \in S /\ (Head(q) # AcceptedCopy => Holds(q, Head(q)))
           /\ ~ Holds(Tail(q), Head(q))
           /\ \A x : Holds(Tail(q), x) => Holds(q, x)
  <1>1. /\ Len(q) \in Nat \ {0} /\ Tail(q) \in Seq(S) /\ Len(Tail(q)) = Len(q) - 1
        /\ Head(q) \in S /\ \A i \in 1 .. Len(Tail(q)) : Tail(q)[i] = q[i + 1]
    BY EmptySeq, HeadTailProperties
  <1>2. Head(q) = q[1] /\ 1 \in 1 .. Len(q)
    BY <1>1
  <1>3. \A i \in 1 .. Len(Tail(q)) : i + 1 \in 1 .. Len(q) /\ Tail(q)[i] = q[i + 1] /\ i + 1 # 1
    BY <1>1
  <1>4. Distinct(Tail(q))
    BY <1>1, <1>3 DEF Distinct
  <1>5. ~ Holds(Tail(q), Head(q)) /\ \A x : Holds(Tail(q), x) => Holds(q, x)
    BY <1>2, <1>3 DEF Distinct, Holds
  <1>6. Head(q) # AcceptedCopy => Holds(q, Head(q))
    BY <1>2 DEF Holds
  <1> QED
    BY <1>1, <1>4, <1>5, <1>6

-----------------------------------------------------------------------------
(***************************************************************************)
(* OfflineQueue: how long the list can get                                 *)
(***************************************************************************)

\* The callbacks that will push without a trim, those about to trim, and
\* those with a frame.
Pushing == {j \in Subjects : callback[j].pc = "rpush" /\ callback[j].llen <= UndeliveredMaxLen}
Trimming == {j \in Subjects : callback[j].pc = "trim"}
Active == {j \in Subjects : callback[j].pc # "idle"}

\* The list is bounded with the pushes that are under way counted in, and a
\* failed trim has had a frame of its own.
CountInv ==
    /\ Len(undelivered) + Cardinality(Pushing)
         <= UndeliveredMaxLen + Cardinality(Subjects) + Cardinality(Trimming) + misses
    /\ misses + Cardinality(Active) <= frames

\* Two sets of callbacks that differ at most in j.
LEMMA DifferInOne ==
    ASSUME NEW P \in SUBSET Subjects, NEW Q \in SUBSET Subjects, NEW j \in Subjects,
           \A i \in Subjects : i # j => (i \in P <=> i \in Q)
    PROVE  /\ Cardinality(P) \in Nat /\ Cardinality(Q) \in Nat /\ Cardinality(Subjects) \in Nat
           /\ Cardinality(Q) + (IF j \in P THEN 1 ELSE 0) = Cardinality(P) + (IF j \in Q THEN 1 ELSE 0)
           /\ Cardinality(P) <= Cardinality(Subjects) /\ Cardinality(Q) <= Cardinality(Subjects)
  <1>1. IsFiniteSet(Subjects) /\ IsFiniteSet(P) /\ IsFiniteSet(Q)
        /\ Cardinality(P) <= Cardinality(Subjects) /\ Cardinality(Q) <= Cardinality(Subjects)
    BY OfflineAssumption, FS_Subset
  <1>2. /\ Cardinality(P) \in Nat /\ Cardinality(Q) \in Nat /\ Cardinality(Subjects) \in Nat
    BY <1>1, FS_CardinalityType
  <1>3. P \ {j} = Q \ {j}
    OBVIOUS
  <1>4. /\ Cardinality(P \ {j}) = IF j \in P THEN Cardinality(P) - 1 ELSE Cardinality(P)
        /\ Cardinality(Q \ {j}) = IF j \in Q THEN Cardinality(Q) - 1 ELSE Cardinality(Q)
    BY <1>1, FS_RemoveElement
  <1> QED
    BY <1>1, <1>2, <1>3, <1>4

\* What a step of callback j does to the three counts.
Counts(j) ==
    /\ Cardinality(Subjects) \in Nat
    /\ Cardinality(Pushing) \in Nat /\ Cardinality(Pushing') \in Nat
    /\ Cardinality(Pushing') <= Cardinality(Subjects)
    /\ Cardinality(Trimming) \in Nat /\ Cardinality(Trimming') \in Nat
    /\ Cardinality(Active) \in Nat /\ Cardinality(Active') \in Nat
    /\ Cardinality(Pushing') + (IF j \in Pushing THEN 1 ELSE 0)
         = Cardinality(Pushing) + (IF j \in Pushing' THEN 1 ELSE 0)
    /\ Cardinality(Trimming') + (IF j \in Trimming THEN 1 ELSE 0)
         = Cardinality(Trimming) + (IF j \in Trimming' THEN 1 ELSE 0)
    /\ Cardinality(Active') + (IF j \in Active THEN 1 ELSE 0)
         = Cardinality(Active) + (IF j \in Active' THEN 1 ELSE 0)

\* A step of one callback changes the number of pushes and trims by its own.
LEMMA CallbackCounts ==
    ASSUME NEW j \in Subjects, \A i \in Subjects : i # j => callback'[i] = callback[i]
    PROVE  Counts(j)
  <1>1. /\ Pushing \in SUBSET Subjects /\ Pushing' \in SUBSET Subjects
        /\ \A i \in Subjects : i # j => (i \in Pushing <=> i \in Pushing')
    BY DEF Pushing
  <1>2. /\ Trimming \in SUBSET Subjects /\ Trimming' \in SUBSET Subjects
        /\ \A i \in Subjects : i # j => (i \in Trimming <=> i \in Trimming')
    BY DEF Trimming
  <1>3. /\ Active \in SUBSET Subjects /\ Active' \in SUBSET Subjects
        /\ \A i \in Subjects : i # j => (i \in Active <=> i \in Active')
    BY DEF Active
  <1>4. /\ Cardinality(Subjects) \in Nat
        /\ Cardinality(Pushing) \in Nat /\ Cardinality(Pushing') \in Nat
        /\ Cardinality(Pushing') <= Cardinality(Subjects)
        /\ Cardinality(Pushing') + (IF j \in Pushing THEN 1 ELSE 0)
             = Cardinality(Pushing) + (IF j \in Pushing' THEN 1 ELSE 0)
    BY <1>1, DifferInOne
  <1>5. /\ Cardinality(Trimming) \in Nat /\ Cardinality(Trimming') \in Nat
        /\ Cardinality(Trimming') + (IF j \in Trimming THEN 1 ELSE 0)
             = Cardinality(Trimming) + (IF j \in Trimming' THEN 1 ELSE 0)
    BY <1>2, DifferInOne
  <1>6. /\ Cardinality(Active) \in Nat /\ Cardinality(Active') \in Nat
        /\ Cardinality(Active') + (IF j \in Active THEN 1 ELSE 0)
             = Cardinality(Active) + (IF j \in Active' THEN 1 ELSE 0)
    BY <1>3, DifferInOne
  <1> QED
    BY <1>4, <1>5, <1>6 DEF Counts

\* The trim leaves at most the cap.
LEMMA ListTrimmed ==
    ASSUME OfflineTypeOK, NEW j \in Subjects, Trim(j)
    PROVE  /\ undelivered' \in Seq(Frames) /\ Len(undelivered') <= UndeliveredMaxLen
           /\ \A x : Holds(undelivered', x) => Holds(undelivered, x)
           /\ Distinct(undelivered) => Distinct(undelivered')
  <1>1. undelivered \in Seq(Frames) /\ Len(undelivered) \in Nat /\ UndeliveredMaxLen \in Nat \ {0}
    BY OfflineAssumption, LenProperties DEF OfflineTypeOK
  <1>2. CASE Len(undelivered) > UndeliveredMaxLen
    <2> DEFINE m == Len(undelivered) - UndeliveredMaxLen + 1
    <2>1. /\ m \in 1 .. Len(undelivered) + 1 /\ Len(undelivered) \in 0 .. Len(undelivered)
          /\ m <= Len(undelivered) /\ Len(undelivered) - m + 1 = UndeliveredMaxLen
      BY <1>1, <1>2
    <2>2. undelivered' = SubSeq(undelivered, m, Len(undelivered))
      BY <1>2 DEF Trim
    <2> HIDE DEF m
    <2>3. /\ undelivered' \in Seq(Frames) /\ Len(undelivered') = UndeliveredMaxLen
          /\ \A x : Holds(undelivered', x) => Holds(undelivered, x)
          /\ Distinct(undelivered) => Distinct(undelivered')
      BY <1>1, <2>1, <2>2, CutFrames
    <2> QED
      BY <1>1, <2>3
  <1>3. CASE ~ (Len(undelivered) > UndeliveredMaxLen)
    BY <1>1, <1>3 DEF Trim
  <1> QED
    BY <1>2, <1>3

\* What each step does to callback j, or to none.
LEMMA CallbackSteps ==
    ASSUME OfflineTypeOK, NEW j \in Subjects,
           \/ SendFrame(j) \/ FanOut(j) \/ ReadLength(j) \/ Push(j) \/ RedisFails(j) \/ Trim(j)
    PROVE  \A i \in Subjects : i # j => callback'[i] = callback[i]
  BY DEF OfflineTypeOK, SendFrame, FanOut, ReadLength, Push, RedisFails, Trim

\* Every step keeps the number of frames in the undelivered list in bounds.
LEMMA CountStep ==
    ASSUME OfflineTypeOK, CountInv, [OfflineNext]_offlineVars
    PROVE  CountInv'
  <1>1. /\ undelivered \in Seq(Frames) /\ Len(undelivered) \in Nat
        /\ UndeliveredMaxLen \in Nat \ {0} /\ misses \in Nat /\ frames \in Nat
        /\ \A j \in Subjects : callback[j].frame \in 0 .. MaxFrames /\ callback[j].llen \in Nat
    BY OfflineAssumption, LenProperties DEF OfflineTypeOK
  \* the counts, as numbers
  <1> DEFINE p == Cardinality(Pushing)
             p1 == Cardinality(Pushing')
             t == Cardinality(Trimming)
             t1 == Cardinality(Trimming')
             n == Cardinality(Subjects)
             l == Len(undelivered)
             l1 == Len(undelivered')
             m1 == misses'
  <1>2. ASSUME NEW j \in Subjects, SendFrame(j) \/ FanOut(j)
        PROVE  CountInv'
    <2>1. /\ j \notin Pushing /\ j \notin Trimming /\ j \notin Pushing' /\ j \notin Trimming'
      <3>1. callback[j].pc \in {"idle", "fanout"} /\ callback'[j].pc \in {"idle", "llen", "fanout"}
        <4>1. CASE FanOut(j)
          BY <4>1 DEF FanOut, OfflineTypeOK, NoCallback
        <4>2. CASE SendFrame(j)
          <5> DEFINE pc == IF Registered = {} THEN "llen" ELSE "fanout"
          <5>1. callback[j].pc = "idle" /\ callback'[j].pc = pc
            BY <4>2 DEF SendFrame, OfflineTypeOK, NoCallback
          <5> QED
            BY <5>1
        <4> QED
          BY <1>2, <4>1, <4>2
      <3> QED
        BY <3>1 DEF Pushing, Trimming
    <2>2. /\ UNCHANGED <<undelivered, misses>>
          /\ \/ frames' = frames + 1
             \/ frames' = frames /\ j \in Active /\ j \notin Active'
      BY <1>2 DEF SendFrame, FanOut, OfflineTypeOK, NoCallback, Active
    <2>3. Counts(j)
      BY <1>2, CallbackSteps, CallbackCounts
    <2>4. Len(undelivered') + Cardinality(Pushing')
            <= UndeliveredMaxLen + Cardinality(Subjects) + Cardinality(Trimming') + misses'
      <3>1. /\ Cardinality(Pushing) \in Nat /\ Cardinality(Pushing') \in Nat
            /\ Cardinality(Trimming) \in Nat /\ Cardinality(Trimming') \in Nat
            /\ Cardinality(Subjects) \in Nat
        BY <2>3 DEF Counts
      <3>2. Len(undelivered) + Cardinality(Pushing)
              <= UndeliveredMaxLen + Cardinality(Subjects) + Cardinality(Trimming) + misses
        BY DEF CountInv
      <3>3. Cardinality(Pushing') = Cardinality(Pushing) /\ Cardinality(Trimming') = Cardinality(Trimming)
        BY <2>1, <2>3, <3>1 DEF Counts
      <3> QED
        BY <2>2, <3>2, <3>3
    <2>5. misses' + Cardinality(Active') <= frames'
      <3>1. /\ Cardinality(Active) \in Nat /\ Cardinality(Active') \in Nat
            /\ misses + Cardinality(Active) <= frames /\ misses' = misses
        BY <2>2, <2>3 DEF Counts, CountInv
      <3>2. \/ frames' = frames + 1 /\ Cardinality(Active') <= Cardinality(Active) + 1
            \/ frames' = frames /\ Cardinality(Active') = Cardinality(Active) - 1
        BY <2>2, <2>3, <3>1 DEF Counts
      <3>3. misses \in Nat /\ frames \in Nat
        BY <1>1
      <3> QED
        BY <3>1, <3>2, <3>3
    <2> QED
      BY <2>4, <2>5 DEF CountInv
  <1>3. ASSUME NEW j \in Subjects, ReadLength(j)
        PROVE  CountInv'
    <2>1. /\ j \notin Pushing /\ j \notin Trimming /\ j \notin Trimming'
          /\ j \in Active /\ j \in Active'
          /\ j \in Pushing' => Len(undelivered) <= UndeliveredMaxLen
          /\ UNCHANGED <<undelivered, frames, misses>>
      BY <1>3 DEF ReadLength, OfflineTypeOK, Pushing, Trimming, Active
    <2>3. Counts(j)
      BY <1>3, CallbackSteps, CallbackCounts
    <2>4. Len(undelivered') + Cardinality(Pushing')
            <= UndeliveredMaxLen + Cardinality(Subjects) + Cardinality(Trimming') + misses'
      <3>1. /\ Cardinality(Pushing) \in Nat /\ Cardinality(Pushing') \in Nat
            /\ Cardinality(Trimming) \in Nat /\ Cardinality(Trimming') \in Nat
            /\ Cardinality(Subjects) \in Nat
        BY <2>3 DEF Counts
      <3>2. Len(undelivered) + Cardinality(Pushing)
              <= UndeliveredMaxLen + Cardinality(Subjects) + Cardinality(Trimming) + misses
        BY DEF CountInv
      <3>3. Cardinality(Trimming') = Cardinality(Trimming) /\ Cardinality(Pushing') <= Cardinality(Subjects)
        BY <2>1, <2>3, <3>1 DEF Counts
      <3>4. UNCHANGED <<undelivered, misses>>
        BY <2>1
      <3>5. Len(undelivered) \in Nat /\ UndeliveredMaxLen \in Nat /\ misses \in Nat
        BY <1>1
      <3>6. CASE j \in Pushing'
        <4>1. Len(undelivered) <= UndeliveredMaxLen
          BY <2>1, <3>6
        <4> QED
          BY <3>1, <3>3, <3>4, <3>5, <4>1
      <3>7. CASE j \notin Pushing'
        <4>1. Cardinality(Pushing') = Cardinality(Pushing)
          BY <2>1, <2>3, <3>1, <3>7 DEF Counts
        <4> QED
          BY <3>2, <3>3, <3>4, <4>1
      <3> QED
        BY <3>6, <3>7
    <2>5. misses' + Cardinality(Active') <= frames'
      <3>1. /\ Cardinality(Active) \in Nat /\ Cardinality(Active') \in Nat
            /\ misses + Cardinality(Active) <= frames /\ misses' = misses /\ frames' = frames
        BY <2>1, <2>3 DEF Counts, CountInv
      <3>2. Cardinality(Active') = Cardinality(Active)
        BY <2>1, <2>3, <3>1 DEF Counts
      <3> QED
        BY <3>1, <3>2
    <2> QED
      BY <2>4, <2>5 DEF CountInv
  <1>4. ASSUME NEW j \in Subjects, Push(j)
        PROVE  CountInv'
    <2>1. /\ j \notin Trimming /\ j \in Active /\ j \notin Pushing'
          /\ j \in Pushing \/ j \in Trimming'
          /\ UNCHANGED <<frames, misses>>
      BY <1>1, <1>4 DEF Push, OfflineTypeOK, NoCallback, Pushing, Trimming, Active
    <2>2. Len(undelivered') = Len(undelivered) + 1
      BY <1>1, <1>4 DEF Push
    <2>3. Counts(j)
      BY <1>4, CallbackSteps, CallbackCounts
    <2>4. Len(undelivered') + Cardinality(Pushing')
            <= UndeliveredMaxLen + Cardinality(Subjects) + Cardinality(Trimming') + misses'
      <3>1. /\ Cardinality(Pushing) \in Nat /\ Cardinality(Pushing') \in Nat
            /\ Cardinality(Trimming) \in Nat /\ Cardinality(Trimming') \in Nat
            /\ Cardinality(Subjects) \in Nat
        BY <2>3 DEF Counts
      <3>2. Len(undelivered) + Cardinality(Pushing)
              <= UndeliveredMaxLen + Cardinality(Subjects) + Cardinality(Trimming) + misses
        BY DEF CountInv
      <3>3. \/ /\ Cardinality(Pushing') = Cardinality(Pushing) - 1
               /\ Cardinality(Trimming') >= Cardinality(Trimming)
            \/ /\ Cardinality(Pushing') = Cardinality(Pushing)
               /\ Cardinality(Trimming') = Cardinality(Trimming) + 1
        BY <2>1, <2>3, <3>1 DEF Counts
      <3>4. /\ Len(undelivered) \in Nat /\ UndeliveredMaxLen \in Nat /\ misses \in Nat
            /\ misses' = misses
        BY <1>1, <2>1
      <3>5. p \in Nat /\ p1 \in Nat /\ t \in Nat /\ t1 \in Nat /\ n \in Nat
        BY <3>1
      <3>6. l \in Nat /\ l1 = l + 1 /\ m1 = misses /\ UndeliveredMaxLen \in Nat /\ misses \in Nat
        BY <2>2, <3>4
      <3>7. /\ l + p <= UndeliveredMaxLen + n + t + misses
            /\ (p1 = p - 1 /\ t1 >= t) \/ (p1 = p /\ t1 = t + 1)
        BY <3>2, <3>3
      <3>8. l1 + p1 <= UndeliveredMaxLen + n + t1 + m1
        <4> HIDE DEF p, p1, t, t1, n, l, l1, m1
        <4> QED
          BY <3>5, <3>6, <3>7
      <3> QED
        BY <3>8
    <2>5. misses' + Cardinality(Active') <= frames'
      <3>1. Cardinality(Active') <= Cardinality(Active)
        BY <2>1, <2>3 DEF Counts
      <3>2. Cardinality(Active) \in Nat /\ Cardinality(Active') \in Nat
            /\ misses + Cardinality(Active) <= frames
        BY <2>3 DEF Counts, CountInv
      <3> QED
        BY <1>1, <2>1, <3>1, <3>2
    <2> QED
      BY <2>4, <2>5 DEF CountInv
  <1>5. ASSUME NEW j \in Subjects, RedisFails(j)
        PROVE  CountInv'
    <2>1. /\ j \notin Trimming' /\ j \in Active /\ j \notin Pushing' /\ j \notin Active'
          /\ misses' = IF j \in Trimming THEN misses + 1 ELSE misses
          /\ UNCHANGED <<undelivered, frames>>
      BY <1>5 DEF RedisFails, OfflineTypeOK, NoCallback, Pushing, Trimming, Active
    <2>3. Counts(j)
      BY <1>5, CallbackSteps, CallbackCounts
    <2>4. Len(undelivered') + Cardinality(Pushing')
            <= UndeliveredMaxLen + Cardinality(Subjects) + Cardinality(Trimming') + misses'
      <3>1. /\ Cardinality(Pushing) \in Nat /\ Cardinality(Pushing') \in Nat
            /\ Cardinality(Trimming) \in Nat /\ Cardinality(Trimming') \in Nat
            /\ Cardinality(Subjects) \in Nat
        BY <2>3 DEF Counts
      <3>2. Len(undelivered) + Cardinality(Pushing)
              <= UndeliveredMaxLen + Cardinality(Subjects) + Cardinality(Trimming) + misses
        BY DEF CountInv
      <3>3. Cardinality(Pushing') <= Cardinality(Pushing)
        BY <2>1, <2>3, <3>1 DEF Counts
      <3>4. Cardinality(Trimming') + misses' = Cardinality(Trimming) + misses
        BY <1>1, <2>1, <2>3, <3>1 DEF Counts
      <3>5. misses' \in Nat
        BY <1>1, <2>1
      <3>6. /\ Len(undelivered) \in Nat /\ UndeliveredMaxLen \in Nat /\ misses \in Nat
            /\ Len(undelivered') = Len(undelivered)
        BY <1>1, <2>1
      <3>7. p \in Nat /\ p1 \in Nat /\ t \in Nat /\ t1 \in Nat /\ n \in Nat
        BY <3>1
      <3>8. l \in Nat /\ l1 = l /\ m1 \in Nat /\ UndeliveredMaxLen \in Nat /\ misses \in Nat
        BY <3>5, <3>6
      <3>9. l + p <= UndeliveredMaxLen + n + t + misses /\ p1 <= p /\ t1 + m1 = t + misses
        BY <3>2, <3>3, <3>4
      <3>10. l1 + p1 <= UndeliveredMaxLen + n + t1 + m1
        <4> HIDE DEF p, p1, t, t1, n, l, l1, m1
        <4> QED
          BY <3>7, <3>8, <3>9
      <3> QED
        BY <3>10
    <2>5. misses' + Cardinality(Active') <= frames'
      <3>1. Cardinality(Active') = Cardinality(Active) - 1
        BY <2>1, <2>3 DEF Counts
      <3>2. Cardinality(Active) \in Nat /\ misses + Cardinality(Active) <= frames
        BY <2>3 DEF Counts, CountInv
      <3>3. misses' \in {misses, misses + 1}
        BY <2>1
      <3> QED
        BY <1>1, <2>1, <3>1, <3>2, <3>3
    <2> QED
      BY <2>4, <2>5 DEF CountInv
  <1>6. ASSUME NEW j \in Subjects, Trim(j)
        PROVE  CountInv'
    <2>1. /\ j \notin Trimming' /\ j \in Active /\ j \notin Active' /\ misses' = 0
          /\ UNCHANGED frames
      BY <1>6 DEF Trim, OfflineTypeOK, NoCallback, Trimming, Active
    <2>2. Len(undelivered') <= UndeliveredMaxLen /\ Len(undelivered') \in Nat
      BY <1>6, ListTrimmed, LenProperties
    <2>3. Counts(j)
      BY <1>6, CallbackSteps, CallbackCounts
    <2>4. Len(undelivered') + Cardinality(Pushing')
            <= UndeliveredMaxLen + Cardinality(Subjects) + Cardinality(Trimming') + misses'
      <3>1. Cardinality(Pushing') <= Cardinality(Subjects) /\ Cardinality(Pushing') \in Nat
            /\ Cardinality(Trimming') \in Nat /\ Cardinality(Subjects) \in Nat
        BY <2>3 DEF Counts
      <3> QED
        BY <1>1, <2>1, <2>2, <3>1
    <2>5. misses' + Cardinality(Active') <= frames'
      <3>1. Cardinality(Active') <= Cardinality(Active)
        BY <2>1, <2>3 DEF Counts
      <3>2. Cardinality(Active) \in Nat /\ Cardinality(Active') \in Nat
            /\ misses + Cardinality(Active) <= frames
        BY <2>3 DEF Counts, CountInv
      <3> QED
        BY <1>1, <2>1, <3>1, <3>2
    <2> QED
      BY <2>4, <2>5 DEF CountInv
  <1>7. ASSUME UNCHANGED <<frames, misses>>,
               \A j \in Subjects : /\ callback'[j].pc = callback[j].pc
                                   /\ callback'[j].llen = callback[j].llen,
               undelivered' = undelivered \/ undelivered' = <<>>
        PROVE  CountInv'
    <2>1. Pushing' = Pushing /\ Trimming' = Trimming /\ Active' = Active
      BY <1>7 DEF Pushing, Trimming, Active
    <2>2. Len(undelivered') <= Len(undelivered) /\ Len(undelivered') \in Nat
      BY <1>1, <1>7
    <2>3. /\ Cardinality(Pushing) \in Nat /\ Cardinality(Trimming) \in Nat
          /\ Cardinality(Active) \in Nat /\ Cardinality(Subjects) \in Nat
      <3>1. Pushing \in SUBSET Subjects /\ Trimming \in SUBSET Subjects /\ Active \in SUBSET Subjects
        BY DEF Pushing, Trimming, Active
      <3> QED
        BY <3>1, OfflineAssumption, FS_Subset, FS_CardinalityType
    <2> QED
      BY <1>1, <1>7, <2>1, <2>2, <2>3 DEF CountInv
  <1>8. ASSUME NEW s \in Sockets, Connect(s) \/ DrainRead(s) \/ DrainDelete(s) \/ WriteFrame(s)
        PROVE  CountInv'
    BY <1>7, <1>8 DEF Connect, DrainRead, DrainDelete, WriteFrame
  <1>9. ASSUME NEW s \in Sockets, Disconnect(s)
        PROVE  CountInv'
    <2>1. \A j \in Subjects : /\ callback'[j].pc = callback[j].pc
                              /\ callback'[j].llen = callback[j].llen
      BY <1>9 DEF Disconnect, OfflineTypeOK
    <2> QED
      BY <1>7, <1>9, <2>1 DEF Disconnect
  <1>10. CASE ListExpires
    BY <1>7, <1>10 DEF ListExpires
  <1>11. CASE UNCHANGED offlineVars
    BY <1>7, <1>11 DEF offlineVars
  <1>12. CASE SendLive
    BY <1>7, <1>12 DEF SendLive
  <1> QED
    BY <1>2, <1>3, <1>4, <1>5, <1>6, <1>8, <1>9, <1>10, <1>11, <1>12 DEF OfflineNext
-----------------------------------------------------------------------------
(***************************************************************************)
(* OfflineQueue: types                                                     *)
(***************************************************************************)

CallbackType == [pc : {"idle", "fanout", "llen", "rpush", "trim"},
                 frame : 0 .. MaxFrames, llen : Nat, to : SUBSET Sockets]
SocketType == [pc : {"off", "registered", "draining", "open"}, send : Seq(Copies)]

\* A callback with one field assigned is a callback.
LEMMA CallbackTyped ==
    /\ NoCallback \in CallbackType
    /\ \A c \in CallbackType, pc \in {"idle", "fanout", "llen", "rpush", "trim"} :
         [c EXCEPT !.pc = pc] \in CallbackType
    /\ \A c \in CallbackType, f \in 0 .. MaxFrames : [c EXCEPT !.frame = f] \in CallbackType
    /\ \A c \in CallbackType, n \in Nat : [c EXCEPT !.llen = n] \in CallbackType
    /\ \A c \in CallbackType, to \in SUBSET Sockets : [c EXCEPT !.to = to] \in CallbackType
  <1>1. NoCallback \in CallbackType
    <2>1. 0 \in 0 .. MaxFrames /\ {} \in SUBSET Sockets /\ 0 \in Nat
      BY OfflineAssumption
    <2> QED
      BY <2>1 DEF CallbackType, NoCallback
  <1> SUFFICES ASSUME NEW c \in CallbackType
               PROVE  /\ \A pc \in {"idle", "fanout", "llen", "rpush", "trim"} :
                           [c EXCEPT !.pc = pc] \in CallbackType
                      /\ \A f \in 0 .. MaxFrames : [c EXCEPT !.frame = f] \in CallbackType
                      /\ \A n \in Nat : [c EXCEPT !.llen = n] \in CallbackType
                      /\ \A to \in SUBSET Sockets : [c EXCEPT !.to = to] \in CallbackType
    BY <1>1
  <1>2. ASSUME NEW pc \in {"idle", "fanout", "llen", "rpush", "trim"}
        PROVE  [c EXCEPT !.pc = pc] \in CallbackType
    BY DEF CallbackType
  <1>3. ASSUME NEW f \in 0 .. MaxFrames
        PROVE  [c EXCEPT !.frame = f] \in CallbackType
    BY DEF CallbackType
  <1>4. ASSUME NEW n \in Nat
        PROVE  [c EXCEPT !.llen = n] \in CallbackType
    BY DEF CallbackType
  <1>5. ASSUME NEW to \in SUBSET Sockets
        PROVE  [c EXCEPT !.to = to] \in CallbackType
    BY DEF CallbackType
  <1> QED
    BY <1>2, <1>3, <1>4, <1>5

\* One callback, or none, at another step.
LEMMA CallbacksTyped ==
    ASSUME callback \in [Subjects -> CallbackType], NEW j \in Subjects, NEW c \in CallbackType,
           callback' = [callback EXCEPT ![j] = c]
    PROVE  callback' \in [Subjects -> CallbackType]
  OBVIOUS

\* Every sequence of frames is one of copies.
LEMMA FramesAreCopies ==
    /\ Frames \subseteq Copies /\ AcceptedCopy \in Copies
    /\ \A q \in Seq(Frames) : q \in Seq(Copies)
  <1>1. Frames \subseteq Copies /\ AcceptedCopy \in Copies
    BY DEF Copies
  <1>2. ASSUME NEW q \in Seq(Frames)
        PROVE  q \in Seq(Copies)
    <2>1. /\ Len(q) \in Nat /\ q \in [1 .. Len(q) -> Frames]
      BY LenProperties
    <2>2. q \in [1 .. Len(q) -> Copies]
      BY <1>1, <2>1
    <2> QED
      BY <2>1, <2>2, SeqDef
  <1> QED
    BY <1>1, <1>2

\* A channel that holds room for a frame takes it, a full one does not.
LEMMA TrySendTyped ==
    ASSUME NEW ch \in Seq(Copies), Len(ch) <= BufferSize, NEW f \in Copies
    PROVE  /\ TrySend(ch, f) \in Seq(Copies) /\ Len(TrySend(ch, f)) <= BufferSize
           /\ \A x : Holds(TrySend(ch, f), x) => Holds(ch, x) \/ x = f
           /\ Distinct(ch) /\ ~ Holds(ch, f) => Distinct(TrySend(ch, f))
  <1>1. Len(ch) \in Nat /\ BufferSize \in Nat
    BY OfflineAssumption, LenProperties
  <1> QED
    BY <1>1, NextFrame DEF TrySend

\* LRANGE of the oldest frames of the list that the channel has room for.
LEMMA DrainTyped ==
    ASSUME NEW ch \in Seq(Copies), Len(ch) <= BufferSize, NEW q \in Seq(Frames)
    PROVE  LET p == ch \o Oldest(q, BufferSize - Len(ch))
           IN  /\ p \in Seq(Copies) /\ Len(p) <= BufferSize
               /\ \A x : Holds(p, x) => Holds(ch, x) \/ Holds(q, x)
               /\ Distinct(ch) /\ Distinct(q) /\ (\A x : Holds(ch, x) => ~ Holds(q, x)) =>
                     Distinct(p)
  <1> DEFINE n == BufferSize - Len(ch)
             m == IF n < Len(q) THEN n ELSE Len(q)
             o == SubSeq(q, 1, m)
  <1>1. Len(ch) \in Nat /\ Len(q) \in Nat /\ BufferSize \in Nat
    BY OfflineAssumption, LenProperties
  <1>2. n \in Nat /\ m \in 0 .. Len(q) /\ m <= n /\ 1 \in 1 .. Len(q) + 1
    BY <1>1
  <1>3. Oldest(q, n) = o
    BY DEF Oldest
  <1>4. Len(ch) + n = BufferSize
    BY <1>1
  <1> HIDE DEF n, m
  <1>5. /\ o \in Seq(Frames) /\ Len(o) = (IF 1 <= m THEN m - 1 + 1 ELSE 0)
        /\ \A x : Holds(o, x) => Holds(q, x)
        /\ Distinct(q) => Distinct(o)
    BY <1>2, CutFrames
  <1>6. Len(o) <= n
    BY <1>2, <1>5
  <1> HIDE DEF o
  <1>7. /\ ch \o o \in Seq(Copies) /\ Len(ch \o o) = Len(ch) + Len(o)
        /\ \A x : Holds(ch \o o, x) => Holds(ch, x) \/ Holds(o, x)
        /\ Distinct(ch) /\ Distinct(o) /\ (\A x : Holds(ch, x) => ~ Holds(o, x)) =>
              Distinct(ch \o o)
    <2>1. o \in Seq(Copies)
      BY <1>5, FramesAreCopies
    <2> QED
      BY <2>1, JoinFrames
  <1>8. Len(o) \in Nat
    BY <1>5, LenProperties
  <1>9. Len(ch \o o) <= BufferSize
    BY <1>1, <1>2, <1>4, <1>6, <1>7, <1>8
  <1> QED
    BY <1>3, <1>5, <1>7, <1>9 DEF n

\* SendLive adds to channels, and no frame of hub.Send.
LEMMA SendLiveTyped ==
    ASSUME SendLive, socket \in [Sockets -> SocketType],
           \A s \in Sockets : socket[s].send \in Seq(Copies) /\ Len(socket[s].send) <= BufferSize
    PROVE  /\ socket' \in [Sockets -> SocketType]
           /\ \A s \in Sockets :
                 /\ Len(socket'[s].send) <= BufferSize /\ socket'[s].pc = socket[s].pc
                 /\ \A x : Holds(socket'[s].send, x) => Holds(socket[s].send, x)
                 /\ Distinct(socket[s].send) => Distinct(socket'[s].send)
  <1>1. /\ socket' = [s \in Sockets |-> socket'[s]]
        /\ \A s \in Sockets :
              \/ socket'[s] = [socket[s] EXCEPT !.send = TrySend(socket[s].send, AcceptedCopy)]
              \/ socket'[s] = socket[s]
    BY DEF SendLive
  <1>2. ASSUME NEW s \in Sockets
        PROVE  /\ socket'[s] \in SocketType
               /\ Len(socket'[s].send) <= BufferSize /\ socket'[s].pc = socket[s].pc
               /\ \A x : Holds(socket'[s].send, x) => Holds(socket[s].send, x)
               /\ Distinct(socket[s].send) => Distinct(socket'[s].send)
    <2> DEFINE v == TrySend(socket[s].send, AcceptedCopy)
    <2>1. /\ v \in Seq(Copies) /\ Len(v) <= BufferSize
          /\ \A x : Holds(v, x) => Holds(socket[s].send, x) \/ x = AcceptedCopy
          /\ Distinct(socket[s].send) /\ ~ Holds(socket[s].send, AcceptedCopy) => Distinct(v)
      BY TrySendTyped, FramesAreCopies
    <2> HIDE DEF v
    <2>2. \A x : Holds(v, x) => Holds(socket[s].send, x)
      BY <2>1 DEF Holds
    <2>3. Distinct(socket[s].send) => Distinct(v)
      BY <2>1 DEF Holds
    <2>4. CASE socket'[s] = [socket[s] EXCEPT !.send = v]
      <3>1. socket'[s] \in SocketType /\ socket'[s].send = v /\ socket'[s].pc = socket[s].pc
        BY <2>1, <2>4 DEF SocketType
      <3> QED
        BY <2>1, <2>2, <2>3, <3>1
    <2>5. CASE socket'[s] = socket[s]
      BY <2>5
    <2> QED
      BY <1>1, <2>4, <2>5 DEF v
  <1> QED
    BY <1>1, <1>2

\* Every step keeps the types; a trim that fails has a frame of its own.
LEMMA OfflineTypeStep ==
    ASSUME OfflineTypeOK, CountInv, [OfflineNext]_offlineVars,
           \A j \in Subjects : callback[j].pc # "idle" => callback[j].frame # 0
    PROVE  OfflineTypeOK'
  <1>1. /\ undelivered \in Seq(Frames) /\ Len(undelivered) \in Nat
        /\ callback \in [Subjects -> CallbackType] /\ socket \in [Sockets -> SocketType]
        /\ \A s \in Sockets : socket[s].send \in Seq(Copies) /\ Len(socket[s].send) <= BufferSize
        /\ shown \in [Sockets -> SUBSET Frames] /\ frames \in 0 .. MaxFrames
        /\ misses \in 0 .. MaxFrames /\ MaxFrames \in Nat
    BY OfflineAssumption, LenProperties DEF OfflineTypeOK, CallbackType, SocketType
  <1>2. ASSUME undelivered' \in Seq(Frames), callback' \in [Subjects -> CallbackType],
               socket' \in [Sockets -> SocketType],
               \A s \in Sockets : Len(socket'[s].send) <= BufferSize,
               shown' \in [Sockets -> SUBSET Frames], frames' \in 0 .. MaxFrames,
               misses' \in 0 .. MaxFrames
        PROVE  OfflineTypeOK'
    BY <1>2 DEF OfflineTypeOK, CallbackType, SocketType
  <1>3. ASSUME NEW j \in Subjects, SendFrame(j)
        PROVE  OfflineTypeOK'
    <2> DEFINE pc == IF Registered = {} THEN "llen" ELSE "fanout"
               c == [NoCallback EXCEPT !.pc = pc, !.frame = frames + 1, !.to = Registered]
    <2>1. callback' = [callback EXCEPT ![j] = c]
      BY <1>3 DEF SendFrame
    <2>2. frames + 1 \in Frames /\ frames + 1 \in 0 .. MaxFrames
      BY <1>1, <1>3 DEF SendFrame, Frames
    <2>3. pc \in {"llen", "fanout"} /\ Registered \in SUBSET Sockets
      BY DEF Registered
    <2> HIDE DEF pc
    <2>4. c \in CallbackType
      <3>1. [NoCallback EXCEPT !.pc = pc] \in CallbackType
        BY <2>3, CallbackTyped
      <3>2. [NoCallback EXCEPT !.pc = pc, !.frame = frames + 1] \in CallbackType
        BY <2>2, <3>1, CallbackTyped
      <3> QED
        BY <2>3, <3>2, CallbackTyped
    <2> HIDE DEF c
    <2>5. callback' \in [Subjects -> CallbackType]
      BY <1>1, <2>1, <2>4, CallbacksTyped
    <2> QED
      BY <1>1, <1>2, <1>3, <2>2, <2>5 DEF SendFrame
  <1>4. ASSUME NEW j \in Subjects, FanOut(j)
        PROVE  OfflineTypeOK'
    <2>1. callback[j].frame \in Frames
      BY <1>1, <1>4 DEF FanOut, CallbackType, Frames
    <2>2. callback' \in [Subjects -> CallbackType]
      <3>1. NoCallback \in CallbackType /\ callback' = [callback EXCEPT ![j] = NoCallback]
        BY <1>4, CallbackTyped DEF FanOut
      <3> QED
        BY <1>1, <3>1, CallbacksTyped
    <2> DEFINE f == callback[j].frame
    <2>3. \A s \in Sockets : /\ TrySend(socket[s].send, f) \in Seq(Copies)
                             /\ Len(TrySend(socket[s].send, f)) <= BufferSize
      BY <1>1, <2>1, TrySendTyped, FramesAreCopies
    <2>4. \A s \in Sockets : socket'[s] \in SocketType /\ Len(socket'[s].send) <= BufferSize
      <3> SUFFICES ASSUME NEW s \in Sockets
                   PROVE  socket'[s] \in SocketType /\ Len(socket'[s].send) <= BufferSize
        OBVIOUS
      <3> DEFINE v == TrySend(socket[s].send, f)
      <3>1. \/ socket'[s] = [socket[s] EXCEPT !.send = v]
            \/ socket'[s] = socket[s]
        BY <1>4 DEF FanOut
      <3>2. v \in Seq(Copies) /\ Len(v) <= BufferSize
        BY <2>3
      <3> HIDE DEF v
      <3> QED
        BY <1>1, <3>1, <3>2 DEF SocketType
    <2>5. socket' \in [Sockets -> SocketType]
      <3>1. socket' = [s \in Sockets |-> socket'[s]]
        BY <1>4 DEF FanOut
      <3> QED
        BY <2>4, <3>1
    <2> QED
      BY <1>1, <1>2, <1>4, <2>2, <2>4, <2>5 DEF FanOut
  <1>5. ASSUME NEW j \in Subjects, ReadLength(j)
        PROVE  OfflineTypeOK'
    <2> DEFINE c == [callback[j] EXCEPT !.pc = "rpush"]
    <2>1. c \in CallbackType
      BY <1>1, CallbackTyped
    <2>2. [c EXCEPT !.llen = Len(undelivered)] \in CallbackType
      BY <1>1, <2>1, CallbackTyped
    <2>3. callback' \in [Subjects -> CallbackType]
      <3>1. callback' = [[callback EXCEPT ![j] = c] EXCEPT ![j].llen = Len(undelivered)]
        BY <1>5 DEF ReadLength
      <3>2. callback' = [callback EXCEPT ![j] = [c EXCEPT !.llen = Len(undelivered)]]
        BY <1>1, <3>1
      <3> QED
        BY <1>1, <2>2, <3>2, CallbacksTyped
    <2> QED
      BY <1>1, <1>2, <1>5, <2>3 DEF ReadLength
  <1>6. ASSUME NEW j \in Subjects, Push(j)
        PROVE  OfflineTypeOK'
    <2>1. callback[j].frame \in Frames
      BY <1>1, <1>6 DEF Push, CallbackType, Frames
    <2>2. undelivered' \in Seq(Frames)
      BY <1>1, <1>6, <2>1, NextFrame DEF Push
    <2>3. callback' \in [Subjects -> CallbackType]
      <3>1. NoCallback \in CallbackType /\ [callback[j] EXCEPT !.pc = "trim"] \in CallbackType
        BY <1>1, CallbackTyped
      <3>2. \/ callback' = [callback EXCEPT ![j] = [callback[j] EXCEPT !.pc = "trim"]]
            \/ callback' = [callback EXCEPT ![j] = NoCallback]
        BY <1>6 DEF Push
      <3> QED
        BY <1>1, <3>1, <3>2, CallbacksTyped
    <2> QED
      BY <1>1, <1>2, <1>6, <2>2, <2>3 DEF Push
  <1>7. ASSUME NEW j \in Subjects, RedisFails(j)
        PROVE  OfflineTypeOK'
    <2>1. callback' \in [Subjects -> CallbackType]
      <3>1. NoCallback \in CallbackType /\ callback' = [callback EXCEPT ![j] = NoCallback]
        BY <1>7, CallbackTyped DEF RedisFails
      <3> QED
        BY <1>1, <3>1, CallbacksTyped
    <2>2. misses + 1 <= frames
      <3>1. j \in Active /\ Active \in SUBSET Subjects
        BY <1>7 DEF RedisFails, Active
      <3>2. IsFiniteSet(Active) /\ IsFiniteSet({j}) /\ {j} \in SUBSET Active
        BY <3>1, OfflineAssumption, FS_Subset, FS_Singleton
      <3>3. Cardinality(Active) \in Nat /\ Cardinality({j}) = 1
            /\ Cardinality({j}) <= Cardinality(Active)
        BY <3>2, FS_CardinalityType, FS_Subset, FS_Singleton
      <3>4. misses + Cardinality(Active) <= frames
        BY DEF CountInv
      <3> QED
        BY <1>1, <3>3, <3>4
    <2>3. misses' \in 0 .. MaxFrames
      <3>1. misses' = misses \/ misses' = misses + 1
        BY <1>7 DEF RedisFails
      <3> QED
        BY <1>1, <2>2, <3>1
    <2> QED
      BY <1>1, <1>2, <1>7, <2>1, <2>3 DEF RedisFails
  <1>8. ASSUME NEW j \in Subjects, Trim(j)
        PROVE  OfflineTypeOK'
    <2>1. callback' \in [Subjects -> CallbackType]
      <3>1. NoCallback \in CallbackType /\ callback' = [callback EXCEPT ![j] = NoCallback]
        BY <1>8, CallbackTyped DEF Trim
      <3> QED
        BY <1>1, <3>1, CallbacksTyped
    <2>2. undelivered' \in Seq(Frames)
      BY <1>8, ListTrimmed
    <2>3. 0 \in 0 .. MaxFrames
      BY <1>1
    <2> QED
      BY <1>1, <1>2, <1>8, <2>1, <2>2, <2>3 DEF Trim
  <1>9. ASSUME NEW s \in Sockets, NEW v \in SocketType, Len(v.send) <= BufferSize,
               socket' = [socket EXCEPT ![s] = v]
        PROVE  socket' \in [Sockets -> SocketType]
               /\ \A t \in Sockets : Len(socket'[t].send) <= BufferSize
    <2>1. socket'[s] = v /\ \A t \in Sockets : t # s => socket'[t] = socket[t]
      BY <1>1, <1>9
    <2> QED
      BY <1>1, <1>9, <2>1
  <1>10. /\ <<>> \in Seq(Frames) /\ <<>> \in Seq(Copies) /\ Len(<<>>) <= BufferSize
    BY OfflineAssumption, EmptySeq
  <1>11. ASSUME NEW s \in Sockets, Connect(s)
         PROVE  OfflineTypeOK'
    <2> DEFINE v == [NoSocket EXCEPT !.pc = "registered"]
    <2>1. socket' = [socket EXCEPT ![s] = v]
      BY <1>11 DEF Connect
    <2>2. v \in SocketType /\ Len(v.send) <= BufferSize
      BY <1>10 DEF SocketType, NoSocket
    <2> HIDE DEF v
    <2>3. socket' \in [Sockets -> SocketType] /\ \A t \in Sockets : Len(socket'[t].send) <= BufferSize
      BY <1>9, <2>1, <2>2
    <2> QED
      BY <1>1, <1>2, <1>11, <2>3 DEF Connect
  <1>12. ASSUME NEW s \in Sockets, DrainRead(s)
         PROVE  OfflineTypeOK'
    <2> DEFINE p == socket[s].send \o Oldest(undelivered, BufferSize - Len(socket[s].send))
               v == [[socket[s] EXCEPT !.pc = "draining"] EXCEPT !.send = p]
               w == [socket[s] EXCEPT !.pc = "open"]
    <2>1. socket' = [socket EXCEPT ![s] = v] \/ socket' = [socket EXCEPT ![s] = w]
      BY <1>1, <1>12 DEF DrainRead, SocketType
    <2>2. p \in Seq(Copies) /\ Len(p) <= BufferSize
      BY <1>1, DrainTyped
    <2> HIDE DEF p
    <2>3. v \in SocketType /\ w \in SocketType /\ Len(v.send) <= BufferSize /\ Len(w.send) <= BufferSize
      BY <1>1, <2>2 DEF SocketType
    <2> HIDE DEF v, w
    <2>4. socket' \in [Sockets -> SocketType] /\ \A t \in Sockets : Len(socket'[t].send) <= BufferSize
      BY <1>9, <2>1, <2>3
    <2> QED
      BY <1>1, <1>2, <1>12, <2>4 DEF DrainRead
  <1>13. ASSUME NEW s \in Sockets, DrainDelete(s)
         PROVE  OfflineTypeOK'
    <2> DEFINE w == [socket[s] EXCEPT !.pc = "open"]
    <2>1. socket' = [socket EXCEPT ![s] = w] /\ undelivered' \in Seq(Frames)
      BY <1>1, <1>13, <1>10 DEF DrainDelete
    <2>2. w \in SocketType /\ Len(w.send) <= BufferSize
      BY <1>1 DEF SocketType
    <2> HIDE DEF w
    <2>3. socket' \in [Sockets -> SocketType] /\ \A t \in Sockets : Len(socket'[t].send) <= BufferSize
      BY <1>9, <2>1, <2>2
    <2> QED
      BY <1>1, <1>2, <1>13, <2>1, <2>3 DEF DrainDelete
  <1>14. ASSUME NEW s \in Sockets, WriteFrame(s)
         PROVE  OfflineTypeOK'
    <2> DEFINE q == socket[s].send
               w == [socket[s] EXCEPT !.send = Tail(q)]
    <2>1. socket' = [socket EXCEPT ![s] = w] /\ q # <<>>
          /\ shown' = [shown EXCEPT ![s] = shown[s] \union ({Head(q)} \ {AcceptedCopy})]
      BY <1>1, <1>14 DEF WriteFrame
    <2>2. /\ Tail(q) \in Seq(Copies) /\ Len(Tail(q)) <= BufferSize
          /\ {Head(q)} \ {AcceptedCopy} \subseteq Frames
      <3>1. Len(q) \in Nat \ {0} /\ Tail(q) \in Seq(Copies) /\ Len(Tail(q)) = Len(q) - 1
            /\ Head(q) \in Copies
        BY <1>1, <2>1, EmptySeq, HeadTailProperties
      <3> QED
        BY <1>1, <3>1, OfflineAssumption DEF Copies
    <2>3. w \in SocketType /\ Len(w.send) <= BufferSize
      BY <1>1, <2>2 DEF SocketType
    <2> HIDE DEF w
    <2>4. socket' \in [Sockets -> SocketType] /\ \A t \in Sockets : Len(socket'[t].send) <= BufferSize
      BY <1>9, <2>1, <2>3
    <2>5. shown' \in [Sockets -> SUBSET Frames]
      BY <1>1, <2>1, <2>2
    <2> QED
      BY <1>1, <1>2, <1>14, <2>4, <2>5 DEF WriteFrame
  <1>15. ASSUME NEW s \in Sockets, Disconnect(s)
         PROVE  OfflineTypeOK'
    <2>1. socket' = [socket EXCEPT ![s] = NoSocket]
      BY <1>15 DEF Disconnect
    <2>2. NoSocket \in SocketType /\ Len(NoSocket.send) <= BufferSize
      BY <1>10 DEF SocketType, NoSocket
    <2>3. socket' \in [Sockets -> SocketType] /\ \A t \in Sockets : Len(socket'[t].send) <= BufferSize
      BY <1>9, <2>1, <2>2
    <2>4. callback' \in [Subjects -> CallbackType]
      <3>1. \A j \in Subjects : callback[j] \in CallbackType /\ callback[j].to \ {s} \in SUBSET Sockets
        BY <1>1 DEF CallbackType
      <3>2. \A j \in Subjects : [callback[j] EXCEPT !.to = callback[j].to \ {s}] \in CallbackType
        BY <3>1, CallbackTyped
      <3> QED
        BY <1>15, <3>2 DEF Disconnect
    <2>5. shown' \in [Sockets -> SUBSET Frames]
      BY <1>1, <1>15 DEF Disconnect
    <2> QED
      BY <1>1, <1>2, <1>15, <2>3, <2>4, <2>5 DEF Disconnect
  <1>16. CASE ListExpires
    BY <1>1, <1>2, <1>10, <1>16 DEF ListExpires
  <1>17. CASE UNCHANGED offlineVars
    BY <1>1, <1>2, <1>17 DEF offlineVars
  <1>18. CASE SendLive
    <2>1. socket' \in [Sockets -> SocketType] /\ \A s \in Sockets : Len(socket'[s].send) <= BufferSize
      BY <1>1, <1>18, SendLiveTyped
    <2> QED
      BY <1>1, <1>2, <1>18, <2>1 DEF SendLive
  <1> QED
    BY <1>3, <1>4, <1>5, <1>6, <1>7, <1>8, <1>11, <1>12, <1>13, <1>14, <1>15, <1>16, <1>17, <1>18
       DEF OfflineNext
-----------------------------------------------------------------------------
(***************************************************************************)
(* OfflineQueue: where a frame can be                                      *)
(***************************************************************************)

\* The callbacks whose frame is not yet in a channel or in the list.
Carriers == {j \in Subjects : callback[j].pc \in {"fanout", "llen", "rpush"}}

\* A callback with a frame has one that was sent, and frames are numbered as
\* they are sent.
Known ==
    /\ \A x : Holds(undelivered, x) => x <= frames
    /\ \A s \in Sockets : /\ \A x : Holds(socket[s].send, x) => x <= frames
                          /\ \A x \in shown[s] : x <= frames
    /\ \A j \in Subjects : /\ callback[j].frame <= frames
                           /\ callback[j].pc # "idle" => callback[j].frame # 0

\* The frame of a carrier is nowhere else.
Carried ==
    \A j \in Carriers :
        /\ ~ Holds(undelivered, callback[j].frame)
        /\ \A s \in Sockets : /\ ~ Holds(socket[s].send, callback[j].frame)
                              /\ callback[j].frame \notin shown[s]
        /\ \A i \in Carriers : i # j => callback[i].frame # callback[j].frame

\* A channel holds no frame twice and none the connection was sent; until the
\* drain has read the list, it holds none of the list.
Undrained(s) == socket[s].pc = "registered" =>
                   \A x : Holds(socket[s].send, x) => ~ Holds(undelivered, x)
SocketInv ==
    \A s \in Sockets :
        /\ Distinct(socket[s].send)
        /\ \A x \in shown[s] : ~ Holds(socket[s].send, x)
        /\ socket[s].pc # "open" => shown[s] = {}
        /\ Undrained(s)

FrameInv == Known /\ Carried /\ Distinct(undelivered) /\ SocketInv

\* What is left of the list, of the channels and of the carriers: a step that
\* adds nothing to any of them.
LEMMA FramesOnlyLeave ==
    ASSUME OfflineTypeOK, FrameInv, UNCHANGED frames,
           Distinct(undelivered'), \A x : Holds(undelivered', x) => Holds(undelivered, x),
           \A j \in Subjects : /\ callback'[j].frame \in {0, callback[j].frame}
                               /\ callback'[j].pc # "idle" =>
                                     callback[j].pc # "idle" /\ callback'[j].frame = callback[j].frame
                               /\ j \in Carriers' => j \in Carriers,
           \A s \in Sockets :
              /\ Distinct(socket'[s].send)
              /\ \A x : Holds(socket'[s].send, x) => Holds(socket[s].send, x)
              /\ socket'[s].pc # "open" => shown'[s] = {}
              /\ \A x \in shown'[s] : /\ ~ Holds(socket'[s].send, x)
                                      /\ x \in shown[s] \/ Holds(socket[s].send, x)
              /\ socket'[s].pc = "registered" =>
                    socket[s].pc = "registered" \/ socket'[s].send = <<>>
    PROVE  FrameInv'
  <1>1. Known'
    <2>1. frames \in Nat /\ 0 <= frames
      BY OfflineAssumption DEF OfflineTypeOK
    <2> QED
      BY <2>1 DEF FrameInv, Known
  <1>2. Carried'
    <2>1. \A j \in Carriers' : /\ j \in Subjects /\ j \in Carriers
                               /\ callback'[j].frame = callback[j].frame
      BY DEF Carriers
    <2> QED
      BY <2>1 DEF FrameInv, Carried
  <1>3. SocketInv'
    <2>1. \A s \in Sockets : Undrained(s)'
      <3> SUFFICES ASSUME NEW s \in Sockets, socket'[s].pc = "registered", NEW x,
                          Holds(socket'[s].send, x), Holds(undelivered', x)
                   PROVE  FALSE
        BY DEF Undrained
      <3>1. ~ Holds(<<>>, x)
        BY DEF Holds
      <3> QED
        BY <3>1 DEF FrameInv, SocketInv, Undrained
    <2> QED
      BY <2>1 DEF FrameInv, SocketInv
  <1> QED
    BY <1>1, <1>2, <1>3 DEF FrameInv
\* Every step keeps a frame in one place, the channels of its fan-out apart.
LEMMA FrameStep ==
    ASSUME OfflineTypeOK, OfflineTypeOK', FrameInv, [OfflineNext]_offlineVars
    PROVE  FrameInv'
  <1>1. /\ undelivered \in Seq(Frames) /\ frames \in Nat /\ MaxFrames \in Nat
        /\ callback \in [Subjects -> CallbackType] /\ socket \in [Sockets -> SocketType]
        /\ \A s \in Sockets : socket[s].send \in Seq(Copies) /\ Len(socket[s].send) <= BufferSize
        /\ shown \in [Sockets -> SUBSET Frames]
        /\ \A j \in Subjects : callback[j].frame \in 0 .. MaxFrames
    BY OfflineAssumption DEF OfflineTypeOK, CallbackType, SocketType
  <1>2. \A j \in Carriers : j \in Subjects /\ callback[j].frame \in Frames
    BY <1>1 DEF Carriers, FrameInv, Known, Frames
  <1>3. ASSUME NEW j \in Subjects, SendFrame(j)
        PROVE  FrameInv'
    <2>1. /\ callback'[j].frame = frames + 1 /\ \A i \in Subjects : i # j => callback'[i] = callback[i]
      BY <1>1, <1>3 DEF SendFrame, NoCallback
    <2>2. UNCHANGED <<undelivered, socket, shown>> /\ frames' = frames + 1
      BY <1>3 DEF SendFrame
    <2>3. /\ \A x : Holds(undelivered, x) => x <= frames /\ x # frames + 1
          /\ \A s \in Sockets : /\ \A x : Holds(socket[s].send, x) => x <= frames /\ x # frames + 1
                                /\ \A x \in shown[s] : x <= frames /\ x # frames + 1
          /\ \A i \in Subjects : callback[i].frame <= frames /\ callback[i].frame # frames + 1
      <3>1. \A q \in Seq(Copies) : \A x : Holds(q, x) => x \in Nat
        BY <1>1, LenProperties DEF Holds, Frames, Copies, AcceptedCopy
      <3>2. \A x \in Nat : x <= frames => x # frames + 1
        BY <1>1
      <3>3. \A s \in Sockets : \A x \in shown[s] : x \in Nat
        BY <1>1 DEF Frames
      <3>4. \A i \in Subjects : callback[i].frame \in Nat
        BY <1>1
      <3> QED
        BY <1>1, <3>1, <3>2, <3>3, <3>4, FramesAreCopies DEF FrameInv, Known
    <2>4. Known'
      <3>1. \A x \in Nat : x <= frames => x <= frames + 1
        BY <1>1
      <3>2. \A q \in Seq(Copies) : \A x : Holds(q, x) => x \in Nat
        BY <1>1, LenProperties DEF Holds, Frames, Copies, AcceptedCopy
      <3>3. \A s \in Sockets : \A x \in shown[s] : x \in Nat
        BY <1>1 DEF Frames
      <3>4. \A i \in Subjects : callback'[i].frame <= frames + 1
                                /\ (callback'[i].pc # "idle" => callback'[i].frame # 0)
        BY <1>1, <2>1, <2>3 DEF FrameInv, Known
      <3>5. \A x : Holds(undelivered, x) => x <= frames + 1
        BY <1>1, <2>3, <3>1, <3>2, FramesAreCopies
      <3>6. \A s \in Sockets : /\ \A x : Holds(socket[s].send, x) => x <= frames + 1
                               /\ \A x \in shown[s] : x <= frames + 1
        BY <1>1, <2>3, <3>1, <3>2, <3>3
      <3> QED
        BY <2>2, <3>4, <3>5, <3>6 DEF Known
    <2>5. Carried'
      <3>1. \A i \in Carriers' : i \in Subjects /\ (i = j \/ (i \in Carriers /\ callback'[i] = callback[i]))
        BY <2>1 DEF Carriers
      <3>2. /\ ~ Holds(undelivered, frames + 1)
            /\ \A s \in Sockets : ~ Holds(socket[s].send, frames + 1) /\ frames + 1 \notin shown[s]
        BY <2>3
      <3> SUFFICES ASSUME NEW i \in Carriers'
                   PROVE  /\ ~ Holds(undelivered, callback'[i].frame)
                          /\ \A s \in Sockets : /\ ~ Holds(socket[s].send, callback'[i].frame)
                                                /\ callback'[i].frame \notin shown[s]
                          /\ \A k \in Carriers' : k # i => callback'[k].frame # callback'[i].frame
        BY <2>2 DEF Carried
      <3>3. CASE i = j
        BY <2>1, <2>3, <3>1, <3>2, <3>3
      <3>4. CASE i # j
        BY <2>1, <2>3, <3>1, <3>4 DEF FrameInv, Carried
      <3> QED
        BY <3>3, <3>4
    <2>6. Distinct(undelivered)' /\ SocketInv'
      BY <2>2 DEF FrameInv, SocketInv, Undrained
    <2> QED
      BY <2>4, <2>5, <2>6 DEF FrameInv
  <1>4. ASSUME NEW j \in Subjects, FanOut(j)
        PROVE  FrameInv'
    <2> DEFINE f == callback[j].frame
    <2>1. j \in Carriers /\ f \in Frames /\ f <= frames
      BY <1>2, <1>4 DEF FanOut, Carriers, FrameInv, Known
    <2>2. /\ ~ Holds(undelivered, f)
          /\ \A s \in Sockets : ~ Holds(socket[s].send, f) /\ f \notin shown[s]
          /\ \A i \in Carriers : i # j => callback[i].frame # f
      BY <2>1 DEF FrameInv, Carried
    <2>3. UNCHANGED <<undelivered, shown, frames>>
      BY <1>4 DEF FanOut
    <2>4. /\ callback'[j] = NoCallback /\ \A i \in Subjects : i # j => callback'[i] = callback[i]
      BY <1>1, <1>4 DEF FanOut
    <2>5. \A s \in Sockets : /\ socket'[s].pc = socket[s].pc
                             /\ socket'[s].send \in {socket[s].send, TrySend(socket[s].send, f)}
      BY <1>1, <1>4 DEF FanOut, SocketType
    <2> HIDE DEF f
    <2>6. \A s \in Sockets : /\ \A x : Holds(socket'[s].send, x) => Holds(socket[s].send, x) \/ x = f
                             /\ Distinct(socket'[s].send)
      <3> SUFFICES ASSUME NEW s \in Sockets
                   PROVE  /\ \A x : Holds(socket'[s].send, x) => Holds(socket[s].send, x) \/ x = f
                          /\ Distinct(socket'[s].send)
        OBVIOUS
      <3>1. Distinct(socket[s].send)
        BY DEF FrameInv, SocketInv
      <3>2. /\ \A x : Holds(TrySend(socket[s].send, f), x) => Holds(socket[s].send, x) \/ x = f
            /\ Distinct(TrySend(socket[s].send, f))
        BY <1>1, <2>1, <2>2, <3>1, TrySendTyped, FramesAreCopies
      <3> QED
        BY <2>5, <3>1, <3>2
    <2>7. Known'
      <3>1. NoCallback.frame = 0 /\ NoCallback.pc = "idle" /\ 0 <= frames
        BY <1>1 DEF NoCallback
      <3> QED
        BY <2>1, <2>3, <2>4, <2>6, <3>1 DEF FrameInv, Known
    <2>8. Carried'
      <3>1. \A i \in Carriers' : i \in Carriers /\ i # j /\ callback'[i] = callback[i]
        BY <2>4 DEF Carriers, NoCallback
      <3> QED
        BY <2>2, <2>3, <2>6, <3>1 DEF FrameInv, Carried
    <2>9. SocketInv'
      <3> SUFFICES ASSUME NEW s \in Sockets
                   PROVE  /\ \A x \in shown[s] : ~ Holds(socket'[s].send, x)
                          /\ socket'[s].pc # "open" => shown[s] = {}
                          /\ socket'[s].pc = "registered" =>
                                \A x : Holds(socket'[s].send, x) => ~ Holds(undelivered, x)
        BY <2>3, <2>6 DEF SocketInv, Undrained
      <3> QED
        BY <2>2, <2>5, <2>6 DEF FrameInv, SocketInv, Undrained
    <2> QED
      BY <2>3, <2>7, <2>8, <2>9 DEF FrameInv
  <1>5. ASSUME NEW j \in Subjects, Push(j)
        PROVE  FrameInv'
    <2> DEFINE f == callback[j].frame
    <2>1. j \in Carriers /\ f \in Frames /\ f <= frames
      BY <1>2, <1>5 DEF Push, Carriers, FrameInv, Known
    <2>2. /\ ~ Holds(undelivered, f)
          /\ \A s \in Sockets : ~ Holds(socket[s].send, f) /\ f \notin shown[s]
          /\ \A i \in Carriers : i # j => callback[i].frame # f
      BY <2>1 DEF FrameInv, Carried
    <2>3. UNCHANGED <<socket, shown, frames>> /\ undelivered' = Append(undelivered, f)
      BY <1>5 DEF Push
    <2>4. /\ callback'[j] \in {NoCallback, [callback[j] EXCEPT !.pc = "trim"]}
          /\ \A i \in Subjects : i # j => callback'[i] = callback[i]
      BY <1>1, <1>5 DEF Push
    <2>5. /\ j \notin Carriers'
          /\ callback'[j].frame <= frames
          /\ callback'[j].pc # "idle" => callback'[j].frame # 0
      <3>1. NoCallback.frame = 0 /\ NoCallback.pc = "idle" /\ 0 <= frames
        BY <1>1 DEF NoCallback
      <3>2. [callback[j] EXCEPT !.pc = "trim"].frame = f /\ [callback[j] EXCEPT !.pc = "trim"].pc = "trim"
        BY <1>1 DEF CallbackType
      <3>3. f # 0
        BY <2>1 DEF Frames
      <3> QED
        BY <2>1, <2>4, <3>1, <3>2, <3>3 DEF Carriers
    <2> HIDE DEF f
    <2>6. /\ \A x : Holds(undelivered', x) => Holds(undelivered, x) \/ x = f
          /\ Distinct(undelivered')
      BY <1>1, <2>1, <2>2, <2>3, NextFrame DEF FrameInv
    <2>7. Known'
      BY <2>1, <2>3, <2>4, <2>5, <2>6 DEF FrameInv, Known
    <2>8. Carried'
      <3>1. \A i \in Carriers' : i \in Carriers /\ i # j /\ callback'[i] = callback[i]
        BY <2>4, <2>5 DEF Carriers
      <3> QED
        BY <2>2, <2>3, <2>6, <3>1 DEF FrameInv, Carried
    <2>9. SocketInv'
      BY <2>2, <2>3, <2>6 DEF FrameInv, SocketInv, Undrained
    <2> QED
      BY <2>6, <2>7, <2>8, <2>9 DEF FrameInv
  <1>6. ASSUME NEW s \in Sockets, DrainRead(s), socket'[s].pc = "draining"
        PROVE  FrameInv'
    <2> DEFINE p == socket[s].send \o Oldest(undelivered, BufferSize - Len(socket[s].send))
    <2>1. socket[s].pc = "registered" /\ UNCHANGED <<undelivered, callback, shown, frames>>
          /\ socket'[s].send = p /\ \A t \in Sockets : t # s => socket'[t] = socket[t]
      BY <1>1, <1>6 DEF DrainRead, SocketType
    <2>2. Distinct(socket[s].send) /\ Distinct(undelivered) /\ shown[s] = {}
          /\ \A x : Holds(socket[s].send, x) => ~ Holds(undelivered, x)
      BY <2>1 DEF FrameInv, SocketInv, Undrained
    <2>3. /\ \A x : Holds(p, x) => Holds(socket[s].send, x) \/ Holds(undelivered, x)
          /\ Distinct(p)
      BY <1>1, <2>2, DrainTyped
    <2> HIDE DEF p
    <2>4. Known'
      BY <2>1, <2>3 DEF FrameInv, Known
    <2>5. Carried'
      <3>1. Carriers' = Carriers
        BY <2>1 DEF Carriers
      <3> QED
        BY <2>1, <2>3, <3>1 DEF FrameInv, Carried
    <2>6. SocketInv'
      BY <1>6, <2>1, <2>2, <2>3 DEF FrameInv, SocketInv, Undrained
    <2> QED
      BY <2>1, <2>4, <2>5, <2>6 DEF FrameInv
  <1>7. ASSUME NEW j \in Subjects, ReadLength(j) \/ RedisFails(j) \/ Trim(j)
        PROVE  FrameInv'
    <2>1. UNCHANGED <<socket, shown, frames>>
      BY <1>7 DEF ReadLength, RedisFails, Trim
    <2>2. Distinct(undelivered') /\ \A x : Holds(undelivered', x) => Holds(undelivered, x)
      BY <1>7, ListTrimmed DEF FrameInv, ReadLength, RedisFails
    <2>3. \A i \in Subjects :
            /\ callback'[i].frame \in {0, callback[i].frame}
            /\ callback'[i].pc # "idle" =>
                  callback[i].pc # "idle" /\ callback'[i].frame = callback[i].frame
            /\ i \in Carriers' => i \in Carriers
      <3>1. \A i \in Subjects : i # j => callback'[i] = callback[i]
        BY <1>7, CallbackSteps
      <3>2. /\ callback'[j].frame \in {0, callback[j].frame}
            /\ callback'[j].pc # "idle" => callback[j].pc # "idle" /\ callback'[j].frame = callback[j].frame
            /\ callback'[j].pc \in {"fanout", "llen", "rpush"} => callback[j].pc \in {"fanout", "llen", "rpush"}
        <4>1. CASE ReadLength(j)
          BY <1>1, <4>1 DEF ReadLength, CallbackType
        <4>2. CASE RedisFails(j) \/ Trim(j)
          BY <1>1, <4>2 DEF RedisFails, Trim, NoCallback
        <4> QED
          BY <1>7, <4>1, <4>2
      <3> QED
        BY <3>1, <3>2 DEF Carriers
    <2>4. \A s \in Sockets : /\ Distinct(socket[s].send) /\ (socket[s].pc # "open" => shown[s] = {})
                             /\ \A x \in shown[s] : ~ Holds(socket[s].send, x)
      BY DEF FrameInv, SocketInv
    <2> QED
      BY <2>1, <2>2, <2>3, <2>4, FramesOnlyLeave
  <1>8. ASSUME UNCHANGED <<callback, frames>>, undelivered' = undelivered \/ undelivered' = <<>>,
               \A s \in Sockets :
                  /\ Distinct(socket'[s].send)
                  /\ \A x : Holds(socket'[s].send, x) => Holds(socket[s].send, x)
                  /\ socket'[s].pc # "open" => shown'[s] = {}
                  /\ \A x \in shown'[s] : /\ ~ Holds(socket'[s].send, x)
                                          /\ x \in shown[s] \/ Holds(socket[s].send, x)
                  /\ socket'[s].pc = "registered" =>
                        socket[s].pc = "registered" \/ socket'[s].send = <<>>
        PROVE  FrameInv'
    <2>1. Distinct(<<>>) /\ \A x : ~ Holds(<<>>, x)
      BY DEF Distinct, Holds
    <2>2. Distinct(undelivered') /\ \A x : Holds(undelivered', x) => Holds(undelivered, x)
      BY <1>8, <2>1 DEF FrameInv
    <2>3. Carriers' = Carriers
      BY <1>8 DEF Carriers
    <2> QED
      BY <1>8, <2>2, <2>3, FramesOnlyLeave
  <1>9. \A s \in Sockets : /\ Distinct(socket[s].send) /\ (socket[s].pc # "open" => shown[s] = {})
                           /\ \A x \in shown[s] : ~ Holds(socket[s].send, x)
    BY DEF FrameInv, SocketInv
  <1>10. Distinct(<<>>) /\ \A x : ~ Holds(<<>>, x)
    BY DEF Distinct, Holds
  <1>11. ASSUME NEW s \in Sockets,
                Connect(s) \/ (DrainRead(s) /\ socket'[s].pc # "draining") \/ DrainDelete(s)
         PROVE  FrameInv'
    <2>1. /\ UNCHANGED <<callback, frames, shown>> /\ (undelivered' = undelivered \/ undelivered' = <<>>)
          /\ \A t \in Sockets : t # s => socket'[t] = socket[t]
      BY <1>1, <1>11 DEF Connect, DrainRead, DrainDelete
    <2>2. \/ (socket'[s].send = <<>> /\ shown[s] = {})
          \/ (socket'[s].send = socket[s].send /\ socket'[s].pc = "open")
      <3>1. CASE Connect(s)
        <4>1. socket[s].pc = "off" /\ socket'[s] = [NoSocket EXCEPT !.pc = "registered"]
          BY <1>1, <3>1 DEF Connect
        <4>2. socket'[s].send = <<>>
          BY <4>1 DEF NoSocket
        <4> QED
          BY <1>9, <4>1, <4>2
      <3>2. CASE DrainRead(s) /\ socket'[s].pc # "draining"
        BY <1>1, <3>2 DEF DrainRead, SocketType
      <3>3. CASE DrainDelete(s)
        BY <1>1, <3>3 DEF DrainDelete, SocketType
      <3> QED
        BY <1>11, <3>1, <3>2, <3>3
    <2> QED
      BY <1>8, <1>9, <1>10, <2>1, <2>2
  <1>12. ASSUME NEW s \in Sockets, WriteFrame(s)
         PROVE  FrameInv'
    <2> DEFINE q == socket[s].send
    <2>1. /\ q # <<>> /\ q \in Seq(Copies) /\ Distinct(q) /\ UNCHANGED <<undelivered, callback, frames>>
          /\ \A t \in Sockets : t # s => socket'[t] = socket[t] /\ shown'[t] = shown[t]
      BY <1>1, <1>9, <1>12 DEF WriteFrame
    <2>3. /\ socket'[s].send = Tail(q) /\ socket'[s].pc = "open"
          /\ shown'[s] = shown[s] \union ({Head(q)} \ {AcceptedCopy})
      <3>1. socket[s] \in SocketType /\ socket[s].pc = "open"
            /\ socket'[s] = [socket[s] EXCEPT !.send = Tail(q)]
        BY <1>1, <1>12 DEF WriteFrame
      <3> HIDE DEF q
      <3>2. socket'[s].send = Tail(q) /\ socket'[s].pc = "open"
        BY <3>1 DEF SocketType
      <3> QED
        BY <1>1, <1>12, <3>2 DEF WriteFrame, q
    <2> HIDE DEF q
    <2>2. /\ Distinct(Tail(q)) /\ (Head(q) # AcceptedCopy => Holds(q, Head(q)))
          /\ ~ Holds(Tail(q), Head(q))
          /\ \A x : Holds(Tail(q), x) => Holds(q, x)
      BY <2>1, FirstFrame
    <2> QED
      BY <1>8, <1>9, <2>1, <2>2, <2>3 DEF q
  <1>13. ASSUME NEW s \in Sockets, Disconnect(s)
         PROVE  FrameInv'
    <2>1. /\ UNCHANGED <<undelivered, frames>> /\ shown'[s] = {} /\ socket'[s] = NoSocket
          /\ \A t \in Sockets : t # s => socket'[t] = socket[t] /\ shown'[t] = shown[t]
          /\ \A j \in Subjects : callback'[j].frame = callback[j].frame /\ callback'[j].pc = callback[j].pc
      BY <1>1, <1>13 DEF Disconnect, CallbackType
    <2>2. Carriers' = Carriers /\ NoSocket.send = <<>> /\ NoSocket.pc = "off"
      BY <2>1 DEF Carriers, NoSocket
    <2>3. Distinct(undelivered)
      BY DEF FrameInv
    <2> QED
      BY <1>9, <1>10, <2>1, <2>2, <2>3, FramesOnlyLeave
  <1>14. CASE ListExpires \/ UNCHANGED offlineVars
    <2>1. UNCHANGED <<socket, shown, callback, frames>>
          /\ (undelivered' = undelivered \/ undelivered' = <<>>)
      BY <1>14 DEF ListExpires, offlineVars
    <2> QED
      BY <1>8, <1>9, <2>1
  <1>15. CASE SendLive
    <2>1. /\ UNCHANGED <<undelivered, callback, shown, frames>>
          /\ \A s \in Sockets :
                /\ socket'[s].pc = socket[s].pc /\ Distinct(socket'[s].send)
                /\ \A x : Holds(socket'[s].send, x) => Holds(socket[s].send, x)
      BY <1>1, <1>9, <1>15, SendLiveTyped DEF SendLive
    <2> QED
      BY <1>8, <1>9, <2>1
  <1> QED
    BY <1>3, <1>4, <1>5, <1>6, <1>7, <1>11, <1>12, <1>13, <1>14, <1>15 DEF OfflineNext
-----------------------------------------------------------------------------
OfflineInv == OfflineTypeOK /\ CountInv /\ FrameInv

\* No frame was sent yet.
LEMMA OfflineInitInv ==
    ASSUME OfflineInit
    PROVE  OfflineInv
  <1>1. /\ <<>> \in Seq(Frames) /\ <<>> \in Seq(Copies) /\ Len(<<>>) = 0 /\ 0 <= BufferSize
        /\ 0 \in 0 .. MaxFrames /\ UndeliveredMaxLen \in Nat
    BY OfflineAssumption, EmptySeq
  <1>2. /\ \A s \in Sockets : socket[s] = NoSocket /\ shown[s] = {}
        /\ \A j \in Subjects : callback[j] = NoCallback
        /\ callback = [j \in Subjects |-> NoCallback] /\ socket = [s \in Sockets |-> NoSocket]
        /\ shown = [s \in Sockets |-> {}] /\ undelivered = <<>> /\ frames = 0 /\ misses = 0
    BY DEF OfflineInit
  <1>3. NoCallback \in CallbackType /\ NoSocket \in SocketType /\ NoSocket.send = <<>>
        /\ NoCallback.pc = "idle" /\ NoCallback.frame = 0
    BY <1>1, CallbackTyped DEF SocketType, NoSocket, NoCallback
  <1>4. OfflineTypeOK
    <2>1. callback \in [Subjects -> CallbackType] /\ socket \in [Sockets -> SocketType]
          /\ shown \in [Sockets -> SUBSET Frames]
      BY <1>2, <1>3
    <2> QED
      BY <1>1, <1>2, <1>3, <2>1 DEF OfflineTypeOK, CallbackType, SocketType
  <1>5. CountInv
    <2>1. Pushing = {} /\ Trimming = {} /\ Active = {}
      BY <1>2, <1>3 DEF Pushing, Trimming, Active
    <2>2. Cardinality({}) = 0 /\ Cardinality(Subjects) \in Nat
      BY OfflineAssumption, FS_EmptySet, FS_CardinalityType
    <2> QED
      BY <1>1, <1>2, <2>1, <2>2 DEF CountInv
  <1>6. FrameInv
    <2>1. Distinct(<<>>) /\ \A x : ~ Holds(<<>>, x)
      BY DEF Distinct, Holds
    <2>2. Carriers = {}
      BY <1>2, <1>3 DEF Carriers
    <2>3. Known
      BY <1>2, <1>3, <2>1 DEF Known
    <2> QED
      BY <1>2, <1>3, <2>1, <2>2, <2>3 DEF FrameInv, Carried, SocketInv, Undrained
  <1> QED
    BY <1>4, <1>5, <1>6 DEF OfflineInv

\* Every step of the callbacks, drains and sockets keeps the invariant.
LEMMA OfflineNextInv ==
    ASSUME OfflineInv, [OfflineNext]_offlineVars
    PROVE  OfflineInv'
  <1>1. OfflineTypeOK'
    BY OfflineTypeStep DEF OfflineInv, FrameInv, Known
  <1> QED
    BY <1>1, CountStep, FrameStep DEF OfflineInv

\* The list, the callbacks and the channels keep their types; the trims that
\* failed are at most as many as the frames sent.
THEOREM OfflineTyped == OfflineSpec => []OfflineTypeOK
  <1>1. OfflineInv => OfflineTypeOK
    BY DEF OfflineInv
  <1> QED
    BY OfflineInitInv, OfflineNextInv, <1>1, PTL DEF OfflineSpec

\* enqueueUndelivered keeps the list of an account that never connects
\* bounded, although its length is read before the push and trimmed after it.
THEOREM UndeliveredStaysBounded == OfflineSpec => []UndeliveredBounded
  <1>1. OfflineInv => UndeliveredBounded
    <2> SUFFICES ASSUME OfflineInv
                 PROVE  UndeliveredBounded
      OBVIOUS
    <2>1. Pushing \in SUBSET Subjects /\ Trimming \in SUBSET Subjects
      BY DEF Pushing, Trimming
    <2>2. /\ Cardinality(Pushing) \in Nat /\ Cardinality(Trimming) \in Nat
          /\ Cardinality(Subjects) \in Nat
      BY <2>1, OfflineAssumption, FS_Subset, FS_CardinalityType
    <2>3. undelivered \in Seq(Frames) /\ misses \in Nat /\ UndeliveredMaxLen \in Nat
      BY OfflineAssumption DEF OfflineInv, OfflineTypeOK
    <2>4. Len(undelivered) \in Nat
      BY <2>3, LenProperties
    <2>5. Len(undelivered) <= UndeliveredMaxLen + Cardinality(Subjects) + Cardinality(Trimming) + misses
      BY <2>2, <2>3, <2>4 DEF OfflineInv, CountInv
    <2> QED
      BY <2>5 DEF UndeliveredBounded, Trimming
  <1> QED
    BY OfflineInitInv, OfflineNextInv, <1>1, PTL DEF OfflineSpec

\* Register before drainUndelivered sends no frame of hub.Send twice to a
\* connection, for any number of connections, subscriptions and frames and
\* however often SendLive puts copies of accepted envelopes between them.
THEOREM FramesOncePerConnection == OfflineSpec => []OncePerConnection
  <1>1. OfflineInv => OncePerConnection
    BY DEF OfflineInv, FrameInv, SocketInv, Distinct, Holds, OncePerConnection
  <1> QED
    BY OfflineInitInv, OfflineNextInv, <1>1, PTL DEF OfflineSpec
=============================================================================
