----------------------------- MODULE OfflineQueue -----------------------------
(***************************************************************************)
(* hub.Send and the undelivered list of one account: the frames of the NATS *)
(* subscriptions (direct, group, notification; one callback goroutine each) *)
(* go to the send channels of the connections the hub knows, or, when it    *)
(* knows none, to the Redis list undelivered:{uin}, which the next          *)
(* connection drains.  A Redis pipeline is a series of commands between     *)
(* which those of other callbacks run.  hub.SendLive puts what the          *)
(* recipient's queue of accepted envelopes holds into the same channels,    *)
(* from the JetStream consumer, at connect and every five seconds: an       *)
(* envelope that is sent both ways comes several times, and the client      *)
(* knows it by its id.                                                      *)
(***************************************************************************)
EXTENDS Naturals, Sequences, FiniteSets

CONSTANTS
    Subjects,          \* the subscriptions that send to the account
    Sockets,           \* connections
    UndeliveredMaxLen, \* soft cap of the list
    BufferSize,        \* sendBufferSize
    MaxFrames          \* bound: frames sent

ASSUME OfflineAssumption ==
    /\ IsFiniteSet(Subjects)
    /\ UndeliveredMaxLen \in Nat \ {0} /\ BufferSize \in Nat \ {0} /\ MaxFrames \in Nat

VARIABLES
    undelivered, \* the Redis list of frames, oldest first
    callback,    \* the callbacks: step, frame and the LLEN reply
    socket,      \* the connections: step and send channel
    shown,       \* history: the frames of hub.Send each open socket was sent
    frames,      \* how many frames hub.Send was given
    misses       \* history: trims that failed since the list was last cut

offlineVars == <<undelivered, callback, socket, shown, frames, misses>>

Frames == 1 .. MaxFrames

\* What a channel holds: frames of hub.Send, and copies of accepted envelopes,
\* whichever of them they carry.
AcceptedCopy == 0
Copies == Frames \union {AcceptedCopy}

OfflineTypeOK ==
    /\ undelivered \in Seq(Frames)
    /\ callback \in [Subjects -> [pc : {"idle", "fanout", "llen", "rpush", "trim"},
                                  frame : 0 .. MaxFrames, llen : Nat, to : SUBSET Sockets]]
    /\ socket \in [Sockets -> [pc : {"off", "registered", "draining", "open"},
                               send : Seq(Copies)]]
    /\ \A s \in Sockets : Len(socket[s].send) <= BufferSize
    /\ shown \in [Sockets -> SUBSET Frames]
    /\ frames \in 0 .. MaxFrames
    /\ misses \in 0 .. MaxFrames

NoCallback == [pc |-> "idle", frame |-> 0, llen |-> 0, to |-> {}]
NoSocket == [pc |-> "off", send |-> <<>>]

OfflineInit ==
    /\ undelivered = <<>>
    /\ callback = [j \in Subjects |-> NoCallback]
    /\ socket = [s \in Sockets |-> NoSocket]
    /\ shown = [s \in Sockets |-> {}]
    /\ frames = 0
    /\ misses = 0

Registered == {s \in Sockets : socket[s].pc # "off"}

\* TrySend: a full channel drops the frame.
TrySend(ch, f) == IF Len(ch) < BufferSize THEN Append(ch, f) ELSE ch

Oldest(q, n) == SubSeq(q, 1, IF n < Len(q) THEN n ELSE Len(q))

-----------------------------------------------------------------------------
\* Mutant: with connections open the frame is kept in the list as well.
SendFrameKeep(j) ==
    /\ callback[j].pc = "idle" /\ frames < MaxFrames
    /\ frames' = frames + 1
    /\ callback' = [callback EXCEPT ![j] =
                      [NoCallback EXCEPT !.pc = IF Registered = {} THEN "llen" ELSE "fanout",
                                         !.frame = frames + 1, !.to = Registered]]
    /\ undelivered' = IF Registered = {} THEN undelivered ELSE Append(undelivered, frames + 1)
    /\ UNCHANGED <<socket, shown, misses>>

\* A callback gets a frame; hub.Send loads the account's connections.
SendFrame(j) ==
    /\ callback[j].pc = "idle" /\ frames < MaxFrames
    /\ frames' = frames + 1
    /\ callback' = [callback EXCEPT ![j] =
                      [NoCallback EXCEPT !.pc = IF Registered = {} THEN "llen" ELSE "fanout",
                                         !.frame = frames + 1, !.to = Registered]]
    /\ UNCHANGED <<undelivered, socket, shown, misses>>

\* TrySend to every connection of the loaded slice that is still open.
FanOut(j) ==
    /\ callback[j].pc = "fanout"
    /\ socket' = [s \in Sockets |-> IF s \in callback[j].to
                                    THEN [socket[s] EXCEPT !.send = TrySend(@, callback[j].frame)]
                                    ELSE socket[s]]
    /\ callback' = [callback EXCEPT ![j] = NoCallback]
    /\ UNCHANGED <<undelivered, shown, frames, misses>>

\* enqueueUndelivered: LLEN, RPUSH with EXPIRE, and LTRIM when the LLEN was
\* over the cap.  A Redis error, before or after the command, ends the call.
ReadLength(j) ==
    /\ callback[j].pc = "llen"
    /\ callback' = [callback EXCEPT ![j].pc = "rpush", ![j].llen = Len(undelivered)]
    /\ UNCHANGED <<undelivered, socket, shown, frames, misses>>

\* Mutant: the cap is compared with a multiple of itself.
PushLateTrim(j) ==
    /\ callback[j].pc = "rpush"
    /\ undelivered' = Append(undelivered, callback[j].frame)
    /\ callback' = [callback EXCEPT ![j] = IF @.llen > 2 * UndeliveredMaxLen
                                           THEN [@ EXCEPT !.pc = "trim"] ELSE NoCallback]
    /\ UNCHANGED <<socket, shown, frames, misses>>

Push(j) ==
    /\ callback[j].pc = "rpush"
    /\ undelivered' = Append(undelivered, callback[j].frame)
    /\ callback' = [callback EXCEPT ![j] = IF @.llen > UndeliveredMaxLen
                                           THEN [@ EXCEPT !.pc = "trim"] ELSE NoCallback]
    /\ UNCHANGED <<socket, shown, frames, misses>>

RedisFails(j) ==
    /\ callback[j].pc \in {"llen", "rpush", "trim"}
    /\ callback' = [callback EXCEPT ![j] = NoCallback]
    /\ misses' = IF callback[j].pc = "trim" THEN misses + 1 ELSE misses
    /\ UNCHANGED <<undelivered, socket, shown, frames>>

\* LTRIM to the newest UndeliveredMaxLen, from the left.
Trim(j) ==
    /\ callback[j].pc = "trim"
    /\ undelivered' = IF Len(undelivered) > UndeliveredMaxLen
                      THEN SubSeq(undelivered, Len(undelivered) - UndeliveredMaxLen + 1,
                                  Len(undelivered))
                      ELSE undelivered
    /\ misses' = 0
    /\ callback' = [callback EXCEPT ![j] = NoCallback]
    /\ UNCHANGED <<socket, shown, frames>>

\* UndeliveredTTL ends.
ListExpires ==
    /\ undelivered # <<>>
    /\ undelivered' = <<>>
    /\ UNCHANGED <<callback, socket, shown, frames, misses>>

-----------------------------------------------------------------------------
\* The connection is registered before its drain.
Connect(s) ==
    /\ socket[s].pc = "off"
    /\ socket' = [socket EXCEPT ![s] = [NoSocket EXCEPT !.pc = "registered"]]
    /\ UNCHANGED <<undelivered, callback, shown, frames, misses>>

\* drainUndelivered: LRANGE and TrySend; an error or an empty list ends it.
DrainRead(s) ==
    /\ socket[s].pc = "registered"
    /\ \/ /\ undelivered # <<>>
          /\ socket' = [socket EXCEPT ![s].pc = "draining",
                          ![s].send = @ \o Oldest(undelivered, BufferSize - Len(@))]
       \/ socket' = [socket EXCEPT ![s].pc = "open"]
    /\ UNCHANGED <<undelivered, callback, shown, frames, misses>>

\* ... then DEL, of whatever the list holds by now.
DrainDelete(s) ==
    /\ socket[s].pc = "draining"
    /\ socket' = [socket EXCEPT ![s].pc = "open"]
    /\ undelivered' \in {<<>>, undelivered}
    /\ UNCHANGED <<callback, shown, frames, misses>>

\* replayAccepted, for a delivery that was accepted, at connect and at every
\* tick: TrySend of one envelope to the connections that hub.SendLive loaded
\* and that are still open.  It writes no list, and may come again.
SendLive ==
    /\ \E to \in SUBSET Registered :
          /\ to # {}
          /\ socket' = [s \in Sockets |-> IF s \in to
                                          THEN [socket[s] EXCEPT !.send = TrySend(@, AcceptedCopy)]
                                          ELSE socket[s]]
    /\ UNCHANGED <<undelivered, callback, shown, frames, misses>>

\* writeLoop writes one frame.
WriteFrame(s) ==
    /\ socket[s].pc = "open" /\ socket[s].send # <<>>
    /\ shown' = [shown EXCEPT ![s] = @ \union ({Head(socket[s].send)} \ {AcceptedCopy})]
    /\ socket' = [socket EXCEPT ![s].send = Tail(@)]
    /\ UNCHANGED <<undelivered, callback, frames, misses>>

\* The connection ends and is unregistered; its channel is not drained, and
\* what a callback still sends to it is lost.
Disconnect(s) ==
    /\ socket[s].pc = "open"
    /\ socket' = [socket EXCEPT ![s] = NoSocket]
    /\ shown' = [shown EXCEPT ![s] = {}]
    /\ callback' = [j \in Subjects |-> [callback[j] EXCEPT !.to = @ \ {s}]]
    /\ UNCHANGED <<undelivered, frames, misses>>

OfflineNext ==
    \/ \E j \in Subjects : \/ SendFrame(j) \/ FanOut(j) \/ ReadLength(j) \/ Push(j)
                           \/ RedisFails(j) \/ Trim(j)
    \/ \E s \in Sockets : \/ Connect(s) \/ DrainRead(s) \/ DrainDelete(s)
                          \/ WriteFrame(s) \/ Disconnect(s)
    \/ ListExpires \/ SendLive

OfflineSpec == OfflineInit /\ [][OfflineNext]_offlineVars

-----------------------------------------------------------------------------
(***************************************************************************)
(* Properties                                                              *)
(***************************************************************************)

\* The list of an account that never connects stays bounded although the
\* length is read before the push and the trim comes after it: with nothing
\* left to trim it is over the cap by at most one frame per subscription and
\* one per failed trim, which the next trim makes up for.
UndeliveredBounded ==
    Len(undelivered) <= UndeliveredMaxLen + Cardinality(Subjects)
                        + Cardinality({j \in Subjects : callback[j].pc = "trim"})
                        + misses

\* Every frame given to hub.Send, by fan-out or through the list, reaches one
\* connection at most once, although the connection is registered, and sent
\* to, before it drains the list the same callbacks push to (Register before
\* drainUndelivered): an envelope comes to a connection again only as a copy
\* from the queue of accepted envelopes.
OncePerConnection ==
    \A s \in Sockets :
        LET ch == socket[s].send IN
        \A i \in {k \in 1 .. Len(ch) : ch[k] # AcceptedCopy} :
            ch[i] \notin shown[s] /\ \A k \in 1 .. Len(ch) : ch[i] = ch[k] => i = k
=============================================================================
