------------------------------ MODULE MCServices ------------------------------
(* Small instances, for TLC, of the services that share no state in the model: *)
(* every behaviour is one of one service, the others stay in their first      *)
(* state.                                                                     *)
EXTENDS GroupEpochs, GatewaySessions, OfflineQueue, MessageHistory,
        PrekeyBundles, FileObjects, WipeCredentials, TLC

\* Model values for the requests, connections and objects of whichever service
\* runs, and for its accounts, keys and PIN.
CONSTANTS x1, x2, y1, y2, y3, u1, u2, k1, k2, k3, i1, i2, j1, j2, pin1

VARIABLE running \* the service whose behaviour this is

MCServices == {"groups", "gateway", "offline", "history", "prekeys", "files", "credentials"}

\* The services that begin in several states have one when another one runs.
MCInit ==
    /\ running \in MCServices
    /\ GroupsInit /\ GatewayInit /\ OfflineInit /\ HistoryInit
    /\ PrekeysInit /\ FilesInit /\ CredentialsInit
    /\ running # "gateway" => \A c \in Conns : ~conn[c].shows
    /\ running # "history" => kind = "direct"

MCOthers(vs) == UNCHANGED <<running, vs>>

MCNext ==
    \/ /\ running = "groups" /\ GroupsNext
       /\ MCOthers(<<gatewayVars, offlineVars, historyVars, prekeyVars, fileVars, credentialVars>>)
    \/ /\ running = "gateway" /\ GatewayNext
       /\ MCOthers(<<groupVars, offlineVars, historyVars, prekeyVars, fileVars, credentialVars>>)
    \/ /\ running = "offline" /\ OfflineNext
       /\ MCOthers(<<groupVars, gatewayVars, historyVars, prekeyVars, fileVars, credentialVars>>)
    \/ /\ running = "history" /\ HistoryNext
       /\ MCOthers(<<groupVars, gatewayVars, offlineVars, prekeyVars, fileVars, credentialVars>>)
    \/ /\ running = "prekeys" /\ PrekeysNext
       /\ MCOthers(<<groupVars, gatewayVars, offlineVars, historyVars, fileVars, credentialVars>>)
    \/ /\ running = "files" /\ FilesNext
       /\ MCOthers(<<groupVars, gatewayVars, offlineVars, historyVars, prekeyVars, credentialVars>>)
    \/ /\ running = "credentials" /\ CredentialsNext
       /\ MCOthers(<<groupVars, gatewayVars, offlineVars, historyVars, prekeyVars, fileVars>>)

\* Two of the three history rows have the same created_at.
MCCreatedAt == <<1, 2, 2>>

MCSymmetry == Permutations({x1, x2}) \union Permutations({j1, j2})

\* Bounds: distributions with the second id are considered only while there is
\* at most one group request; one accepted group message, and no distribution
\* with it, as neither is read by what makes the other; a presence step that
\* failed only while there is no wipe, which takes no notice of it; accepted
\* copies only in one channel at a time and among the first three frames; history
\* rows that expire, and read receipts under way, only for one key each, the
\* former only without late rows and the latter before the wipe; one late row;
\* two jobs at one peer's messages only in the direct table while one old row and
\* no late one may be there; avatar URLs only of the wiped account.
HoldsCopy(s) == \E i \in 1 .. Len(socket[s].send) : socket[s].send[i] = AcceptedCopy

MCBound ==
    /\ (\E d \in rows : d.id = i2) \/ (\E r \in Requests : greq[r].pc = "put" /\ greq[r].id = i2)
         => Cardinality({r \in Requests : greq[r].pc # "idle"}) <= 1
    /\ Cardinality(sent) <= 1 /\ (sent # {} => rows = {})
    /\ lost => ~blocked /\ acct = "live"
    /\ \A s, t \in Sockets : HoldsCopy(s) => frames <= 3 /\ (HoldsCopy(t) => s = t)
    /\ \A t \in Times : table[t].age \in {"expires", "expired"} => t = 2 /\ lateRows = {}
    /\ Cardinality(lateRows) <= 1
    /\ acks \subseteq {1} /\ (peer # "live" => acks = {})
    /\ (\A w \in Wipers : scan[w].pc # "idle") => table[1] = Absent /\ lateRows = {} /\ kind = "direct"
    /\ avatarURL \subseteq {Wiped}
=============================================================================
