------------------------------ MODULE GroupEpochs ------------------------------
(***************************************************************************)
(* One group of message-service: its roster, its crypto epoch and the      *)
(* sender-key inbox.  Every operation is one SQL statement (the handlers'   *)
(* CTEs) under READ COMMITTED: the statement takes its snapshot, may then   *)
(* wait for the lock on the groups row, and goes on with the row as it is   *)
(* now but with the group_members and sender_key_distributions rows of the  *)
(* snapshot.  A request is therefore interrupted between the snapshot       *)
(* ("Begin") and the work under the lock ("Run"), and between statements.   *)
(***************************************************************************)
EXTENDS Naturals, FiniteSets

CONSTANTS
    Uins,          \* accounts
    Clients,       \* those whose client lists, distributes keys and sends
    Requests,      \* concurrent requests
    KeyIds,        \* distribution ids
    KeysPerSender, \* live distributions kept per sender, recipient and epoch
    MaxEpoch,      \* bound: membership changes considered
    MaxRows        \* bound: distributions inserted

ASSUME GroupsAssumption ==
    /\ Clients \subseteq Uins
    /\ Uins # {} /\ KeyIds # {}
    /\ KeysPerSender \in Nat \ {0}
    /\ MaxEpoch \in Nat \ {0}
    /\ MaxRows \in Nat

VARIABLES
    grp,      \* the groups row
    joined,   \* group_members: the epoch a member's row was inserted in, or 0
    admins,   \* members with role 'admin'
    rows,     \* sender_key_distributions
    greq,     \* requests under way
    view,     \* the roster and epoch each client was last told
    sent,     \* group messages accepted by snapshotGroupRecipients
    rosters   \* history: the members of every epoch

groupVars == <<grp, joined, admins, rows, greq, view, sent, rosters>>

Row == [no : 1 .. MaxRows, epoch : 1 .. MaxEpoch, from : Uins, to : Uins,
        id : KeyIds, status : {"live", "retired", "aged"}]
View == [members : SUBSET Uins, epoch : 0 .. MaxEpoch]
Snapshot == [joined : [Uins -> 0 .. MaxEpoch], admins : SUBSET Uins,
             rows : SUBSET Row, epoch : 0 .. MaxEpoch]
Request == [pc : {"idle", "add", "checked", "remove", "wipe", "put",
                  "inbox", "routed", "list", "listed"},
            actor : Uins, target : Uins, epoch : 0 .. MaxEpoch,
            id : KeyIds, members : SUBSET Uins, snap : Snapshot]

Members == {u \in Uins : joined[u] > 0}

\* What a statement that starts now sees.
Now == [joined |-> joined, admins |-> admins, rows |-> rows, epoch |-> grp.epoch]
NoSnapshot == [joined |-> [u \in Uins |-> 0], admins |-> {}, rows |-> {}, epoch |-> 0]
NoGroupRequest ==
    [pc |-> "idle", actor |-> CHOOSE u \in Uins : TRUE, target |-> CHOOSE u \in Uins : TRUE,
     epoch |-> 0, id |-> CHOOSE i \in KeyIds : TRUE, members |-> {}, snap |-> NoSnapshot]

GroupsTypeOK ==
    /\ grp \in [live : BOOLEAN, epoch : 0 .. MaxEpoch, owner : Uins]
    /\ joined \in [Uins -> 0 .. MaxEpoch]
    /\ admins \subseteq Members
    /\ rows \subseteq Row
    /\ greq \in [Requests -> Request]
    /\ view \in [Clients -> View]
    /\ sent \subseteq [epoch : 1 .. MaxEpoch, from : Uins, to : SUBSET Uins]
    /\ rosters \in [1 .. MaxEpoch -> SUBSET Uins]

GroupsInit ==
    /\ grp = [live |-> FALSE, epoch |-> 0, owner |-> CHOOSE u \in Uins : TRUE]
    /\ joined = [u \in Uins |-> 0]
    /\ admins = {}
    /\ rows = {}
    /\ greq = [r \in Requests |-> NoGroupRequest]
    /\ view = [u \in Clients |-> [members |-> {}, epoch |-> 0]]
    /\ sent = {}
    /\ rosters = [e \in 1 .. MaxEpoch |-> {}]

-----------------------------------------------------------------------------
GroupFinish(r) == greq' = [greq EXCEPT ![r] = NoGroupRequest]

GroupBegin(r, pc, a, t) ==
    greq' = [greq EXCEPT ![r] =
               [NoGroupRequest EXCEPT !.pc = pc, !.actor = a, !.target = t, !.snap = Now]]

\* The rows of R that seen shows are retired; rows nobody sees stay as they are.
Retire(R, seen) ==
    {IF \E d \in seen : d.no = x.no /\ x.status = "live"
     THEN [x EXCEPT !.status = "retired"] ELSE x : x \in R}

\* The roster of the next epoch, stored with the epoch.
NextEpoch(owner, J) ==
    /\ grp' = [grp EXCEPT !.epoch = @ + 1, !.owner = owner]
    /\ joined' = J
    /\ rosters' = [rosters EXCEPT ![grp.epoch + 1] = {u \in Uins : J[u] > 0}]

\* DELETE FROM groups: memberships and distributions go with the row.
DropGroup ==
    /\ grp' = [grp EXCEPT !.live = FALSE]
    /\ joined' = [u \in Uins |-> 0]
    /\ admins' = {}
    /\ rows' = {}
    /\ UNCHANGED rosters

NoChange == UNCHANGED <<grp, joined, admins, rows, rosters>>

GroupCreate(u) ==
    /\ grp.epoch = 0
    /\ grp' = [live |-> TRUE, epoch |-> 1, owner |-> u]
    /\ joined' = [joined EXCEPT ![u] = 1]
    /\ admins' = {u}
    /\ rosters' = [rosters EXCEPT ![1] = {u}]
    /\ UNCHANGED <<rows, greq, view, sent>>

AddBegin(r, a, t) ==
    /\ greq[r].pc = "idle"
    /\ grp.epoch > 0
    /\ GroupBegin(r, "add", a, t)
    /\ UNCHANGED <<grp, joined, admins, rows, view, sent, rosters>>

\* Mutant: the epoch is not advanced for an addition.
AddRunSameEpoch(r) ==
    LET q == greq[r] IN
    /\ q.pc = "add"
    /\ IF grp.live /\ q.actor \in q.snap.admins /\ joined[q.target] = 0
       THEN joined' = [joined EXCEPT ![q.target] = grp.epoch]
       ELSE UNCHANGED joined
    /\ GroupFinish(r)
    /\ UNCHANGED <<grp, admins, rows, view, sent, rosters>>

\* qInsertGroupMember under the lock: the actor's role is the snapshot's, the
\* conflict on the target's row is judged now.
AddRun(r) ==
    LET q == greq[r] IN
    /\ q.pc = "add"
    /\ IF grp.live /\ q.actor \in q.snap.admins /\ joined[q.target] = 0
       THEN /\ grp.epoch < MaxEpoch
            /\ NextEpoch(grp.owner, [joined EXCEPT ![q.target] = grp.epoch + 1])
            /\ rows' = Retire(rows, {d \in q.snap.rows : d.epoch = grp.epoch})
            /\ UNCHANGED admins
       ELSE NoChange
    /\ GroupFinish(r)
    /\ UNCHANGED <<view, sent>>

\* The handler's first statement, getGroupRole: anybody may leave, an admin
\* may remove somebody else.
RemoveCheck(r, a, t) ==
    /\ greq[r].pc = "idle"
    /\ IF a = t THEN a \in Members ELSE a \in admins
    /\ greq' = [greq EXCEPT ![r] = [NoGroupRequest EXCEPT !.pc = "checked", !.actor = a,
                                                          !.target = t]]
    /\ UNCHANGED <<grp, joined, admins, rows, view, sent, rosters>>

RemoveBegin(r) ==
    /\ greq[r].pc = "checked"
    /\ GroupBegin(r, "remove", greq[r].actor, greq[r].target)
    /\ UNCHANGED <<grp, joined, admins, rows, view, sent, rosters>>

\* The longest-tenured of S.
Successor(S, snap) == CHOOSE u \in S : \A v \in S : snap.joined[u] <= snap.joined[v]

\* A row of the snapshot is still the same row.
SameMember(u, snap) == snap.joined[u] > 0 /\ joined[u] = snap.joined[u]

\* t leaves the group: who remains and who succeeds an owner is taken from the
\* snapshot, the owner from the locked row.  The group of a last member goes.
Depart(t, snap) ==
    LET remaining == {u \in Uins : snap.joined[u] > 0} \ {t}
        heir == Successor(remaining, snap)
    IN  IF remaining = {} THEN DropGroup
        ELSE /\ grp.epoch < MaxEpoch
             /\ NextEpoch(IF grp.owner = t THEN heir ELSE grp.owner,
                          [joined EXCEPT ![t] = 0])
             /\ admins' = (admins \ {t}) \union
                          {u \in {heir} : grp.owner = t /\ SameMember(u, snap)}
             /\ rows' = Retire(rows, snap.rows)

\* qRemoveGroupMemberAtomically under the lock.
RemoveRun(r) ==
    LET q == greq[r] IN
    /\ q.pc = "remove"
    /\ IF /\ grp.live
          /\ SameMember(q.target, q.snap)
          /\ q.actor = q.target \/ q.actor \in q.snap.admins
       THEN Depart(q.target, q.snap) ELSE NoChange
    /\ GroupFinish(r)
    /\ UNCHANGED <<view, sent>>

\* qWipeGroupMemberships, a statement of the panic-wipe transaction.
WipeMembershipBegin(r, u) ==
    /\ greq[r].pc = "idle"
    /\ u \in Members
    /\ GroupBegin(r, "wipe", u, u)
    /\ UNCHANGED <<grp, joined, admins, rows, view, sent, rosters>>

WipeMembershipRun(r) ==
    LET q == greq[r] IN
    /\ q.pc = "wipe"
    /\ IF grp.live /\ SameMember(q.target, q.snap)
       THEN Depart(q.target, q.snap) ELSE NoChange
    /\ GroupFinish(r)
    /\ UNCHANGED <<view, sent>>

\* DELETE /api/groups/{id}: the owner check is part of the DELETE.
GroupDelete(u) ==
    /\ grp.live /\ grp.owner = u
    /\ DropGroup
    /\ UNCHANGED <<greq, view, sent>>

-----------------------------------------------------------------------------
\* GET members: the membership check, the roster and the epoch are three
\* statements.
ListCheck(r, u) ==
    /\ greq[r].pc = "idle"
    /\ u \in Members
    /\ greq' = [greq EXCEPT ![r] = [NoGroupRequest EXCEPT !.pc = "list", !.actor = u]]
    /\ UNCHANGED <<grp, joined, admins, rows, view, sent, rosters>>

ListRoster(r) ==
    /\ greq[r].pc = "list"
    /\ greq' = [greq EXCEPT ![r].pc = "listed", ![r].members = Members]
    /\ UNCHANGED <<grp, joined, admins, rows, view, sent, rosters>>

ListEpoch(r) ==
    /\ greq[r].pc = "listed"
    /\ view' = IF grp.live
               THEN [view EXCEPT ![greq[r].actor] =
                       [members |-> greq[r].members, epoch |-> grp.epoch]]
               ELSE view
    /\ GroupFinish(r)
    /\ UNCHANGED <<grp, joined, admins, rows, sent, rosters>>

\* A client sends its sender key to somebody on the roster it knows.
PutBegin(r, u, t, i) ==
    /\ greq[r].pc = "idle"
    /\ t \in view[u].members
    /\ greq' = [greq EXCEPT ![r] =
                  [NoGroupRequest EXCEPT !.pc = "put", !.actor = u, !.target = t,
                                         !.epoch = view[u].epoch, !.id = i, !.snap = Now]]
    /\ UNCHANGED <<grp, joined, admins, rows, view, sent, rosters>>

\* Distributions of the request's sender to its recipient in its epoch.
SameInbox(q, S) ==
    {d \in S : d.epoch = q.epoch /\ d.from = q.actor /\ d.to = q.target}

\* Rows the statement deletes to make room: all but the newest.
Trimmed(q) ==
    LET mine == {d \in SameInbox(q, q.snap.rows) : d.status = "live"} IN
    IF \E d \in SameInbox(q, q.snap.rows) : d.id = q.id THEN {}
    ELSE {d \in mine : Cardinality({x \in mine : x.no > d.no}) >= KeysPerSender - 1}

\* Rows of u's inbox that retired more than 24 hours ago.
Aged(u) == {d \in rows : d.to = u /\ d.status = "aged"}

\* Mutant: membership and epoch as the snapshot shows them.
EligibleAtSnapshot(q) ==
    /\ grp.live
    /\ q.snap.epoch = q.epoch
    /\ q.snap.joined[q.actor] > 0 /\ q.snap.joined[q.target] > 0

\* The condition of the eligible CTE: checked on the snapshot, and for the
\* epoch again on the locked row.
Eligible(q) ==
    /\ grp.live
    /\ q.snap.epoch = q.epoch /\ grp.epoch = q.epoch
    /\ q.snap.joined[q.actor] > 0 /\ q.snap.joined[q.target] > 0

\* qPutSenderKeyDistribution under the lock.
PutRun(r) ==
    LET q == greq[r]
        kept == {d \in rows \ Aged(q.target) : \A x \in Trimmed(q) : x.no # d.no}
        next == CHOOSE n \in 1 .. MaxRows : \A d \in kept : d.no < n
    IN
    /\ q.pc = "put"
    /\ IF Eligible(q)
       THEN IF \E d \in SameInbox(q, rows) : d.id = q.id
            THEN rows' = kept
            ELSE /\ \E n \in 1 .. MaxRows : \A d \in kept : d.no < n
                 /\ rows' = kept \union
                      {[no |-> next, epoch |-> grp.epoch, from |-> q.actor,
                        to |-> q.target, id |-> q.id, status |-> "live"]}
       ELSE rows' = rows \ Aged(q.target)
    /\ GroupFinish(r)
    /\ UNCHANGED <<grp, joined, admins, view, sent, rosters>>

\* 24 hours pass after a row retired.
RowAges(d) ==
    /\ d \in rows /\ d.status = "retired"
    /\ rows' = (rows \ {d}) \union {[d EXCEPT !.status = "aged"]}
    /\ UNCHANGED <<grp, joined, admins, greq, view, sent, rosters>>

\* GET sender keys: membership and epoch in one statement, the rows in a
\* second, which also deletes the aged ones.
InboxCheck(r, u) ==
    /\ greq[r].pc = "idle"
    /\ u \in Members
    /\ greq' = [greq EXCEPT ![r] = [NoGroupRequest EXCEPT !.pc = "inbox", !.actor = u]]
    /\ UNCHANGED <<grp, joined, admins, rows, view, sent, rosters>>

InboxRead(r) ==
    /\ greq[r].pc = "inbox"
    /\ rows' = rows \ Aged(greq[r].actor)
    /\ GroupFinish(r)
    /\ UNCHANGED <<grp, joined, admins, view, sent, rosters>>

-----------------------------------------------------------------------------
\* The gateway's check, over the WebSocket or HTTP, for the epoch the client
\* encrypted for.
RouteGroup(r, u) ==
    /\ greq[r].pc = "idle"
    /\ u \in Members /\ grp.epoch = view[u].epoch
    /\ greq' = [greq EXCEPT ![r] = [NoGroupRequest EXCEPT !.pc = "routed", !.actor = u,
                                                          !.epoch = view[u].epoch]]
    /\ UNCHANGED <<grp, joined, admins, rows, view, sent, rosters>>

\* snapshotGroupRecipients: one statement, for exactly that epoch.
IngestGroup(r) ==
    LET q == greq[r] IN
    /\ q.pc = "routed"
    /\ sent' = IF grp.live /\ grp.epoch = q.epoch /\ q.actor \in Members
               THEN sent \union {[epoch |-> q.epoch, from |-> q.actor, to |-> Members]}
               ELSE sent
    /\ GroupFinish(r)
    /\ UNCHANGED <<grp, joined, admins, rows, view, rosters>>

-----------------------------------------------------------------------------
GroupsNext ==
    \/ \E u \in Uins : GroupCreate(u) \/ GroupDelete(u)
    \/ \E d \in rows : RowAges(d)
    \/ \E r \in Requests :
         \/ \E a, t \in Uins : AddBegin(r, a, t) \/ RemoveCheck(r, a, t)
         \/ \E u \in Uins : WipeMembershipBegin(r, u)
         \/ \E u \in Clients : \/ ListCheck(r, u) \/ RouteGroup(r, u) \/ InboxCheck(r, u)
                               \/ \E t \in Uins, i \in KeyIds : PutBegin(r, u, t, i)
         \/ AddRun(r) \/ RemoveBegin(r) \/ RemoveRun(r) \/ WipeMembershipRun(r)
         \/ ListRoster(r) \/ ListEpoch(r) \/ PutRun(r) \/ InboxRead(r) \/ IngestGroup(r)

GroupsSpec == GroupsInit /\ [][GroupsNext]_groupVars

-----------------------------------------------------------------------------
(***************************************************************************)
(* Properties                                                              *)
(***************************************************************************)

\* Whoever joins or leaves, by add, leave, kick or panic wipe, and whatever
\* the stale snapshot of the statement showed: the roster never changes inside
\* an epoch, and an epoch that began keeps its roster for good
\* (qInsertGroupMember, qRemoveGroupMemberAtomically, qWipeGroupMemberships).
EpochFixesRoster ==
    grp.live => rosters[grp.epoch] = Members

\* End-to-end secrecy of an epoch: a sender key is stored, and a message is
\* accepted, only from a member of its epoch, and only for members of that
\* very epoch, although the client acts on an old roster and both statements
\* may wait while members come and go.
KeysWithinEpoch ==
    /\ \A d \in rows : {d.from, d.to} \subseteq rosters[d.epoch]
    /\ \A m \in sent : m.from \in m.to /\ m.to = rosters[m.epoch]

=============================================================================
