-------------------------- MODULE GroupEpochsProofs --------------------------
(***************************************************************************)
(* Proofs about GroupEpochs for any number of accounts, requests and        *)
(* membership changes: a roster belongs to its epoch, and sender keys and   *)
(* messages stay inside it, although every statement works with the rows of *)
(* a snapshot taken before it got the lock.                                 *)
(***************************************************************************)
EXTENDS GroupEpochs, WellFoundedInduction, TLAPS

\* A deleted group has no members; a group there is has begun its first epoch.
GroupRowInv ==
    /\ ~ grp.live => Members = {}
    /\ grp.live => grp.epoch > 0

\* Nothing names an epoch that has not begun.
PastEpochs ==
    /\ \A d \in rows : d.epoch <= grp.epoch
    /\ \A m \in sent : m.epoch <= grp.epoch
    /\ \A r \in Requests : greq[r].snap.epoch <= grp.epoch

\* The members a snapshot shows are those of its epoch.
SnapshotsTrue ==
    \A r \in Requests : \A u \in Uins :
        greq[r].snap.joined[u] > 0 /\ greq[r].snap.epoch > 0 =>
            u \in rosters[greq[r].snap.epoch]

GroupsInv ==
    /\ GroupsTypeOK /\ GroupRowInv /\ PastEpochs /\ SnapshotsTrue
    /\ EpochFixesRoster /\ KeysWithinEpoch

-----------------------------------------------------------------------------
(***************************************************************************)
(* Requests and snapshots                                                  *)
(***************************************************************************)

\* A request before its first statement.
LEMMA NothingTyped ==
    /\ NoSnapshot \in Snapshot /\ NoGroupRequest \in Request
    /\ NoGroupRequest.snap = NoSnapshot /\ NoSnapshot.epoch = 0
  <1>1. NoSnapshot \in Snapshot /\ NoSnapshot.epoch = 0
    BY GroupsAssumption DEF NoSnapshot, Snapshot
  <1>2. (CHOOSE u \in Uins : TRUE) \in Uins /\ (CHOOSE i \in KeyIds : TRUE) \in KeyIds
    BY GroupsAssumption
  <1> HIDE DEF NoSnapshot, Snapshot
  <1>3. NoGroupRequest \in Request /\ NoGroupRequest.snap = NoSnapshot
    BY <1>1, <1>2, GroupsAssumption DEF NoGroupRequest, Request
  <1> QED
    BY <1>1, <1>3

\* The snapshot a statement takes is the tables as they are.
LEMMA NowTyped ==
    ASSUME GroupsTypeOK
    PROVE  Now \in Snapshot /\ Now.joined = joined /\ Now.epoch = grp.epoch
  BY DEF GroupsTypeOK, Now, Snapshot, Members

\* A step that changes nothing but one request, which is over, goes on with
\* its snapshot or begins with what there is now, and perhaps a client's view.
LEMMA RequestStep ==
    ASSUME GroupsInv, UNCHANGED <<grp, joined, admins, rows, sent, rosters>>,
           NEW r \in Requests, NEW q \in Request, greq' = [greq EXCEPT ![r] = q],
           q.snap = greq[r].snap \/ q.snap = NoSnapshot \/ q.snap = Now,
           view' \in [Clients -> View]
    PROVE  GroupsInv'
  <1> USE DEF GroupsInv
  <1>1. /\ greq'[r] = q /\ \A p \in Requests : p # r => greq'[p] = greq[p]
        /\ greq' \in [Requests -> Request]
    BY DEF GroupsTypeOK
  <1>2. GroupsTypeOK'
    BY <1>1 DEF GroupsTypeOK, Members
  <1>3. NoSnapshot.epoch = 0 /\ Now.joined = joined /\ Now.epoch = grp.epoch /\ grp.epoch \in Nat
    BY NothingTyped, NowTyped DEF GroupsTypeOK
  <1>4. q.snap.epoch <= grp.epoch
    BY <1>3 DEF PastEpochs
  <1>5. ASSUME NEW u \in Uins, q.snap.joined[u] > 0, q.snap.epoch > 0
        PROVE  u \in rosters[q.snap.epoch]
    <2>1. CASE q.snap = greq[r].snap
      BY <1>5, <2>1 DEF SnapshotsTrue
    <2>2. CASE q.snap = NoSnapshot
      BY <1>3, <1>5, <2>2
    <2>3. CASE q.snap = Now
      BY <1>3, <1>5, <2>3 DEF GroupRowInv, EpochFixesRoster, Members
    <2> QED
      BY <2>1, <2>2, <2>3
  <1>6. PastEpochs'
    BY <1>1, <1>4 DEF PastEpochs
  <1>7. SnapshotsTrue'
    BY <1>1, <1>5 DEF SnapshotsTrue
  <1>8. GroupRowInv' /\ EpochFixesRoster' /\ KeysWithinEpoch'
    BY DEF GroupRowInv, EpochFixesRoster, KeysWithinEpoch, Members
  <1> QED
    BY <1>2, <1>6, <1>7, <1>8

\* A request that ends leaves nothing behind.
LEMMA FinishedRequests ==
    ASSUME GroupsInv, NEW r \in Requests, GroupFinish(r)
    PROVE  /\ greq' \in [Requests -> Request]
           /\ \A p \in Requests : greq'[p].snap \in {greq[p].snap, NoSnapshot}
  BY NothingTyped DEF GroupFinish, GroupsInv, GroupsTypeOK

-----------------------------------------------------------------------------
(***************************************************************************)
(* Changes of the roster and of the distributions                          *)
(***************************************************************************)

\* Distributions keep their epoch, sender and recipient.
From(R) == \A x \in R : \E d \in rows : x.epoch = d.epoch /\ x.from = d.from /\ x.to = d.to

\* Retiring keys deletes or marks distributions and adds none.
LEMMA Retired ==
    ASSUME GroupsTypeOK, NEW seen
    PROVE  Retire(rows, seen) \subseteq Row /\ From(Retire(rows, seen))
  BY DEF GroupsTypeOK, Retire, Row, From

\* The groups row after an UPDATE.
LEMMA GroupRowTyped ==
    ASSUME GroupsTypeOK, NEW e \in 0 .. MaxEpoch, NEW o \in Uins
    PROVE  /\ [grp EXCEPT !.epoch = e, !.owner = o]
                 \in [live : BOOLEAN, epoch : 0 .. MaxEpoch, owner : Uins]
           /\ [grp EXCEPT !.epoch = e, !.owner = o].live = grp.live
           /\ [grp EXCEPT !.epoch = e, !.owner = o].epoch = e
           /\ [grp EXCEPT !.live = FALSE]
                 \in [live : BOOLEAN, epoch : 0 .. MaxEpoch, owner : Uins]
           /\ [grp EXCEPT !.live = FALSE].epoch = grp.epoch
           /\ ~ [grp EXCEPT !.live = FALSE].live
  <1>1. grp \in [live : BOOLEAN, epoch : 0 .. MaxEpoch, owner : Uins]
    BY DEF GroupsTypeOK
  <1> QED
    BY <1>1

\* A change of the roster with its epoch.
LEMMA EpochStep ==
    ASSUME GroupsInv, grp.live, grp.epoch < MaxEpoch, NEW r \in Requests, GroupFinish(r),
           NEW o \in Uins, NEW J \in [Uins -> 0 .. MaxEpoch], NextEpoch(o, J),
           admins' \subseteq {u \in Uins : J[u] > 0},
           rows' \subseteq Row, From(rows'), UNCHANGED <<view, sent>>
    PROVE  GroupsInv'
  <1> USE DEF GroupsInv
  <1> DEFINE e == grp.epoch + 1
  <1>1. e \in 1 .. MaxEpoch /\ grp.epoch \in 0 .. MaxEpoch /\ MaxEpoch \in Nat
    BY GroupsAssumption DEF GroupsTypeOK
  <1>2. /\ grp' = [grp EXCEPT !.epoch = e, !.owner = o]
        /\ joined' = J /\ Members' = {u \in Uins : J[u] > 0}
        /\ rosters' = [rosters EXCEPT ![e] = {u \in Uins : J[u] > 0}]
    BY DEF NextEpoch, Members, GroupsTypeOK
  <1>3. /\ grp' \in [live : BOOLEAN, epoch : 0 .. MaxEpoch, owner : Uins]
        /\ grp'.live /\ grp'.epoch = e
    <2>1. e \in 0 .. MaxEpoch
      BY <1>1
    <2> HIDE DEF e
    <2> QED
      BY <1>2, <2>1, GroupRowTyped
  <1>4. /\ rosters'[e] = Members' /\ \A f \in 1 .. MaxEpoch : f # e => rosters'[f] = rosters[f]
        /\ rosters' \in [1 .. MaxEpoch -> SUBSET Uins]
    BY <1>1, <1>2 DEF GroupsTypeOK
  <1>5. /\ greq' \in [Requests -> Request]
        /\ \A p \in Requests : greq'[p].snap \in {greq[p].snap, NoSnapshot}
    BY FinishedRequests
  <1> HIDE DEF e
  <1>6. GroupsTypeOK'
    BY <1>2, <1>3, <1>4, <1>5 DEF GroupsTypeOK
  <1>7. e = grp.epoch + 1
    BY DEF e
  <1>8. GroupRowInv' /\ EpochFixesRoster'
    BY <1>1, <1>3, <1>4 DEF GroupRowInv, EpochFixesRoster
  <1>9. \A p \in Requests : greq[p].snap.epoch \in 0 .. MaxEpoch
    BY DEF GroupsTypeOK, Request, Snapshot
  <1>10. \A d \in rows : d.epoch \in 1 .. MaxEpoch
    BY DEF GroupsTypeOK, Row
  <1>11. \A m \in sent : m.epoch \in 1 .. MaxEpoch
    BY DEF GroupsTypeOK
  <1>12. PastEpochs'
    <2>1. \A d \in rows' : d.epoch <= e
      BY <1>1, <1>7, <1>10 DEF From, PastEpochs
    <2>2. \A m \in sent : m.epoch <= e
      BY <1>1, <1>7, <1>11 DEF PastEpochs
    <2>3. \A p \in Requests : greq'[p].snap.epoch <= e
      BY <1>1, <1>5, <1>7, <1>9, NothingTyped DEF PastEpochs
    <2> QED
      BY <1>3, <2>1, <2>2, <2>3 DEF PastEpochs
  <1>13. SnapshotsTrue'
    <2> SUFFICES ASSUME NEW p \in Requests, NEW u \in Uins, greq'[p].snap.joined[u] > 0,
                        greq'[p].snap.epoch > 0
                 PROVE  u \in rosters'[greq'[p].snap.epoch]
      BY DEF SnapshotsTrue
    <2>1. greq'[p].snap = greq[p].snap
      BY <1>5, NothingTyped
    <2>2. greq[p].snap.epoch \in 1 .. MaxEpoch /\ greq[p].snap.epoch # e
      BY <1>1, <1>7, <1>9, <2>1 DEF PastEpochs
    <2> QED
      BY <1>4, <2>1, <2>2 DEF SnapshotsTrue
  <1>14. KeysWithinEpoch'
    <2>1. \A d \in rows : d.epoch # e
      BY <1>1, <1>7, <1>10 DEF PastEpochs
    <2>2. \A m \in sent : m.epoch # e
      BY <1>1, <1>7, <1>11 DEF PastEpochs
    <2>3. \A d \in rows' : {d.from, d.to} \subseteq rosters'[d.epoch]
      BY <1>4, <1>10, <2>1 DEF From, KeysWithinEpoch
    <2>4. \A m \in sent : m.from \in m.to /\ m.to = rosters'[m.epoch]
      BY <1>4, <1>11, <2>2 DEF KeysWithinEpoch
    <2> QED
      BY <2>3, <2>4 DEF KeysWithinEpoch
  <1> QED
    BY <1>6, <1>8, <1>12, <1>13, <1>14

\* A step that leaves the group and its roster alone, or deletes the group.
LEMMA SameEpochStep ==
    ASSUME GroupsInv, UNCHANGED <<rosters, sent, view>>,
           \/ UNCHANGED <<grp, joined, admins>>
           \/ grp' = [grp EXCEPT !.live = FALSE] /\ joined' = [u \in Uins |-> 0] /\ admins' = {},
           greq' \in [Requests -> Request],
           \A p \in Requests : greq'[p].snap \in {greq[p].snap, NoSnapshot},
           rows' \subseteq Row,
           \A x \in rows' : x.epoch <= grp.epoch /\ {x.from, x.to} \subseteq rosters[x.epoch]
    PROVE  GroupsInv'
  <1> USE DEF GroupsInv
  <1>1. /\ grp' \in [live : BOOLEAN, epoch : 0 .. MaxEpoch, owner : Uins]
        /\ grp'.epoch = grp.epoch /\ grp.epoch \in Nat
        /\ joined' \in [Uins -> 0 .. MaxEpoch] /\ admins' \subseteq Members'
    <2>1. grp.epoch \in 0 .. MaxEpoch /\ grp.owner \in Uins /\ MaxEpoch \in Nat
      BY GroupsAssumption DEF GroupsTypeOK
    <2>2. CASE UNCHANGED <<grp, joined, admins>>
      BY <2>1, <2>2 DEF GroupsTypeOK, Members
    <2>3. CASE grp' = [grp EXCEPT !.live = FALSE] /\ joined' = [u \in Uins |-> 0] /\ admins' = {}
      <3>1. joined' \in [Uins -> 0 .. MaxEpoch]
        BY <2>1, <2>3
      <3>2. /\ grp' \in [live : BOOLEAN, epoch : 0 .. MaxEpoch, owner : Uins]
            /\ grp'.epoch = grp.epoch
        BY <2>1, <2>3, GroupRowTyped
      <3> QED
        BY <2>1, <2>3, <3>1, <3>2
    <2> QED
      BY <2>2, <2>3
  <1>2. GroupsTypeOK'
    BY <1>1 DEF GroupsTypeOK
  <1>3. PastEpochs'
    BY <1>1, NothingTyped DEF PastEpochs
  <1>4. SnapshotsTrue'
    BY <1>1, NothingTyped DEF SnapshotsTrue
  <1>5. GroupRowInv' /\ EpochFixesRoster'
    BY DEF GroupRowInv, EpochFixesRoster, Members, GroupsTypeOK
  <1>6. KeysWithinEpoch'
    BY DEF KeysWithinEpoch
  <1> QED
    BY <1>2, <1>3, <1>4, <1>5, <1>6

\* Successor picks one of a nonempty set.
LEMMA SuccessorChosen ==
    ASSUME NEW s \in Snapshot, NEW S \in SUBSET Uins, S # {}
    PROVE  Successor(S, s) \in S
  <1> DEFINE T == {n \in Nat : \E u \in S : s.joined[u] = n}
  <1>1. \A u \in S : s.joined[u] \in Nat
    BY GroupsAssumption DEF Snapshot
  <1>2. T \subseteq Nat /\ T # {}
    BY <1>1
  <1> HIDE DEF T
  <1>3. PICK n \in T : \A m \in T : ~ (<<m, n>> \in OpToRel(<, Nat))
    BY <1>2, WFMin, NatLessThanWellFounded
  <1>4. \A m \in T : ~ (m < n)
    BY <1>2, <1>3 DEF OpToRel
  <1> USE DEF T
  <1>5. PICK u \in S : s.joined[u] = n
    BY <1>3
  <1>6. \A v \in S : s.joined[u] <= s.joined[v]
    BY <1>1, <1>4, <1>5
  <1> QED
    BY <1>6 DEF Successor

\* A member that leaves, is removed or is wiped.
LEMMA DepartStep ==
    ASSUME GroupsInv, grp.live, NEW t \in Uins, NEW s \in Snapshot, SameMember(t, s),
           Depart(t, s), NEW r \in Requests, GroupFinish(r), UNCHANGED <<view, sent>>
    PROVE  GroupsInv'
  <1> DEFINE remaining == {u \in Uins : s.joined[u] > 0} \ {t}
             heir == Successor(remaining, s)
  <1>1. CASE remaining = {}
    <2>1. DropGroup
      BY <1>1 DEF Depart
    <2> QED
      BY <2>1, FinishedRequests, SameEpochStep DEF DropGroup
  <1>2. CASE remaining # {}
    <2>1. heir \in remaining
      BY <1>2, SuccessorChosen
    <2>2. /\ grp.epoch < MaxEpoch
          /\ NextEpoch(IF grp.owner = t THEN heir ELSE grp.owner, [joined EXCEPT ![t] = 0])
          /\ admins' = (admins \ {t}) \union
                       {u \in {heir} : grp.owner = t /\ SameMember(u, s)}
          /\ rows' = Retire(rows, s.rows)
      BY <1>2 DEF Depart
    <2>3. heir \in Uins /\ heir # t
      BY <2>1
    <2> HIDE DEF heir
    <2> DEFINE J == [joined EXCEPT ![t] = 0]
               o == IF grp.owner = t THEN heir ELSE grp.owner
    <2>4. J \in [Uins -> 0 .. MaxEpoch] /\ o \in Uins
      BY <2>3, GroupsAssumption DEF GroupsInv, GroupsTypeOK
    <2>5. admins' \subseteq {u \in Uins : J[u] > 0}
      BY <2>2, <2>3 DEF GroupsInv, GroupsTypeOK, Members, SameMember
    <2>6. rows' \subseteq Row /\ From(rows')
      BY <2>2, Retired DEF GroupsInv
    <2> HIDE DEF J, o
    <2>7. NextEpoch(o, J)
      BY <2>2 DEF J, o
    <2> QED
      BY <2>2, <2>4, <2>5, <2>6, <2>7, EpochStep
  <1> QED
    BY <1>1, <1>2

-----------------------------------------------------------------------------
\* A group without members has no keys and no epochs.
LEMMA GroupsInitInv ==
    ASSUME GroupsInit
    PROVE  GroupsInv
  <1>1. GroupsTypeOK
    <2>1. [members |-> {}, epoch |-> 0] \in View
      BY GroupsAssumption DEF View
    <2>2. (CHOOSE u \in Uins : TRUE) \in Uins /\ 0 \in 0 .. MaxEpoch
      BY GroupsAssumption
    <2> QED
      BY <2>1, <2>2, NothingTyped DEF GroupsInit, GroupsTypeOK, Members
  <1>2. \A r \in Requests : greq[r].snap.epoch = 0
    BY NothingTyped DEF GroupsInit
  <1> QED
    BY <1>1, <1>2 DEF GroupsInit, GroupsInv, GroupRowInv, PastEpochs, SnapshotsTrue,
                      EpochFixesRoster, KeysWithinEpoch, Members

\* The request's next state, and the snapshot it holds.
Goes(r) ==
    \E q \in Request : /\ greq' = [greq EXCEPT ![r] = q]
                       /\ q.snap = greq[r].snap \/ q.snap = NoSnapshot \/ q.snap = Now

\* A handler begins, or goes on to its next statement.
LEMMA BeginStep ==
    ASSUME GroupsInv, NEW r \in Requests,
           \/ \E a, t \in Uins : AddBegin(r, a, t) \/ RemoveCheck(r, a, t)
           \/ \E u \in Uins : WipeMembershipBegin(r, u)
           \/ \E u \in Clients : \/ ListCheck(r, u) \/ RouteGroup(r, u) \/ InboxCheck(r, u)
                                 \/ \E t \in Uins, i \in KeyIds : PutBegin(r, u, t, i)
           \/ RemoveBegin(r) \/ ListRoster(r)
    PROVE  GroupsInv'
  <1>1. /\ UNCHANGED <<grp, joined, admins, rows, view, sent, rosters>>
        /\ view' \in [Clients -> View]
    BY DEF AddBegin, RemoveCheck, WipeMembershipBegin, ListCheck, RouteGroup, InboxCheck, PutBegin,
           RemoveBegin, ListRoster, GroupsInv, GroupsTypeOK
  <1>2. /\ Now \in Snapshot /\ NoGroupRequest \in Request /\ NoGroupRequest.snap = NoSnapshot
        /\ Clients \subseteq Uins /\ \A u \in Clients : view[u].epoch \in 0 .. MaxEpoch
        /\ greq[r] \in Request /\ Members \subseteq Uins
    BY NothingTyped, NowTyped, GroupsAssumption DEF GroupsInv, GroupsTypeOK, View, Members
  <1>3. Goes(r)
    <2>1. ASSUME NEW a \in Uins, NEW t \in Uins, NEW pc \in {"add", "remove", "wipe"},
                 GroupBegin(r, pc, a, t)
          PROVE  Goes(r)
      <3> DEFINE q == [NoGroupRequest EXCEPT !.pc = pc, !.actor = a, !.target = t, !.snap = Now]
      <3>1. q \in Request /\ q.snap = Now
        BY <1>2 DEF Request
      <3>2. greq' = [greq EXCEPT ![r] = q]
        BY <2>1 DEF GroupBegin
      <3> QED
        BY <3>1, <3>2 DEF Goes
    <2>2. ASSUME NEW a \in Uins, NEW t \in Uins, RemoveCheck(r, a, t)
          PROVE  Goes(r)
      <3> DEFINE q == [NoGroupRequest EXCEPT !.pc = "checked", !.actor = a, !.target = t]
      <3>1. q \in Request /\ q.snap = NoSnapshot
        BY <1>2 DEF Request
      <3>2. greq' = [greq EXCEPT ![r] = q]
        BY <2>2 DEF RemoveCheck
      <3> QED
        BY <3>1, <3>2 DEF Goes
    <2>3. ASSUME NEW u \in Clients, ListCheck(r, u)
          PROVE  Goes(r)
      <3> DEFINE q == [NoGroupRequest EXCEPT !.pc = "list", !.actor = u]
      <3>1. q \in Request /\ q.snap = NoSnapshot
        BY <1>2 DEF Request
      <3>2. greq' = [greq EXCEPT ![r] = q]
        BY <2>3 DEF ListCheck
      <3> QED
        BY <3>1, <3>2 DEF Goes
    <2>4. ASSUME NEW u \in Clients, RouteGroup(r, u)
          PROVE  Goes(r)
      <3> DEFINE q == [NoGroupRequest EXCEPT !.pc = "routed", !.actor = u, !.epoch = view[u].epoch]
      <3>1. q \in Request /\ q.snap = NoSnapshot
        BY <1>2 DEF Request
      <3>2. greq' = [greq EXCEPT ![r] = q]
        BY <2>4 DEF RouteGroup
      <3> QED
        BY <3>1, <3>2 DEF Goes
    <2>5. ASSUME NEW u \in Clients, InboxCheck(r, u)
          PROVE  Goes(r)
      <3> DEFINE q == [NoGroupRequest EXCEPT !.pc = "inbox", !.actor = u]
      <3>1. q \in Request /\ q.snap = NoSnapshot
        BY <1>2 DEF Request
      <3>2. greq' = [greq EXCEPT ![r] = q]
        BY <2>5 DEF InboxCheck
      <3> QED
        BY <3>1, <3>2 DEF Goes
    <2>6. ASSUME NEW u \in Clients, NEW t \in Uins, NEW i \in KeyIds, PutBegin(r, u, t, i)
          PROVE  Goes(r)
      <3> DEFINE q == [NoGroupRequest EXCEPT !.pc = "put", !.actor = u, !.target = t,
                                        !.epoch = view[u].epoch, !.id = i, !.snap = Now]
      <3>1. q \in Request /\ q.snap = Now
        BY <1>2 DEF Request
      <3>2. greq' = [greq EXCEPT ![r] = q]
        BY <2>6 DEF PutBegin
      <3> QED
        BY <3>1, <3>2 DEF Goes
    <2>7. ASSUME ListRoster(r)
          PROVE  Goes(r)
      <3> DEFINE q == [greq[r] EXCEPT !.pc = "listed", !.members = Members]
      <3>1. q \in Request /\ q.snap = greq[r].snap
        BY <1>2 DEF Request
      <3>2. greq' = [greq EXCEPT ![r] = q]
        BY <2>7 DEF ListRoster, GroupsInv, GroupsTypeOK
      <3> QED
        BY <3>1, <3>2 DEF Goes
    <2>8. greq[r].actor \in Uins /\ greq[r].target \in Uins
      BY <1>2 DEF Request
    <2> QED
      BY <2>1, <2>2, <2>3, <2>4, <2>5, <2>6, <2>7, <2>8
         DEF AddBegin, WipeMembershipBegin, RemoveBegin
  <1> QED
    BY <1>1, <1>3, RequestStep DEF Goes

\* The first epoch: before it there is nothing.
LEMMA CreateStep ==
    ASSUME GroupsInv, NEW u \in Uins, GroupCreate(u)
    PROVE  GroupsInv'
  <1> USE DEF GroupsInv
  <1>1. ~ grp.live /\ Members = {} /\ grp.epoch = 0
    BY DEF GroupCreate, GroupRowInv
  <1>2. rows = {} /\ sent = {} /\ \A r \in Requests : greq[r].snap.epoch = 0
    <2>1. \A d \in rows : d.epoch \in 1 .. MaxEpoch
      BY DEF GroupsTypeOK, Row
    <2>2. \A m \in sent : m.epoch \in 1 .. MaxEpoch
      BY DEF GroupsTypeOK
    <2>3. \A r \in Requests : greq[r].snap.epoch \in 0 .. MaxEpoch
      BY DEF GroupsTypeOK, Request, Snapshot
    <2> QED
      BY <1>1, <2>1, <2>2, <2>3, GroupsAssumption DEF PastEpochs
  <1>3. 1 \in 1 .. MaxEpoch /\ 1 \in 0 .. MaxEpoch /\ MaxEpoch \in Nat
    BY GroupsAssumption
  <1>4. /\ grp' = [live |-> TRUE, epoch |-> 1, owner |-> u]
        /\ joined' = [joined EXCEPT ![u] = 1] /\ admins' = {u}
        /\ rosters' = [rosters EXCEPT ![1] = {u}]
        /\ UNCHANGED <<rows, greq, view, sent>>
    BY DEF GroupCreate
  <1>5. joined' \in [Uins -> 0 .. MaxEpoch] /\ Members' = {u}
    BY <1>1, <1>3, <1>4 DEF GroupsTypeOK, Members
  <1>6. rosters' \in [1 .. MaxEpoch -> SUBSET Uins] /\ rosters'[1] = {u}
    BY <1>3, <1>4 DEF GroupsTypeOK
  <1>7. /\ grp' \in [live : BOOLEAN, epoch : 0 .. MaxEpoch, owner : Uins]
        /\ grp'.live /\ grp'.epoch = 1
    BY <1>3, <1>4
  <1>8. GroupsTypeOK'
    BY <1>2, <1>4, <1>5, <1>6, <1>7 DEF GroupsTypeOK
  <1> QED
    BY <1>2, <1>4, <1>5, <1>6, <1>7, <1>8
       DEF GroupRowInv, PastEpochs, SnapshotsTrue, EpochFixesRoster, KeysWithinEpoch

\* Distributions only go, or change their status.
LEMMA RowsStep ==
    ASSUME GroupsInv, UNCHANGED <<grp, joined, admins, rosters, sent, view>>,
           greq' \in [Requests -> Request],
           \A p \in Requests : greq'[p].snap \in {greq[p].snap, NoSnapshot},
           rows' \subseteq Row, From(rows')
    PROVE  GroupsInv'
  <1>1. \A x \in rows' : x.epoch <= grp.epoch /\ {x.from, x.to} \subseteq rosters[x.epoch]
    BY DEF From, GroupsInv, PastEpochs, KeysWithinEpoch
  <1> QED
    BY <1>1, SameEpochStep

\* The upsert of a sender key under the lock.
LEMMA PutStep ==
    ASSUME GroupsInv, NEW r \in Requests, PutRun(r)
    PROVE  GroupsInv'
  <1> DEFINE q == greq[r]
             kept == {d \in rows \ Aged(q.target) : \A x \in Trimmed(q) : x.no # d.no}
             next == CHOOSE n \in 1 .. MaxRows : \A d \in kept : d.no < n
             new == [no |-> next, epoch |-> grp.epoch, from |-> q.actor,
                     to |-> q.target, id |-> q.id, status |-> "live"]
  <1>1. /\ UNCHANGED <<grp, joined, admins, rosters, sent, view>>
        /\ greq' \in [Requests -> Request]
        /\ \A p \in Requests : greq'[p].snap \in {greq[p].snap, NoSnapshot}
    BY FinishedRequests DEF PutRun
  <1>2. kept \subseteq rows
    OBVIOUS
  <1>3. \/ rows' \subseteq rows
        \/ /\ Eligible(q) /\ rows' = kept \union {new}
           /\ \E n \in 1 .. MaxRows : \A d \in kept : d.no < n
    <2> HIDE DEF kept, next
    <2> QED
      BY <1>2 DEF PutRun, kept, next
  <1>4. CASE rows' \subseteq rows
    BY <1>1, <1>4, RowsStep DEF GroupsInv, GroupsTypeOK, From
  <1>5. CASE /\ Eligible(q) /\ rows' = kept \union {new}
             /\ \E n \in 1 .. MaxRows : \A d \in kept : d.no < n
    <2>1. next \in 1 .. MaxRows
      BY <1>5
    <2> HIDE DEF kept, next
    <2>2. q \in Request /\ q.snap \in Snapshot /\ q.actor \in Uins /\ q.target \in Uins
          /\ q.id \in KeyIds
      BY DEF GroupsInv, GroupsTypeOK, Request
    <2>3. grp.live /\ grp.epoch > 0 /\ grp.epoch \in 1 .. MaxEpoch
      BY <1>5, GroupsAssumption DEF Eligible, GroupsInv, GroupsTypeOK, GroupRowInv
    <2>4. {q.actor, q.target} \subseteq rosters[grp.epoch]
      BY <1>5, <2>2, <2>3 DEF Eligible, GroupsInv, SnapshotsTrue
    <2>5. new \in Row /\ new.epoch = grp.epoch /\ new.from = q.actor /\ new.to = q.target
      BY <2>1, <2>2, <2>3 DEF Row
    <2> HIDE DEF new
    <2>6. rows' \subseteq Row
      BY <1>2, <1>5, <2>5 DEF GroupsInv, GroupsTypeOK
    <2>7. \A x \in rows' : x.epoch <= grp.epoch /\ {x.from, x.to} \subseteq rosters[x.epoch]
      BY <1>2, <1>5, <2>3, <2>4, <2>5 DEF GroupsInv, PastEpochs, KeysWithinEpoch
    <2> QED
      BY <1>1, <2>6, <2>7, SameEpochStep
  <1> QED
    BY <1>3, <1>4, <1>5

\* Creation, changes of the roster, key distribution and messages keep the
\* invariant.
LEMMA GroupsNextInv ==
    ASSUME GroupsInv, [GroupsNext]_groupVars
    PROVE  GroupsInv'
  <1>1. ASSUME NEW u \in Uins, GroupCreate(u)
        PROVE  GroupsInv'
    BY <1>1, CreateStep
  <1>2. ASSUME NEW u \in Uins, GroupDelete(u)
        PROVE  GroupsInv'
    BY <1>2, SameEpochStep DEF GroupDelete, DropGroup, GroupsInv, GroupsTypeOK
  <1>3. ASSUME NEW d \in rows, RowAges(d)
        PROVE  GroupsInv'
    <2>1. [d EXCEPT !.status = "aged"] \in Row
      BY DEF GroupsInv, GroupsTypeOK, Row
    <2>2. rows' \subseteq Row /\ From(rows')
      BY <1>3, <2>1 DEF RowAges, GroupsInv, GroupsTypeOK, From, Row
    <2> QED
      BY <1>3, <2>2, RowsStep DEF RowAges, GroupsInv, GroupsTypeOK
  <1>4. ASSUME NEW r \in Requests, AddRun(r)
        PROVE  GroupsInv'
    <2>1. GroupFinish(r) /\ UNCHANGED <<view, sent>>
      BY <1>4 DEF AddRun
    <2>2. CASE NoChange
      BY <2>1, <2>2, FinishedRequests, RowsStep DEF NoChange, GroupsInv, GroupsTypeOK, From
    <2>3. CASE grp.live /\ greq[r].actor \in greq[r].snap.admins /\ joined[greq[r].target] = 0
      <3> DEFINE J == [joined EXCEPT ![greq[r].target] = grp.epoch + 1]
      <3>1. /\ grp.epoch < MaxEpoch /\ NextEpoch(grp.owner, J) /\ UNCHANGED admins
            /\ rows' = Retire(rows, {d \in greq[r].snap.rows : d.epoch = grp.epoch})
        BY <1>4, <2>3 DEF AddRun
      <3>2. grp.owner \in Uins /\ J \in [Uins -> 0 .. MaxEpoch]
        <4>1. grp.owner \in Uins /\ joined \in [Uins -> 0 .. MaxEpoch] /\ grp.epoch \in 0 .. MaxEpoch
          BY DEF GroupsInv, GroupsTypeOK
        <4>2. grp.epoch < MaxEpoch /\ MaxEpoch \in Nat
          BY <3>1, GroupsAssumption
        <4>3. grp.epoch + 1 \in 0 .. MaxEpoch
          BY <4>1, <4>2
        <4> QED
          BY <4>1, <4>3
      <3>3. admins' \subseteq {u \in Uins : J[u] > 0}
        BY <3>1, GroupsAssumption DEF GroupsInv, GroupsTypeOK, Members
      <3> HIDE DEF J
      <3>4. rows' \subseteq Row /\ From(rows')
        BY <3>1, Retired DEF GroupsInv
      <3> QED
        BY <2>1, <2>3, <3>1, <3>2, <3>3, <3>4, EpochStep
    <2> QED
      BY <1>4, <2>2, <2>3 DEF AddRun
  <1>5. ASSUME NEW r \in Requests, RemoveRun(r) \/ WipeMembershipRun(r)
        PROVE  GroupsInv'
    <2>1. GroupFinish(r) /\ UNCHANGED <<view, sent>>
      BY <1>5 DEF RemoveRun, WipeMembershipRun
    <2>2. CASE NoChange
      BY <2>1, <2>2, FinishedRequests, RowsStep DEF NoChange, GroupsInv, GroupsTypeOK, From
    <2>3. CASE /\ grp.live /\ SameMember(greq[r].target, greq[r].snap)
               /\ Depart(greq[r].target, greq[r].snap)
      <3>1. greq[r].target \in Uins /\ greq[r].snap \in Snapshot
        BY DEF GroupsInv, GroupsTypeOK, Request
      <3> QED
        BY <2>1, <2>3, <3>1, DepartStep
    <2> QED
      BY <1>5, <2>2, <2>3 DEF RemoveRun, WipeMembershipRun
  <1>6. ASSUME NEW r \in Requests, ListEpoch(r)
        PROVE  GroupsInv'
    <2>1. [members |-> greq[r].members, epoch |-> grp.epoch] \in View
      BY DEF GroupsInv, GroupsTypeOK, Request, View
    <2>2. view' \in [Clients -> View]
      BY <1>6, <2>1 DEF ListEpoch, GroupsInv, GroupsTypeOK
    <2> QED
      BY <1>6, <2>2, NothingTyped, RequestStep DEF ListEpoch, GroupFinish
  <1>7. ASSUME NEW r \in Requests, InboxRead(r)
        PROVE  GroupsInv'
    <2>1. rows' \subseteq rows /\ UNCHANGED <<grp, joined, admins, rosters, sent, view>>
          /\ GroupFinish(r)
      BY <1>7 DEF InboxRead
    <2> QED
      BY <2>1, FinishedRequests, RowsStep DEF GroupsInv, GroupsTypeOK, From
  <1>8. ASSUME NEW r \in Requests, IngestGroup(r)
        PROVE  GroupsInv'
    <2> DEFINE m == [epoch |-> greq[r].epoch, from |-> greq[r].actor, to |-> Members]
    <2>1. /\ GroupFinish(r) /\ UNCHANGED <<grp, joined, admins, rows, view, rosters>>
          /\ \/ UNCHANGED sent
             \/ /\ sent' = sent \union {m} /\ grp.live /\ grp.epoch = greq[r].epoch
                /\ greq[r].actor \in Members
      BY <1>8 DEF IngestGroup
    <2>2. /\ greq' \in [Requests -> Request]
          /\ \A p \in Requests : greq'[p].snap \in {greq[p].snap, NoSnapshot}
      BY <2>1, FinishedRequests
    <2>3. grp.live => grp.epoch \in 1 .. MaxEpoch
      BY GroupsAssumption DEF GroupsInv, GroupsTypeOK, GroupRowInv
    <2>4. CASE UNCHANGED sent
      BY <2>1, <2>2, <2>4, RowsStep DEF GroupsInv, GroupsTypeOK, From
    <2>5. CASE /\ sent' = sent \union {m} /\ grp.live /\ grp.epoch = greq[r].epoch
               /\ greq[r].actor \in Members
      <3>1. /\ m \in [epoch : 1 .. MaxEpoch, from : Uins, to : SUBSET Uins]
            /\ m.epoch = grp.epoch /\ m.from \in m.to /\ m.to = rosters[m.epoch]
        BY <2>3, <2>5 DEF Members, GroupsInv, EpochFixesRoster
      <3> HIDE DEF m
      <3>2. GroupsTypeOK'
        BY <2>1, <2>2, <2>5, <3>1 DEF GroupsInv, GroupsTypeOK, Members
      <3>3. PastEpochs'
        BY <2>1, <2>2, <2>3, <2>5, <3>1, NothingTyped DEF GroupsInv, PastEpochs
      <3>4. SnapshotsTrue'
        BY <2>1, <2>2, NothingTyped DEF GroupsInv, SnapshotsTrue
      <3>5. GroupRowInv' /\ EpochFixesRoster' /\ KeysWithinEpoch'
        BY <2>1, <2>5, <3>1 DEF GroupsInv, GroupRowInv, EpochFixesRoster, KeysWithinEpoch, Members
      <3> QED
        BY <3>2, <3>3, <3>4, <3>5 DEF GroupsInv
    <2> QED
      BY <2>1, <2>4, <2>5
  <1>9. CASE UNCHANGED groupVars
    BY <1>9, RowsStep DEF groupVars, GroupsInv, GroupsTypeOK, From
  <1> QED
    BY <1>1, <1>2, <1>3, <1>4, <1>5, <1>6, <1>7, <1>8, <1>9, PutStep, BeginStep DEF GroupsNext

\* The groups, group_members and sender_key_distributions rows, and the
\* handlers' snapshots of them, keep their types.
THEOREM GroupsTyped == GroupsSpec => []GroupsTypeOK
  <1>1. GroupsInv => GroupsTypeOK
    BY DEF GroupsInv
  <1> QED
    BY GroupsInitInv, GroupsNextInv, <1>1, PTL DEF GroupsSpec

\* Every addition, departure, removal and wipe of a member begins an epoch,
\* however long its statement waited for the lock on the groups row with an
\* old snapshot (qInsertGroupMember, qRemoveGroupMemberAtomically,
\* qWipeGroupMemberships).
THEOREM RosterFixedByEpoch == GroupsSpec => []EpochFixesRoster
  <1>1. GroupsInv => EpochFixesRoster
    BY DEF GroupsInv
  <1> QED
    BY GroupsInitInv, GroupsNextInv, <1>1, PTL DEF GroupsSpec

\* A sender key is stored and a group message accepted only between members of
\* its epoch (qPutSenderKeyDistribution, snapshotGroupRecipients).
THEOREM KeysStayInEpoch == GroupsSpec => []KeysWithinEpoch
  <1>1. GroupsInv => KeysWithinEpoch
    BY DEF GroupsInv
  <1> QED
    BY GroupsInitInv, GroupsNextInv, <1>1, PTL DEF GroupsSpec
=============================================================================
