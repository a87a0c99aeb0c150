------------------------ MODULE SessionTokensProofs ------------------------
(***************************************************************************)
(* Proofs about SessionTokens, for any number of logins, refreshes,        *)
(* logouts and wipes: a refresh token is exchanged once, a wiped account   *)
(* has no refresh row, and a session that was ended is never prolonged.    *)
(***************************************************************************)
EXTENDS SessionTokens, TLAPS

\* A request issues its pair as its last step.
IssuersDone == \A s \in Issued : op[s].pc = "done"

\* Rows, ended sessions and a logout's snapshot are of issued pairs; a row
\* that was deleted does not come back.
RowsInv ==
    /\ rows \subseteq Issued
    /\ dead \subseteq Issued
    /\ dead \intersect rows = {}
    /\ \A h \in Handlers : op[h].snap \subseteq Issued

\* A refresh token that was exchanged was issued, and has no row any more.
ParentsConsumed ==
    \A s \in Issued : pair[s].parent # NoPair => pair[s].parent \in Issued \ rows

\* A request that presented a token presented one that exists.
Presenting(h) == op[h].pc \in {"marker", "blocklist", "epoch", "revoke"}
TokensPresented == \A h \in Handlers : Presenting(h) => op[h].token \in Issuers

IInv ==
    /\ SessionsTypeOK
    /\ TokensPresented
    /\ IssuersDone
    /\ RowsInv
    /\ ParentsConsumed
    /\ OneRotation
    /\ WipeEndsSessions

-----------------------------------------------------------------------------
\* The initial state satisfies it.
LEMMA InitInv ==
    ASSUME SessionsInit
    PROVE  IInv
  <1>1. op \in [Handlers -> Handler]
    BY DEF SessionsInit, Handler
  <1>2. clock \in Nat /\ epoch \in Nat
    BY DEF SessionsInit
  <1>3. SessionsTypeOK
    BY <1>1, <1>2 DEF SessionsInit, SessionsTypeOK
  <1>4. Issued = {} /\ rows = {} /\ dead = {}
    BY DEF SessionsInit, Issued
  <1>5. \A h \in Handlers : op[h].snap = {}
    BY DEF SessionsInit
  <1>6. IssuersDone /\ RowsInv
    BY <1>4, <1>5 DEF IssuersDone, RowsInv
  <1>7. TokensPresented
    BY DEF SessionsInit, TokensPresented, Presenting
  <1>8. ParentsConsumed /\ OneRotation /\ WipeEndsSessions
    BY <1>4 DEF ParentsConsumed, OneRotation, WipeEndsSessions
  <1> QED
    BY <1>3, <1>6, <1>8, <1>7 DEF IInv

\* A step that moves handlers and issues, deletes and inserts nothing.
LEMMA QuietStep ==
    ASSUME IInv, SessionsTypeOK', TokensPresented',
           \A s \in Issued : op'[s].pc = op[s].pc,
           \A h \in Handlers : op'[h].snap = op[h].snap \/ op'[h].snap = rows,
           UNCHANGED <<userRows, rows, pair, dead>>
    PROVE  IInv'
  BY DEF IInv, IssuersDone, RowsInv, ParentsConsumed, OneRotation,
         WipeEndsSessions, Active, Issued, userRows

\* A step that deletes rows of issued pairs and issues nothing.
LEMMA DeletingStep ==
    ASSUME IInv, SessionsTypeOK', TokensPresented',
           NEW S, S \subseteq Issued, DeleteRows(S),
           \A s \in Issued : op'[s].pc = op[s].pc,
           \A h \in Handlers : op'[h].snap = op[h].snap,
           UNCHANGED pair,
           S = Issued \/ UNCHANGED userRows
    PROVE  IInv'
  <1>1. Issued' = Issued
    BY DEF Issued
  <1>2. IssuersDone' /\ RowsInv' /\ ParentsConsumed' /\ OneRotation'
    BY <1>1 DEF IInv, IssuersDone, RowsInv, ParentsConsumed, OneRotation, DeleteRows
  <1>3. WipeEndsSessions'
    BY <1>1 DEF IInv, RowsInv, WipeEndsSessions, Active, userRows, DeleteRows
  <1> QED
    BY <1>2, <1>3 DEF IInv

\* A step of a login or refresh that issues its pair.
LEMMA IssuingStep ==
    ASSUME IInv, SessionsTypeOK', TokensPresented',
           NEW h \in Issuers, op[h].pc = "tx", Active,
           NEW p \in rows \union {NoPair}, Sign(h, p),
           rows' = (rows \ {p}) \union {h}, MoveTo(h, "done"),
           UNCHANGED <<userRows, dead>>
    PROVE  IInv'
  <1>1. h \notin Issued /\ h # NoPair /\ NoPair \notin rows
    BY HandlersAssumption DEF IInv, IssuersDone, SessionsTypeOK
  <1>2. Issued' = Issued \union {h}
    <2>1. pair'[h] = [signed |-> clock, parent |-> p] /\ \A s \in Issuers \ {h} : pair'[s] = pair[s]
      BY DEF Sign, IInv, SessionsTypeOK
    <2>2. [signed |-> clock, parent |-> p] \in Pair
      BY DEF Pair, IInv, SessionsTypeOK
    <2> QED
      BY <2>1, <2>2, NoPairAssumption DEF Issued
  <1>3. /\ pair'[h].parent = p
        /\ \A s \in Issued : pair'[s] = pair[s]
    BY <1>1 DEF Sign, IInv, SessionsTypeOK, Issued
  <1>4. /\ op'[h].pc = "done"
        /\ \A k \in Handlers : op'[k].snap = op[k].snap
        /\ \A k \in Handlers \ {h} : op'[k] = op[k]
    BY DEF MoveTo, IInv, SessionsTypeOK, Handlers, Handler
  <1>5. IssuersDone'
    BY <1>2, <1>4 DEF IInv, IssuersDone, Issued, Handlers
  <1>6. RowsInv'
    BY <1>1, <1>2, <1>4 DEF IInv, RowsInv
  <1>7. ParentsConsumed'
    BY <1>1, <1>2, <1>3 DEF IInv, RowsInv, ParentsConsumed
  <1>8. OneRotation'
    BY <1>1, <1>2, <1>3 DEF IInv, ParentsConsumed, OneRotation
  <1>9. WipeEndsSessions'
    BY DEF WipeEndsSessions, Active, userRows
  <1> QED
    BY <1>5, <1>6, <1>7, <1>8, <1>9 DEF IInv

-----------------------------------------------------------------------------
(***************************************************************************)
(* Types                                                                   *)
(***************************************************************************)

\* Moving a handler keeps its type.
LEMMA GotoType ==
    ASSUME op \in [Handlers -> Handler], NEW h \in Handlers,
           NEW pc \in {"new", "marker", "blocklist", "epoch", "revoke", "begin", "tx",
                       "delete", "scanned", "done", "failed"},
           MoveTo(h, pc)
    PROVE  /\ op' \in [Handlers -> Handler]
           /\ op'[h].pc = pc
           /\ op'[h].token = op[h].token
           /\ \A k \in Handlers : op'[k].snap = op[k].snap
           /\ \A k \in Handlers \ {h} : op'[k] = op[k]
  BY DEF MoveTo, Handler

\* Signing keeps the type of the pairs.
LEMMA SignType ==
    ASSUME SessionsTypeOK, NEW h \in Issuers, NEW p \in Issuers \union {NoPair}, Sign(h, p)
    PROVE  pair' \in [Issuers -> Pair \union {NoPair}]
  <1>1. [signed |-> clock, parent |-> p] \in Pair
    BY DEF SessionsTypeOK, Pair
  <1> QED
    BY <1>1 DEF SessionsTypeOK, Sign

-----------------------------------------------------------------------------
(***************************************************************************)
(* Every step keeps the invariant                                          *)
(***************************************************************************)

\* A step that only moves a handler, one that has not issued its pair.
LEMMA MovingStep ==
    ASSUME IInv, NEW h \in Handlers, op[h].pc # "done",
           op' \in [Handlers -> Handler],
           \A k \in Handlers \ {h} : op'[k] = op[k],
           op'[h].snap = op[h].snap \/ op'[h].snap = rows,
           Presenting(h)' => op'[h].token \in Issuers,
           clock' \in Nat, epoch' \in Nat, revokedPairs' \subseteq Issuers,
           UNCHANGED <<userRows, rows, pair, dead>>
    PROVE  IInv'
  <1>1. SessionsTypeOK'
    BY DEF IInv, SessionsTypeOK, userRows
  <1>2. TokensPresented'
    BY DEF IInv, TokensPresented, Presenting
  <1>3. \A s \in Issued : op'[s].pc = op[s].pc
    BY DEF IInv, IssuersDone, Issued, Handlers
  <1> QED
    BY <1>1, <1>3, <1>2, QuietStep

\* A step that moves a handler and deletes rows.
LEMMA MovingDeletion ==
    ASSUME IInv, NEW h \in Handlers, op[h].pc # "done",
           NEW pc \in {"done", "failed"}, MoveTo(h, pc),
           NEW S, S \subseteq Issued, DeleteRows(S),
           epoch' \in Nat, userRow' \in BOOLEAN, wipedRow' \in BOOLEAN,
           UNCHANGED <<clock, revokedPairs, pair>>,
           S = Issued \/ UNCHANGED userRows
    PROVE  IInv'
  <1>1. SessionsTypeOK /\ op \in [Handlers -> Handler]
    BY DEF IInv, SessionsTypeOK
  <1>2. /\ op' \in [Handlers -> Handler]
        /\ op'[h].pc = pc
        /\ \A k \in Handlers : op'[k].snap = op[k].snap
        /\ \A k \in Handlers \ {h} : op'[k] = op[k]
    BY <1>1, GotoType
  <1>3. rows' \subseteq Issuers /\ dead' \subseteq Issuers
    BY <1>1 DEF DeleteRows, SessionsTypeOK, Issued
  <1>4. SessionsTypeOK'
    BY <1>1, <1>2, <1>3 DEF SessionsTypeOK
  <1>5. \A s \in Issued : op'[s].pc = op[s].pc
    BY <1>2 DEF IInv, IssuersDone, Issued, Handlers
  <1>6. TokensPresented'
    BY <1>2 DEF IInv, TokensPresented, Presenting
  <1> QED
    BY <1>2, <1>4, <1>5, <1>6, DeletingStep

\* Presenting and verifying a token, and beginning a transaction.
LEMMA VerifyStep ==
    ASSUME IInv, NEW h \in Handlers, Verify(h) \/ Begin(h)
    PROVE  IInv'
  <1>1. SessionsTypeOK /\ op \in [Handlers -> Handler] /\ clock \in Nat
        /\ epoch \in Nat /\ revokedPairs \subseteq Issuers
    BY DEF IInv, SessionsTypeOK
  <1>2. CASE \E s \in Issuers : Present(h, s)
    <2>1. PICK s \in Issuers : Present(h, s)
      BY <1>2
    <2>2. op' = [op EXCEPT ![h].pc = "marker", ![h].token = s]
      BY <2>1 DEF Present
    <2>3. /\ op' \in [Handlers -> Handler]
          /\ op'[h].snap = op[h].snap
          /\ op'[h].token \in Issuers
          /\ \A k \in Handlers \ {h} : op'[k] = op[k]
      BY <1>1, <2>2 DEF Handler
    <2> QED
      BY <1>1, <2>1, <2>3, MovingStep DEF Present
  <1>3. CASE VerifyMarker(h) \/ VerifyBlocklist(h) \/ VerifyEpoch(h)
    <2>1. PICK pc \in {"blocklist", "epoch", "revoke", "begin", "failed"} : MoveTo(h, pc)
      BY <1>3 DEF VerifyMarker, VerifyBlocklist, VerifyEpoch
    <2>2. op[h].pc # "done" /\ Presenting(h)
          /\ UNCHANGED <<clock, userRows, epoch, rows, revokedPairs, pair, dead>>
      BY <1>3 DEF VerifyMarker, VerifyBlocklist, VerifyEpoch, Presenting
    <2>3. op[h].token \in Issuers
      BY <2>2 DEF IInv, TokensPresented
    <2>4. /\ op' \in [Handlers -> Handler]
          /\ op'[h].snap = op[h].snap
          /\ op'[h].token = op[h].token
          /\ \A k \in Handlers \ {h} : op'[k] = op[k]
      BY <1>1, <2>1, GotoType
    <2> QED
      BY <1>1, <2>2, <2>4, <2>3, MovingStep
  <1>4. CASE Begin(h)
    <2>1. op' = [op EXCEPT ![h].pc = "tx", ![h].start = clock]
          /\ UNCHANGED <<clock, userRows, epoch, rows, revokedPairs, pair, dead>>
      BY <1>4 DEF Begin
    <2>2. op[h].pc # "done"
      BY <1>4 DEF Begin
    <2>3. /\ op' \in [Handlers -> Handler]
          /\ op'[h].snap = op[h].snap
          /\ ~Presenting(h)'
          /\ \A k \in Handlers \ {h} : op'[k] = op[k]
      BY <1>1, <2>1 DEF Handler, Presenting
    <2> QED
      BY <1>1, <2>1, <2>2, <2>3, MovingStep
  <1> QED
    BY <1>2, <1>3, <1>4 DEF Verify

\* The transactions of login and refresh.
LEMMA IssueStep ==
    ASSUME IInv, NEW h \in Handlers, Issue(h)
    PROVE  IInv'
  <1>1. SessionsTypeOK /\ op \in [Handlers -> Handler] /\ clock \in Nat
        /\ epoch \in Nat /\ revokedPairs \subseteq Issuers
    BY DEF IInv, SessionsTypeOK
  <1>2. CASE LoginIssue(h)
    <2>1. h \in Issuers /\ MoveTo(h, "done") /\ Sign(h, NoPair)
          /\ UNCHANGED <<clock, userRows, epoch, revokedPairs, dead>>
      BY <1>2 DEF LoginIssue, Issuers
    <2>2. op' \in [Handlers -> Handler] /\ pair' \in [Issuers -> Pair \union {NoPair}]
      BY <1>1, <2>1, GotoType, SignType
    <2>3. TokensPresented'
      BY <1>1, <2>1, GotoType DEF IInv, TokensPresented, Presenting
    <2>4. NoPair \notin rows
      BY <1>1, HandlersAssumption DEF SessionsTypeOK
    <2>5. rows' = (rows \ {NoPair}) \union {h}
      BY <1>2, <2>4 DEF LoginIssue
    <2>6. SessionsTypeOK'
      BY <1>1, <2>1, <2>2, <2>5 DEF SessionsTypeOK, userRows
    <2> QED
      BY <1>2, <2>1, <2>5, <2>6, <2>3, IssuingStep DEF LoginIssue
  <1>3. CASE RefreshRotate(h)
    <2>1. h \in Issuers /\ MoveTo(h, "done") /\ Sign(h, op[h].token)
          /\ op[h].token \in rows
          /\ UNCHANGED <<clock, userRows, epoch, revokedPairs, dead>>
      BY <1>3 DEF RefreshRotate, Issuers
    <2>2. op[h].token \in Issuers
      BY <1>1, <2>1 DEF SessionsTypeOK
    <2>3. op' \in [Handlers -> Handler] /\ pair' \in [Issuers -> Pair \union {NoPair}]
      BY <1>1, <2>1, <2>2, GotoType, SignType
    <2>4. SessionsTypeOK'
      BY <1>1, <1>3, <2>1, <2>3 DEF SessionsTypeOK, userRows, RefreshRotate
    <2>5. TokensPresented'
      BY <1>1, <2>1, GotoType DEF IInv, TokensPresented, Presenting
    <2> QED
      BY <1>3, <2>1, <2>4, <2>5, IssuingStep DEF RefreshRotate
  <1>4. CASE RefreshExpired(h)
    <2>1. {op[h].token} \subseteq Issued
      BY <1>4 DEF RefreshExpired, IInv, RowsInv
    <2>2. userRow' \in BOOLEAN /\ wipedRow' \in BOOLEAN /\ UNCHANGED userRows
      BY <1>1, <1>4 DEF RefreshExpired, SessionsTypeOK, userRows
    <2> QED
      BY <1>1, <1>4, <2>1, <2>2, MovingDeletion DEF RefreshExpired
  <1>5. CASE RefreshReuse(h)
    <2>1. op[h].start \in Nat
      BY <1>1 DEF Handler
    <2>2. epoch' \in Nat
      BY <1>1, <1>5, <2>1 DEF RefreshReuse, Later
    <2>3. userRow' \in BOOLEAN /\ wipedRow' \in BOOLEAN
      BY <1>1, <1>5 DEF RefreshReuse, SessionsTypeOK, userRows
    <2> QED
      BY <1>5, <2>2, <2>3, MovingDeletion DEF RefreshReuse
  <1>6. CASE LoginLookup(h) \/ Refused(h)
    <2>1. PICK pc \in {"tx", "failed"} : MoveTo(h, pc)
      BY <1>6 DEF LoginLookup, Refused
    <2>2. op[h].pc # "done"
          /\ UNCHANGED <<clock, userRows, epoch, rows, revokedPairs, pair, dead>>
      BY <1>6 DEF LoginLookup, Refused
    <2>3. /\ op' \in [Handlers -> Handler]
          /\ op'[h].snap = op[h].snap
          /\ ~Presenting(h)'
          /\ \A k \in Handlers \ {h} : op'[k] = op[k]
      BY <1>1, <2>1, GotoType DEF Presenting
    <2> QED
      BY <1>1, <2>2, <2>3, MovingStep
  <1> QED
    BY <1>2, <1>3, <1>4, <1>5, <1>6 DEF Issue

\* The statements of a logout.
LEMMA LogoutStep ==
    ASSUME IInv, NEW h \in Handlers, Logout(h)
    PROVE  IInv'
  <1>1. SessionsTypeOK /\ op \in [Handlers -> Handler] /\ clock \in Nat
        /\ epoch \in Nat /\ revokedPairs \subseteq Issuers
    BY DEF IInv, SessionsTypeOK
  <1>2. CASE LogoutRevoke(h) \/ LogoutBump(h) \/ LogoutDeleteFails(h)
    <2>1. PICK pc \in {"begin", "delete", "done"} : MoveTo(h, pc)
      BY <1>2 DEF LogoutRevoke, LogoutBump, LogoutDeleteFails
    <2>2. op[h].pc # "done" /\ UNCHANGED <<clock, userRows, rows, pair, dead>>
      BY <1>2 DEF LogoutRevoke, LogoutBump, LogoutDeleteFails
    <2>3. /\ op' \in [Handlers -> Handler]
          /\ op'[h].snap = op[h].snap
          /\ ~Presenting(h)'
          /\ \A k \in Handlers \ {h} : op'[k] = op[k]
      BY <1>1, <2>1, GotoType DEF Presenting
    <2>4. op[h].start \in Nat /\ (LogoutRevoke(h) => revokedPairs' \subseteq Issuers)
      <3>1. LogoutRevoke(h) => op[h].token \in Issuers
        BY DEF LogoutRevoke, IInv, TokensPresented, Presenting
      <3> QED
        BY <1>1, <3>1 DEF LogoutRevoke, Handler
    <2>5. epoch' \in Nat /\ revokedPairs' \subseteq Issuers
      BY <1>1, <1>2, <2>4 DEF LogoutRevoke, LogoutBump, LogoutDeleteFails
    <2> QED
      BY <1>1, <2>2, <2>3, <2>5, MovingStep
  <1>3. CASE LogoutScan(h)
    <2>1. op' = [op EXCEPT ![h].pc = "scanned", ![h].snap = rows]
      BY <1>3 DEF LogoutScan
    <2>2. rows \in SUBSET Issuers
      BY <1>1 DEF SessionsTypeOK
    <2>3. /\ op' \in [Handlers -> Handler]
          /\ op'[h].snap = rows
          /\ ~Presenting(h)'
          /\ \A k \in Handlers \ {h} : op'[k] = op[k]
      BY <1>1, <2>1, <2>2 DEF Handler, Presenting
    <2> QED
      BY <1>1, <1>3, <2>3, MovingStep DEF LogoutScan
  <1>4. CASE LogoutDelete(h)
    <2>1. op[h].snap \subseteq Issued
      BY DEF IInv, RowsInv
    <2>2. userRow' \in BOOLEAN /\ wipedRow' \in BOOLEAN /\ UNCHANGED userRows
      BY <1>1, <1>4 DEF LogoutDelete, SessionsTypeOK, userRows
    <2> QED
      BY <1>1, <1>4, <2>1, <2>2, MovingDeletion DEF LogoutDelete
  <1> QED
    BY <1>2, <1>3, <1>4 DEF Logout

\* PanicWipe, final erasure, failures and time.
LEMMA OtherStep ==
    ASSUME IInv,
           (\E h \in Handlers : RevokeByWipe(h) \/ Fail(h)) \/ EraseUserRow \/ Tick
               \/ UNCHANGED sessionVars
    PROVE  IInv'
  <1>1. SessionsTypeOK /\ op \in [Handlers -> Handler] /\ clock \in Nat
        /\ epoch \in Nat /\ revokedPairs \subseteq Issuers
    BY DEF IInv, SessionsTypeOK
  <1>2. ASSUME NEW h \in Handlers, RevokeByWipe(h) PROVE IInv'
    <2>1. epoch' \in Nat
      BY <1>1, <1>2 DEF RevokeByWipe, Handler
    <2>2. userRow' \in BOOLEAN /\ wipedRow' \in BOOLEAN
      BY <1>1, <1>2 DEF RevokeByWipe, SessionsTypeOK
    <2> QED
      BY <1>2, <2>1, <2>2, MovingDeletion DEF RevokeByWipe
  <1>3. ASSUME NEW h \in Handlers, Fail(h) PROVE IInv'
    <2>1. MoveTo(h, "failed")
      BY <1>3 DEF Fail
    <2>2. /\ op' \in [Handlers -> Handler]
          /\ op'[h].snap = op[h].snap
          /\ ~Presenting(h)'
          /\ \A k \in Handlers \ {h} : op'[k] = op[k]
      BY <1>1, <2>1, GotoType DEF Presenting
    <2> QED
      BY <1>1, <1>3, <2>2, MovingStep DEF Fail
  <1>4. CASE EraseUserRow
    <2>1. rows' \subseteq Issuers /\ dead' \subseteq Issuers
      BY <1>1, <1>4 DEF EraseUserRow, DeleteRows, SessionsTypeOK, Issued
    <2>2. SessionsTypeOK'
      BY <1>1, <1>4, <2>1 DEF EraseUserRow, SessionsTypeOK
    <2>3. TokensPresented'
      BY <1>4 DEF EraseUserRow, IInv, TokensPresented, Presenting
    <2> QED
      BY <1>4, <2>2, <2>3, DeletingStep DEF EraseUserRow
  <1>5. CASE Tick \/ UNCHANGED sessionVars
    <2>1. /\ op' = op
          /\ UNCHANGED <<userRows, epoch, rows, revokedPairs, pair, dead>>
          /\ clock' \in Nat
      BY <1>1, <1>5 DEF Tick, sessionVars, userRows
    <2>2. SessionsTypeOK'
      BY <1>1, <2>1 DEF SessionsTypeOK, userRows
    <2>3. TokensPresented'
      BY <2>1 DEF IInv, TokensPresented, Presenting
    <2> QED
      BY <2>1, <2>2, <2>3, QuietStep
  <1> QED
    BY <1>2, <1>3, <1>4, <1>5

-----------------------------------------------------------------------------
\* The invariant holds in every reachable state.
THEOREM Invariance == SessionsSpec => []IInv
  <1>1. SessionsInit => IInv
    BY InitInv
  <1>2. IInv /\ [SessionsNext]_sessionVars => IInv'
    BY VerifyStep, IssueStep, LogoutStep, OtherStep DEF SessionsNext
  <1> QED
    BY <1>1, <1>2, PTL DEF SessionsSpec

\* Type correctness of the account, the tokens and the handlers.
THEOREM TypeCorrect == SessionsSpec => []SessionsTypeOK
  <1>1. IInv => SessionsTypeOK
    BY DEF IInv
  <1> QED
    BY <1>1, Invariance, PTL

\* qConsumeRefreshTokenByHash: a refresh token is exchanged at most once.
THEOREM SingleRotation == SessionsSpec => []OneRotation
  <1>1. IInv => OneRotation
    BY DEF IInv
  <1> QED
    BY <1>1, Invariance, PTL

\* Login and refresh are serialised with PanicWipe: a wiped account has no
\* refresh row.
THEOREM NoSessionAfterWipe == SessionsSpec => []WipeEndsSessions
  <1>1. IInv => WipeEndsSessions
    BY DEF IInv
  <1> QED
    BY <1>1, Invariance, PTL

\* A pair is signed by the step of its own request, and a rotation consumes
\* a row, which no ended session has.
THEOREM EndedForGood == SessionsSpec => DeadCannotRotate
  <1> DEFINE Fresh == \A s \in Issuers : pair'[s] # pair[s] => pair'[s].parent \notin dead
  <1>1. IInv /\ [SessionsNext]_sessionVars => [Fresh]_sessionVars
    <2> SUFFICES ASSUME IInv, SessionsNext PROVE Fresh
      BY DEF sessionVars
    <2>1. NoPair \notin dead /\ pair \in [Issuers -> Pair \union {NoPair}] /\ dead \intersect rows = {}
      BY HandlersAssumption DEF IInv, SessionsTypeOK, RowsInv
    <2>2. ASSUME NEW h \in Handlers, LoginIssue(h) \/ RefreshRotate(h) PROVE Fresh
      <3>1. PICK p \in rows \union {NoPair} : Sign(h, p)
        BY <2>2 DEF LoginIssue, RefreshRotate
      <3>2. \A s \in Issuers : pair'[s] # pair[s] => pair'[s].parent = p
        BY <2>1, <3>1 DEF Sign
      <3> QED
        BY <2>1, <3>2
    <2>3. CASE UNCHANGED pair
      BY <2>3
    <2>4. \/ \E h \in Handlers : LoginIssue(h) \/ RefreshRotate(h)
          \/ UNCHANGED pair
      <3> USE DEF Present, VerifyMarker, VerifyBlocklist, VerifyEpoch, LoginLookup,
                  RefreshExpired, RefreshReuse, Refused, LogoutRevoke, LogoutBump,
                  LogoutScan, LogoutDelete, LogoutDeleteFails
      <3>1. ASSUME NEW h \in Handlers, Verify(h) PROVE UNCHANGED pair
        BY <3>1 DEF Verify
      <3>2. ASSUME NEW h \in Handlers, Issue(h)
            PROVE  LoginIssue(h) \/ RefreshRotate(h) \/ UNCHANGED pair
        BY <3>2 DEF Issue
      <3>3. ASSUME NEW h \in Handlers, Logout(h) PROVE UNCHANGED pair
        BY <3>3 DEF Logout
      <3>4. ASSUME NEW h \in Handlers, Begin(h) \/ RevokeByWipe(h) \/ Fail(h)
            PROVE  UNCHANGED pair
        BY <3>4 DEF Begin, RevokeByWipe, Fail
      <3>5. EraseUserRow \/ Tick => UNCHANGED pair
        BY DEF EraseUserRow, Tick
      <3> QED
        BY <3>1, <3>2, <3>3, <3>4, <3>5 DEF SessionsNext
    <2> QED
      BY <2>2, <2>3, <2>4
  <1> QED
    BY <1>1, Invariance, PTL DEF SessionsSpec, DeadCannotRotate
=============================================================================
