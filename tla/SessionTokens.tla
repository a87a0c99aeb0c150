---------------------------- MODULE SessionTokens ----------------------------
(***************************************************************************)
(* The sessions of one account: login, refresh-token rotation with reuse   *)
(* detection, logout everywhere and the revocation in PanicWipe, over the  *)
(* rows of refresh_tokens, users.session_epoch, the wiped_accounts marker  *)
(* and the Redis blocklist of access tokens.                               *)
(*                                                                         *)
(* A handler runs from one read or transaction to the next.  The           *)
(* transactions of login, refresh, the epoch bump and PanicWipe all lock   *)
(* the user row first, so each is one action, taken when it gets the lock; *)
(* NOW() in it is the time at which it began, before it waited.  Logout    *)
(* deletes the refresh rows without that lock: its snapshot is one action, *)
(* the deletion another.                                                   *)
(***************************************************************************)
EXTENDS Integers

CONSTANTS
    Logins,      \* login requests
    Refreshes,   \* refresh requests
    Logouts,     \* logout requests
    Revokers,    \* PanicWipe calls
    Second,      \* clock units in the second to which iat is cut
    MaxClock,    \* bound on the clock
    NoPair

\* A login or refresh request is also the name of the token pair it issues.
Issuers == Logins \union Refreshes
Verifiers == Refreshes \union Logouts
Handlers == Issuers \union Logouts \union Revokers

ASSUME HandlersAssumption ==
    /\ Logins \intersect Refreshes = {}
    /\ Issuers \intersect (Logouts \union Revokers) = {}
    /\ Logouts \intersect Revokers = {}
    /\ NoPair \notin Issuers

ASSUME ClockAssumption == Second \in Nat \ {0} /\ MaxClock \in Nat

VARIABLES
    clock,
    userRow,     \* the users row exists
    wipedRow,    \* the wiped_accounts row exists
    epoch,       \* users.session_epoch
    rows,        \* refresh_tokens: the pairs whose refresh token has a row
    revokedPairs, \* jwt:revoked: the pairs whose access token is listed
    pair,        \* the token pairs issued
    op,          \* the handlers
    dead         \* history: pairs whose rows a committed deletion removed

userRows == <<userRow, wipedRow>>
sessionVars == <<clock, userRows, epoch, rows, revokedPairs, pair, op, dead>>

Pair == [signed : Nat, parent : Issuers \union {NoPair}]

ASSUME NoPairAssumption == NoPair \notin Pair

Handler ==
    [pc : {"new", "marker", "blocklist", "epoch", "revoke", "begin", "tx",
           "delete", "scanned", "done", "failed"},
     token : Issuers \union {NoPair}, start : Nat, snap : SUBSET Issuers]

SessionsTypeOK ==
    /\ clock \in Nat
    /\ userRow \in BOOLEAN /\ wipedRow \in BOOLEAN
    /\ epoch \in Nat
    /\ rows \subseteq Issuers
    /\ revokedPairs \subseteq Issuers
    /\ pair \in [Issuers -> Pair \union {NoPair}]
    /\ op \in [Handlers -> Handler]
    /\ dead \subseteq Issuers

\* A registered account that nobody is logged in to; session_epoch is 1970.
SessionsInit ==
    /\ clock = 1
    /\ userRow = TRUE /\ wipedRow = FALSE
    /\ epoch = 0
    /\ rows = {} /\ revokedPairs = {} /\ dead = {}
    /\ pair = [s \in Issuers |-> NoPair]
    /\ op = [h \in Handlers |->
               [pc |-> "new", token |-> NoPair, start |-> 0, snap |-> {}]]

-----------------------------------------------------------------------------
MoveTo(h, pc) == op' = [op EXCEPT ![h].pc = pc]

Issued == {s \in Issuers : pair[s] # NoPair}

\* Sign: the JWT's iat has whole seconds.
IssuedAt(s) == (pair[s].signed \div Second) * Second
Sign(s, parent) == pair' = [pair EXCEPT ![s] = [signed |-> clock, parent |-> parent]]

\* The account is locked and not marked as wiped (qLockUserRow,
\* qCheckWipedAccount).
Active == userRow /\ ~wipedRow

\* DELETE FROM refresh_tokens of a set of pairs.
DeleteRows(S) == rows' = rows \ S /\ dead' = dead \union S

-----------------------------------------------------------------------------
(***************************************************************************)
(* Verify, step by step, for a refresh token or for the access token of a  *)
(* logout                                                                  *)
(***************************************************************************)

Present(h, s) ==
    /\ h \in Verifiers
    /\ op[h].pc = "new"
    /\ pair[s] # NoPair
    /\ op' = [op EXCEPT ![h].pc = "marker", ![h].token = s]
    /\ UNCHANGED <<clock, userRows, epoch, rows, revokedPairs, pair, dead>>

VerifyMarker(h) ==
    /\ op[h].pc = "marker"
    /\ MoveTo(h, IF wipedRow THEN "failed" ELSE "blocklist")
    /\ UNCHANGED <<clock, userRows, epoch, rows, revokedPairs, pair, dead>>

\* Only access tokens are ever listed.
VerifyBlocklist(h) ==
    /\ op[h].pc = "blocklist"
    /\ MoveTo(h, IF h \in Logouts /\ op[h].token \in revokedPairs THEN "failed" ELSE "epoch")
    /\ UNCHANGED <<clock, userRows, epoch, rows, revokedPairs, pair, dead>>

\* SessionEpoch fails when the user row is gone.
VerifyEpoch(h) ==
    /\ op[h].pc = "epoch"
    /\ MoveTo(h, IF ~userRow \/ IssuedAt(op[h].token) < epoch THEN "failed"
               ELSE IF h \in Logouts THEN "revoke" ELSE "begin")
    /\ UNCHANGED <<clock, userRows, epoch, rows, revokedPairs, pair, dead>>

\* BEGIN, or the start of a single statement: NOW() is this time.
Begin(h) ==
    /\ op[h].pc = IF h \in Revokers THEN "new" ELSE "begin"
    /\ op' = [op EXCEPT ![h].pc = "tx", ![h].start = clock]
    /\ UNCHANGED <<clock, userRows, epoch, rows, revokedPairs, pair, dead>>

-----------------------------------------------------------------------------
(***************************************************************************)
(* Login                                                                   *)
(***************************************************************************)

\* The user row is found and the password verified.
LoginLookup(h) ==
    /\ h \in Logins
    /\ op[h].pc = "new"
    /\ userRow
    /\ MoveTo(h, "tx")
    /\ UNCHANGED <<clock, userRows, epoch, rows, revokedPairs, pair, dead>>

\* Mutant: the marker is not checked under the lock.
LoginUnchecked(h) ==
    /\ h \in Logins
    /\ op[h].pc = "tx"
    /\ userRow
    /\ Sign(h, NoPair)
    /\ rows' = rows \union {h}
    /\ MoveTo(h, "done")
    /\ UNCHANGED <<clock, userRows, epoch, revokedPairs, dead>>

LoginIssue(h) ==
    /\ h \in Logins
    /\ op[h].pc = "tx"
    /\ Active
    /\ Sign(h, NoPair)
    /\ rows' = rows \union {h}
    /\ MoveTo(h, "done")
    /\ UNCHANGED <<clock, userRows, epoch, revokedPairs, dead>>

-----------------------------------------------------------------------------
(***************************************************************************)
(* Refresh                                                                 *)
(***************************************************************************)

\* Mutant: the row is looked up and not consumed.
RotateKeepingRow(h) ==
    /\ h \in Refreshes
    /\ op[h].pc = "tx"
    /\ Active
    /\ op[h].token \in rows
    /\ Sign(h, op[h].token)
    /\ rows' = rows \union {h}
    /\ MoveTo(h, "done")
    /\ UNCHANGED <<clock, userRows, epoch, revokedPairs, dead>>

\* Mutant: the DELETE matches no row, and nobody looks.
RotateUnmatched(h) ==
    /\ h \in Refreshes
    /\ op[h].pc = "tx"
    /\ Active
    /\ Sign(h, op[h].token)
    /\ rows' = (rows \ {op[h].token}) \union {h}
    /\ MoveTo(h, "done")
    /\ UNCHANGED <<clock, userRows, epoch, revokedPairs, dead>>

\* The row is consumed, a new pair signed and its row inserted.
RefreshRotate(h) ==
    /\ h \in Refreshes
    /\ op[h].pc = "tx"
    /\ Active
    /\ op[h].token \in rows
    /\ Sign(h, op[h].token)
    /\ rows' = (rows \ {op[h].token}) \union {h}
    /\ MoveTo(h, "done")
    /\ UNCHANGED <<clock, userRows, epoch, revokedPairs, dead>>

\* The row's expires_at is past: it is consumed and nothing issued.
RefreshExpired(h) ==
    /\ h \in Refreshes
    /\ op[h].pc = "tx"
    /\ Active
    /\ op[h].token \in rows
    /\ DeleteRows({op[h].token})
    /\ MoveTo(h, "failed")
    /\ UNCHANGED <<clock, userRows, epoch, revokedPairs, pair>>

Later(a, b) == IF a < b THEN b ELSE a

\* No row: commitRefreshReuseRevocation revokes every session.
RefreshReuse(h) ==
    /\ h \in Refreshes
    /\ op[h].pc = "tx"
    /\ Active
    /\ op[h].token \notin rows
    /\ epoch' = Later(op[h].start, epoch + 1)
    /\ DeleteRows(Issued)
    /\ MoveTo(h, "failed")
    /\ UNCHANGED <<clock, userRows, revokedPairs, pair>>

\* Login or refresh finds the account wiped or gone.
Refused(h) ==
    /\ h \in Issuers
    /\ op[h].pc = "tx"
    /\ ~Active
    /\ MoveTo(h, "failed")
    /\ UNCHANGED <<clock, userRows, epoch, rows, revokedPairs, pair, dead>>

-----------------------------------------------------------------------------
(***************************************************************************)
(* Logout                                                                  *)
(***************************************************************************)

\* Revoke lists the access token, unless that is about to expire.
LogoutRevoke(h) ==
    /\ op[h].pc = "revoke"
    /\ revokedPairs' \in {revokedPairs, revokedPairs \union {op[h].token}}
    /\ MoveTo(h, "begin")
    /\ UNCHANGED <<clock, userRows, epoch, rows, pair, dead>>

\* BumpSessionEpoch: no row, no effect.
LogoutBump(h) ==
    /\ h \in Logouts
    /\ op[h].pc = "tx"
    /\ epoch' = IF userRow THEN op[h].start ELSE epoch
    /\ MoveTo(h, "delete")
    /\ UNCHANGED <<clock, userRows, rows, revokedPairs, pair, dead>>

\* DELETE FROM refresh_tokens sees the rows of the moment it begins ...
LogoutScan(h) ==
    /\ op[h].pc = "delete"
    /\ op' = [op EXCEPT ![h].pc = "scanned", ![h].snap = rows]
    /\ UNCHANGED <<clock, userRows, epoch, rows, revokedPairs, pair, dead>>

\* ... and removes those, not the ones inserted since.
LogoutDelete(h) ==
    /\ op[h].pc = "scanned"
    /\ DeleteRows(op[h].snap)
    /\ MoveTo(h, "done")
    /\ UNCHANGED <<clock, userRows, epoch, revokedPairs, pair>>

\* A failed deletion is logged and the logout reported as done.
LogoutDeleteFails(h) ==
    /\ op[h].pc \in {"delete", "scanned"}
    /\ MoveTo(h, "done")
    /\ UNCHANGED <<clock, userRows, epoch, rows, revokedPairs, pair, dead>>

-----------------------------------------------------------------------------
(***************************************************************************)
(* PanicWipe's transaction, final erasure, failures and time               *)
(***************************************************************************)

RevokeByWipe(h) ==
    /\ h \in Revokers
    /\ op[h].pc = "tx"
    /\ userRow
    /\ DeleteRows(Issued)
    /\ epoch' = op[h].start
    /\ wipedRow' = TRUE
    /\ MoveTo(h, "done")
    /\ UNCHANGED <<clock, userRow, revokedPairs, pair>>

\* The worker's last transaction; AccountWipe says when it is reached.
EraseUserRow ==
    /\ wipedRow
    /\ userRow' = FALSE /\ wipedRow' = FALSE
    /\ DeleteRows(Issued)
    /\ UNCHANGED <<clock, epoch, revokedPairs, pair, op>>

\* An error, a timeout, the rate limiter or a crash.  A transaction whose
\* answer alone is lost is the transaction itself: no client need use a pair.
Fail(h) ==
    /\ op[h].pc \notin {"new", "done", "failed"}
    /\ MoveTo(h, "failed")
    /\ UNCHANGED <<clock, userRows, epoch, rows, revokedPairs, pair, dead>>

Tick ==
    /\ clock < MaxClock
    /\ clock' = clock + 1
    /\ UNCHANGED <<userRows, epoch, rows, revokedPairs, pair, op, dead>>

Verify(h) ==
    \/ \E s \in Issuers : Present(h, s)
    \/ VerifyMarker(h) \/ VerifyBlocklist(h) \/ VerifyEpoch(h)
Issue(h) ==
    \/ LoginLookup(h) \/ LoginIssue(h)
    \/ RefreshRotate(h) \/ RefreshExpired(h) \/ RefreshReuse(h) \/ Refused(h)
Logout(h) ==
    \/ LogoutRevoke(h) \/ LogoutBump(h)
    \/ LogoutScan(h) \/ LogoutDelete(h) \/ LogoutDeleteFails(h)

SessionsNext ==
    \/ \E h \in Handlers :
          Verify(h) \/ Begin(h) \/ Issue(h) \/ Logout(h) \/ RevokeByWipe(h) \/ Fail(h)
    \/ EraseUserRow
    \/ Tick

SessionsSpec == SessionsInit /\ [][SessionsNext]_sessionVars

-----------------------------------------------------------------------------
(***************************************************************************)
(* Properties                                                              *)
(***************************************************************************)

\* A refresh token is exchanged once, however many requests present it at the
\* same time or again after a lost answer (qConsumeRefreshTokenByHash).
OneRotation ==
    \A s, t \in Issued : pair[s].parent = pair[t].parent /\ pair[s].parent # NoPair => s = t

\* No session is opened or prolonged on a wiped account, also by a login or
\* refresh that had passed all its checks when the wipe committed: no refresh
\* row exists while the marker does, nor after final erasure.
WipeEndsSessions == ~Active => rows = {}

\* A session ended by reuse detection, a completed deletion of a logout or a
\* wipe is never prolonged: no refresh that had verified its token before
\* rotates it afterwards (commitRefreshReuseRevocation, NewLogoutHandler).
DeadCannotRotate ==
    [][\A s \in Issuers : pair'[s] # pair[s] => pair'[s].parent \notin dead]_sessionVars
=============================================================================
