---------------------------- MODULE AccountWipe ----------------------------
(***************************************************************************)
(* Panic wipe of one account: PanicWipe (auth-service/handlers/panicwipe.go)*)
(* disables the account and inserts a wipe job in one transaction; workers *)
(* (wipejob.go) claim the job under a lease, clean every storage layer and *)
(* only then erase the user row, the blocklist key and the job.            *)
(*                                                                         *)
(* Several PanicWipe calls may run at once, workers crash, lose leases and *)
(* meet failing stores, and other accounts go on sending contact requests  *)
(* to the account (contacts.go).  Leases and backoffs are not measured:    *)
(* "lapsed" and "due" are events that may happen at any time.              *)
(***************************************************************************)
EXTENDS Naturals, Sequences, Functions

CONSTANTS
    Wipes,       \* calls of PanicWipe; each inserts at most one job
    Workers,     \* wipe workers, one per auth-service process
    Phases,      \* the configured storage phases, in the order they run
    Others,      \* accounts that send contact requests to this one
    None

ASSUME PhasesAssumption == Phases \in Seq(STRING)
ASSUME NoneAssumption == None \notin Workers \union Wipes

VARIABLES
    user,        \* the users row exists
    marker,      \* the wiped_accounts row exists
    blocklist,   \* the Redis key jwt:blocklist:wipe:<uin> exists
    contacts,    \* contacts rows that reference the account: <<other, side>>
    owned,       \* file_objects still names the account's objects
    keys,        \* keys[w]: the call w captured their keys, its job has them
    dirty,       \* storage phases whose layer still holds what it held at first
    wipe,        \* wipe[w]: where a PanicWipe call is
    job,         \* job[w]: the wipe_jobs row the call w inserted
    worker,      \* worker[k]: the state of processOneJob in worker k
    asking       \* others whose contact request passed the existence check

vars == <<user, marker, blocklist, contacts, owned, keys, dirty, wipe, job, worker, asking>>
account == <<user, marker, contacts>>
files == <<owned, keys>>

\* The phase whose targets are the keys in the job's own row.  The other phases
\* go by the uin.
ObjectsPhase == "minio_objects"

Sides == {"out", "back"}
Job == [status : {"none", "pending", "retrying", "processing", "deleted"},
        due : BOOLEAN, lease : BOOLEAN, worker : Workers \union {None}]
Worker == [pc : {"idle", "phases", "erase", "unblock", "delete", "retry"},
           job : Wipes \union {None}, phase : 1..(Len(Phases) + 1),
           failed : BOOLEAN, cancelled : BOOLEAN]

NoJob == [status |-> "none", due |-> FALSE, lease |-> FALSE, worker |-> None]
At(pc, j) == [pc |-> pc, job |-> j, phase |-> 1, failed |-> FALSE, cancelled |-> FALSE]
Idle == At("idle", None)

TypeOK ==
    /\ user \in BOOLEAN /\ marker \in BOOLEAN /\ blocklist \in BOOLEAN
    /\ contacts \subseteq Others \X Sides
    /\ owned \in BOOLEAN /\ keys \in [Wipes -> BOOLEAN]
    /\ dirty \subseteq Range(Phases)
    /\ wipe \in [Wipes -> {"new", "set", "captured", "undo",
                           "done", "failed", "stranded"}]
    /\ job \in [Wipes -> Job]
    /\ worker \in [Workers -> Worker]
    /\ asking \subseteq Others

Init ==
    /\ user = TRUE /\ marker = FALSE /\ blocklist = FALSE
    /\ contacts = {} /\ asking = {}
    /\ owned = TRUE /\ keys = [w \in Wipes |-> FALSE]
    /\ dirty = Range(Phases)
    /\ wipe = [w \in Wipes |-> "new"]
    /\ job = [w \in Wipes |-> NoJob]
    /\ worker = [k \in Workers |-> Idle]

-----------------------------------------------------------------------------
(***************************************************************************)
(* PanicWipe                                                               *)
(***************************************************************************)

\* Redis SET of the blocklist key, before any data is touched.  A SET that
\* fails ends the call with no effect and is not a step; one that takes effect
\* although its answer is lost is followed by WipeStranded.
SetBlocklist(w) ==
    /\ wipe[w] = "new"
    /\ blocklist' = TRUE
    /\ wipe' = [wipe EXCEPT ![w] = "set"]
    /\ UNCHANGED <<account, files, dirty, job, worker, asking>>

\* captureFileKeys, outside the transaction: nothing to capture once another
\* call has committed.
CaptureFileKeys(w) ==
    /\ wipe[w] = "set"
    /\ keys' = [keys EXCEPT ![w] = owned]
    /\ wipe' = [wipe EXCEPT ![w] = "captured"]
    /\ UNCHANGED <<account, owned, blocklist, dirty, job, worker, asking>>

NewJob == [status |-> "pending", due |-> TRUE, lease |-> FALSE, worker |-> None]

\* Mutant: the marker is left to the worker's claim.
CommitTransactionUnmarked(w) ==
    /\ user
    /\ contacts' = {}
    /\ owned' = FALSE
    /\ job' = [job EXCEPT ![w] = NewJob]
    /\ UNCHANGED <<user, marker, keys>>

\* The transaction: lock the user row, delete the rows that reference it, those
\* of file_objects too, insert the marker and the job with the captured keys.
CommitTransaction(w) ==
    /\ user
    /\ contacts' = {}
    /\ owned' = FALSE
    /\ marker' = TRUE
    /\ job' = [job EXCEPT ![w] = NewJob]
    /\ UNCHANGED <<user, keys>>

\* The transaction commits.  The best-effort Redis deletions that follow
\* confirm nothing: the redis phase of the worker repeats them.
WipeCommit(w) ==
    /\ wipe[w] = "captured"
    /\ CommitTransaction(w)
    /\ wipe' = [wipe EXCEPT ![w] = "done"]
    /\ UNCHANGED <<blocklist, dirty, worker, asking>>

\* The transaction commits, but the answer to COMMIT is lost: the call takes
\* the error path although the job exists.
WipeCommitUnknown(w) ==
    /\ wipe[w] = "captured"
    /\ CommitTransaction(w)
    /\ wipe' = [wipe EXCEPT ![w] = "undo"]
    /\ UNCHANGED <<blocklist, dirty, worker, asking>>

\* A step between the SET and the commit fails; what the call captured is lost
\* with it.
WipeError(w) ==
    /\ wipe[w] \in {"set", "captured"}
    /\ keys' = [keys EXCEPT ![w] = FALSE]
    /\ wipe' = [wipe EXCEPT ![w] = "undo"]
    /\ UNCHANGED <<account, owned, blocklist, dirty, job, worker, asking>>

\* The lock finds no user row: final erasure was faster.
WipeNoUser(w) ==
    /\ wipe[w] = "captured"
    /\ ~user
    /\ keys' = [keys EXCEPT ![w] = FALSE]
    /\ wipe' = [wipe EXCEPT ![w] = "undo"]
    /\ UNCHANGED <<account, owned, blocklist, dirty, job, worker, asking>>

\* Mutant: the deferred removal is dropped.
UndoBlocklistDropped(w) ==
    /\ wipe[w] = "undo"
    /\ wipe' = [wipe EXCEPT ![w] = "failed"]
    /\ UNCHANGED <<account, files, blocklist, dirty, job, worker, asking>>

\* The deferred removal of the blocklist key.
UndoBlocklist(w) ==
    /\ wipe[w] = "undo"
    /\ blocklist' = FALSE
    /\ wipe' = [wipe EXCEPT ![w] = "failed"]
    /\ UNCHANGED <<account, files, dirty, job, worker, asking>>

\* The process dies, or Redis refuses the deferred removal: the key stays
\* until it expires.
WipeStranded(w) ==
    /\ wipe[w] \in {"set", "captured", "undo"}
    /\ keys' = [keys EXCEPT ![w] = @ /\ job[w].status # "none"]
    /\ wipe' = [wipe EXCEPT ![w] = "stranded"]
    /\ UNCHANGED <<account, owned, blocklist, dirty, job, worker, asking>>

\* panicWipeBlocklistTTL: seven days.
BlocklistExpire ==
    /\ blocklist
    /\ blocklist' = FALSE
    /\ UNCHANGED <<account, files, dirty, wipe, job, worker, asking>>

-----------------------------------------------------------------------------
(***************************************************************************)
(* The wipe worker                                                         *)
(***************************************************************************)

\* Mutant: a job whose worker died is never picked up again.
ClaimableOnce(j) == job[j].status \in {"pending", "retrying"} /\ job[j].due

Claimable(j) ==
    \/ job[j].status \in {"pending", "retrying"} /\ job[j].due
    \/ job[j].status = "processing" /\ ~job[j].lease

\* qClaimPendingJob: one statement claims the row and restores the marker,
\* unless the user row is already gone.
Claim(k, j) ==
    /\ worker[k].pc = "idle"
    /\ Claimable(j)
    /\ job' = [job EXCEPT ![j] = [status |-> "processing", due |-> FALSE,
                                  lease |-> TRUE, worker |-> k]]
    /\ marker' = (marker \/ user)
    /\ worker' = [worker EXCEPT ![k] = At("phases", j)]
    /\ UNCHANGED <<user, files, blocklist, contacts, dirty, wipe, asking>>

Owns(k) == job[worker[k].job].worker = k /\ job[worker[k].job].status = "processing"

\* qRenewLease updates no row: jobCancel.  (Once the job is decided, the
\* cancellation is not looked at any more.)
LeaseLost(k) ==
    /\ worker[k].pc = "phases"
    /\ ~worker[k].cancelled
    /\ ~(Owns(k) /\ job[worker[k].job].lease)
    /\ worker' = [worker EXCEPT ![k].cancelled = TRUE]
    /\ UNCHANGED <<account, files, blocklist, dirty, wipe, job, asking>>

\* qRenewLease fails or times out: ownership is unconfirmed, jobCancel too.
RenewError(k) ==
    /\ worker[k].pc = "phases"
    /\ ~worker[k].cancelled
    /\ worker' = [worker EXCEPT ![k].cancelled = TRUE]
    /\ UNCHANGED <<account, files, blocklist, dirty, wipe, job, asking>>

InPhase(k) == worker[k].pc = "phases" /\ worker[k].phase <= Len(Phases)

\* What the phase deletes: objects only with the keys in the job at hand.
Deleted(k) ==
    LET p == Phases[worker[k].phase] IN
    IF p = ObjectsPhase /\ ~keys[worker[k].job] THEN {} ELSE {p}

\* runPhase: the layer confirms the deletion.
PhaseDone(k) ==
    /\ InPhase(k)
    /\ ~worker[k].cancelled
    /\ dirty' = dirty \ Deleted(k)
    /\ worker' = [worker EXCEPT ![k].phase = @ + 1]
    /\ UNCHANGED <<account, files, blocklist, wipe, job, asking>>

\* Mutant: the next phase runs, and the error is only logged.
PhaseFailIgnored(k) ==
    /\ InPhase(k)
    /\ ~worker[k].cancelled
    /\ worker' = [worker EXCEPT ![k].phase = @ + 1]
    /\ UNCHANGED <<account, files, blocklist, dirty, wipe, job, asking>>

\* The phase fails or times out, whether or not the layer deleted the data.
PhaseFail(k) ==
    /\ InPhase(k)
    /\ ~worker[k].cancelled
    /\ dirty' \in {dirty, dirty \ Deleted(k)}
    /\ worker' = [worker EXCEPT ![k].phase = @ + 1, ![k].failed = TRUE]
    /\ UNCHANGED <<account, files, blocklist, wipe, job, asking>>

\* A cancelled job starts no further phase.
PhaseSkip(k) ==
    /\ InPhase(k)
    /\ worker[k].cancelled
    /\ worker' = [worker EXCEPT ![k].phase = @ + 1, ![k].failed = TRUE]
    /\ UNCHANGED <<account, files, blocklist, dirty, wipe, job, asking>>

\* Completion or retry.  jobCtx is not consulted again after this point.
Decide(k) ==
    /\ worker[k].pc = "phases"
    /\ worker[k].phase = Len(Phases) + 1
    /\ worker' = [worker EXCEPT ![k] =
                    At(IF @.cancelled \/ @.failed THEN "retry" ELSE "erase", @.job)]
    /\ UNCHANGED <<account, files, blocklist, dirty, wipe, job, asking>>

Goto(k, pc) == worker' = [worker EXCEPT ![k].pc = pc]

\* Phase 1: refresh tokens, marker and user row in one transaction.  Contact
\* rows reference the user row without ON DELETE CASCADE.
EraseUser ==
    /\ contacts = {}
    /\ user' = FALSE /\ marker' = FALSE
    /\ UNCHANGED contacts

FinalErasure(k) ==
    /\ worker[k].pc = "erase"
    /\ EraseUser
    /\ Goto(k, "unblock")
    /\ UNCHANGED <<files, blocklist, dirty, wipe, job, asking>>

\* The transaction commits, but the answer to COMMIT is lost.
FinalErasureUnknown(k) ==
    /\ worker[k].pc = "erase"
    /\ EraseUser
    /\ Goto(k, "retry")
    /\ UNCHANGED <<files, blocklist, dirty, wipe, job, asking>>

\* A database error: the transaction rolls back.
ErasureRolledBack(k) ==
    /\ worker[k].pc = "erase"
    /\ Goto(k, "retry")
    /\ UNCHANGED <<account, files, blocklist, dirty, wipe, job, asking>>

\* DELETE FROM users meets a contact row.
ErasureObstructed(k) ==
    /\ worker[k].pc = "erase"
    /\ contacts # {}
    /\ Goto(k, "retry")
    /\ UNCHANGED <<account, files, blocklist, dirty, wipe, job, asking>>

\* Phase 2: DeleteBlocklistKey.
DeleteBlocklistKey(k) ==
    /\ worker[k].pc = "unblock"
    /\ blocklist' = FALSE
    /\ Goto(k, "delete")
    /\ UNCHANGED <<account, files, dirty, wipe, job, asking>>

\* Every attempt of Phase 2, or the transaction of Phase 3, fails.
FinishFails(k) ==
    /\ worker[k].pc \in {"unblock", "delete"}
    /\ Goto(k, "retry")
    /\ UNCHANGED <<account, files, blocklist, dirty, wipe, job, asking>>

\* Phase 3, qDeleteWipeJob: no row matches when another worker holds the job.
\* The keys go with the row.
DeleteJob(k) ==
    /\ worker[k].pc = "delete"
    /\ IF job[worker[k].job].worker = k
         THEN /\ job' = [job EXCEPT ![worker[k].job] = [NoJob EXCEPT !.status = "deleted"]]
              /\ keys' = [keys EXCEPT ![worker[k].job] = FALSE]
         ELSE UNCHANGED <<job, keys>>
    /\ worker' = [worker EXCEPT ![k] = Idle]
    /\ UNCHANGED <<account, owned, blocklist, dirty, wipe, asking>>

\* Mutant: the retry is written whoever holds the job now.
RetryJobUnguarded(k) ==
    job' = [job EXCEPT ![worker[k].job] =
              [status |-> "retrying", due |-> FALSE, lease |-> FALSE, worker |-> None]]

\* qRetryWipeJob: only the row's current worker_id may reschedule it.
RetryJob(k) ==
    job' = IF job[worker[k].job].worker = k
             THEN [job EXCEPT ![worker[k].job] =
                     [status |-> "retrying", due |-> FALSE, lease |-> FALSE, worker |-> None]]
             ELSE job

ScheduleRetry(k) ==
    /\ worker[k].pc = "retry"
    /\ RetryJob(k)
    /\ worker' = [worker EXCEPT ![k] = Idle]
    /\ UNCHANGED <<account, files, blocklist, dirty, wipe, asking>>

\* The worker dies or the service shuts down, or the retry cannot be written:
\* the row stays "processing" until its lease lapses.
WorkerCrash(k) ==
    /\ worker[k].pc # "idle"
    /\ worker' = [worker EXCEPT ![k] = Idle]
    /\ UNCHANGED <<account, files, blocklist, dirty, wipe, job, asking>>

\* next_retry_at passes.
RetryDue(j) ==
    /\ job[j].status = "retrying" /\ ~job[j].due
    /\ job' = [job EXCEPT ![j].due = TRUE]
    /\ UNCHANGED <<account, files, blocklist, dirty, wipe, worker, asking>>

\* lease_until passes without a renewal.
LeaseLapse(j) ==
    /\ job[j].lease
    /\ job' = [job EXCEPT ![j].lease = FALSE]
    /\ UNCHANGED <<account, files, blocklist, dirty, wipe, worker, asking>>

-----------------------------------------------------------------------------
(***************************************************************************)
(* Contact requests of other accounts                                      *)
(***************************************************************************)

\* NewAddContactHandler, qUserExists.
AskContact(o) ==
    /\ o \notin asking
    /\ user
    /\ asking' = asking \union {o}
    /\ UNCHANGED <<account, files, blocklist, dirty, wipe, job, worker>>

\* Its transaction inserts both edges; the foreign keys need the user row.
AddContact(o) ==
    /\ o \in asking
    /\ asking' = asking \ {o}
    /\ contacts' = IF user THEN contacts \union ({o} \X Sides) ELSE contacts
    /\ UNCHANGED <<user, marker, files, blocklist, dirty, wipe, job, worker>>

\* NewBlockContactHandler without a prior edge: qUpsertContactBlocked.
BlockContact(o) ==
    /\ <<o, "out">> \notin contacts
    /\ user
    /\ contacts' = contacts \union {<<o, "out">>}
    /\ UNCHANGED <<user, marker, files, blocklist, dirty, wipe, job, worker, asking>>

\* NewRemoveContactHandler removes the requester's edge only.
RemoveContact(o) ==
    /\ <<o, "out">> \in contacts
    /\ contacts' = contacts \ {<<o, "out">>}
    /\ UNCHANGED <<user, marker, files, blocklist, dirty, wipe, job, worker, asking>>

-----------------------------------------------------------------------------
\* What PanicWipe does when nothing fails.
Proceed(w) ==
    \/ SetBlocklist(w) \/ CaptureFileKeys(w) \/ WipeCommit(w)
    \/ WipeNoUser(w) \/ UndoBlocklist(w)

\* What a worker does when nothing fails.
Work(k) ==
    \/ \E j \in Wipes : Claim(k, j)
    \/ LeaseLost(k) \/ PhaseDone(k) \/ PhaseSkip(k) \/ Decide(k)
    \/ FinalErasure(k) \/ ErasureObstructed(k)
    \/ DeleteBlocklistKey(k) \/ DeleteJob(k) \/ ScheduleRetry(k)

Fault ==
    \/ \E w \in Wipes : WipeCommitUnknown(w) \/ WipeError(w) \/ WipeStranded(w)
    \/ \E k \in Workers :
         \/ RenewError(k) \/ PhaseFail(k) \/ FinalErasureUnknown(k)
         \/ ErasureRolledBack(k) \/ FinishFails(k) \/ WorkerCrash(k)

Contact(o) == AskContact(o) \/ AddContact(o) \/ BlockContact(o) \/ RemoveContact(o)

Next ==
    \/ \E w \in Wipes : Proceed(w) \/ RetryDue(w) \/ LeaseLapse(w)
    \/ \E k \in Workers : Work(k)
    \/ Fault
    \/ BlocklistExpire
    \/ \E o \in Others : Contact(o)

Spec == Init /\ [][Next]_vars

\* The worker that claimed j is still busy with it, and so renews its lease.
Held(j) == \E k \in Workers : worker[k].pc # "idle" /\ worker[k].job = j /\ job[j].worker = k

\* A worker polls for ever (the ticker of StartWipeWorker) and goes on with
\* what it claimed; backoffs and abandoned leases run out; stores, network
\* and processes stop failing at some point.
Fairness ==
    /\ \A k \in Workers : WF_vars(Work(k))
    /\ \A j \in Wipes : WF_vars(RetryDue(j)) /\ WF_vars(~Held(j) /\ LeaseLapse(j))
    /\ <>[][~(Fault /\ ~\E k \in Workers : Work(k))]_vars
    /\ <>[][\A j \in Wipes : ~(Held(j) /\ LeaseLapse(j))]_vars

FairSpec == Spec /\ Fairness

-----------------------------------------------------------------------------
(***************************************************************************)
(* Properties                                                              *)
(***************************************************************************)

Exists(j) == job[j].status \notin {"none", "deleted"}
Committed(j) == job[j].status # "none"

\* A committed wipe keeps every session out and keeps a job until the user
\* row is gone: whatever concurrent wipes, lost answers, stale workers and
\* crashes do, an account with a committed wipe has the marker that
\* IsAccountWiped looks for and a job that will finish the erasure.
WipedStaysWiped ==
    user /\ (\E w \in Wipes : Committed(w)) => marker /\ \E j \in Wipes : Exists(j)

\* The user row is erased only when every storage layer is clean of what the
\* account had stored, except for objects that the keys in another job's row
\* still name; neither a lease lost half way nor a second PanicWipe call, which
\* captures nothing, makes the erasure forget an object (processOneJob).
LeftoversNamed ==
    ~user => /\ ~marker
             /\ dirty \subseteq {ObjectsPhase}
             /\ dirty # {} => \E j \in Wipes : Exists(j) /\ keys[j]

\* "Zero footprint": once every inserted job is deleted and no PanicWipe call
\* is under way or was cut short, neither user row, marker, blocklist key nor
\* stored data is left, also when a late second call found the account already
\* erased or erased it before the first call's job was done.
ZeroFootprint ==
    (/\ \E w \in Wipes : Committed(w)
     /\ \A w \in Wipes : ~Exists(w) /\ wipe[w] \in {"new", "done", "failed"})
        => ~user /\ ~marker /\ ~blocklist /\ dirty = {}

\* A worker whose lease lapsed never alters a job another worker reclaimed:
\* while k holds a live lease, the row changes by a step of k or by time only.
StaleWorkerHarmless ==
    [][\A j \in Wipes : \A k \in Workers :
         job[j].lease /\ job[j].worker = k /\ job'[j] # job[j] =>
            worker'[k] # worker[k] \/ job'[j] = [job[j] EXCEPT !.lease = FALSE]]_vars

\* Every committed wipe ends with the account erased and its job deleted,
\* unless a contact row written meanwhile blocks DELETE FROM users.
ErasureCompletes ==
    \A w \in Wipes :
        Committed(w) ~> (~user /\ job[w].status = "deleted") \/ contacts # {}

\* "Only after every external cleanup phase confirms deletion does a final
\* transaction permanently delete the user row ... leaving zero rows":
\* every committed wipe ends so.
EveryWipeErases == \A w \in Wipes : Committed(w) ~> ~user

\* "Only after every external cleanup phase confirms deletion does a final
\* PostgreSQL transaction permanently delete the user row": no layer still
\* holds the account's data then.
ErasedOnlyWhenClean == ~user => dirty = {}
=============================================================================
