------------------------- MODULE AccountWipeProofs -------------------------
(***************************************************************************)
(* Proofs about AccountWipe, for any number of PanicWipe calls, workers,   *)
(* storage phases and other accounts.                                      *)
(***************************************************************************)
EXTENDS AccountWipe, TLAPS

-----------------------------------------------------------------------------
(***************************************************************************)
(* The inductive invariant                                                 *)
(***************************************************************************)

\* Only a job being processed has a worker, and only it has a lease; the row
\* of a call that has not committed does not exist.
JobInv ==
    \A j \in Wipes :
        /\ job[j].worker # None => job[j].status = "processing"
        /\ job[j].lease => job[j].worker # None
        /\ wipe[j] \in {"new", "set", "captured"} => job[j] = NoJob

\* A layer a worker need not answer for: the objects, when its job has no keys.
Excused(k, p) == p = ObjectsPhase /\ ~keys[worker[k].job]

\* What a worker has established when it is at a given place: the phases it
\* passed without a failure are clean unless it had no keys for them, and the
\* user row is gone before the blocklist key and the job are touched.
WorkerInv ==
    \A k \in Workers :
        /\ worker[k].pc # "idle" => worker[k].job \in Wipes /\ Committed(worker[k].job)
        /\ worker[k].pc = "phases" /\ ~worker[k].failed =>
              \A i \in 1..Len(Phases) :
                 i < worker[k].phase /\ Phases[i] \in dirty => Excused(k, Phases[i])
        /\ worker[k].pc \in {"erase", "unblock", "delete"} =>
              \A p \in dirty : Excused(k, p)
        /\ worker[k].pc \in {"unblock", "delete"} => ~user

\* The user row is gone only with the marker and all but the objects.
ErasedInv == ~user => ~marker /\ dirty \subseteq {ObjectsPhase}

\* The objects are named by file_objects until the first commit, which finds
\* their keys captured, and by the keys of a job that still exists after it.
KeysInv ==
    /\ owned => user /\ \A w \in Wipes : ~Committed(w)
    /\ \A w \in Wipes : wipe[w] = "captured" /\ owned => keys[w]
    /\ ~owned /\ ObjectsPhase \in dirty => \E j \in Wipes : Exists(j) /\ keys[j]

\* A call that set the blocklist key and may not have removed it.
Pending(w) == wipe[w] \in {"set", "captured", "undo", "stranded"}

\* The blocklist key that is left when a worker is about to delete its job,
\* or when no job is left, belongs to a call that is still pending.
BlocklistInv ==
    blocklist /\ (\/ \E k \in Workers : worker[k].pc = "delete"
                  \/ (\E w \in Wipes : Committed(w)) /\ \A w \in Wipes : ~Exists(w))
        => \E w \in Wipes : Pending(w)

IInv ==
    /\ TypeOK
    /\ JobInv
    /\ WorkerInv
    /\ WipedStaysWiped
    /\ ErasedInv
    /\ KeysInv
    /\ BlocklistInv

-----------------------------------------------------------------------------
\* The records a worker and a job start from have their types.
LEMMA Records ==
    /\ Len(Phases) \in Nat
    /\ Idle \in Worker /\ Idle.pc = "idle"
    /\ NoJob \in Job /\ NoJob.status = "none" /\ NoJob.worker = None /\ ~NoJob.lease
  <1>1. Len(Phases) \in Nat
    BY PhasesAssumption
  <1>2. 1 \in 1..(Len(Phases) + 1)
    BY <1>1
  <1>3. Idle \in Worker /\ Idle.pc = "idle"
    BY <1>2 DEF Idle, At, Worker
  <1>4. NoJob \in Job /\ NoJob.status = "none" /\ NoJob.worker = None /\ ~NoJob.lease
    BY DEF NoJob, Job
  <1> QED
    BY <1>1, <1>3, <1>4

\* The invariant holds initially: no job, no worker busy, the user row there.
LEMMA InitIInv == Init => IInv
  <1> SUFFICES ASSUME Init PROVE IInv
    OBVIOUS
  <1>1. TypeOK
    BY Records DEF Init, TypeOK
  <1>2. JobInv
    BY DEF Init, JobInv, NoJob
  <1>3. WorkerInv
    BY DEF Init, WorkerInv, Idle, At
  <1>4. WipedStaysWiped /\ ErasedInv /\ KeysInv /\ BlocklistInv
    BY DEF Init, WipedStaysWiped, ErasedInv, KeysInv, BlocklistInv, Committed, NoJob
  <1> QED
    BY <1>1, <1>2, <1>3, <1>4 DEF IInv

\* What a worker has established stays so when keys are captured or dropped by
\* a call that has not committed, for it has no job yet.
LEMMA WorkersStay ==
  ASSUME IInv, UNCHANGED <<user, dirty, worker>>,
         \A j \in Wipes : Committed(j) => Committed(j)' /\ keys'[j] = keys[j]
  PROVE  WorkerInv'
  <1>1. \A k \in Workers : worker[k].pc # "idle" =>
          /\ worker[k].job \in Wipes /\ Committed(worker[k].job)'
          /\ \A p \in dirty : Excused(k, p) => Excused(k, p)'
    BY DEF IInv, WorkerInv, Excused
  <1> QED
    BY <1>1 DEF IInv, WorkerInv

\* The steps of a call that leave the database alone preserve the invariant, if
\* a call that may have set the blocklist key stays pending while the key is
\* there, and what is captured are the keys of rows that are still there.
LEMMA CallMoves ==
  ASSUME IInv, NEW w \in Wipes,
         NEW pc \in {"set", "captured", "undo", "failed", "stranded"},
         wipe' = [wipe EXCEPT ![w] = pc],
         UNCHANGED <<account, owned, dirty, job, worker, asking>>,
         NEW b \in BOOLEAN, keys' = [keys EXCEPT ![w] = b],
         Committed(w) => b = keys[w],
         pc = "captured" /\ owned => b,
         pc \in {"set", "captured"} => job[w] = NoJob,
         blocklist' \in BOOLEAN,
         blocklist' => pc # "failed" /\ (blocklist \/ pc = "set")
  PROVE  IInv'
  <1> USE DEF account
  <1>1. TypeOK'
    BY DEF IInv, TypeOK
  <1>2. JobInv'
    BY DEF IInv, TypeOK, JobInv
  <1>3. WorkerInv'
    <2>1. \A j \in Wipes : Committed(j) => Committed(j)' /\ keys'[j] = keys[j]
      BY DEF Committed, IInv, TypeOK
    <2> QED
      BY <2>1, WorkersStay
  <1>4. WipedStaysWiped' /\ ErasedInv'
    BY DEF IInv, WipedStaysWiped, ErasedInv, Committed, Exists
  <1>5. KeysInv'
    <2>1. \A j \in Wipes : Exists(j) => Committed(j)
      BY DEF Exists, Committed
    <2>2. \A j \in Wipes : Exists(j) /\ keys[j] => Exists(j)' /\ keys'[j]
      BY <2>1 DEF IInv, TypeOK, Exists
    <2>3. \A i \in Wipes : wipe'[i] = "captured" /\ owned => keys'[i]
      BY DEF IInv, TypeOK, KeysInv
    <2> QED
      BY <2>2, <2>3 DEF IInv, KeysInv, Committed
  <1>6. BlocklistInv'
    BY DEF IInv, TypeOK, BlocklistInv, Committed, Exists, Pending
  <1> QED
    BY <1>1, <1>2, <1>3, <1>4, <1>5, <1>6 DEF IInv

\* SetBlocklist preserves the invariant: the key it adds belongs to a pending call.
LEMMA SetBlocklistStep == ASSUME IInv, NEW w \in Wipes, SetBlocklist(w) PROVE IInv'
  <1>1. keys' = [keys EXCEPT ![w] = keys[w]] /\ keys[w] \in BOOLEAN
    BY DEF SetBlocklist, files, IInv, TypeOK
  <1>2. job[w] = NoJob
    BY DEF SetBlocklist, IInv, JobInv
  <1> QED
    BY <1>1, <1>2, CallMoves DEF SetBlocklist, files

\* CaptureFileKeys preserves the invariant: it captures the keys of the rows
\* there are.
LEMMA CaptureFileKeysStep == ASSUME IInv, NEW w \in Wipes, CaptureFileKeys(w) PROVE IInv'
  <1>1. job[w] = NoJob /\ ~Committed(w)
    BY Records DEF CaptureFileKeys, IInv, JobInv, Committed
  <1>2. owned \in BOOLEAN /\ blocklist \in BOOLEAN
    BY DEF IInv, TypeOK
  <1> QED
    BY <1>1, <1>2, CallMoves DEF CaptureFileKeys

\* A call that fails before its commit, or finds no user row, stays pending and
\* loses keys that no job has.
LEMMA WipeErrorStep ==
  ASSUME IInv, NEW w \in Wipes, WipeError(w) \/ WipeNoUser(w) PROVE IInv'
  <1>1. ~Committed(w)
    BY Records DEF WipeError, WipeNoUser, IInv, JobInv, Committed
  <1>2. blocklist \in BOOLEAN
    BY DEF IInv, TypeOK
  <1>3. /\ keys' = [keys EXCEPT ![w] = FALSE] /\ wipe' = [wipe EXCEPT ![w] = "undo"]
        /\ UNCHANGED <<account, owned, blocklist, dirty, job, worker, asking>>
        /\ wipe[w] \in {"set", "captured"}
    BY DEF WipeError, WipeNoUser
  <1> QED
    BY <1>1, <1>2, <1>3, CallMoves

\* UndoBlocklist preserves the invariant: it removes the key.
LEMMA UndoBlocklistStep == ASSUME IInv, NEW w \in Wipes, UndoBlocklist(w) PROVE IInv'
  <1>1. keys' = [keys EXCEPT ![w] = keys[w]] /\ keys[w] \in BOOLEAN
    BY DEF UndoBlocklist, files, IInv, TypeOK
  <1> QED
    BY <1>1, CallMoves DEF UndoBlocklist, files

\* WipeStranded preserves the invariant: the call stays pending, and a job it
\* inserted keeps its keys.
LEMMA WipeStrandedStep == ASSUME IInv, NEW w \in Wipes, WipeStranded(w) PROVE IInv'
  <1>1. keys[w] \in BOOLEAN /\ blocklist \in BOOLEAN
    BY DEF IInv, TypeOK
  <1> DEFINE b == keys[w] /\ job[w].status # "none"
  <1>2. b \in BOOLEAN /\ (Committed(w) => b = keys[w])
    BY <1>1 DEF Committed
  <1>3. /\ keys' = [keys EXCEPT ![w] = b] /\ wipe' = [wipe EXCEPT ![w] = "stranded"]
        /\ UNCHANGED <<account, owned, blocklist, dirty, job, worker, asking>>
    BY DEF WipeStranded
  <1> HIDE DEF b
  <1> QED
    BY <1>1, <1>2, <1>3, CallMoves

\* The transaction of PanicWipe preserves the invariant, whether the caller
\* learns of the commit or not: marker and job appear together, and the rows of
\* file_objects go only when a job has what they named.
LEMMA CommitStep ==
  ASSUME IInv, NEW w \in Wipes, WipeCommit(w) \/ WipeCommitUnknown(w) PROVE IInv'
  <1> USE DEF WipeCommit, WipeCommitUnknown, CommitTransaction
  <1>0. NewJob \in Job /\ job' = [job EXCEPT ![w] = NewJob]
    BY DEF NewJob, Job
  <1>1. TypeOK'
    BY <1>0 DEF IInv, TypeOK
  <1>2. JobInv'
    BY <1>0 DEF IInv, TypeOK, JobInv, NewJob
  <1>3. WorkerInv'
    <2>1. \A j \in Wipes : Committed(j) => Committed(j)' /\ keys'[j] = keys[j]
      BY <1>0 DEF Committed, IInv, TypeOK, NewJob
    <2> QED
      BY <2>1, WorkersStay
  <1>4. Exists(w)' /\ marker' /\ user /\ user'
    BY <1>0 DEF IInv, TypeOK, Exists, NewJob
  <1>5. WipedStaysWiped' /\ ErasedInv'
    BY <1>4 DEF WipedStaysWiped, ErasedInv
  <1>6. BlocklistInv'
    BY <1>4 DEF IInv, WorkerInv, BlocklistInv
  <1>7. KeysInv'
    <2>1. wipe[w] = "captured" /\ job[w] = NoJob /\ ~owned' /\ UNCHANGED <<keys, dirty>>
      BY DEF IInv, JobInv
    <2>2. CASE owned
      BY <1>4, <2>1, <2>2 DEF IInv, KeysInv
    <2>3. CASE ~owned
      <3>1. \A j \in Wipes : Exists(j) => Exists(j)'
        BY <1>0, <1>4 DEF Exists, IInv, TypeOK
      <3> QED
        BY <2>1, <2>3, <3>1 DEF IInv, KeysInv
    <2> QED
      BY <2>2, <2>3
  <1> QED
    BY <1>1, <1>2, <1>3, <1>5, <1>6, <1>7 DEF IInv

\* The expiry of the blocklist key preserves the invariant.
LEMMA BlocklistExpireStep == ASSUME IInv, BlocklistExpire PROVE IInv'
  <1> USE DEF BlocklistExpire, account, files
  <1>1. TypeOK' /\ JobInv' /\ WorkerInv'
    BY WorkersStay DEF IInv, TypeOK, JobInv, Committed
  <1>2. WipedStaysWiped' /\ ErasedInv' /\ KeysInv' /\ BlocklistInv'
    BY DEF IInv, WipedStaysWiped, ErasedInv, KeysInv, BlocklistInv, Committed, Exists
  <1> QED
    BY <1>1, <1>2 DEF IInv

\* Contact rows are not part of the invariant, except for their type.
LEMMA ContactStep == ASSUME IInv, NEW o \in Others, Contact(o) PROVE IInv'
  <1> USE DEF Contact, AskContact, AddContact, BlockContact, RemoveContact, account, files
  <1>1. TypeOK'
    BY DEF IInv, TypeOK, Sides
  <1>2. JobInv' /\ WorkerInv'
    BY WorkersStay DEF IInv, JobInv, Committed
  <1>3. WipedStaysWiped' /\ ErasedInv' /\ KeysInv' /\ BlocklistInv'
    BY DEF IInv, WipedStaysWiped, ErasedInv, KeysInv, BlocklistInv, Committed, Exists, Pending
  <1> QED
    BY <1>1, <1>2, <1>3 DEF IInv

\* The passing of a backoff or of a lease preserves the invariant.
LEMMA TimeStep ==
  ASSUME IInv, NEW j \in Wipes, RetryDue(j) \/ LeaseLapse(j) PROVE IInv'
  <1> USE DEF RetryDue, LeaseLapse, account, files
  <1>1. /\ job' \in [Wipes -> Job]
        /\ \A i \in Wipes : /\ job'[i].status = job[i].status
                            /\ job'[i].worker = job[i].worker
                            /\ job'[i].lease => job[i].lease
                            /\ job[i].status = "none" => job'[i] = job[i]
    <2> DEFINE late == [job[j] EXCEPT !.due = TRUE]
               lapsed == [job[j] EXCEPT !.lease = FALSE]
    <2>1. job \in [Wipes -> Job] /\ job[j] \in Job
      BY DEF IInv, TypeOK
    <2>2. CASE RetryDue(j)
      <3>1. late \in Job /\ late.status = job[j].status /\ late.worker = job[j].worker
            /\ late.lease = job[j].lease
        BY <2>1 DEF Job
      <3>2. job' = [job EXCEPT ![j] = late] /\ job[j].status # "none"
        BY <2>2
      <3> HIDE DEF late
      <3> QED
        BY <2>1, <3>1, <3>2
    <2>3. CASE LeaseLapse(j)
      <3>1. lapsed \in Job /\ lapsed.status = job[j].status /\ lapsed.worker = job[j].worker
            /\ ~lapsed.lease
        BY <2>1 DEF Job
      <3>2. job' = [job EXCEPT ![j] = lapsed] /\ job[j].status # "none"
        BY <2>3 DEF IInv, JobInv
      <3> HIDE DEF lapsed
      <3> QED
        BY <2>1, <3>1, <3>2
    <2> QED
      BY <2>2, <2>3
  <1>2. TypeOK'
    BY <1>1 DEF IInv, TypeOK
  <1>3. JobInv'
    BY <1>1, Records DEF IInv, JobInv
  <1>4. WorkerInv'
    BY <1>1, WorkersStay DEF IInv, Committed
  <1>5. WipedStaysWiped' /\ ErasedInv' /\ KeysInv' /\ BlocklistInv'
    BY <1>1 DEF IInv, WipedStaysWiped, ErasedInv, KeysInv, BlocklistInv, Committed, Exists,
                Pending
  <1> QED
    BY <1>2, <1>3, <1>4, <1>5 DEF IInv

\* A claim preserves the invariant: it restores the marker only for a user
\* row that exists, and the worker starts before the first phase.
LEMMA ClaimStep ==
  ASSUME IInv, NEW k \in Workers, NEW j \in Wipes, Claim(k, j) PROVE IInv'
  <1> DEFINE row == [status |-> "processing", due |-> FALSE, lease |-> TRUE, worker |-> k]
             start == At("phases", j)
  <1>1. row \in Job /\ job' = [job EXCEPT ![j] = row]
    BY DEF Claim, Job
  <1>2. /\ start \in Worker /\ worker' = [worker EXCEPT ![k] = start]
        /\ start.pc = "phases" /\ start.job = j /\ start.phase = 1
    <2>1. 1 \in 1..(Len(Phases) + 1)
      BY Records
    <2>2. worker' = [worker EXCEPT ![k] = start]
      BY DEF Claim
    <2>3. start \in Worker /\ start.pc = "phases" /\ start.job = j /\ start.phase = 1
      BY <2>1 DEF At, Worker
    <2> QED
      BY <2>2, <2>3
  <1>3. /\ row.status = "processing" /\ row.worker = k /\ k # None
        /\ job[j].status \notin {"none", "deleted"}
    BY NoneAssumption DEF Claim, Claimable
  <1> HIDE DEF row, start
  <1>4. /\ UNCHANGED <<user, owned, keys, blocklist, contacts, dirty, wipe, asking>>
        /\ marker' = (marker \/ user)
    BY DEF Claim, files
  <1>5. TypeOK'
    BY <1>1, <1>2, <1>4 DEF IInv, TypeOK
  <1>6. JobInv'
    BY <1>1, <1>3, <1>4, Records DEF IInv, TypeOK, JobInv
  <1>7. WorkerInv'
    <2>1. \A i \in Wipes : Committed(i) => Committed(i)'
      BY <1>1, <1>3 DEF IInv, TypeOK, Committed
    <2>2. Committed(j)
      BY <1>3 DEF Committed
    <2>3. \A i \in Workers : worker'[i] = worker[i] \/ (i = k /\ worker'[i] = start)
      BY <1>2 DEF IInv, TypeOK
    <2>4. \A n \in 1..Len(Phases) : ~(n < 1)
      BY Records
    <2> QED
      BY <1>2, <1>4, <2>1, <2>2, <2>3, <2>4 DEF IInv, WorkerInv, Excused
  <1>8. Exists(j)' /\ Committed(j) /\ \A i \in Wipes : Exists(i)' <=> Exists(i)
    BY <1>1, <1>3 DEF IInv, TypeOK, Exists, Committed
  <1>9. WipedStaysWiped' /\ ErasedInv' /\ KeysInv'
    BY <1>1, <1>4, <1>8 DEF IInv, TypeOK, WipedStaysWiped, ErasedInv, KeysInv, Committed
  <1>10. BlocklistInv'
    BY <1>2, <1>4, <1>8 DEF IInv, TypeOK, BlocklistInv, Pending
  <1> QED
    BY <1>5, <1>6, <1>7, <1>9, <1>10 DEF IInv

\* The steps of a worker that touch neither the job rows nor the account, and
\* keep what WorkerInv says of it, preserve the invariant.
LEMMA WorkerMoves ==
  ASSUME IInv, NEW k \in Workers, NEW rec \in Worker,
         worker' = [worker EXCEPT ![k] = rec],
         UNCHANGED <<account, files, wipe, job, asking>>,
         blocklist' \in {FALSE, blocklist},
         dirty' \subseteq dirty,
         rec.pc # "idle" => worker[k].pc # "idle" /\ rec.job = worker[k].job,
         rec.pc = "phases" /\ ~rec.failed =>
            \A i \in 1..Len(Phases) :
               i < rec.phase /\ Phases[i] \in dirty' => Excused(k, Phases[i]),
         rec.pc \in {"erase", "unblock", "delete"} => \A p \in dirty' : Excused(k, p),
         rec.pc \in {"unblock", "delete"} => ~user,
         rec.pc = "delete" => worker[k].pc = "delete" \/ ~blocklist'
  PROVE  IInv'
  <1> USE DEF account, files
  <1>1. TypeOK'
    BY DEF IInv, TypeOK
  <1>2. JobInv'
    BY DEF IInv, JobInv
  <1>3. WorkerInv'
    <2> SUFFICES ASSUME NEW i \in Workers
                 PROVE  /\ worker'[i].pc # "idle" =>
                             worker'[i].job \in Wipes /\ Committed(worker'[i].job)
                        /\ worker'[i].pc = "phases" /\ ~worker'[i].failed =>
                             \A n \in 1..Len(Phases) :
                                n < worker'[i].phase /\ Phases[n] \in dirty' =>
                                   Excused(i, Phases[n])'
                        /\ worker'[i].pc \in {"erase", "unblock", "delete"} =>
                             \A p \in dirty' : Excused(i, p)'
                        /\ worker'[i].pc \in {"unblock", "delete"} => ~user
      BY DEF WorkerInv, Committed
    <2>1. CASE i = k
      <3>1. worker'[i] = rec
        BY <2>1 DEF IInv, TypeOK
      <3>2. CASE rec.pc = "idle"
        BY <3>1, <3>2
      <3>3. CASE rec.pc # "idle"
        <4>1. rec.job \in Wipes /\ Committed(rec.job)
          BY <2>1, <3>3 DEF IInv, WorkerInv
        <4>2. \A p \in dirty' : Excused(k, p) => Excused(i, p)'
          BY <2>1, <3>1, <3>3 DEF Excused
        <4> QED
          BY <3>1, <4>1, <4>2
      <3> QED
        BY <3>2, <3>3
    <2>2. CASE i # k
      <3>1. worker'[i] = worker[i]
        BY <2>2 DEF IInv, TypeOK
      <3>2. \A p \in dirty' : p \in dirty /\ (Excused(i, p) => Excused(i, p)')
        BY <3>1 DEF Excused
      <3> QED
        BY <3>1, <3>2 DEF IInv, WorkerInv
    <2> QED
      BY <2>1, <2>2
  <1>4. WipedStaysWiped' /\ ErasedInv' /\ KeysInv'
    BY DEF IInv, WipedStaysWiped, ErasedInv, KeysInv, Committed, Exists
  <1>5. BlocklistInv'
    BY DEF IInv, TypeOK, BlocklistInv, Committed, Exists, Pending
  <1> QED
    BY <1>1, <1>2, <1>3, <1>4, <1>5 DEF IInv

\* The record of a worker after Goto.
LEMMA GotoRecord ==
  ASSUME TypeOK, NEW k \in Workers,
         NEW pc \in {"idle", "phases", "erase", "unblock", "delete", "retry"}, Goto(k, pc)
  PROVE  \E rec \in Worker : /\ rec.pc = pc /\ rec.job = worker[k].job
                             /\ worker' = [worker EXCEPT ![k] = rec]
  <1> DEFINE rec == [worker[k] EXCEPT !.pc = pc]
  <1>1. worker[k] \in Worker
    BY DEF TypeOK
  <1>2. rec \in Worker /\ rec.pc = pc /\ rec.job = worker[k].job
    BY <1>1 DEF Worker
  <1>3. worker' = [worker EXCEPT ![k] = rec]
    BY DEF Goto
  <1> HIDE DEF rec
  <1> QED
    BY <1>2, <1>3

\* LeaseLost and RenewError preserve the invariant: they only cancel jobCtx.
LEMMA CancelStep ==
  ASSUME IInv, NEW k \in Workers, LeaseLost(k) \/ RenewError(k) PROVE IInv'
  <1> DEFINE rec == [worker[k] EXCEPT !.cancelled = TRUE]
  <1>1. /\ rec \in Worker /\ rec.pc = worker[k].pc /\ rec.job = worker[k].job
        /\ rec.phase = worker[k].phase /\ rec.failed = worker[k].failed
        /\ worker' = [worker EXCEPT ![k] = rec]
    <2>1. worker[k] \in Worker
      BY DEF IInv, TypeOK
    <2> QED
      BY <2>1 DEF Worker, LeaseLost, RenewError
  <1>2. /\ UNCHANGED <<account, files, blocklist, dirty, wipe, job, asking>>
        /\ worker[k].pc = "phases"
    BY DEF LeaseLost, RenewError
  <1>3. ~rec.failed => \A i \in 1..Len(Phases) :
                          i < rec.phase /\ Phases[i] \in dirty => Excused(k, Phases[i])
    BY <1>1, <1>2 DEF IInv, WorkerInv
  <1> HIDE DEF rec
  <1> QED
    BY <1>1, <1>2, <1>3, WorkerMoves

\* A phase, done, failed or skipped, preserves the invariant: what a worker
\* without a failure has passed is clean, and no phase makes a layer dirty.
LEMMA PhaseStep ==
  ASSUME IInv, NEW k \in Workers, PhaseDone(k) \/ PhaseFail(k) \/ PhaseSkip(k)
  PROVE  IInv'
  <1> DEFINE failed == [worker[k] EXCEPT !.phase = @ + 1, !.failed = TRUE]
             done == [worker[k] EXCEPT !.phase = @ + 1]
  <1>1. /\ worker[k] \in Worker /\ worker[k].pc = "phases" /\ worker[k].job \in Wipes
        /\ worker[k].phase \in 1..Len(Phases)
        /\ worker[k].phase + 1 \in 1..(Len(Phases) + 1)
    <2>1. worker[k] \in Worker
      BY DEF IInv, TypeOK
    <2>2. worker[k].phase \in 1..(Len(Phases) + 1)
      BY <2>1 DEF Worker
    <2>3. worker[k].pc = "phases" /\ worker[k].phase <= Len(Phases)
      BY DEF PhaseDone, PhaseFail, PhaseSkip, InPhase
    <2>4. worker[k].job \in Wipes
      BY <2>3 DEF IInv, WorkerInv
    <2> QED
      BY <2>1, <2>2, <2>3, <2>4, Records
  <1>2. CASE PhaseDone(k)
    <2>1. /\ done \in Worker /\ done.pc = "phases" /\ done.job = worker[k].job
          /\ done.phase = worker[k].phase + 1 /\ done.failed = worker[k].failed
      BY <1>1 DEF Worker
    <2>2. worker' = [worker EXCEPT ![k] = done]
      BY <1>2 DEF PhaseDone
    <2>3. /\ dirty' = dirty \ Deleted(k)
          /\ UNCHANGED <<account, files, blocklist, wipe, job, asking>>
      BY <1>2 DEF PhaseDone
    <2> HIDE DEF done
    <2>4. ASSUME ~done.failed, NEW i \in 1..Len(Phases), i < done.phase, Phases[i] \in dirty'
          PROVE  Excused(k, Phases[i])
      <3>1. i < worker[k].phase \/ i = worker[k].phase
        BY <1>1, <2>1, <2>4, Records
      <3>2. i < worker[k].phase => Excused(k, Phases[i])
        BY <1>1, <2>1, <2>3, <2>4 DEF IInv, WorkerInv
      <3>3. i = worker[k].phase => Excused(k, Phases[i])
        BY <2>3, <2>4 DEF Deleted, Excused
      <3> QED
        BY <3>1, <3>2, <3>3
    <2> QED
      BY <1>1, <2>1, <2>2, <2>3, <2>4, WorkerMoves
  <1>3. CASE PhaseFail(k) \/ PhaseSkip(k)
    <2>1. /\ failed \in Worker /\ failed.pc = "phases" /\ failed.job = worker[k].job
          /\ failed.failed
      BY <1>1 DEF Worker
    <2>2. worker' = [worker EXCEPT ![k] = failed]
      BY <1>3 DEF PhaseFail, PhaseSkip
    <2>3. /\ dirty' \subseteq dirty
          /\ UNCHANGED <<account, files, blocklist, wipe, job, asking>>
      BY <1>3 DEF PhaseFail, PhaseSkip
    <2> HIDE DEF failed
    <2> QED
      BY <1>1, <2>1, <2>2, <2>3, WorkerMoves
  <1> QED
    BY <1>2, <1>3

\* Decide preserves the invariant: a worker that goes on to erase the user row
\* has passed every phase, so a layer is clean or was not its to clean.
LEMMA DecideStep == ASSUME IInv, NEW k \in Workers, Decide(k) PROVE IInv'
  <1> DEFINE pc == IF worker[k].cancelled \/ worker[k].failed THEN "retry" ELSE "erase"
             rec == At(pc, worker[k].job)
  <1>1. /\ worker[k].pc = "phases" /\ worker[k].phase = Len(Phases) + 1
        /\ worker[k].job \in Wipes
        /\ worker' = [worker EXCEPT ![k] = rec]
        /\ UNCHANGED <<account, files, blocklist, dirty, wipe, job, asking>>
    BY DEF Decide, IInv, WorkerInv, TypeOK
  <1>2. rec \in Worker /\ rec.pc \in {"retry", "erase"} /\ rec.job = worker[k].job
    <2>1. 1 \in 1..(Len(Phases) + 1)
      BY Records
    <2> QED
      BY <1>1, <2>1 DEF At, Worker
  <1>3. rec.pc = "erase" => ~worker[k].failed
    BY DEF At
  <1> HIDE DEF pc, rec
  <1>4. ASSUME rec.pc = "erase", NEW p \in dirty PROVE Excused(k, p)
    <2>1. PICK i \in DOMAIN Phases : p = Phases[i]
      BY DEF IInv, TypeOK, Range
    <2>2. i \in 1..Len(Phases) /\ i < Len(Phases) + 1
      BY PhasesAssumption, Records
    <2> QED
      BY <1>1, <1>3, <1>4, <2>1, <2>2 DEF IInv, WorkerInv
  <1> QED
    BY <1>1, <1>2, <1>4, WorkerMoves

\* A worker that gives up its attempt, and goes on to schedule a retry or
\* dies, preserves the invariant.
LEMMA GiveUpStep ==
  ASSUME IInv, NEW k \in Workers,
         ErasureRolledBack(k) \/ ErasureObstructed(k) \/ FinishFails(k) \/ WorkerCrash(k)
  PROVE  IInv'
  <1>1. UNCHANGED <<account, files, blocklist, dirty, wipe, job, asking>>
    BY DEF ErasureRolledBack, ErasureObstructed, FinishFails, WorkerCrash
  <1>2. CASE WorkerCrash(k)
    <2>1. worker' = [worker EXCEPT ![k] = Idle]
      BY <1>2 DEF WorkerCrash
    <2> QED
      BY <1>1, <2>1, Records, WorkerMoves
  <1>3. CASE ErasureRolledBack(k) \/ ErasureObstructed(k) \/ FinishFails(k)
    <2>1. PICK rec \in Worker : /\ rec.pc = "retry" /\ rec.job = worker[k].job
                               /\ worker' = [worker EXCEPT ![k] = rec]
      BY <1>3, GotoRecord DEF IInv, ErasureRolledBack, ErasureObstructed, FinishFails
    <2>2. worker[k].pc # "idle"
      BY <1>3 DEF ErasureRolledBack, ErasureObstructed, FinishFails
    <2> QED
      BY <1>1, <2>1, <2>2, WorkerMoves
  <1> QED
    BY <1>2, <1>3

\* DeleteBlocklistKey preserves the invariant: the key is gone when the worker
\* reaches the deletion of its job.
LEMMA UnblockStep == ASSUME IInv, NEW k \in Workers, DeleteBlocklistKey(k) PROVE IInv'
  <1>1. PICK rec \in Worker : /\ rec.pc = "delete" /\ rec.job = worker[k].job
                             /\ worker' = [worker EXCEPT ![k] = rec]
    BY GotoRecord DEF IInv, DeleteBlocklistKey
  <1>2. worker[k].pc = "unblock" /\ ~user /\ \A p \in dirty : Excused(k, p)
    BY DEF IInv, WorkerInv, DeleteBlocklistKey
  <1>3. ~blocklist' /\ UNCHANGED <<account, files, dirty, wipe, job, asking>>
    BY DEF DeleteBlocklistKey
  <1>4. blocklist' \in {FALSE, blocklist}
    BY <1>3 DEF DeleteBlocklistKey
  <1> QED
    BY <1>1, <1>2, <1>3, <1>4, WorkerMoves

\* FinalErasure preserves the invariant, whether the worker learns of the
\* commit or not: every layer is clean, except that objects may be left for the
\* job that has their keys, and the marker goes with the row.
LEMMA EraseStep ==
  ASSUME IInv, NEW k \in Workers, FinalErasure(k) \/ FinalErasureUnknown(k)
  PROVE  IInv'
  <1>1. PICK pc \in {"unblock", "retry"} : Goto(k, pc)
    BY DEF FinalErasure, FinalErasureUnknown
  <1>2. PICK rec \in Worker : /\ rec.pc = pc /\ rec.job = worker[k].job
                             /\ worker' = [worker EXCEPT ![k] = rec]
    BY <1>1, GotoRecord DEF IInv
  <1>3. /\ worker[k].pc = "erase" /\ worker[k].job \in Wipes /\ Committed(worker[k].job)
        /\ \A p \in dirty : Excused(k, p)
    BY DEF FinalErasure, FinalErasureUnknown, IInv, WorkerInv
  <1>4. /\ ~user' /\ ~marker' /\ user' \in BOOLEAN /\ marker' \in BOOLEAN
        /\ UNCHANGED <<contacts, owned, keys, blocklist, dirty, wipe, job, asking>>
    BY DEF FinalErasure, FinalErasureUnknown, EraseUser, files
  <1>5. TypeOK'
    BY <1>2, <1>4 DEF IInv, TypeOK
  <1>6. JobInv'
    BY <1>4 DEF IInv, JobInv
  <1>7. WorkerInv'
    <2>1. \A i \in Workers : /\ worker'[i].job = worker[i].job
                             /\ worker'[i] = worker[i] \/ (i = k /\ worker'[i].pc = pc)
      BY <1>2 DEF IInv, TypeOK
    <2>2. \A i \in Workers : \A p \in dirty : Excused(i, p) => Excused(i, p)'
      BY <1>4, <2>1 DEF Excused
    <2> QED
      BY <1>1, <1>3, <1>4, <2>1, <2>2 DEF IInv, WorkerInv, Committed
  <1>8. WipedStaysWiped' /\ ErasedInv'
    BY <1>3, <1>4 DEF WipedStaysWiped, ErasedInv, Excused
  <1>9. BlocklistInv'
    BY <1>1, <1>2, <1>4 DEF IInv, TypeOK, BlocklistInv, Committed, Exists, Pending
  <1>10. KeysInv'
    BY <1>3, <1>4 DEF IInv, KeysInv, Committed, Exists
  <1> QED
    BY <1>5, <1>6, <1>7, <1>8, <1>9, <1>10 DEF IInv

\* DeleteJob preserves the invariant: it follows the erasure of the user row,
\* a blocklist key that is left belongs to a pending call, and objects that are
\* left are named by another job.
LEMMA DeleteJobStep == ASSUME IInv, NEW k \in Workers, DeleteJob(k) PROVE IInv'
  <1> DEFINE gone == [NoJob EXCEPT !.status = "deleted"]
             j == worker[k].job
  <1>1. gone \in Job /\ gone.status = "deleted" /\ gone.worker = None /\ ~gone.lease
    BY DEF NoJob, Job
  <1>2. /\ j \in Wipes /\ worker[k].pc = "delete" /\ ~user /\ ~marker
        /\ ObjectsPhase \in dirty => ~keys[j]
        /\ worker' = [worker EXCEPT ![k] = Idle]
        /\ UNCHANGED <<user, marker, contacts, owned, blocklist, dirty, wipe, asking>>
    BY DEF DeleteJob, account, IInv, WorkerInv, ErasedInv, Excused
  <1>3. \/ /\ job[j].worker = k
           /\ job' = [job EXCEPT ![j] = gone] /\ keys' = [keys EXCEPT ![j] = FALSE]
        \/ UNCHANGED <<job, keys>>
    BY DEF DeleteJob
  <1> HIDE DEF gone, j
  <1>4. /\ job' \in [Wipes -> Job] /\ keys' \in [Wipes -> BOOLEAN]
        /\ \A i \in Wipes :
             \/ job'[i] = job[i] /\ keys'[i] = keys[i]
             \/ i = j /\ job'[i] = gone /\ job[i].worker = k /\ ~keys'[i]
    BY <1>1, <1>2, <1>3 DEF IInv, TypeOK
  <1>5. k # None
    BY NoneAssumption
  <1>6. \A i \in Wipes : Committed(i) <=> Committed(i)'
    BY <1>1, <1>4, <1>5, Records DEF Committed, IInv, JobInv
  <1>7. TypeOK'
    BY <1>2, <1>4, Records DEF IInv, TypeOK
  <1>8. JobInv'
    BY <1>1, <1>2, <1>4, <1>5, Records DEF IInv, JobInv
  <1>9. WorkerInv'
    <2>1. \A i \in Workers : worker'[i] = worker[i] \/ (i = k /\ worker'[i] = Idle)
      BY <1>2 DEF IInv, TypeOK
    <2>2. \A i \in Workers : worker[i].pc # "idle" => \A p \in dirty :
             Excused(i, p) => p = ObjectsPhase /\ ~keys'[worker[i].job]
      BY <1>4 DEF Excused, IInv, WorkerInv
    <2>3. \A i \in Workers : worker'[i].pc # "idle" =>
             /\ worker'[i] = worker[i]
             /\ \A p \in dirty : Excused(i, p) => Excused(i, p)'
      BY <2>1, <2>2, Records DEF Excused
    <2> QED
      BY <1>2, <1>6, <2>3 DEF IInv, WorkerInv
  <1>10. WipedStaysWiped' /\ ErasedInv'
    BY <1>2 DEF WipedStaysWiped, ErasedInv, IInv
  <1>11. BlocklistInv'
    BY <1>2 DEF IInv, BlocklistInv, Pending
  <1>12. KeysInv'
    <2>1. ASSUME ObjectsPhase \in dirty, NEW i \in Wipes, Exists(i), keys[i]
          PROVE  Exists(i)' /\ keys'[i]
      BY <1>2, <1>4, <2>1 DEF Exists
    <2> QED
      BY <1>2, <1>4, <1>6, <2>1 DEF IInv, KeysInv
  <1> QED
    BY <1>7, <1>8, <1>9, <1>10, <1>11, <1>12 DEF IInv

\* ScheduleRetry preserves the invariant: the row it rewrites stays a job.
LEMMA RetryStep == ASSUME IInv, NEW k \in Workers, ScheduleRetry(k) PROVE IInv'
  <1> DEFINE again == [status |-> "retrying", due |-> FALSE, lease |-> FALSE, worker |-> None]
             j == worker[k].job
  <1>1. again \in Job /\ again.status = "retrying" /\ again.worker = None /\ ~again.lease
    BY DEF Job
  <1>2. /\ j \in Wipes
        /\ worker' = [worker EXCEPT ![k] = Idle]
        /\ job' = IF job[j].worker = k THEN [job EXCEPT ![j] = again] ELSE job
        /\ UNCHANGED <<user, marker, contacts, owned, keys, blocklist, dirty, wipe, asking>>
    BY DEF ScheduleRetry, RetryJob, account, files, IInv, WorkerInv
  <1> HIDE DEF again, j
  <1>3. k # None
    BY NoneAssumption
  <1>4. /\ job' \in [Wipes -> Job]
        /\ \A i \in Wipes : job'[i] = job[i]
                            \/ (/\ job'[i] = again /\ job[i].worker = k
                                /\ job[i].status = "processing")
    BY <1>1, <1>2, <1>3 DEF IInv, TypeOK, JobInv
  <1>5. TypeOK'
    BY <1>2, <1>4, Records DEF IInv, TypeOK
  <1>6. JobInv'
    BY <1>1, <1>2, <1>3, <1>4, Records DEF IInv, JobInv
  <1>7. WorkerInv'
    <2>1. \A i \in Workers : worker'[i] = worker[i] \/ worker'[i] = Idle
      BY <1>2 DEF IInv, TypeOK
    <2>2. \A i \in Wipes : Committed(i) => Committed(i)'
      BY <1>1, <1>4 DEF Committed
    <2>3. \A i \in Workers : worker'[i].pc # "idle" =>
             /\ worker'[i] = worker[i]
             /\ \A p \in dirty : Excused(i, p) => Excused(i, p)'
      BY <1>2, <2>1, Records DEF Excused
    <2> QED
      BY <1>2, <2>2, <2>3 DEF IInv, WorkerInv
  <1>8. \A i \in Wipes : (Committed(i)' <=> Committed(i)) /\ (Exists(i)' <=> Exists(i))
    BY <1>1, <1>4 DEF Committed, Exists
  <1>9. WipedStaysWiped' /\ ErasedInv' /\ KeysInv'
    BY <1>2, <1>8 DEF IInv, WipedStaysWiped, ErasedInv, KeysInv
  <1>10. BlocklistInv'
    BY <1>2, <1>8, Records DEF IInv, TypeOK, BlocklistInv, Pending
  <1> QED
    BY <1>5, <1>6, <1>7, <1>9, <1>10 DEF IInv

-----------------------------------------------------------------------------
\* Every step preserves the invariant.
LEMMA Invariance == IInv /\ [Next]_vars => IInv'
  <1> SUFFICES ASSUME IInv, [Next]_vars PROVE IInv'
    OBVIOUS
  <1>1. CASE UNCHANGED vars
    <2>1. TypeOK' /\ JobInv' /\ WorkerInv'
      BY <1>1, WorkersStay DEF IInv, TypeOK, JobInv, Committed, vars
    <2>2. WipedStaysWiped' /\ ErasedInv' /\ KeysInv' /\ BlocklistInv'
      BY <1>1 DEF IInv, WipedStaysWiped, ErasedInv, KeysInv, BlocklistInv,
                  Committed, Exists, Pending, vars
    <2> QED
      BY <2>1, <2>2 DEF IInv
  <1>2. ASSUME NEW w \in Wipes, Proceed(w) PROVE IInv'
    BY <1>2, SetBlocklistStep, CaptureFileKeysStep, CommitStep, WipeErrorStep,
       UndoBlocklistStep DEF Proceed
  <1>3. ASSUME NEW j \in Wipes, RetryDue(j) \/ LeaseLapse(j) PROVE IInv'
    BY <1>3, TimeStep
  <1>4. ASSUME NEW k \in Workers, Work(k) PROVE IInv'
    BY <1>4, ClaimStep, CancelStep, PhaseStep, DecideStep, EraseStep, GiveUpStep,
       UnblockStep, DeleteJobStep, RetryStep DEF Work
  <1>5. CASE Fault
    <2>1. ASSUME NEW w \in Wipes, WipeCommitUnknown(w) \/ WipeError(w) \/ WipeStranded(w)
          PROVE  IInv'
      BY <2>1, CommitStep, WipeErrorStep, WipeStrandedStep
    <2>2. ASSUME NEW k \in Workers,
                 \/ RenewError(k) \/ PhaseFail(k) \/ FinalErasureUnknown(k)
                 \/ FinishFails(k) \/ WorkerCrash(k) \/ ErasureRolledBack(k)
          PROVE  IInv'
      BY <2>2, CancelStep, PhaseStep, EraseStep, GiveUpStep
    <2> QED
      BY <1>5, <2>1, <2>2 DEF Fault
  <1>6. CASE BlocklistExpire
    BY <1>6, BlocklistExpireStep
  <1>7. ASSUME NEW o \in Others, Contact(o) PROVE IInv'
    BY <1>7, ContactStep
  <1> QED
    BY <1>1, <1>2, <1>3, <1>4, <1>5, <1>6, <1>7 DEF Next

\* The invariant holds in every reachable state.
LEMMA Inductive == Spec => []IInv
  BY InitIInv, Invariance, PTL DEF Spec

-----------------------------------------------------------------------------
(***************************************************************************)
(* The theorems                                                            *)
(***************************************************************************)

\* Every variable keeps its type (panicwipe.go, wipejob.go): a worker never
\* runs past its last phase and job rows keep a legal status.
THEOREM TypeCorrect == Spec => []TypeOK
  BY Inductive, PTL DEF IInv

\* An account with a committed wipe keeps the marker and a job until its user
\* row is erased, whatever concurrent PanicWipe calls, lost answers, stale
\* workers and crashes do.
THEOREM MarkedUntilErased == Spec => []WipedStaysWiped
  BY Inductive, PTL DEF IInv

\* processOneJob erases the user row only when every storage layer is clean,
\* except for objects that the keys in a job that still exists name: no number
\* of PanicWipe calls makes the erasure forget one.
THEOREM LeftoversStayNamed == Spec => []LeftoversNamed
  <1>1. IInv => LeftoversNamed
    BY DEF IInv, TypeOK, ErasedInv, KeysInv, LeftoversNamed
  <1> QED
    BY <1>1, Inductive, PTL

\* When every job is deleted and no PanicWipe call is pending or was cut
\* short, no user row, marker, blocklist key or stored data is left.
THEOREM NoFootprint == Spec => []ZeroFootprint
  <1>1. IInv => ZeroFootprint
    BY DEF IInv, TypeOK, WipedStaysWiped, ErasedInv, KeysInv, BlocklistInv,
           ZeroFootprint, Pending
  <1> QED
    BY <1>1, Inductive, PTL

\* The worker_id guards of wipejob.go: while a worker holds a live lease,
\* no other worker changes the row of its job.
THEOREM LeaseGuardsJob == Spec => StaleWorkerHarmless
  <1> DEFINE Safe == \A j \in Wipes : \A k \in Workers :
               job[j].lease /\ job[j].worker = k /\ job'[j] # job[j] =>
                  worker'[k] # worker[k] \/ job'[j] = [job[j] EXCEPT !.lease = FALSE]
  <1>1. IInv /\ [Next]_vars => [Safe]_vars
    <2> SUFFICES ASSUME IInv, Next, NEW j \in Wipes, NEW k \in Workers,
                        job[j].lease, job[j].worker = k, job'[j] # job[j]
                 PROVE  worker'[k] # worker[k] \/ job'[j] = [job[j] EXCEPT !.lease = FALSE]
      OBVIOUS
    <2>1. /\ job \in [Wipes -> Job] /\ worker \in [Workers -> Worker]
          /\ job[j].status = "processing" /\ k # None
      BY NoneAssumption DEF IInv, TypeOK, JobInv
    <2>2. ASSUME NEW w \in Wipes, CommitTransaction(w), wipe[w] = "captured" PROVE FALSE
      <3>1. job[w].lease = FALSE
        BY <2>2, Records DEF IInv, JobInv
      <3> QED
        BY <2>1, <2>2, <3>1 DEF CommitTransaction
    <2>3. ASSUME NEW i \in Workers, NEW w \in Wipes, Claim(i, w) PROVE FALSE
      BY <2>1, <2>3 DEF Claim, Claimable
    <2>4. ASSUME NEW i \in Workers, DeleteJob(i) \/ ScheduleRetry(i) PROVE worker'[k] # worker[k]
      <3>1. i = k
        BY <2>1, <2>4 DEF DeleteJob, ScheduleRetry, RetryJob, IInv, WorkerInv
      <3> QED
        BY <2>1, <2>4, <3>1, Records DEF DeleteJob, ScheduleRetry
    <2>5. ASSUME NEW w \in Wipes, RetryDue(w) PROVE FALSE
      BY <2>1, <2>5 DEF RetryDue
    <2>6. ASSUME NEW w \in Wipes, LeaseLapse(w)
          PROVE  job'[j] = [job[j] EXCEPT !.lease = FALSE]
      BY <2>1, <2>6 DEF LeaseLapse
    <2>7. CASE job' = job
      BY <2>7
    <2>8. ASSUME NEW w \in Wipes, Proceed(w) PROVE FALSE
      BY <2>2, <2>8 DEF Proceed, SetBlocklist, CaptureFileKeys, WipeCommit, WipeNoUser,
                        UndoBlocklist
    <2>9. ASSUME NEW i \in Workers, Work(i) PROVE worker'[k] # worker[k]
      BY <2>3, <2>4, <2>9 DEF Work, LeaseLost, PhaseDone, PhaseSkip, Decide, FinalErasure,
           ErasureObstructed, DeleteBlocklistKey
    <2>10. ~Fault
      <3>1. ASSUME NEW w \in Wipes, WipeCommitUnknown(w) PROVE FALSE
        BY <2>2, <3>1 DEF WipeCommitUnknown
      <3> QED
        BY <3>1 DEF Fault, WipeError, WipeStranded, RenewError, PhaseFail,
             FinalErasureUnknown, FinishFails, WorkerCrash, ErasureRolledBack
    <2>11. ASSUME NEW o \in Others, Contact(o) PROVE FALSE
      BY <2>11 DEF Contact, AskContact, AddContact, BlockContact, RemoveContact
    <2>12. ~BlocklistExpire
      BY DEF BlocklistExpire
    <2> QED
      BY <2>5, <2>6, <2>8, <2>9, <2>10, <2>11, <2>12 DEF Next
  <1>2. Spec => [][Safe]_vars
    BY <1>1, Inductive, PTL DEF Spec
  <1> QED
    BY <1>2 DEF StaleWorkerHarmless
=============================================================================
