----------------------------- MODULE OutboxFetch -----------------------------
(***************************************************************************)
(* The outbox worker of message-service: which of the rows that await a    *)
(* delivery runOutboxWorker publishes again, and when.  The rows lie in    *)
(* buckets, each with a page of direct and a page of group messages.  One  *)
(* fetch visits the buckets in turn and reads both pages of each, from the *)
(* cursor the last read of the page left; a bucket has a share of the      *)
(* fetch, which its two pages share.  Rows come and go between the reads,  *)
(* and between the fetch and the attempt to deliver what it returned.      *)
(*                                                                         *)
(* What a row is worth to its recipient is the matter of DurableIngest.    *)
(***************************************************************************)
EXTENDS Naturals, FiniteSets, FiniteSetsExt

CONSTANTS
    BucketCount,  \* outboxBucketCount
    FetchMax,     \* maxPendingOutboxFetch, the limit of a fetch
    Entries,      \* rows that may be written: bucket, kind, and place in the
                  \* order of (created_at, message_id)
    Expiring,     \* those of messages that expire
    MaxFaults     \* bound on failed reads and restarts of the process

Buckets == 0 .. BucketCount - 1
Kinds == {"direct", "group"}

ASSUME FetchAssumption ==
    /\ BucketCount \in Nat \ {0}
    /\ FetchMax \in Nat \ {0}
    /\ IsFiniteSet(Entries)
    /\ Entries \subseteq [bucket : Buckets, kind : Kinds, at : Nat \ {0}]
    /\ Expiring \subseteq Entries
    /\ MaxFaults \in Nat

VARIABLES
    pending,   \* message_outbox and group_message_outbox
    lapsed,    \* rows past expires_at; Scylla evicts them a little later
    pages,     \* pendingOutboxCursor.pages: the place of the last row, or 0
    nextStart, \* pendingOutboxCursor.next
    fetcher,   \* the goroutine of runOutboxWorker
    attempted, \* rows delivered, or tried in vain, since the tick
    faults     \* failed reads and restarts

recoveryVars == <<pending, lapsed, pages, nextStart, fetcher, attempted, faults>>

Pages == Buckets \X Kinds
PageOf(e) == <<e.bucket, e.kind>>

\* start, offset, index, bucketRemaining and result of fetch(); while it drains,
\* got is what drainPendingOutbox has not come to.
Fetcher == [pc : {"reading", "draining"}, start : Buckets, offset : 0 .. BucketCount,
            index : 0 .. 1, left : Nat, got : SUBSET Entries]

Resting == [pc |-> "draining", start |-> 0, offset |-> 0, index |-> 0, left |-> 0, got |-> {}]

RecoveryTypeOK ==
    /\ pending \subseteq Entries
    /\ lapsed \subseteq Expiring
    /\ pages \in [Pages -> Nat]
    /\ nextStart \in Buckets
    /\ fetcher \in Fetcher
    /\ attempted \subseteq Entries
    /\ faults \in 0 .. MaxFaults

RecoveryInit ==
    /\ pending = {}
    /\ lapsed = {}
    /\ pages = [p \in Pages |-> 0]
    /\ nextStart = 0
    /\ fetcher = Resting
    /\ attempted = {}
    /\ faults = 0

-----------------------------------------------------------------------------
(***************************************************************************)
(* The rows                                                                *)
(***************************************************************************)

\* WriteBatch: the place is that of the claim, not of the write, so a row may
\* appear behind the cursor.  What has expired is not written.
WriteEntry(e) ==
    /\ e \notin pending \union lapsed
    /\ pending' = pending \union {e}
    /\ UNCHANGED <<lapsed, pages, nextStart, fetcher, attempted, faults>>

Lapse(e) ==
    /\ e \in (pending \intersect Expiring) \ lapsed
    /\ lapsed' = lapsed \union {e}
    /\ UNCHANGED <<pending, pages, nextStart, fetcher, attempted, faults>>

\* MarkDelivered, the erasure of an account or the TTL deletes a row.
RemoveEntry(e) ==
    /\ e \in pending
    /\ pending' = pending \ {e}
    /\ UNCHANGED <<lapsed, pages, nextStart, fetcher, attempted, faults>>

EvictLapsed(e) == e \in lapsed /\ RemoveEntry(e)

-----------------------------------------------------------------------------
(***************************************************************************)
(* A fetch                                                                 *)
(***************************************************************************)

\* The ticker of runOutboxWorker; a tick that comes during a drain waits.
DrainTick ==
    /\ fetcher.pc = "draining"
    /\ fetcher.got = {}
    /\ fetcher' = [Resting EXCEPT !.pc = "reading", !.start = nextStart]
    /\ nextStart' = IF nextStart + 1 = BucketCount THEN 0 ELSE nextStart + 1
    /\ attempted' = {}
    /\ UNCHANGED <<pending, lapsed, pages, faults>>

\* perBucket, rounded up: the shares of all buckets may exceed the fetch.
PerBucket == (FetchMax + BucketCount - 1) \div BucketCount

\* (start + offset) % outboxBucketCount.
Bucket == LET b == fetcher.start + fetcher.offset
          IN IF b < BucketCount THEN b ELSE b - BucketCount

\* Odd buckets read their group page first.
Page == <<Bucket, IF (Bucket % 2 = 0) <=> (fetcher.index = 0) THEN "direct" ELSE "group">>

\* Mutant: each page has the whole share.
BucketRemainingOfKind == PerBucket

\* bucketRemaining, which the second page shares with the first.
BucketRemaining == IF fetcher.index = 0 THEN PerBucket ELSE fetcher.left

FetchLimit == Min({BucketRemaining, FetchMax - Cardinality(fetcher.got)})

\* SELECT ... WHERE (created_at, message_id) > cursor LIMIT n.
FirstAfter(p, n) ==
    LET later == {e \in pending : PageOf(e) = p /\ e.at > pages[p]}
    IN {e \in later : Cardinality({f \in later : f.at < e.at}) < n}

\* Mutant: the cursor stays at the end of its page.
CursorKept(found) == IF found = {} THEN pages[Page] ELSE Max({e.at : e \in found})

\* After a page without rows the next read of the page begins at its start.
CursorAfter(found) == IF found = {} THEN 0 ELSE Max({e.at : e \in found})

NextPage(remaining) ==
    IF fetcher.index = 0
    THEN [fetcher EXCEPT !.index = 1, !.left = remaining]
    ELSE [fetcher EXCEPT !.index = 0, !.offset = @ + 1]

\* fetchDirectBucket or fetchGroupBucket; rows that have expired count towards
\* the LIMIT and are left out.
ReadPage ==
    /\ fetcher.pc = "reading"
    /\ fetcher.offset < BucketCount
    /\ FetchLimit > 0
    /\ LET found == FirstAfter(Page, FetchLimit) \ lapsed IN
           /\ pages' = [pages EXCEPT ![Page] = CursorAfter(found)]
           /\ fetcher' = [NextPage(BucketRemaining - Cardinality(found))
                          EXCEPT !.got = fetcher.got \union found]
    /\ UNCHANGED <<pending, lapsed, nextStart, attempted, faults>>

\* The first page has used up the share, or the fetch.
LeaveBucket ==
    /\ fetcher.pc = "reading"
    /\ fetcher.index = 1
    /\ FetchLimit = 0
    /\ fetcher' = NextPage(0)
    /\ UNCHANGED <<pending, lapsed, pages, nextStart, attempted, faults>>

ReturnBatch ==
    /\ fetcher.pc = "reading"
    /\ fetcher.index = 0
    /\ fetcher.offset = BucketCount \/ Cardinality(fetcher.got) = FetchMax
    /\ fetcher' = [fetcher EXCEPT !.pc = "draining"]
    /\ UNCHANGED <<pending, lapsed, pages, nextStart, attempted, faults>>

\* One failed read fails the fetch; the cursors of the pages read stay moved.
ReadFails ==
    /\ fetcher.pc = "reading"
    /\ fetcher.offset < BucketCount
    /\ FetchLimit > 0
    /\ faults < MaxFaults
    /\ faults' = faults + 1
    /\ fetcher' = Resting
    /\ UNCHANGED <<pending, lapsed, pages, nextStart, attempted>>

\* deliverOutboxEntry, whose error or timeout drainPendingOutbox ignores; the
\* row may be gone.
Attempt(e) ==
    /\ fetcher.pc = "draining"
    /\ e \in fetcher.got
    /\ fetcher' = [fetcher EXCEPT !.got = @ \ {e}]
    /\ attempted' = attempted \union {e}
    /\ UNCHANGED <<pending, lapsed, pages, nextStart, faults>>

\* The cursors are in memory only.
FetcherRestart ==
    /\ faults < MaxFaults
    /\ faults' = faults + 1
    /\ pages' = [p \in Pages |-> 0]
    /\ nextStart' = 0
    /\ fetcher' = Resting
    /\ UNCHANGED <<pending, lapsed, attempted>>

-----------------------------------------------------------------------------
FetcherStep ==
    \/ DrainTick
    \/ ReadPage \/ LeaveBucket \/ ReturnBatch
    \/ \E e \in Entries : Attempt(e)

RecoveryNext ==
    \/ \E e \in Entries : WriteEntry(e) \/ Lapse(e) \/ RemoveEntry(e)
    \/ FetcherStep
    \/ ReadFails \/ FetcherRestart

\* No row must be deleted but one that has expired.
RecoveryFairness ==
    /\ WF_recoveryVars(FetcherStep)
    /\ \A e \in Entries : WF_recoveryVars(EvictLapsed(e))

RecoverySpec == RecoveryInit /\ [][RecoveryNext]_recoveryVars /\ RecoveryFairness

-----------------------------------------------------------------------------
(***************************************************************************)
(* Properties                                                              *)
(***************************************************************************)

GotFrom(b) == {e \in fetcher.got : e.bucket = b}

\* No bucket takes more than its share of a fetch, its direct and its group
\* rows together, and the fetch keeps its limit: a bucket full of rows that
\* nobody can deliver leaves room for those visited after it
\* (outboxFetchCursor.fetch).
SharesKept ==
    /\ Cardinality(fetcher.got) <= FetchMax
    /\ \A b \in Buckets : Cardinality(GotFrom(b)) <= PerBucket

\* A row that stays in the outbox gets its turn again and again, whatever rows
\* of its page, of the other kind and of other buckets cannot be delivered:
\* the cursors, the shared budget and the rotation starve none
\* (outboxFetchCursor.fetch, runOutboxWorker).
TurnsComeAgain ==
    \A e \in Entries : []<>(e \notin pending \ lapsed \/ e \in attempted)
=============================================================================
