---------------------------- MODULE PrekeyBundles ----------------------------
(***************************************************************************)
(* key-service: the prekey bundle and the one-time prekeys of one account,  *)
(* fetched by anonymous callers at once, uploaded and re-uploaded by the    *)
(* owner, and deleted by the owner's panic wipe.  A handler is interrupted  *)
(* between its statements; the statement that consumes a key is interrupted *)
(* between its snapshot, the row lock and the commit.                       *)
(***************************************************************************)
EXTENDS Naturals, FiniteSets

CONSTANTS
    MaxKey,      \* key ids are 1 .. MaxKey
    Fetches,     \* GET requests
    Uploads,     \* POST requests
    FetchLimit   \* bundleFetchRateLimit, of one caller and window

ASSUME PrekeysAssumption == MaxKey \in Nat \ {0} /\ FetchLimit \in Nat

VARIABLES
    prekey,   \* one_time_prekeys
    bundle,   \* whether prekey_bundles has the owner's row
    holder,   \* the owner's users row and wiped_accounts marker
    fetch,    \* GET requests: step, snapshot of the unused keys, key locked
    upload,   \* POST requests: step and batch
    hits      \* the caller's counter of the window

prekeyVars == <<prekey, bundle, holder, fetch, upload, hits>>

Keys == 1 .. MaxKey

Fetch == [pc : {"new", "admitted", "found", "consuming", "locked", "answered", "lost", "failed"},
          snap : SUBSET Keys, key : 0 .. MaxKey]
Upload == [pc : {"new", "authorized", "verified", "adding", "done"}, batch : SUBSET Keys]

PrekeysTypeOK ==
    /\ prekey \in [Keys -> {"absent", "unused", "used"}]
    /\ bundle \in BOOLEAN
    /\ holder \in {"live", "marked", "gone"}
    /\ fetch \in [Fetches -> Fetch]
    /\ upload \in [Uploads -> Upload]
    /\ hits \in 0 .. FetchLimit + 1

PrekeysInit ==
    /\ prekey = [k \in Keys |-> "absent"]
    /\ bundle = FALSE
    /\ holder = "live"
    /\ fetch = [f \in Fetches |-> [pc |-> "new", snap |-> {}, key |-> 0]]
    /\ upload = [u \in Uploads |-> [pc |-> "new", batch |-> {}]]
    /\ hits = 0

Unused == {k \in Keys : prekey[k] = "unused"}
Locked == {fetch[f].key : f \in {g \in Fetches : fetch[g].pc = "locked"}}

-----------------------------------------------------------------------------
\* bundleRateLimitScript counts the request before a key can be consumed; the
\* limiter may also fail.  (A counter over the limit is as good as any other.)
AdmitFetch(f) ==
    /\ fetch[f].pc = "new"
    /\ hits' = IF hits > FetchLimit THEN hits ELSE hits + 1
    /\ \/ hits < FetchLimit /\ fetch' = [fetch EXCEPT ![f].pc = "admitted"]
       \/ fetch' = [fetch EXCEPT ![f].pc = "failed"]
    /\ UNCHANGED <<prekey, bundle, holder, upload>>

WindowEnds ==
    /\ hits > 0
    /\ hits' = 0
    /\ UNCHANGED <<prekey, bundle, holder, fetch, upload>>

\* GetBundle's first statement; ErrBundleNotFound.
SelectBundle(f) ==
    /\ fetch[f].pc = "admitted"
    /\ fetch' = [fetch EXCEPT ![f].pc = IF bundle THEN "found" ELSE "failed"]
    /\ UNCHANGED <<prekey, bundle, holder, upload, hits>>

\* qConsumeOneTimePrekey takes its snapshot.
ConsumeBegin(f) ==
    /\ fetch[f].pc = "found"
    /\ fetch' = [fetch EXCEPT ![f].pc = "consuming", ![f].snap = Unused]
    /\ UNCHANGED <<prekey, bundle, holder, upload, hits>>

\* Mutant: a row that was consumed since the snapshot is locked all the same.
PickableStale(snap) == snap \ Locked

\* FOR UPDATE SKIP LOCKED: rows of the snapshot that nobody holds and that
\* still match used = false.
Pickable(snap) == (snap \ Locked) \intersect Unused

\* ORDER BY key_id LIMIT 1; without a key the bundle is served all the same.
PickKey(f) ==
    LET free == Pickable(fetch[f].snap) IN
    /\ fetch[f].pc = "consuming"
    /\ fetch' = [fetch EXCEPT ![f] =
                   IF free = {} THEN [@ EXCEPT !.pc = "answered", !.snap = {}]
                   ELSE [pc |-> "locked", snap |-> {},
                         key |-> CHOOSE k \in free : \A x \in free : k <= x]]
    /\ UNCHANGED <<prekey, bundle, holder, upload, hits>>

\* SET used = true commits; the row reaches GetBundle, or an error does: the
\* 5 s limit or the connection ends between the commit and its reply.
MarkUsed(f) ==
    /\ fetch[f].pc = "locked"
    /\ prekey' = [prekey EXCEPT ![fetch[f].key] = "used"]
    /\ \E pc \in {"answered", "lost"} : fetch' = [fetch EXCEPT ![f].pc = pc]
    /\ UNCHANGED <<bundle, holder, upload, hits>>

\* The 5 s limit or a database error before the commit.
FetchFails(f) ==
    /\ fetch[f].pc \in {"admitted", "found", "consuming", "locked"}
    /\ fetch' = [fetch EXCEPT ![f] = [pc |-> "failed", snap |-> {}, key |-> 0]]
    /\ UNCHANGED <<prekey, bundle, holder, upload, hits>>

-----------------------------------------------------------------------------
\* BearerAuth and Validate; POST /prekeys has only the batch to add.
AuthorizeUpload(u, S) ==
    /\ upload[u].pc = "new" /\ holder = "live"
    /\ \E pc \in {"authorized", "adding"} :
         upload' = [upload EXCEPT ![u] = [pc |-> pc, batch |-> S]]
    /\ UNCHANGED <<prekey, bundle, holder, fetch, hits>>

\* fetchRegisteredIdentityKey: the row is gone, the lookup fails or the key is
\* another one.
VerifyIdentity(u) ==
    /\ upload[u].pc = "authorized"
    /\ \/ holder # "gone" /\ upload' = [upload EXCEPT ![u].pc = "verified"]
       \/ upload' = [upload EXCEPT ![u].pc = "done"]
    /\ UNCHANGED <<prekey, bundle, holder, fetch, hits>>

\* A foreign key refuses the row of an erased account.
UpsertBundle(u) ==
    /\ upload[u].pc = "verified"
    /\ \/ /\ holder # "gone"
          /\ bundle' = TRUE
          /\ upload' = [upload EXCEPT ![u].pc = "adding"]
       \/ upload' = [upload EXCEPT ![u].pc = "done"] /\ UNCHANGED bundle
    /\ UNCHANGED <<prekey, holder, fetch, hits>>

\* The batch in one statement, ON CONFLICT DO NOTHING.
AddOneTimePrekeys(u) ==
    /\ upload[u].pc = "adding"
    /\ upload' = [upload EXCEPT ![u].pc = "done"]
    /\ \/ /\ holder # "gone"
          /\ prekey' = [k \in Keys |-> IF k \in upload[u].batch /\ prekey[k] = "absent"
                                       THEN "unused" ELSE prekey[k]]
       \/ UNCHANGED prekey
    /\ UNCHANGED <<bundle, holder, fetch, hits>>

\* CountUnusedPrekeys, which the client replenishes by.
CountUnusedPrekeys == Cardinality(Unused)

\* The wipe transaction's two DELETEs, which wait for locked rows.
WipePrekeys ==
    /\ holder = "live" /\ Locked = {}
    /\ holder' = "marked"
    /\ prekey' = [k \in Keys |-> "absent"]
    /\ bundle' = FALSE
    /\ UNCHANGED <<fetch, upload, hits>>

\* DELETE FROM users: one_time_prekeys cascades, prekey_bundles forbids it.
EraseHolder ==
    /\ holder = "marked" /\ ~bundle /\ Locked = {}
    /\ holder' = "gone"
    /\ prekey' = [k \in Keys |-> "absent"]
    /\ UNCHANGED <<bundle, fetch, upload, hits>>

PrekeysNext ==
    \/ \E f \in Fetches : \/ AdmitFetch(f) \/ SelectBundle(f) \/ ConsumeBegin(f)
                          \/ PickKey(f) \/ MarkUsed(f) \/ FetchFails(f)
    \/ \E u \in Uploads : \/ \E S \in SUBSET Keys : AuthorizeUpload(u, S)
                          \/ VerifyIdentity(u) \/ UpsertBundle(u) \/ AddOneTimePrekeys(u)
    \/ WindowEnds \/ WipePrekeys \/ EraseHolder

PrekeysSpec == PrekeysInit /\ [][PrekeysNext]_prekeyVars

-----------------------------------------------------------------------------
(***************************************************************************)
(* Properties                                                              *)
(***************************************************************************)

Took(k) == {f \in Fetches : fetch[f].pc \in {"answered", "lost"} /\ fetch[f].key = k}

\* "two concurrent calls produce two different OPKs, never the same one"
\* (qConsumeOneTimePrekey): while the account lives, a key is used exactly when
\* one and only one fetch has consumed it, although fetches overlap, fail
\* half-way and uploads are repeated.  The fetch that consumed it served it, or
\* lost the reply to its commit; a key burnt so is served to nobody else, and
\* no other way of failing burns one.
KeyServedOnce ==
    holder = "live" =>
        \A k \in Keys : Cardinality(Took(k)) = IF prekey[k] = "used" THEN 1 ELSE 0

=============================================================================
