-------------------------- MODULE AccountDataProofs --------------------------
(***************************************************************************)
(* Proofs about the services that keep an account's data, for any number of *)
(* requests, keys and objects: one-time prekeys (PrekeyBundles), files      *)
(* (FileObjects), the credentials of a wipe (WipeCredentials) and message   *)
(* history (MessageHistory).                                                *)
(***************************************************************************)
EXTENDS PrekeyBundles, FileObjects, WipeCredentials, MessageHistory,
        FiniteSetTheorems, WellFoundedInduction, TLAPS

(***************************************************************************)
(* Lemmas about numbers                                                    *)
(***************************************************************************)

\* What CHOOSE picks as the least of a nonempty set of naturals is its least.
LEMMA LeastExists ==
    ASSUME NEW S, S \subseteq Nat, S # {}
    PROVE  \E x \in S : \A y \in S : x <= y
  <1>1. PICK x \in S : \A y \in S : ~ (<<y, x>> \in OpToRel(<, Nat))
    BY WFMin, NatLessThanWellFounded
  <1>2. \A y \in S : ~ (y < x)
    BY <1>1 DEF OpToRel
  <1> QED
    BY <1>2

\* A non-empty set of numbers with an upper bound has a greatest one.
LEMMA GreatestExists ==
    ASSUME NEW S, S \subseteq Nat, S # {}, NEW b \in Nat, \A x \in S : x <= b
    PROVE  \E x \in S : \A y \in S : y <= x
  <1> DEFINE D == {d \in Nat : b - d \in S}
  <1>1. D # {}
    <2>1. PICK x \in S : TRUE
      OBVIOUS
    <2>2. b - x \in Nat /\ b - (b - x) = x
      BY <2>1
    <2> QED
      BY <2>1, <2>2
  <1>2. PICK d \in D : \A e \in D : d <= e
    BY <1>1, LeastExists
  <1>3. \A y \in S : y <= b - d
    <2> TAKE y \in S
    <2>1. b - y \in Nat /\ b - (b - y) = y
      OBVIOUS
    <2>2. b - y \in D
      BY <2>1
    <2> QED
      BY <1>2, <2>1, <2>2
  <1> QED
    BY <1>2, <1>3

-----------------------------------------------------------------------------
(***************************************************************************)
(* PrekeyBundles                                                           *)
(***************************************************************************)

\* The statement of the fetch has committed, or found no key to consume.
Consumed(f) == fetch[f].pc \in {"answered", "lost"}

\* A fetch names a key only from the row lock on, and then one that exists.
FetchKeys ==
    \A f \in Fetches :
        fetch[f].key # 0 => fetch[f].pc = "locked" \/ Consumed(f)

\* A locked key is unused, and locked once.
LocksExclusive ==
    /\ \A f \in Fetches : fetch[f].pc = "locked" =>
          fetch[f].key # 0 /\ prekey[fetch[f].key] = "unused"
    /\ \A f, g \in Fetches :
          fetch[f].pc = "locked" /\ fetch[g].pc = "locked" /\ fetch[f].key = fetch[g].key
             => f = g

\* The used keys are those that were taken, each by one fetch.
UsedIsTaken ==
    holder = "live" =>
        /\ \A k \in Keys :
              prekey[k] = "used" <=>
                 \E f \in Fetches : Consumed(f) /\ fetch[f].key = k
        /\ \A f, g \in Fetches :
              Consumed(f) /\ Consumed(g) /\ fetch[f].key = fetch[g].key /\ fetch[f].key # 0
                 => f = g

PrekeysInv == PrekeysTypeOK /\ FetchKeys /\ LocksExclusive /\ UsedIsTaken

\* No key is stored, taken or served at the start.
LEMMA PrekeysInitInv ==
    ASSUME PrekeysInit
    PROVE  PrekeysInv
  <1>1. PrekeysTypeOK
    <2>1. 0 \in 0 .. MaxKey /\ 0 \in 0 .. FetchLimit + 1
      BY PrekeysAssumption
    <2>2. fetch \in [Fetches -> Fetch] /\ upload \in [Uploads -> Upload]
      BY <2>1 DEF PrekeysInit, Fetch, Upload
    <2> QED
      BY <2>1, <2>2 DEF PrekeysInit, PrekeysTypeOK
  <1>2. FetchKeys /\ LocksExclusive /\ UsedIsTaken
    BY DEF PrekeysInit, Consumed, FetchKeys, LocksExclusive, UsedIsTaken
  <1> QED
    BY <1>1, <1>2 DEF PrekeysInv

\* A step of a fetch that locks and consumes nothing: it goes on without a key.
LEMMA KeylessStep ==
    ASSUME PrekeysInv, NEW f \in Fetches, ~ Consumed(f),
           NEW r \in Fetch, r.key = 0, r.pc # "locked",
           fetch' = [fetch EXCEPT ![f] = r], hits' \in 0 .. FetchLimit + 1,
           UNCHANGED <<prekey, bundle, holder, upload>>
    PROVE  PrekeysInv'
  <1>1. /\ fetch'[f] = r
        /\ \A g \in Fetches \ {f} : fetch'[g] = fetch[g]
    BY DEF PrekeysInv, PrekeysTypeOK
  <1>2. PrekeysTypeOK'
    BY DEF PrekeysInv, PrekeysTypeOK
  <1>3. FetchKeys' /\ LocksExclusive'
    BY <1>1 DEF PrekeysInv, Consumed, FetchKeys, LocksExclusive
  <1>4. UsedIsTaken'
    BY <1>1 DEF PrekeysInv, Consumed, UsedIsTaken, Keys
  <1> QED
    BY <1>2, <1>3, <1>4 DEF PrekeysInv

\* PickKey locks a key that nobody holds and that is still unused.
LEMMA PickKeyStep ==
    ASSUME PrekeysInv, NEW f \in Fetches, PickKey(f)
    PROVE  PrekeysInv'
  <1> DEFINE free == Pickable(fetch[f].snap)
             least == CHOOSE k \in free : \A x \in free : k <= x
  <1>1. CASE free = {}
    <2> DEFINE r == [fetch[f] EXCEPT !.pc = "answered", !.snap = {}]
    <2>1. fetch[f] \in Fetch /\ fetch[f].pc = "consuming" /\ fetch[f].key = 0
      BY DEF PickKey, PrekeysInv, PrekeysTypeOK, Consumed, FetchKeys
    <2>2. r \in Fetch /\ r.key = 0 /\ r.pc # "locked"
      BY <2>1 DEF Fetch
    <2>3. fetch' = [fetch EXCEPT ![f] = r]
      BY <1>1 DEF PickKey
    <2>4. hits' \in 0 .. FetchLimit + 1 /\ UNCHANGED <<prekey, bundle, holder, upload>>
      BY DEF PickKey, PrekeysInv, PrekeysTypeOK
    <2>5. ~ Consumed(f)
      BY <2>1 DEF Consumed
    <2> QED
      BY <2>1, <2>2, <2>3, <2>4, <2>5, KeylessStep
  <1>2. CASE free # {}
    <2>1. free \subseteq Keys /\ Keys \subseteq Nat \ {0}
      BY PrekeysAssumption DEF Pickable, Unused, Keys
    <2>2. least \in free
      BY <1>2, <2>1, LeastExists
    <2>3. least \in Keys /\ least # 0 /\ prekey[least] = "unused" /\ least \notin Locked
      BY <2>1, <2>2 DEF Pickable, Unused
    <2>4. fetch' = [fetch EXCEPT ![f] = [pc |-> "locked", snap |-> {}, key |-> least]]
      BY <1>2 DEF PickKey
    <2>5. /\ fetch'[f] = [pc |-> "locked", snap |-> {}, key |-> least]
          /\ \A g \in Fetches \ {f} : fetch'[g] = fetch[g]
          /\ fetch[f].pc = "consuming"
      BY <2>4 DEF PrekeysInv, PrekeysTypeOK, PickKey
    <2>6. [pc |-> "locked", snap |-> {}, key |-> least] \in Fetch
      BY <2>3, PrekeysAssumption DEF Fetch, Keys
    <2>7. PrekeysTypeOK'
      BY <2>4, <2>6 DEF PickKey, PrekeysInv, PrekeysTypeOK
    <2>8. FetchKeys'
      BY <2>5 DEF PrekeysInv, Consumed, FetchKeys
    <2>9. \A g \in Fetches : fetch[g].pc = "locked" => fetch[g].key # least
      BY <2>3 DEF Locked
    <2> HIDE DEF least
    <2>10. UNCHANGED <<prekey, holder>>
      BY DEF PickKey
    <2>11. LocksExclusive'
      BY <2>3, <2>5, <2>9, <2>10 DEF PrekeysInv, LocksExclusive
    <2>12. UsedIsTaken'
      BY <2>5, <2>10 DEF PrekeysInv, Consumed, UsedIsTaken, Keys
    <2> QED
      BY <2>7, <2>8, <2>11, <2>12 DEF PrekeysInv
  <1> QED
    BY <1>1, <1>2

\* MarkUsed turns the locked key into a taken one.
LEMMA MarkUsedStep ==
    ASSUME PrekeysInv, NEW f \in Fetches, MarkUsed(f)
    PROVE  PrekeysInv'
  <1> DEFINE k == fetch[f].key
  <1>1. fetch[f] \in Fetch /\ fetch[f].pc = "locked" /\ k # 0 /\ prekey[k] = "unused"
    BY DEF MarkUsed, PrekeysInv, PrekeysTypeOK, LocksExclusive
  <1>2. k \in Keys
    BY <1>1, PrekeysAssumption DEF Fetch, Keys
  <1>3. /\ fetch'[f].pc \in {"answered", "lost"} /\ fetch'[f].key = k
        /\ \A g \in Fetches \ {f} : fetch'[g] = fetch[g]
    BY DEF MarkUsed, PrekeysInv, PrekeysTypeOK, Fetch
  <1>4. prekey'[k] = "used" /\ \A j \in Keys \ {k} : prekey'[j] = prekey[j]
    BY <1>2 DEF MarkUsed, PrekeysInv, PrekeysTypeOK
  <1>5. PrekeysTypeOK'
    BY <1>2 DEF MarkUsed, PrekeysInv, PrekeysTypeOK, Fetch
  <1>6. FetchKeys'
    BY <1>3 DEF PrekeysInv, Consumed, FetchKeys
  <1>7. LocksExclusive'
    <2>1. \A g \in Fetches : fetch'[g].pc = "locked" =>
             g # f /\ fetch[g].pc = "locked" /\ fetch[g].key \in Keys \ {k}
      BY <1>1, <1>3, PrekeysAssumption DEF PrekeysInv, LocksExclusive, PrekeysTypeOK, Fetch, Keys
    <2> QED
      BY <1>3, <1>4, <2>1 DEF PrekeysInv, LocksExclusive
  <1>8. UsedIsTaken'
    <2> SUFFICES ASSUME holder = "live" PROVE UsedIsTaken'
      BY DEF UsedIsTaken, MarkUsed
    <2>1. \A g \in Fetches : ~ (Consumed(g) /\ fetch[g].key = k)
      BY <1>1, <1>2 DEF PrekeysInv, Consumed, UsedIsTaken
    <2> QED
      BY <1>1, <1>2, <1>3, <1>4, <2>1 DEF PrekeysInv, Consumed, UsedIsTaken, Keys
  <1> QED
    BY <1>5, <1>6, <1>7, <1>8 DEF PrekeysInv

\* Uploads add only keys that were absent, and touch no fetch.
LEMMA UploadStep ==
    ASSUME PrekeysInv, NEW u \in Uploads,
           NEW r \in Upload, upload' = [upload EXCEPT ![u] = r], bundle' \in BOOLEAN,
           \/ UNCHANGED prekey
           \/ prekey' = [k \in Keys |-> IF k \in upload[u].batch /\ prekey[k] = "absent"
                                        THEN "unused" ELSE prekey[k]],
           UNCHANGED <<holder, fetch, hits>>
    PROVE  PrekeysInv'
  <1>1. PrekeysTypeOK'
    BY DEF PrekeysInv, PrekeysTypeOK
  <1>2. \A k \in Keys : /\ prekey[k] = "unused" => prekey'[k] = "unused"
                        /\ prekey'[k] = "used" <=> prekey[k] = "used"
    BY DEF PrekeysInv, PrekeysTypeOK
  <1>3. FetchKeys' /\ UsedIsTaken'
    BY <1>2 DEF PrekeysInv, Consumed, FetchKeys, UsedIsTaken
  <1>4. \A f \in Fetches : fetch[f].pc = "locked" => fetch[f].key \in Keys
    BY PrekeysAssumption DEF PrekeysInv, LocksExclusive, PrekeysTypeOK, Fetch, Keys
  <1>5. LocksExclusive'
    BY <1>2, <1>4 DEF PrekeysInv, LocksExclusive
  <1> QED
    BY <1>1, <1>3, <1>5 DEF PrekeysInv

\* The account's deletions wait until no key is locked.
LEMMA AccountStep ==
    ASSUME PrekeysInv, Locked = {}, holder' \in {"marked", "gone"},
           prekey' = [k \in Keys |-> "absent"], bundle' = FALSE,
           UNCHANGED <<fetch, upload, hits>>
    PROVE  PrekeysInv'
  <1>1. PrekeysTypeOK'
    BY DEF PrekeysInv, PrekeysTypeOK
  <1>2. FetchKeys' /\ UsedIsTaken'
    BY DEF PrekeysInv, Consumed, FetchKeys, UsedIsTaken
  <1>3. \A f \in Fetches : fetch[f].pc # "locked"
    BY DEF Locked
  <1>4. LocksExclusive'
    BY <1>3 DEF LocksExclusive
  <1> QED
    BY <1>1, <1>2, <1>4 DEF PrekeysInv

\* Uploads, consumptions and deletions of prekeys keep the invariant.
LEMMA PrekeysNextInv ==
    ASSUME PrekeysInv, [PrekeysNext]_prekeyVars
    PROVE  PrekeysInv'
  <1> USE PrekeysAssumption
  <1>1. ASSUME NEW f \in Fetches,
               AdmitFetch(f) \/ SelectBundle(f) \/ ConsumeBegin(f) \/ FetchFails(f)
        PROVE  PrekeysInv'
    <2>1. fetch[f] \in Fetch /\ ~ Consumed(f)
      BY <1>1 DEF PrekeysInv, PrekeysTypeOK, Consumed, AdmitFetch, SelectBundle, ConsumeBegin,
                  FetchFails
    <2>2. fetch[f].pc # "locked" => fetch[f].key = 0
      BY <2>1 DEF PrekeysInv, Consumed, FetchKeys
    <2>3. Unused \subseteq Keys
      BY DEF Unused
    <2>4. \E r \in Fetch : r.key = 0 /\ r.pc # "locked" /\ fetch' = [fetch EXCEPT ![f] = r]
      <3>1. CASE AdmitFetch(f)
        <4>1. CASE fetch' = [fetch EXCEPT ![f].pc = "admitted"]
          <5> DEFINE r == [fetch[f] EXCEPT !.pc = "admitted"]
          <5>1. r \in Fetch /\ r.key = 0 /\ r.pc # "locked"
            BY <3>1, <2>1, <2>2 DEF AdmitFetch, Fetch
          <5> QED
            BY <4>1, <5>1
        <4>2. CASE fetch' = [fetch EXCEPT ![f].pc = "failed"]
          <5> DEFINE r == [fetch[f] EXCEPT !.pc = "failed"]
          <5>1. r \in Fetch /\ r.key = 0 /\ r.pc # "locked"
            BY <3>1, <2>1, <2>2 DEF AdmitFetch, Fetch
          <5> QED
            BY <4>2, <5>1
        <4> QED
          BY <3>1, <4>1, <4>2 DEF AdmitFetch
      <3>2. CASE SelectBundle(f)
        <4> DEFINE r == [fetch[f] EXCEPT !.pc = IF bundle THEN "found" ELSE "failed"]
        <4>1. r \in Fetch /\ r.key = 0 /\ r.pc # "locked"
          BY <3>2, <2>1, <2>2 DEF SelectBundle, Fetch
        <4> QED
          BY <3>2, <4>1 DEF SelectBundle
      <3>3. CASE ConsumeBegin(f)
        <4> DEFINE r == [fetch[f] EXCEPT !.pc = "consuming", !.snap = Unused]
        <4>1. r \in Fetch /\ r.key = 0 /\ r.pc # "locked"
          BY <3>3, <2>1, <2>2, <2>3 DEF ConsumeBegin, Fetch
        <4> QED
          BY <3>3, <4>1 DEF ConsumeBegin
      <3>4. CASE FetchFails(f)
        <4> DEFINE r == [pc |-> "failed", snap |-> {}, key |-> 0]
        <4>1. r \in Fetch /\ r.key = 0 /\ r.pc # "locked"
          BY DEF Fetch
        <4> QED
          BY <3>4, <4>1 DEF FetchFails
      <3> QED
        BY <1>1, <3>1, <3>2, <3>3, <3>4
    <2>5. hits' \in 0 .. FetchLimit + 1 /\ UNCHANGED <<prekey, bundle, holder, upload>>
      BY <1>1 DEF PrekeysInv, PrekeysTypeOK, AdmitFetch, SelectBundle, ConsumeBegin, FetchFails
    <2> QED
      BY <2>1, <2>4, <2>5, KeylessStep
  <1>2. ASSUME NEW f \in Fetches, PickKey(f) PROVE PrekeysInv'
    BY <1>2, PickKeyStep
  <1>3. ASSUME NEW f \in Fetches, MarkUsed(f) PROVE PrekeysInv'
    BY <1>3, MarkUsedStep
  <1>4. ASSUME NEW u \in Uploads,
               \/ \E S \in SUBSET Keys : AuthorizeUpload(u, S)
               \/ VerifyIdentity(u) \/ UpsertBundle(u) \/ AddOneTimePrekeys(u)
        PROVE  PrekeysInv'
    <2>1. upload[u] \in Upload
      BY DEF PrekeysInv, PrekeysTypeOK
    <2>2. \A pc \in {"authorized", "verified", "adding", "done"} :
             [upload[u] EXCEPT !.pc = pc] \in Upload
      BY <2>1 DEF Upload
    <2>3. \E r \in Upload : upload' = [upload EXCEPT ![u] = r]
      <3>1. ASSUME NEW S \in SUBSET Keys, AuthorizeUpload(u, S)
            PROVE  \E r \in Upload : upload' = [upload EXCEPT ![u] = r]
        <4>1. \A pc \in {"authorized", "adding"} : [pc |-> pc, batch |-> S] \in Upload
          BY DEF Upload
        <4> QED
          BY <3>1, <4>1 DEF AuthorizeUpload
      <3>2. CASE VerifyIdentity(u)
        BY <3>2, <2>2 DEF VerifyIdentity
      <3>3. CASE UpsertBundle(u)
        BY <3>3, <2>2 DEF UpsertBundle
      <3>4. CASE AddOneTimePrekeys(u)
        BY <3>4, <2>2 DEF AddOneTimePrekeys
      <3> QED
        BY <1>4, <3>1, <3>2, <3>3, <3>4
    <2>4. /\ bundle' \in BOOLEAN
          /\ \/ UNCHANGED prekey
             \/ prekey' = [k \in Keys |-> IF k \in upload[u].batch /\ prekey[k] = "absent"
                                          THEN "unused" ELSE prekey[k]]
          /\ UNCHANGED <<holder, fetch, hits>>
      BY <1>4 DEF PrekeysInv, PrekeysTypeOK, AuthorizeUpload, VerifyIdentity, UpsertBundle,
                  AddOneTimePrekeys
    <2> QED
      BY <2>3, <2>4, UploadStep
  <1>5. CASE WipePrekeys
    BY <1>5, AccountStep DEF WipePrekeys
  <1>6. CASE EraseHolder
    BY <1>6, AccountStep DEF EraseHolder, PrekeysInv, PrekeysTypeOK
  <1>7. CASE WindowEnds
    BY <1>7 DEF WindowEnds, PrekeysInv, PrekeysTypeOK, Consumed, FetchKeys, LocksExclusive, UsedIsTaken
  <1>8. CASE UNCHANGED prekeyVars
    BY <1>8 DEF prekeyVars, PrekeysInv, PrekeysTypeOK, Consumed, FetchKeys, LocksExclusive, UsedIsTaken
  <1> QED
    BY <1>1, <1>2, <1>3, <1>4, <1>5, <1>6, <1>7, <1>8 DEF PrekeysNext

\* A set of fetches in which any two are the same has the cardinality that
\* KeyServedOnce asks for.
LEMMA PrekeysInvServes ==
    ASSUME PrekeysInv
    PROVE  KeyServedOnce
  <1> SUFFICES ASSUME holder = "live", NEW k \in Keys
               PROVE  Cardinality(Took(k)) = IF prekey[k] = "used" THEN 1 ELSE 0
    BY DEF KeyServedOnce
  <1>1. k # 0
    BY PrekeysAssumption DEF Keys
  <1>2. \A f, g \in Took(k) : f = g
    BY <1>1 DEF PrekeysInv, Consumed, UsedIsTaken, Took
  <1>3. prekey[k] = "used" <=> Took(k) # {}
    BY DEF PrekeysInv, Consumed, UsedIsTaken, Took
  <1>4. CASE Took(k) = {}
    BY <1>3, <1>4, FS_EmptySet
  <1>5. CASE Took(k) # {}
    <2>1. PICK f : Took(k) = {f}
      BY <1>2, <1>5
    <2> QED
      BY <1>3, <1>5, <2>1, FS_Singleton
  <1> QED
    BY <1>4, <1>5

\* key-service keeps its tables and requests in their types.
THEOREM PrekeysTyped == PrekeysSpec => []PrekeysTypeOK
  <1>1. PrekeysInv => PrekeysTypeOK
    BY DEF PrekeysInv
  <1> QED
    BY PrekeysInitInv, PrekeysNextInv, <1>1, PTL DEF PrekeysSpec

\* GetBundle hands every one-time prekey to at most one caller, and none is
\* marked used but by one call, which served it or lost the reply to its
\* commit, for any number of callers, uploads and keys (qConsumeOneTimePrekey).
THEOREM KeysServedOnce == PrekeysSpec => []KeyServedOnce
  BY PrekeysInitInv, PrekeysNextInv, PrekeysInvServes, PTL DEF PrekeysSpec

-----------------------------------------------------------------------------
(***************************************************************************)
(* FileObjects                                                             *)
(***************************************************************************)

\* A slot has an account from its signature on, and only then an object.
SlotsInv ==
    /\ \A o \in Objects : slot[o].pc = "new" => slot[o].uin = NoOwner
    /\ \A o \in bucket : slot[o].pc # "new"
    /\ \A o \in Objects : slot[o].put => slot[o].pc # "new"

\* Rows of file_objects name the account the URL was signed for.
OwnersInv == \A o \in Objects : owner[o] # NoOwner => slot[o].uin = owner[o]

\* The calls' steps and the account's.
EraserInv ==
    account = "live" <=> \A w \in Erasures : eraser[w].pc \in {"idle", "captured"}

\* Whatever a job will remove belongs to the wiped account.
KeysInv ==
    \A w \in Erasures :
        /\ eraser[w].todo \subseteq eraser[w].keys
        /\ \A o \in eraser[w].keys : slot[o].uin = Wiped

\* While the account lives, what it can write or has written has its row.
RowsStand ==
    account = "live" =>
        \A o \in Objects :
            slot[o].uin = Wiped /\ (slot[o].pc = "given" \/ o \in bucket) => owner[o] = Wiped

\* Once a call has committed, an object of the account is excused, or its key
\* is among those that some job is about to remove.
ObjectsAccounted ==
    account # "live" =>
        \A o \in bucket : slot[o].uin = Wiped =>
            \/ o \in late
            \/ \E w \in Erasures : eraser[w].pc = "removing" /\ o \in eraser[w].todo

\* Once a pass has removed it, an avatar is excused.
AvatarAccounted ==
    account = "gone" \/ (\E w \in Erasures : eraser[w].pc \in {"removed", "erased", "done"})
        => (Wiped \in avatars => Wiped \in late)

FilesInv ==
    /\ FilesTypeOK /\ SlotsInv /\ OwnersInv /\ EraserInv /\ KeysInv /\ RowsStand
    /\ ObjectsAccounted /\ AvatarAccounted /\ OthersFilesStay

\* No object, grant or avatar, and no wipe, at the start.
LEMMA FilesInitInv ==
    ASSUME FilesInit
    PROVE  FilesInv
  <1>1. FilesTypeOK
    BY DEF FilesInit, NoEraser, FilesTypeOK
  <1>2. SlotsInv /\ OwnersInv /\ EraserInv /\ KeysInv
    BY DEF FilesInit, NoEraser, SlotsInv, OwnersInv, EraserInv, KeysInv
  <1>3. RowsStand /\ ObjectsAccounted /\ AvatarAccounted /\ OthersFilesStay
    BY DEF FilesInit, NoEraser, RowsStand, ObjectsAccounted, AvatarAccounted, OthersFilesStay
  <1> QED
    BY <1>1, <1>2, <1>3 DEF FilesInv

\* A pre-signed PUT that was used leaves its request a request.
LEMMA PutTyped ==
    ASSUME NEW s \in [Objects -> [pc : {"new", "signed", "given", "closed"},
                                  uin : Owners \union {NoOwner}, put : BOOLEAN]],
           NEW o \in Objects
    PROVE  [s EXCEPT ![o].put = TRUE] \in
               [Objects -> [pc : {"new", "signed", "given", "closed"},
                            uin : Owners \union {NoOwner}, put : BOOLEAN]]
  OBVIOUS

\* So does the step of a request.
LEMMA StepTyped ==
    ASSUME NEW s \in [Objects -> [pc : {"new", "signed", "given", "closed"},
                                  uin : Owners \union {NoOwner}, put : BOOLEAN]],
           NEW o \in Objects, NEW p \in {"given", "closed"}
    PROVE  [s EXCEPT ![o].pc = p] \in
               [Objects -> [pc : {"new", "signed", "given", "closed"},
                            uin : Owners \union {NoOwner}, put : BOOLEAN]]
  OBVIOUS

\* A pass that begins leaves its job a job.
LEMMA PassTyped ==
    ASSUME FilesTypeOK, NEW w \in Erasures,
           eraser' = [eraser EXCEPT ![w].pc = "removing", ![w].todo = eraser[w].keys]
    PROVE  /\ eraser' \in [Erasures ->
                  [pc : {"idle", "captured", "removing", "removed", "erased", "done"},
                   keys : SUBSET Objects, todo : SUBSET Objects]]
           /\ eraser'[w].pc = "removing"
           /\ eraser'[w].keys = eraser[w].keys /\ eraser'[w].todo = eraser[w].keys
           /\ \A v \in Erasures \ {w} : eraser'[v] = eraser[v]
  BY DEF FilesTypeOK

\* Uploads, grants, downloads and the wipe's passes keep the invariant.
LEMMA FilesNextInv ==
    ASSUME FilesInv, [FilesNext]_fileVars
    PROVE  FilesInv'
  <1> USE FilesAssumption
          DEF FilesInv, FilesTypeOK, SlotsInv, OwnersInv, EraserInv, KeysInv, RowsStand,
              ObjectsAccounted, AvatarAccounted, OthersFilesStay
  <1>1. ASSUME NEW o \in Objects, NEW u \in Owners, GenerateUploadURL(o, u)
        PROVE  FilesInv'
    BY <1>1 DEF GenerateUploadURL, Authenticated
  <1>2. ASSUME NEW o \in Objects, RegisterObject(o)
        PROVE  FilesInv'
    <2>1. /\ slot[o].pc = "signed"
          /\ UNCHANGED <<grants, bucket, avatars, avatarURL, account, eraser>>
          /\ \A p \in Objects : p # o => slot'[p] = slot[p] /\ owner'[p] = owner[p]
          /\ slot'[o].uin = slot[o].uin /\ slot'[o].put = slot[o].put
          /\ slot'[o].pc \in {"given", "closed"}
          /\ \/ slot'[o].pc = "given" /\ owner'[o] = slot[o].uin
             \/ slot'[o].pc = "closed" /\ owner'[o] = owner[o]
          /\ late \subseteq late' /\ late' \subseteq Objects \union Owners
      BY <1>2 DEF RegisterObject, TooLate
    <2>2. FilesTypeOK'
      <3>1. slot[o].uin \in Owners \union {NoOwner}
        OBVIOUS
      <3>2. owner' \in [Objects -> Owners \union {NoOwner}]
        BY <1>2, <3>1 DEF RegisterObject
      <3>3. slot' \in [Objects -> [pc : {"new", "signed", "given", "closed"},
                                   uin : Owners \union {NoOwner}, put : BOOLEAN]]
        <4>1. PICK p \in {"given", "closed"} : slot' = [slot EXCEPT ![o].pc = p]
          BY <1>2 DEF RegisterObject
        <4> QED
          BY <4>1, StepTyped
      <3> QED
        BY <2>1, <3>2, <3>3
    <2>3. SlotsInv' /\ OwnersInv' /\ EraserInv'
      <3>1. SlotsInv'
        <4> HIDE DEF OwnersInv, EraserInv, KeysInv, RowsStand, ObjectsAccounted,
                     AvatarAccounted, OthersFilesStay, FilesTypeOK
        <4>1. \A p \in Objects : slot'[p].pc = "new" => p # o /\ slot[p].pc = "new"
          BY <2>1
        <4>2. \A p \in Objects : slot'[p].uin = slot[p].uin /\ slot'[p].put = slot[p].put
          BY <2>1
        <4>3. bucket \subseteq Objects /\ bucket' = bucket
          BY <2>1 DEF FilesTypeOK
        <4> QED
          BY <4>1, <4>2, <4>3
      <3>2. OwnersInv'
        BY <2>1
      <3>3. EraserInv'
        BY <2>1
      <3> QED
        BY <3>1, <3>2, <3>3
    <2>4. KeysInv'
      BY <2>1
    <2>5. RowsStand'
      BY <2>1
    <2>6. ObjectsAccounted' /\ AvatarAccounted' /\ OthersFilesStay'
      BY <2>1
    <2> QED
      BY <2>2, <2>3, <2>4, <2>5, <2>6
  <1>3. ASSUME NEW o \in Objects, PutObject(o)
        PROVE  FilesInv'
    <2>1. /\ slot[o].pc = "given"
          /\ UNCHANGED <<owner, grants, avatars, avatarURL, account, eraser>>
          /\ \A p \in Objects : p # o => slot'[p] = slot[p]
          /\ slot'[o].uin = slot[o].uin /\ slot'[o].pc = slot[o].pc /\ slot'[o].put = TRUE
          /\ bucket' = bucket \union {o}
          /\ late \subseteq late' /\ late' \subseteq Objects \union Owners
          /\ slot[o].uin = Wiped /\ account # "live" => o \in late'
      BY <1>3 DEF PutObject, TooLate
    <2>2. FilesTypeOK'
      <3>1. slot' = [slot EXCEPT ![o].put = TRUE]
        BY <1>3 DEF PutObject
      <3>2. slot' \in [Objects -> [pc : {"new", "signed", "given", "closed"},
                                   uin : Owners \union {NoOwner}, put : BOOLEAN]]
        BY <3>1, PutTyped
      <3> QED
        BY <2>1, <3>2
    <2>3. SlotsInv' /\ OwnersInv' /\ EraserInv'
      BY <2>1, <2>2
    <2>4. KeysInv'
      BY <2>1
    <2>5. RowsStand'
      BY <2>1
    <2>6. ObjectsAccounted' /\ AvatarAccounted' /\ OthersFilesStay'
      BY <2>1
    <2> QED
      BY <2>2, <2>3, <2>4, <2>5, <2>6
  <1>4. ASSUME NEW o \in Objects, URLExpires(o)
        PROVE  FilesInv'
    BY <1>4 DEF URLExpires
  <1>5. ASSUME NEW o \in Objects, NEW u \in Owners, NEW v \in Owners,
               Grant(o, u, v) \/ Revoke(o, u)
        PROVE  FilesInv'
    BY <1>5 DEF Grant, Revoke
  <1>6. ASSUME NEW u \in Owners,
               GenerateAvatarUploadURL(u) \/ PutAvatar(u) \/ AvatarURLExpires(u)
        PROVE  FilesInv'
    BY <1>6 DEF GenerateAvatarUploadURL, PutAvatar, AvatarURLExpires, TooLate
  <1>7. ASSUME NEW w \in Erasures, CaptureFileKeys(w) \/ WipeAborts(w)
        PROVE  FilesInv'
    <2> DEFINE e == eraser'[w]
    <2>1. /\ e.pc \in {"idle", "captured"} /\ eraser[w].pc \in {"idle", "captured"}
          /\ e.todo = {} /\ e.keys \subseteq Captured
          /\ \A v \in Erasures \ {w} : eraser'[v] = eraser[v]
          /\ UNCHANGED <<slot, owner, grants, bucket, avatars, avatarURL, account, late>>
      BY <1>7 DEF CaptureFileKeys, WipeAborts, NoEraser
    <2>2. FilesTypeOK'
      BY <1>7 DEF CaptureFileKeys, WipeAborts, NoEraser, Captured
    <2> HIDE DEF e
    <2>3. EraserInv'
      BY <2>1 DEF e
    <2>4. KeysInv'
      BY <2>1 DEF e, Captured
    <2>5. RowsStand' /\ ObjectsAccounted' /\ AvatarAccounted'
      BY <2>1 DEF e
    <2> QED
      BY <2>1, <2>2, <2>3, <2>4, <2>5
  <1>8. ASSUME NEW w \in Erasures, CommitWipe(w)
        PROVE  FilesInv'
    <2>1. /\ eraser'[w].pc = "removing"
          /\ eraser'[w].keys = eraser[w].keys /\ eraser'[w].todo = eraser[w].keys
          /\ \A v \in Erasures \ {w} : eraser'[v] = eraser[v]
          /\ eraser' \in [Erasures ->
                 [pc : {"idle", "captured", "removing", "removed", "erased", "done"},
                  keys : SUBSET Objects, todo : SUBSET Objects]]
          /\ eraser[w].pc = "captured" /\ account # "gone" /\ account' = "marked"
          /\ UNCHANGED <<slot, bucket, avatars, avatarURL>>
      <3>1. eraser' = [eraser EXCEPT ![w].pc = "removing", ![w].todo = eraser[w].keys]
        BY <1>8 DEF CommitWipe
      <3>2. FilesTypeOK
        OBVIOUS
      <3> HIDE DEF FilesTypeOK, SlotsInv, OwnersInv, EraserInv, KeysInv, RowsStand,
                   ObjectsAccounted, AvatarAccounted, OthersFilesStay
      <3> QED
        BY <1>8, <3>1, <3>2, PassTyped DEF CommitWipe
    <2>2. FilesTypeOK'
      <3>1. owner' \in [Objects -> Owners \union {NoOwner}] /\ grants' \subseteq Objects \X Owners
        BY <1>8 DEF CommitWipe, Unreferenced
      <3>2. late' \subseteq Objects \union Owners
        BY <1>8 DEF CommitWipe, Captured
      <3> QED
        BY <2>1, <3>1, <3>2
    <2>3. late \subseteq late' /\ Captured \ eraser[w].keys \subseteq late'
      BY <1>8 DEF CommitWipe
    <2>4. \A o \in Objects : owner'[o] # NoOwner => owner'[o] = owner[o]
      BY <1>8 DEF CommitWipe, Unreferenced
    <2>5. EraserInv' /\ KeysInv' /\ RowsStand'
      <3>1. EraserInv'
        BY <2>1
      <3>2. KeysInv'
        BY <2>1
      <3>3. RowsStand'
        BY <2>1
      <3> QED
        BY <3>1, <3>2, <3>3
    <2>6. ObjectsAccounted'
      BY <2>1, <2>3 DEF Captured
    <2>7. AvatarAccounted'
      BY <2>1, <2>3
    <2> QED
      BY <2>1, <2>2, <2>4, <2>5, <2>6, <2>7
  <1>9. ASSUME NEW w \in Erasures, NEW o \in Objects, RemoveObject(w, o)
        PROVE  FilesInv'
    <2>1. /\ eraser[w].pc = "removing" /\ eraser'[w].pc = "removing" /\ o \in eraser[w].todo
          /\ eraser'[w].keys = eraser[w].keys /\ eraser'[w].todo = eraser[w].todo \ {o}
          /\ \A v \in Erasures \ {w} : eraser'[v] = eraser[v]
          /\ bucket' = bucket \ {o} /\ late' = late \ {o} /\ o \notin Owners
          /\ UNCHANGED <<slot, owner, grants, avatars, avatarURL, account>>
      BY <1>9 DEF RemoveObject
    <2>2. FilesTypeOK'
      BY <1>9 DEF RemoveObject
    <2>3. EraserInv' /\ KeysInv' /\ RowsStand'
      <3>1. EraserInv'
        BY <2>1
      <3>2. KeysInv'
        BY <2>1
      <3>3. RowsStand'
        BY <2>1
      <3> QED
        BY <3>1, <3>2, <3>3
    <2>4. ObjectsAccounted'
      BY <2>1
    <2>5. AvatarAccounted' /\ OthersFilesStay'
      BY <2>1
    <2> QED
      BY <2>1, <2>2, <2>3, <2>4, <2>5
  <1>10. ASSUME NEW w \in Erasures, RemoveAvatar(w)
         PROVE  FilesInv'
    <2>1. /\ eraser[w].pc = "removing" /\ eraser[w].todo = {}
          /\ eraser'[w].pc = "removed" /\ eraser'[w].keys = eraser[w].keys
          /\ eraser'[w].todo = {}
          /\ \A v \in Erasures \ {w} : eraser'[v] = eraser[v]
          /\ avatars' = avatars \ {Wiped} /\ late' = late \ {Wiped} /\ Wiped \notin Objects
          /\ UNCHANGED <<slot, owner, grants, bucket, avatarURL, account>>
      BY <1>10 DEF RemoveAvatar
    <2>2. FilesTypeOK'
      BY <1>10 DEF RemoveAvatar
    <2>3. EraserInv' /\ KeysInv' /\ RowsStand'
      <3>1. EraserInv'
        BY <2>1
      <3>2. KeysInv'
        BY <2>1
      <3>3. RowsStand'
        BY <2>1
      <3> QED
        BY <3>1, <3>2, <3>3
    <2>4. ObjectsAccounted'
      BY <2>1
    <2>5. AvatarAccounted'
      BY <2>1
    <2> QED
      BY <2>1, <2>2, <2>3, <2>4, <2>5
  <1>11. ASSUME NEW w \in Erasures, RemovalFails(w)
         PROVE  FilesInv'
    <2>1. /\ eraser[w].pc \in {"removing", "removed", "erased"}
          /\ eraser'[w].pc = "removing"
          /\ eraser'[w].keys = eraser[w].keys /\ eraser'[w].todo = eraser[w].keys
          /\ \A v \in Erasures \ {w} : eraser'[v] = eraser[v]
          /\ eraser' \in [Erasures ->
                 [pc : {"idle", "captured", "removing", "removed", "erased", "done"},
                  keys : SUBSET Objects, todo : SUBSET Objects]]
          /\ UNCHANGED <<slot, owner, grants, bucket, avatars, avatarURL, account, late>>
      <3>1. eraser' = [eraser EXCEPT ![w].pc = "removing", ![w].todo = eraser[w].keys]
        BY <1>11 DEF RemovalFails
      <3>2. FilesTypeOK
        OBVIOUS
      <3> HIDE DEF FilesTypeOK, SlotsInv, OwnersInv, EraserInv, KeysInv, RowsStand,
                   ObjectsAccounted, AvatarAccounted, OthersFilesStay
      <3> QED
        BY <1>11, <3>1, <3>2, PassTyped DEF RemovalFails, InJob
    <2>2. FilesTypeOK'
      BY <2>1
    <2>3. EraserInv' /\ KeysInv' /\ RowsStand'
      <3>1. EraserInv'
        BY <2>1
      <3>2. KeysInv'
        BY <2>1
      <3>3. RowsStand'
        BY <2>1
      <3> QED
        BY <3>1, <3>2, <3>3
    <2>4. ObjectsAccounted'
      BY <2>1
    <2>5. AvatarAccounted'
      BY <2>1
    <2> QED
      BY <2>1, <2>2, <2>3, <2>4, <2>5
  <1>12. ASSUME NEW w \in Erasures, EraseAccount(w)
         PROVE  FilesInv'
    <2>1. /\ eraser[w].pc = "removed" /\ eraser'[w].pc = "erased"
          /\ eraser'[w].keys = eraser[w].keys /\ eraser'[w].todo = eraser[w].todo
          /\ \A v \in Erasures \ {w} : eraser'[v] = eraser[v]
          /\ account' = "gone" /\ account # "live"
          /\ UNCHANGED <<slot, bucket, avatars, avatarURL, late>>
      BY <1>12 DEF EraseAccount
    <2>2. FilesTypeOK'
      BY <1>12 DEF EraseAccount, Unreferenced
    <2>3. \A o \in Objects : owner'[o] # NoOwner => owner'[o] = owner[o]
      BY <1>12 DEF EraseAccount, Unreferenced
    <2>4. EraserInv' /\ KeysInv' /\ RowsStand'
      <3>1. EraserInv'
        BY <2>1
      <3>2. KeysInv'
        BY <2>1
      <3>3. RowsStand'
        BY <2>1
      <3> QED
        BY <3>1, <3>2, <3>3
    <2>5. ObjectsAccounted'
      BY <2>1
    <2>6. AvatarAccounted'
      BY <2>1
    <2> QED
      BY <2>1, <2>2, <2>3, <2>4, <2>5, <2>6
  <1>13. ASSUME NEW w \in Erasures, DeleteJob(w)
         PROVE  FilesInv'
    <2>1. /\ eraser[w].pc = "erased"
          /\ eraser'[w].pc = "done" /\ eraser'[w].keys = {} /\ eraser'[w].todo = {}
          /\ \A v \in Erasures \ {w} : eraser'[v] = eraser[v]
          /\ UNCHANGED <<slot, owner, grants, bucket, avatars, avatarURL, account, late>>
      BY <1>13 DEF DeleteJob, NoEraser
    <2>2. FilesTypeOK'
      BY <1>13 DEF DeleteJob, NoEraser
    <2>3. EraserInv' /\ KeysInv' /\ RowsStand'
      <3>1. EraserInv'
        BY <2>1
      <3>2. KeysInv'
        BY <2>1
      <3>3. RowsStand'
        BY <2>1
      <3> QED
        BY <3>1, <3>2, <3>3
    <2>4. ObjectsAccounted'
      BY <2>1
    <2>5. AvatarAccounted'
      BY <2>1
    <2> QED
      BY <2>1, <2>2, <2>3, <2>4, <2>5
  <1>14. CASE UNCHANGED fileVars
    BY <1>14 DEF fileVars
  <1> QED
    BY <1>1, <1>2, <1>3, <1>4, <1>5, <1>6, <1>7, <1>8, <1>9, <1>10, <1>11, <1>12, <1>13,
       <1>14 DEF FilesNext

\* The invariant leaves an erased account nothing but late arrivals and what a
\* job is about to remove.
LEMMA FilesInvErased ==
    ASSUME FilesInv
    PROVE  FilesErased
  BY DEF FilesInv, FilesErased, KeysInv, ObjectsAccounted, AvatarAccounted, InJob

\* file-service, MinIO and the wipe's file phases keep their state in its types.
THEOREM FilesTyped == FilesSpec => []FilesTypeOK
  <1>1. FilesInv => FilesTypeOK
    BY DEF FilesInv
  <1> QED
    BY FilesInitInv, FilesNextInv, <1>1, PTL DEF FilesSpec

\* captureFileKeys and DeleteUserObjects together, in any number of calls and
\* retried any number of times, leave of an erased account in MinIO only objects
\* whose keys are still in a job, and objects and avatars that came through a
\* signed URL behind the wipe's back.
THEOREM WipeErasesFiles == FilesSpec => []FilesErased
  BY FilesInitInv, FilesNextInv, FilesInvErased, PTL DEF FilesSpec

\* No pass of DeleteUserObjects removes what another account uploaded.
THEOREM WipeSparesOthers == FilesSpec => []OthersFilesStay
  <1>1. FilesInv => OthersFilesStay
    BY DEF FilesInv
  <1> QED
    BY FilesInitInv, FilesNextInv, <1>1, PTL DEF FilesSpec

-----------------------------------------------------------------------------
(***************************************************************************)
(* WipeCredentials                                                         *)
(***************************************************************************)

\* What a request in front of a write of the key has proved: the password
\* for an enrollment; for a rotation the key it read, over a challenge that
\* is spent and was granted to nobody else.
Proven ==
    /\ \A r \in Asks :
          /\ ask[r].pc = "insert" => ask[r].password
          /\ ask[r].pc \in {"rotate", "swap", "signature"} => ask[r].old # Nothing
          /\ ask[r].pc = "swap" => ask[r].by = ask[r].old /\ ask[r].spent # Nothing
          /\ ask[r].spent # Nothing => challenge[ask[r].spent] = "gone"
    /\ \A q, r \in Asks : q # r /\ ask[r].spent # Nothing => ask[q].spent # ask[r].spent

CredentialsInv == CredentialsTypeOK /\ Proven

\* No wipe key, PIN or challenge at the start.
LEMMA CredentialsInitInv ==
    ASSUME CredentialsInit
    PROVE  CredentialsInv
  BY CredentialsAssumption
     DEF CredentialsInit, CredentialsInv, CredentialsTypeOK, Proven, NoSettings, NewAsk, Ask

\* A step of one request that leaves the spent challenges alone.
LEMMA AskStep ==
    ASSUME CredentialsInv, CredentialsTypeOK', NEW r \in Asks, UNCHANGED challenge,
           \A q \in Asks : q # r => ask'[q] = ask[q],
           ask'[r].spent = ask[r].spent,
           ask'[r].pc = "insert" => ask'[r].password,
           ask'[r].pc \in {"rotate", "signature"} => ask'[r].old # Nothing,
           ask'[r].pc # "swap"
    PROVE  CredentialsInv'
  BY DEF CredentialsInv, CredentialsTypeOK, Proven, Ask

\* A step that consumes challenge c, granting it to r or to nobody.
LEMMA SpendStep ==
    ASSUME CredentialsInv, CredentialsTypeOK', NEW r \in Asks, NEW c \in Challenges, Spend(c),
           \A q \in Asks : q # r => ask'[q] = ask[q],
           \/ ask'[r].pc = "done" /\ ask'[r].spent = ask[r].spent
           \/ /\ ask'[r].spent = c /\ ask'[r].by = ask'[r].old /\ ask'[r].old # Nothing
              /\ ask'[r].pc \in {"swap", "authorized"}
    PROVE  CredentialsInv'
  <1>1. challenge[c] = "issued" /\ challenge'[c] = "gone" /\ c # Nothing
    BY CredentialsAssumption DEF Spend, CredentialsInv, CredentialsTypeOK
  <1>2. \A d \in Challenges : d # c => challenge'[d] = challenge[d]
    BY DEF Spend, CredentialsInv, CredentialsTypeOK
  <1>3. \A q \in Asks : ask[q].spent # c
    BY <1>1 DEF CredentialsInv, Proven
  <1>4. \A q \in Asks : ask[q].spent \in Challenges \union {Nothing}
    BY DEF CredentialsInv, CredentialsTypeOK, Ask
  <1>5. \A q \in Asks : ask[q].spent # Nothing => challenge'[ask[q].spent] = "gone"
    BY <1>2, <1>3, <1>4 DEF CredentialsInv, Proven
  <1> QED
    BY <1>1, <1>3, <1>5 DEF CredentialsInv, Proven

\* Enrollment, rotation, PIN changes and wipes keep the invariant.
LEMMA CredentialsNextInv ==
    ASSUME CredentialsInv, [CredentialsNext]_credentialVars
    PROVE  CredentialsInv'
  <1> USE CredentialsAssumption
  <1>1. ASSUME NEW c \in Challenges, IssueChallenge(c) \/ ChallengeExpires(c)
        PROVE  CredentialsInv'
    BY <1>1 DEF CredentialsInv, CredentialsTypeOK, Proven, Ask, IssueChallenge, ChallengeExpires
  <1>2. ASSUME NEW r \in Asks, NEW k \in WipeKeys, SetKeyLookup(r, k)
        PROVE  CredentialsInv'
    BY <1>2, AskStep DEF CredentialsInv, CredentialsTypeOK, Ask, SetKeyLookup
  <1>3. ASSUME NEW r \in Asks, EnrollPassword(r) \/ PinPassword(r) \/ SelectVerifier(r)
                                \/ VerifyLookup(r) \/ VerifyPin(r)
        PROVE  CredentialsInv'
    <2>1. CredentialsTypeOK'
      BY <1>3 DEF CredentialsInv, CredentialsTypeOK, Ask, EnrollPassword, PinPassword,
                  SelectVerifier, VerifyLookup, VerifyPin, End
    <2> QED
      BY <1>3, <2>1, AskStep DEF CredentialsInv, CredentialsTypeOK, Ask, EnrollPassword,
         PinPassword, SelectVerifier, VerifyLookup, VerifyPin, End
  <1>4. ASSUME NEW r \in Asks, Enroll(r) \/ Rotate(r) \/ SetPin(r) \/ WipeSettings(r)
        PROVE  CredentialsInv'
    <2>1. End(r) /\ UNCHANGED challenge
      BY <1>4 DEF Enroll, Rotate, SetPin, WipeSettings
    <2>2. /\ ask' \in [Asks -> Ask]
          /\ \A q \in Asks : q # r => ask'[q] = ask[q]
          /\ ask'[r].spent = ask[r].spent /\ ask'[r].pc = "done"
      BY <2>1 DEF CredentialsInv, CredentialsTypeOK, Ask, End
    <2>3. settings' \in [row : BOOLEAN, key : WipeKeys \union {Nothing},
                         pin : Pins \union {Nothing}]
          /\ user' \in {"live", "marked", "gone"}
      <3>1. CASE Enroll(r) \/ Rotate(r)
        BY <3>1 DEF CredentialsInv, CredentialsTypeOK, Ask, Enroll, Rotate
      <3>2. CASE SetPin(r)
        BY <3>2 DEF CredentialsInv, CredentialsTypeOK, SetPin
      <3>3. CASE WipeSettings(r)
        <4>1. NoSettings \in [row : BOOLEAN, key : WipeKeys \union {Nothing},
                             pin : Pins \union {Nothing}]
          BY DEF NoSettings
        <4>2. /\ settings' \in {settings, NoSettings}
              /\ user' \in {"live", "marked", "gone"}
          BY <3>3 DEF CredentialsInv, CredentialsTypeOK, WipeSettings
        <4> QED
          BY <4>1, <4>2 DEF CredentialsInv, CredentialsTypeOK
      <3> QED
        BY <1>4, <3>1, <3>2, <3>3
    <2>4. CredentialsTypeOK'
      BY <2>1, <2>2, <2>3 DEF CredentialsInv, CredentialsTypeOK
    <2> QED
      BY <2>1, <2>2, <2>4, AskStep
  <1>5. ASSUME NEW r \in Asks, NEW c \in Challenges, RotateProof(r, c) \/ VerifyWipeSignature(r, c)
        PROVE  CredentialsInv'
    <2>1. CredentialsTypeOK'
      BY <1>5 DEF CredentialsInv, CredentialsTypeOK, Ask, RotateProof, VerifyWipeSignature, End,
                  Spend
    <2>2. ask[r].old # Nothing
      BY <1>5 DEF CredentialsInv, Proven, RotateProof, VerifyWipeSignature
    <2>3. CASE End(r) /\ UNCHANGED challenge
      BY <2>1, <2>3, AskStep DEF CredentialsInv, CredentialsTypeOK, Ask, End
    <2>4. CASE End(r) /\ Spend(c)
      BY <2>1, <2>4, SpendStep DEF CredentialsInv, CredentialsTypeOK, Ask, End
    <2>5. CASE Spend(c) /\ \E pc \in {"swap", "authorized"} :
                 ask' = [ask EXCEPT ![r].pc = pc, ![r].spent = c, ![r].by = ask[r].old]
      <3>1. ask'[r].spent = c /\ ask'[r].by = ask'[r].old /\ ask'[r].old # Nothing
            /\ ask'[r].pc \in {"swap", "authorized"}
        BY <2>2, <2>5 DEF CredentialsInv, CredentialsTypeOK, Ask
      <3>2. \A q \in Asks : q # r => ask'[q] = ask[q]
        BY <2>5 DEF CredentialsInv, CredentialsTypeOK, Ask
      <3> QED
        BY <2>1, <2>5, <3>1, <3>2, SpendStep
    <2> QED
      BY <1>5, <2>3, <2>4, <2>5 DEF RotateProof, VerifyWipeSignature
  <1>6. CASE EraseUser
    BY <1>6 DEF CredentialsInv, CredentialsTypeOK, Proven, Ask, EraseUser
  <1>7. CASE UNCHANGED credentialVars
    BY <1>7 DEF CredentialsInv, CredentialsTypeOK, Proven, Ask, credentialVars
  <1> QED
    BY <1>1, <1>2, <1>3, <1>4, <1>5, <1>6, <1>7 DEF CredentialsNext

\* The step of KeyChangesProven.
KeyChangeProven ==
    settings'.key \notin {settings.key, Nothing} =>
        \E r \in Asks :
            /\ ask[r].pc # "done" /\ ask'[r].pc = "done" /\ ask[r].key = settings'.key
            /\ IF settings.key = Nothing THEN ask[r].password
               ELSE /\ ask[r].by = settings.key
                    /\ \A q \in Asks \ {r} : ask[q].spent # ask[r].spent

\* A step that stores a wipe key ends a request that proved its right to.
LEMMA CredentialsStepProven ==
    ASSUME CredentialsInv, [CredentialsNext]_credentialVars
    PROVE  KeyChangeProven
  <1> SUFFICES ASSUME settings'.key \notin {settings.key, Nothing}
               PROVE  \E r \in Asks :
                        /\ ask[r].pc # "done" /\ ask'[r].pc = "done" /\ ask[r].key = settings'.key
                        /\ IF settings.key = Nothing THEN ask[r].password
                           ELSE /\ ask[r].by = settings.key
                                /\ \A q \in Asks \ {r} : ask[q].spent # ask[r].spent
    BY DEF KeyChangeProven
  <1>1. \A r \in Asks : ~ SetPin(r) /\ ~ WipeSettings(r)
    <2>1. \A r \in Asks : SetPin(r) => settings'.key = settings.key
      BY DEF SetPin, CredentialsInv, CredentialsTypeOK
    <2>2. \A r \in Asks : WipeSettings(r) => settings'.key \in {settings.key, Nothing}
      BY DEF WipeSettings, NoSettings
    <2> QED
      BY <2>1, <2>2
  <1>2. PICK r \in Asks : Enroll(r) \/ Rotate(r)
    BY <1>1 DEF CredentialsNext, credentialVars, IssueChallenge, ChallengeExpires, SetKeyLookup,
       RotateProof, VerifyWipeSignature, EnrollPassword, PinPassword, SelectVerifier,
       VerifyLookup, VerifyPin, EraseUser
  <1>3. ask[r].pc # "done" /\ ask'[r].pc = "done"
    BY <1>2 DEF Enroll, Rotate, End, CredentialsInv, CredentialsTypeOK, Ask
  <1>4. CASE Enroll(r)
    <2>1. ask[r].key = settings'.key /\ settings.key = Nothing /\ ask[r].password
      BY <1>4 DEF Enroll, CredentialsInv, CredentialsTypeOK, Proven
    <2> QED
      BY <1>3, <2>1
  <1>5. CASE Rotate(r)
    <2>1. ask[r].key = settings'.key /\ settings.key = ask[r].old
      BY <1>5 DEF Rotate, CredentialsInv, CredentialsTypeOK
    <2>2. /\ ask[r].old # Nothing /\ ask[r].by = ask[r].old
          /\ \A q \in Asks \ {r} : ask[q].spent # ask[r].spent
      BY <1>5 DEF Rotate, CredentialsInv, Proven
    <2> QED
      BY <1>3, <2>1, <2>2
  <1> QED
    BY <1>2, <1>4, <1>5

\* The security settings, challenges and requests of auth-service keep their types.
THEOREM CredentialsTyped == CredentialsSpec => []CredentialsTypeOK
  <1>1. CredentialsInv => CredentialsTypeOK
    BY DEF CredentialsInv
  <1> QED
    BY CredentialsInitInv, CredentialsNextInv, <1>1, PTL DEF CredentialsSpec

\* However the requests of an account's sessions interleave, the wipe key is
\* only replaced by a request that proved the very key it replaces over a
\* challenge of its own, and enrolled only with the password
\* (NewSetWipePublicKeyHandler, qEnrollWipePublicKey, qUpdateWipePublicKey).
THEOREM WipeKeyChangesProven == CredentialsSpec => KeyChangesProven
  <1>1. CredentialsInv /\ [CredentialsNext]_credentialVars => [KeyChangeProven]_credentialVars
    BY CredentialsStepProven
  <1> QED
    BY CredentialsInitInv, CredentialsNextInv, <1>1, PTL
       DEF CredentialsSpec, KeyChangesProven, KeyChangeProven

-----------------------------------------------------------------------------
(***************************************************************************)
(* MessageHistory                                                          *)
(***************************************************************************)

\* What a page without expired rows covers.
Covers(p) ==
    \/ {t \in p.had : p.cursor < CreatedAt[t] /\ CreatedAt[t] < p.before}
         \subseteq p.shown \union p.hidden \union p.skipped
    \/ p.skipped # {}

\* The rows that the wipe is to delete and that were there when it committed, or
\* all of them before.
Old == (Written \intersect Doomed) \ lateRows

\* Every scan that follows the commit finds the old rows, and deletes them before
\* it is done; final erasure comes after one that is.
ErasedClean ==
    /\ peer = "live" => lateRows = {} /\ \A w \in Wipers : scan[w].pc = "idle"
    /\ Old \subseteq index
    /\ \A w \in Wipers : /\ scan[w].pc = "scanned" => Old \subseteq scan[w].todo
                         /\ scan[w].pc = "done" => Old = {}
    /\ peer = "gone" => Old = {}

\* A direct request that began after the wipe goes on to read only when final
\* erasure took the marker away; what a group request has read of the peer is
\* still to be filtered.
PageHides ==
    /\ hreq.pc # "idle" /\ hreq.page.began # "live" => peer # "live"
    /\ hreq.pc # "idle" /\ hreq.page.began = "gone" => peer = "gone"
    /\ hreq.pc = "checked" => kind = "direct" /\ (hreq.page.began # "live" => peer = "gone")
    /\ hreq.pc = "fetched" =>
          /\ kind = "group" /\ hreq.page.doomed \subseteq OfPeer
          /\ hreq.page.began = "gone" => hreq.page.old = {}
    /\ hreq.pc \in {"begun", "checked"} => hreq.page.shown = {}
    /\ hreq.pc \in {"begun", "checked"} => hreq.page.had = {}
    /\ hreq.pc \in {"begun", "checked", "fetched"} => hreq.page.hidden = {}

HistoryInv ==
    /\ HistoryTypeOK /\ ErasedClean /\ PageHides /\ HistoryHidesWiped
    /\ hreq.pc \in {"fetched", "answered"} => Covers(hreq.page)

\* The members of a set of times that are newer than t.
Newer(S, t) == {x \in S : x > t}

\* Cardinality is monotonic on sets of times.
LEMMA FewerTimes ==
    ASSUME NEW S \in SUBSET Times, NEW T \in SUBSET S
    PROVE  /\ Cardinality(T) \in Nat /\ Cardinality(S) \in Nat
           /\ Cardinality(T) <= Cardinality(S)
           /\ T # S => Cardinality(T) < Cardinality(S)
  <1>1. IsFiniteSet(Times)
    BY HistoryAssumption, FS_Interval DEF Times
  <1>2. IsFiniteSet(S)
    BY <1>1, FS_Subset
  <1>3. IsFiniteSet(T) /\ Cardinality(T) <= Cardinality(S)
        /\ (Cardinality(S) = Cardinality(T) => S = T)
    BY <1>2, FS_Subset
  <1>4. Cardinality(T) \in Nat /\ Cardinality(S) \in Nat
    BY <1>2, <1>3, FS_CardinalityType
  <1> QED
    BY <1>3, <1>4

\* What is newer than a later time is newer than an earlier one, and no time
\* is newer than itself.
LEMMA NewerShrinks ==
    ASSUME NEW S \in SUBSET Times, NEW t \in Times, NEW u \in Times, u <= t
    PROVE  /\ Cardinality(Newer(S, t)) \in Nat /\ Cardinality(Newer(S, u)) \in Nat
           /\ Cardinality(Newer(S, t)) <= Cardinality(Newer(S, u))
           /\ Cardinality(Newer(S, u)) <= Cardinality(S) /\ Cardinality(S) \in Nat
           /\ t \in S => Cardinality(Newer(S, t)) < Cardinality(S)
  <1>1. /\ Newer(S, t) \in SUBSET Newer(S, u) /\ Newer(S, u) \in SUBSET S
        /\ Newer(S, t) \in SUBSET S
        /\ t \in S => Newer(S, t) # S
    <2>1. S \subseteq Nat /\ t \in Nat /\ u \in Nat
      BY DEF Times
    <2>2. \A x \in S : x > t => x > u
      BY <2>1
    <2>3. ~ (t > t)
      BY <2>1
    <2> QED
      BY <2>2, <2>3 DEF Newer
  <1>2. Newer(S, u) \in SUBSET Times
    BY <1>1
  <1>3. /\ Cardinality(Newer(S, t)) \in Nat /\ Cardinality(Newer(S, u)) \in Nat
        /\ Cardinality(Newer(S, t)) <= Cardinality(Newer(S, u))
    BY <1>1, <1>2, FewerTimes
  <1>4. Cardinality(Newer(S, u)) <= Cardinality(S) /\ Cardinality(S) \in Nat
    BY <1>1, FewerTimes
  <1>5. t \in S => Cardinality(Newer(S, t)) < Cardinality(S)
    BY <1>1, FewerTimes
  <1> QED
    BY <1>3, <1>4, <1>5

\* When at most n times are among the newest n + 1 of a set, these are all.
LEMMA NewestAreAll ==
    ASSUME NEW S \in SUBSET Times, NEW n \in Nat, NEW N \in SUBSET S,
           \A t \in S \ N : ~ (Cardinality(Newer(S, t)) < n + 1),
           Cardinality(N) <= n
    PROVE  N = S
  <1> SUFFICES ASSUME S \ N # {}
               PROVE  FALSE
    OBVIOUS
  <1>1. Slots \in Nat /\ S \subseteq Nat /\ \A t \in S : t <= Slots
    BY HistoryAssumption DEF Times
  <1>2. PICK t \in S \ N : \A u \in S \ N : u <= t
    <2>1. S \ N \subseteq Nat /\ \A t \in S \ N : t <= Slots
      BY <1>1
    <2> QED
      BY <1>1, <2>1, GreatestExists
  <1>3. Newer(S, t) \in SUBSET N
    <2> SUFFICES ASSUME NEW x \in S, x > t, x \notin N
                 PROVE  FALSE
      BY DEF Newer
    <2>1. x <= t /\ x \in Nat /\ t \in Nat
      BY <1>1, <1>2
    <2> QED
      BY <2>1
  <1>4. N \in SUBSET Times
    OBVIOUS
  <1>5. /\ Cardinality(Newer(S, t)) \in Nat /\ Cardinality(N) \in Nat
        /\ Cardinality(Newer(S, t)) <= Cardinality(N)
    BY <1>3, <1>4, FewerTimes
  <1> QED
    BY <1>2, <1>5

\* What the storage query and paginationPage keep of the rows older than the
\* request's cursor: with no expired row among those fetched, either all of
\* them, or all from the last one kept on.
LEMMA PageCovers ==
    ASSUME NEW older \in SUBSET Times, NEW rows \in SUBSET older, NEW keep \in SUBSET rows,
           \A t \in older : t \in rows <=> Cardinality(Newer(older, t)) < PageLimit + 1,
           \A t \in rows : t \in keep <=> Cardinality(Newer(rows, t)) < PageLimit
    PROVE  /\ Cardinality(rows) <= PageLimit => older \subseteq keep
           /\ \A c \in keep : \A t \in older : c <= t => t \in keep
  <1>1. /\ older \subseteq Nat /\ Slots \in Nat /\ PageLimit \in Nat \ {0}
        /\ \A t \in Times : t <= t /\ t <= Slots
    BY HistoryAssumption DEF Times
  <1>2. rows \in SUBSET Times
    OBVIOUS
  <1>3. ASSUME Cardinality(rows) <= PageLimit
        PROVE  older \subseteq keep
    <2>1. rows = older
      BY <1>1, <1>3, NewestAreAll
    <2> SUFFICES ASSUME NEW t \in rows
                 PROVE  Cardinality(Newer(rows, t)) < PageLimit
      BY <2>1
    <2>2. /\ Cardinality(Newer(rows, t)) < Cardinality(rows)
          /\ Cardinality(Newer(rows, t)) \in Nat /\ Cardinality(rows) \in Nat
      BY <1>1, <1>2, NewerShrinks
    <2> QED
      BY <1>1, <1>3, <2>2
  <1>4. ASSUME NEW c \in keep, NEW t \in older, c <= t
        PROVE  t \in keep
    <2>1. /\ Cardinality(Newer(older, t)) <= Cardinality(Newer(older, c))
          /\ Cardinality(Newer(older, t)) \in Nat /\ Cardinality(Newer(older, c)) \in Nat
      BY <1>4, NewerShrinks
    <2>2. t \in rows
      BY <1>1, <2>1
    <2>3. /\ Cardinality(Newer(rows, t)) <= Cardinality(Newer(rows, c))
          /\ Cardinality(Newer(rows, t)) \in Nat /\ Cardinality(Newer(rows, c)) \in Nat
      BY <1>2, <1>4, NewerShrinks
    <2> QED
      BY <1>1, <2>2, <2>3
  <1> QED
    BY <1>3, <1>4

\* The page that GetHistory and GetGroupHistory compute is a page, covers what
\* it should, and shows what there is.
LEMMA ReadPageCovers ==
    ASSUME HistoryTypeOK, NEW p \in Page
    PROVE  /\ ReadPage(p) \in Page /\ Covers(ReadPage(p))
           /\ ReadPage(p).began = p.began
           /\ ReadPage(p).doomed = Written \intersect Doomed /\ ReadPage(p).old = Old
           /\ ReadPage(p).hidden = p.hidden
  <1> DEFINE older == {t \in Present : CreatedAt[t] < p.before}
             rows == Fetched(p.before)
             live == {t \in rows : table[t].age # "expired"}
             keep == {t \in live : Cardinality({x \in live : x > t}) < PageLimit}
             last == CHOOSE t \in keep : \A x \in keep : t <= x
             end == IF Cardinality(live) > PageLimit THEN CreatedAt[last] ELSE 0
  <1>1. ReadPage(p) = [p EXCEPT !.shown = keep, !.skipped = rows \ live, !.cursor = end,
                                !.had = Present, !.doomed = Written \intersect Doomed,
                                !.old = Old]
    BY DEF ReadPage, Old
  <1>2. Present \subseteq Times /\ Written \intersect Doomed \subseteq Times /\ Old \subseteq Times
    BY DEF Present, Old, Written
  <1>3. older \in SUBSET Times /\ rows \in SUBSET older /\ live \in SUBSET rows
        /\ keep \in SUBSET live
    BY <1>2 DEF Fetched
  <1>4. \A t \in older : t \in rows <=> Cardinality(Newer(older, t)) < PageLimit + 1
    BY DEF Fetched, Newer
  <1>5. \A t \in live : t \in keep <=> Cardinality(Newer(live, t)) < PageLimit
    BY DEF Newer
  <1>6. /\ last = CHOOSE t \in keep : \A x \in keep : t <= x
        /\ end = IF Cardinality(live) > PageLimit THEN CreatedAt[last] ELSE 0
    OBVIOUS
  <1>7. older = {t \in Present : CreatedAt[t] < p.before}
    OBVIOUS
  <1> HIDE DEF older, rows, live, keep, last, end
  <1>8. Cardinality(live) \in Nat /\ PageLimit \in Nat \ {0} /\ Slots \in Nat /\ 0 \notin Times
        /\ Times \subseteq 0 .. Slots /\ 0 \in 0 .. Slots
    <2>1. live \in SUBSET Times
      BY <1>3
    <2> QED
      BY <2>1, FewerTimes, HistoryAssumption DEF Times
  <1>9. Cardinality(live) > PageLimit => \E c \in keep : \A x \in keep : c <= x
    <2> SUFFICES ASSUME Cardinality(live) > PageLimit
                 PROVE  \E c \in keep : \A x \in keep : c <= x
      OBVIOUS
    <2>1. live # {}
      BY <1>8, FS_EmptySet
    <2>2. live \in SUBSET Times
      BY <1>3
    <2>3. PICK m \in live : \A x \in live : x <= m
      <3>1. live \subseteq Nat /\ \A x \in live : x <= Slots
        BY <2>2, <1>8 DEF Times
      <3> QED
        BY <1>8, <2>1, <3>1, GreatestExists
    <2>4. Newer(live, m) = {}
      <3>1. \A x \in live : ~ (x > m)
        BY <2>2, <2>3 DEF Times
      <3> QED
        BY <3>1 DEF Newer
    <2>5. m \in keep
      BY <1>5, <1>8, <2>3, <2>4, FS_EmptySet
    <2>6. keep \subseteq Nat /\ keep # {}
      BY <1>3, <2>2, <2>5 DEF Times
    <2> QED
      BY <2>6, LeastExists
  <1>10. \/ /\ Cardinality(live) > PageLimit /\ last \in keep /\ \A x \in keep : last <= x
            /\ end = CreatedAt[last]
         \/ ~ (Cardinality(live) > PageLimit) /\ end = 0
    BY <1>6, <1>9
  <1>11. end \in 0 .. Newest
    <2>1. Slots \in Times /\ Newest \in Nat
      BY HistoryAssumption DEF Times, Newest
    <2>2. \A t \in Times : t <= Slots /\ CreatedAt[t] \in Nat /\ CreatedAt[t] <= Newest
      BY <2>1, HistoryAssumption DEF Times, Newest
    <2>3. keep \subseteq Times
      BY <1>3
    <2> QED
      BY <1>10, <2>1, <2>2, <2>3
  <1>12. ReadPage(p) \in Page
    <2>1. keep \in SUBSET Times /\ rows \ live \in SUBSET Times
      BY <1>3
    <2> DEFINE q == ReadPage(p)
    <2>2. q = [before |-> p.before, cursor |-> end, began |-> p.began, shown |-> keep,
               hidden |-> p.hidden, skipped |-> rows \ live, had |-> Present,
               doomed |-> Written \intersect Doomed, old |-> Old]
      BY <1>1 DEF Page
    <2>3. /\ p.before \in 1 .. Newest + 1 /\ p.began \in {"live", "marked", "gone"}
          /\ p.hidden \in SUBSET Times
      BY DEF Page
    <2> HIDE DEF q
    <2> QED
      BY <1>2, <1>11, <2>1, <2>2, <2>3 DEF Page, q
  <1>13. /\ ReadPage(p).shown = keep /\ ReadPage(p).skipped = rows \ live
         /\ ReadPage(p).cursor = end /\ ReadPage(p).had = Present
         /\ ReadPage(p).before = p.before /\ ReadPage(p).began = p.began
         /\ ReadPage(p).doomed = Written \intersect Doomed /\ ReadPage(p).old = Old
         /\ ReadPage(p).hidden = p.hidden
    BY <1>1 DEF Page
  <1>14. Covers(ReadPage(p))
    <2> SUFFICES ASSUME rows = live, NEW t \in older, end < CreatedAt[t]
                 PROVE  t \in keep
      BY <1>3, <1>7, <1>13 DEF Covers
    <2>1. \A s \in older : s \in rows <=> Cardinality(Newer(older, s)) < PageLimit + 1
      BY <1>4
    <2>2. \A s \in rows : s \in keep <=> Cardinality(Newer(rows, s)) < PageLimit
      BY <1>5
    <2>3. older \in SUBSET Times /\ rows \in SUBSET older /\ keep \in SUBSET rows
      BY <1>3
    <2>4. /\ Cardinality(rows) <= PageLimit => older \subseteq keep
          /\ \A c \in keep : \A s \in older : c <= s => s \in keep
      BY <2>1, <2>2, <2>3, PageCovers
    <2>5. ASSUME last \in keep, end = CreatedAt[last]
          PROVE  last <= t
      <3>1. last \in Times /\ t \in Times
        BY <1>3, <2>5
      <3>2. CreatedAt[last] \in Nat /\ CreatedAt[t] \in Nat
            /\ (t <= last => CreatedAt[t] <= CreatedAt[last])
        BY <3>1, HistoryAssumption
      <3> QED
        BY <2>5, <3>1, <3>2 DEF Times
    <2> QED
      BY <1>8, <1>10, <2>4, <2>5
  <1> QED
    BY <1>3, <1>12, <1>13, <1>14

\* created_at is a positive number, and the newest one the greatest.
LEMMA NewestTyped == Newest \in Nat \ {0}
  BY HistoryAssumption DEF Newest, Times

\* An empty conversation satisfies the invariant.
LEMMA HistoryInitInv ==
    ASSUME HistoryInit
    PROVE  HistoryInv
  <1>1. HistoryTypeOK
    <2>1. NoPage \in Page /\ Absent \in HistoryRow /\ 0 \in 0 .. Newest
      BY NewestTyped DEF NoPage, Page, Absent, HistoryRow
    <2> QED
      BY <2>1 DEF HistoryInit, HistoryTypeOK, NoHistoryRequest, NoScan
  <1>2. Old = {}
    BY DEF HistoryInit, Old, Written, Absent
  <1> QED
    BY <1>1, <1>2 DEF HistoryInit, HistoryInv, NoHistoryRequest, ErasedClean, PageHides,
                      HistoryHidesWiped, NoScan

\* A step that leaves the request and the cursor alone.
LEMMA TableStep ==
    ASSUME HistoryInv, HistoryTypeOK', UNCHANGED <<kind, hreq>>,
           ErasedClean', peer' = peer \/ peer = "live" \/ peer' = "gone",
           peer = "gone" => peer' = "gone", peer # "live" => peer' # "live"
    PROVE  HistoryInv'
  BY DEF HistoryInv, HistoryTypeOK, PageHides, HistoryHidesWiped, Covers

\* A step of the request.
LEMMA RequestStep ==
    ASSUME HistoryInv, UNCHANGED <<kind, table, acks, wipeVars>>, cursor' \in 0 .. Newest,
           hreq' \in [pc : {"idle", "begun", "checked", "fetched", "answered"}, page : Page],
           PageHides', HistoryHidesWiped',
           hreq'.pc \in {"fetched", "answered"} => Covers(hreq'.page)
    PROVE  HistoryInv'
  BY DEF HistoryInv, HistoryTypeOK, ErasedClean, Old, Written, Doomed, wipeVars

\* A step of the rows while no job moves: no row becomes an old one but in the
\* account's lifetime, and then with its index row.
LEMMA RowsStep ==
    ASSUME ErasedClean, UNCHANGED <<peer, scan>>,
           \/ UNCHANGED lateRows /\ Old' \subseteq Old /\ index' = index
           \/ peer # "live" /\ Old' \subseteq Old /\ index' = index
           \/ peer = "live" /\ UNCHANGED lateRows /\ Old' \subseteq index'
           \/ peer # "live" /\ Old' \subseteq Old /\ Old' \subseteq index'
    PROVE  ErasedClean'
  BY DEF ErasedClean

\* A row that was marked read is a row.
LEMMA ReadTyped ==
    ASSUME NEW f \in [Times -> HistoryRow], NEW t \in Times
    PROVE  [f EXCEPT ![t].read = TRUE] \in [Times -> HistoryRow]
  BY DEF HistoryRow

\* So is one whose text has expired, or is gone.
LEMMA AgeTyped ==
    ASSUME NEW f \in [Times -> HistoryRow], NEW t \in Times, NEW a \in {"absent", "expired"}
    PROVE  /\ [f EXCEPT ![t].age = a] \in [Times -> HistoryRow]
           /\ [f EXCEPT ![t].age = a][t].age = a
           /\ \A x \in Times \ {t} : [f EXCEPT ![t].age = a][x] = f[x]
  BY DEF HistoryRow

\* Sending, expiry, reads, pages and the wipe of the peer keep the invariant.
LEMMA HistoryNextInv ==
    ASSUME HistoryInv, [HistoryNext]_historyVars
    PROVE  HistoryInv'
  <1> USE DEF HistoryInv
  <1>1. ASSUME NEW t \in Times, NEW age \in {"keeps", "expires"}, StoreMessage(t, age)
        PROVE  HistoryInv'
    <2>1. HistoryTypeOK'
      BY <1>1 DEF StoreMessage, HistoryTypeOK, HistoryRow, Doomed
    <2>2. UNCHANGED <<kind, hreq, peer, scan>>
      BY <1>1 DEF StoreMessage
    <2>3. Written' = Written \union {t} /\ Doomed' = Doomed
      BY <1>1 DEF StoreMessage, Written, HistoryTypeOK, HistoryRow, Doomed
    <2>4. ErasedClean'
      <3>1. Old' \subseteq index'
        BY <1>1, <2>3 DEF StoreMessage, Old, ErasedClean
      <3>2. peer # "live" => Old' \subseteq Old
        BY <1>1, <2>3 DEF StoreMessage, Old
      <3>3. peer = "live" => lateRows' = lateRows
        BY <1>1 DEF StoreMessage
      <3> QED
        BY <2>2, <3>1, <3>2, <3>3, RowsStep
    <2> QED
      BY <2>1, <2>2, <2>4, TableStep
  <1>2. ASSUME NEW t \in Times, Expires(t)
        PROVE  HistoryInv'
    <2>1. table' = [table EXCEPT ![t].age = "expired"] /\ table[t].age = "expires"
          /\ UNCHANGED <<kind, acks, peer, scan, hreq, cursor, index, lateRows>>
      BY <1>2 DEF Expires, wipeVars
    <2>2. HistoryTypeOK'
      BY <2>1, AgeTyped DEF HistoryTypeOK
    <2>3. Written' \subseteq Written /\ Doomed' = Doomed
      <3>1. /\ table'[t].age = "expired"
            /\ \A x \in Times \ {t} : table'[x] = table[x]
        BY <2>1, AgeTyped DEF HistoryTypeOK
      <3> QED
        BY <2>1, <3>1 DEF Written, Doomed
    <2> QED
      BY <2>1, <2>2, <2>3, RowsStep, TableStep DEF Old
  <1>3. ASSUME NEW t \in Times, TTLEnds(t)
        PROVE  HistoryInv'
    <2>1. table' = [table EXCEPT ![t].age = "absent"]
          /\ UNCHANGED <<kind, acks, peer, scan, hreq, cursor>>
          /\ index' = index \ {t} /\ lateRows' = lateRows \ {t}
      BY <1>3 DEF TTLEnds
    <2>2. HistoryTypeOK'
      BY <2>1, AgeTyped DEF HistoryTypeOK
    <2>3. Written' = Written \ {t} /\ Doomed' = Doomed
      <3>1. /\ table'[t].age = "absent"
            /\ \A x \in Times \ {t} : table'[x] = table[x]
        BY <2>1, AgeTyped DEF HistoryTypeOK
      <3> QED
        BY <2>1, <3>1 DEF Written, Doomed
    <2>4. Old' \subseteq Old /\ Old' \subseteq index'
      BY <2>1, <2>3 DEF Old, ErasedClean
    <2>5. peer = "live" => lateRows' = lateRows
      BY <2>1 DEF ErasedClean
    <2>6. ErasedClean'
      BY <2>1, <2>4, <2>5, RowsStep
    <2> QED
      BY <2>1, <2>2, <2>6, TableStep
  <1>4. ASSUME NEW t \in Times, MarkRead(t) \/ SendReadAck(t)
        PROVE  HistoryInv'
    <2>1. /\ table' = [table EXCEPT ![t].read = TRUE] \/ table' = table
          /\ acks' \subseteq Times
          /\ UNCHANGED <<kind, index, lateRows, peer, scan, hreq, cursor>>
      BY <1>4 DEF MarkRead, SendReadAck, HistoryTypeOK, wipeVars
    <2>2. HistoryTypeOK'
      BY <2>1, ReadTyped DEF HistoryTypeOK
    <2>3. Written' = Written /\ Doomed' = Doomed
      BY <2>1 DEF Written, Doomed, HistoryTypeOK, HistoryRow
    <2> QED
      BY <2>1, <2>2, <2>3, RowsStep, TableStep DEF Old
  <1>11. CASE WipePeer
    <2>1. HistoryTypeOK' /\ UNCHANGED <<kind, hreq>> /\ peer = "live" /\ peer' = "marked"
      BY <1>11 DEF WipePeer, HistoryTypeOK
    <2>2. ErasedClean'
      BY <1>11 DEF WipePeer, ErasedClean, Old, Written, Doomed
    <2> QED
      BY <2>1, <2>2, TableStep
  <1>12. ASSUME NEW w \in Wipers,
                ScanPeer(w) \/ EraseIndex(w) \/ ScanFails(w) \/ ErasePeer(w)
         PROVE  HistoryInv'
    <2>1. /\ UNCHANGED <<kind, table, acks, lateRows, hreq, cursor>>
          /\ index' = index \/ (index' = {} /\ EraseIndex(w))
          /\ \A v \in Wipers \ {w} : scan'[v] = scan[v]
          /\ peer' = peer \/ (peer' = "gone" /\ ErasePeer(w))
      BY <1>12 DEF ScanPeer, EraseIndex, ScanFails, ErasePeer, HistoryTypeOK
    <2>2. scan[w] \in [pc : {"idle", "scanned", "done"}, todo : SUBSET Times]
      BY DEF HistoryTypeOK
    <2>3. scan' \in [Wipers -> [pc : {"idle", "scanned", "done"}, todo : SUBSET Times]]
      <3>1. CASE ScanPeer(w)
        BY <3>1 DEF ScanPeer, HistoryTypeOK
      <3>2. CASE EraseIndex(w)
        BY <3>2 DEF EraseIndex, HistoryTypeOK
      <3>3. CASE ScanFails(w) \/ ErasePeer(w)
        BY <3>3 DEF ScanFails, ErasePeer, NoScan, HistoryTypeOK
      <3> QED
        BY <1>12, <3>1, <3>2, <3>3
    <2>4. HistoryTypeOK'
      BY <2>1, <2>3 DEF HistoryTypeOK
    <2>5. Old' = Old
      BY <2>1 DEF Old, Written, Doomed
    <2>6. peer # "live"
      BY <1>12 DEF ScanPeer, EraseIndex, ScanFails, ErasePeer, ErasedClean
    <2>7. EraseIndex(w) => Old = {}
      BY DEF EraseIndex, ErasedClean
    <2>8. ErasePeer(w) => Old = {}
      BY DEF ErasePeer, ErasedClean
    <2>9. /\ scan'[w].pc = "scanned" => scan'[w].todo = index
          /\ scan'[w].pc = "done" => Old = {}
      <3>1. CASE ScanPeer(w)
        BY <3>1 DEF ScanPeer, HistoryTypeOK
      <3>2. CASE EraseIndex(w)
        BY <3>2, <2>7 DEF EraseIndex, HistoryTypeOK
      <3>3. CASE ScanFails(w) \/ ErasePeer(w)
        BY <3>3 DEF ScanFails, ErasePeer, NoScan, HistoryTypeOK
      <3> QED
        BY <1>12, <3>1, <3>2, <3>3
    <2>10. ErasedClean'
      BY <2>1, <2>5, <2>6, <2>7, <2>8, <2>9 DEF ErasedClean
    <2> QED
      BY <2>1, <2>4, <2>6, <2>10, TableStep
  <1>13. ASSUME NEW w \in Wipers, NEW t \in Times, EraseRow(w, t)
         PROVE  HistoryInv'
    <2>1. /\ table' = [table EXCEPT ![t] = Absent] /\ lateRows' = lateRows \ {t}
          /\ scan' = [scan EXCEPT ![w].todo = @ \ {t}]
          /\ scan[w].pc = "scanned"
          /\ UNCHANGED <<kind, index, acks, peer, hreq, cursor>>
      BY <1>13 DEF EraseRow
    <2>2. /\ scan'[w].pc = "scanned" /\ scan'[w].todo = scan[w].todo \ {t}
          /\ \A v \in Wipers \ {w} : scan'[v] = scan[v]
      BY <2>1 DEF HistoryTypeOK
    <2>3. Absent \in HistoryRow
      BY DEF Absent, HistoryRow
    <2>4. HistoryTypeOK'
      BY <2>1, <2>3 DEF HistoryTypeOK
    <2>5. Old' \subseteq Old \ {t}
      BY <2>1 DEF Old, Written, Doomed, Absent, HistoryTypeOK
    <2>6. peer # "live"
      BY <2>1 DEF ErasedClean
    <2>7. ErasedClean'
      BY <2>1, <2>2, <2>5, <2>6 DEF ErasedClean
    <2> QED
      BY <2>1, <2>4, <2>7, TableStep
  <1>5. CASE RequestHistory
    <2>1. PICK b \in {Newest + 1, cursor} \ {0} :
            hreq' = [pc |-> "begun", page |-> [NoPage EXCEPT !.before = b, !.began = peer]]
      BY <1>5 DEF RequestHistory
    <2>2. b \in 1 .. Newest + 1
      BY NewestTyped DEF HistoryTypeOK
    <2>3. [NoPage EXCEPT !.before = b, !.began = peer] \in Page
      <3>1. NoPage \in Page
        BY NewestTyped DEF NoPage, Page
      <3>2. peer \in {"live", "marked", "gone"}
        BY DEF HistoryTypeOK
      <3> QED
        BY <2>2, <3>1, <3>2 DEF Page
    <2>4. hreq'.pc = "begun" /\ hreq'.page.began = peer /\ hreq'.page.shown = {}
          /\ hreq'.page.had = {} /\ hreq'.page.hidden = {}
      BY <2>1 DEF NoPage
    <2> QED
      BY <1>5, <2>1, <2>3, <2>4, RequestStep
         DEF RequestHistory, HistoryTypeOK, PageHides, HistoryHidesWiped, wipeVars
  <1>6. CASE CheckPeer
    <2> DEFINE q == [hreq.page EXCEPT !.hidden = Times]
    <2>1. q \in Page /\ q.shown = {} /\ q.had = {} /\ q.began = hreq.page.began
      BY <1>6 DEF CheckPeer, HistoryTypeOK, Page, PageHides
    <2>2. Covers(q)
      BY <2>1 DEF Covers
    <2>3. \/ hreq' = [pc |-> "answered", page |-> q]
          \/ peer # "marked" /\ hreq' = [pc |-> "checked", page |-> hreq.page]
      BY <1>6 DEF CheckPeer, Answered, HistoryTypeOK
    <2> HIDE DEF q
    <2>4. hreq' \in [pc : {"idle", "begun", "checked", "fetched", "answered"}, page : Page]
      BY <2>1, <2>3 DEF HistoryTypeOK
    <2>5. PageHides' /\ HistoryHidesWiped'
      BY <1>6, <2>1, <2>3 DEF CheckPeer, PageHides, HistoryHidesWiped, HistoryTypeOK,
                                     wipeVars
    <2> QED
      BY <1>6, <2>2, <2>3, <2>4, <2>5, RequestStep DEF CheckPeer, HistoryTypeOK
  <1>7. CASE ReadDirect
    <2> DEFINE q == ReadPage(hreq.page)
    <2>1. /\ q \in Page /\ Covers(q) /\ q.began = hreq.page.began /\ q.old = Old
      BY ReadPageCovers DEF HistoryTypeOK
    <2>2. hreq' = [pc |-> "answered", page |-> q] /\ hreq.pc = "checked"
      BY <1>7 DEF ReadDirect, Answered
    <2> HIDE DEF q
    <2>3. hreq.page.began # "live" => peer = "gone" /\ Old = {}
      BY <2>2 DEF PageHides, ErasedClean
    <2>4. hreq' \in [pc : {"idle", "begun", "checked", "fetched", "answered"}, page : Page]
      BY <2>1, <2>2
    <2>5. PageHides' /\ HistoryHidesWiped'
      BY <1>7, <2>1, <2>2, <2>3 DEF ReadDirect, PageHides, HistoryHidesWiped, HistoryTypeOK,
                                           wipeVars
    <2> QED
      BY <1>7, <2>1, <2>2, <2>4, <2>5, RequestStep DEF ReadDirect, HistoryTypeOK
  <1>8. CASE ReadGroup
    <2> DEFINE q == ReadPage(hreq.page)
    <2>1. /\ q \in Page /\ Covers(q) /\ q.began = hreq.page.began /\ q.old = Old
          /\ q.doomed = Written \intersect Doomed /\ q.hidden = hreq.page.hidden
      BY ReadPageCovers DEF HistoryTypeOK
    <2>2. hreq' = [pc |-> "fetched", page |-> q] /\ hreq.pc = "begun" /\ kind = "group"
      BY <1>8 DEF ReadGroup
    <2>3. q.doomed \subseteq OfPeer /\ (q.began = "gone" => q.old = {})
      BY <2>1, <2>2 DEF Doomed, PageHides, ErasedClean
    <2> HIDE DEF q
    <2>4. hreq' \in [pc : {"idle", "begun", "checked", "fetched", "answered"}, page : Page]
      BY <2>1, <2>2
    <2>5. PageHides' /\ HistoryHidesWiped'
      BY <1>8, <2>1, <2>2, <2>3 DEF ReadGroup, PageHides, HistoryHidesWiped, HistoryTypeOK,
                                           wipeVars
    <2> QED
      BY <1>8, <2>1, <2>2, <2>4, <2>5, RequestStep DEF ReadGroup, HistoryTypeOK
  <1>9. CASE FilterGroup
    <2> DEFINE wiped == IF peer = "marked" THEN OfPeer ELSE {}
               q == WithoutWiped(hreq.page, wiped)
    <2>1. wiped \in SUBSET Times /\ hreq.page \in Page
      BY HistoryAssumption DEF HistoryTypeOK, Page
    <2>2. peer = "marked" => wiped = OfPeer
      OBVIOUS
    <2>3. hreq' = [pc |-> "answered", page |-> q] /\ hreq.pc = "fetched"
      BY <1>9 DEF FilterGroup, Answered
    <2> HIDE DEF wiped
    <2>4. /\ q \in Page /\ q.shown = hreq.page.shown \ wiped /\ q.hidden = wiped
          /\ q.began = hreq.page.began /\ q.doomed = hreq.page.doomed /\ q.old = hreq.page.old
          /\ q.had = hreq.page.had /\ q.cursor = hreq.page.cursor
          /\ q.before = hreq.page.before /\ q.skipped = hreq.page.skipped
      BY <2>1 DEF WithoutWiped, Page
    <2> HIDE DEF q
    <2>5. Covers(q)
      <3>1. Covers(hreq.page)
        BY <2>3
      <3>2. CASE hreq.page.skipped # {}
        BY <2>4, <3>2 DEF Covers
      <3>3. CASE hreq.page.skipped = {}
        <4>1. ASSUME NEW t \in q.had, q.cursor < CreatedAt[t], CreatedAt[t] < q.before
              PROVE  t \in q.shown \union q.hidden \union q.skipped
          BY <2>3, <2>4, <3>1, <3>3, <4>1 DEF Covers, PageHides
        <4> QED
          BY <4>1 DEF Covers
      <3> QED
        BY <3>2, <3>3
    <2>6. hreq' \in [pc : {"idle", "begun", "checked", "fetched", "answered"}, page : Page]
      BY <2>3, <2>4
    <2>7. PageHides' /\ HistoryHidesWiped'
      BY <1>9, <2>2, <2>3, <2>4 DEF FilterGroup, PageHides, HistoryHidesWiped, HistoryTypeOK,
                                           wipeVars
    <2> QED
      BY <1>9, <2>3, <2>5, <2>6, <2>7, RequestStep DEF FilterGroup, HistoryTypeOK
  <1>10. CASE FinishHistory \/ HistoryFails
    <2>1. NoPage \in Page
      BY NewestTyped DEF NoPage, Page
    <2>2. cursor' \in 0 .. Newest
      BY <1>10 DEF FinishHistory, HistoryFails, HistoryTypeOK, Page
    <2> QED
      BY <1>10, <2>1, <2>2, RequestStep
         DEF FinishHistory, HistoryFails, NoHistoryRequest, PageHides, HistoryHidesWiped
  <1>14. CASE UNCHANGED historyVars
    <2>1. HistoryTypeOK' /\ UNCHANGED <<kind, hreq, peer>> /\ ErasedClean'
      BY <1>14 DEF historyVars, wipeVars, HistoryTypeOK, ErasedClean, Old, Written, Doomed
    <2> QED
      BY <2>1, TableStep
  <1> QED
    BY <1>1, <1>2, <1>3, <1>4, <1>5, <1>6, <1>7, <1>8, <1>9, <1>10, <1>11, <1>12, <1>13,
       <1>14 DEF HistoryNext

\* message-service's history endpoints keep their rows and pages in their types.
THEOREM HistoryTyped == HistorySpec => []HistoryTypeOK
  <1>1. HistoryInv => HistoryTypeOK
    BY DEF HistoryInv
  <1> QED
    BY HistoryInitInv, HistoryNextInv, <1>1, PTL DEF HistorySpec

\* A history request that began after the peer's wipe shows nothing the wipe is
\* to delete while its marker stands, and after final erasure, whatever any
\* number of jobs and late writers do between its two statements, only what was
\* written since the commit (NewGetHistoryHandler); the group endpoint, which
\* asks for the marker last, only if it began after the erasure
\* (NewGetGroupHistoryHandler).
THEOREM WipedHistoryHidden == HistorySpec => []HistoryHidesWiped
  <1>1. HistoryInv => HistoryHidesWiped
    BY DEF HistoryInv
  <1> QED
    BY HistoryInitInv, HistoryNextInv, <1>1, PTL DEF HistorySpec

\* For every page size, number of rows and creation times, tied or not, the
\* limit+1 query, paginationPage and the wiped-sender filter together skip no
\* row that was there and newer than the cursor they hand out, unless an expired
\* one was among the fetched.
THEOREM HistoryPagesComplete == HistorySpec => []PagesLeaveNoGap
  <1>1. HistoryInv => PagesLeaveNoGap
    BY DEF HistoryInv, PagesLeaveNoGap, Covers
  <1> QED
    BY HistoryInitInv, HistoryNextInv, <1>1, PTL DEF HistorySpec
=============================================================================
