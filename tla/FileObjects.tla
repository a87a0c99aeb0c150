----------------------------- MODULE FileObjects -----------------------------
(***************************************************************************)
(* file-service and the erasure of a wiped account's files: ownership and   *)
(* grants in PostgreSQL, objects in MinIO, and pre-signed URLs that let a   *)
(* client write to MinIO without any service for their lifetime.  A call of *)
(* PanicWipe captures the object keys, deletes the rows in its transaction  *)
(* and leaves the removal of the objects, one by one, to its job.  A second *)
(* call, admitted before the first one committed, has a job of its own.     *)
(***************************************************************************)
EXTENDS Naturals, FiniteSets

CONSTANTS
    Objects,  \* object keys; each is minted by one upload-url request
    Owners,   \* accounts
    Wiped,    \* the account that is wiped
    Erasures, \* calls of PanicWipe for it; each inserts at most one job
    NoOwner

ASSUME FilesAssumption ==
    /\ Wiped \in Owners /\ NoOwner \notin Owners
    /\ Objects \intersect Owners = {}

VARIABLES
    slot,     \* upload-url requests and their URLs
    owner,    \* file_objects
    grants,   \* file_object_grants
    bucket,   \* objects of the files bucket
    avatars,  \* the avatars bucket, by account
    avatarURL,\* accounts with a valid URL for their avatar
    account,  \* users row and marker of the wiped account
    eraser,   \* the calls and their jobs: step, captured keys, keys left to remove
    late      \* history: registered too late to be captured, or registered or
              \* written after the commit, and not removed since

fileVars == <<slot, owner, grants, bucket, avatars, avatarURL, account, eraser, late>>

FilesTypeOK ==
    /\ slot \in [Objects -> [pc : {"new", "signed", "given", "closed"},
                             uin : Owners \union {NoOwner}, put : BOOLEAN]]
    /\ owner \in [Objects -> Owners \union {NoOwner}]
    /\ grants \subseteq Objects \X Owners
    /\ bucket \subseteq Objects
    /\ avatars \subseteq Owners
    /\ avatarURL \subseteq Owners
    /\ account \in {"live", "marked", "gone"}
    /\ eraser \in [Erasures -> [pc : {"idle", "captured", "removing", "removed", "erased", "done"},
                                keys : SUBSET Objects, todo : SUBSET Objects]]
    /\ late \subseteq Objects \union Owners

NoEraser == [pc |-> "idle", keys |-> {}, todo |-> {}]

FilesInit ==
    /\ slot = [o \in Objects |-> [pc |-> "new", uin |-> NoOwner, put |-> FALSE]]
    /\ owner = [o \in Objects |-> NoOwner]
    /\ grants = {}
    /\ bucket = {}
    /\ avatars = {}
    /\ avatarURL = {}
    /\ account = "live"
    /\ eraser = [w \in Erasures |-> NoEraser]
    /\ late = {}

Authenticated(u) == u = Wiped => account = "live"
Exists(u) == u = Wiped => account # "gone"

\* x of u is registered or written after the wipe committed; it is excused until
\* it is removed.
TooLate(u, x) == IF u = Wiped /\ account # "live" THEN late \union {x} ELSE late

-----------------------------------------------------------------------------
\* UploadURL: size and content type are checked, a fresh key is signed ...
GenerateUploadURL(o, u) ==
    /\ slot[o].pc = "new" /\ Authenticated(u)
    /\ slot' = [slot EXCEPT ![o].pc = "signed", ![o].uin = u]
    /\ UNCHANGED <<owner, grants, bucket, avatars, avatarURL, account, eraser, late>>

\* ... its owner is registered, and only then the URL is given away.
RegisterObject(o) ==
    /\ slot[o].pc = "signed"
    /\ \/ /\ Exists(slot[o].uin)
          /\ owner' = [owner EXCEPT ![o] = slot[o].uin]
          /\ slot' = [slot EXCEPT ![o].pc = "given"]
          /\ late' = TooLate(slot[o].uin, o)
       \/ slot' = [slot EXCEPT ![o].pc = "closed"] /\ UNCHANGED <<owner, late>>
    /\ UNCHANGED <<grants, bucket, avatars, avatarURL, account, eraser>>

\* The client's PUT, which MinIO checks against nothing but the signature.
PutObject(o) ==
    /\ slot[o].pc = "given"
    /\ bucket' = bucket \union {o}
    /\ slot' = [slot EXCEPT ![o].put = TRUE]
    /\ late' = TooLate(slot[o].uin, o)
    /\ UNCHANGED <<owner, grants, avatars, avatarURL, account, eraser>>

URLExpires(o) ==
    /\ slot[o].pc = "given"
    /\ slot' = [slot EXCEPT ![o].pc = "closed"]
    /\ UNCHANGED <<owner, grants, bucket, avatars, avatarURL, account, eraser, late>>

\* Grant and Revoke are single statements on the owner's row.
Grant(o, u, v) ==
    /\ owner[o] = u /\ u # v /\ Exists(v)
    /\ grants' = grants \union {<<o, v>>}
    /\ UNCHANGED <<slot, owner, bucket, avatars, avatarURL, account, eraser, late>>

Revoke(o, v) ==
    /\ <<o, v>> \in grants
    /\ grants' = grants \ {<<o, v>>}
    /\ UNCHANGED <<slot, owner, bucket, avatars, avatarURL, account, eraser, late>>

\* Owns, which DownloadURL asks before it signs a GET URL.
Owns(o, u) == owner[o] = u \/ (owner[o] # NoOwner /\ <<o, u>> \in grants)

GenerateAvatarUploadURL(u) ==
    /\ Authenticated(u)
    /\ avatarURL' = avatarURL \union {u}
    /\ UNCHANGED <<slot, owner, grants, bucket, avatars, account, eraser, late>>

PutAvatar(u) ==
    /\ u \in avatarURL
    /\ avatars' = avatars \union {u}
    /\ late' = TooLate(u, u)
    /\ UNCHANGED <<slot, owner, grants, bucket, avatarURL, account, eraser>>

AvatarURLExpires(u) ==
    /\ u \in avatarURL
    /\ avatarURL' = avatarURL \ {u}
    /\ UNCHANGED <<slot, owner, grants, bucket, avatars, account, eraser, late>>

-----------------------------------------------------------------------------
\* Mutant: the keys the account can read instead of those it owns.
CapturedReadable == {o \in Objects : Owns(o, Wiped)}

\* qSelectFileObjectKeys.
Captured == {o \in Objects : owner[o] = Wiped}

CaptureFileKeys(w) ==
    /\ eraser[w].pc = "idle"
    /\ eraser' = [eraser EXCEPT ![w] = [pc |-> "captured", keys |-> Captured, todo |-> {}]]
    /\ UNCHANGED <<slot, owner, grants, bucket, avatars, avatarURL, account, late>>

\* An error before the commit, or no user row; another attempt captures again.
WipeAborts(w) ==
    /\ eraser[w].pc = "captured"
    /\ eraser' = [eraser EXCEPT ![w] = NoEraser]
    /\ UNCHANGED <<slot, owner, grants, bucket, avatars, avatarURL, account, late>>

\* What refers to the account: its rows, grants of its objects and grants to it.
Unreferenced ==
    /\ owner' = [o \in Objects |-> IF owner[o] = Wiped THEN NoOwner ELSE owner[o]]
    /\ grants' = {g \in grants : owner[g[1]] # Wiped /\ g[2] # Wiped}

\* The transaction, under the lock of the user row: the rows go, those that were
\* registered since the capture too; the keys are in the job.
CommitWipe(w) ==
    /\ eraser[w].pc = "captured" /\ account # "gone"
    /\ account' = "marked"
    /\ Unreferenced
    /\ late' = late \union (Captured \ eraser[w].keys)
    /\ eraser' = [eraser EXCEPT ![w].pc = "removing", ![w].todo = eraser[w].keys]
    /\ UNCHANGED <<slot, bucket, avatars, avatarURL>>

\* DeleteUserObjects removes the keys in the job at hand one by one ...
RemoveObject(w, o) ==
    /\ eraser[w].pc = "removing" /\ o \in eraser[w].todo
    /\ bucket' = bucket \ {o}
    /\ eraser' = [eraser EXCEPT ![w].todo = @ \ {o}]
    /\ late' = late \ {o}
    /\ UNCHANGED <<slot, owner, grants, avatars, avatarURL, account>>

\* ... and the avatar.
RemoveAvatar(w) ==
    /\ eraser[w].pc = "removing" /\ eraser[w].todo = {}
    /\ avatars' = avatars \ {Wiped}
    /\ eraser' = [eraser EXCEPT ![w].pc = "removed"]
    /\ late' = late \ {Wiped}
    /\ UNCHANGED <<slot, owner, grants, bucket, avatarURL, account>>

\* The row wipe_jobs of the call w is there, and with it the keys it captured.
InJob(w) == eraser[w].pc \in {"removing", "removed", "erased"}

\* Mutant: a failed removal is logged and the next phase goes on.
RemovalFailsSilently(w) ==
    /\ InJob(w)
    /\ eraser' = [eraser EXCEPT ![w].pc = "removed", ![w].todo = {}]
    /\ UNCHANGED <<slot, owner, grants, bucket, avatars, avatarURL, account, late>>

\* A removal, another phase of the pass or what follows the erasure of the user
\* row fails: the job runs from the start.
RemovalFails(w) ==
    /\ InJob(w)
    /\ eraser' = [eraser EXCEPT ![w].pc = "removing", ![w].todo = eraser[w].keys]
    /\ UNCHANGED <<slot, owner, grants, bucket, avatars, avatarURL, account, late>>

\* The user row goes, whatever other jobs of the account have left to do; what
\* refers to the row cascades.
EraseAccount(w) ==
    /\ eraser[w].pc = "removed"
    /\ account' = "gone"
    /\ Unreferenced
    /\ eraser' = [eraser EXCEPT ![w].pc = "erased"]
    /\ UNCHANGED <<slot, bucket, avatars, avatarURL, late>>

\* Last, the job goes, and its keys with it.
DeleteJob(w) ==
    /\ eraser[w].pc = "erased"
    /\ eraser' = [eraser EXCEPT ![w] = [NoEraser EXCEPT !.pc = "done"]]
    /\ UNCHANGED <<slot, owner, grants, bucket, avatars, avatarURL, account, late>>

FilesNext ==
    \/ \E o \in Objects :
         \/ \E u \in Owners : GenerateUploadURL(o, u) \/ Revoke(o, u)
         \/ \E u, v \in Owners : Grant(o, u, v)
         \/ RegisterObject(o) \/ PutObject(o) \/ URLExpires(o)
    \/ \E u \in Owners : \/ GenerateAvatarUploadURL(u) \/ PutAvatar(u) \/ AvatarURLExpires(u)
    \/ \E w \in Erasures :
         \/ CaptureFileKeys(w) \/ WipeAborts(w) \/ CommitWipe(w)
         \/ \E o \in Objects : RemoveObject(w, o)
         \/ RemoveAvatar(w) \/ RemovalFails(w) \/ EraseAccount(w) \/ DeleteJob(w)

FilesSpec == FilesInit /\ [][FilesNext]_fileVars

-----------------------------------------------------------------------------
(***************************************************************************)
(* Properties                                                              *)
(***************************************************************************)

\* captureFileKeys and DeleteUserObjects together forget nothing: once the
\* account is erased, an object of it that is still in MinIO is named by a job
\* that still exists, although a second call captures no keys and its job may
\* erase the account first; or it was registered after the keys had been
\* captured, or written after its removal, through a URL that the wipe cannot
\* revoke.  An avatar is left only if it was written so.
FilesErased ==
    account = "gone" =>
        /\ \A o \in bucket : slot[o].uin = Wiped =>
              o \in late \/ \E w \in Erasures : InJob(w) /\ o \in eraser[w].keys
        /\ Wiped \in avatars => Wiped \in late

\* "scanning and deleting an entire bucket would wipe every user's objects":
\* what another account has uploaded stays, its grants to the wiped account
\* and the retried passes notwithstanding.
OthersFilesStay ==
    \A o \in Objects : slot[o].put /\ slot[o].uin # Wiped => o \in bucket
=============================================================================
