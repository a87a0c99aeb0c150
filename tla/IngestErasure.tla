---------------------------- MODULE IngestErasure ----------------------------
(***************************************************************************)
(* The Scylla phase of a panic wipe running against live ingest traffic:   *)
(* for every wiped account a worker of auth-service walks the deletion and *)
(* erasure indexes that message-service writes, and deletes or sanitizes   *)
(* what they point to (ScyllaMessageStore).  Every statement is an action; *)
(* workers of different accounts meet on the recipient list of the same    *)
(* group message.                                                          *)
(***************************************************************************)
EXTENDS DurableIngest

CONSTANTS
    Wiped,        \* accounts that may be wiped
    CASAttempts   \* maxRecipientSanitizeCASAttempts

ASSUME ErasureAssumption ==
    /\ Wiped \subseteq Uins
    /\ CASAttempts \in Nat \ {0}
    \* a direct receipt has one receiver_uin
    /\ \A e \in Envelopes : e.kind = "direct" => \E u \in Uins : e.to = {u}

VARIABLE
    erase   \* the wipe worker of each account

erasureVars == <<vars, erase>>

Phases == {"idle", "direct_rows", "receipts", "direct_outbox", "group_rows",
           "group_outbox", "done"}

\* Rows of the three kinds of index a worker walks.
IndexEntry == RowIndexEntry \union ReceiptIndexEntry \union OutboxIndexEntry

\* A worker: the phase, the statement it executes next, the entries left, and
\* the entry, recipient list and kind it has read for a compare-and-set.
Worker ==
    [phase : Phases, step : {"scan", "item", "mirror", "cas"}, todo : SUBSET IndexEntry,
     at : IndexEntry \union {None}, read : SUBSET Uins, kind : Kind,
     tries : 0..(CASAttempts - 1)]

ErasureTypeOK == TypeOK /\ erase \in [Wiped -> Worker]

\* A worker before the scan of an index, and between two entries of it.
AtPhase(phase) ==
    [phase |-> phase, step |-> "scan", todo |-> {}, at |-> None, read |-> {},
     kind |-> "direct", tries |-> 0]
AtItem(phase, todo, tries) ==
    [phase |-> phase, step |-> "item", todo |-> todo, at |-> None, read |-> {},
     kind |-> "direct", tries |-> tries]

ErasureInit == Init /\ erase = [u \in Wiped |-> AtPhase("idle")]

\* The wipe of u has begun: DeleteUserMessages was called at least once.
Started(u) == u \in Wiped /\ erase[u].phase # "idle"

-----------------------------------------------------------------------------
(***************************************************************************)
(* The walk of one index: scan, then one entry after the other, then drop. *)
(***************************************************************************)

At(u, phases, step) == erase[u].phase \in phases /\ erase[u].step = step

\* DeleteUserMessages, then DeleteUserGroupMessages.
NextPhase == [idle |-> "direct_rows", direct_rows |-> "receipts",
              receipts |-> "direct_outbox", direct_outbox |-> "group_rows",
              group_rows |-> "group_outbox", group_outbox |-> "done"]

RowPhases == {"direct_rows", "group_rows"}
OutboxPhases == {"direct_outbox", "group_outbox"}
PhaseKind(u) ==
    IF erase[u].phase \in {"group_rows", "group_outbox"} THEN "group" ELSE "direct"

\* The partition of u in the index its phase walks.
Rows(u) == {e \in rowIndex : e.uin = u /\ e.kind = PhaseKind(u)}
Receipts(u) == {e \in receiptIndex : e.uin = u}
Outboxes(u) == {e \in outboxIndex : e.uin = u /\ e.kind = PhaseKind(u)}

EraseStart(u) ==
    /\ erase[u].phase = "idle"
    /\ erase' = [erase EXCEPT ![u] = AtPhase("direct_rows")]
    /\ UNCHANGED vars

EraseScan(u) ==
    /\ At(u, Phases \ {"idle", "done"}, "scan")
    /\ LET found == CASE erase[u].phase \in RowPhases -> Rows(u)
                      [] erase[u].phase = "receipts" -> Receipts(u)
                      [] OTHER -> Outboxes(u)
       IN  erase' = [erase EXCEPT ![u] = AtItem(@.phase, found, 0)]
    /\ UNCHANGED vars

\* The worker has dealt with entry e.
Done(u, e) == erase' = [erase EXCEPT ![u] = AtItem(@.phase, @.todo \ {e}, 0)]

\* The partition of u is deleted from the index, entries added since the scan
\* included, and the next phase begins.
EraseDropIndex(u) ==
    /\ At(u, Phases \ {"idle", "done"}, "item")
    /\ erase[u].todo = {}
    /\ rowIndex' = IF erase[u].phase \in RowPhases THEN rowIndex \ Rows(u) ELSE rowIndex
    /\ receiptIndex' = IF erase[u].phase = "receipts"
                       THEN receiptIndex \ Receipts(u) ELSE receiptIndex
    /\ outboxIndex' = IF erase[u].phase \in OutboxPhases
                      THEN outboxIndex \ Outboxes(u) ELSE outboxIndex
    /\ erase' = [erase EXCEPT ![u] = AtPhase(NextPhase[erase[u].phase])]
    /\ UNCHANGED <<clock, receipt, rows, outbox, req, conf, published>>

\* An error, a cancelled context, a crash: the wipe job runs the phase again
\* from its beginning.
EraseFail(u) ==
    /\ erase[u].phase \notin {"idle", "done"}
    /\ erase' = [erase EXCEPT ![u] = AtPhase("direct_rows")]
    /\ UNCHANGED vars

-----------------------------------------------------------------------------
(***************************************************************************)
(* Message rows                                                            *)
(***************************************************************************)

\* A direct message goes, whoever sent it; a group message only if u sent it.
EraseRow(u, e) ==
    /\ At(u, RowPhases, "item")
    /\ e \in erase[u].todo
    /\ rows' = {r \in rows : ~(/\ SameRow(r, e.key, e.created)
                               /\ r.env.kind = e.kind
                               /\ e.kind = "direct" \/ SenderOf[e.key] = u)}
    /\ IF e.kind = "direct"
       THEN erase' = [erase EXCEPT ![u] = [@ EXCEPT !.step = "mirror", !.at = e]]
       ELSE Done(u, e)
    /\ UNCHANGED <<clock, receipt, outbox, receiptIndex, rowIndex, outboxIndex,
                   req, conf, published>>

\* The counterpart's entry for the same direct message.
EraseMirror(u) ==
    LET e == erase[u].at IN
    /\ At(u, {"direct_rows"}, "mirror")
    /\ rowIndex' = {x \in rowIndex : ~(/\ x.key = e.key /\ x.created = e.created
                                       /\ x.kind = "direct" /\ x.uin # u)}
    /\ Done(u, e)
    /\ UNCHANGED <<clock, receipt, rows, outbox, receiptIndex, outboxIndex,
                   req, conf, published>>

-----------------------------------------------------------------------------
(***************************************************************************)
(* Ingest receipts: sanitizeIngestReceipt                                  *)
(***************************************************************************)

\* u sent the message: the receipt is deleted.
EraseSenderReceipt(u, e) ==
    /\ At(u, {"receipts"}, "item")
    /\ e \in erase[u].todo
    /\ SenderOf[e.key] = u
    /\ receipt' = [receipt EXCEPT ![e.key] = None]
    /\ Done(u, e)
    /\ UNCHANGED <<clock, rows, outbox, receiptIndex, rowIndex, outboxIndex,
                   req, conf, published>>

\* The receipt is gone, terminal, expired, or does not name u.
NothingToSanitize(u, k) ==
    LET r == receipt[k] IN
    \/ r = None
    \/ r # None /\ (\/ r.state = "recipient_erased"
                    \/ ~Unexpired(r.created)
                    \/ u \notin r.to)

EraseReadReceipt(u, e) ==
    LET r == receipt[e.key] IN
    /\ At(u, {"receipts"}, "item")
    /\ e \in erase[u].todo
    /\ SenderOf[e.key] # u
    /\ IF NothingToSanitize(u, e.key)
       THEN Done(u, e)
       ELSE erase' = [erase EXCEPT ![u] = [@ EXCEPT !.step = "cas", !.at = e,
                                                    !.read = r.to, !.kind = r.env.kind]]
    /\ UNCHANGED vars

\* The sanitized terminal receipt.
Tombstone(r) ==
    [r EXCEPT !.state = "recipient_erased", !.env = None, !.to = {}, !.sanitized = TRUE]

\* What a worker that read the list leaves: without u, or a tombstone when
\* nobody is left.
Sanitized(r, left) ==
    IF left = {} THEN Tombstone(r) ELSE [r EXCEPT !.to = left, !.sanitized = TRUE]

\* Mutant: UPDATE ... IF EXISTS, with no condition on the list that was read.
SanitizeAppliesIfExists(u) == receipt[erase[u].at.key] # None

\* terminalizeIngestReceipt asks only that the receipt exists; the
\* compare-and-set on a group's list asks that it is the list that was read.
SanitizeApplies(u) ==
    LET r == receipt[erase[u].at.key] IN
    r # None /\ (erase[u].kind = "group" => r.to = erase[u].read)

\* Mutant: a group receipt is terminalized like a direct one.
SanitizeReceiptWhole(u) ==
    LET k == erase[u].at.key IN
    /\ At(u, {"receipts"}, "cas")
    /\ SanitizeApplies(u)
    /\ receipt' = [receipt EXCEPT ![k] = Tombstone(@)]
    /\ Done(u, erase[u].at)
    /\ UNCHANGED <<clock, rows, outbox, receiptIndex, rowIndex, outboxIndex,
                   req, conf, published>>

\* Mutant: a receipt with no recipient left is deleted, not terminalized.
SanitizeReceiptDeletes(u) ==
    LET k == erase[u].at.key IN
    /\ At(u, {"receipts"}, "cas")
    /\ SanitizeApplies(u)
    /\ receipt' = [receipt EXCEPT ![k] =
                     IF erase[u].read = {u} THEN None
                     ELSE Sanitized(@, erase[u].read \ {u})]
    /\ Done(u, erase[u].at)
    /\ UNCHANGED <<clock, rows, outbox, receiptIndex, rowIndex, outboxIndex,
                   req, conf, published>>

SanitizeReceipt(u) ==
    LET k == erase[u].at.key IN
    /\ At(u, {"receipts"}, "cas")
    /\ SanitizeApplies(u)
    /\ receipt' = [receipt EXCEPT ![k] = Sanitized(@, erase[u].read \ {u})]
    /\ Done(u, erase[u].at)
    /\ UNCHANGED <<clock, rows, outbox, receiptIndex, rowIndex, outboxIndex,
                   req, conf, published>>

\* The list changed since it was read: read it again, up to CASAttempts times.
Retry(u) ==
    IF erase[u].tries + 1 = CASAttempts
    THEN erase' = [erase EXCEPT ![u] = AtPhase("direct_rows")]
    ELSE erase' = [erase EXCEPT ![u] = AtItem(@.phase, @.todo, @.tries + 1)]

\* A direct receipt that is gone needs no tombstone.
SanitizeReceiptLost(u) ==
    /\ At(u, {"receipts"}, "cas")
    /\ ~SanitizeApplies(u)
    /\ IF erase[u].kind = "direct" THEN Done(u, erase[u].at) ELSE Retry(u)
    /\ UNCHANGED vars

-----------------------------------------------------------------------------
(***************************************************************************)
(* Outbox rows: deleteDirectOutboxEntries, deleteGroupOutboxEntries        *)
(***************************************************************************)

\* The outbox row an index entry points to, as a set of at most one.
OutboxAt(e) == {o \in outbox : SameRow(o, e.key, e.created) /\ o.env.kind = e.kind}

\* A direct message, or a group message u sent: the row is deleted.
EraseOutbox(u, e) ==
    /\ At(u, OutboxPhases, "item")
    /\ e \in erase[u].todo
    /\ e.kind = "direct" \/ e.role = "sender"
    /\ outbox' = outbox \ OutboxAt(e)
    /\ Done(u, e)
    /\ UNCHANGED <<clock, receipt, rows, receiptIndex, rowIndex, outboxIndex,
                   req, conf, published>>

EraseReadOutbox(u, e) ==
    /\ At(u, OutboxPhases, "item")
    /\ e \in erase[u].todo
    /\ e.kind = "group"
    /\ e.role = "recipient"
    /\ LET live == {o \in OutboxAt(e) : Unexpired(o.created) /\ u \in o.to}
       IN  IF live = {}
           THEN Done(u, e)
           ELSE \E o \in live :
                  erase' = [erase EXCEPT ![u] = [@ EXCEPT !.step = "cas", !.at = e,
                                                          !.read = o.to]]
    /\ UNCHANGED vars

\* The last recipient: the row is deleted, if it still exists.
SanitizeOutboxEmpty(u) ==
    /\ At(u, OutboxPhases, "cas")
    /\ erase[u].read = {u}
    /\ outbox' = outbox \ OutboxAt(erase[u].at)
    /\ Done(u, erase[u].at)
    /\ UNCHANGED <<clock, receipt, rows, receiptIndex, rowIndex, outboxIndex,
                   req, conf, published>>

\* Mutant: the row goes with any recipient.
SanitizeOutboxDrops(u) ==
    LET e == erase[u].at IN
    /\ At(u, OutboxPhases, "cas")
    /\ outbox' = outbox \ OutboxAt(e)
    /\ Done(u, e)
    /\ UNCHANGED <<clock, receipt, rows, receiptIndex, rowIndex, outboxIndex,
                   req, conf, published>>

SanitizeOutbox(u) ==
    LET e == erase[u].at IN
    /\ At(u, OutboxPhases, "cas")
    /\ erase[u].read # {u}
    /\ \E o \in OutboxAt(e) :
         /\ o.to = erase[u].read
         /\ outbox' = (outbox \ {o}) \union {[o EXCEPT !.to = @ \ {u}]}
    /\ Done(u, e)
    /\ UNCHANGED <<clock, receipt, rows, receiptIndex, rowIndex, outboxIndex,
                   req, conf, published>>

SanitizeOutboxLost(u) ==
    /\ At(u, OutboxPhases, "cas")
    /\ erase[u].read # {u}
    /\ \A o \in OutboxAt(erase[u].at) : o.to # erase[u].read
    /\ Retry(u)
    /\ UNCHANGED vars

-----------------------------------------------------------------------------
EraseStep(u) ==
    \/ EraseStart(u) \/ EraseScan(u) \/ EraseDropIndex(u) \/ EraseFail(u)
    \/ \E e \in erase[u].todo :
         \/ EraseRow(u, e)
         \/ EraseSenderReceipt(u, e) \/ EraseReadReceipt(u, e)
         \/ EraseOutbox(u, e) \/ EraseReadOutbox(u, e)
    \/ EraseMirror(u)
    \/ SanitizeReceipt(u) \/ SanitizeReceiptLost(u)
    \/ SanitizeOutboxEmpty(u) \/ SanitizeOutbox(u) \/ SanitizeOutboxLost(u)

ErasureNext ==
    \/ Next /\ UNCHANGED erase
    \/ \E u \in Wiped : EraseStep(u)

ErasureSpec == ErasureInit /\ [][ErasureNext]_erasureVars

-----------------------------------------------------------------------------
(***************************************************************************)
(* Properties                                                              *)
(***************************************************************************)

\* A group message with a live sender and a live recipient.
StillWanted(k, e) ==
    /\ e.kind = "group"
    /\ ~Started(SenderOf[k])
    /\ \E u \in e.to : ~Started(u)

\* Wiping some members of a group does not take an acknowledged message from
\* the others: its row and its receipt stay, and while the receipt is only
\* stored the outbox row still names every live recipient
\* (sanitizeIngestReceipt, sanitizeGroupOutboxRecipients).
OthersKeepMessage ==
    \A q \in Requests :
        /\ req[q].pc = "acked"
        /\ Unexpired(req[q].rec.created)
        /\ StillWanted(req[q].key, req[q].env)
        => LET k == req[q].key
               c == req[q].rec.created
           IN  /\ ReceiptIs(k, c, req[q].env)
               /\ [key |-> k, created |-> c, env |-> req[q].env] \in rows
               /\ receipt[k].state = "stored" =>
                    \E o \in outbox :
                        /\ SameRow(o, k, c)
                        /\ {u \in req[q].env.to : ~Started(u)} \subseteq o.to

\* The same receipt before and after a step.
SameIncarnation(k) ==
    receipt[k] # None /\ receipt'[k] # None /\ receipt[k].created = receipt'[k].created

\* A recipient removed from a receipt never comes back, whatever the other
\* workers and the request handlers wrote at the same time; and a tombstone is
\* final: no takeover, MarkStored or MarkDelivered revives the message.
ErasedForGood ==
    [][\A k \in Keys :
          SameIncarnation(k) =>
             /\ receipt'[k].to \subseteq receipt[k].to
             /\ receipt[k].state = "recipient_erased" => receipt'[k] = receipt[k]]_erasureVars

\* The wipe of recipients never reopens a client_id of a live sender: a retry
\* is not leased what another handler still works on, no second row is stored,
\* and what was acknowledged stays claimed until it expires, although workers
\* of another service rewrite the receipt meanwhile (terminalizeIngestReceipt
\* leaves a tombstone and deletes nothing).
ClaimSurvivesWipes ==
    /\ \A p, q \in Requests :
          /\ LeaseLive(p) /\ LeaseLive(q)
          /\ req[p].key = req[q].key
          /\ ~Started(SenderOf[req[p].key])
          => p = q
    /\ \A r1, r2 \in rows :
          /\ Unexpired(r1.created) /\ Unexpired(r2.created)
          /\ r1.key = r2.key
          /\ ~Started(SenderOf[r1.key])
          => r1 = r2
    /\ \A q \in Requests :
          /\ req[q].pc = "acked" /\ Unexpired(req[q].rec.created)
          /\ ~Started(SenderOf[req[q].key])
          => /\ receipt[req[q].key] # None
             /\ receipt[req[q].key].created = req[q].rec.created
             /\ receipt[req[q].key].state # "pending"

\* The receipt of a live sender becomes a tombstone only when everybody it was
\* still meant for is being wiped: a live recipient never loses a message to
\* someone else's wipe.  (terminalizeIngestReceipt asks only that a receipt
\* exists; while the sender lives and nothing expires it is the one read.)
TombstoneOnlyWhenAllWiped ==
    [][\A k \in Keys :
          /\ SameIncarnation(k)
          /\ ~Started(SenderOf[k])
          /\ receipt[k].state # "recipient_erased"
          /\ receipt'[k].state = "recipient_erased"
          => \A u \in receipt[k].to : Started(u)]_erasureVars

=============================================================================
