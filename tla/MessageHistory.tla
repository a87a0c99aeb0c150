---------------------------- MODULE MessageHistory ----------------------------
(***************************************************************************)
(* message-service's history endpoints: the reader of a direct conversation *)
(* with a peer, or of a group the peer writes to, while messages arrive,    *)
(* expire and are marked read, and the peer's account is wiped and erased.  *)
(* A history request is several statements on two databases (the            *)
(* wiped_accounts marker in PostgreSQL, the rows in Scylla); the direct and *)
(* the group handler make them in opposite orders.                          *)
(***************************************************************************)
EXTENDS Naturals, FiniteSets

CONSTANTS
    Slots,      \* bound: the conversation's keys are 1 .. Slots, in clustering order
    CreatedAt,  \* the created_at of a key; equal ones differ in the id
    OfPeer,     \* the keys of the peer's messages; the others are the reader's
    PageLimit,  \* limit of a request
    Wipers      \* wipe jobs of the peer

Times == 1 .. Slots

ASSUME HistoryAssumption ==
    /\ Slots \in Nat \ {0} /\ PageLimit \in Nat \ {0}
    /\ CreatedAt \in [Times -> Nat \ {0}]
    /\ \A s, t \in Times : s <= t => CreatedAt[s] <= CreatedAt[t]
    /\ OfPeer \subseteq Times

VARIABLES
    kind,     \* which of the two tables and endpoints
    table,    \* iceq.messages or iceq.group_messages, by key
    index,    \* the peer's rows of message_deletion_index or its group twin
    acks,     \* read receipts on ack.*, by the row's key
    peer,     \* the peer's account: users row and wiped_accounts marker
    scan,     \* the jobs' deletion of the peer's messages: step and rows to delete
    lateRows, \* history: rows that were written after the wipe committed
    hreq,     \* the history request under way and the page it computes
    cursor    \* next_cursor of the last answer, 0 for none

wipeVars == <<index, peer, scan, lateRows>>
historyVars == <<kind, table, acks, wipeVars, hreq, cursor>>

\* A row's columns: none when only a status was written, else whether
\* expires_at is set or past; and whether a status was written.
HistoryRow == [age : {"absent", "keeps", "expires", "expired"}, read : BOOLEAN]
Absent == [age |-> "absent", read |-> FALSE]

Newest == CreatedAt[Slots]

\* began: the account when the request began; had: the rows there were when it
\* read them; doomed: those of them that the wipe is to delete, and old: those
\* of these that were there when it committed; skipped: expired rows among the
\* fetched; hidden: rows withheld because of a wipe.
Page == [before : 1 .. Newest + 1, cursor : 0 .. Newest, began : {"live", "marked", "gone"},
         shown : SUBSET Times, hidden : SUBSET Times, skipped : SUBSET Times,
         had : SUBSET Times, doomed : SUBSET Times, old : SUBSET Times]

HistoryTypeOK ==
    /\ kind \in {"direct", "group"}
    /\ table \in [Times -> HistoryRow]
    /\ index \subseteq Times /\ acks \subseteq Times /\ lateRows \subseteq Times
    /\ peer \in {"live", "marked", "gone"}
    /\ scan \in [Wipers -> [pc : {"idle", "scanned", "done"}, todo : SUBSET Times]]
    /\ hreq \in [pc : {"idle", "begun", "checked", "fetched", "answered"}, page : Page]
    /\ cursor \in 0 .. Newest

NoPage == [before |-> Newest + 1, cursor |-> 0, began |-> "live", shown |-> {}, hidden |-> {},
           skipped |-> {}, had |-> {}, doomed |-> {}, old |-> {}]
NoHistoryRequest == [pc |-> "idle", page |-> NoPage]
NoScan == [pc |-> "idle", todo |-> {}]

HistoryInit ==
    /\ kind \in {"direct", "group"}
    /\ table = [t \in Times |-> Absent]
    /\ index = {} /\ acks = {} /\ lateRows = {}
    /\ peer = "live"
    /\ scan = [w \in Wipers |-> NoScan]
    /\ hreq = NoHistoryRequest
    /\ cursor = 0

Present == {t \in Times : table[t] # Absent}
Written == {t \in Times : table[t].age # "absent"}

\* The keys the wipe is to delete: the conversation's, or the peer's.
Doomed == IF kind = "direct" THEN Times ELSE OfPeer

-----------------------------------------------------------------------------
\* Durable ingest stores a message, or a takeover stores it again: the row and
\* the index row.  A request that was admitted before the wipe may write at any
\* time after it.
StoreMessage(t, age) ==
    /\ table[t].age \in {"absent", age}
    /\ table' = [table EXCEPT ![t] = [age |-> age, read |-> FALSE]]
    /\ index' = index \union ({t} \intersect Doomed)
    /\ lateRows' = IF peer = "live" THEN lateRows ELSE lateRows \union ({t} \intersect Doomed)
    /\ UNCHANGED <<kind, acks, peer, scan, hreq, cursor>>

\* expires_at passes; later the cells written with that TTL are gone, and the
\* row with them unless a status was written without one.
Expires(t) ==
    /\ table[t].age = "expires"
    /\ table' = [table EXCEPT ![t].age = "expired"]
    /\ UNCHANGED <<kind, acks, wipeVars, hreq, cursor>>

TTLEnds(t) ==
    /\ table[t].age = "expired"
    /\ table' = [table EXCEPT ![t].age = "absent"]
    /\ index' = index \ {t}
    /\ lateRows' = lateRows \ {t}
    /\ UNCHANGED <<kind, acks, peer, scan, hreq, cursor>>

\* The reader's client has shown a message of the peer; handleRead publishes
\* the receipt for the created_at the client names.
SendReadAck(t) ==
    /\ kind = "direct" /\ t \in OfPeer /\ table[t].age \in {"keeps", "expires"}
    /\ acks' = acks \union {t}
    /\ UNCHANGED <<kind, table, wipeVars, hreq, cursor>>

\* handleReadAck: MarkRead is an unconditional UPDATE, which creates the row
\* when it is not there.
MarkRead(t) ==
    /\ t \in acks
    /\ acks' = acks \ {t}
    /\ table' = [table EXCEPT ![t].read = TRUE]
    /\ UNCHANGED <<kind, wipeVars, hreq, cursor>>

-----------------------------------------------------------------------------
\* The wipe commits with its marker.
WipePeer ==
    /\ peer = "live"
    /\ peer' = "marked"
    /\ UNCHANGED <<kind, table, index, acks, scan, lateRows, hreq, cursor>>

\* DeleteUserMessages, DeleteUserGroupMessages: a scan of the index ...
ScanPeer(w) ==
    /\ peer # "live" /\ scan[w].pc = "idle"
    /\ scan' = [scan EXCEPT ![w] = [pc |-> "scanned", todo |-> index]]
    /\ UNCHANGED <<kind, table, index, acks, peer, lateRows, hreq, cursor>>

\* ... the rows it found, one by one ...
EraseRow(w, t) ==
    /\ scan[w].pc = "scanned" /\ t \in scan[w].todo
    /\ table' = [table EXCEPT ![t] = Absent]
    /\ scan' = [scan EXCEPT ![w].todo = @ \ {t}]
    /\ lateRows' = lateRows \ {t}
    /\ UNCHANGED <<kind, index, acks, peer, hreq, cursor>>

\* ... and the index, with the rows that came since the scan.
EraseIndex(w) ==
    /\ scan[w].pc = "scanned" /\ scan[w].todo = {}
    /\ index' = {}
    /\ scan' = [scan EXCEPT ![w].pc = "done"]
    /\ UNCHANGED <<kind, table, acks, peer, lateRows, hreq, cursor>>

\* This or another phase fails: the next pass scans again.
ScanFails(w) ==
    /\ scan[w].pc \in {"scanned", "done"}
    /\ scan' = [scan EXCEPT ![w] = NoScan]
    /\ UNCHANGED <<kind, table, index, acks, peer, lateRows, hreq, cursor>>

\* Final erasure takes the marker away; nothing looks for late rows.
ErasePeer(w) ==
    /\ scan[w].pc = "done"
    /\ peer' = "gone"
    /\ scan' = [scan EXCEPT ![w] = NoScan]
    /\ UNCHANGED <<kind, table, index, acks, lateRows, hreq, cursor>>

-----------------------------------------------------------------------------
\* A request for the newest page, or for the page after the last one's cursor.
RequestHistory ==
    /\ hreq.pc = "idle"
    /\ \E b \in {Newest + 1, cursor} \ {0} :
         hreq' = [pc |-> "begun", page |-> [NoPage EXCEPT !.before = b, !.began = peer]]
    /\ UNCHANGED <<kind, table, acks, wipeVars, cursor>>

\* created_at < before LIMIT limit+1, in clustering order, newest first.
Fetched(before) ==
    LET older == {t \in Present : CreatedAt[t] < before} IN
    {t \in older : Cardinality({x \in older : x > t}) < PageLimit + 1}

\* GetHistory, GetGroupHistory: expired rows are skipped before paginationPage
\* looks for the row that proves another page.
ReadPage(p) ==
    LET rows == Fetched(p.before)
        live == {t \in rows : table[t].age # "expired"}
        keep == {t \in live : Cardinality({x \in live : x > t}) < PageLimit}
    IN  [p EXCEPT !.shown = keep,
                  !.skipped = rows \ live,
                  !.cursor = IF Cardinality(live) > PageLimit
                             THEN CreatedAt[CHOOSE t \in keep : \A x \in keep : t <= x] ELSE 0,
                  !.had = Present,
                  !.doomed = Written \intersect Doomed,
                  !.old = (Written \intersect Doomed) \ lateRows]

Answered(p) == [pc |-> "answered", page |-> p]

\* Mutant: the peer counts as wiped when its users row is gone.
CheckPeerRow ==
    /\ hreq.pc = "begun" /\ kind = "direct"
    /\ hreq' = IF peer = "gone" THEN Answered([hreq.page EXCEPT !.hidden = Times])
               ELSE [hreq EXCEPT !.pc = "checked"]
    /\ UNCHANGED <<kind, table, acks, wipeVars, cursor>>

\* The direct handler: the peer's marker first ...
CheckPeer ==
    /\ hreq.pc = "begun" /\ kind = "direct"
    /\ hreq' = IF peer = "marked" THEN Answered([hreq.page EXCEPT !.hidden = Times])
               ELSE [hreq EXCEPT !.pc = "checked"]
    /\ UNCHANGED <<kind, table, acks, wipeVars, cursor>>

\* ... then the rows.
ReadDirect ==
    /\ hreq.pc = "checked"
    /\ hreq' = Answered(ReadPage(hreq.page))
    /\ UNCHANGED <<kind, table, acks, wipeVars, cursor>>

\* The group handler, after the membership check: the rows first ...
ReadGroup ==
    /\ hreq.pc = "begun" /\ kind = "group"
    /\ hreq' = [pc |-> "fetched", page |-> ReadPage(hreq.page)]
    /\ UNCHANGED <<kind, table, acks, wipeVars, cursor>>

\* Mutant: the cursor is taken from the rows that are left.
WithoutWipedRecut(p, wiped) ==
    LET left == p.shown \ wiped IN
    [p EXCEPT !.shown = left, !.hidden = wiped,
              !.cursor = IF @ > 0 /\ left # {}
                         THEN CreatedAt[CHOOSE t \in left : \A x \in left : t <= x] ELSE 0]

\* The wiped senders' rows leave the page, its cursor stays.
WithoutWiped(p, wiped) == [p EXCEPT !.shown = @ \ wiped, !.hidden = wiped]

\* ... then the wiped senders among them.
FilterGroup ==
    /\ hreq.pc = "fetched"
    /\ hreq' = Answered(WithoutWiped(hreq.page, IF peer = "marked" THEN OfPeer ELSE {}))
    /\ UNCHANGED <<kind, table, acks, wipeVars, cursor>>

FinishHistory ==
    /\ hreq.pc = "answered"
    /\ cursor' = hreq.page.cursor
    /\ hreq' = NoHistoryRequest
    /\ UNCHANGED <<kind, table, acks, wipeVars>>

\* A statement fails and the request with it.
HistoryFails ==
    /\ hreq.pc \in {"begun", "checked", "fetched"}
    /\ hreq' = NoHistoryRequest
    /\ UNCHANGED <<kind, table, acks, wipeVars, cursor>>

HistoryNext ==
    \/ \E t \in Times :
         \/ \E age \in {"keeps", "expires"} : StoreMessage(t, age)
         \/ Expires(t) \/ TTLEnds(t) \/ SendReadAck(t) \/ MarkRead(t)
    \/ WipePeer
    \/ \E w \in Wipers : \/ ScanPeer(w) \/ EraseIndex(w) \/ ScanFails(w) \/ ErasePeer(w)
                         \/ \E t \in Times : EraseRow(w, t)
    \/ RequestHistory \/ CheckPeer \/ ReadDirect \/ ReadGroup \/ FilterGroup
    \/ FinishHistory \/ HistoryFails

HistorySpec == HistoryInit /\ [][HistoryNext]_historyVars

-----------------------------------------------------------------------------
(***************************************************************************)
(* Properties                                                              *)
(***************************************************************************)

\* "Checking wiped_accounts here closes that window without waiting on
\* cleanup" (history.go): a request made after the peer's wipe committed shows
\* no message that the wipe is to delete while the marker stands.  When final
\* erasure has taken the marker away, the direct handler, which asks for it
\* before it reads, shows only what was written after the commit and behind
\* the scan; the group handler, which asks afterwards, shows what it had read,
\* and likewise only late rows if the request began after the erasure.
HistoryHidesWiped ==
    hreq.pc = "answered" /\ hreq.page.began # "live" =>
        LET exposed == hreq.page.shown \intersect hreq.page.doomed IN
        /\ exposed # {} => peer = "gone"
        /\ kind = "direct" \/ hreq.page.began = "gone" => exposed \intersect hreq.page.old = {}

\* "filtering afterward must not disturb where the next page starts": a page
\* accounts for every row there was that is newer than its cursor, and a page
\* without a cursor for every row, unless an expired row was among those
\* fetched.  The cursor is a created_at and the next page strictly older: only
\* rows that share the cursor's created_at are not accounted for.
PagesLeaveNoGap ==
    hreq.pc = "answered" =>
        LET p == hreq.page IN
        \/ {t \in p.had : p.cursor < CreatedAt[t] /\ CreatedAt[t] < p.before}
             \subseteq p.shown \union p.hidden \union p.skipped
        \/ p.skipped # {}
=============================================================================
