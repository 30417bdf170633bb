----------------------------- MODULE ChatPages -----------------------------
(***************************************************************************)
(* The chat list and the message list of the HTTP API, read page by page:  *)
(* listChats and listMessagesByChat, whose rows are sorted by activity     *)
(* (lastMessageAt, timestamp) and whose cursor is the _id of the last one. *)
(* One client follows nextCursor to the end while the store changes.       *)
(*                                                                         *)
(* A row is its _id, which grows with its creation.  Messages of one chat  *)
(* are rows too: nothing touches them.  Contents are left out, and the 404 *)
(* of a chat that is not there.                                            *)
(***************************************************************************)
EXTENDS Naturals, FiniteSets

CONSTANTS
    Ids,        \* _id values: bounds the rows
    Times,      \* activity times
    PageMax     \* the largest limit that is valid, 100 in the code

ASSUME PagesAssumption ==
    /\ Ids \subseteq Nat \ {0}
    /\ IsFiniteSet(Ids)
    /\ Times \subseteq Nat
    /\ PageMax \in Nat \ {0}

VARIABLES
    rows,       \* the rows there are
    activity,   \* their last activity
    newest,     \* the last _id given
    scan,       \* what the client is doing: "idle", "paging" or "done"
    cursor,     \* its next `before', 0 for the first page
    listed,     \* the rows this scan has listed
    twice,      \* those it has listed more than once
    expected,   \* history: rows of the first page's time that still exist
    orderly,    \* history: on every page, later rows were active later
    quiet       \* history: the store has not changed since the first page

collection == <<rows, activity, newest>>
client     == <<scan, cursor, listed, twice>>
pageVars   == <<collection, client, expected, orderly, quiet>>

PagesInit ==
    /\ rows = {} /\ newest = 0
    /\ activity \in [Ids -> Times]
    /\ scan = "idle" /\ cursor = 0
    /\ listed = {} /\ twice = {}
    /\ expected = {} /\ orderly = TRUE /\ quiet = TRUE

-----------------------------------------------------------------------------
(* The store, as ChatStore changes it.                                     *)

\* The first message of a line, or a message of the chat: it may be late.
CreateRow(d, t) ==
    /\ d > newest
    /\ newest' = d
    /\ rows' = rows \cup {d}
    /\ activity' = [activity EXCEPT ![d] = t]
    /\ quiet' = FALSE
    /\ UNCHANGED <<client, expected, orderly>>

\* A message sets the activity of its chat, back in time if it is late or a
\* duplicate; a purge sets it to the latest message that is left.
TouchRow(d, t) ==
    /\ d \in rows
    /\ activity' = [activity EXCEPT ![d] = t]
    /\ quiet' = FALSE
    /\ UNCHANGED <<rows, newest, client, expected, orderly>>

\* A purge deletes messages and the chats left without.
RemoveRow(d) ==
    /\ d \in rows
    /\ rows' = rows \ {d}
    /\ expected' = expected \ {d}
    /\ quiet' = FALSE
    /\ UNCHANGED <<activity, newest, client, orderly>>

-----------------------------------------------------------------------------
(* A page.                                                                 *)

\* Mutant: the cursor is left out of the filter.
EveryRow(before) == rows

\* filter._id = { $lt: before }.
Older(before) == {d \in rows : before = 0 \/ d < before}

\* sort({ lastMessageAt: -1, _id: -1 }).
Precedes(d, e) ==
    activity[d] > activity[e] \/ (activity[d] = activity[e] /\ d > e)

\* slice(0, limit) of the sorted rows.
IsPage(items, found, limit) ==
    /\ items \subseteq found
    /\ Cardinality(items) <= limit
    /\ items # found => Cardinality(items) = limit
    /\ \A d \in items, e \in found \ items : Precedes(d, e)

\* Mutant: the cursor is the first of the page.
FirstItem(d, items) == d \in items /\ \A e \in items \ {d} : Precedes(d, e)

\* items[items.length - 1].
IsLast(d, items) == d \in items /\ \A e \in items \ {d} : Precedes(e, d)

InOrder(found) == \A d, e \in found : d < e => activity[d] <= activity[e]

\* hasMore, nextCursor; the client goes on or stops.
Follow(items, found) ==
    IF items = found THEN scan' = "done" /\ UNCHANGED cursor
    ELSE scan' = "paging" /\ \E d \in items : IsLast(d, items) /\ cursor' = d

\* The client asks for a page of at most limit rows, which is valid.
AskPage(limit) ==
    /\ scan # "done"
    /\ LET found == Older(cursor)
       IN  \E items \in SUBSET found :
             /\ IsPage(items, found, limit)
             /\ Follow(items, found)
             /\ listed' = listed \cup items
             /\ twice' = twice \cup (listed \cap items)
             /\ orderly' = (orderly /\ InOrder(found))
    /\ expected' = IF scan = "idle" THEN rows ELSE expected
    /\ quiet' = (scan = "idle" \/ quiet)
    /\ UNCHANGED collection

\* The client starts again from the first page.
Rescan ==
    /\ scan = "done"
    /\ scan' = "idle" /\ cursor' = 0
    /\ listed' = {} /\ twice' = {}
    /\ expected' = {} /\ orderly' = TRUE /\ quiet' = TRUE
    /\ UNCHANGED collection

StoreChanges ==
    \E d \in Ids :
        \/ \E t \in Times : CreateRow(d, t) \/ TouchRow(d, t)
        \/ RemoveRow(d)

Page == \E limit \in 1..PageMax : AskPage(limit)

PagesNext == StoreChanges \/ Page \/ Rescan

PagesSpec == PagesInit /\ [][PagesNext]_pageVars

-----------------------------------------------------------------------------

\* The type of every variable; a cursor is an _id that was given.
PagesTypeOK ==
    /\ rows \subseteq Ids
    /\ activity \in [Ids -> Times]
    /\ newest \in Nat
    /\ scan \in {"idle", "paging", "done"}
    /\ cursor \in Ids \cup {0} /\ cursor <= newest
    /\ listed \subseteq Ids /\ twice \subseteq Ids
    /\ expected \subseteq rows
    /\ orderly \in BOOLEAN
    /\ quiet \in BOOLEAN

\* Every page read after the first brings the cursor down, whatever the
\* activity is set to between pages: no page is read for ever.
CursorDescends ==
    [][Page /\ scan = "paging" /\ scan' = "paging" => cursor' < cursor]_pageVars

\* A client that follows nextCursor comes to the last page, even if rows are
\* created, touched and removed all the time.
ScanEnds == scan = "paging" ~> scan = "done"

\* As long as later rows were active later, on each page as it was read, a
\* scan lists nothing twice and, at its end, every row that was there at its
\* beginning and was not removed: rows behind the cursor may change freely.
OrderlyScanIsComplete ==
    orderly => twice = {} /\ (scan = "done" => expected \subseteq listed)

-----------------------------------------------------------------------------
(* What the repository says and the code does not do.                      *)

\* listChats "lists chats sorted by last activity (newest first) with cursor
\* pagination on `_id`": a scan of a store that does not change lists every
\* chat.
EveryChatListed == scan = "done" /\ quiet => rows \subseteq listed
=============================================================================
