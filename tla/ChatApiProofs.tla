---------------------------- MODULE ChatApiProofs ----------------------------
(***************************************************************************)
(* Theorems about ChatApi, for every set of rows and times, every limit of *)
(* a page, every size of a file and every Range header.                    *)
(***************************************************************************)
EXTENDS ChatApi, TLAPS

\* The client reads lists or files, and each half moves on its own.
LEMMA Halves ==
    [Next]_apiVars => [PagesNext]_pageVars /\ [MediaNext]_mediaVars
BY DEF Next, Lists, Files, apiVars

-----------------------------------------------------------------------------
(* Pages.                                                                  *)

\* No row is newer than the last _id given.
PagesInv == PagesTypeOK /\ \A d \in rows : d <= newest

\* What a page does to the scan.
LEMMA PageMove ==
    ASSUME PagesTypeOK, NEW limit \in 1..PageMax, AskPage(limit)
    PROVE  \E items \in SUBSET Older(cursor) :
              /\ IsPage(items, Older(cursor), limit)
              /\ Follow(items, Older(cursor))
              /\ listed' = listed \cup items
              /\ twice' = twice \cup (listed \cap items)
BY DEF AskPage

LEMMA PagesInitInv == PagesInit => PagesInv
BY PagesAssumption DEF PagesInit, PagesInv, PagesTypeOK

LEMMA StoreChangesInv ==
    ASSUME PagesInv, StoreChanges
    PROVE  PagesInv'
<1> USE PagesAssumption DEF PagesInv, PagesTypeOK, client
<1>1. ASSUME NEW d \in Ids, NEW t \in Times, CreateRow(d, t)
      PROVE  PagesInv'
  <2>1. /\ d > newest /\ newest' = d /\ rows' = rows \cup {d}
        /\ activity' = [activity EXCEPT ![d] = t] /\ quiet' = FALSE
        /\ scan' = scan /\ cursor' = cursor /\ listed' = listed
        /\ twice' = twice /\ expected' = expected /\ orderly' = orderly
    BY <1>1 DEF CreateRow
  <2>2. d \in Nat /\ cursor \in Nat /\ \A e \in rows : e \in Nat /\ e <= newest
    OBVIOUS
  <2>3. cursor' <= newest' /\ \A e \in rows' : e <= newest'
    BY <2>1, <2>2
  <2> QED  BY <2>1, <2>3
<1>2. ASSUME NEW d \in Ids, NEW t \in Times, TouchRow(d, t)
      PROVE  PagesInv'
  BY <1>2 DEF TouchRow
<1>3. ASSUME NEW d \in Ids, RemoveRow(d)
      PROVE  PagesInv'
  BY <1>3 DEF RemoveRow
<1> QED  BY <1>1, <1>2, <1>3 DEF StoreChanges

LEMMA AskPageInv ==
    ASSUME PagesInv, NEW limit \in 1..PageMax, AskPage(limit)
    PROVE  PagesInv'
<1>1. PagesTypeOK /\ \A d \in rows : d <= newest
  BY DEF PagesInv
<1>2. PICK items \in SUBSET Older(cursor) :
         /\ Follow(items, Older(cursor))
         /\ listed' = listed \cup items
         /\ twice' = twice \cup (listed \cap items)
  BY <1>1, PageMove
<1>3. items \subseteq rows
  BY <1>2 DEF Older
<1>4. listed' \subseteq Ids /\ twice' \subseteq Ids
  BY <1>1, <1>2, <1>3 DEF PagesTypeOK
<1>5. /\ scan' \in {"paging", "done"}
      /\ cursor' = cursor \/ cursor' \in items
  BY <1>2 DEF Follow
<1>6. cursor' \in Ids \cup {0} /\ cursor' <= newest
  BY <1>1, <1>3, <1>5 DEF PagesTypeOK
<1>7. /\ rows' = rows /\ activity' = activity /\ newest' = newest
      /\ expected' \subseteq rows /\ orderly' \in BOOLEAN /\ quiet' \in BOOLEAN
  BY <1>1 DEF AskPage, collection, PagesTypeOK, InOrder
<1> QED  BY <1>1, <1>4, <1>5, <1>6, <1>7 DEF PagesInv, PagesTypeOK

LEMMA RescanInv ==
    ASSUME PagesInv, Rescan
    PROVE  PagesInv'
BY PagesAssumption DEF Rescan, PagesInv, PagesTypeOK, collection

LEMMA PagesNextInv == PagesInv /\ [PagesNext]_pageVars => PagesInv'
<1>1. PagesInv /\ UNCHANGED pageVars => PagesInv'
  BY DEF PagesInv, PagesTypeOK, pageVars, collection, client
<1> QED  BY <1>1, StoreChangesInv, AskPageInv, RescanInv DEF PagesNext, Page

LEMMA PagesInvariance == Spec => []PagesInv
<1>1. Init => PagesInv
  BY PagesInitInv DEF Init
<1> QED  BY <1>1, Halves, PagesNextInv, PTL DEF Spec

\* The type of every variable of the lists: the cursor is an _id that was
\* given, or none.
THEOREM PagesTypeCorrect == Spec => []PagesTypeOK
<1>1. PagesInv => PagesTypeOK
  BY DEF PagesInv
<1> QED  BY <1>1, PagesInvariance, PTL

-----------------------------------------------------------------------------
(* A scan of rows whose order of creation is that of their activity.       *)

\* Before its first page a scan has listed nothing; then it has listed, once
\* each, rows from the cursor on only, and all of those it is expected to.
ScanInv ==
    /\ scan = "idle" => cursor = 0 /\ listed = {}
    /\ scan = "paging" => cursor # 0
    /\ orderly =>
          /\ twice = {}
          /\ scan = "paging" =>
                /\ \A d \in listed : d >= cursor
                /\ \A d \in expected : d >= cursor => d \in listed
          /\ scan = "done" => expected \subseteq listed

\* In an orderly page the last item is the least, and what is left is less.
LEMMA LastIsLeast ==
    ASSUME PagesTypeOK, NEW found \in SUBSET rows, InOrder(found),
           NEW items \in SUBSET found, NEW limit,
           IsPage(items, found, limit), NEW last, IsLast(last, items)
    PROVE  /\ last \in items
           /\ \A e \in items : e >= last
           /\ \A e \in found \ items : e < last
<1>1. \A d \in found : d \in Nat /\ activity[d] \in Nat
  BY PagesAssumption DEF PagesTypeOK
<1>2. last \in items /\ last \in found
  BY DEF IsLast
<1>3. ASSUME NEW e \in items, e < last
      PROVE  FALSE
  <2>1. Precedes(e, last)
    BY <1>1, <1>2, <1>3 DEF IsLast
  <2>2. activity[e] <= activity[last]
    BY <1>2, <1>3 DEF InOrder
  <2> QED  BY <1>1, <1>2, <1>3, <2>1, <2>2 DEF Precedes
<1>4. ASSUME NEW e \in found \ items, ~(e < last)
      PROVE  FALSE
  <2>1. Precedes(last, e)
    BY <1>2 DEF IsPage
  <2>2. last < e
    BY <1>1, <1>2, <1>4
  <2>3. activity[last] <= activity[e]
    BY <1>2, <2>2 DEF InOrder
  <2> QED  BY <1>1, <1>2, <2>1, <2>2, <2>3 DEF Precedes
<1> QED  BY <1>1, <1>2, <1>3, <1>4

LEMMA ScanInitInv == PagesInit => ScanInv
BY DEF PagesInit, ScanInv

LEMMA StoreChangesScan ==
    ASSUME PagesInv, ScanInv, StoreChanges
    PROVE  ScanInv'
<1>1. /\ scan' = scan /\ cursor' = cursor /\ listed' = listed
      /\ twice' = twice /\ orderly' = orderly /\ expected' \subseteq expected
  BY DEF StoreChanges, CreateRow, TouchRow, RemoveRow, client
<1> QED  BY <1>1 DEF ScanInv

LEMMA AskPageScan ==
    ASSUME PagesInv, ScanInv, NEW limit \in 1..PageMax, AskPage(limit)
    PROVE  ScanInv'
<1> DEFINE found == Older(cursor)
<1>1. /\ PagesTypeOK /\ found \subseteq rows /\ scan # "done"
      /\ \A d \in Ids : d \in Nat /\ d # 0
      /\ listed \subseteq Ids
      /\ expected' = IF scan = "idle" THEN rows ELSE expected
      /\ orderly' => orderly /\ InOrder(found)
  BY PagesAssumption DEF PagesInv, PagesTypeOK, AskPage, Older
<1>2. PICK items \in SUBSET found :
         /\ IsPage(items, found, limit)
         /\ Follow(items, found)
         /\ listed' = listed \cup items
         /\ twice' = twice \cup (listed \cap items)
  BY <1>1, PageMove
<1>3. expected' \subseteq rows /\ rows \subseteq Ids
  BY <1>1 DEF PagesTypeOK
<1>4. scan \in {"idle", "paging"} /\ cursor \in Nat
  BY <1>1 DEF PagesTypeOK
<1> HIDE DEF found
\* What has been listed lies behind the page, and nothing else does.
<1>5. orderly' =>
         /\ \A d \in found : d \notin listed
         /\ twice = {}
         /\ \A d \in expected' : d \notin found => d \in listed
  <2>1. CASE scan = "idle"
    <3>1. found = rows /\ expected' = rows
      BY <1>1, <2>1 DEF ScanInv, Older, found
    <3> QED  BY <1>1, <1>3, <2>1, <3>1 DEF ScanInv
  <2>2. CASE scan = "paging"
    <3>1. cursor # 0 /\ found = {d \in rows : d < cursor} /\ expected' = expected
      BY <1>1, <2>2 DEF ScanInv, Older, found
    <3>2. \A d \in expected : d \notin found => d >= cursor
      BY <1>1, <1>3, <1>4, <3>1
    <3> QED  BY <1>1, <1>3, <1>4, <2>2, <3>1, <3>2 DEF ScanInv
  <2> QED  BY <1>4, <2>1, <2>2
<1>6. orderly' =>
         /\ twice' = {}
         /\ \A d \in expected' : d \notin found \/ d \in items => d \in listed'
  BY <1>2, <1>5
<1>7. CASE items = found
  <2>1. scan' = "done"
    BY <1>2, <1>7 DEF Follow
  <2> QED  BY <1>6, <1>7, <2>1 DEF ScanInv
<1>8. CASE items # found
  <2>1. PICK last \in items : scan' = "paging" /\ IsLast(last, items) /\ cursor' = last
    BY <1>2, <1>8 DEF Follow
  <2>2. last \in Ids /\ cursor' # 0
    BY <1>1, <1>2, <1>3, <2>1
  <2>3. orderly' => /\ \A e \in items : e >= last
                    /\ \A e \in found \ items : e < last
    BY <1>1, <1>2, <2>1, LastIsLeast
  <2>4. ASSUME orderly', NEW d \in listed'
        PROVE  d >= last
    <3>1. CASE d \in items
      BY <2>3, <2>4, <3>1
    <3>2. CASE d \in listed
      <4>1. scan = "paging" /\ d >= cursor
        BY <1>1, <1>4, <2>4, <3>2 DEF ScanInv
      <4>2. last < cursor
        BY <1>1, <1>2, <1>4, <2>1, <4>1 DEF ScanInv, Older, found
      <4> QED  BY <1>1, <1>4, <2>2, <3>2, <4>1, <4>2
    <3> QED  BY <1>2, <3>1, <3>2
  <2>5. ASSUME orderly', NEW d \in expected', d >= last
        PROVE  d \in listed'
    <3>1. d \notin found \ items
      BY <1>1, <1>3, <2>2, <2>3, <2>5
    <3> QED  BY <1>6, <2>5, <3>1
  <2> QED  BY <1>6, <2>1, <2>2, <2>4, <2>5 DEF ScanInv
<1> QED  BY <1>7, <1>8

LEMMA ScanNextInv == PagesInv /\ ScanInv /\ [PagesNext]_pageVars => ScanInv'
<1>1. ScanInv /\ UNCHANGED pageVars => ScanInv'
  BY DEF ScanInv, pageVars, collection, client
<1>2. Rescan => ScanInv'
  BY DEF Rescan, ScanInv
<1> QED  BY <1>1, <1>2, StoreChangesScan, AskPageScan DEF PagesNext, Page

LEMMA ScanInvariance == Spec => []ScanInv
<1>1. Init => ScanInv
  BY ScanInitInv DEF Init
<1> QED  BY <1>1, Halves, PagesInvariance, ScanNextInv, PTL DEF Spec

\* Every page read after the first brings the cursor down.
THEOREM CursorGoesDown == Spec => CursorDescends
<1>1. ASSUME PagesInv, ScanInv, Page, scan = "paging", scan' = "paging"
      PROVE  cursor' < cursor
  <2>1. PagesTypeOK /\ cursor # 0
    BY <1>1 DEF PagesInv, ScanInv
  <2>2. PICK limit \in 1..PageMax : AskPage(limit)
    BY <1>1 DEF Page
  <2>3. PICK items \in SUBSET Older(cursor) : Follow(items, Older(cursor))
    BY <2>1, <2>2, PageMove
  <2>4. cursor' \in items
    BY <1>1, <2>3 DEF Follow
  <2> QED  BY <2>1, <2>3, <2>4 DEF Older
<1> QED  BY <1>1, PagesInvariance, ScanInvariance, PTL DEF Spec, CursorDescends


\* As long as later rows were active later, on each page as it was read, a
\* scan lists nothing twice and misses none of the rows it began with, however
\* the store changes meanwhile and whatever limits the pages have.
THEOREM OrderlyScans == Spec => []OrderlyScanIsComplete
<1>1. ScanInv => OrderlyScanIsComplete
  BY DEF ScanInv, OrderlyScanIsComplete
<1> QED  BY <1>1, ScanInvariance, PTL

-----------------------------------------------------------------------------
(* Ranges.                                                                 *)

\* The bytes between the bounds that were parsed are those asked for.
LEMMA RangeOfBytes ==
    ASSUME NEW range \in Range, NEW n \in Nat
    PROVE  /\ RangeStart(range, n) \in Nat /\ RangeEnd(range, n) \in Int
           /\ Parses(range, n) =>
                 /\ range.match
                 /\ AskedBytes(range, n) =
                       RangeStart(range, n)..RangeEnd(range, n)
                 /\ AskedBytes(range, n) # {}
           /\ ~Parses(range, n) /\ range.match => AskedBytes(range, n) = {}
<1>1. /\ range.from \in Nat \/ range.from = Empty
      /\ range.to \in Nat \/ range.to = Empty
      /\ Empty \notin Int /\ Digits(range.to) \in Nat
  BY MediaAssumption DEF Range, Digits
<1> DEFINE first == RangeStart(range, n)
           last  == RangeEnd(range, n)
<1>2. first \in Nat /\ last \in Int /\ last <= n - 1
  BY <1>1 DEF Suffix, RangeStart, RangeEnd, Most, Least
<1>3. AskedBytes(range, n) = first..last
  <2>1. CASE Suffix(range)
    <3>1. last = n - 1 /\ first = Most(0, n - Digits(range.to))
      BY <2>1 DEF RangeStart, RangeEnd
    <3> QED  BY <1>1, <2>1, <3>1 DEF AskedBytes, Most
  <2>2. CASE ~Suffix(range) /\ range.to = Empty
    <3>1. last = n - 1 /\ first = range.from
      BY <2>2 DEF RangeStart, RangeEnd
    <3> QED  BY <1>1, <1>2, <2>2, <3>1 DEF AskedBytes
  <2>3. CASE ~Suffix(range) /\ range.to # Empty
    <3>1. last = Least(range.to, n - 1) /\ first = range.from
      BY <2>3 DEF RangeStart, RangeEnd
    <3> QED  BY <1>1, <1>2, <2>3, <3>1 DEF AskedBytes, Least
  <2> QED  BY <2>1, <2>2, <2>3
<1> HIDE DEF first, last
<1>4. Parses(range, n) <=> range.match /\ n # 0 /\ first <= last /\ first <= n - 1
  BY DEF Parses, first, last
<1>5. first <= last => first \in first..last
  BY <1>2
<1>6. ~(first <= last) => first..last = {}
  BY <1>2
<1>7. first <= last => n # 0 /\ first <= n - 1
  BY <1>2
<1> QED  BY <1>2, <1>3, <1>4, <1>5, <1>6, <1>7 DEF first, last


-----------------------------------------------------------------------------
(* The readers of a file.                                                  *)

MediaInv == MediaTypeOK /\ RangeAsAsked

\* What one reader has been answered agrees with its header.
ReplyAsAsked(range, answered, n) ==
    /\ answered.status = 206 =>
          /\ range.match
          /\ AskedBytes(range, n) = answered.first..answered.last
          /\ AskedBytes(range, n) # {}
    /\ answered.status = 200 =>
          /\ answered.first..answered.last = 0..(n - 1)
          /\ range.match => AskedBytes(range, n) = {}

\* A step that leaves the headers of the others and their replies alone.
LEMMA OneReader ==
    ASSUME MediaInv, NEW x \in Readers, size' = size, MediaTypeOK',
           \A y \in Readers \ {x} :
              reader'[y] = reader[y] /\ reply'[y] = reply[y],
           ReplyAsAsked(reader'[x].range, reply'[x], size)
    PROVE  MediaInv'
BY DEF MediaInv, RangeAsAsked, ReplyAsAsked

LEMMA MediaInitInv == MediaInit => MediaInv
<1> SUFFICES ASSUME MediaInit PROVE MediaInv
  OBVIOUS
<1>1. [pc |-> "idle", range |-> NoRange]
         \in [pc : {"idle", "query", "stat", "open"}, range : Range]
  BY DEF NoRange, Range
<1>2. NoReply \in [status : {0, 200, 206, 404, 500}, first : Nat, last : Int]
  BY DEF NoReply
<1>3. MediaTypeOK
  BY <1>1, <1>2 DEF MediaInit, MediaTypeOK
<1>4. \A x \in Readers : reply[x].status = 0
  BY DEF MediaInit, NoReply
<1> QED  BY <1>3, <1>4 DEF MediaInv, RangeAsAsked

LEMMA GoesInv ==
    ASSUME MediaInv, NEW x \in Readers, NEW point \in {"query", "stat", "open"},
           Goes(x, point), UNCHANGED <<size, file, row, reply>>
    PROVE  MediaInv'
<1>1. MediaTypeOK /\ reply' = reply /\ size' = size
  BY DEF MediaInv
<1>2. /\ reader' \in [Readers -> [pc : {"idle", "query", "stat", "open"},
                                  range : Range]]
      /\ \A y \in Readers \ {x} : reader'[y] = reader[y]
      /\ reader'[x].range = reader[x].range
  BY <1>1 DEF Goes, MediaTypeOK
<1>3. MediaTypeOK'
  BY <1>1, <1>2 DEF MediaTypeOK
<1>4. ReplyAsAsked(reader'[x].range, reply'[x], size)
  BY <1>1, <1>2 DEF MediaInv, RangeAsAsked, ReplyAsAsked
<1> QED  BY <1>1, <1>2, <1>3, <1>4, OneReader

LEMMA AnswersInv ==
    ASSUME MediaInv, NEW x \in Readers, NEW status \in {200, 206, 404, 500},
           NEW first \in Nat, NEW last \in Int,
           Answers(x, status, first, last), UNCHANGED <<size, file, row>>,
           ReplyAsAsked(reader[x].range,
              [status |-> status, first |-> first, last |-> last], size)
    PROVE  MediaInv'
<1>1. MediaTypeOK
  BY DEF MediaInv
<1>2. /\ reader' \in [Readers -> [pc : {"idle", "query", "stat", "open"},
                                  range : Range]]
      /\ reader'[x].range = reader[x].range
      /\ \A y \in Readers \ {x} : reader'[y] = reader[y]
  BY <1>1 DEF Answers, MediaTypeOK
<1>3. /\ reply' \in [Readers -> [status : {0, 200, 206, 404, 500},
                                 first : Nat, last : Int]]
      /\ reply'[x] = [status |-> status, first |-> first, last |-> last]
      /\ \A y \in Readers \ {x} : reply'[y] = reply[y]
  BY <1>1 DEF Answers, MediaTypeOK
<1>4. MediaTypeOK'
  BY <1>1, <1>2, <1>3 DEF MediaTypeOK
<1> QED  BY <1>2, <1>3, <1>4, OneReader

LEMMA FailsInv ==
    ASSUME MediaInv, NEW x \in Readers, NEW status \in {404, 500},
           Fails(x, status), UNCHANGED <<size, file, row>>
    PROVE  MediaInv'
BY AnswersInv DEF Fails, ReplyAsAsked

LEMMA RequestInv ==
    ASSUME MediaInv, NEW x \in Readers, NEW range \in Range, Request(x, range)
    PROVE  MediaInv'
<1>1. MediaTypeOK
  BY DEF MediaInv
<1>2. /\ reader' \in [Readers -> [pc : {"idle", "query", "stat", "open"},
                                  range : Range]]
      /\ \A y \in Readers \ {x} : reader'[y] = reader[y]
  BY <1>1 DEF Request, MediaTypeOK
<1>3. /\ reply' \in [Readers -> [status : {0, 200, 206, 404, 500},
                                 first : Nat, last : Int]]
      /\ reply'[x].status = 0
      /\ \A y \in Readers \ {x} : reply'[y] = reply[y]
  BY <1>1 DEF Request, MediaTypeOK, NoReply
<1>4. MediaTypeOK' /\ size' = size
  BY <1>1, <1>2, <1>3 DEF Request, MediaTypeOK
<1> QED  BY <1>2, <1>3, <1>4, OneReader DEF ReplyAsAsked

LEMMA OpenInv ==
    ASSUME MediaInv, NEW x \in Readers, Open(x)
    PROVE  MediaInv'
<1> DEFINE range == reader[x].range
<1>1. range \in Range /\ size \in Nat
  BY MediaAssumption DEF MediaInv, MediaTypeOK
<1>2. UNCHANGED <<size, file, row>>
  BY DEF Open
<1>3. CASE Fails(x, 500)
  BY <1>2, <1>3, FailsInv
<1>4. CASE Parses(range, size)
           /\ Answers(x, 206, RangeStart(range, size), RangeEnd(range, size))
  <2>1. /\ RangeStart(range, size) \in Nat /\ RangeEnd(range, size) \in Int
        /\ range.match /\ AskedBytes(range, size) # {}
        /\ AskedBytes(range, size) =
              RangeStart(range, size)..RangeEnd(range, size)
    BY <1>1, <1>4, RangeOfBytes
  <2>2. ReplyAsAsked(range, [status |-> 206, first |-> RangeStart(range, size),
                             last |-> RangeEnd(range, size)], size)
    BY <2>1 DEF ReplyAsAsked
  <2> QED  BY <1>2, <1>4, <2>1, <2>2, AnswersInv
<1>5. CASE ~Parses(range, size) /\ Answers(x, 200, 0, size - 1)
  <2>1. range.match => AskedBytes(range, size) = {}
    BY <1>1, <1>5, RangeOfBytes
  <2>2. ReplyAsAsked(range, [status |-> 200, first |-> 0, last |-> size - 1],
                     size)
    BY <2>1 DEF ReplyAsAsked
  <2> QED  BY <1>1, <1>2, <1>5, <2>2, AnswersInv
<1> QED  BY <1>3, <1>4, <1>5 DEF Open

LEMMA MediaNextInv == MediaInv /\ [MediaNext]_mediaVars => MediaInv'
<1> SUFFICES ASSUME MediaInv, [MediaNext]_mediaVars PROVE MediaInv'
  OBVIOUS
<1>1. CASE UNCHANGED mediaVars
  BY <1>1 DEF mediaVars, MediaInv, MediaTypeOK, RangeAsAsked
<1>2. CASE Download \/ InsertRow \/ DeleteFile \/ DeleteRow
  <2>1. size' = size /\ reader' = reader /\ reply' = reply
        /\ file' \in BOOLEAN /\ row' \in BOOLEAN
    BY <1>2 DEF Download, InsertRow, DeleteFile, DeleteRow, MediaInv, MediaTypeOK
  <2>2. MediaTypeOK'
    BY <2>1 DEF MediaInv, MediaTypeOK
  <2>3. RangeAsAsked'
    BY <2>1 DEF MediaInv, RangeAsAsked
  <2> QED  BY <2>2, <2>3 DEF MediaInv
<1>3. ASSUME NEW x \in Readers, Query(x)
      PROVE  MediaInv'
  BY <1>3, GoesInv, FailsInv DEF Query
<1>4. ASSUME NEW x \in Readers, Stat(x)
      PROVE  MediaInv'
  BY <1>4, GoesInv, FailsInv DEF Stat, FileMissing
<1>5. ASSUME NEW x \in Readers, NEW range \in Range, Request(x, range)
      PROVE  MediaInv'
  BY <1>5, RequestInv
<1> QED  BY <1>1, <1>2, <1>3, <1>4, <1>5, OpenInv DEF MediaNext, Serve

LEMMA MediaInvariance == Spec => []MediaInv
<1>1. Init => MediaInv
  BY MediaInitInv DEF Init
<1> QED  BY <1>1, Halves, MediaNextInv, PTL DEF Spec

\* The type of every variable of the file routes: every answer has one of the
\* statuses of the code.
THEOREM MediaTypeCorrect == Spec => []MediaTypeOK
<1>1. MediaInv => MediaTypeOK
  BY DEF MediaInv
<1> QED  BY <1>1, MediaInvariance, PTL

\* A partial answer carries exactly the bytes asked for that the file has, and
\* the whole file is sent only when none of them was: for every size of file
\* and every Range header.
THEOREM RangesAreExact == Spec => []RangeAsAsked
<1>1. MediaInv => RangeAsAsked
  BY DEF MediaInv
<1> QED  BY <1>1, MediaInvariance, PTL
=============================================================================
