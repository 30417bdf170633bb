---------------------------- MODULE MediaReader ----------------------------
(***************************************************************************)
(* The two routes that stream a stored file, streamRecruitingMedia with a  *)
(* Range header and streamAttachment without one, while the file is        *)
(* downloaded and purged.  A reader is one request; its awaits are the     *)
(* query, the stat and the opening of the file.                            *)
(*                                                                         *)
(* A file is its size: the bytes 0..size-1.  A read error after the first  *)
(* byte is left out, and so are the headers that describe the content.     *)
(***************************************************************************)
EXTENDS Integers

CONSTANTS
    Sizes,          \* sizes the file may have
    RangeBounds,    \* numbers in Range headers: bounds them
    Readers,        \* requests in flight
    Empty           \* no digits on this side of the hyphen

ASSUME MediaAssumption ==
    /\ Sizes \subseteq Nat
    /\ RangeBounds \subseteq Nat
    /\ Empty \notin Int

\* "bytes=from-to"; other headers, and none, do not match the pattern.
Range == [match : BOOLEAN,
          from : RangeBounds \cup {Empty}, to : RangeBounds \cup {Empty}]

VARIABLES
    size,       \* of the file of this message, the same in every download
    file,       \* whether the file is on disk
    row,        \* whether a message refers to the file
    reader,     \* where each reader is
    reply       \* what each reader has been answered

mediaVars == <<size, file, row, reader, reply>>

NoReply == [status |-> 0, first |-> 0, last |-> -1]

NoRange == [match |-> FALSE, from |-> Empty, to |-> Empty]

MediaInit ==
    /\ size \in Sizes
    /\ file = FALSE /\ row = FALSE
    /\ reader = [x \in Readers |-> [pc |-> "idle", range |-> NoRange]]
    /\ reply = [x \in Readers |-> NoReply]

-----------------------------------------------------------------------------
(* The store, as ChatStore changes it.                                     *)

\* downloadInboundMediaIfNeeded, then messageModel.create.
Download ==
    /\ file' = TRUE
    /\ UNCHANGED <<size, row, reader, reply>>

InsertRow ==
    /\ file
    /\ row' = TRUE
    /\ UNCHANGED <<size, file, reader, reply>>

\* A purge or a discard: the file, then the row or its path.
DeleteFile ==
    /\ row
    /\ file' = FALSE
    /\ UNCHANGED <<size, row, reader, reply>>

DeleteRow ==
    /\ row /\ ~file
    /\ row' = FALSE
    /\ UNCHANGED <<size, file, reader, reply>>

-----------------------------------------------------------------------------
(* parseByteRange.                                                         *)

Least(a, b) == IF a < b THEN a ELSE b
Most(a, b)  == IF a < b THEN b ELSE a

Suffix(range) == range.from = Empty

\* Number('') is 0.
Digits(text) == IF text = Empty THEN 0 ELSE text

RangeStart(range, n) ==
    IF Suffix(range) THEN Most(0, n - Digits(range.to)) ELSE range.from

\* Mutant: a last byte beyond the end is not brought back.
RangeEndAsGiven(range, n) ==
    IF Suffix(range) \/ range.to = Empty THEN n - 1 ELSE range.to

RangeEnd(range, n) ==
    IF Suffix(range) \/ range.to = Empty THEN n - 1
    ELSE Least(range.to, n - 1)

\* Whether there is a range, from RangeStart to RangeEnd, or null.
Parses(range, n) ==
    /\ range.match /\ n # 0
    /\ RangeStart(range, n) <= RangeEnd(range, n)
    /\ RangeStart(range, n) <= n - 1

-----------------------------------------------------------------------------

Goes(x, point) == reader' = [reader EXCEPT ![x].pc = point]

Answers(x, status, first, last) ==
    /\ reader' = [reader EXCEPT ![x].pc = "idle"]
    /\ reply' = [reply EXCEPT ![x] =
           [status |-> status, first |-> first, last |-> last]]

Fails(x, status) == Answers(x, status, 0, -1)

Request(x, range) ==
    /\ reader[x].pc = "idle"
    /\ reader' = [reader EXCEPT ![x] = [pc |-> "query", range |-> range]]
    /\ reply' = [reply EXCEPT ![x] = NoReply]
    /\ UNCHANGED <<size, file, row>>

\* findInboundMediaByWhatsappMessageId, resolveInboundAttachmentPath.
Query(x) ==
    /\ reader[x].pc = "query"
    /\ IF row THEN Goes(x, "stat") /\ UNCHANGED reply ELSE Fails(x, 404)
    /\ UNCHANGED <<size, file, row>>

\* Mutant: the handler returns.
ReturnsWithoutFile(x) == Goes(x, "idle") /\ UNCHANGED reply

\* stat throws.
FileMissing(x) == Fails(x, 404)

Stat(x) ==
    /\ reader[x].pc = "stat"
    /\ IF file THEN Goes(x, "open") /\ UNCHANGED reply ELSE FileMissing(x)
    /\ UNCHANGED <<size, file, row>>

\* The file may have gone since: the stream's error is answered, as nothing
\* has been sent.  Once it is open its bytes remain.
Open(x) ==
    LET range == reader[x].range
    IN  /\ reader[x].pc = "open"
        /\ IF ~file THEN Fails(x, 500)
           ELSE IF Parses(range, size)
           THEN Answers(x, 206, RangeStart(range, size), RangeEnd(range, size))
           ELSE Answers(x, 200, 0, size - 1)
        /\ UNCHANGED <<size, file, row>>

Serve(x) == Query(x) \/ Stat(x) \/ Open(x)

MediaNext ==
    \/ Download \/ InsertRow \/ DeleteFile \/ DeleteRow
    \/ \E x \in Readers : Serve(x) \/ \E range \in Range : Request(x, range)

MediaSpec == MediaInit /\ [][MediaNext]_mediaVars

-----------------------------------------------------------------------------

\* The type of every variable.
MediaTypeOK ==
    /\ size \in Sizes
    /\ file \in BOOLEAN /\ row \in BOOLEAN
    /\ reader \in [Readers -> [pc : {"idle", "query", "stat", "open"},
                               range : Range]]
    /\ reply \in [Readers -> [status : {0, 200, 206, 404, 500},
                              first : Nat, last : Int]]

\* The bytes a Range header asks of a file of n bytes.
AskedBytes(range, n) ==
    IF Suffix(range) THEN {b \in 0..(n - 1) : b >= n - Digits(range.to)}
    ELSE {b \in 0..(n - 1) :
            b >= range.from /\ (range.to # Empty => b <= range.to)}

\* A partial answer carries exactly the bytes that were asked for and are in
\* the file, at least one; the whole file is sent only when the header asks
\* for none of them or is not of the form.
RangeAsAsked ==
    \A x \in Readers :
        LET range == reader[x].range
        IN  /\ reply[x].status = 206 =>
                  /\ range.match
                  /\ AskedBytes(range, size) = reply[x].first..reply[x].last
                  /\ AskedBytes(range, size) # {}
            /\ reply[x].status = 200 =>
                  /\ reply[x].first..reply[x].last = 0..(size - 1)
                  /\ range.match => AskedBytes(range, size) = {}

\* A reader is answered, wherever the purge overtakes it.
ReaderAnswered ==
    \A x \in Readers : reader[x].pc = "query" ~> reply[x].status # 0
=============================================================================
