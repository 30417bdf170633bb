----------------------------- MODULE MCChatStore -----------------------------
(***************************************************************************)
(* A small instance of ChatStore for TLC: a document and then a picture    *)
(* from one number, on two of its lines, and a reply to another number.    *)
(***************************************************************************)
EXTENDS ChatStore, FiniteSets, TLC

CONSTANTS h1, h2, doc, pic, reply, line1, line2, line3, phone1, phone2

LineOfMessage == [m \in Wamids |-> CASE m = doc -> line1
                                      [] m = pic -> line2
                                      [] OTHER -> line3]

NumberOfLine == [k \in Lines |-> IF k = line3 THEN phone2 ELSE phone1]

TimeOfMessage == [m \in Wamids |-> IF m = doc THEN 3 ELSE 4]

\* Ids are interchangeable: a new header gets the first that is free.
FirstNewId ==
    \A k \in Lines : chats[k] = None /\ chats'[k] # None
        => chats'[k].id = CHOOSE id \in NewIds : TRUE

Purging(h) == handler[h].filter # NoFilter

\* Purges are of the document's number and name the document; the other number
\* is no candidate's.
DocumentPurged ==
    \A h \in Handlers : ~Purging(h) /\ Purging(h)' =>
        LET f == handler'[h].filter IN f.number = phone1 /\ f.ids = {doc}

\* The first call to reject may leave its upsert running, which touches only
\* the header of the document's line; meanwhile the document may come again and
\* a purge go on.  No other call begins: a discard touches no header, the reply
\* is of another line, and in PictureApart purges begin next to a branch.
ApartFromLoose ==
    /\ faulty => loose'.upsert \subseteq loose.upsert
    /\ loose.upsert # {} =>
          \A h \in Handlers : At(h, "idle") =>
              handler'[h].pc \notin {"discard", "sent", "find"}

\* The reply is taken in the second slot, before a purge begins; it may be on
\* its way all through one.
ReplyFirst ==
    /\ handler'[h1].msg # reply
    /\ purged /\ handler'[h2].msg = reply => handler[h2].msg = reply

\* The store has something of the picture.
Pictured ==
    \/ chats[line2] # None \/ rows[pic] # None \/ pic \in files \cup removed
    \/ \E h \in Handlers : handler[h].msg = pic

\* The picture comes with its file, to a quiet store before any failure, purge
\* or reply.  From then on there is one call at a time, none of them for the
\* other number.  The first to reject is a purge, of both chats by then, which
\* may leave one branch running; those that reject later leave none.
PictureApart ==
    /\ ~Pictured /\ Pictured' =>
          /\ ~purged /\ ~faulty /\ chats[line3] = None
          /\ \A h \in Handlers : At(h, "idle")
    /\ Pictured' => At(h2, "idle")'
    /\ Pictured =>
          /\ rows'[pic] # None => pic \in files \cup removed
          /\ At(h1, "idle") => handler'[h1].pc \notin {"discard", "sent"}
          /\ faulty' /\ ~faulty => Purging(h1)
          /\ faulty => \/ UNCHANGED handler
                       \/ loose' \in {loose, NothingLoose}
          /\ Cardinality(loose'.rm) + Cardinality(loose'.unread)
                + Cardinality(loose'.latest) <= 1
=============================================================================
