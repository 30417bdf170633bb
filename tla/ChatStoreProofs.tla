--------------------------- MODULE ChatStoreProofs ---------------------------
(***************************************************************************)
(* Theorems about ChatStore, for any number of messages, lines, headers    *)
(* and calls in flight.                                                    *)
(*                                                                         *)
(* The invariants speak of stored rows.  A row is made from what its       *)
(* handler carries, so the inductive invariant says the same of every      *)
(* handler: a path it carries is of a folder that was written, a header it *)
(* carries is the one of its message's line.  Both only need what other    *)
(* handlers never undo: files and removed together only grow, and until a  *)
(* purge begins a header, once made, keeps its id.                         *)
(*                                                                         *)
(* That the store implements MessageArchive needs more once purges have    *)
(* begun: every reference to a header, in a row or in a call in flight,    *)
(* agrees on the number the header belongs to (Owned), so a purge, which   *)
(* selects messages by header, reaches none of another number.             *)
(*                                                                         *)
(* For one call at a time a second invariant (SInv) says what else is true *)
(* at each point of the only handler: what its purge will delete, and that *)
(* headers, messages and files belong together but for what it is about.   *)
(* Branches of earlier calls may still run beside it, once something has   *)
(* failed: LooseOK says what they are about.                               *)
(***************************************************************************)
EXTENDS ChatStore, TLAPS

\* The folders written so far.
Written == files \cup removed

\* id is the header of m's line in the collection ch.
Hangs(m, id, ch) == ch[LineOf[m]] # None /\ ch[LineOf[m]].id = id

PurgePoints == {"find", "rm", "deleteMany", "refresh"}

\* What holds of the row of m, given the folders fs written, the headers ch
\* and whether a purge has begun.
RowOK(m, row, fs, ch, begun) ==
    row # None =>
        /\ row \in Row
        /\ row.linked => m \in fs
        /\ ~begun => Hangs(m, row.chat, ch)

\* What a handler's state r knows, given the same.
HandlerOK(r, fs, ch, begun) ==
    /\ r \in HandlerState
    /\ r.pc \in {"lookup", "download", "create", "sent", "upsert"}
          => r.msg \in Wamids
    /\ r.pc \in {"download", "discard", "unlink"} => r.msg \in WithMedia
    /\ r.pc \in {"download", "create"} => r.chat # None
    /\ r.chat # None => r.msg \in Wamids
    /\ r.linked => r.msg \in fs
    /\ r.rm \subseteq fs
    /\ r.pc # "rm" => r.rm = {}
    /\ ~begun => /\ r.pc \notin PurgePoints
                 /\ r.chat # None => Hangs(r.msg, r.chat, ch)
                 /\ r.unread = {} /\ r.latest = {}

\* What the branches l left running are about, given whether a purge has begun
\* and whether some call has rejected.
LooseOK(l, begun, bad) ==
    /\ ~begun => l.unread = {} /\ l.latest = {}
    /\ ~bad => l = NothingLoose

IInv ==
    /\ TypeOK
    /\ LooseOK(loose, purged, faulty)
    /\ \A m \in Wamids : RowOK(m, rows[m], Written, chats, purged)
    /\ \A h \in Handlers : HandlerOK(handler[h], Written, chats, purged)

-----------------------------------------------------------------------------

LEMMA IdleOK ==
    \A fs, ch, begun : HandlerOK(Idle, fs, ch, begun)
BY NoneAssumption
   DEF HandlerOK, Idle, Entering, HandlerState, Points, NoFilter, Filter,
       PurgePoints

\* A step of handler h to the state r keeps the invariant if r knows what it
\* must, no folder is forgotten, a header keeps its id until a purge begins,
\* and the rows are as good as before.
LEMMA Frame ==
    ASSUME IInv, NEW h \in Handlers, NEW r, Becomes(h, r),
           HandlerOK(r, Written', chats', purged'),
           Written \subseteq Written',
           files' \subseteq WithMedia, removed' \subseteq WithMedia,
           chats' \in [Lines -> Chat \cup {None}],
           purged' \in BOOLEAN, purged => purged', faulty' \in BOOLEAN,
           loose' \in Loose, LooseOK(loose', purged', faulty'),
           rows' \in [Wamids -> Row \cup {None}],
           \A m \in Wamids : RowOK(m, rows'[m], Written, chats, purged),
           \A m \in Wamids, id \in ChatIds :
               ~purged' /\ Hangs(m, id, chats) => Hangs(m, id, chats')
    PROVE  IInv'
<1>1. handler' \in [Handlers -> HandlerState]
  BY DEF IInv, TypeOK, Becomes, HandlerOK
<1>2. TypeOK'
  BY <1>1 DEF TypeOK
<1>3. ASSUME NEW m \in Wamids
      PROVE  RowOK(m, rows'[m], Written', chats', purged')
  <2>1. RowOK(m, rows'[m], Written, chats, purged)
    OBVIOUS
  <2>2. QED
    BY <2>1 DEF RowOK, Row
<1>4. ASSUME NEW g \in Handlers
      PROVE  HandlerOK(handler'[g], Written', chats', purged')
  <2>1. CASE g = h
    BY <2>1 DEF IInv, TypeOK, Becomes
  <2>2. CASE g # h
    <3>1. handler'[g] = handler[g]
      BY <2>2 DEF IInv, TypeOK, Becomes
    <3>2. HandlerOK(handler[g], Written, chats, purged)
      BY DEF IInv
    <3>3. handler[g].chat # None => handler[g].chat \in ChatIds
      BY <3>2 DEF HandlerOK, HandlerState
    <3>4. QED
      BY <3>1, <3>2, <3>3 DEF HandlerOK
  <2>3. QED
    BY <2>1, <2>2
<1>5. QED
  BY <1>2, <1>3, <1>4 DEF IInv

LEMMA LooseStays ==
    ASSUME IInv, UNCHANGED loose, purged' \in BOOLEAN, purged => purged',
           faulty' \in {faulty, TRUE}
    PROVE  /\ loose' \in Loose /\ LooseOK(loose', purged', faulty')
           /\ faulty' \in BOOLEAN
BY DEF IInv, TypeOK, LooseOK

\* A step that changes nothing but the state of its handler.
LEMMA LocalFrame ==
    ASSUME IInv, NEW h \in Handlers, NEW r, Becomes(h, r),
           HandlerOK(r, Written, chats, purged),
           UNCHANGED <<store, history, loose>>, faulty' \in {faulty, TRUE}
    PROVE  IInv'
<1>1. UNCHANGED <<chats, rows, files, removed, purged>>
  BY DEF store, history
<1>2. Written' = Written
  BY <1>1 DEF Written
<1>3. QED
  BY <1>1, <1>2, LooseStays, Frame DEF IInv, TypeOK

\* A step that changes folders: none is forgotten.
LEMMA FilesFrame ==
    ASSUME IInv, NEW h \in Handlers, NEW r, Becomes(h, r),
           HandlerOK(r, Written', chats, purged),
           Written \subseteq Written',
           files' \subseteq WithMedia, removed' \subseteq WithMedia,
           UNCHANGED <<chats, rows, purged, loose>>, faulty' \in {faulty, TRUE}
    PROVE  IInv'
<1>1. HandlerOK(r, Written', chats', purged')
  OBVIOUS
<1>2. QED
  BY <1>1, LooseStays, Frame DEF IInv, TypeOK

\* A step that changes rows.
LEMMA RowsFrame ==
    ASSUME IInv, NEW h \in Handlers, NEW r, Becomes(h, r),
           HandlerOK(r, Written, chats, purged),
           \A m \in Wamids : /\ rows'[m] \in Row \cup {None}
                             /\ RowOK(m, rows'[m], Written, chats, purged),
           rows' = [m \in Wamids |-> rows'[m]],
           UNCHANGED <<chats, files, history, faulty, loose>>
    PROVE  IInv'
<1>1. UNCHANGED <<files, removed, purged>> /\ Written' = Written
  BY DEF history, Written
<1>2. rows' \in [Wamids -> Row \cup {None}]
  OBVIOUS
<1>3. QED
  BY <1>1, <1>2, LooseStays, Frame DEF IInv, TypeOK

\* A step of a branch left running.
LEMMA LooseFrame ==
    ASSUME IInv, UNCHANGED <<handler, rows, purged, faulty>>,
           Written \subseteq Written',
           files' \subseteq WithMedia, removed' \subseteq WithMedia,
           chats' \in [Lines -> Chat \cup {None}],
           loose' \in Loose, LooseOK(loose', purged, faulty),
           \A m \in Wamids, id \in ChatIds :
               ~purged /\ Hangs(m, id, chats) => Hangs(m, id, chats')
    PROVE  IInv'
<1>1. TypeOK'
  BY DEF IInv, TypeOK
<1>2. ASSUME NEW m \in Wamids
      PROVE  RowOK(m, rows'[m], Written', chats', purged')
  <2>1. RowOK(m, rows[m], Written, chats, purged)
    BY DEF IInv
  <2>2. QED
    BY <2>1 DEF RowOK, Row
<1>3. ASSUME NEW g \in Handlers
      PROVE  HandlerOK(handler'[g], Written', chats', purged')
  <2>1. HandlerOK(handler[g], Written, chats, purged)
    BY DEF IInv
  <2>2. handler[g].chat # None => handler[g].chat \in ChatIds
    BY <2>1 DEF HandlerOK, HandlerState
  <2>3. QED
    BY <2>1, <2>2 DEF HandlerOK
<1>4. LooseOK(loose', purged', faulty')
  OBVIOUS
<1>5. QED
  BY <1>1, <1>2, <1>3, <1>4 DEF IInv

\* The upsert: whoever makes the header of a line first, it keeps its id.
LEMMA HeaderIsSet ==
    ASSUME IInv, NEW m \in Wamids, NEW id \in HeadersFor(LineOf[m]),
           SetHeader(m, id)
    PROVE  /\ id \in ChatIds /\ id # None
           /\ chats' \in [Lines -> Chat \cup {None}]
           /\ Hangs(m, id, chats')
           /\ \A n \in Wamids, i \in ChatIds :
                 Hangs(n, i, chats) => Hangs(n, i, chats')
<1> DEFINE k == LineOf[m]
<1>1. k \in Lines /\ TimeOf[m] \in Nat
  BY MessagesAssumption
<1>2. chats' = [chats EXCEPT ![k] = [id |-> id, lastMessageAt |-> TimeOf[m]]]
  BY DEF SetHeader
<1>3. id \in ChatIds
  BY <1>1 DEF HeadersFor, NewIds, IInv, TypeOK, Chat
<1>4. [id |-> id, lastMessageAt |-> TimeOf[m]] \in Chat
  BY <1>1, <1>3 DEF Chat
<1>5. [id |-> id, lastMessageAt |-> TimeOf[m]] # None
  BY <1>4, NoneAssumption
<1>6. chats' \in [Lines -> Chat \cup {None}]
  BY <1>2, <1>4 DEF IInv, TypeOK
<1>7. Hangs(m, id, chats')
  BY <1>1, <1>2, <1>5 DEF Hangs, IInv, TypeOK
<1>8. ASSUME NEW n \in Wamids, NEW i \in ChatIds, Hangs(n, i, chats)
      PROVE  Hangs(n, i, chats')
  <2>1. LineOf[n] \in Lines
    BY MessagesAssumption
  <2>2. CASE LineOf[n] = k
    <3>1. id = i
      BY <1>8, <2>2 DEF Hangs, HeadersFor
    <3>2. QED
      BY <1>7, <2>2, <3>1 DEF Hangs
  <2>3. CASE LineOf[n] # k
    BY <1>2, <1>8, <2>1, <2>3 DEF Hangs, IInv, TypeOK
  <2>4. QED
    BY <2>2, <2>3
<1>9. QED
  BY <1>3, <1>6, <1>7, <1>8, NoneAssumption

LEMMA UpsertKeeps ==
    ASSUME IInv, NEW h \in Handlers, NEW r, UpsertChat(h, r),
           r \in HandlerState, r.pc \in {"lookup", "create"},
           r.msg = handler[h].msg, r.msg \in Wamids,
           r.linked => r.msg \in Written, r.rm = {},
           ~purged => r.unread = {} /\ r.latest = {}
    PROVE  IInv'
<1> DEFINE m == handler[h].msg
<1>1. PICK id \in HeadersFor(LineOf[m]) :
          SetHeader(m, id) /\ Becomes(h, [r EXCEPT !.chat = id])
  BY DEF UpsertChat
<1> DEFINE q == [r EXCEPT !.chat = id]
<1>2. m \in Wamids
  OBVIOUS
<1>3. /\ id \in ChatIds /\ id # None
      /\ chats' \in [Lines -> Chat \cup {None}] /\ Hangs(m, id, chats')
      /\ \A n \in Wamids, i \in ChatIds :
            Hangs(n, i, chats) => Hangs(n, i, chats')
  BY <1>1, <1>2, HeaderIsSet
<1>4. /\ UNCHANGED <<rows, files, removed, purged, faulty, loose>>
      /\ Written' = Written
  BY DEF UpsertChat, history, Written
<1>5. /\ q \in HandlerState
      /\ q.pc = r.pc /\ q.msg = m /\ q.linked = r.linked /\ q.rm = r.rm
      /\ q.unread = r.unread /\ q.latest = r.latest /\ q.chat = id
  BY <1>3 DEF HandlerState
<1> HIDE DEF q
<1>6. HandlerOK(q, Written, chats', purged)
  BY <1>2, <1>3, <1>5 DEF HandlerOK, PurgePoints
<1>7. Becomes(h, q) /\ HandlerOK(q, Written', chats', purged')
  BY <1>1, <1>4, <1>6 DEF q
<1>8. QED
  BY <1>3, <1>4, <1>7, LooseStays, Frame DEF IInv, TypeOK

-----------------------------------------------------------------------------

LEMMA InitOK == Init => IInv
<1> SUFFICES ASSUME Init
             PROVE  IInv
  OBVIOUS
<1>1. Idle \in HandlerState
  BY IdleOK DEF HandlerOK
<1>2. TypeOK
  BY <1>1 DEF Init, TypeOK, NothingLoose, Loose
<1>3. \A m \in Wamids : RowOK(m, rows[m], Written, chats, purged)
  BY DEF Init, RowOK
<1>4. \A h \in Handlers : HandlerOK(handler[h], Written, chats, purged)
  BY IdleOK DEF Init
<1>5. LooseOK(loose, purged, faulty)
  BY DEF Init, LooseOK, NothingLoose
<1>6. QED
  BY <1>2, <1>3, <1>4, <1>5 DEF IInv

\* A handler that begins with message m knows what it must.
LEMMA EnteringOK ==
    ASSUME IInv, NEW m \in Wamids, NEW point \in {"lookup", "sent", "discard"},
           point = "discard" => m \in WithMedia
    PROVE  HandlerOK(Entering(point, m), Written, chats, purged)
BY NoneAssumption
   DEF HandlerOK, Entering, HandlerState, Points, NoFilter, Filter, PurgePoints

\* What a call leaves running is of its own kind, and nothing of a purge
\* before one has begun.
LEMMA LeftOK ==
    ASSUME IInv, NEW h \in Handlers, NEW left \in LeftBy(handler[h]),
           Loosen(left)
    PROVE  /\ loose' \in Loose
           /\ ~purged => loose'.unread = {} /\ loose'.latest = {}
<1> DEFINE r == handler[h]
<1>1. /\ HandlerOK(r, Written, chats, purged) /\ r \in HandlerState
      /\ loose \in Loose /\ LooseOK(loose, purged, faulty)
      /\ Written \subseteq WithMedia
  BY DEF IInv, TypeOK, Written
<1>2. /\ left.upsert \subseteq Wamids
      /\ left.rm \subseteq r.rm
      /\ left.unread \subseteq r.unread /\ left.latest \subseteq r.latest
  BY <1>1 DEF LeftBy, PartsOf, Branches, HandlerOK
<1>3. /\ left.rm \subseteq WithMedia
      /\ left.unread \subseteq ChatIds
      /\ left.latest \subseteq ChatIds \X (Nat \cup {None})
  BY <1>1, <1>2 DEF HandlerOK, HandlerState
<1>4. loose' \in Loose
  BY <1>1, <1>2, <1>3 DEF Loosen, Loose
<1>5. ~purged => left.unread = {} /\ left.latest = {}
  BY <1>1, <1>2 DEF HandlerOK
<1>6. ~purged => loose'.unread = {} /\ loose'.latest = {}
  BY <1>1, <1>5 DEF Loosen, LooseOK
<1>7. QED
  BY <1>4, <1>6

LEMMA CutOffKeeps ==
    ASSUME IInv, NEW h \in Handlers, CutOff(h)
    PROVE  IInv'
<1>1. PICK left \in LeftBy(handler[h]) : Loosen(left)
  BY DEF CutOff
<1>2. /\ UNCHANGED <<chats, rows, files, removed, purged>>
      /\ Written' = Written /\ Becomes(h, Idle) /\ faulty' = TRUE
  BY DEF CutOff, store, history, Written
<1>3. loose' \in Loose /\ LooseOK(loose', purged', faulty')
  BY <1>1, <1>2, LeftOK DEF LooseOK
<1>4. QED
  BY <1>2, <1>3, IdleOK, Frame DEF IInv, TypeOK

LEMMA LooseUpsertKeeps == IInv /\ LooseUpsert => IInv'
<1> SUFFICES ASSUME IInv, LooseUpsert
             PROVE  IInv'
  OBVIOUS
<1>0. PICK m \in loose.upsert : \E id \in HeadersFor(LineOf[m]) :
          /\ SetHeader(m, id)
          /\ loose' = [loose EXCEPT !.upsert = @ \ {m}]
  BY DEF LooseUpsert
<1>1. PICK id \in HeadersFor(LineOf[m]) :
          /\ SetHeader(m, id)
          /\ loose' = [loose EXCEPT !.upsert = @ \ {m}]
  BY <1>0
<1>2. loose \in Loose /\ LooseOK(loose, purged, faulty)
  BY DEF IInv, TypeOK
<1>3. m \in Wamids
  BY <1>2 DEF Loose
<1>4. loose' \in Loose /\ LooseOK(loose', purged, faulty)
  BY <1>1, <1>2 DEF Loose, LooseOK, NothingLoose
<1>5. UNCHANGED <<handler, rows, files, removed, purged, faulty>>
      /\ Written' = Written
  BY DEF LooseUpsert, history, Written
<1>6. QED
  BY <1>1, <1>3, <1>4, <1>5, HeaderIsSet, LooseFrame DEF IInv, TypeOK

LEMMA LooseRemoveKeeps == IInv /\ LooseRemove => IInv'
<1> SUFFICES ASSUME IInv, LooseRemove
             PROVE  IInv'
  OBVIOUS
<1>1. PICK m \in loose.rm :
          /\ files' = files \ {m} /\ removed' = removed \cup {m}
          /\ loose' = [loose EXCEPT !.rm = @ \ {m}]
  BY DEF LooseRemove, DeleteStoredMedia
<1>2. loose \in Loose /\ LooseOK(loose, purged, faulty)
  BY DEF IInv, TypeOK
<1>3. m \in WithMedia
  BY <1>2 DEF Loose
<1>4. loose' \in Loose /\ LooseOK(loose', purged, faulty)
  BY <1>1, <1>2 DEF Loose, LooseOK, NothingLoose
<1>5. UNCHANGED <<handler, chats, rows, purged, faulty>>
      /\ Written \subseteq Written'
  BY <1>1 DEF LooseRemove, Written
<1>6. QED
  BY <1>1, <1>3, <1>4, <1>5, LooseFrame DEF IInv, TypeOK

LEMMA LatestIsATime ==
    \A id : Latest(id) \subseteq Nat \cup {None}
BY MessagesAssumption DEF Latest, FirstOf, RowsOf

LEMMA LooseReadKeeps == IInv /\ LooseRead => IInv'
<1> SUFFICES ASSUME IInv, LooseRead
             PROVE  IInv'
  OBVIOUS
<1>1. PICK id \in loose.unread : \E time \in Latest(id) :
          loose' = [loose EXCEPT !.unread = @ \ {id},
                                 !.latest = @ \cup {<<id, time>>}]
  BY DEF LooseRead
<1>2. PICK time \in Latest(id) :
          loose' = [loose EXCEPT !.unread = @ \ {id},
                                 !.latest = @ \cup {<<id, time>>}]
  BY <1>1
<1>3. loose \in Loose /\ LooseOK(loose, purged, faulty)
  BY DEF IInv, TypeOK
<1> DEFINE found == loose.latest \cup {<<id, time>>}
<1>4. found \subseteq ChatIds \X (Nat \cup {None})
  BY <1>3, LatestIsATime DEF Loose
<1>5. purged /\ faulty
  BY <1>3 DEF LooseOK, NothingLoose, IInv, TypeOK
<1> HIDE DEF found
<1>6. loose' = [loose EXCEPT !.unread = @ \ {id}, !.latest = found]
  BY <1>2 DEF found
<1>7. loose' \in Loose /\ LooseOK(loose', purged, faulty)
  BY <1>3, <1>4, <1>5, <1>6 DEF Loose, LooseOK
<1>8. UNCHANGED <<handler, chats, rows, files, removed, purged, faulty>>
      /\ Written' = Written
  BY DEF LooseRead, store, history, Written
<1>9. QED
  BY <1>7, <1>8, LooseFrame DEF IInv, TypeOK

\* Headers keep their type when refreshed or deleted.
LEMMA UseLatestTyped ==
    ASSUME IInv, NEW found \in ChatIds \X (Nat \cup {None}), UseLatest(found)
    PROVE  chats' \in [Lines -> Chat \cup {None}]
<1>1. found[2] \in Nat \cup {None}
  OBVIOUS
<1>2. ASSUME NEW k \in Lines, chats[k] # None
      PROVE  Refreshed(chats[k], found[2]) \in Chat \cup {None}
  BY <1>1, <1>2 DEF Refreshed, IInv, TypeOK, Chat
<1>3. QED
  BY <1>2 DEF UseLatest, IInv, TypeOK

LEMMA LooseRefreshKeeps == IInv /\ LooseRefresh => IInv'
<1> SUFFICES ASSUME IInv, LooseRefresh
             PROVE  IInv'
  OBVIOUS
<1>1. PICK found \in loose.latest :
          /\ UseLatest(found)
          /\ loose' = [loose EXCEPT !.latest = @ \ {found}]
  BY DEF LooseRefresh
<1>2. loose \in Loose /\ LooseOK(loose, purged, faulty)
  BY DEF IInv, TypeOK
<1>3. purged
  BY <1>1, <1>2 DEF LooseOK, IInv, TypeOK
<1>4. loose' \in Loose /\ LooseOK(loose', purged, faulty)
  BY <1>1, <1>2 DEF Loose, LooseOK, NothingLoose
<1>5. chats' \in [Lines -> Chat \cup {None}]
  BY <1>1, <1>2, UseLatestTyped DEF Loose
<1>6. UNCHANGED <<handler, rows, files, removed, purged, faulty>>
      /\ Written' = Written
  BY DEF LooseRefresh, history, Written
<1>7. QED
  BY <1>3, <1>4, <1>5, <1>6, LooseFrame DEF IInv, TypeOK

LEMMA RestartKeeps == IInv /\ Restart => IInv'
<1> SUFFICES ASSUME IInv, Restart
             PROVE  IInv'
  OBVIOUS
<1>1. UNCHANGED <<chats, rows, files, removed, purged, Written>>
  BY DEF Restart, store, history, Written
<1>2. \A h \in Handlers : HandlerOK(handler'[h], Written', chats', purged')
  BY IdleOK DEF Restart
<1>3. TypeOK' /\ LooseOK(loose', purged', faulty')
  BY <1>1, IdleOK
     DEF Restart, IInv, TypeOK, HandlerOK, LooseOK, NothingLoose, Loose
<1>4. QED
  BY <1>1, <1>2, <1>3 DEF IInv

LEMMA ReceiveInboundKeeps ==
    ASSUME IInv, NEW h \in Handlers, NEW m \in Inbound, ReceiveInbound(h, m)
    PROVE  IInv'
BY EnteringOK, LocalFrame DEF ReceiveInbound, Wamids, IInv, TypeOK

LEMMA SendAcceptedKeeps ==
    ASSUME IInv, NEW h \in Handlers, NEW m \in Outbound, SendAccepted(h, m)
    PROVE  IInv'
BY EnteringOK, LocalFrame DEF SendAccepted, Wamids, IInv, TypeOK

LEMMA StartDiscardKeeps ==
    ASSUME IInv, NEW h \in Handlers, NEW m \in WithMedia, StartDiscard(h, m)
    PROVE  IInv'
BY EnteringOK, LocalFrame, MessagesAssumption
   DEF StartDiscard, Wamids, IInv, TypeOK

LEMMA ReadDuplicateKeeps ==
    ASSUME IInv, NEW h \in Handlers, ReadDuplicate(h)
    PROVE  IInv'
<1> DEFINE found == IF rows[handler[h].msg] # None THEN "yes" ELSE "no"
           r == [handler[h] EXCEPT !.dup = found]
<1>1. HandlerOK(handler[h], Written, chats, purged)
  BY DEF IInv
<1>2. HandlerOK(r, Written, chats, purged)
  BY <1>1 DEF HandlerOK, HandlerState
<1>3. QED
  BY <1>2, LocalFrame DEF ReadDuplicate, IInv, TypeOK

LEMMA UpsertInboundChatKeeps ==
    ASSUME IInv, NEW h \in Handlers, UpsertInboundChat(h)
    PROVE  IInv'
<1> DEFINE r == handler[h]
<1>1. HandlerOK(r, Written, chats, purged) /\ r.pc = "lookup"
  BY DEF IInv, UpsertInboundChat, At
<1>2. /\ r \in HandlerState /\ r.msg \in Wamids /\ r.rm = {}
      /\ r.linked => r.msg \in Written
      /\ ~purged => r.unread = {} /\ r.latest = {}
  BY <1>1 DEF HandlerOK, PurgePoints
<1>3. QED
  BY <1>1, <1>2, UpsertKeeps DEF UpsertInboundChat

LEMMA AfterLookupKeeps ==
    ASSUME IInv, NEW h \in Handlers, AfterLookup(h)
    PROVE  IInv'
<1> DEFINE point == IF handler[h].msg \in WithMedia
                    THEN "download" ELSE "create"
           r == [handler[h] EXCEPT !.pc = point]
<1>1. HandlerOK(handler[h], Written, chats, purged)
  BY DEF IInv
<1>2. HandlerOK(r, Written, chats, purged)
  BY <1>1
     DEF HandlerOK, HandlerState, Points, PurgePoints, AfterLookup, LookedUp, At
<1>3. QED
  BY <1>2, IdleOK, LocalFrame DEF AfterLookup, HasMedia, Goes, IInv, TypeOK

LEMMA DownloadMediaKeeps ==
    ASSUME IInv, NEW h \in Handlers, DownloadMedia(h)
    PROVE  IInv'
<1> DEFINE m == handler[h].msg
           ok == [handler[h] EXCEPT !.pc = "create", !.linked = TRUE]
           bad == [handler[h] EXCEPT !.pc = "create"]
<1>1. HandlerOK(handler[h], Written, chats, purged) /\ At(h, "download")
  BY DEF IInv, DownloadMedia
<1>2. m \in WithMedia /\ m \in Wamids
  BY <1>1, MessagesAssumption DEF HandlerOK, At, Wamids
<1>3. HandlerOK(bad, Written, chats, purged)
  BY <1>1, <1>2 DEF HandlerOK, HandlerState, Points, PurgePoints, At
<1>4. HandlerOK(ok, Written \cup {m}, chats, purged)
  BY <1>1, <1>2 DEF HandlerOK, HandlerState, Points, PurgePoints, At
<1>5. files \subseteq WithMedia /\ removed \subseteq WithMedia
      /\ faulty \in BOOLEAN
  BY DEF IInv, TypeOK
<1> HIDE DEF ok
<1>6. CASE /\ files' = files \cup {m} /\ removed' = removed \ {m}
           /\ Becomes(h, ok) /\ UNCHANGED faulty
  <2>1. Written' = Written \cup {m}
    BY <1>6 DEF Written
  <2>2. QED
    BY <1>2, <1>4, <1>5, <1>6, <2>1, FilesFrame DEF DownloadMedia
<1> HIDE DEF bad
<1>7. CASE Becomes(h, bad) /\ UNCHANGED <<files, removed, faulty>>
  <2>1. Written' = Written
    BY <1>7 DEF Written
  <2>2. QED
    BY <1>3, <1>5, <1>7, <2>1, FilesFrame DEF DownloadMedia
<1>8. CASE /\ files' = files \cup {m} /\ faulty' = TRUE
           /\ Becomes(h, bad) /\ UNCHANGED removed
  <2>1. Written' = Written \cup {m}
    BY <1>8 DEF Written
  <2>2. HandlerOK(bad, Written \cup {m}, chats, purged)
    BY <1>3 DEF HandlerOK
  <2>3. QED
    BY <1>2, <1>5, <1>8, <2>1, <2>2, FilesFrame DEF DownloadMedia
<1>9. QED
  BY <1>6, <1>7, <1>8
     DEF DownloadMedia, SaveInboundMedia, FailedDownload, Goes, ok, bad

LEMMA CreateMessageKeeps ==
    ASSUME IInv, NEW h \in Handlers, CreateMessage(h)
    PROVE  IInv'
<1> DEFINE m == handler[h].msg
           row == [chat |-> handler[h].chat, linked |-> handler[h].linked]
<1>1. HandlerOK(handler[h], Written, chats, purged) /\ At(h, "create")
  BY DEF IInv, CreateMessage
<1>2. row \in Row /\ RowOK(m, row, Written, chats, purged)
  BY <1>1 DEF HandlerOK, HandlerState, At, RowOK, Row
<1>3. rows \in [Wamids -> Row \cup {None}]
      /\ \A n \in Wamids : RowOK(n, rows[n], Written, chats, purged)
  BY DEF IInv, TypeOK
<1> HIDE DEF row
<1>4. CreateRow(m, row)
  BY DEF CreateMessage, row
<1>5. /\ rows' = [n \in Wamids |-> rows'[n]]
      /\ \A n \in Wamids : /\ rows'[n] \in Row \cup {None}
                           /\ RowOK(n, rows'[n], Written, chats, purged)
  BY <1>2, <1>3, <1>4 DEF CreateRow
<1>6. QED
  BY <1>5, IdleOK, RowsFrame DEF CreateMessage

LEMMA AfterSentLookupKeeps ==
    ASSUME IInv, NEW h \in Handlers, AfterSentLookup(h)
    PROVE  IInv'
<1> DEFINE r == [handler[h] EXCEPT !.pc = "upsert"]
<1>1. HandlerOK(handler[h], Written, chats, purged)
  BY DEF IInv
<1>2. HandlerOK(r, Written, chats, purged)
  BY <1>1
     DEF HandlerOK, HandlerState, Points, PurgePoints, AfterSentLookup, At
<1>3. QED
  BY <1>2, IdleOK, LocalFrame DEF AfterSentLookup, Goes, IInv, TypeOK

LEMMA UpsertOutboundChatKeeps ==
    ASSUME IInv, NEW h \in Handlers, UpsertOutboundChat(h)
    PROVE  IInv'
<1> DEFINE r == [handler[h] EXCEPT !.pc = "create"]
<1>1. HandlerOK(handler[h], Written, chats, purged) /\ handler[h].pc = "upsert"
  BY DEF IInv, UpsertOutboundChat, At
<1>2. /\ r \in HandlerState /\ r.pc = "create"
      /\ r.msg = handler[h].msg /\ r.msg \in Wamids
      /\ r.rm = {} /\ (r.linked => r.msg \in Written)
      /\ ~purged => r.unread = {} /\ r.latest = {}
  BY <1>1 DEF HandlerOK, HandlerState, Points, PurgePoints
<1>3. UpsertChat(h, r)
  BY DEF UpsertOutboundChat
<1> HIDE DEF r
<1>4. QED
  BY <1>2, <1>3, UpsertKeeps

-----------------------------------------------------------------------------

LEMMA DiscardFileKeeps ==
    ASSUME IInv, NEW h \in Handlers, DiscardFile(h)
    PROVE  IInv'
<1> DEFINE m == handler[h].msg
           r == [handler[h] EXCEPT !.pc = "unlink"]
<1>1. HandlerOK(handler[h], Written, chats, purged) /\ At(h, "discard")
  BY DEF IInv, DiscardFile
<1>2. m \in WithMedia
  BY <1>1 DEF HandlerOK, At
<1>3. Written' = Written \cup {m}
  BY DEF DiscardFile, DeleteStoredMedia, Written
<1>4. HandlerOK(r, Written \cup {m}, chats, purged)
  BY <1>1, <1>2 DEF HandlerOK, HandlerState, Points, PurgePoints, At
<1> HIDE DEF r
<1>5. Becomes(h, r)
  BY DEF DiscardFile, Goes, r
<1>6. files' \subseteq WithMedia /\ removed' \subseteq WithMedia
  BY <1>2 DEF DiscardFile, DeleteStoredMedia, IInv, TypeOK
<1>7. QED
  BY <1>3, <1>4, <1>5, <1>6, FilesFrame DEF DiscardFile

LEMMA UnlinkFileKeeps ==
    ASSUME IInv, NEW h \in Handlers, UnlinkFile(h)
    PROVE  IInv'
<1> DEFINE m == handler[h].msg
<1>1. HandlerOK(handler[h], Written, chats, purged) /\ At(h, "unlink")
  BY DEF IInv, UnlinkFile
<1>2. m \in Wamids
  BY <1>1, MessagesAssumption DEF HandlerOK, At, Wamids
<1>3. rows \in [Wamids -> Row \cup {None}]
      /\ \A n \in Wamids : RowOK(n, rows[n], Written, chats, purged)
  BY DEF IInv, TypeOK
<1>4. CASE rows[m] = None
  BY <1>3, <1>4, IdleOK, RowsFrame DEF UnlinkFile
<1>5. CASE rows[m] # None
  <2> DEFINE row == [rows[m] EXCEPT !.linked = FALSE]
  <2>1. row \in Row /\ RowOK(m, row, Written, chats, purged)
    BY <1>2, <1>3, <1>5 DEF RowOK, Row
  <2> HIDE DEF row
  <2>2. rows' = [rows EXCEPT ![m] = row]
    BY <1>5 DEF UnlinkFile, row
  <2>3. /\ rows' = [n \in Wamids |-> rows'[n]]
        /\ \A n \in Wamids : /\ rows'[n] \in Row \cup {None}
                             /\ RowOK(n, rows'[n], Written, chats, purged)
    BY <1>3, <2>1, <2>2
  <2>4. QED
    BY <2>3, IdleOK, RowsFrame DEF UnlinkFile
<1>6. QED
  BY <1>4, <1>5

LEMMA StartPurgeKeeps ==
    ASSUME IInv, NEW h \in Handlers, NEW number \in Numbers,
           NEW since \in Sinces, NEW ids \in SUBSET WithMedia,
           StartPurge(h, number, since, ids)
    PROVE  IInv'
<1> DEFINE mine == {k \in Lines : NumberOf[k] = number /\ chats[k] # None}
           found == {chats[k].id : k \in mine}
           f == [number |-> number, chats |-> found, since |-> since,
                 ids |-> ids]
           r == [Entering("find", None) EXCEPT !.filter = f]
<1>1. f \in Filter
  BY MessagesAssumption DEF Filter, IInv, TypeOK, Chat, Wamids
<1> HIDE DEF f
<1>2. r \in HandlerState /\ r.pc = "find" /\ r.chat = None /\ ~r.linked
      /\ r.rm = {}
  BY <1>1 DEF Entering, HandlerState, Points, NoFilter, Filter
<1> HIDE DEF r
<1>3. HandlerOK(r, Written, chats, TRUE)
  BY <1>2 DEF HandlerOK
<1>4. Becomes(h, r)
  BY DEF StartPurge, r, f
<1>5. UNCHANGED <<chats, rows, files, removed, faulty, loose>>
      /\ purged' = TRUE /\ Written' = Written
  BY DEF StartPurge, store, Written
<1>6. QED
  BY <1>3, <1>4, <1>5, LooseStays, Frame DEF IInv, TypeOK

\* The other steps of a purge: they change only what the purge still has to
\* do, folders or rows.
LEMMA PurgeStateOK ==
    ASSUME IInv, NEW h \in Handlers, handler[h].pc \in PurgePoints, NEW r,
           r \in HandlerState, r.pc \in PurgePoints,
           r.msg = handler[h].msg, r.chat = handler[h].chat,
           r.linked = handler[h].linked, r.rm \subseteq Written,
           r.pc # "rm" => r.rm = {}
    PROVE  HandlerOK(r, Written, chats, purged)
<1>1. HandlerOK(handler[h], Written, chats, purged)
  BY DEF IInv
<1>2. QED
  BY <1>1 DEF HandlerOK, PurgePoints

LEMMA FindMessagesKeeps ==
    ASSUME IInv, NEW h \in Handlers, FindMessages(h)
    PROVE  IInv'
<1> DEFINE linked == {m \in Wamids : /\ Matches(handler[h].filter, m)
                                     /\ rows[m].linked}
           r == [handler[h] EXCEPT !.pc = "rm", !.rm = linked]
<1>1. handler[h] \in HandlerState /\ handler[h].pc = "find"
  BY DEF IInv, TypeOK, FindMessages, At
<1>2. /\ r \in HandlerState /\ r.pc = "rm"
      /\ r.msg = handler[h].msg /\ r.chat = handler[h].chat
      /\ r.linked = handler[h].linked
  BY <1>1 DEF HandlerState, Points
<1>3. Becomes(h, r)
  BY DEF FindMessages
<1>4. r.rm \subseteq Written
  <2>1. linked \subseteq Written
    BY DEF IInv, RowOK, Matches
  <2>2. QED
    BY <1>1, <2>1 DEF HandlerState
<1> HIDE DEF r
<1>5. HandlerOK(r, Written, chats, purged)
  BY <1>1, <1>2, <1>4, PurgeStateOK DEF PurgePoints
<1>6. QED
  BY <1>3, <1>5, LocalFrame DEF FindMessages, IInv, TypeOK

LEMMA RemoveFileKeeps ==
    ASSUME IInv, NEW h \in Handlers, RemoveFile(h)
    PROVE  IInv'
<1>1. PICK m \in handler[h].rm :
          /\ files' = files \ {m} /\ removed' = removed \cup {m}
          /\ Becomes(h, [handler[h] EXCEPT !.rm = @ \ {m}])
  BY DEF RemoveFile, DeleteStoredMedia
<1> DEFINE r == [handler[h] EXCEPT !.rm = @ \ {m}]
<1>2. handler[h] \in HandlerState /\ handler[h].pc = "rm"
      /\ handler[h].rm \subseteq Written /\ Written \subseteq WithMedia
  BY DEF IInv, TypeOK, HandlerOK, RemoveFile, At, Written
<1>3. /\ r \in HandlerState /\ r.pc = "rm"
      /\ r.msg = handler[h].msg /\ r.chat = handler[h].chat
      /\ r.linked = handler[h].linked /\ r.rm \subseteq Written
  BY <1>2 DEF HandlerState
<1> HIDE DEF r
<1>4. HandlerOK(r, Written, chats, purged)
  BY <1>2, <1>3, PurgeStateOK DEF PurgePoints
<1>5. Written' = Written \cup {m}
  BY <1>1 DEF Written
<1>6. HandlerOK(r, Written', chats, purged)
  BY <1>4, <1>5 DEF HandlerOK
<1>7. QED
  BY <1>1, <1>2, <1>5, <1>6, FilesFrame DEF RemoveFile, IInv, TypeOK, r

LEMMA FilesRemovedKeeps ==
    ASSUME IInv, NEW h \in Handlers, FilesRemoved(h)
    PROVE  IInv'
<1> DEFINE r == [handler[h] EXCEPT !.pc = "deleteMany"]
<1>1. handler[h] \in HandlerState /\ handler[h].pc = "rm"
      /\ handler[h].rm = {}
  BY DEF IInv, TypeOK, FilesRemoved, At
<1>2. /\ r \in HandlerState /\ r.pc = "deleteMany"
      /\ r.msg = handler[h].msg /\ r.chat = handler[h].chat
      /\ r.linked = handler[h].linked /\ r.rm = {}
  BY <1>1 DEF HandlerState, Points
<1>3. Becomes(h, r)
  BY DEF FilesRemoved, Goes
<1> HIDE DEF r
<1>4. HandlerOK(r, Written, chats, purged)
  BY <1>1, <1>2, PurgeStateOK DEF PurgePoints
<1>5. QED
  BY <1>3, <1>4, LocalFrame DEF FilesRemoved, IInv, TypeOK

LEMMA DeleteMessagesKeeps ==
    ASSUME IInv, NEW h \in Handlers, DeleteMessages(h)
    PROVE  IInv'
<1> DEFINE r == [handler[h] EXCEPT !.pc = "refresh",
                                   !.unread = handler[h].filter.chats]
<1>1. /\ handler[h] \in HandlerState /\ handler[h].pc = "deleteMany"
      /\ handler[h].rm = {}
  BY DEF IInv, TypeOK, HandlerOK, DeleteMessages, At
<1>2. /\ r \in HandlerState /\ r.pc = "refresh"
      /\ r.msg = handler[h].msg /\ r.chat = handler[h].chat
      /\ r.linked = handler[h].linked /\ r.rm = {}
  BY <1>1 DEF HandlerState, Points, Filter
<1>3. Becomes(h, r)
  BY DEF DeleteMessages
<1> HIDE DEF r
<1>4. HandlerOK(r, Written, chats, purged)
  BY <1>1, <1>2, PurgeStateOK DEF PurgePoints
<1>5. \A m \in Wamids : /\ rows'[m] \in Row \cup {None}
                        /\ RowOK(m, rows'[m], Written, chats, purged)
  BY DEF DeleteMessages, IInv, TypeOK, RowOK
<1>6. rows' = [m \in Wamids |-> rows'[m]]
  BY DEF DeleteMessages
<1>7. QED
  BY <1>3, <1>4, <1>5, <1>6, RowsFrame DEF DeleteMessages

LEMMA ReadLatestKeeps ==
    ASSUME IInv, NEW h \in Handlers, ReadLatest(h)
    PROVE  IInv'
<1>0. PICK id \in handler[h].unread : \E time \in Latest(id) :
          Becomes(h, [handler[h] EXCEPT !.unread = @ \ {id},
                                        !.latest = @ \cup {<<id, time>>}])
  BY DEF ReadLatest
<1>1. PICK time \in Latest(id) :
          Becomes(h, [handler[h] EXCEPT !.unread = @ \ {id},
                                        !.latest = @ \cup {<<id, time>>}])
  BY <1>0
<1> DEFINE found == handler[h].latest \cup {<<id, time>>}
           r == [handler[h] EXCEPT !.unread = @ \ {id}, !.latest = found]
<1>2. /\ handler[h] \in HandlerState /\ handler[h].pc = "refresh"
      /\ handler[h].rm = {}
  BY DEF IInv, TypeOK, HandlerOK, ReadLatest, At
<1>3. time \in Nat \cup {None}
  BY LatestIsATime
<1>4. id \in ChatIds
  BY <1>2 DEF HandlerState
<1>5. found \in SUBSET (ChatIds \X (Nat \cup {None}))
  BY <1>2, <1>3, <1>4 DEF HandlerState
<1> HIDE DEF found
<1>6. /\ r \in HandlerState /\ r.pc = "refresh"
      /\ r.msg = handler[h].msg /\ r.chat = handler[h].chat
      /\ r.linked = handler[h].linked /\ r.rm = {}
  BY <1>2, <1>5 DEF HandlerState
<1>7. Becomes(h, r)
  BY <1>1 DEF found
<1> HIDE DEF r
<1>8. HandlerOK(r, Written, chats, purged)
  BY <1>2, <1>6, PurgeStateOK DEF PurgePoints
<1>9. QED
  BY <1>7, <1>8, LocalFrame DEF ReadLatest, IInv, TypeOK

\* A purge has begun when it changes headers, so nothing is said of them.
LEMMA RefreshChatKeeps ==
    ASSUME IInv, NEW h \in Handlers, RefreshChat(h)
    PROVE  IInv'
<1>1. PICK found \in handler[h].latest :
          UseLatest(found)
          /\ Becomes(h, [handler[h] EXCEPT !.latest = @ \ {found}])
  BY DEF RefreshChat
<1> DEFINE r == [handler[h] EXCEPT !.latest = @ \ {found}]
<1>2. /\ handler[h] \in HandlerState /\ handler[h].pc = "refresh"
      /\ handler[h].rm = {}
  BY DEF IInv, TypeOK, HandlerOK, RefreshChat, At
<1>3. purged = TRUE
  BY <1>2 DEF IInv, TypeOK, HandlerOK, PurgePoints
<1>6. chats' \in [Lines -> Chat \cup {None}]
  BY <1>1, <1>2, UseLatestTyped DEF HandlerState
<1>7. /\ r \in HandlerState /\ r.pc = "refresh"
      /\ r.msg = handler[h].msg /\ r.chat = handler[h].chat
      /\ r.linked = handler[h].linked /\ r.rm = {}
  BY <1>2 DEF HandlerState
<1>8. UNCHANGED <<rows, files, removed, purged, faulty, loose>>
      /\ Written' = Written
  BY DEF RefreshChat, history, Written
<1> HIDE DEF r
<1>9. HandlerOK(r, Written, chats, purged)
  BY <1>2, <1>7, PurgeStateOK DEF PurgePoints
<1>10. HandlerOK(r, Written', chats', purged')
  BY <1>3, <1>8, <1>9 DEF HandlerOK
<1>11. Becomes(h, r)
  BY <1>1 DEF r
<1>12. QED
  BY <1>3, <1>6, <1>8, <1>10, <1>11, LooseStays, Frame DEF IInv, TypeOK

LEMMA PurgeDoneKeeps ==
    ASSUME IInv, NEW h \in Handlers, PurgeDone(h)
    PROVE  IInv'
BY IdleOK, LocalFrame DEF PurgeDone, IInv, TypeOK

-----------------------------------------------------------------------------

LEMMA StutterKeeps == IInv /\ UNCHANGED vars => IInv'
BY DEF IInv, TypeOK, LooseOK, Written, vars, store, history

LEMMA NextKeeps == IInv /\ [Next]_vars => IInv'
<1> SUFFICES ASSUME IInv, [Next]_vars
             PROVE  IInv'
  OBVIOUS
<1>1. CASE UNCHANGED vars
  BY <1>1, StutterKeeps
<1>2. ASSUME NEW h \in Handlers, Arrival(h)
      PROVE  IInv'
  BY <1>2, ReceiveInboundKeeps, SendAcceptedKeeps, StartDiscardKeeps,
     StartPurgeKeeps DEF Arrival
<1>3. ASSUME NEW h \in Handlers, Progress(h)
      PROVE  IInv'
  BY <1>3, ReadDuplicateKeeps, UpsertInboundChatKeeps, AfterLookupKeeps,
     DownloadMediaKeeps, CreateMessageKeeps, AfterSentLookupKeeps,
     UpsertOutboundChatKeeps, DiscardFileKeeps, UnlinkFileKeeps,
     FindMessagesKeeps, RemoveFileKeeps, FilesRemovedKeeps,
     DeleteMessagesKeeps, ReadLatestKeeps, RefreshChatKeeps, PurgeDoneKeeps
     DEF Progress
<1>4. QED
  BY <1>1, <1>2, <1>3, CutOffKeeps, LooseUpsertKeeps, LooseRemoveKeeps,
     LooseReadKeeps, LooseRefreshKeeps, RestartKeeps DEF Next, GoesOnLoose

LEMMA Invariance == Spec => []IInv
BY InitOK, NextKeeps, PTL DEF Spec

\* Every header, row, folder and call in flight keeps its type.
THEOREM StoreTypeCorrect == Spec => []TypeOK
<1>1. IInv => TypeOK
  BY DEF IInv
<1>2. QED
  BY <1>1, Invariance, PTL

\* downloadInboundMediaIfNeeded writes the folder before the row that points
\* to it is made: a stored path is of a file that is there, or was until a
\* discard or a purge removed it, whatever calls overlap, fail or are lost.
THEOREM StoredPathsExist == Spec => []LinkedFilesExist
<1>1. IInv => LinkedFilesExist
  BY MessagesAssumption
     DEF IInv, RowOK, Written, LinkedFilesExist, Wamids
<1>2. QED
  BY <1>1, Invariance, PTL

\* Until a candidate is purged, every stored message refers to the header of
\* its waId and phoneNumberId, though any number of calls upsert it at once.
THEOREM MessagesHangFromTheirChat == Spec => []RowsHangFromTheirLine
<1>1. IInv => RowsHangFromTheirLine
  BY DEF IInv, RowOK, Hangs, RowsHangFromTheirLine
<1>2. QED
  BY <1>1, Invariance, PTL

\* What a step may do to a stored message.
Kept(m) ==
    rows[m] # None /\ rows'[m] # None =>
        rows'[m] \in {rows[m], [rows[m] EXCEPT !.linked = FALSE]}

\* What is left running makes no message and no file.
LEMMA LooseOnlyRemoves ==
    GoesOnLoose => UNCHANGED <<rows, handler, faulty>> /\ files' \subseteq files
BY DEF GoesOnLoose, LooseUpsert, LooseRemove, LooseRead, LooseRefresh,
       DeleteStoredMedia, store

LEMMA StepKeepsRows ==
    ASSUME TypeOK, [Next]_vars, NEW m \in Wamids
    PROVE  Kept(m)
<1>1. CASE UNCHANGED rows
  BY <1>1 DEF Kept
<1>2. ASSUME NEW h \in Handlers, CreateMessage(h)
      PROVE  Kept(m)
  BY <1>2 DEF CreateMessage, CreateRow, TypeOK, Kept
<1>3. ASSUME NEW h \in Handlers, UnlinkFile(h)
      PROVE  Kept(m)
  BY <1>3 DEF UnlinkFile, TypeOK, Kept
<1>4. ASSUME NEW h \in Handlers, DeleteMessages(h)
      PROVE  Kept(m)
  BY <1>4 DEF DeleteMessages, Kept
<1>5. ASSUME NEW h \in Handlers, UpsertInboundChat(h) \/ UpsertOutboundChat(h)
      PROVE  UNCHANGED rows
  BY <1>5 DEF UpsertInboundChat, UpsertOutboundChat, UpsertChat
<1>6. ASSUME NEW h \in Handlers, Arrival(h) \/ CutOff(h)
      PROVE  UNCHANGED rows
  BY <1>6 DEF Arrival, ReceiveInbound, SendAccepted, StartDiscard, StartPurge,
              CutOff, store
<1>7. ASSUME NEW h \in Handlers, Progress(h),
             ~CreateMessage(h), ~UnlinkFile(h), ~DeleteMessages(h)
      PROVE  UNCHANGED rows
  BY <1>5, <1>7
     DEF Progress, ReadDuplicate, AfterLookup, DownloadMedia, AfterSentLookup,
         DiscardFile, FindMessages, RemoveFile, FilesRemoved, ReadLatest,
         RefreshChat, PurgeDone, store
<1>8. QED
  BY <1>1, <1>2, <1>3, <1>4, <1>6, <1>7, LooseOnlyRemoves
     DEF Next, Restart, vars, store

\* The unique index on the wamid: delivering a message again never replaces
\* what is stored of it, not even when both deliveries found no duplicate.
THEOREM RedeliveryKeepsRows == Spec => RowsAreNotReplaced
<1>1. TypeOK /\ [Next]_vars => [\A m \in Wamids : Kept(m)]_vars
  BY StepKeepsRows
<1>2. TypeOK /\ [Next]_vars => [\A m \in Wamids :
          rows[m] # None /\ rows'[m] # None =>
              rows'[m] \in {rows[m], [rows[m] EXCEPT !.linked = FALSE]}]_vars
  BY <1>1 DEF Kept
<1>3. QED
  BY <1>2, StoreTypeCorrect, PTL DEF Spec, RowsAreNotReplaced

-----------------------------------------------------------------------------
(* What the store implements: MessageArchive.                              *)

\* What a purge with filter f is allowed to delete.
Reaches(f, m) ==
    /\ NumberOf[LineOf[m]] = f.number
    /\ TimeOf[m] >= f.since \/ m \in f.ids

\* The headers that handler state r knows of are of the number it serves, and
\* a purge has found nothing that it may not delete.
Serves(r, owner) ==
    /\ r.chat # None => owner[r.chat] = NumberOf[LineOf[r.msg]]
    /\ \A id \in r.filter.chats : owner[id] = r.filter.number
    /\ \A m \in r.rm : Reaches(r.filter, m)
    /\ r.pc \in PurgePoints
          => r.filter.number \in Numbers /\ r.filter.since \in Sinces

\* Every reference to a header agrees on the number it belongs to.
Owns(owner) ==
    /\ \A k \in Lines : chats[k] # None => owner[chats[k].id] = NumberOf[k]
    /\ \A m \in Wamids : rows[m] # None
          => owner[rows[m].chat] = NumberOf[LineOf[m]]
    /\ \A h \in Handlers : Serves(handler[h], owner)

\* An ObjectId that is in use is one number's: it goes by the name of a header
\* that was deleted only when nothing refers to that header any more.
Owned == \E owner \in [ChatIds -> Numbers \cup {None}] : Owns(owner)

LEMMA OwnsFrame ==
    ASSUME IInv, NEW owner, Owns(owner), NEW h \in Handlers, NEW r,
           Becomes(h, r), Serves(r, owner),
           \A k \in Lines : chats'[k] # None
               => owner[chats'[k].id] = NumberOf[k],
           \A m \in Wamids : rows'[m] # None
               => owner[rows'[m].chat] = NumberOf[LineOf[m]]
    PROVE  Owns(owner)'
<1>1. ASSUME NEW g \in Handlers
      PROVE  Serves(handler'[g], owner)
  BY DEF Owns, IInv, TypeOK, Becomes
<1>2. QED
  BY <1>1 DEF Owns

\* A step that changes no header and no row.
LEMMA OwnsLocal ==
    ASSUME IInv, NEW owner, Owns(owner), NEW h \in Handlers, NEW r,
           Becomes(h, r), Serves(r, owner), UNCHANGED <<chats, rows>>
    PROVE  Owns(owner)'
BY OwnsFrame DEF Owns

LEMMA ServesEntering ==
    ASSUME NEW owner, NEW point \in {"idle", "lookup", "sent", "discard"}, NEW m
    PROVE  Serves(Entering(point, m), owner)
BY DEF Serves, Entering, NoFilter, PurgePoints

LEMMA ServesIdle == \A owner : Serves(Idle, owner)
BY ServesEntering DEF Idle

\* A handler that goes on with what it knew.
LEMMA ServesOn ==
    ASSUME NEW owner, NEW h \in Handlers, Owns(owner), NEW r,
           r.chat = handler[h].chat, r.msg = handler[h].msg,
           r.filter = handler[h].filter, r.rm \subseteq handler[h].rm,
           r.pc \in PurgePoints => handler[h].pc \in PurgePoints
    PROVE  Serves(r, owner)
<1>1. Serves(handler[h], owner)
  BY DEF Owns
<1>2. QED
  BY <1>1 DEF Serves

\* Steps of one handler alone.
LEMMA OwnsGoesOn ==
    ASSUME IInv, NEW owner, Owns(owner), NEW h \in Handlers,
           \/ ReadDuplicate(h) \/ AfterLookup(h) \/ DownloadMedia(h)
           \/ AfterSentLookup(h) \/ DiscardFile(h) \/ RemoveFile(h)
           \/ FilesRemoved(h) \/ ReadLatest(h) \/ PurgeDone(h) \/ CutOff(h)
    PROVE  Owns(owner)'
<1> DEFINE s == handler[h]
<1>1. s \in HandlerState
  BY DEF IInv, TypeOK
<1>2. CASE ReadDuplicate(h)
  <2> DEFINE found == IF rows[s.msg] # None THEN "yes" ELSE "no"
             r == [s EXCEPT !.dup = found]
  <2>1. Becomes(h, r) /\ UNCHANGED <<chats, rows>>
    BY <1>2 DEF ReadDuplicate, store
  <2>2. Serves(r, owner)
    BY <1>1, ServesOn DEF HandlerState
  <2>3. QED
    BY <2>1, <2>2, OwnsLocal
<1>3. CASE AfterLookup(h)
  <2>1. Serves([s EXCEPT !.pc = "download"], owner)
    BY <1>1, ServesOn DEF HandlerState, PurgePoints
  <2>2. Serves([s EXCEPT !.pc = "create"], owner)
    BY <1>1, ServesOn DEF HandlerState, PurgePoints
  <2>3. QED
    BY <1>3, <2>1, <2>2, ServesIdle, OwnsLocal DEF AfterLookup, Goes, store
<1>4. CASE DownloadMedia(h)
  <2>1. Serves([s EXCEPT !.pc = "create", !.linked = TRUE], owner)
    BY <1>1, ServesOn DEF HandlerState, PurgePoints
  <2>2. Serves([s EXCEPT !.pc = "create"], owner)
    BY <1>1, ServesOn DEF HandlerState, PurgePoints
  <2>3. QED
    BY <1>4, <2>1, <2>2, OwnsLocal DEF DownloadMedia, FailedDownload, Goes
<1>5. CASE AfterSentLookup(h)
  <2>1. Serves([s EXCEPT !.pc = "upsert"], owner)
    BY <1>1, ServesOn DEF HandlerState, PurgePoints
  <2>2. QED
    BY <1>5, <2>1, ServesIdle, OwnsLocal DEF AfterSentLookup, Goes, store
<1>6. CASE DiscardFile(h)
  <2>1. Serves([s EXCEPT !.pc = "unlink"], owner)
    BY <1>1, ServesOn DEF HandlerState, PurgePoints
  <2>2. QED
    BY <1>6, <2>1, OwnsLocal DEF DiscardFile, Goes
<1>7. CASE RemoveFile(h)
  <2>1. PICK m \in s.rm : Becomes(h, [s EXCEPT !.rm = @ \ {m}])
    BY <1>7 DEF RemoveFile
  <2> DEFINE r == [s EXCEPT !.rm = @ \ {m}]
  <2>2. Serves(r, owner)
    BY <1>1, ServesOn DEF HandlerState
  <2>3. QED
    BY <1>7, <2>1, <2>2, OwnsLocal DEF RemoveFile
<1>8. CASE FilesRemoved(h)
  <2>1. Serves([s EXCEPT !.pc = "deleteMany"], owner)
    BY <1>1, <1>8, ServesOn DEF HandlerState, PurgePoints, FilesRemoved, At
  <2>2. QED
    BY <1>8, <2>1, OwnsLocal DEF FilesRemoved, Goes, store
<1>9. CASE ReadLatest(h)
  <2>1. PICK left, found :
            Becomes(h, [s EXCEPT !.unread = left, !.latest = found])
    BY <1>9 DEF ReadLatest
  <2> DEFINE r == [s EXCEPT !.unread = left, !.latest = found]
  <2>2. Serves(r, owner)
    BY <1>1, ServesOn DEF HandlerState
  <2>3. QED
    BY <1>9, <2>1, <2>2, OwnsLocal DEF ReadLatest, store
<1>10. CASE PurgeDone(h) \/ CutOff(h)
  BY <1>10, ServesIdle, OwnsLocal DEF PurgeDone, CutOff, store
<1>11. QED
  BY <1>2, <1>3, <1>4, <1>5, <1>6, <1>7, <1>8, <1>9, <1>10

\* A row is made for the header its handler upserted, or loses its file.
LEMMA OwnsStored ==
    ASSUME IInv, NEW owner, Owns(owner), NEW h \in Handlers,
           CreateMessage(h) \/ UnlinkFile(h)
    PROVE  Owns(owner)'
<1> DEFINE s == handler[h]
<1>1. HandlerOK(s, Written, chats, purged) /\ Serves(s, owner)
  BY DEF IInv, Owns
<1>2. rows \in [Wamids -> Row \cup {None}] /\ UNCHANGED chats
      /\ Becomes(h, Idle)
  BY DEF IInv, TypeOK, CreateMessage, UnlinkFile
<1>3. ASSUME NEW m \in Wamids, rows'[m] # None
      PROVE  owner[rows'[m].chat] = NumberOf[LineOf[m]]
  <2>1. CASE CreateMessage(h)
    <3>1. s.chat # None
      BY <1>1, <2>1 DEF CreateMessage, At, HandlerOK
    <3>2. owner[s.chat] = NumberOf[LineOf[s.msg]]
      BY <1>1, <3>1 DEF Serves
    <3>3. \/ rows'[m] = rows[m]
          \/ m = s.msg /\ rows'[m].chat = s.chat
      BY <1>2, <2>1 DEF CreateMessage, CreateRow
    <3>4. QED
      BY <1>3, <3>2, <3>3 DEF Owns
  <2>2. CASE UnlinkFile(h)
    <3>1. rows[m] # None /\ rows'[m].chat = rows[m].chat
      BY <1>2, <1>3, <2>2 DEF UnlinkFile, Row
    <3>2. QED
      BY <3>1 DEF Owns
  <2>3. QED
    BY <2>1, <2>2
<1>4. QED
  BY <1>2, <1>3, ServesIdle, OwnsFrame DEF Owns

\* What the filter matches hangs from a header of the purge's number.
LEMMA MatchedIsReached ==
    ASSUME NEW owner, Owns(owner), NEW h \in Handlers, NEW m \in Wamids,
           Matches(handler[h].filter, m)
    PROVE  Reaches(handler[h].filter, m)
<1>1. Serves(handler[h], owner)
  BY DEF Owns
<1>2. QED
  BY <1>1 DEF Matches, Reaches, Serves, Owns

\* A header that is refreshed keeps its id.
LEMMA IdsAreKept ==
    ASSUME IInv, NEW found, UseLatest(found), NEW k \in Lines, chats'[k] # None
    PROVE  chats[k] # None /\ chats'[k].id = chats[k].id
BY DEF UseLatest, Refreshed, IInv, TypeOK, Chat

LEMMA OwnsPurged ==
    ASSUME IInv, NEW owner, Owns(owner), NEW h \in Handlers,
           FindMessages(h) \/ DeleteMessages(h) \/ RefreshChat(h)
    PROVE  Owns(owner)'
<1> DEFINE s == handler[h]
<1>1. s \in HandlerState /\ Serves(s, owner)
  BY DEF IInv, TypeOK, Owns
<1>2. CASE FindMessages(h)
  <2> DEFINE found == {m \in Wamids : Matches(s.filter, m) /\ rows[m].linked}
             r == [s EXCEPT !.pc = "rm", !.rm = found]
  <2>1. Becomes(h, r) /\ UNCHANGED <<chats, rows>> /\ s.pc = "find"
    BY <1>2 DEF FindMessages, store, At
  <2>2. \A m \in found : Reaches(s.filter, m)
    BY MatchedIsReached
  <2> HIDE DEF found
  <2>3. /\ r.chat = s.chat /\ r.msg = s.msg /\ r.filter = s.filter
        /\ r.rm = found /\ r.pc = "rm"
    BY <1>1 DEF HandlerState
  <2>4. Serves(r, owner)
    BY <1>1, <2>1, <2>2, <2>3 DEF Serves, PurgePoints
  <2>5. QED
    BY <2>1, <2>4, OwnsLocal
<1>3. CASE DeleteMessages(h)
  <2> DEFINE r == [s EXCEPT !.pc = "refresh", !.unread = s.filter.chats]
  <2>1. Becomes(h, r) /\ UNCHANGED chats /\ s.pc = "deleteMany"
    BY <1>3 DEF DeleteMessages, At
  <2>2. Serves(r, owner)
    BY <1>1, <2>1, ServesOn DEF HandlerState, PurgePoints
  <2>3. \A m \in Wamids : rows'[m] # None => rows'[m] = rows[m]
    BY <1>3 DEF DeleteMessages
  <2>4. QED
    BY <2>1, <2>2, <2>3, OwnsFrame DEF Owns
<1>4. CASE RefreshChat(h)
  <2>1. PICK found :
            /\ UseLatest(found)
            /\ Becomes(h, [s EXCEPT !.latest = @ \ {found}])
            /\ UNCHANGED rows
    BY <1>4 DEF RefreshChat
  <2> DEFINE r == [s EXCEPT !.latest = @ \ {found}]
  <2>2. Serves(r, owner)
    BY <1>1, ServesOn DEF HandlerState
  <2>3. ASSUME NEW k \in Lines, chats'[k] # None
        PROVE  chats[k] # None /\ chats'[k].id = chats[k].id
    BY <2>1, <2>3, IdsAreKept
  <2>4. QED
    BY <2>1, <2>2, <2>3, OwnsFrame DEF Owns
<1>5. QED
  BY <1>2, <1>3, <1>4

LEMMA OwnsArrival ==
    ASSUME IInv, NEW owner, Owns(owner), NEW h \in Handlers, Arrival(h)
    PROVE  Owns(owner)'
<1>1. CASE \/ \E m \in Inbound : ReceiveInbound(h, m)
           \/ \E m \in Outbound : SendAccepted(h, m)
           \/ \E m \in WithMedia : StartDiscard(h, m)
  <2>1. PICK point \in {"lookup", "sent", "discard"}, m \in Wamids :
            Becomes(h, Entering(point, m)) /\ UNCHANGED <<chats, rows>>
    BY <1>1, MessagesAssumption
       DEF ReceiveInbound, SendAccepted, StartDiscard, store, Wamids
  <2>2. QED
    BY <2>1, ServesEntering, OwnsLocal
<1>2. ASSUME NEW number \in Numbers, NEW since \in Sinces,
             NEW ids \in SUBSET WithMedia, StartPurge(h, number, since, ids)
      PROVE  Owns(owner)'
  <2> DEFINE mine == {k \in Lines : NumberOf[k] = number /\ chats[k] # None}
             found == {chats[k].id : k \in mine}
             f == [number |-> number, chats |-> found, since |-> since,
                   ids |-> ids]
             r == [Entering("find", None) EXCEPT !.filter = f]
  <2>1. Becomes(h, r) /\ UNCHANGED <<chats, rows>>
    BY <1>2 DEF StartPurge, store
  <2>2. \A id \in found : owner[id] = number
    BY DEF Owns
  <2> HIDE DEF found
  <2>3. /\ r.chat = None /\ r.rm = {} /\ r.pc = "find" /\ r.filter = f
    BY DEF Entering
  <2>4. f.chats = found /\ f.number = number /\ f.since = since
    OBVIOUS
  <2> HIDE DEF r, f
  <2>5. Serves(r, owner)
    BY <2>2, <2>3, <2>4 DEF Serves
  <2>6. QED
    BY <2>1, <2>5, OwnsLocal
<1>3. QED
  BY <1>1, <1>2 DEF Arrival

\* A header made by an upsert has an id nothing refers to: the id may become
\* that of another number.
LEMMA OwnsFreeId ==
    ASSUME IInv, NEW owner \in [ChatIds -> Numbers \cup {None}], Owns(owner),
           NEW id \in NewIds, NEW n \in Numbers
    PROVE  Owns([owner EXCEPT ![id] = n])
<1> DEFINE other == [owner EXCEPT ![id] = n]
<1>1. \A i \in ChatIds : i # id => other[i] = owner[i]
  OBVIOUS
<1> HIDE DEF other
<1>2. /\ \A k \in Lines : chats[k] # None => chats[k].id \in ChatIds \ {id}
      /\ \A m \in Wamids : rows[m] # None => rows[m].chat \in ChatIds \ {id}
  BY DEF NewIds, InUse, IInv, TypeOK, Chat, Row
<1>3. ASSUME NEW h \in Handlers
      PROVE  Serves(handler[h], other)
  <2> DEFINE r == handler[h]
  <2>1. r \in HandlerState /\ Serves(r, owner)
    BY DEF IInv, TypeOK, Owns
  <2>2. /\ r.chat # None => r.chat \in ChatIds \ {id}
        /\ r.filter.chats \subseteq ChatIds \ {id}
    BY <2>1 DEF NewIds, InUse, HandlerState, Filter
  <2>3. QED
    BY <1>1, <2>1, <2>2 DEF Serves
<1>4. Owns(other)
  BY <1>1, <1>2, <1>3 DEF Owns
<1>5. QED
  BY <1>4 DEF other

\* Whoever upserts the header of a line, it is of the line's number.
LEMMA OwnedHeader ==
    ASSUME IInv, Owned, NEW m \in Wamids, NEW id \in HeadersFor(LineOf[m]),
           SetHeader(m, id)
    PROVE  \E owner \in [ChatIds -> Numbers \cup {None}] :
               /\ Owns(owner) /\ owner[id] = NumberOf[LineOf[m]]
               /\ \A l \in Lines : chats'[l] # None
                     => owner[chats'[l].id] = NumberOf[l]
<1> DEFINE k == LineOf[m]
           n == NumberOf[k]
<1>1. chats' = [chats EXCEPT ![k] = [id |-> id, lastMessageAt |-> TimeOf[m]]]
  BY DEF SetHeader
<1>2. k \in Lines /\ n \in Numbers /\ chats \in [Lines -> Chat \cup {None}]
  BY MessagesAssumption DEF IInv, TypeOK
<1>3. PICK old \in [ChatIds -> Numbers \cup {None}] : Owns(old)
  BY DEF Owned
<1>4. PICK owner \in [ChatIds -> Numbers \cup {None}] :
          Owns(owner) /\ owner[id] = n
  <2>1. CASE chats[k] # None
    BY <1>2, <1>3, <2>1 DEF HeadersFor, Owns
  <2>2. CASE chats[k] = None
    <3>1. id \in NewIds /\ id \in ChatIds
      BY <2>2 DEF HeadersFor, NewIds
    <3>2. Owns([old EXCEPT ![id] = n])
      BY <1>2, <1>3, <3>1, OwnsFreeId
    <3>3. [old EXCEPT ![id] = n] \in [ChatIds -> Numbers \cup {None}]
          /\ [old EXCEPT ![id] = n][id] = n
      BY <1>2, <1>3, <3>1
    <3>4. QED
      BY <3>2, <3>3
  <2>3. QED
    BY <2>1, <2>2
<1>5. ASSUME NEW l \in Lines, chats'[l] # None
      PROVE  owner[chats'[l].id] = NumberOf[l]
  <2>1. CASE l = k
    BY <1>1, <1>2, <1>4, <2>1
  <2>2. CASE l # k
    BY <1>1, <1>2, <1>4, <1>5, <2>2 DEF Owns
  <2>3. QED
    BY <2>1, <2>2
<1>6. QED
  BY <1>4, <1>5

LEMMA OwnedUpsert ==
    ASSUME IInv, Owned, NEW h \in Handlers, NEW r, UpsertChat(h, r),
           r \in HandlerState, r.pc \in {"lookup", "create"},
           r.msg = handler[h].msg, r.msg \in Wamids,
           r.filter = handler[h].filter, r.rm = handler[h].rm
    PROVE  Owned'
<1> DEFINE m == handler[h].msg
<1>1. PICK id \in HeadersFor(LineOf[m]) :
          SetHeader(m, id) /\ Becomes(h, [r EXCEPT !.chat = id])
  BY DEF UpsertChat
<1>2. m \in Wamids
  OBVIOUS
<1>3. PICK owner \in [ChatIds -> Numbers \cup {None}] :
          /\ Owns(owner) /\ owner[id] = NumberOf[LineOf[m]]
          /\ \A l \in Lines : chats'[l] # None
                => owner[chats'[l].id] = NumberOf[l]
  BY <1>1, <1>2, OwnedHeader
<1> DEFINE q == [r EXCEPT !.chat = id]
<1>4. /\ q.chat = id /\ q.msg = m /\ q.filter = handler[h].filter
      /\ q.rm = handler[h].rm /\ q.pc \notin PurgePoints
  BY DEF HandlerState, PurgePoints
<1>5. Becomes(h, q)
  BY <1>1
<1> HIDE DEF q
<1>6. Serves(handler[h], owner)
  BY <1>3 DEF Owns
<1>7. Serves(q, owner)
  BY <1>3, <1>4, <1>6 DEF Serves
<1>8. UNCHANGED rows
  BY DEF UpsertChat
<1>9. Owns(owner)'
  BY <1>3, <1>5, <1>7, <1>8, OwnsFrame DEF Owns
<1>10. QED
  BY <1>3, <1>9 DEF Owned

LEMMA OwnedUpserts ==
    ASSUME IInv, Owned, NEW h \in Handlers,
           UpsertInboundChat(h) \/ UpsertOutboundChat(h)
    PROVE  Owned'
<1> DEFINE s == handler[h]
           r == [s EXCEPT !.pc = "create"]
<1>1. HandlerOK(s, Written, chats, purged) /\ s \in HandlerState
  BY DEF IInv, TypeOK
<1>2. CASE UpsertInboundChat(h)
  <2>1. s.pc = "lookup" /\ s.msg \in Wamids /\ UpsertChat(h, s)
    BY <1>1, <1>2 DEF UpsertInboundChat, At, HandlerOK
  <2>2. QED
    BY <1>1, <2>1, OwnedUpsert
<1>3. CASE UpsertOutboundChat(h)
  <2>1. s.msg \in Wamids /\ UpsertChat(h, r)
    BY <1>1, <1>3 DEF UpsertOutboundChat, At, HandlerOK
  <2>2. /\ r \in HandlerState /\ r.pc = "create" /\ r.msg = s.msg
        /\ r.filter = s.filter /\ r.rm = s.rm
    BY <1>1 DEF HandlerState, Points
  <2> HIDE DEF r
  <2>3. QED
    BY <2>1, <2>2, OwnedUpsert
<1>4. QED
  BY <1>2, <1>3

LEMMA OwnedInit == Init => Owned
<1> SUFFICES ASSUME Init
             PROVE  Owned
  OBVIOUS
<1> DEFINE nobody == [id \in ChatIds |-> None]
<1>1. Owns(nobody)
  BY ServesIdle DEF Init, Owns
<1>2. nobody \in [ChatIds -> Numbers \cup {None}]
  OBVIOUS
<1>3. QED
  BY <1>1, <1>2 DEF Owned

\* The branches left running know no header of another number either.
LEMMA OwnedLoose ==
    ASSUME IInv, Owned, GoesOnLoose
    PROVE  Owned'
<1>1. UNCHANGED <<rows, handler>> /\ loose \in Loose
  BY LooseOnlyRemoves DEF IInv, TypeOK
<1>2. CASE LooseUpsert
  <2>1. PICK m \in loose.upsert : \E id \in HeadersFor(LineOf[m]) :
            SetHeader(m, id)
    BY <1>2 DEF LooseUpsert
  <2>2. m \in Wamids
    BY <1>1 DEF Loose
  <2>3. PICK owner \in [ChatIds -> Numbers \cup {None}] :
            /\ Owns(owner)
            /\ \A l \in Lines : chats'[l] # None
                  => owner[chats'[l].id] = NumberOf[l]
    BY <2>1, <2>2, OwnedHeader
  <2>4. QED
    BY <1>1, <2>3 DEF Owned, Owns
<1>3. CASE LooseRefresh
  <2>1. PICK found : UseLatest(found)
    BY <1>3 DEF LooseRefresh
  <2>2. \A k \in Lines : chats'[k] # None
            => chats[k] # None /\ chats'[k].id = chats[k].id
    BY <2>1, IdsAreKept
  <2>3. QED
    BY <1>1, <2>2 DEF Owned, Owns
<1>4. CASE UNCHANGED chats
  BY <1>1, <1>4 DEF Owned, Owns
<1>5. QED
  BY <1>2, <1>3, <1>4 DEF GoesOnLoose, LooseRemove, LooseRead, store

LEMMA OwnedNext == IInv /\ Owned /\ [Next]_vars => Owned'
<1> SUFFICES ASSUME IInv, Owned, [Next]_vars
             PROVE  Owned'
  OBVIOUS
<1>1. PICK owner \in [ChatIds -> Numbers \cup {None}] : Owns(owner)
  BY DEF Owned
<1>2. CASE UNCHANGED vars
  BY <1>1, <1>2 DEF vars, store, Owns, Owned
<1>3. CASE Restart
  <2>1. /\ handler' = [h \in Handlers |-> Idle] /\ UNCHANGED <<chats, rows>>
    BY <1>3 DEF Restart, store
  <2>2. QED
    BY <1>1, <2>1, ServesIdle DEF Owns, Owned
<1>4. ASSUME NEW h \in Handlers, Arrival(h) \/ Progress(h) \/ CutOff(h)
      PROVE  Owned'
  <2>1. CASE UpsertInboundChat(h) \/ UpsertOutboundChat(h)
    BY <2>1, OwnedUpserts
  <2>2. CASE ~(UpsertInboundChat(h) \/ UpsertOutboundChat(h))
    <3>1. Owns(owner)'
      BY <1>1, <1>4, <2>2, OwnsArrival, OwnsGoesOn, OwnsStored, OwnsPurged
         DEF Progress
    <3>2. QED
      BY <1>1, <3>1 DEF Owned
  <2>3. QED
    BY <2>1, <2>2
<1>5. QED
  BY <1>2, <1>3, <1>4, OwnedLoose DEF Next

LEMMA OwnedAlways == Spec => []Owned
BY OwnedInit, OwnedNext, Invariance, PTL DEF Spec

-----------------------------------------------------------------------------

KeepPoints == {"lookup", "download", "sent", "upsert", "create"}

\* Reading the mapping.
LEMMA TaskIs ==
    ASSUME NEW r, r.pc \in Points
    PROVE  /\ r.pc = "idle" => TaskOf(r) = Archive!Nothing
           /\ r.pc \in KeepPoints
                => TaskOf(r) = Archive!KeepTask(r.msg, r.linked)
           /\ r.pc \in {"discard", "unlink"}
                => TaskOf(r) = Archive!DropTask(r.msg)
           /\ r.pc \in PurgePoints
                => TaskOf(r) = Archive!PurgeTask(r.filter.number,
                                   r.filter.since, r.filter.ids)
BY DEF TaskOf, Points, KeepPoints, PurgePoints, Archive!Nothing,
       Archive!KeepTask, Archive!DropTask, Archive!PurgeTask

LEMMA TaskTurns ==
    ASSUME IInv, NEW h \in Handlers, NEW r, Becomes(h, r)
    PROVE  Tasks' = [Tasks EXCEPT ![h] = TaskOf(r)]
<1>1. handler' = [handler EXCEPT ![h] = r] /\ h \in DOMAIN handler
      /\ DOMAIN handler = Handlers
  BY DEF Becomes, IInv, TypeOK
<1>2. \A g \in Handlers : handler'[g] = IF g = h THEN r ELSE handler[g]
  BY <1>1, IInv DEF IInv, TypeOK
<1>3. QED
  BY <1>2 DEF Tasks

\* A step of h that the archive does not see: it goes on with its task.
LEMMA TaskStays ==
    ASSUME IInv, NEW h \in Handlers, NEW r, Becomes(h, r),
           TaskOf(r) = TaskOf(handler[h])
    PROVE  Tasks' = Tasks
BY TaskTurns DEF Tasks

LEMMA RowsStay == UNCHANGED rows => Stored' = Stored /\ Linked' = Linked
BY DEF Stored, Linked

LEMMA ArchiveInit == Init => Archive!Init
<1> SUFFICES ASSUME Init
             PROVE  Archive!Init
  OBVIOUS
<1>1. Stored = {} /\ Linked = {}
  BY DEF Init, Stored, Linked
<1>2. Idle.pc = "idle"
  BY DEF Idle, Entering
<1>3. Tasks = [h \in Handlers |-> Archive!Nothing]
  BY <1>2, TaskIs DEF Init, Tasks, Points
<1>4. QED
  BY <1>1, <1>3 DEF Init, NothingLoose, Archive!Init

\* A step that keeps messages and files, by a handler that goes on with what
\* it was asked to do, or is done, or fails.
LEMMA UnseenStep ==
    ASSUME IInv, NEW h \in Handlers, NEW r, Becomes(h, r),
           UNCHANGED <<rows, files, loose>>,
           r = Idle \/ TaskOf(r) = TaskOf(handler[h])
    PROVE  [Archive!Next]_Archive!vars
<1>1. Stored' = Stored /\ Linked' = Linked
  BY RowsStay
<1>2. CASE TaskOf(r) = TaskOf(handler[h])
  <2>1. Tasks' = Tasks
    BY <1>2, TaskStays
  <2>2. QED
    BY <1>1, <2>1 DEF Archive!vars
<1>3. CASE r = Idle /\ TaskOf(handler[h]) # Archive!Nothing
  <2>1. handler[h].pc \in Points
    BY DEF IInv, TypeOK, HandlerState
  <2>2. Tasks[h].does # "nothing"
    BY <1>3, <2>1, TaskIs
       DEF Tasks, Points, KeepPoints, PurgePoints, Archive!KeepTask,
           Archive!DropTask, Archive!PurgeTask
  <2>3. Idle.pc = "idle" /\ Idle.pc \in Points
    BY DEF Idle, Entering, Points
  <2>4. Tasks' = [Tasks EXCEPT ![h] = Archive!Nothing]
    BY <1>3, <2>3, TaskIs, TaskTurns
  <2>5. Archive!End(h)
    <3>1. loose.rm' = loose.rm \cup {}
      OBVIOUS
    <3>2. QED
      BY <1>1, <2>2, <2>4, <3>1 DEF Archive!End, Archive!Asked, Archive!Turns
  <2>6. QED
    BY <2>5 DEF Archive!Next
<1>4. CASE r = Idle /\ TaskOf(handler[h]) = Archive!Nothing
  <2>1. Idle.pc = "idle" /\ Idle.pc \in Points
    BY DEF Idle, Entering, Points
  <2>2. TaskOf(r) = TaskOf(handler[h])
    BY <1>4, <2>1, TaskIs
  <2>3. QED
    BY <1>2, <2>2
<1>5. QED
  BY <1>2, <1>3, <1>4

\* A handler that goes on with its message, or its purge.
LEMMA SameTask ==
    ASSUME IInv, NEW h \in Handlers, NEW r, Becomes(h, r),
           UNCHANGED <<rows, files, loose>>, r.pc \in Points,
           LET s == handler[h] IN
           \/ /\ s.pc \in KeepPoints /\ r.pc \in KeepPoints
              /\ r.msg = s.msg /\ r.linked = s.linked
           \/ /\ s.pc \in PurgePoints /\ r.pc \in PurgePoints
              /\ r.filter = s.filter
    PROVE  [Archive!Next]_Archive!vars
<1>1. handler[h].pc \in Points
  BY DEF IInv, TypeOK, HandlerState
<1>2. TaskOf(r) = TaskOf(handler[h])
  BY <1>1, TaskIs
<1>3. QED
  BY <1>2, UnseenStep

LEMMA ArchiveBegins ==
    ASSUME IInv, NEW h \in Handlers, Arrival(h)
    PROVE  [Archive!Next]_Archive!vars
<1>1. At(h, "idle") /\ UNCHANGED <<rows, files, loose>>
  BY DEF Arrival, ReceiveInbound, SendAccepted, StartDiscard, StartPurge, store
<1>2. Archive!Asked(h, "nothing")
  BY <1>1, TaskIs DEF At, Tasks, Points, Archive!Asked, Archive!Nothing
<1>3. UNCHANGED <<Stored, Linked, files>> /\ loose'.rm = loose.rm
  BY <1>1, RowsStay
<1>4. \/ \E m \in Wamids : Archive!Turns(h, Archive!KeepTask(m, FALSE))
      \/ \E m \in Linked : Archive!Turns(h, Archive!DropTask(m))
      \/ \E number \in Numbers, since \in Sinces, ids \in SUBSET Wamids :
            Archive!Turns(h, Archive!PurgeTask(number, since, ids))
  <2>1. ASSUME NEW point \in {"lookup", "sent"}, NEW m \in Wamids,
               Becomes(h, Entering(point, m))
        PROVE  Archive!Turns(h, Archive!KeepTask(m, FALSE))
    <3> DEFINE r == Entering(point, m)
    <3>1. r.pc \in KeepPoints /\ r.pc \in Points /\ r.msg = m
          /\ r.linked = FALSE
      BY DEF Entering, KeepPoints, Points
    <3>2. TaskOf(r) = Archive!KeepTask(m, FALSE)
      BY <3>1, TaskIs
    <3>3. QED
      BY <2>1, <3>2, TaskTurns DEF Archive!Turns
  <2>2. ASSUME NEW m \in WithMedia, StartDiscard(h, m)
        PROVE  m \in Linked /\ Archive!Turns(h, Archive!DropTask(m))
    <3> DEFINE r == Entering("discard", m)
    <3>1. r.pc = "discard" /\ r.pc \in Points /\ r.msg = m
      BY DEF Entering, Points
    <3>2. TaskOf(r) = Archive!DropTask(m)
      BY <3>1, TaskIs
    <3>3. Becomes(h, r) /\ m \in Linked
      BY <2>2, MessagesAssumption DEF StartDiscard, Linked, Stored, Wamids
    <3>4. QED
      BY <3>2, <3>3, TaskTurns DEF Archive!Turns
  <2>3. ASSUME NEW number \in Numbers, NEW since \in Sinces,
               NEW ids \in SUBSET WithMedia, StartPurge(h, number, since, ids)
        PROVE  Archive!Turns(h, Archive!PurgeTask(number, since, ids))
    <3>1. PICK f : /\ f.number = number /\ f.since = since /\ f.ids = ids
                   /\ Becomes(h, [Entering("find", None) EXCEPT !.filter = f])
      BY <2>3 DEF StartPurge
    <3> DEFINE r == [Entering("find", None) EXCEPT !.filter = f]
    <3>2. r.pc \in PurgePoints /\ r.pc \in Points /\ r.filter = f
      BY DEF Entering, PurgePoints, Points
    <3>3. TaskOf(r) = Archive!PurgeTask(number, since, ids)
      BY <3>1, <3>2, TaskIs
    <3>4. QED
      BY <3>1, <3>3, TaskTurns DEF Archive!Turns
  <2>4. WithMedia \subseteq Wamids
    BY MessagesAssumption DEF Wamids
  <2>5. QED
    BY <2>1, <2>2, <2>3, <2>4
       DEF Arrival, ReceiveInbound, SendAccepted, Wamids
<1>5. Archive!Begin(h)
  BY <1>2, <1>3, <1>4 DEF Archive!Begin
<1>6. QED
  BY <1>5 DEF Archive!Next

LEMMA ArchiveUnseen ==
    ASSUME IInv, NEW h \in Handlers,
           \/ ReadDuplicate(h) \/ UpsertInboundChat(h) \/ AfterLookup(h)
           \/ AfterSentLookup(h) \/ UpsertOutboundChat(h) \/ FindMessages(h)
           \/ FilesRemoved(h) \/ ReadLatest(h) \/ RefreshChat(h)
           \/ PurgeDone(h)
    PROVE  [Archive!Next]_Archive!vars
<1> DEFINE s == handler[h]
<1>1. s \in HandlerState
  BY DEF IInv, TypeOK
<1>2. UNCHANGED <<rows, files, loose>>
  BY DEF ReadDuplicate, UpsertInboundChat, AfterLookup, AfterSentLookup,
     UpsertOutboundChat, UpsertChat, FindMessages, FilesRemoved, ReadLatest,
     RefreshChat, PurgeDone, store
<1>3. CASE ReadDuplicate(h)
  <2> DEFINE found == IF rows[s.msg] # None THEN "yes" ELSE "no"
             r == [s EXCEPT !.dup = found]
  <2>1. Becomes(h, r) /\ s.pc \in KeepPoints
    BY <1>3 DEF ReadDuplicate, At, KeepPoints
  <2>2. /\ r.pc = s.pc /\ r.msg = s.msg /\ r.linked = s.linked
        /\ r.pc \in Points
    BY <1>1 DEF HandlerState
  <2> HIDE DEF r
  <2>3. QED
    BY <1>2, <2>1, <2>2, SameTask
<1>4. CASE UpsertInboundChat(h)
  <2>1. PICK id : Becomes(h, [s EXCEPT !.chat = id])
    BY <1>4 DEF UpsertInboundChat, UpsertChat
  <2> DEFINE r == [s EXCEPT !.chat = id]
  <2>2. /\ r.pc = s.pc /\ r.msg = s.msg /\ r.linked = s.linked
        /\ r.pc \in Points /\ s.pc \in KeepPoints
    BY <1>1, <1>4 DEF HandlerState, UpsertInboundChat, At, KeepPoints
  <2>3. Becomes(h, r)
    BY <2>1
  <2> HIDE DEF r
  <2>4. QED
    BY <1>2, <2>2, <2>3, SameTask
<1>5. CASE AfterLookup(h) \/ AfterSentLookup(h)
  <2>1. /\ s.pc \in KeepPoints
        /\ \/ Becomes(h, Idle)
           \/ \E point \in KeepPoints : Becomes(h, [s EXCEPT !.pc = point])
    BY <1>5 DEF AfterLookup, AfterSentLookup, At, Goes, KeepPoints
  <2>2. ASSUME NEW point \in KeepPoints, Becomes(h, [s EXCEPT !.pc = point])
        PROVE  [Archive!Next]_Archive!vars
    <3> DEFINE r == [s EXCEPT !.pc = point]
    <3>1. /\ r.pc \in KeepPoints /\ r.msg = s.msg /\ r.linked = s.linked
          /\ r.pc \in Points
      BY <1>1 DEF HandlerState, KeepPoints, Points
    <3>2. Becomes(h, r)
      BY <2>2
    <3> HIDE DEF r
    <3>3. QED
      BY <1>2, <2>1, <3>1, <3>2, SameTask
  <2>3. QED
    BY <1>2, <2>1, <2>2, UnseenStep
<1>6. CASE UpsertOutboundChat(h)
  <2>1. PICK id : Becomes(h, [[s EXCEPT !.pc = "create"] EXCEPT !.chat = id])
    BY <1>6 DEF UpsertOutboundChat, UpsertChat
  <2> DEFINE r == [[s EXCEPT !.pc = "create"] EXCEPT !.chat = id]
  <2>2. /\ s.pc \in KeepPoints /\ r.pc \in KeepPoints /\ r.pc \in Points
        /\ r.msg = s.msg /\ r.linked = s.linked
    BY <1>1, <1>6
       DEF HandlerState, UpsertOutboundChat, At, KeepPoints, Points
  <2>3. Becomes(h, r)
    BY <2>1
  <2> HIDE DEF r
  <2>4. QED
    BY <1>2, <2>2, <2>3, SameTask
<1>7. CASE FindMessages(h)
  <2> DEFINE found == {m \in Wamids : Matches(s.filter, m) /\ rows[m].linked}
             r == [s EXCEPT !.pc = "rm", !.rm = found]
  <2>1. Becomes(h, r) /\ s.pc \in PurgePoints
    BY <1>7 DEF FindMessages, At, PurgePoints
  <2>2. r.pc \in PurgePoints /\ r.pc \in Points /\ r.filter = s.filter
    BY <1>1 DEF HandlerState, PurgePoints, Points
  <2> HIDE DEF r
  <2>3. QED
    BY <1>2, <2>1, <2>2, SameTask
<1>8. CASE FilesRemoved(h)
  <2> DEFINE r == [s EXCEPT !.pc = "deleteMany"]
  <2>1. Becomes(h, r) /\ s.pc \in PurgePoints
    BY <1>8 DEF FilesRemoved, Goes, At, PurgePoints
  <2>2. r.pc \in PurgePoints /\ r.pc \in Points /\ r.filter = s.filter
    BY <1>1 DEF HandlerState, PurgePoints, Points
  <2> HIDE DEF r
  <2>3. QED
    BY <1>2, <2>1, <2>2, SameTask
<1>9. CASE ReadLatest(h) \/ RefreshChat(h)
  <2>1. /\ s.pc \in PurgePoints
        /\ \E left, found :
              \/ Becomes(h, [s EXCEPT !.unread = left, !.latest = found])
              \/ Becomes(h, [s EXCEPT !.latest = found])
    BY <1>9 DEF ReadLatest, RefreshChat, At, PurgePoints
  <2>2. PICK r : /\ Becomes(h, r) /\ r.pc = s.pc /\ r.filter = s.filter
    <3>1. PICK left, found :
              \/ Becomes(h, [s EXCEPT !.unread = left, !.latest = found])
              \/ Becomes(h, [s EXCEPT !.latest = found])
      BY <2>1
    <3> DEFINE both == [s EXCEPT !.unread = left, !.latest = found]
               one == [s EXCEPT !.latest = found]
    <3>2. /\ both.pc = s.pc /\ both.filter = s.filter
          /\ one.pc = s.pc /\ one.filter = s.filter
      BY <1>1 DEF HandlerState
    <3>3. Becomes(h, both) \/ Becomes(h, one)
      BY <3>1
    <3> HIDE DEF both, one
    <3>4. QED
      BY <3>2, <3>3
  <2>3. r.pc \in Points
    BY <1>1, <2>2 DEF HandlerState
  <2>4. QED
    BY <1>2, <2>1, <2>2, <2>3, SameTask
<1>10. CASE PurgeDone(h)
  BY <1>2, <1>10, UnseenStep DEF PurgeDone
<1>11. QED
  BY <1>3, <1>4, <1>5, <1>6, <1>7, <1>8, <1>9, <1>10

\* A request that fails: what it leaves running may delete files, if it is a
\* purge, of those that it was asked to delete.
LEMMA ArchiveCutOff ==
    ASSUME IInv, Owned, NEW h \in Handlers, CutOff(h)
    PROVE  [Archive!Next]_Archive!vars
<1> DEFINE s == handler[h]
           f == s.filter
<1>1. /\ s \in HandlerState /\ HandlerOK(s, Written, chats, purged)
      /\ s.pc \in Points /\ s.pc # "idle"
  BY DEF IInv, TypeOK, HandlerState, CutOff, At
<1>2. PICK left \in LeftBy(s) : Loosen(left)
  BY DEF CutOff
<1>3. left.rm \subseteq s.rm /\ loose'.rm = loose.rm \cup left.rm
  BY <1>2 DEF LeftBy, PartsOf, Branches, Loosen
<1>4. UNCHANGED <<Stored, Linked, files>> /\ Becomes(h, Idle)
  BY RowsStay DEF CutOff, store
<1>5. Idle.pc = "idle" /\ Idle.pc \in Points
  BY DEF Idle, Entering, Points
<1>6. Archive!Turns(h, Archive!Nothing)
  BY <1>4, <1>5, TaskIs, TaskTurns DEF Archive!Turns
<1>7. ~Archive!Asked(h, "nothing")
  BY <1>1, TaskIs
     DEF Tasks, Points, KeepPoints, PurgePoints, Archive!Asked,
         Archive!KeepTask, Archive!DropTask, Archive!PurgeTask
<1>8. ASSUME NEW m \in left.rm
      PROVE  m \in Wamids /\ Archive!Asked(h, "purge")
             /\ Archive!Covers(Tasks[h], m)
  <2>1. m \in s.rm
    BY <1>3
  <2>2. m \in Wamids /\ s.pc \in PurgePoints
    BY <1>1, <2>1 DEF HandlerOK, HandlerState, PurgePoints
  <2>3. Tasks[h] = Archive!PurgeTask(f.number, f.since, f.ids)
    BY <1>1, <2>2, TaskIs DEF Tasks
  <2>4. Reaches(f, m)
    BY <2>1 DEF Owned, Owns, Serves
  <2>5. QED
    BY <2>2, <2>3, <2>4
       DEF Reaches, Archive!Covers, Archive!Asked, Archive!PurgeTask
<1>9. left.rm \in SUBSET {m \in Wamids : Archive!Asked(h, "purge")
                                         /\ Archive!Covers(Tasks[h], m)}
  BY <1>8
<1>10. Archive!End(h)
  BY <1>3, <1>4, <1>6, <1>7, <1>9 DEF Archive!End
<1>11. QED
  BY <1>10 DEF Archive!Next

\* Of the branches left running the archive sees those that delete a file.
LEMMA ArchiveLoose ==
    ASSUME IInv, GoesOnLoose
    PROVE  [Archive!Next]_Archive!vars
<1>1. UNCHANGED <<Stored, Linked, Tasks>> /\ loose \in Loose
  BY LooseOnlyRemoves, RowsStay DEF Tasks, IInv, TypeOK
<1>2. CASE LooseRemove
  <2>1. PICK m \in loose.rm :
            files' = files \ {m} /\ loose' = [loose EXCEPT !.rm = @ \ {m}]
    BY <1>2 DEF LooseRemove, DeleteStoredMedia
  <2>2. loose'.rm = loose.rm \ {m}
    BY <1>1, <2>1 DEF Loose
  <2>3. Archive!DeleteDoomed
    BY <1>1, <2>1, <2>2 DEF Archive!DeleteDoomed
  <2>4. QED
    BY <2>3 DEF Archive!Next
<1>3. CASE LooseUpsert \/ LooseRead \/ LooseRefresh
  <2>1. UNCHANGED files /\ loose'.rm = loose.rm
    BY <1>1, <1>3 DEF LooseUpsert, LooseRead, LooseRefresh, store, Loose
  <2>2. QED
    BY <1>1, <2>1 DEF Archive!vars
<1>4. QED
  BY <1>2, <1>3 DEF GoesOnLoose

\* The folder of the message is written; a download that fails is a stutter.
LEMMA ArchiveWrites ==
    ASSUME IInv, NEW h \in Handlers, DownloadMedia(h)
    PROVE  [Archive!Next]_Archive!vars
<1> DEFINE s == handler[h]
           ok == [s EXCEPT !.pc = "create", !.linked = TRUE]
           bad == [s EXCEPT !.pc = "create"]
<1>1. s \in HandlerState /\ s.pc = "download" /\ s.pc \in Points
      /\ s.pc \in KeepPoints
  BY DEF IInv, TypeOK, HandlerState, DownloadMedia, At, KeepPoints, Points
<1>2. /\ ok.pc \in KeepPoints /\ ok.pc \in Points /\ ok.msg = s.msg
      /\ ok.linked = TRUE
      /\ bad.pc \in KeepPoints /\ bad.pc \in Points /\ bad.msg = s.msg
      /\ bad.linked = s.linked
  BY <1>1 DEF HandlerState, KeepPoints, Points
<1>3. /\ Tasks[h] = Archive!KeepTask(s.msg, s.linked)
      /\ TaskOf(ok) = Archive!KeepTask(s.msg, TRUE)
      /\ TaskOf(bad) = TaskOf(s)
  <2> HIDE DEF ok, bad
  <2>1. QED
    BY <1>1, <1>2, TaskIs DEF Tasks
<1>4. /\ Archive!Asked(h, "keep") /\ Tasks[h].msg = s.msg
  BY <1>3 DEF Archive!Asked, Archive!KeepTask
<1>5. UNCHANGED <<rows, loose>> /\ Stored' = Stored /\ Linked' = Linked
  BY RowsStay DEF DownloadMedia
<1>6. /\ Becomes(h, ok) => Archive!Turns(h, Archive!KeepTask(s.msg, TRUE))
      /\ Becomes(h, bad) => Tasks' = Tasks
  <2> HIDE DEF ok, bad
  <2>1. QED
    BY <1>3, TaskTurns, TaskStays DEF Archive!Turns
<1>7. CASE files' = files \cup {s.msg} /\ (Becomes(h, ok) \/ Becomes(h, bad))
  <2> HIDE DEF ok, bad
  <2>1. Archive!WriteFile(h)
    BY <1>4, <1>5, <1>6, <1>7 DEF Archive!WriteFile
  <2>2. QED
    BY <2>1 DEF Archive!Next
<1>8. CASE UNCHANGED files /\ Becomes(h, bad)
  <2> HIDE DEF ok, bad
  <2>1. QED
    BY <1>5, <1>6, <1>8 DEF Archive!vars
<1>9. QED
  BY <1>7, <1>8 DEF DownloadMedia, SaveInboundMedia, FailedDownload, Goes

\* The row is made, or the unique index refuses it.
LEMMA ArchiveKeeps ==
    ASSUME IInv, NEW h \in Handlers, CreateMessage(h)
    PROVE  [Archive!Next]_Archive!vars
<1> DEFINE s == handler[h]
           m == s.msg
           row == [chat |-> s.chat, linked |-> s.linked]
<1>1. /\ HandlerOK(s, Written, chats, purged)
      /\ s.pc = "create" /\ s.pc \in Points /\ s.pc \in KeepPoints
  BY DEF IInv, CreateMessage, At, KeepPoints, Points
<1>2. m \in Wamids /\ row \in Row /\ row # None
  BY <1>1, NoneAssumption DEF HandlerOK, HandlerState, Row
<1>3. /\ Becomes(h, Idle) /\ UNCHANGED <<files, loose>>
      /\ rows' = IF rows[m] = None THEN [rows EXCEPT ![m] = row] ELSE rows
  BY DEF CreateMessage, CreateRow
<1>4. CASE rows[m] # None
  BY <1>3, <1>4, UnseenStep
<1>5. CASE rows[m] = None
  <2>1. /\ Tasks[h] = Archive!KeepTask(m, s.linked)
        /\ Idle.pc = "idle" /\ Idle.pc \in Points
    BY <1>1, TaskIs DEF Tasks, Idle, Entering, Points
  <2>2. Archive!Asked(h, "keep") /\ Tasks[h].msg = m
        /\ Tasks[h].written = s.linked
    BY <2>1 DEF Archive!Asked, Archive!KeepTask
  <2>3. Archive!Turns(h, Archive!Nothing)
    BY <1>3, <2>1, TaskIs, TaskTurns DEF Archive!Turns
  <2>4. \A n \in Wamids : rows'[n] = IF n = m THEN row ELSE rows[n]
    BY <1>2, <1>3, <1>5 DEF IInv, TypeOK
  <2>5. m \notin Stored /\ Stored' = Stored \cup {m}
    BY <1>2, <1>5, <2>4 DEF Stored
  <2>6. Linked' = IF s.linked THEN Linked \cup {m} ELSE Linked
    <3>1. row.linked = s.linked
      OBVIOUS
    <3> HIDE DEF row
    <3>2. QED
      BY <1>2, <1>5, <2>4, <3>1 DEF Linked, Stored
  <2>7. Archive!KeepMessage(h)
    BY <1>3, <2>2, <2>3, <2>5, <2>6 DEF Archive!KeepMessage
  <2>8. QED
    BY <2>7 DEF Archive!Next
<1>6. QED
  BY <1>4, <1>5

\* The folder goes, then the path.
LEMMA ArchiveDrops ==
    ASSUME IInv, NEW h \in Handlers, DiscardFile(h) \/ UnlinkFile(h)
    PROVE  [Archive!Next]_Archive!vars
<1> DEFINE s == handler[h]
           m == s.msg
<1>1. /\ HandlerOK(s, Written, chats, purged) /\ s.pc \in Points
      /\ s.pc \in {"discard", "unlink"}
  BY DEF IInv, TypeOK, HandlerState, DiscardFile, UnlinkFile, At
<1>2. m \in Wamids
  BY <1>1, MessagesAssumption DEF HandlerOK, Wamids
<1>3. TaskOf(s) = Archive!DropTask(m)
  BY <1>1, TaskIs
<1>4. Archive!Asked(h, "drop") /\ Tasks[h].msg = m
  BY <1>3 DEF Tasks, Archive!Asked, Archive!DropTask
<1>5. CASE DiscardFile(h)
  <2> DEFINE r == [s EXCEPT !.pc = "unlink"]
  <2>1. r.pc = "unlink" /\ r.pc \in Points /\ r.msg = m
    BY <1>1 DEF HandlerOK, HandlerState, Points
  <2>2. Becomes(h, r) /\ files' = files \ {m} /\ UNCHANGED <<rows, loose>>
    BY <1>5 DEF DiscardFile, DeleteStoredMedia, Goes
  <2> HIDE DEF r
  <2>3. TaskOf(r) = TaskOf(s)
    BY <1>3, <2>1, TaskIs
  <2>4. Tasks' = Tasks
    BY <2>2, <2>3, TaskStays
  <2>5. Archive!DropFile(h)
    BY <1>4, <2>2, <2>4, RowsStay DEF Archive!DropFile
  <2>6. QED
    BY <2>5 DEF Archive!Next
<1>6. CASE UnlinkFile(h)
  <2>1. /\ Becomes(h, Idle) /\ UNCHANGED <<files, loose>>
        /\ rows' = IF rows[m] = None THEN rows
                   ELSE [rows EXCEPT ![m].linked = FALSE]
    BY <1>6 DEF UnlinkFile
  <2>2. rows \in [Wamids -> Row \cup {None}]
    BY DEF IInv, TypeOK
  <2>3. \A n \in Wamids :
            /\ rows'[n] # None <=> rows[n] # None
            /\ rows[n] # None
                  => rows'[n].linked = (n # m /\ rows[n].linked)
    <3>1. rows[m] # None => rows[m] \in Row /\ rows[m].linked \in BOOLEAN
      BY <1>2, <2>2 DEF Row
    <3>2. ASSUME rows[m] # None
          PROVE  [rows[m] EXCEPT !.linked = FALSE] \in Row
                 /\ [rows[m] EXCEPT !.linked = FALSE].linked = FALSE
      BY <3>1, <3>2 DEF Row
    <3> DEFINE row == [rows[m] EXCEPT !.linked = FALSE]
    <3>3. rows' = IF rows[m] = None THEN rows ELSE [rows EXCEPT ![m] = row]
      BY <2>1
    <3>4. rows[m] # None => row # None /\ row.linked = FALSE
      BY <3>2, NoneAssumption
    <3> HIDE DEF row
    <3>5. CASE rows[m] = None
      BY <1>2, <2>2, <3>3, <3>5 DEF Row
    <3>6. CASE rows[m] # None
      BY <1>2, <2>2, <3>3, <3>4, <3>6 DEF Row
    <3>7. QED
      BY <3>5, <3>6
  <2>4. Stored' = Stored /\ Linked' = Linked \ {m}
    BY <2>3 DEF Stored, Linked
  <2>5. Idle.pc = "idle" /\ Idle.pc \in Points
    BY DEF Idle, Entering, Points
  <2>6. Archive!Turns(h, Archive!Nothing)
    BY <2>1, <2>5, TaskIs, TaskTurns DEF Archive!Turns
  <2>7. Archive!UnlinkMessage(h)
    BY <1>4, <2>1, <2>4, <2>6 DEF Archive!UnlinkMessage
  <2>8. QED
    BY <2>7 DEF Archive!Next
<1>7. QED
  BY <1>5, <1>6

\* A purge deletes only what it reaches: the messages its filter finds are of
\* its number, because all of them hang from its number's headers.
LEMMA ArchivePurges ==
    ASSUME IInv, Owned, NEW h \in Handlers, RemoveFile(h) \/ DeleteMessages(h)
    PROVE  [Archive!Next]_Archive!vars
<1> DEFINE s == handler[h]
           f == s.filter
<1>1. /\ s \in HandlerState /\ s.pc \in Points /\ s.pc \in PurgePoints
      /\ f \in Filter
  BY DEF IInv, TypeOK, HandlerState, RemoveFile, DeleteMessages, At,
     PurgePoints
<1>2. PICK owner : Owns(owner)
  BY DEF Owned
<1>3. Tasks[h] = Archive!PurgeTask(f.number, f.since, f.ids)
  BY <1>1, TaskIs DEF Tasks
<1>4. Archive!Asked(h, "purge")
  BY <1>3 DEF Archive!Asked, Archive!PurgeTask
<1>5. ASSUME NEW m \in Wamids, Reaches(f, m)
      PROVE  Archive!Covers(Tasks[h], m)
  BY <1>3, <1>5 DEF Reaches, Archive!Covers, Archive!PurgeTask
<1>6. CASE RemoveFile(h)
  <2>1. PICK m \in s.rm :
            /\ files' = files \ {m}
            /\ Becomes(h, [s EXCEPT !.rm = @ \ {m}])
    BY <1>6 DEF RemoveFile, DeleteStoredMedia
  <2> DEFINE r == [s EXCEPT !.rm = @ \ {m}]
  <2>2. r.pc = s.pc /\ r.filter = f
    BY <1>1 DEF HandlerState
  <2>3. Becomes(h, r) /\ UNCHANGED <<rows, loose>>
    BY <1>6, <2>1 DEF RemoveFile
  <2> HIDE DEF r
  <2>4. TaskOf(r) = TaskOf(s)
    BY <1>1, <2>2, TaskIs
  <2>5. UNCHANGED <<Stored, Linked, Tasks, loose>>
    BY <2>3, <2>4, TaskStays, RowsStay
  <2>6. m \in Wamids /\ Reaches(f, m)
    BY <1>1, <1>2 DEF HandlerState, Owns, Serves
  <2>7. CASE m \in files
    <3>1. Archive!PurgeFile(h)
      BY <1>4, <1>5, <2>1, <2>5, <2>6, <2>7 DEF Archive!PurgeFile
    <3>2. QED
      BY <3>1 DEF Archive!Next
  <2>8. CASE m \notin files
    <3>1. files' = files
      BY <2>1, <2>8
    <3>2. QED
      BY <2>5, <3>1 DEF Archive!vars
  <2>9. QED
    BY <2>7, <2>8
<1>7. CASE DeleteMessages(h)
  <2> DEFINE gone == {m \in Wamids : Matches(f, m)}
             r == [s EXCEPT !.pc = "refresh", !.unread = f.chats]
  <2>1. /\ Becomes(h, r) /\ UNCHANGED <<files, loose>>
        /\ rows' = [m \in Wamids |-> IF Matches(f, m) THEN None ELSE rows[m]]
    BY <1>7 DEF DeleteMessages
  <2>2. r.pc \in PurgePoints /\ r.pc \in Points /\ r.filter = f
    BY <1>1 DEF HandlerState, PurgePoints, Points
  <2> HIDE DEF r
  <2>3. TaskOf(r) = TaskOf(s)
    BY <1>1, <2>2, TaskIs
  <2>4. Tasks' = Tasks
    BY <2>1, <2>3, TaskStays
  <2>5. \A m \in gone : m \in Stored /\ Reaches(f, m)
    BY <1>2, MatchedIsReached DEF Matches, Stored
  <2>6. Stored' = Stored \ gone /\ Linked' = Linked \ gone
    BY <2>1 DEF Stored, Linked
  <2>7. gone \in SUBSET {m \in Stored : Archive!Covers(Tasks[h], m)}
    BY <1>5, <2>5 DEF Stored
  <2> HIDE DEF gone
  <2>8. Archive!PurgeMessages(h)
    BY <1>4, <2>1, <2>4, <2>6, <2>7 DEF Archive!PurgeMessages
  <2>9. QED
    BY <2>8 DEF Archive!Next
<1>8. QED
  BY <1>6, <1>7

LEMMA ArchiveRestarts ==
    ASSUME IInv, Restart
    PROVE  [Archive!Next]_Archive!vars
<1>1. Idle.pc = "idle" /\ Idle.pc \in Points
  BY DEF Idle, Entering, Points
<1>2. Tasks' = [h \in Handlers |-> Archive!Nothing]
  BY <1>1, TaskIs DEF Restart, Tasks
<1>3. UNCHANGED <<Stored, Linked, files>>
  BY RowsStay DEF Restart, store
<1>4. Archive!Restart
  BY <1>2, <1>3 DEF Restart, NothingLoose, Archive!Restart
<1>5. QED
  BY <1>4 DEF Archive!Next

LEMMA ArchiveStep ==
    IInv /\ Owned /\ [Next]_vars => [Archive!Next]_Archive!vars
<1> SUFFICES ASSUME IInv, Owned, [Next]_vars
             PROVE  [Archive!Next]_Archive!vars
  OBVIOUS
<1>1. CASE UNCHANGED vars
  <2>1. UNCHANGED <<rows, files, handler, loose>>
    BY <1>1 DEF vars, store
  <2>2. Tasks' = Tasks
    BY <2>1 DEF Tasks
  <2>3. QED
    BY <2>1, <2>2, RowsStay DEF Archive!vars
<1>2. ASSUME NEW h \in Handlers, Progress(h)
      PROVE  [Archive!Next]_Archive!vars
  BY <1>2, ArchiveUnseen, ArchiveWrites, ArchiveKeeps, ArchiveDrops,
     ArchivePurges DEF Progress
<1>3. QED
  BY <1>1, <1>2, ArchiveBegins, ArchiveCutOff, ArchiveLoose, ArchiveRestarts
     DEF Next

\* Whatever calls overlap, reject or are lost in a restart, the store does to
\* messages and files only what MessageArchive allows: a message is kept once,
\* with a path only after its file was written; a file goes by the discard of
\* that file; and a purge deletes messages and files of its own number only,
\* though it selects them by chat header, evaluates its filter twice, and may
\* go on deleting files in the background after it has failed.
THEOREM StoreImplementsArchive == Spec => ImplementsArchive
<1>1. Spec => []IInv /\ []Owned
  BY Invariance, OwnedAlways, PTL
<1>2. QED
  BY <1>1, ArchiveInit, ArchiveStep, PTL
     DEF Spec, ImplementsArchive, Archive!Spec

\* A step deletes a message, or the file of one, only for a purge of its own
\* number that reaches it by time or by name; a file also by its own discard,
\* or by a branch that such a purge, when it was cut off, left running.
DeletesItsOwn(m) ==
    /\ rows[m] # None /\ rows'[m] = None =>
          \E h \in Handlers :
              At(h, "deleteMany") /\ Reaches(handler[h].filter, m)
    /\ m \in files /\ m \notin files' =>
          \/ m \in loose.rm
          \/ \E h \in Handlers :
                \/ At(h, "rm") /\ Reaches(handler[h].filter, m)
                \/ At(h, "discard") /\ handler[h].msg = m
    /\ m \in loose'.rm /\ m \notin loose.rm =>
          \E h \in Handlers :
              At(h, "rm") /\ Reaches(handler[h].filter, m)

\* purgeRecruitingMessages deletes nothing of another number, and nothing of
\* its own that is older than `since' and not named, whatever happens to the
\* chat headers it found before it deletes what hangs from them.
THEOREM PurgesReachTheirOwn ==
    Spec => [][\A m \in Wamids : DeletesItsOwn(m)]_vars
<1>1. IInv /\ Owned /\ [Next]_vars => \A m \in Wamids : DeletesItsOwn(m)
  <2> SUFFICES ASSUME IInv, Owned, [Next]_vars, NEW m \in Wamids
               PROVE  DeletesItsOwn(m)
    OBVIOUS
  <2>1. PICK owner : Owns(owner)
    BY DEF Owned
  <2>2. rows \in [Wamids -> Row \cup {None}] /\ loose \in Loose
    BY DEF IInv, TypeOK
  <2>3. ASSUME NEW h \in Handlers, DeleteMessages(h)
        PROVE  DeletesItsOwn(m)
    <3>1. At(h, "deleteMany") /\ UNCHANGED <<files, loose>>
          /\ (rows[m] # None /\ rows'[m] = None => Matches(handler[h].filter, m))
      BY <2>3 DEF DeleteMessages
    <3>2. QED
      BY <2>1, <3>1, MatchedIsReached DEF DeletesItsOwn
  <2>4. ASSUME NEW h \in Handlers, RemoveFile(h)
        PROVE  DeletesItsOwn(m)
    <3>1. \A n \in handler[h].rm : Reaches(handler[h].filter, n)
      BY <2>1 DEF Owns, Serves
    <3>2. QED
      BY <2>4, <3>1 DEF RemoveFile, DeleteStoredMedia, DeletesItsOwn
  <2>5. ASSUME NEW h \in Handlers, DiscardFile(h)
        PROVE  DeletesItsOwn(m)
    BY <2>5 DEF DiscardFile, DeleteStoredMedia, DeletesItsOwn
  <2>6. ASSUME NEW h \in Handlers, CreateMessage(h) \/ UnlinkFile(h)
        PROVE  DeletesItsOwn(m)
    <3>1. UNCHANGED <<files, loose>>
      BY <2>6 DEF CreateMessage, UnlinkFile
    <3>2. rows[m] # None => rows'[m] # None
      <4>1. CASE CreateMessage(h)
        BY <2>2, <4>1 DEF CreateMessage, CreateRow
      <4>2. CASE UnlinkFile(h)
        <5>1. rows[m] # None =>
                  [rows[m] EXCEPT !.linked = FALSE] \in Row
          BY <2>2 DEF Row
        <5>2. QED
          BY <2>2, <4>2, <5>1, NoneAssumption DEF UnlinkFile
      <4>3. QED
        BY <2>6, <4>1, <4>2
    <3>3. QED
      BY <3>1, <3>2 DEF DeletesItsOwn
  <2>7. ASSUME NEW h \in Handlers, DownloadMedia(h)
        PROVE  DeletesItsOwn(m)
    BY <2>7 DEF DownloadMedia, SaveInboundMedia, DeletesItsOwn
  <2>8. ASSUME NEW h \in Handlers, CutOff(h)
        PROVE  DeletesItsOwn(m)
    <3>1. PICK left \in LeftBy(handler[h]) : Loosen(left)
      BY <2>8 DEF CutOff
    <3>2. left.rm \subseteq handler[h].rm /\ loose'.rm = loose.rm \cup left.rm
      BY <3>1 DEF LeftBy, PartsOf, Branches, Loosen
    <3>3. /\ \A n \in handler[h].rm : Reaches(handler[h].filter, n)
          /\ handler[h].rm # {} => At(h, "rm")
      BY <2>1 DEF Owns, Serves, IInv, HandlerOK, At
    <3>4. QED
      BY <2>8, <3>2, <3>3 DEF CutOff, store, DeletesItsOwn
  <2>9. CASE GoesOnLoose
    <3>1. UNCHANGED rows /\ loose'.rm \subseteq loose.rm
      BY <2>2, <2>9, LooseOnlyRemoves
         DEF GoesOnLoose, LooseUpsert, LooseRemove, LooseRead, LooseRefresh,
             Loose
    <3>2. m \in files /\ m \notin files' => m \in loose.rm
      BY <2>9 DEF GoesOnLoose, LooseUpsert, LooseRemove, LooseRead,
                  LooseRefresh, DeleteStoredMedia, store
    <3>3. QED
      BY <3>1, <3>2 DEF DeletesItsOwn
  <2>10. CASE Restart
    BY <2>10 DEF Restart, NothingLoose, store, DeletesItsOwn
  <2>11. CASE UNCHANGED <<rows, files, loose>>
    BY <2>11 DEF DeletesItsOwn
  <2>12. QED
    BY <2>3, <2>4, <2>5, <2>6, <2>7, <2>8, <2>9, <2>10, <2>11
       DEF Next, Arrival, Progress, ReceiveInbound, SendAccepted,
           StartDiscard, StartPurge, ReadDuplicate, UpsertInboundChat,
           UpsertOutboundChat, UpsertChat, AfterLookup, AfterSentLookup,
           FindMessages, FilesRemoved, ReadLatest, RefreshChat, PurgeDone,
           vars, store
<1>2. QED
  BY <1>1, Invariance, OwnedAlways, PTL DEF Spec

-----------------------------------------------------------------------------
(* One call at a time.                                                     *)

OneHandler == \E h \in Handlers : Handlers = {h}

\* Some message of rw hangs from header id.
Holds(id, rw) == \E m \in Wamids : rw[m] # None /\ rw[m].chat = id

\* The filter f selects m from rw.
Selected(f, m, rw) ==
    /\ rw[m] # None
    /\ rw[m].chat \in f.chats
    /\ TimeOf[m] >= f.since \/ m \in f.ids

\* What the only handler knows in a purge: the folders of the messages it
\* will delete, and the headers it found empty.
PurgeOK(r, rw, fs) ==
    /\ r.pc = "rm" => \A m \in Wamids :
          Selected(r.filter, m, rw) /\ rw[m].linked /\ m \in fs => m \in r.rm
    /\ r.pc = "deleteMany" => \A m \in Wamids :
          Selected(r.filter, m, rw) /\ rw[m].linked => m \notin fs
    /\ \A id \in ChatIds : <<id, None>> \in r.latest =>
          r.pc = "refresh" /\ ~Holds(id, rw)

\* The header of line k may be empty for now: its message is on its way, or
\* a purge is about to delete it.
Pending(r, k, ch) ==
    \/ /\ r.pc \in {"lookup", "download", "create"}
       /\ r.chat # None /\ k = LineOf[r.msg]
    \/ /\ r.pc = "refresh"
       /\ ch[k].id \in r.unread \/ <<ch[k].id, None>> \in r.latest

\* Headers, messages and files belong together, but for what the handler r
\* is in the middle of.
WholeOK(r, ch, rw, fs) ==
    /\ \A m \in Wamids : rw[m] # None => Hangs(m, rw[m].chat, ch)
    /\ \A k \in Lines :
          ch[k] # None => Holds(ch[k].id, rw) \/ Pending(r, k, ch)
    /\ \A m \in fs : \/ rw[m] # None /\ rw[m].linked
                     \/ r.pc = "create" /\ r.msg = m /\ r.linked
    /\ r.pc \in {"lookup", "sent"} => /\ r.dup = "yes" => rw[r.msg] # None
                                      /\ r.dup = "no" => rw[r.msg] = None
    /\ r.pc \in {"download", "create", "upsert"} => rw[r.msg] = None
    /\ r.pc \in {"lookup", "download", "create"} /\ r.chat # None
          => Hangs(r.msg, r.chat, ch)
    /\ r.pc = "unlink" => r.msg \notin fs

SInv ==
    /\ \A h \in Handlers : PurgeOK(handler[h], rows, files)
    /\ ~faulty => \A h \in Handlers : WholeOK(handler[h], chats, rows, files)

LEMMA SerialStep ==
    ASSUME OneHandler, IInv, NEW h \in Handlers, NEW r, Becomes(h, r),
           PurgeOK(r, rows', files'),
           ~faulty' => WholeOK(r, chats', rows', files')
    PROVE  SInv'
BY DEF OneHandler, IInv, TypeOK, Becomes, SInv

LEMMA SerialState ==
    ASSUME IInv, SInv, NEW h \in Handlers
    PROVE  /\ handler[h] \in HandlerState
           /\ HandlerOK(handler[h], Written, chats, purged)
           /\ PurgeOK(handler[h], rows, files)
           /\ ~faulty => WholeOK(handler[h], chats, rows, files)
BY DEF IInv, TypeOK, SInv

\* A handler outside a purge has found no header to delete.
LEMMA NotPurging ==
    ASSUME IInv, SInv, NEW h \in Handlers, handler[h].pc # "refresh",
           NEW r, r.pc \notin {"rm", "deleteMany"},
           r.latest \in {handler[h].latest, {}}, NEW rw, NEW fs
    PROVE  PurgeOK(r, rw, fs)
BY SerialState DEF PurgeOK

LEMMA SerialInit == Init => SInv
BY DEF Init, SInv, PurgeOK, WholeOK, Idle, Entering

\* What arrives finds everything together, and so does a call that ends.
LEMMA SerialArrival ==
    ASSUME OneHandler, IInv, SInv, NEW h \in Handlers, Arrival(h)
    PROVE  SInv'
<1>1. PICK r :
          /\ Becomes(h, r) /\ r.latest = {} /\ r.chat = None
          /\ r.dup = "unread" /\ r.pc \in {"lookup", "sent", "discard", "find"}
  <2>1. ASSUME NEW m, ReceiveInbound(h, m) \/ SendAccepted(h, m)
                      \/ StartDiscard(h, m)
        PROVE  \E p \in {"lookup", "sent", "discard"} :
                   Becomes(h, Entering(p, m))
    BY <2>1 DEF ReceiveInbound, SendAccepted, StartDiscard
  <2>2. ASSUME NEW n, NEW since, NEW ids, StartPurge(h, n, since, ids)
        PROVE  \E f : Becomes(h, [Entering("find", None) EXCEPT !.filter = f])
    BY <2>2 DEF StartPurge
  <2>3. \A p, m : /\ Entering(p, m).latest = {} /\ Entering(p, m).chat = None
                  /\ Entering(p, m).dup = "unread" /\ Entering(p, m).pc = p
    BY DEF Entering
  <2>4. \A f : LET r == [Entering("find", None) EXCEPT !.filter = f]
               IN  /\ r.latest = {} /\ r.chat = None
                   /\ r.dup = "unread" /\ r.pc = "find"
    BY DEF Entering
  <2>5. \/ \E m : ReceiveInbound(h, m) \/ SendAccepted(h, m)
                                        \/ StartDiscard(h, m)
        \/ \E n, since, ids : StartPurge(h, n, since, ids)
    BY DEF Arrival
  <2>6. CASE \E m : ReceiveInbound(h, m) \/ SendAccepted(h, m)
                                         \/ StartDiscard(h, m)
    BY <2>1, <2>3, <2>6
  <2>7. CASE \E n, since, ids : StartPurge(h, n, since, ids)
    <3>1. PICK f : Becomes(h, [Entering("find", None) EXCEPT !.filter = f])
      BY <2>2, <2>7
    <3> DEFINE r == [Entering("find", None) EXCEPT !.filter = f]
    <3>2. /\ r.latest = {} /\ r.chat = None
          /\ r.dup = "unread" /\ r.pc = "find"
      BY <2>4
    <3> HIDE DEF r
    <3>3. QED
      BY <3>1, <3>2 DEF r
  <2>8. QED
    BY <2>5, <2>6, <2>7
<1>2. handler[h].pc = "idle" /\ UNCHANGED <<chats, rows, files, faulty>>
  BY DEF Arrival, ReceiveInbound, SendAccepted, StartDiscard, StartPurge, At,
         store
<1>3. PurgeOK(r, rows', files')
  BY <1>1, <1>2, NotPurging
<1>4. ~faulty' => WholeOK(r, chats', rows', files')
  BY <1>1, <1>2, SerialState DEF WholeOK, Pending
<1>5. QED
  BY <1>1, <1>3, <1>4, SerialStep

LEMMA SerialCutOff ==
    ASSUME OneHandler, IInv, SInv, NEW h \in Handlers, CutOff(h)
    PROVE  SInv'
<1>1. PurgeOK(Idle, rows', files')
  BY DEF PurgeOK, Idle, Entering
<1>2. QED
  BY <1>1, SerialStep DEF CutOff

LEMMA SerialRestart ==
    ASSUME OneHandler, SInv, Restart
    PROVE  SInv'
BY DEF SInv, Restart, PurgeOK, Idle, Entering

\* A branch left running changes no row, and makes no file: what the only
\* handler has found stays true, and nothing is said once a call has rejected.
\* Only a call that has rejected leaves branches running.
LEMMA LooseAfterFault == IInv /\ GoesOnLoose => faulty = TRUE
<1> SUFFICES ASSUME IInv, GoesOnLoose
             PROVE  faulty = TRUE
  OBVIOUS
<1>1. \/ loose.upsert # {} \/ loose.rm # {}
      \/ loose.unread # {} \/ loose.latest # {}
  BY DEF GoesOnLoose, LooseUpsert, LooseRemove, LooseRead, LooseRefresh
<1>2. loose # NothingLoose
  BY <1>1 DEF NothingLoose
<1>3. QED
  BY <1>2 DEF IInv, TypeOK, LooseOK

LEMMA SerialLoose ==
    ASSUME IInv, SInv, GoesOnLoose
    PROVE  SInv'
<1>1. UNCHANGED <<rows, handler, faulty>> /\ files' \subseteq files
  BY LooseOnlyRemoves
<1>2. faulty = TRUE
  BY LooseAfterFault
<1>3. ASSUME NEW h \in Handlers
      PROVE  PurgeOK(handler[h], rows, files')
  <2>1. PurgeOK(handler[h], rows, files)
    BY DEF SInv
  <2>2. QED
    BY <1>1, <2>1 DEF PurgeOK
<1>4. QED
  BY <1>1, <1>2, <1>3 DEF SInv

LEMMA SerialLookups ==
    ASSUME OneHandler, IInv, SInv, NEW h \in Handlers,
           \/ ReadDuplicate(h) \/ AfterLookup(h) \/ AfterSentLookup(h)
    PROVE  SInv'
<1> DEFINE old == handler[h]
<1>1. /\ UNCHANGED <<chats, rows, files, faulty>>
      /\ old.pc \in {"lookup", "sent"} /\ old \in HandlerState
      /\ old.chat # None => old.msg \in Wamids
  BY SerialState DEF ReadDuplicate, AfterLookup, AfterSentLookup, At, store,
                     HandlerOK
<1>2. CASE ReadDuplicate(h)
  <2> DEFINE r == [old EXCEPT !.dup = IF rows[old.msg] # None
                                      THEN "yes" ELSE "no"]
  <2>1. /\ r.pc = old.pc /\ r.msg = old.msg /\ r.chat = old.chat
        /\ r.latest = old.latest
        /\ r.dup = "yes" => rows[r.msg] # None
        /\ r.dup = "no" => rows[r.msg] = None
    BY <1>1 DEF HandlerState
  <2>2. Becomes(h, r)
    BY <1>2 DEF ReadDuplicate
  <2> HIDE DEF r
  <2>3. PurgeOK(r, rows', files')
    BY <1>1, <2>1, NotPurging
  <2>4. ~faulty' => WholeOK(r, chats', rows', files')
    BY <1>1, <2>1, SerialState DEF WholeOK, Pending
  <2>5. QED
    BY <2>2, <2>3, <2>4, SerialStep
<1>3. CASE old.dup = "yes" /\ Becomes(h, Idle)
  <2>1. PurgeOK(Idle, rows', files')
    BY DEF PurgeOK, Idle, Entering
  <2>2. ASSUME ~faulty
        PROVE  \A k \in Lines : chats[k] # None => Holds(chats[k].id, rows)
    BY <1>1, <1>3, <2>2, SerialState DEF WholeOK, Pending, Hangs, Holds
  <2>3. ~faulty' => WholeOK(Idle, chats', rows', files')
    BY <1>1, <2>2, SerialState DEF WholeOK, Idle, Entering
  <2>4. QED
    BY <1>3, <2>1, <2>3, SerialStep
<1>4. ASSUME NEW p \in {"download", "create", "upsert"}, old.dup = "no",
             p = "upsert" <=> old.pc = "sent", Goes(h, p)
      PROVE  SInv'
  <2> DEFINE r == [old EXCEPT !.pc = p]
  <2>1. /\ r.pc = p /\ r.msg = old.msg /\ r.chat = old.chat
        /\ r.latest = old.latest /\ r.linked = old.linked
    BY <1>1 DEF HandlerState
  <2>2. Becomes(h, r)
    BY <1>4 DEF Goes
  <2> HIDE DEF r
  <2>3. PurgeOK(r, rows', files')
    BY <1>1, <2>1, NotPurging
  <2>4. ~faulty' => WholeOK(r, chats', rows', files')
    BY <1>1, <1>4, <2>1, SerialState DEF WholeOK, Pending
  <2>5. QED
    BY <2>2, <2>3, <2>4, SerialStep
<1>5. QED
  BY <1>2, <1>3, <1>4 DEF AfterLookup, AfterSentLookup, At

LEMMA NewIdsAreIds ==
    ASSUME IInv, NEW k \in Lines
    PROVE  HeadersFor(k) \subseteq ChatIds /\ None \notin ChatIds
BY NoneAssumption DEF HeadersFor, NewIds, IInv, TypeOK, Chat

\* A new header is pending, an old one keeps its id.
LEMMA SerialUpsert ==
    ASSUME OneHandler, IInv, SInv, NEW h \in Handlers,
           NEW p \in {"lookup", "create"}, NEW r,
           r = [handler[h] EXCEPT !.pc = p],
           \/ p = "lookup" /\ handler[h].pc = "lookup" /\ handler[h].chat = None
           \/ p = "create" /\ handler[h].pc = "upsert",
           UpsertChat(h, r)
    PROVE  SInv'
<1> DEFINE old == handler[h]
           m == old.msg
           line == LineOf[m]
<1>1. /\ old \in HandlerState /\ m \in Wamids /\ line \in Lines
      /\ chats \in [Lines -> Chat \cup {None}]
  BY MessagesAssumption, SerialState DEF HandlerOK, IInv, TypeOK
<1>2. PICK id \in HeadersFor(line) :
          /\ chats' = [chats EXCEPT ![line] =
                          [id |-> id, lastMessageAt |-> TimeOf[m]]]
          /\ Becomes(h, [r EXCEPT !.chat = id])
  BY DEF UpsertChat, SetHeader
<1> DEFINE s == [r EXCEPT !.chat = id]
<1>3. /\ s.pc = p /\ s.msg = m /\ s.chat = id /\ s.dup = old.dup
      /\ s.linked = old.linked /\ s.latest = old.latest
  BY <1>1 DEF HandlerState
<1>4. UNCHANGED <<rows, files, faulty>>
  BY DEF UpsertChat
<1>5. /\ \A k \in Lines \ {line} : chats'[k] = chats[k]
      /\ chats'[line] # None /\ chats'[line].id = id
      /\ chats[line] # None => chats[line].id = id
  <2>1. [id |-> id, lastMessageAt |-> TimeOf[m]] \in Chat
    BY <1>1, MessagesAssumption DEF Chat, HeadersFor, NewIds, IInv, TypeOK
  <2>2. QED
    BY <1>1, <1>2, <2>1, NoneAssumption DEF HeadersFor
<1> HIDE DEF s
<1>6. PurgeOK(s, rows', files')
  BY <1>3, NotPurging
<1>7. ASSUME ~faulty
      PROVE  WholeOK(s, chats', rows, files)
  <2>1. /\ old.pc \in {"lookup", "upsert"} /\ WholeOK(old, chats, rows, files)
        /\ old.pc = "lookup" => old.chat = None
    BY <1>7, SerialState
  <2>2. \A n \in Wamids : rows[n] # None => Hangs(n, rows[n].chat, chats')
    BY <1>5, <2>1, MessagesAssumption DEF WholeOK, Hangs
  <2>3. ASSUME NEW k \in Lines, chats'[k] # None
        PROVE  Holds(chats'[k].id, rows) \/ Pending(s, k, chats')
    <3>1. CASE k = line
      BY <1>2, <1>3, <1>5, <3>1, NewIdsAreIds, <1>1 DEF Pending
    <3>2. CASE k # line
      BY <1>5, <2>1, <2>3, <3>2 DEF WholeOK, Pending
    <3>3. QED
      BY <3>1, <3>2
  <2>4. \A n \in files : rows[n] # None /\ rows[n].linked
    BY <2>1 DEF WholeOK
  <2>5. Hangs(s.msg, s.chat, chats')
    BY <1>3, <1>5 DEF Hangs
  <2>6. QED
    BY <1>3, <2>1, <2>2, <2>3, <2>4, <2>5 DEF WholeOK
<1>8. QED
  BY <1>2, <1>4, <1>6, <1>7, SerialStep DEF s

LEMMA SerialUpserts ==
    ASSUME OneHandler, IInv, SInv, NEW h \in Handlers,
           UpsertInboundChat(h) \/ UpsertOutboundChat(h)
    PROVE  SInv'
<1>1. handler[h] \in HandlerState
  BY SerialState
<1>2. CASE UpsertInboundChat(h)
  <2>1. handler[h] = [handler[h] EXCEPT !.pc = "lookup"]
    BY <1>1, <1>2 DEF UpsertInboundChat, At, HandlerState
  <2>2. QED
    BY <1>2, <2>1, SerialUpsert DEF UpsertInboundChat, At
<1>3. CASE UpsertOutboundChat(h)
  BY <1>3, SerialUpsert DEF UpsertOutboundChat, At
<1>4. QED
  BY <1>2, <1>3

\* A file is written for a message that has no row yet, and is linked in it.
LEMMA SerialDownload ==
    ASSUME OneHandler, IInv, SInv, NEW h \in Handlers, DownloadMedia(h)
    PROVE  SInv'
<1> DEFINE old == handler[h]
           ok == [old EXCEPT !.pc = "create", !.linked = TRUE]
           bad == [old EXCEPT !.pc = "create"]
<1>1. old \in HandlerState /\ old.pc = "download"
  BY SerialState DEF DownloadMedia, At
<1>2. \A r \in {ok, bad} : /\ r.pc = "create" /\ r.msg = old.msg
                           /\ r.chat = old.chat /\ r.latest = old.latest
  BY <1>1 DEF HandlerState
<1>3. ok.linked
  BY <1>1 DEF HandlerState
<1>4. UNCHANGED <<chats, rows>>
  BY DEF DownloadMedia
<1> HIDE DEF ok, bad
<1>5. PurgeOK(ok, rows', files') /\ PurgeOK(bad, rows', files')
  BY <1>1, <1>2, NotPurging
<1>6. CASE files' = files \cup {old.msg} /\ UNCHANGED faulty /\ Becomes(h, ok)
  <2>1. ~faulty' => WholeOK(ok, chats', rows', files')
    BY <1>1, <1>2, <1>3, <1>4, <1>6, SerialState DEF WholeOK, Pending
  <2>2. QED
    BY <1>5, <1>6, <2>1, SerialStep
<1>7. CASE UNCHANGED <<files, faulty>> /\ Becomes(h, bad)
  <2>1. ~faulty' => WholeOK(bad, chats', rows', files')
    BY <1>1, <1>2, <1>4, <1>7, SerialState DEF WholeOK, Pending
  <2>2. QED
    BY <1>5, <1>7, <2>1, SerialStep
<1>8. CASE faulty' = TRUE /\ Becomes(h, bad)
  BY <1>5, <1>8, SerialStep
<1>9. QED
  BY <1>6, <1>7, <1>8
     DEF DownloadMedia, SaveInboundMedia, FailedDownload, Goes, ok, bad

\* The row that was pending fills its header and owns its file.
LEMMA SerialCreate ==
    ASSUME OneHandler, IInv, SInv, NEW h \in Handlers, CreateMessage(h)
    PROVE  SInv'
<1> DEFINE old == handler[h]
           m == old.msg
           row == [chat |-> old.chat, linked |-> old.linked]
<1>1. /\ old \in HandlerState /\ old.pc = "create"
      /\ m \in Wamids /\ old.chat # None /\ row \in Row
  BY SerialState DEF CreateMessage, At, HandlerOK, HandlerState, Row
<1>2. UNCHANGED <<chats, files, faulty>> /\ Becomes(h, Idle)
      /\ CreateRow(m, row)
  BY DEF CreateMessage
<1>3. PurgeOK(Idle, rows', files')
  BY DEF PurgeOK, Idle, Entering
<1>4. ASSUME ~faulty
      PROVE  WholeOK(Idle, chats, rows', files)
  <2>1. WholeOK(old, chats, rows, files) /\ rows[m] = None
    BY <1>1, <1>4, SerialState DEF WholeOK
  <2>2. /\ \A n \in Wamids \ {m} : rows'[n] = rows[n]
        /\ rows'[m] = row /\ row # None
    BY <1>1, <1>2, <2>1, NoneAssumption DEF CreateRow, IInv, TypeOK
  <2>3. row.chat = old.chat /\ row.linked = old.linked
    OBVIOUS
  <2> HIDE DEF row
  <2>4. \A n \in Wamids : rows'[n] # None => Hangs(n, rows'[n].chat, chats)
    BY <1>1, <2>1, <2>2, <2>3 DEF WholeOK
  <2>5. Hangs(m, old.chat, chats) /\ Holds(old.chat, rows')
    BY <1>1, <2>1, <2>2, <2>3 DEF WholeOK, Holds
  <2>6. ASSUME NEW k \in Lines, chats[k] # None
        PROVE  Holds(chats[k].id, rows')
    <3>1. Holds(chats[k].id, rows) => Holds(chats[k].id, rows')
      BY <2>1, <2>2 DEF Holds
    <3>2. Pending(old, k, chats) => chats[k].id = old.chat
      BY <1>1, <2>5 DEF Pending, Hangs
    <3>3. QED
      BY <2>1, <2>5, <2>6, <3>1, <3>2 DEF WholeOK
  <2>7. \A n \in files : rows'[n] # None /\ rows'[n].linked
    <3>1. files \subseteq Wamids
      BY MessagesAssumption DEF IInv, TypeOK, Wamids
    <3>2. QED
      BY <1>1, <2>1, <2>2, <2>3, <3>1 DEF WholeOK
  <2>8. QED
    BY <2>4, <2>6, <2>7 DEF WholeOK, Idle, Entering
<1>5. QED
  BY <1>2, <1>3, <1>4, SerialStep

LEMMA SerialDiscard ==
    ASSUME OneHandler, IInv, SInv, NEW h \in Handlers, DiscardFile(h)
    PROVE  SInv'
<1> DEFINE old == handler[h]
           r == [old EXCEPT !.pc = "unlink"]
<1>1. old \in HandlerState /\ old.pc = "discard"
  BY SerialState DEF DiscardFile, At
<1>2. /\ r.pc = "unlink" /\ r.msg = old.msg /\ r.latest = old.latest
  BY <1>1 DEF HandlerState
<1>3. /\ UNCHANGED <<chats, rows, faulty>> /\ files' = files \ {old.msg}
      /\ Becomes(h, r)
  BY DEF DiscardFile, DeleteStoredMedia, Goes
<1> HIDE DEF r
<1>4. PurgeOK(r, rows', files')
  BY <1>1, <1>2, NotPurging
<1>5. ~faulty' => WholeOK(r, chats', rows', files')
  BY <1>1, <1>2, <1>3, SerialState DEF WholeOK, Pending
<1>6. QED
  BY <1>3, <1>4, <1>5, SerialStep

LEMMA SerialUnlink ==
    ASSUME OneHandler, IInv, SInv, NEW h \in Handlers, UnlinkFile(h)
    PROVE  SInv'
<1> DEFINE old == handler[h]
           m == old.msg
<1>1. /\ old.pc = "unlink" /\ m \in Wamids
      /\ files \subseteq Wamids /\ rows \in [Wamids -> Row \cup {None}]
  BY SerialState, MessagesAssumption
     DEF UnlinkFile, At, HandlerOK, IInv, TypeOK, Wamids
<1>2. UNCHANGED <<chats, files, faulty>> /\ Becomes(h, Idle)
  BY DEF UnlinkFile
<1>3. PurgeOK(Idle, rows', files')
  BY DEF PurgeOK, Idle, Entering
<1>4. /\ \A n \in Wamids \ {m} : rows'[n] = rows[n]
      /\ rows[m] = None => rows'[m] = None
      /\ rows[m] # None => rows'[m] # None /\ rows'[m].chat = rows[m].chat
  BY <1>1, NoneAssumption DEF UnlinkFile, Row
<1>5. ASSUME ~faulty
      PROVE  WholeOK(Idle, chats, rows', files)
  <2>1. WholeOK(old, chats, rows, files) /\ m \notin files
    BY <1>1, <1>5, SerialState DEF WholeOK
  <2>2. \A n \in Wamids : rows'[n] # None => Hangs(n, rows'[n].chat, chats)
    BY <1>4, <2>1 DEF WholeOK
  <2>3. \A k \in Lines : chats[k] # None => Holds(chats[k].id, rows')
    <3>1. \A id : Holds(id, rows) => Holds(id, rows')
      BY <1>1, <1>4 DEF Holds
    <3>2. QED
      BY <1>1, <2>1, <3>1 DEF WholeOK, Pending
  <2>4. \A n \in files : rows'[n] # None /\ rows'[n].linked
    BY <1>1, <1>4, <2>1 DEF WholeOK
  <2>5. QED
    BY <2>2, <2>3, <2>4 DEF WholeOK, Idle, Entering
<1>6. QED
  BY <1>2, <1>3, <1>5, SerialStep

LEMMA MatchesIsSelected ==
    \A f, m : Matches(f, m) <=> Selected(f, m, rows)
BY DEF Matches, Selected

\* Every folder of a message to be deleted is about to be removed, since what
\* has a folder is linked.
LEMMA SerialFind ==
    ASSUME OneHandler, IInv, SInv, NEW h \in Handlers, FindMessages(h)
    PROVE  SInv'
<1> DEFINE old == handler[h]
           found == {m \in Wamids : Matches(old.filter, m) /\ rows[m].linked}
           r == [old EXCEPT !.pc = "rm", !.rm = found]
<1>1. old \in HandlerState /\ old.pc = "find"
  BY SerialState DEF FindMessages, At
<1>2. /\ r.pc = "rm" /\ r.rm = found /\ r.filter = old.filter
      /\ r.latest = old.latest
  BY <1>1 DEF HandlerState
<1>3. UNCHANGED <<chats, rows, files, faulty>> /\ Becomes(h, r)
  BY DEF FindMessages, store
<1> HIDE DEF r
<1>4. PurgeOK(r, rows', files')
  <2>1. \A m \in Wamids : Selected(r.filter, m, rows) /\ rows[m].linked
                              => m \in r.rm
    BY <1>2, MatchesIsSelected
  <2>2. \A id \in ChatIds : <<id, None>> \notin r.latest
    BY <1>1, <1>2, SerialState DEF PurgeOK
  <2>3. QED
    BY <1>2, <1>3, <2>1, <2>2 DEF PurgeOK
<1>5. ~faulty' => WholeOK(r, chats', rows', files')
  BY <1>1, <1>2, <1>3, SerialState DEF WholeOK, Pending
<1>6. QED
  BY <1>3, <1>4, <1>5, SerialStep

LEMMA SerialRemove ==
    ASSUME OneHandler, IInv, SInv, NEW h \in Handlers, RemoveFile(h)
    PROVE  SInv'
<1> DEFINE old == handler[h]
<1>1. PICK m \in old.rm :
          /\ files' = files \ {m}
          /\ Becomes(h, [old EXCEPT !.rm = @ \ {m}])
  BY DEF RemoveFile, DeleteStoredMedia
<1> DEFINE r == [old EXCEPT !.rm = @ \ {m}]
<1>2. old \in HandlerState /\ old.pc = "rm"
  BY SerialState DEF RemoveFile, At
<1>3. /\ r.pc = "rm" /\ r.rm = old.rm \ {m} /\ r.filter = old.filter
      /\ r.latest = old.latest
  BY <1>2 DEF HandlerState
<1>4. UNCHANGED <<chats, rows, faulty>>
  BY DEF RemoveFile
<1> HIDE DEF r
<1>5. PurgeOK(r, rows', files')
  BY <1>1, <1>2, <1>3, <1>4, SerialState DEF PurgeOK
<1>6. ~faulty' => WholeOK(r, chats', rows', files')
  BY <1>1, <1>2, <1>3, <1>4, SerialState DEF WholeOK, Pending
<1>7. QED
  BY <1>1, <1>5, <1>6, SerialStep DEF r

LEMMA SerialRemoved ==
    ASSUME OneHandler, IInv, SInv, NEW h \in Handlers, FilesRemoved(h)
    PROVE  SInv'
<1> DEFINE old == handler[h]
           r == [old EXCEPT !.pc = "deleteMany"]
<1>1. old \in HandlerState /\ old.pc = "rm" /\ old.rm = {}
  BY SerialState DEF FilesRemoved, At
<1>2. /\ r.pc = "deleteMany" /\ r.filter = old.filter
      /\ r.latest = old.latest
  BY <1>1 DEF HandlerState
<1>3. UNCHANGED <<chats, rows, files, faulty>> /\ Becomes(h, r)
  BY DEF FilesRemoved, Goes, store
<1> HIDE DEF r
<1>4. PurgeOK(r, rows', files')
  BY <1>1, <1>2, <1>3, SerialState DEF PurgeOK
<1>5. ~faulty' => WholeOK(r, chats', rows', files')
  BY <1>1, <1>2, <1>3, SerialState DEF WholeOK, Pending
<1>6. QED
  BY <1>3, <1>4, <1>5, SerialStep

\* A header that loses its last message is among those to be refreshed.
LEMMA SerialDelete ==
    ASSUME OneHandler, IInv, SInv, NEW h \in Handlers, DeleteMessages(h)
    PROVE  SInv'
<1> DEFINE old == handler[h]
           f == old.filter
           r == [old EXCEPT !.pc = "refresh", !.unread = f.chats]
<1>1. /\ old \in HandlerState /\ old.pc = "deleteMany"
      /\ files \subseteq Wamids
  BY SerialState, MessagesAssumption
     DEF DeleteMessages, At, IInv, TypeOK, Wamids
<1>2. r.pc = "refresh" /\ r.unread = f.chats /\ r.latest = old.latest
  BY <1>1 DEF HandlerState
<1>3. UNCHANGED <<chats, files, faulty>> /\ Becomes(h, r)
  BY DEF DeleteMessages
<1>4. \A m \in Wamids : rows'[m] = IF Selected(f, m, rows) THEN None
                                   ELSE rows[m]
  BY MatchesIsSelected DEF DeleteMessages
<1> HIDE DEF r
<1>5. PurgeOK(r, rows', files')
  <2>1. \A id \in ChatIds : <<id, None>> \notin r.latest
    BY <1>1, <1>2, SerialState DEF PurgeOK
  <2>2. QED
    BY <1>2, <2>1 DEF PurgeOK
<1>6. ASSUME ~faulty
      PROVE  WholeOK(r, chats, rows', files)
  <2>1. WholeOK(old, chats, rows, files)
    BY <1>6, SerialState
  <2>2. \A m \in Wamids : rows'[m] # None => Hangs(m, rows'[m].chat, chats)
    BY <1>4, <2>1 DEF WholeOK
  <2>3. ASSUME NEW k \in Lines, chats[k] # None
        PROVE  Holds(chats[k].id, rows') \/ Pending(r, k, chats)
    <3>1. PICK m \in Wamids : rows[m] # None /\ rows[m].chat = chats[k].id
      BY <1>1, <2>1, <2>3 DEF WholeOK, Pending, Holds
    <3>2. CASE Selected(f, m, rows)
      BY <1>2, <3>1, <3>2 DEF Selected, Pending
    <3>3. CASE ~Selected(f, m, rows)
      BY <1>4, <3>1, <3>3 DEF Holds
    <3>4. QED
      BY <3>2, <3>3
  <2>4. \A m \in files : rows'[m] # None /\ rows'[m].linked
    <3>1. \A m \in files : rows[m] # None /\ rows[m].linked
      BY <1>1, <2>1 DEF WholeOK
    <3>2. \A m \in files : ~Selected(f, m, rows)
      BY <1>1, <3>1, SerialState DEF PurgeOK
    <3>3. QED
      BY <1>1, <1>4, <3>1, <3>2
  <2>5. QED
    BY <1>2, <2>2, <2>3, <2>4 DEF WholeOK
<1>7. QED
  BY <1>3, <1>5, <1>6, SerialStep

\* The read finds no message exactly when the header holds none.
LEMMA LatestMeans ==
    ASSUME NEW id, NEW time \in Latest(id)
    PROVE  time = None <=> ~Holds(id, rows)
<1>1. RowsOf(id) = {} <=> ~Holds(id, rows)
  BY DEF RowsOf, Holds
<1>2. CASE RowsOf(id) = {}
  BY <1>1, <1>2 DEF Latest, FirstOf
<1>3. CASE RowsOf(id) # {}
  <2>1. time \in Nat
    BY <1>3, MessagesAssumption DEF Latest, FirstOf, RowsOf
  <2>2. QED
    BY <1>1, <1>3, <2>1, NoneAssumption
<1>4. QED
  BY <1>2, <1>3

LEMMA SerialReadLatest ==
    ASSUME OneHandler, IInv, SInv, NEW h \in Handlers, ReadLatest(h)
    PROVE  SInv'
<1> DEFINE old == handler[h]
<1>1. PICK id \in old.unread : \E time \in Latest(id) :
          Becomes(h, [old EXCEPT !.unread = @ \ {id},
                                 !.latest = @ \cup {<<id, time>>}])
  BY DEF ReadLatest
<1>2. PICK time \in Latest(id) :
          Becomes(h, [old EXCEPT !.unread = @ \ {id},
                                 !.latest = @ \cup {<<id, time>>}])
  BY <1>1
<1> DEFINE r == [old EXCEPT !.unread = @ \ {id},
                            !.latest = @ \cup {<<id, time>>}]
<1>3. old \in HandlerState /\ old.pc = "refresh"
  BY SerialState DEF ReadLatest, At
<1>4. /\ r.pc = "refresh" /\ r.unread = old.unread \ {id}
      /\ r.latest = old.latest \cup {<<id, time>>}
  BY <1>3 DEF HandlerState
<1>5. UNCHANGED <<chats, rows, files, faulty>>
  BY DEF ReadLatest, store
<1>6. time = None <=> ~Holds(id, rows)
  BY LatestMeans
<1> HIDE DEF r
<1>7. PurgeOK(r, rows', files')
  BY <1>3, <1>4, <1>5, <1>6, SerialState DEF PurgeOK
<1>8. ASSUME ~faulty
      PROVE  WholeOK(r, chats, rows, files)
  <2>1. WholeOK(old, chats, rows, files)
    BY <1>8, SerialState
  <2>2. ASSUME NEW k \in Lines, chats[k] # None
        PROVE  Holds(chats[k].id, rows) \/ Pending(r, k, chats)
    BY <1>3, <1>4, <1>6, <2>1, <2>2 DEF WholeOK, Pending
  <2>3. QED
    BY <1>3, <1>4, <2>1, <2>2 DEF WholeOK
<1>9. QED
  BY <1>2, <1>5, <1>7, <1>8, SerialStep DEF r

\* A header is deleted only if it holds no message, as found.
LEMMA SerialRefresh ==
    ASSUME OneHandler, IInv, SInv, NEW h \in Handlers, RefreshChat(h)
    PROVE  SInv'
<1> DEFINE old == handler[h]
<1>1. PICK found \in old.latest :
          /\ chats' = [k \in Lines |->
                IF chats[k] # None /\ chats[k].id = found[1]
                THEN Refreshed(chats[k], found[2]) ELSE chats[k]]
          /\ Becomes(h, [old EXCEPT !.latest = @ \ {found}])
  BY DEF RefreshChat, UseLatest
<1> DEFINE r == [old EXCEPT !.latest = @ \ {found}]
<1>2. old \in HandlerState /\ old.pc = "refresh"
  BY SerialState DEF RefreshChat, At
<1>3. /\ r.pc = "refresh" /\ r.unread = old.unread
      /\ r.latest = old.latest \ {found}
      /\ found[1] \in ChatIds /\ found[2] \in Nat \cup {None}
      /\ found = <<found[1], found[2]>>
  BY <1>2 DEF HandlerState
<1>4. UNCHANGED <<rows, files, faulty>>
  BY DEF RefreshChat
<1> HIDE DEF r
<1>5. PurgeOK(r, rows', files')
  BY <1>2, <1>3, <1>4, SerialState DEF PurgeOK
<1>6. found[2] = None => ~Holds(found[1], rows)
  BY <1>2, <1>3, SerialState DEF PurgeOK
<1>7. ASSUME NEW k \in Lines
      PROVE  \/ /\ chats'[k] = None
                /\ \/ chats[k] = None
                   \/ found[2] = None /\ chats[k].id = found[1]
             \/ /\ chats[k] # None /\ chats'[k] # None
                /\ chats'[k].id = chats[k].id
                /\ found[2] = None => chats[k].id # found[1]
  <2>1. chats[k] # None => chats[k] \in Chat
    BY DEF IInv, TypeOK
  <2>2. [chats[k] EXCEPT !.lastMessageAt = found[2]] # None
        \/ found[2] = None \/ chats[k] = None
    BY <1>3, <2>1, NoneAssumption DEF Chat
  <2>3. QED
    BY <1>1, <2>1, <2>2 DEF Refreshed, Chat
<1>8. ASSUME ~faulty
      PROVE  WholeOK(r, chats', rows, files)
  <2>1. WholeOK(old, chats, rows, files)
    BY <1>8, SerialState
  <2>2. ASSUME NEW m \in Wamids, rows[m] # None
        PROVE  Hangs(m, rows[m].chat, chats')
    <3>1. Hangs(m, rows[m].chat, chats) /\ Holds(rows[m].chat, rows)
      BY <2>1, <2>2 DEF WholeOK, Holds
    <3>2. QED
      BY <1>6, <1>7, <3>1, MessagesAssumption DEF Hangs
  <2>3. ASSUME NEW k \in Lines, chats'[k] # None
        PROVE  Holds(chats'[k].id, rows) \/ Pending(r, k, chats')
    BY <1>2, <1>3, <1>7, <2>1, <2>3 DEF WholeOK, Pending
  <2>4. QED
    BY <1>2, <1>3, <2>1, <2>2, <2>3 DEF WholeOK
<1>9. QED
  BY <1>1, <1>4, <1>5, <1>8, SerialStep DEF r

LEMMA SerialPurgeDone ==
    ASSUME OneHandler, IInv, SInv, NEW h \in Handlers, PurgeDone(h)
    PROVE  SInv'
<1>1. /\ handler[h].pc = "refresh"
      /\ handler[h].unread = {} /\ handler[h].latest = {}
      /\ UNCHANGED <<chats, rows, files, faulty>> /\ Becomes(h, Idle)
  BY DEF PurgeDone, At, store
<1>2. PurgeOK(Idle, rows', files')
  BY DEF PurgeOK, Idle, Entering
<1>3. ~faulty' => WholeOK(Idle, chats', rows', files')
  BY <1>1, SerialState DEF WholeOK, Pending, Idle, Entering
<1>4. QED
  BY <1>1, <1>2, <1>3, SerialStep

LEMMA SerialNext == OneHandler /\ IInv /\ SInv /\ [Next]_vars => SInv'
<1> SUFFICES ASSUME OneHandler, IInv, SInv, [Next]_vars
             PROVE  SInv'
  OBVIOUS
<1>1. ASSUME NEW h \in Handlers, Progress(h)
      PROVE  SInv'
  BY <1>1, SerialLookups, SerialUpserts, SerialDownload, SerialCreate,
     SerialDiscard, SerialUnlink, SerialFind, SerialRemove, SerialRemoved,
     SerialDelete, SerialReadLatest, SerialRefresh, SerialPurgeDone
     DEF Progress
<1>2. CASE UNCHANGED vars
  BY <1>2 DEF SInv, vars, store
<1>3. QED
  BY <1>1, <1>2, SerialArrival, SerialCutOff, SerialLoose, SerialRestart
     DEF Next

LEMMA SerialInvariance == ASSUME OneHandler PROVE Spec => []SInv
<1>1. Init /\ [][Next]_vars /\ []IInv => []SInv
  BY SerialInit, SerialNext, PTL
<1>2. QED
  BY Invariance, <1>1, PTL DEF Spec

\* One call at a time, and none cut off, leaves no empty header, no message
\* without its header and no file that no message points to
\* (persistSingleInboundUnified, discardInboundMedia, refreshOrDeleteChat).
THEOREM StoreStaysConsistent == ASSUME OneHandler PROVE Spec => []StoreConsistent
<1>1. IInv /\ SInv => StoreConsistent
  <2> SUFFICES ASSUME SInv, ~faulty, \A h \in Handlers : At(h, "idle")
               PROVE  /\ \A k \in Lines :
                            chats[k] # None => RowsOf(chats[k].id) # {}
                      /\ \A m \in Wamids : rows[m] # None =>
                            /\ chats[LineOf[m]] # None
                            /\ chats[LineOf[m]].id = rows[m].chat
                      /\ \A m \in files : rows[m] # None
    BY DEF StoreConsistent
  <2>1. PICK h \in Handlers : handler[h].pc = "idle"
    BY DEF OneHandler, At
  <2>2. WholeOK(handler[h], chats, rows, files)
    BY DEF SInv
  <2>3. \A k \in Lines : chats[k] # None => RowsOf(chats[k].id) # {}
    BY <2>1, <2>2 DEF WholeOK, Pending, Holds, RowsOf
  <2>4. QED
    BY <2>1, <2>2, <2>3 DEF WholeOK, Hangs
<1>2. QED
  BY Invariance, SerialInvariance, <1>1, PTL

\* A message deleted by a purge leaves no file behind, even if calls were cut
\* off before (deleteMessagesMedia before deleteMany).
THEOREM PurgesLeaveNoFile == ASSUME OneHandler PROVE Spec => PurgeLeavesNoFile
<1> DEFINE Gone(m) == rows[m] # None /\ rows[m].linked /\ rows'[m] = None
                          => m \notin files'
<1>1. IInv /\ SInv /\ [Next]_vars => \A m \in WithMedia : Gone(m)
  <2> SUFFICES ASSUME IInv, SInv, [Next]_vars, NEW m \in WithMedia,
                      rows[m] # None, rows[m].linked, rows'[m] = None
               PROVE  m \notin files'
    OBVIOUS
  <2>1. m \in Wamids /\ rows[m] \in Row
    BY MessagesAssumption DEF Wamids, IInv, TypeOK
  <2>2. PICK h \in Handlers : DeleteMessages(h)
    <3>1. ASSUME NEW h \in Handlers, CreateMessage(h) \/ UnlinkFile(h)
          PROVE  rows'[m] # None
      <4>1. rows \in [Wamids -> Row \cup {None}]
        BY DEF IInv, TypeOK
      <4>2. CASE CreateMessage(h)
        BY <2>1, <4>1, <4>2 DEF CreateMessage, CreateRow
      <4>3. CASE UnlinkFile(h)
        <5>1. [rows[m] EXCEPT !.linked = FALSE] \in Row
          BY <2>1 DEF Row
        <5>2. rows'[m] \in {rows[m], [rows[m] EXCEPT !.linked = FALSE]}
          BY <2>1, <4>1, <4>3 DEF UnlinkFile
        <5>3. QED
          BY <5>1, <5>2, NoneAssumption
      <4>4. QED
        BY <3>1, <4>2, <4>3
    <3>2. rows' # rows
      OBVIOUS
    <3>3. QED
      BY <3>1, <3>2, LooseOnlyRemoves
         DEF Next, Restart, Arrival, Progress, CutOff, ReceiveInbound, SendAccepted,
             StartDiscard, StartPurge, ReadDuplicate, UpsertInboundChat,
             UpsertOutboundChat, UpsertChat, AfterLookup, DownloadMedia,
             AfterSentLookup, DiscardFile, FindMessages, RemoveFile,
             FilesRemoved, ReadLatest, RefreshChat, PurgeDone, vars, store
  <2>3. Selected(handler[h].filter, m, rows)
    BY <2>1, <2>2, MatchesIsSelected DEF DeleteMessages
  <2>4. QED
    BY <2>1, <2>2, <2>3, SerialState DEF DeleteMessages, At, PurgeOK
<1>2. QED
  BY Invariance, SerialInvariance, <1>1, PTL DEF Spec, PurgeLeavesNoFile

\* A purge deletes the headers it empties and no others (refreshOrDeleteChat),
\* unless a purge that failed has left a deletion running that found its chat
\* empty some time ago.  Its other branches may be running still.
THEOREM PurgesKeepFullChats ==
    ASSUME OneHandler PROVE Spec => OnlyEmptyChatsDeleted
<1> DEFINE Empty(k) == chats[k] # None /\ chats'[k] = None =>
                           RowsOf(chats[k].id) = {}
<1>1. IInv /\ SInv /\ [Next]_vars
          => (loose.latest = {} => \A k \in Lines : Empty(k))
  <2> SUFFICES ASSUME IInv, SInv, [Next]_vars, loose.latest = {},
                      NEW k \in Lines, chats[k] # None, chats'[k] = None
               PROVE  RowsOf(chats[k].id) = {}
    OBVIOUS
  <2>1. chats[k] \in Chat
    BY DEF IInv, TypeOK
  <2>2. PICK h \in Handlers : RefreshChat(h)
    <3>1. ASSUME NEW h \in Handlers,
                 UpsertInboundChat(h) \/ UpsertOutboundChat(h)
          PROVE  chats'[k] # None
      <4>1. PICK id \in HeadersFor(LineOf[handler[h].msg]) :
                chats' = [chats EXCEPT ![LineOf[handler[h].msg]] =
                             [id |-> id,
                              lastMessageAt |-> TimeOf[handler[h].msg]]]
        BY <3>1 DEF UpsertInboundChat, UpsertOutboundChat, UpsertChat, SetHeader
      <4>2. handler[h].msg \in Wamids
        BY <3>1, SerialState
           DEF UpsertInboundChat, UpsertOutboundChat, At, HandlerOK
      <4>3. [id |-> id, lastMessageAt |-> TimeOf[handler[h].msg]] \in Chat
        BY <4>2, NewIdsAreIds, MessagesAssumption DEF Chat
      <4>4. QED
        BY <4>1, <4>3, NoneAssumption DEF IInv, TypeOK
    <3>2. ~LooseUpsert
      <4>1. SUFFICES ASSUME LooseUpsert PROVE chats'[k] # None
        OBVIOUS
      <4>2. PICK m \in loose.upsert : \E id \in HeadersFor(LineOf[m]) :
                SetHeader(m, id)
        BY <4>1 DEF LooseUpsert
      <4>3. m \in Wamids
        BY DEF IInv, TypeOK, Loose
      <4>4. PICK id \in HeadersFor(LineOf[m]) : SetHeader(m, id)
        BY <4>2
      <4>5. [id |-> id, lastMessageAt |-> TimeOf[m]] # None
        BY <4>3, NewIdsAreIds, MessagesAssumption, NoneAssumption DEF Chat
      <4>6. QED
        BY <4>4, <4>5 DEF SetHeader, IInv, TypeOK
    <3>3. chats' # chats
      OBVIOUS
    <3>4. ~GoesOnLoose
      BY <3>2, <3>3 DEF GoesOnLoose, LooseRemove, LooseRead, LooseRefresh, store
    <3>5. QED
      BY <3>1, <3>3, <3>4
         DEF Next, Restart, Arrival, Progress, CutOff, ReceiveInbound, SendAccepted,
             StartDiscard, StartPurge, ReadDuplicate, AfterLookup,
             DownloadMedia, CreateMessage, AfterSentLookup, DiscardFile,
             UnlinkFile, FindMessages, RemoveFile, FilesRemoved,
             DeleteMessages, ReadLatest, PurgeDone, vars, store
  <2>3. PICK found \in handler[h].latest :
            chats' = [l \in Lines |->
                IF chats[l] # None /\ chats[l].id = found[1]
                THEN Refreshed(chats[l], found[2]) ELSE chats[l]]
    BY <2>2 DEF RefreshChat, UseLatest
  <2>4. /\ found[1] \in ChatIds /\ found[2] \in Nat \cup {None}
        /\ found = <<found[1], found[2]>>
    BY SerialState DEF HandlerState
  <2>5. chats[k].id = found[1] /\ Refreshed(chats[k], found[2]) = None
    BY <2>3
  <2>6. found[2] = None
    <3>1. found[2] # None => [chats[k] EXCEPT !.lastMessageAt = found[2]] \in Chat
      BY <2>1, <2>4 DEF Chat
    <3>2. QED
      BY <2>5, <3>1, NoneAssumption DEF Refreshed
  <2>7. ~Holds(chats[k].id, rows)
    BY <2>4, <2>5, <2>6, SerialState DEF PurgeOK
  <2>8. QED
    BY <2>7 DEF Holds, RowsOf
<1>2. QED
  BY Invariance, SerialInvariance, <1>1, PTL DEF Spec, OnlyEmptyChatsDeleted
=============================================================================
