----------------------------- MODULE SyncProofs ------------------------------
(* Proofs about Sync, for every set of items, sources, files and processes. *)
EXTENDS Sync, TLAPS

\* The provers a leaf is tried with, in this order, and how long each may take.
USE ZenonT(3), SMTT(30), ZenonT(30)

\* The control points at which a process has an item, and a hash, in hand.
InHand ==
    \A p \in Procs :
        /\ pc[p] \in {"seed", "add", "record", "mark", "remove", "unshare"}
              => work[p].item \in Items
        /\ pc[p] \in {"add", "record"} => work[p].hash \in Hashes

Typed == TypeOK /\ InHand

-----------------------------------------------------------------------------
(* Types of the constants, and of what the operators return. *)

LEMMA EmptyTyped ==
    /\ NoRow \in Row
    /\ NothingSeen \in Seen
    /\ NoWork \in Work
    /\ 1 \in 1 .. Never /\ Never \in 1 .. Never
BY ProcsAssumption DEF NoRow, Row, States, NothingSeen, Seen, NoWork, Work, Never

LEMMA WritesTyped ==
    ASSUME NEW r \in Row
    PROVE  /\ upsert(r) \in Row
           /\ reset_for_rebuild(r) \in Row
           /\ \A s \in States : set_state(r, s) \in Row
           /\ \A h \in Hashes, c \in BOOLEAN : set_seeding(r, h, c) \in Row
<1>1. upsert(r) \in Row /\ reset_for_rebuild(r) \in Row
  BY DEF Row, States, upsert, reset_for_rebuild
<1>2. ASSUME NEW s \in States PROVE set_state(r, s) \in Row
  BY DEF Row, set_state
<1>3. ASSUME NEW h \in Hashes, NEW c \in BOOLEAN PROVE set_seeding(r, h, c) \in Row
  BY DEF Row, States, set_seeding
<1> QED
  BY <1>1, <1>2, <1>3

LEMMA InitTyped == Init => Typed
<1> SUFFICES ASSUME Init PROVE Typed
  OBVIOUS
<1>1. /\ rows \in [Items -> Row] /\ until \in [Items -> 1 .. Never]
      /\ seen \in [Procs -> Seen] /\ work \in [Procs -> Work]
  BY EmptyTyped DEF Init
<1>2. clock \in 1 .. MaxClock
  BY ProcsAssumption DEF Init
<1>3. client \in [Hashes -> Adders] /\ pc \in [Procs -> PCs]
  BY DEF Init, Adders, PCs
<1>4. /\ tagged \in [Items -> BOOLEAN] /\ content \in [Files -> Versions]
      /\ present \in [Files -> BOOLEAN] /\ calm \in BOOLEAN
      /\ gone \in [Procs -> SUBSET Items]
      /\ moved \subseteq Hashes /\ cache \subseteq Hashes /\ added \subseteq Hashes
  BY DEF Init
<1>5. InHand
  BY DEF Init, InHand
<1> QED
  BY <1>1, <1>2, <1>3, <1>4, <1>5 DEF Typed, TypeOK

-----------------------------------------------------------------------------
(* Every step keeps the types. *)

\* A process moves on to another control point, with its work put to w.
LEMMA MoveTyped ==
    ASSUME Typed, NEW p \in Procs, NEW at \in PCs, NEW w \in Work,
           Goto(p, at), SetWork(p, w),
           at \in {"seed", "add", "record", "mark", "remove", "unshare"}
              => w.item \in Items,
           at \in {"add", "record"} => w.hash \in Hashes
    PROVE  pc' \in [Procs -> PCs] /\ work' \in [Procs -> Work] /\ InHand'
<1>1. pc' \in [Procs -> PCs] /\ work' \in [Procs -> Work]
  BY DEF Goto, SetWork, Typed, TypeOK
<1>2. \A q \in Procs : /\ pc'[q] = IF q = p THEN at ELSE pc[q]
                       /\ work'[q] = IF q = p THEN w ELSE work[q]
  BY DEF Goto, SetWork, Typed, TypeOK
<1> QED
  BY <1>1, <1>2 DEF InHand, Typed

\* The same with its work left alone.
LEMMA GotoTyped ==
    ASSUME Typed, NEW p \in Procs, NEW at \in PCs, Goto(p, at), work' = work,
           at \in {"seed", "add", "record", "mark", "remove", "unshare"}
              => work[p].item \in Items,
           at \in {"add", "record"} => work[p].hash \in Hashes
    PROVE  pc' \in [Procs -> PCs] /\ InHand'
<1>1. pc' \in [Procs -> PCs]
  BY DEF Goto, Typed, TypeOK
<1>2. \A q \in Procs : pc'[q] = IF q = p THEN at ELSE pc[q]
  BY DEF Goto, Typed, TypeOK
<1> QED
  BY <1>1, <1>2 DEF InHand, Typed

LEMMA SeenPut ==
    ASSUME Typed, NEW p \in Procs, NEW s \in Seen, SetSeen(p, s)
    PROVE  seen' \in [Procs -> Seen]
BY DEF SetSeen, Typed, TypeOK

LEMMA ReadingTyped ==
    ASSUME Typed, NEW p \in Procs, StartReading(p)
    PROVE  /\ pc' \in [Procs -> PCs] /\ seen' \in [Procs -> Seen]
           /\ work' \in [Procs -> Work] /\ gone' \in [Procs -> SUBSET Items]
           /\ InHand'
<1>1. [NothingSeen EXCEPT !.todo = Reads] \in Seen
  BY EmptyTyped DEF NothingSeen, Seen
<1>2. pc' \in [Procs -> PCs] /\ work' \in [Procs -> Work] /\ InHand'
  BY EmptyTyped, MoveTyped DEF StartReading, PCs
<1>3. seen' \in [Procs -> Seen]
  BY <1>1, SeenPut DEF StartReading
<1>4. gone' \in [Procs -> SUBSET Items]
  BY DEF StartReading, Typed, TypeOK
<1> QED
  BY <1>2, <1>3, <1>4

LEMMA EndTyped ==
    ASSUME Typed, NEW p \in Procs, EndPass(p)
    PROVE  /\ pc' \in [Procs -> PCs] /\ seen' \in [Procs -> Seen]
           /\ work' \in [Procs -> Work] /\ gone' \in [Procs -> SUBSET Items]
           /\ InHand'
<1>1. pc' \in [Procs -> PCs] /\ work' \in [Procs -> Work] /\ InHand'
  BY EmptyTyped, MoveTyped DEF EndPass, PCs
<1>2. seen' \in [Procs -> Seen]
  BY EmptyTyped, SeenPut DEF EndPass
<1>3. gone' \in [Procs -> SUBSET Items]
  BY DEF EndPass, Typed, TypeOK
<1> QED
  BY <1>1, <1>2, <1>3

LEMMA NextTyped ==
    ASSUME Typed, NEW p \in Procs, NextItem(p)
    PROVE  pc' \in [Procs -> PCs] /\ work' \in [Procs -> Work] /\ InHand'
<1>1. work[p] \in Work
  BY DEF Typed, TypeOK
<1>2. [work[p] EXCEPT !.item = NoItem, !.hash = NoHash, !.created = FALSE] \in Work
  BY <1>1 DEF Work
<1> QED
  BY <1>2, MoveTyped DEF NextItem, PCs

LEMMA UnshareTyped ==
    ASSUME Typed, NEW p \in Procs, NEW i \in Items,
           NEW n \in {"share", "idle", "read"}, BeginUnshare(p, i, n)
    PROVE  pc' \in [Procs -> PCs] /\ work' \in [Procs -> Work] /\ InHand'
<1> DEFINE w == [work[p] EXCEPT !.queue = work[p].queue \ {i},
                                !.stale = work[p].stale \ {i},
                                !.item = i, !.next = n]
<1>1. work[p] \in Work
  BY DEF Typed, TypeOK
<1>2. w \in Work
  BY <1>1 DEF Work
<1>3. w.item = i
  BY <1>1 DEF Work
<1>4. Goto(p, "remove") /\ SetWork(p, w)
  BY DEF BeginUnshare
<1> QED
  BY <1>2, <1>3, <1>4, MoveTyped DEF PCs

LEMMA StepTyped == Typed /\ [Next]_vars => Typed'
<1> SUFFICES ASSUME Typed, [Next]_vars PROVE Typed'
  OBVIOUS
<1>1. ASSUME NEW p \in Procs, StartPass(p) PROVE Typed'
  BY <1>1, ReadingTyped DEF StartPass, Typed, TypeOK, library
<1>2. ASSUME NEW p \in Procs, NEW i \in Items, NEW n \in {"idle", "read"}, ActOn(p, i, n)
      PROVE  Typed'
  <2>1. rows[i] \in Row /\ NothingSeen \in Seen /\ NothingSeen.known \in [Items -> Row]
    BY EmptyTyped DEF Typed, TypeOK, NothingSeen
  <2>2. [NothingSeen EXCEPT !.known = [NothingSeen.known EXCEPT ![i] = rows[i]]] \in Seen
    BY <2>1 DEF Seen
  <2>3. seen' \in [Procs -> Seen]
    BY <1>2, <2>2, SeenPut DEF ActOn
  <2>4. pc' \in [Procs -> PCs] /\ work' \in [Procs -> Work] /\ InHand'
    BY <1>2, UnshareTyped DEF ActOn
  <2> QED
    BY <1>2, <2>3, <2>4 DEF ActOn, Typed, TypeOK, library, history
<1>3. ASSUME NEW p \in Procs, NEW s \in Sources, discover(p, s) PROVE Typed'
  <2>1. seen[p] \in Seen
    BY DEF Typed, TypeOK
  <2>2. ASSUME NEW items \in SUBSET Items, NEW ok \in BOOLEAN, NEW whole \in BOOLEAN,
               Answer(p, s, items, ok, whole)
        PROVE  seen' \in [Procs -> Seen]
    <3> DEFINE a == seen[p].scanned \cup (IF ok THEN {s} ELSE {})
               b == seen[p].withdrawable \cup (IF whole THEN {s} ELSE {})
               r == [seen[p] EXCEPT !.todo = seen[p].todo \ {s},
                                    !.found = seen[p].found \cup items,
                                    !.scanned = a, !.withdrawable = b]
    <3>1. a \in SUBSET Sources /\ b \in SUBSET Sources
      BY <2>1 DEF Seen
    <3>2. r \in Seen
      <4> HIDE DEF a, b
      <4> QED BY <2>1, <3>1 DEF Seen
    <3>3. SetSeen(p, r)
      BY <2>2 DEF Answer
    <3> QED
      BY <3>2, <3>3, SeenPut
  <2>3. seen' \in [Procs -> Seen]
    BY <1>3, <2>2 DEF discover
  <2> QED
    BY <1>3, <2>3 DEF discover, Typed, TypeOK, InHand, library, history
<1>4. ASSUME NEW p \in Procs, ReadList(p) PROVE Typed'
  <2> DEFINE now == {h \in Hashes : client[h] # "absent"}
             r == [seen[p] EXCEPT !.todo = seen[p].todo \ {"list"},
                                  !.listed = now, !.covering = now \ moved]
  <2>1. seen[p] \in Seen
    BY DEF Typed, TypeOK
  <2>2. r \in Seen
    BY <2>1 DEF Seen
  <2>3. SetSeen(p, r)
    BY <1>4 DEF ReadList
  <2>4. seen' \in [Procs -> Seen]
    BY <2>2, <2>3, SeenPut
  <2> QED
    BY <1>4, <2>4 DEF ReadList, Typed, TypeOK, InHand, library, history
<1>5. ASSUME NEW p \in Procs, ReadRows(p) PROVE Typed'
  <2> DEFINE r == [seen[p] EXCEPT !.todo = seen[p].todo \ {"rows"}, !.known = rows]
  <2>1. seen[p] \in Seen /\ rows \in [Items -> Row] /\ until \in [Items -> 1 .. Never]
    BY DEF Typed, TypeOK
  <2>2. r \in Seen
    BY <2>1 DEF Seen
  <2>3. SetSeen(p, r)
    BY <1>5 DEF ReadRows
  <2>4. seen' \in [Procs -> Seen]
    BY <2>2, <2>3, SeenPut
  <2> QED
    BY <1>5, <2>4 DEF ReadRows, Typed, TypeOK, InHand, library, history
<1>e. ASSUME NEW p \in Procs, ReadEnds(p) PROVE Typed'
  <2> DEFINE r == [seen[p] EXCEPT !.todo = seen[p].todo \ {"ends"}, !.ends = until]
  <2>1. seen[p] \in Seen /\ until \in [Items -> 1 .. Never]
    BY DEF Typed, TypeOK
  <2>2. r \in Seen
    BY <2>1 DEF Seen
  <2>3. SetSeen(p, r)
    BY <1>e DEF ReadEnds
  <2>4. seen' \in [Procs -> Seen]
    BY <2>2, <2>3, SeenPut
  <2> QED
    BY <1>e, <2>4 DEF ReadEnds, Typed, TypeOK, InHand, library, history
<1>6. ASSUME NEW p \in Procs, BailOut(p) PROVE Typed'
  BY <1>6, EndTyped DEF BailOut, Typed, TypeOK, library
<1>7. ASSUME NEW p \in Procs, BeginItems(p) PROVE Typed'
  <2> DEFINE s == seen[p]
             queue == s.found \ Unchanged(s)
             l == IF queue \ Ended(s) = {} THEN {} ELSE s.listed
             c == IF queue \ Ended(s) = {} THEN {} ELSE s.covering
             k == [i \in Items |-> IF i \in queue \cup Stale(s)
                                   THEN s.known[i] ELSE NoRow]
             r == [NothingSeen EXCEPT !.listed = l, !.covering = c, !.known = k]
             w == [work[p] EXCEPT !.queue = queue, !.ended = Ended(s) \cap queue,
                                  !.stale = Stale(s)]
  <2>1. seen[p] \in Seen /\ work[p] \in Work
    BY DEF Typed, TypeOK
  <2>2. /\ queue \in SUBSET Items /\ Ended(s) \in SUBSET Items
        /\ Stale(s) \in SUBSET Items
    BY <2>1 DEF Seen, Ended, Stale
  <2>3. l \in SUBSET Hashes /\ c \in SUBSET Hashes /\ k \in [Items -> Row]
    BY <2>1, EmptyTyped DEF Seen
  <2>4. r \in Seen
    <3> HIDE DEF l, c, k
    <3> QED BY <2>3, EmptyTyped DEF Seen
  <2>5. w \in Work
    <3> HIDE DEF queue, s
    <3> QED BY <2>1, <2>2 DEF Work
  <2>6. SetSeen(p, r) /\ SetWork(p, w) /\ Goto(p, "share")
    BY <1>7 DEF BeginItems
  <2>7. seen' \in [Procs -> Seen]
    <3> HIDE DEF r
    <3> QED BY <2>4, <2>6, SeenPut
  <2>8. pc' \in [Procs -> PCs] /\ work' \in [Procs -> Work] /\ InHand'
    <3> HIDE DEF w
    <3> QED BY <2>5, <2>6, MoveTyped DEF PCs
  <2> QED
    BY <1>7, <2>7, <2>8 DEF BeginItems, Typed, TypeOK, library, history
<1>8. ASSUME NEW p \in Procs, NEW i \in Items, EndShare(p, i) \/ Withdraw(p, i)
      PROVE  Typed'
  BY <1>8, UnshareTyped DEF EndShare, Withdraw, Typed, TypeOK, library, history
<1>9. ASSUME NEW p \in Procs, NEW i \in Items, BeginShare(p, i) PROVE Typed'
  <2> DEFINE w == [work[p] EXCEPT !.queue = work[p].queue \ {i}, !.item = i]
  <2>1. work[p] \in Work
    BY DEF Typed, TypeOK
  <2>2. w \in Work /\ w.item = i
    BY <2>1 DEF Work
  <2>3. SetWork(p, w)
    BY <1>9 DEF BeginShare
  <2>4. pc' \in [Procs -> PCs] /\ work' \in [Procs -> Work] /\ InHand'
    <3> HIDE DEF w
    <3> QED BY <1>9, <2>2, <2>3, MoveTyped DEF BeginShare, PCs
  <2>5. upsert(rows[i]) \in Row
    BY WritesTyped DEF Typed, TypeOK
  <2>6. rows' \in [Items -> Row]
    BY <1>9, <2>5 DEF BeginShare, Typed, TypeOK
  <2> QED
    BY <1>9, <2>4, <2>6 DEF BeginShare, Typed, TypeOK, library, history
<1>10. ASSUME NEW p \in Procs, NEW offered \in BOOLEAN, seed(p, offered) PROVE Typed'
  <2>1. work[p] \in Work /\ work[p].item \in Items
    BY <1>10 DEF seed, Typed, TypeOK, InHand
  <2>2. ASSUME NEW h \in Hashes, NEW c \in BOOLEAN, NEW at \in {"add", "record"},
               Settle(p, h, c, at)
        PROVE  pc' \in [Procs -> PCs] /\ work' \in [Procs -> Work] /\ InHand'
    <3> DEFINE w == [work[p] EXCEPT !.hash = h, !.created = c]
    <3>1. w \in Work
      BY <2>1 DEF Work
    <3>2. w.item = work[p].item /\ w.hash = h
      BY <2>1 DEF Work
    <3>3. SetWork(p, w) /\ Goto(p, at)
      BY <2>2 DEF Settle
    <3>4. at \in PCs
      BY DEF PCs
    <3> HIDE DEF w
    <3> QED
      BY <2>1, <3>1, <3>2, <3>3, <3>4, MoveTyped
  <2> DEFINE i == work[p].item
             built == <<"built", FileOf[i], content[FileOf[i]]>>
  <2>3. catalog_matches(i, offered) \subseteq Hashes /\ built \in Hashes
    BY <2>1, ItemsAssumption DEF catalog_matches, Hashes, Typed, TypeOK
  <2>4. (\A e \in Covers(seen[p], i) : e \subseteq Hashes) /\ cache \subseteq Hashes
        /\ seen[p].listed \subseteq Hashes
    BY DEF Covers, find_existing, Typed, TypeOK, Seen
  <2>5. ASSUME NEW h \in Hashes, adopt(p, h)
        PROVE  /\ pc' \in [Procs -> PCs] /\ work' \in [Procs -> Work] /\ InHand'
               /\ cache' \subseteq Hashes
    BY <2>2, <2>4, <2>5 DEF adopt
  <2>6. /\ pc' \in [Procs -> PCs] /\ work' \in [Procs -> Work] /\ InHand'
        /\ cache' \subseteq Hashes
    BY <1>10, <2>2, <2>3, <2>4, <2>5 DEF seed, reuse_cached, fetch_from_friend
  <2> QED
    BY <1>10, <2>6 DEF seed, Typed, TypeOK, library, history
<1>11. ASSUME NEW p \in Procs, SeedFails(p) \/ AddDuplicate(p) \/ AddFails(p)
       PROVE  Typed'
  <2>1. work[p].item \in Items /\ (pc[p] = "add" => work[p].hash \in Hashes)
    BY <1>11 DEF SeedFails, AddDuplicate, AddFails, Typed, InHand
  <2>2. pc' \in [Procs -> PCs] /\ InHand'
    BY <1>11, <2>1, GotoTyped DEF SeedFails, AddDuplicate, AddFails, PCs
  <2> QED
    BY <1>11, <2>2
    DEF SeedFails, AddDuplicate, AddFails, Typed, TypeOK, library, history
<1>12. ASSUME NEW p \in Procs, AddTorrent(p) PROVE Typed'
  <2>1. work[p].item \in Items /\ work[p].hash \in Hashes
    BY <1>12 DEF AddTorrent, Typed, InHand
  <2>2. pc' \in [Procs -> PCs] /\ InHand'
    BY <1>12, <2>1, GotoTyped DEF AddTorrent, PCs
  <2>3. /\ client' \in [Hashes -> Adders]
        /\ moved' \subseteq Hashes /\ added' \subseteq Hashes
    BY <1>12, <2>1 DEF AddTorrent, Typed, TypeOK, Adders
  <2> QED
    BY <1>12, <2>2, <2>3 DEF AddTorrent, Typed, TypeOK, library
<1>13. ASSUME NEW p \in Procs, ToMark(p), work[p].item \in Items
       PROVE  pc' \in [Procs -> PCs] /\ work' \in [Procs -> Work] /\ InHand'
  BY <1>13, GotoTyped DEF ToMark, PCs, Typed, TypeOK
<1>14. ASSUME NEW p \in Procs, Record(p) PROVE Typed'
  <2>1. work[p].item \in Items /\ work[p].hash \in Hashes
    BY <1>14 DEF Record, Typed, InHand
  <2>2. rows[work[p].item] \in Row /\ work[p].created \in BOOLEAN
    BY <2>1 DEF Typed, TypeOK, Work
  <2>3. set_seeding(rows[work[p].item], work[p].hash, work[p].created) \in Row
    BY <2>1, <2>2, WritesTyped
  <2>4. rows' \in [Items -> Row]
    BY <1>14, <2>3 DEF Record, Typed, TypeOK
  <2>5. pc' \in [Procs -> PCs] /\ work' \in [Procs -> Work] /\ InHand'
    BY <1>13, <1>14, <2>1, NextTyped DEF Record
  <2> QED
    BY <1>14, <2>4, <2>5 DEF Record, Typed, TypeOK, library, history
<1>15. ASSUME NEW p \in Procs, NEW s \in States, pc[p] \in {"mark", "unshare"},
              \/ rows' = [rows EXCEPT ![work[p].item] = set_state(@, s)]
              \/ rows' = rows
       PROVE  rows' \in [Items -> Row]
  <2>1. work[p].item \in Items
    BY <1>15 DEF Typed, InHand
  <2>2. set_state(rows[work[p].item], s) \in Row
    BY <2>1, WritesTyped DEF Typed, TypeOK
  <2> QED
    BY <1>15, <2>2 DEF Typed, TypeOK
<1>16. ASSUME NEW p \in Procs, MarkFailed(p) PROVE Typed'
  <2>1. rows' \in [Items -> Row]
    BY <1>15, <1>16 DEF MarkFailed, States
  <2> QED
    BY <1>16, <2>1, NextTyped DEF MarkFailed, Typed, TypeOK, library, history
<1>17. ASSUME NEW p \in Procs, RemoveTorrent(p) PROVE Typed'
  <2> DEFINE r == seen[p].known[work[p].item]
  <2>1. work[p].item \in Items
    BY <1>17 DEF RemoveTorrent, Typed, InHand
  <2>2. r \in Row
    BY <2>1 DEF Typed, TypeOK, Seen
  <2>3. pc' \in [Procs -> PCs] /\ InHand'
    BY <1>17, <2>1, GotoTyped DEF RemoveTorrent, PCs
  <2>4. Owns(r) => r.hash \in Hashes
    BY <2>2 DEF Owns, Row
  <2>5. client' \in [Hashes -> Adders] /\ moved' \subseteq Hashes
    BY <1>17, <2>4 DEF RemoveTorrent, Typed, TypeOK, Adders
  <2> QED
    BY <1>17, <2>3, <2>5 DEF RemoveTorrent, Typed, TypeOK, library
<1>18. ASSUME NEW p \in Procs, MarkUnshared(p) PROVE Typed'
  <2>1. rows' \in [Items -> Row]
    BY <1>15, <1>18 DEF MarkUnshared, States
  <2>2. /\ pc' \in [Procs -> PCs] /\ work' \in [Procs -> Work] /\ InHand'
        /\ seen' \in [Procs -> Seen] /\ gone' \in [Procs -> SUBSET Items]
    BY <1>18, NextTyped, EndTyped DEF MarkUnshared, Typed, TypeOK
  <2> QED
    BY <1>18, <2>1, <2>2 DEF MarkUnshared, Typed, TypeOK, library
<1>19. ASSUME NEW p \in Procs, ResetRow(p) PROVE Typed'
  <2>1. work[p].item \in Items
    BY <1>19 DEF ResetRow, Typed, InHand
  <2>2. reset_for_rebuild(rows[work[p].item]) \in Row
    BY <2>1, WritesTyped DEF Typed, TypeOK
  <2>3. rows' \in [Items -> Row]
    BY <1>19, <2>2 DEF ResetRow, Typed, TypeOK
  <2>4. /\ pc' \in [Procs -> PCs] /\ work' \in [Procs -> Work] /\ InHand'
        /\ seen' \in [Procs -> Seen] /\ gone' \in [Procs -> SUBSET Items]
    BY <1>19, ReadingTyped, EndTyped DEF ResetRow
  <2> QED
    BY <1>19, <2>3, <2>4 DEF ResetRow, Typed, TypeOK, library
<1>20. ASSUME NEW p \in Procs, FinishPass(p) \/ Cancel(p) PROVE Typed'
  BY <1>20, EndTyped DEF FinishPass, Cancel, Typed, TypeOK, library
<1>21. ASSUME NEW i \in Items, ToggleTag(i) PROVE Typed'
  BY <1>21 DEF ToggleTag, Typed, TypeOK, InHand
<1>22. ASSUME NEW i \in Items, set_share_until(i) PROVE Typed'
  BY <1>22 DEF set_share_until, Typed, TypeOK, InHand, history
<1>23. ASSUME NEW f \in Files, ChangeFile(f) PROVE Typed'
  BY <1>23 DEF ChangeFile, Typed, TypeOK, InHand, history
<1>24. ASSUME NEW h \in Hashes, OperatorTorrent(h) PROVE Typed'
  BY <1>24 DEF OperatorTorrent, Typed, TypeOK, InHand, library, history, Adders
<1>25. ASSUME NextDay PROVE Typed'
  BY <1>25, ProcsAssumption DEF NextDay, Typed, TypeOK, InHand, history
<1>26. ASSUME CalmDown PROVE Typed'
  BY <1>26 DEF CalmDown, Typed, TypeOK, InHand, library, history
<1>27. ASSUME UNCHANGED vars PROVE Typed'
  BY <1>27 DEF vars, Typed, TypeOK, InHand, library, history
<1> QED
  BY <1>1, <1>2, <1>3, <1>4, <1>5, <1>e, <1>6, <1>7, <1>8, <1>9, <1>10, <1>11, <1>12,
     <1>14, <1>16, <1>17, <1>18, <1>19, <1>20, <1>21, <1>22, <1>23, <1>24, <1>25,
     <1>26, <1>27
  DEF Next, Request, unshare, rebuild, Step, Environment

\* Every reachable state is well typed, whatever the interleaving of passes,
\* handlers, failures, crashes and changes by the operator.
THEOREM TypeCorrect == Spec => []TypeOK
<1>1. Spec => []Typed
  BY InitTyped, StepTyped, PTL DEF Spec
<1>2. Typed => TypeOK
  BY DEF Typed
<1> QED
  BY <1>1, <1>2, PTL

-----------------------------------------------------------------------------
(* Who owns a torrent. *)

IsOwn(r) == Owns(r) => r.hash \in added

\* Rows, every pass's copy of them, and the outcome of an add not yet recorded.
OwnRows == \A i \in Items : IsOwn(rows[i])
OwnSeen == \A p \in Procs : \A i \in Items : IsOwn(seen[p].known[i])
OwnWork == \A p \in Procs :
               pc[p] = "record" /\ work[p].created => work[p].hash \in added
Owned == OwnRows /\ OwnSeen /\ OwnWork

LEMMA OwnPut ==
    ASSUME Typed, OwnSeen, NEW p \in Procs, NEW s \in Seen, SetSeen(p, s),
           added \subseteq added', \A i \in Items : IsOwn(s.known[i])
    PROVE  OwnSeen'
<1>1. \A q \in Procs : seen'[q] = IF q = p THEN s ELSE seen[q]
  BY DEF SetSeen, Typed, TypeOK
<1> QED
  BY <1>1 DEF OwnSeen, IsOwn, Owns

LEMMA OwnMove ==
    ASSUME Typed, OwnWork, NEW p \in Procs, NEW at \in PCs, Goto(p, at),
           added \subseteq added',
           \A q \in Procs : q # p => work'[q] = work[q],
           at = "record" /\ work'[p].created => work'[p].hash \in added'
    PROVE  OwnWork'
<1>1. \A q \in Procs : pc'[q] = IF q = p THEN at ELSE pc[q]
  BY DEF Goto, Typed, TypeOK
<1> QED
  BY <1>1 DEF OwnWork

LEMMA NothingOwn == \A i \in Items : IsOwn(NothingSeen.known[i])
BY DEF NothingSeen, NoRow, IsOwn, Owns

LEMMA OwnReading ==
    ASSUME Typed, Owned, NEW p \in Procs, StartReading(p) \/ EndPass(p),
           added' = added
    PROVE  OwnSeen' /\ OwnWork'
<1>1. OwnWork'
  <2>1. \A q \in Procs : q # p => work'[q] = work[q]
    BY DEF StartReading, EndPass, SetWork, Typed, TypeOK
  <2> QED
    BY <2>1, OwnMove DEF StartReading, EndPass, PCs, Owned
<1>2. CASE EndPass(p)
  <2>1. OwnSeen'
    BY <1>2, NothingOwn, EmptyTyped, OwnPut DEF EndPass, Owned
  <2> QED
    BY <1>1, <2>1
<1>3. CASE StartReading(p)
  <2> DEFINE s == [NothingSeen EXCEPT !.todo = Reads]
  <2>1. s \in Seen /\ s.known = NothingSeen.known
    BY EmptyTyped DEF Seen
  <2>2. SetSeen(p, s)
    BY <1>3 DEF StartReading
  <2>3. OwnSeen'
    <3> HIDE DEF s
    <3> QED BY <2>1, <2>2, NothingOwn, OwnPut DEF Owned
  <2> QED
    BY <1>1, <2>3
<1> QED
  BY <1>2, <1>3

LEMMA InitOwned == Init => Owned
BY DEF Init, Owned, OwnRows, OwnSeen, OwnWork, IsOwn, Owns, NoRow, NothingSeen

\* A pass never moves on to "record" with a torrent it calls its own before
\* an add has put it there: the one client answer that would is excluded.
LEMMA StepOwned ==
    ASSUME Backend = "qbit", Typed, Owned, [Next]_vars
    PROVE  Owned'
<1> USE DEF Owned
<1>1. ASSUME NEW p \in Procs, StartPass(p) \/ BailOut(p) \/ FinishPass(p) \/ Cancel(p)
      PROVE  Owned'
  BY <1>1, OwnReading DEF StartPass, BailOut, FinishPass, Cancel, OwnRows, IsOwn
<1>2. ASSUME NEW p \in Procs, NEW i \in Items, NEW n \in {"share", "idle", "read"},
             BeginUnshare(p, i, n), added' = added
      PROVE  OwnWork'
  <2>1. \A q \in Procs : q # p => work'[q] = work[q]
    BY <1>2 DEF BeginUnshare, SetWork, Typed, TypeOK
  <2> QED
    BY <1>2, <2>1, OwnMove DEF BeginUnshare, PCs
<1>3. ASSUME NEW p \in Procs, NEW i \in Items, NEW n \in {"idle", "read"}, ActOn(p, i, n)
      PROVE  Owned'
  <2> DEFINE k == [NothingSeen.known EXCEPT ![i] = rows[i]]
             s == [NothingSeen EXCEPT !.known = k]
  <2>1. NothingSeen.known \in [Items -> Row] /\ rows[i] \in Row
    BY EmptyTyped DEF Seen, Typed, TypeOK
  <2>2. k \in [Items -> Row] /\ \A j \in Items : IsOwn(k[j])
    BY <2>1, NothingOwn DEF OwnRows
  <2>3. s \in Seen /\ s.known = k
    <3> HIDE DEF k
    <3> QED BY <2>2, EmptyTyped DEF Seen
  <2>4. SetSeen(p, s)
    BY <1>3 DEF ActOn
  <2>5. OwnSeen'
    <3> HIDE DEF s, k
    <3> QED BY <1>3, <2>2, <2>3, <2>4, OwnPut DEF ActOn, history
  <2>6. OwnWork'
    BY <1>2, <1>3 DEF ActOn, history
  <2> QED
    BY <1>3, <2>5, <2>6 DEF ActOn, history, OwnRows, IsOwn
<1>4. ASSUME NEW p \in Procs, NEW s \in Seen, SetSeen(p, s),
             s.known = seen[p].known \/ s.known = rows,
             UNCHANGED <<rows, pc, work, added>>
      PROVE  Owned'
  <2>1. \A i \in Items : IsOwn(s.known[i])
    BY <1>4 DEF OwnSeen, OwnRows
  <2>2. OwnSeen'
    BY <1>4, <2>1, OwnPut
  <2> QED
    BY <1>4, <2>2 DEF OwnRows, OwnWork, IsOwn
<1>5. ASSUME NEW p \in Procs, NEW s \in Sources, discover(p, s) PROVE Owned'
  <2>1. ASSUME NEW items, NEW ok, NEW whole, Answer(p, s, items, ok, whole)
        PROVE  OwnSeen'
    <3>1. seen[p] \in Seen
      BY DEF Typed, TypeOK
    <3>2. \A q \in Procs : seen'[q].known = seen[q].known
      BY <2>1, <3>1 DEF Answer, SetSeen, Typed, TypeOK, Seen
    <3> QED
      BY <1>5, <3>2 DEF OwnSeen, IsOwn, discover, history
  <2>2. OwnSeen'
    BY <1>5, <2>1 DEF discover
  <2> QED
    BY <1>5, <2>2 DEF discover, OwnRows, OwnWork, IsOwn, history
<1>6. ASSUME NEW p \in Procs, ReadList(p) PROVE Owned'
  <2> DEFINE now == {h \in Hashes : client[h] # "absent"}
             s == [seen[p] EXCEPT !.todo = seen[p].todo \ {"list"},
                                  !.listed = now, !.covering = now \ moved]
  <2>1. seen[p] \in Seen
    BY DEF Typed, TypeOK
  <2>2. s \in Seen /\ s.known = seen[p].known
    BY <2>1 DEF Seen
  <2>3. SetSeen(p, s)
    BY <1>6 DEF ReadList
  <2> HIDE DEF s
  <2> QED
    BY <1>4, <1>6, <2>2, <2>3 DEF ReadList, history
<1>7. ASSUME NEW p \in Procs, ReadRows(p) PROVE Owned'
  <2> DEFINE s == [seen[p] EXCEPT !.todo = seen[p].todo \ {"rows"}, !.known = rows]
  <2>1. seen[p] \in Seen /\ rows \in [Items -> Row]
    BY DEF Typed, TypeOK
  <2>2. s \in Seen /\ s.known = rows
    BY <2>1 DEF Seen
  <2>3. SetSeen(p, s)
    BY <1>7 DEF ReadRows
  <2> HIDE DEF s
  <2> QED
    BY <1>4, <1>7, <2>2, <2>3 DEF ReadRows, history
<1>e. ASSUME NEW p \in Procs, ReadEnds(p) PROVE Owned'
  <2> DEFINE s == [seen[p] EXCEPT !.todo = seen[p].todo \ {"ends"}, !.ends = until]
  <2>1. seen[p] \in Seen /\ until \in [Items -> 1 .. Never]
    BY DEF Typed, TypeOK
  <2>2. s \in Seen /\ s.known = seen[p].known
    BY <2>1 DEF Seen
  <2>3. SetSeen(p, s)
    BY <1>e DEF ReadEnds
  <2> HIDE DEF s
  <2> QED
    BY <1>4, <1>e, <2>2, <2>3 DEF ReadEnds, history
<1>8. ASSUME NEW p \in Procs, BeginItems(p) PROVE Owned'
  <2>1. \A q \in Procs, i \in Items :
            seen'[q].known[i] = seen[q].known[i] \/ seen'[q].known[i] = NoRow
    BY <1>8, EmptyTyped DEF BeginItems, SetSeen, Typed, TypeOK, Seen
  <2>2. OwnSeen'
    BY <1>8, <2>1 DEF BeginItems, history, OwnSeen, IsOwn, Owns, NoRow
  <2>3. \A q \in Procs : q # p => work'[q] = work[q]
    BY <1>8 DEF BeginItems, SetWork, Typed, TypeOK
  <2>4. OwnWork'
    BY <1>8, <2>3, OwnMove DEF BeginItems, PCs, history
  <2> QED
    BY <1>8, <2>2, <2>4 DEF BeginItems, OwnRows, IsOwn, history
<1>9. ASSUME NEW p \in Procs, NEW i \in Items, EndShare(p, i) \/ Withdraw(p, i)
      PROVE  Owned'
  <2>1. OwnWork'
    BY <1>2, <1>9 DEF EndShare, Withdraw, history
  <2> QED
    BY <1>9, <2>1 DEF EndShare, Withdraw, history, OwnRows, OwnSeen, IsOwn
<1>10. ASSUME NEW p \in Procs, NEW i \in Items, BeginShare(p, i) PROVE Owned'
  <2>1. rows[i] \in Row /\ rows \in [Items -> Row]
    BY DEF Typed, TypeOK
  <2>2. upsert(rows[i]).hash = rows[i].hash /\ upsert(rows[i]).created = rows[i].created
    BY <2>1 DEF upsert, Row
  <2>3. \A j \in Items : rows'[j].hash = rows[j].hash /\ rows'[j].created = rows[j].created
    BY <1>10, <2>1, <2>2 DEF BeginShare
  <2>4. OwnRows'
    BY <1>10, <2>3 DEF BeginShare, history, OwnRows, IsOwn, Owns
  <2>5. \A q \in Procs : q # p => work'[q] = work[q]
    BY <1>10 DEF BeginShare, SetWork, Typed, TypeOK
  <2>6. OwnWork'
    BY <1>10, <2>5, OwnMove DEF BeginShare, PCs, history
  <2> QED
    BY <1>10, <2>4, <2>6 DEF BeginShare, OwnSeen, IsOwn, history
<1>11. ASSUME NEW p \in Procs, NEW offered \in BOOLEAN, seed(p, offered) PROVE Owned'
  <2>1. ASSUME NEW h, NEW c \in BOOLEAN, NEW at \in {"add", "record"},
               Settle(p, h, c, at), at = "record" => ~c
        PROVE  OwnWork'
    <3>1. \A q \in Procs : q # p => work'[q] = work[q]
      BY <2>1 DEF Settle, SetWork, Typed, TypeOK
    <3>2. work'[p].created = c
      BY <2>1 DEF Settle, SetWork, Typed, TypeOK, Work
    <3>3. added' = added /\ at \in PCs
      BY <1>11 DEF seed, history, PCs
    <3> QED
      BY <2>1, <3>1, <3>2, <3>3, OwnMove DEF Settle
  <2>2. OwnWork'
    BY <1>11, <2>1 DEF seed, adopt
  <2> QED
    BY <1>11, <2>2 DEF seed, history, OwnRows, OwnSeen, IsOwn
<1>12. ASSUME NEW p \in Procs,
              SeedFails(p) \/ AddDuplicate(p) \/ AddFails(p)
       PROVE  Owned'
  <2>1. OwnWork'
    BY <1>12, OwnMove DEF SeedFails, AddDuplicate, AddFails, PCs, history
  <2> QED
    BY <1>12, <2>1
    DEF SeedFails, AddDuplicate, AddFails, history, OwnRows, OwnSeen, IsOwn
<1>13. ASSUME NEW p \in Procs, AddTorrent(p) PROVE Owned'
  <2>1. OwnWork'
    BY <1>13, OwnMove DEF AddTorrent, PCs
  <2> QED
    BY <1>13, <2>1 DEF AddTorrent, OwnRows, OwnSeen, IsOwn
<1>14. ASSUME NEW p \in Procs, NextItem(p), added' = added PROVE OwnWork'
  <2>1. \A q \in Procs : q # p => work'[q] = work[q]
    BY <1>14 DEF NextItem, SetWork, Typed, TypeOK
  <2> QED
    BY <1>14, <2>1, OwnMove DEF NextItem, PCs
<1>15. ASSUME NEW p \in Procs, Record(p) PROVE Owned'
  <2>1. work[p].created => work[p].hash \in added
    BY <1>15 DEF Record, OwnWork
  <2>2. OwnRows'
    BY <1>15, <2>1
    DEF Record, set_seeding, history, OwnRows, IsOwn, Owns, Typed, TypeOK, Row
  <2>3. OwnWork'
    BY <1>14, <1>15, OwnMove DEF Record, ToMark, PCs, history
  <2> QED
    BY <1>15, <2>2, <2>3 DEF Record, OwnSeen, IsOwn, history
<1>16. ASSUME NEW p \in Procs, NEW i, NEW s, rows' = [rows EXCEPT ![i] = set_state(@, s)],
              added' = added
       PROVE  OwnRows'
  BY <1>16 DEF set_state, OwnRows, IsOwn, Owns, Typed, TypeOK, Row
<1>17. ASSUME NEW p \in Procs, MarkFailed(p) PROVE Owned'
  <2>1. OwnRows'
    BY <1>16, <1>17 DEF MarkFailed, history, OwnRows, IsOwn
  <2> QED
    BY <1>14, <1>17, <2>1 DEF MarkFailed, history, OwnSeen, IsOwn
<1>18. ASSUME NEW p \in Procs, RemoveTorrent(p) PROVE Owned'
  <2>1. OwnWork'
    BY <1>18, OwnMove DEF RemoveTorrent, PCs
  <2> QED
    BY <1>18, <2>1 DEF RemoveTorrent, OwnRows, OwnSeen, IsOwn
<1>19. ASSUME NEW p \in Procs, MarkUnshared(p) PROVE Owned'
  <2>1. OwnRows'
    BY <1>16, <1>19 DEF MarkUnshared, OwnRows, IsOwn
  <2>2. OwnSeen' /\ OwnWork'
    BY <1>14, <1>19, OwnReading DEF MarkUnshared, OwnSeen, IsOwn
  <2> QED
    BY <2>1, <2>2
<1>20. ASSUME NEW p \in Procs, ResetRow(p) PROVE Owned'
  <2>1. OwnRows'
    BY <1>20 DEF ResetRow, reset_for_rebuild, OwnRows, IsOwn, Owns, Typed, TypeOK, Row
  <2> QED
    BY <1>20, <2>1, OwnReading DEF ResetRow
<1>21. ASSUME \/ \E i \in Items : ToggleTag(i) \/ set_share_until(i)
              \/ \E f \in Files : ChangeFile(f)
              \/ \E h \in Hashes : OperatorTorrent(h)
              \/ NextDay \/ CalmDown \/ UNCHANGED vars
       PROVE  Owned'
  <2>1. UNCHANGED <<rows, pc, seen, work, added>>
    BY <1>21 DEF ToggleTag, set_share_until, ChangeFile, OperatorTorrent, NextDay,
                 CalmDown, vars, history
  <2> QED
    BY <2>1 DEF OwnRows, OwnSeen, OwnWork, IsOwn
<1> QED
  BY <1>1, <1>3, <1>5, <1>6, <1>7, <1>e, <1>8, <1>9, <1>10, <1>11, <1>12, <1>13, <1>15,
     <1>17, <1>18, <1>19, <1>20, <1>21
  DEF Next, Request, unshare, rebuild, Step, Environment

\* What sharerr has added is never the operator's afterwards, as long as they
\* do not add it again by hand.
NotTaken == \A h \in added : client[h] # "operator"

LEMMA StepNotTaken ==
    ASSUME ~MayRetake, Typed, NotTaken, [Next]_vars
    PROVE  NotTaken'
<1>1. client \in [Hashes -> Adders] /\ added \subseteq Hashes
  BY DEF Typed, TypeOK
<1>2. ASSUME NEW p \in Procs, AddTorrent(p) PROVE NotTaken'
  BY <1>1, <1>2 DEF AddTorrent, NotTaken
<1>3. ASSUME NEW p \in Procs, RemoveTorrent(p) PROVE NotTaken'
  BY <1>1, <1>3 DEF RemoveTorrent, NotTaken
<1>4. ASSUME NEW h \in Hashes, OperatorTorrent(h) PROVE NotTaken'
  BY <1>1, <1>4 DEF OperatorTorrent, NotTaken, history
<1>5. ASSUME UNCHANGED <<client, added>> PROVE NotTaken'
  BY <1>5 DEF NotTaken
<1>6. ASSUME NEW p \in Procs, Request(p) PROVE UNCHANGED <<client, added>>
  BY <1>6 DEF Request, StartPass, unshare, rebuild, ActOn, history
<1>7. ASSUME NEW p \in Procs, Step(p) \/ Cancel(p)
      PROVE  AddTorrent(p) \/ RemoveTorrent(p) \/ UNCHANGED <<client, added>>
  BY <1>7
  DEF Step, Cancel, discover, ReadList, ReadRows, ReadEnds, BailOut, BeginItems, EndShare,
      BeginShare, Withdraw, seed, SeedFails, AddDuplicate, AddFails, Record, MarkFailed,
      MarkUnshared, ResetRow, FinishPass, history
<1>8. ASSUME \/ \E i \in Items : ToggleTag(i) \/ set_share_until(i)
             \/ \E f \in Files : ChangeFile(f)
             \/ NextDay \/ CalmDown \/ UNCHANGED vars
      PROVE  UNCHANGED <<client, added>>
  BY <1>8 DEF ToggleTag, set_share_until, ChangeFile, NextDay, CalmDown, vars, history
<1> QED
  BY <1>2, <1>3, <1>4, <1>5, <1>6, <1>7, <1>8 DEF Next, Environment

\* unshare_one and prepare_rebuild never remove a torrent that the operator put
\* in qBittorrent, which refuses to add a torrent twice: no interleaving of
\* passes and handlers, no crash, no failure and no copy of a row, however old,
\* leads there.  The operator may add, drop and relocate torrents as they like,
\* but does not put one back by hand that sharerr has added: the row that says
\* created_by_sharerr cannot tell the two apart.
THEOREM OwnershipSafe ==
    ASSUME Backend = "qbit", ~MayRetake
    PROVE  Spec => []RemovesOnlyOwn
<1>1. Owned /\ Typed /\ NotTaken => RemovesOnlyOwn
  BY DEF Owned, OwnSeen, IsOwn, NotTaken, RemovesOnlyOwn, Typed, InHand
<1>2. Typed /\ Owned /\ [Next]_vars => Owned'
  BY StepOwned
<1>3. Typed /\ NotTaken /\ [Next]_vars => NotTaken'
  BY StepNotTaken
<1>4. Init => NotTaken
  BY DEF Init, NotTaken
<1> QED
  BY <1>1, <1>2, <1>3, <1>4, InitOwned, InitTyped, StepTyped, PTL DEF Spec

-----------------------------------------------------------------------------
(* What the feed can serve. *)

\* The cache only grows, so a torrent found in it once stays servable; and what
\* is to be added is never an adoption.
CachedWork ==
    \A p \in Procs :
        /\ pc[p] = "add" => work[p].created
        /\ pc[p] = "record" /\ ~work[p].created => work[p].hash \in cache
Servable == AdoptedServable /\ CachedWork

LEMMA CachedMove ==
    ASSUME Typed, CachedWork, NEW p \in Procs, NEW at \in PCs, Goto(p, at),
           cache \subseteq cache',
           \A q \in Procs : q # p => work'[q] = work[q],
           at = "add" => work'[p].created,
           at = "record" /\ ~work'[p].created => work'[p].hash \in cache'
    PROVE  CachedWork'
<1>1. \A q \in Procs : pc'[q] = IF q = p THEN at ELSE pc[q]
  BY DEF Goto, Typed, TypeOK
<1> QED
  BY <1>1 DEF CachedWork

\* Where a pass goes when it does not go to "record".
LEMMA CachedElsewhere ==
    ASSUME Typed, CachedWork, NEW p \in Procs, cache' = cache,
           \/ StartReading(p) \/ EndPass(p) \/ NextItem(p)
           \/ \E i \in Items, n \in {"share", "idle", "read"} : BeginUnshare(p, i, n)
    PROVE  CachedWork'
<1>1. PICK at \in PCs \ {"add", "record"} : Goto(p, at) /\ \E w : SetWork(p, w)
  BY DEF StartReading, EndPass, NextItem, BeginUnshare, PCs
<1>2. \A q \in Procs : q # p => work'[q] = work[q]
  BY <1>1 DEF SetWork, Typed, TypeOK
<1> QED
  BY <1>1, <1>2, CachedMove

\* A row's hash and owner change only when set_seeding or a rebuild writes them.
LEMMA ServableRows ==
    ASSUME Typed, AdoptedServable, cache \subseteq cache', NEW i,
           \/ rows' = rows
           \/ rows' = [rows EXCEPT ![i] = upsert(@)]
           \/ rows' = [rows EXCEPT ![i] = reset_for_rebuild(@)]
           \/ \E s : rows' = [rows EXCEPT ![i] = set_state(@, s)]
    PROVE  AdoptedServable'
<1> DEFINE Kept(r, t) == (t.hash = r.hash /\ t.created = r.created) \/ t.hash = NoHash
<1>1. rows \in [Items -> Row]
  BY DEF Typed, TypeOK
<1>2. ASSUME NEW r \in Row
      PROVE  /\ Kept(r, upsert(r)) /\ Kept(r, reset_for_rebuild(r))
             /\ \A s : Kept(r, set_state(r, s))
  BY DEF upsert, reset_for_rebuild, set_state, Row
<1>3. \A j \in Items : Kept(rows[j], rows'[j])
  <2> HIDE DEF Kept
  <2>1. \A r : Kept(r, r)
    BY DEF Kept
  <2> QED
    BY <1>1, <1>2, <2>1
<1> QED
  BY <1>3 DEF AdoptedServable

LEMMA StepServable ==
    ASSUME Typed, Servable, [Next]_vars
    PROVE  Servable'
<1> USE DEF Servable
<1>1. ASSUME NEW p \in Procs,
             \/ StartPass(p) \/ BailOut(p) \/ FinishPass(p) \/ Cancel(p)
             \/ ResetRow(p) \/ MarkFailed(p) \/ MarkUnshared(p)
      PROVE  Servable'
  <2>1. cache' = cache
    BY <1>1 DEF StartPass, BailOut, FinishPass, Cancel, ResetRow, MarkFailed,
                MarkUnshared
  <2>2. StartReading(p) \/ EndPass(p) \/ NextItem(p)
    BY <1>1 DEF StartPass, BailOut, FinishPass, Cancel, ResetRow, MarkFailed,
                MarkUnshared
  <2>3. \E i : \/ rows' = rows
               \/ rows' = [rows EXCEPT ![i] = reset_for_rebuild(@)]
               \/ \E s : rows' = [rows EXCEPT ![i] = set_state(@, s)]
    BY <1>1 DEF StartPass, BailOut, FinishPass, Cancel, ResetRow, MarkFailed,
                MarkUnshared
  <2> QED
    BY <2>1, <2>2, <2>3, CachedElsewhere, ServableRows
<1>2. ASSUME NEW p \in Procs, NEW i \in Items,
             \/ EndShare(p, i) \/ Withdraw(p, i)
             \/ \E n \in {"idle", "read"} : ActOn(p, i, n)
      PROVE  Servable'
  <2>1. /\ cache' = cache /\ rows' = rows
        /\ \E n \in {"share", "idle", "read"} : BeginUnshare(p, i, n)
    BY <1>2 DEF EndShare, Withdraw, ActOn
  <2> QED
    BY <2>1, CachedElsewhere DEF AdoptedServable
<1>3. ASSUME NEW p \in Procs, BeginItems(p) PROVE Servable'
  <2>1. \A q \in Procs : q # p => work'[q] = work[q]
    BY <1>3 DEF BeginItems, SetWork, Typed, TypeOK
  <2> QED
    BY <1>3, <2>1, CachedMove DEF BeginItems, PCs, AdoptedServable
<1>4. ASSUME NEW p \in Procs, NEW i \in Items, BeginShare(p, i) PROVE Servable'
  <2>1. \A q \in Procs : q # p => work'[q] = work[q]
    BY <1>4 DEF BeginShare, SetWork, Typed, TypeOK
  <2>2. CachedWork'
    BY <1>4, <2>1, CachedMove DEF BeginShare, PCs
  <2> QED
    BY <1>4, <2>2, ServableRows DEF BeginShare
<1>5. ASSUME NEW p \in Procs, NEW offered \in BOOLEAN, seed(p, offered) PROVE Servable'
  <2>1. ASSUME NEW h, NEW c \in BOOLEAN, NEW at \in {"add", "record"},
               Settle(p, h, c, at), at = "add" => c,
               at = "record" => h \in cache', cache \subseteq cache'
        PROVE  CachedWork'
    <3>1. \A q \in Procs : q # p => work'[q] = work[q]
      BY <2>1 DEF Settle, SetWork, Typed, TypeOK
    <3>2. work'[p].hash = h /\ work'[p].created = c
      BY <2>1 DEF Settle, SetWork, Typed, TypeOK, Work
    <3>3. at \in PCs
      BY DEF PCs
    <3> QED
      BY <2>1, <3>1, <3>2, <3>3, CachedMove DEF Settle
  <2>2. CachedWork' /\ cache \subseteq cache'
    BY <1>5, <2>1 DEF seed, adopt
  <2> QED
    BY <1>5, <2>2 DEF seed, AdoptedServable
<1>6. ASSUME NEW p \in Procs,
             SeedFails(p) \/ AddDuplicate(p) \/ AddFails(p) \/ AddTorrent(p)
      PROVE  Servable'
  <2>1. PICK at \in {"record", "mark"} :
            Goto(p, at) /\ (at = "record" => pc[p] = "add")
    BY <1>6 DEF SeedFails, AddDuplicate, AddFails, AddTorrent
  <2>2. UNCHANGED <<rows, cache, work>>
    BY <1>6 DEF SeedFails, AddDuplicate, AddFails, AddTorrent
  <2>3. at = "record" => work[p].created
    BY <2>1 DEF CachedWork
  <2>4. CachedWork'
    BY <2>1, <2>2, <2>3, CachedMove DEF PCs
  <2> QED
    BY <2>2, <2>4 DEF AdoptedServable
<1>7. ASSUME NEW p \in Procs, Record(p) PROVE Servable'
  <2>1. ~work[p].created => work[p].hash \in cache
    BY <1>7 DEF Record, CachedWork
  <2>2. CachedWork'
    BY <1>7, CachedElsewhere, CachedMove DEF Record, ToMark, PCs
  <2>3. rows \in [Items -> Row]
    BY DEF Typed, TypeOK
  <2>4. \A j \in Items :
            \/ rows'[j] = rows[j]
            \/ rows'[j].hash = work[p].hash /\ rows'[j].created = work[p].created
    BY <1>7, <2>3 DEF Record, set_seeding
  <2>5. AdoptedServable'
    BY <1>7, <2>1, <2>4 DEF Record, AdoptedServable
  <2> QED
    BY <2>2, <2>5
<1>8. ASSUME NEW p \in Procs, RemoveTorrent(p) PROVE Servable'
  BY <1>8, CachedMove DEF RemoveTorrent, PCs, AdoptedServable
<1>9. ASSUME \/ \E p \in Procs : \/ \E s \in Sources : discover(p, s)
                                 \/ ReadList(p) \/ ReadRows(p) \/ ReadEnds(p)
             \/ \E i \in Items : ToggleTag(i) \/ set_share_until(i)
             \/ \E f \in Files : ChangeFile(f)
             \/ \E h \in Hashes : OperatorTorrent(h)
             \/ NextDay \/ CalmDown \/ UNCHANGED vars
      PROVE  Servable'
  <2>1. UNCHANGED <<rows, pc, work, cache>>
    BY <1>9 DEF discover, ReadList, ReadRows, ReadEnds, ToggleTag, set_share_until, ChangeFile,
                OperatorTorrent, NextDay, CalmDown, vars
  <2> QED
    BY <2>1 DEF AdoptedServable, CachedWork
<1> QED
  BY <1>1, <1>2, <1>3, <1>4, <1>5, <1>6, <1>7, <1>8, <1>9
  DEF Next, Request, unshare, rebuild, Step, Environment

\* Whatever a row shares without owning it has its .torrent in the cache, so the
\* feed can serve it, through every race, crash and failure.
THEOREM AdoptionServable == Spec => []AdoptedServable
<1>1. Init => Servable
  BY DEF Init, Servable, AdoptedServable, CachedWork, NoRow
<1>2. Typed /\ Servable /\ [Next]_vars => Servable'
  BY StepServable
<1>3. Servable => AdoptedServable
  BY DEF Servable
<1> QED
  BY <1>1, <1>2, <1>3, InitTyped, StepTyped, PTL DEF Spec

-----------------------------------------------------------------------------
(* What a pass withdraws. *)

\* While a pass reads, whatever is untagged is on record as gone, and so is
\* whatever a source that answered whole did not name.
Reading(p) ==
    \A i \in Items :
        ~tagged[i] \/ (SourceOf[i] \in seen[p].withdrawable /\ i \notin seen[p].found)
            => i \in gone[p]
PassSound(p) == (pc[p] = "read" => Reading(p)) /\ work[p].stale \subseteq gone[p]
Withdrawing == \A p \in Procs : PassSound(p)

LEMMA OthersSound ==
    ASSUME Withdrawing, NEW p \in Procs, tagged' = tagged,
           \A q \in Procs : q # p => /\ pc'[q] = pc[q] /\ seen'[q] = seen[q]
                                     /\ work'[q] = work[q] /\ gone'[q] = gone[q],
           PassSound(p)'
    PROVE  Withdrawing'
BY DEF Withdrawing, PassSound, Reading

\* A pass past its reads: what it has left to withdraw only shrinks.
LEMMA MoveSound ==
    ASSUME Typed, Withdrawing, NEW p \in Procs, NEW at \in PCs \ {"read"},
           Goto(p, at), work'[p].stale \subseteq work[p].stale,
           \A q \in Procs : q # p => work'[q] = work[q],
           seen' = seen \/ \E s : SetSeen(p, s),
           gone' = gone, tagged' = tagged
    PROVE  Withdrawing'
<1>1. \A q \in Procs : q # p => /\ pc'[q] = pc[q] /\ seen'[q] = seen[q]
                                /\ work'[q] = work[q] /\ gone'[q] = gone[q]
  BY DEF Goto, SetSeen, Typed, TypeOK
<1>2. pc'[p] = at /\ gone'[p] = gone[p]
  BY DEF Goto, Typed, TypeOK
<1>3. PassSound(p)'
  BY <1>2 DEF PassSound, Withdrawing
<1> QED
  BY <1>1, <1>3, OthersSound

LEMMA NextSound ==
    ASSUME Typed, Withdrawing, NEW p \in Procs, NextItem(p),
           UNCHANGED <<tagged, seen, gone>>
    PROVE  Withdrawing'
<1>1. work \in [Procs -> Work] /\ work[p] \in Work
  BY DEF Typed, TypeOK
<1>2. work'[p].stale = work[p].stale /\ \A q \in Procs : q # p => work'[q] = work[q]
  BY <1>1 DEF NextItem, SetWork, Work
<1> QED
  BY <1>2, MoveSound DEF NextItem, PCs

LEMMA UnshareSound ==
    ASSUME Typed, Withdrawing, NEW p \in Procs, NEW i \in Items, NEW n,
           BeginUnshare(p, i, n), seen' = seen \/ \E s : SetSeen(p, s),
           UNCHANGED <<tagged, gone>>
    PROVE  Withdrawing'
<1>1. work \in [Procs -> Work] /\ work[p] \in Work
  BY DEF Typed, TypeOK
<1>2. /\ work'[p].stale = work[p].stale \ {i}
      /\ \A q \in Procs : q # p => work'[q] = work[q]
  BY <1>1 DEF BeginUnshare, SetWork, Work
<1> QED
  BY <1>2, MoveSound DEF BeginUnshare, PCs

LEMMA RestartSound ==
    ASSUME Typed, Withdrawing, NEW p \in Procs, StartReading(p) \/ EndPass(p),
           tagged' = tagged
    PROVE  Withdrawing'
<1>1. \A q \in Procs : q # p => /\ pc'[q] = pc[q] /\ seen'[q] = seen[q]
                                /\ work'[q] = work[q] /\ gone'[q] = gone[q]
  BY DEF StartReading, EndPass, Goto, SetWork, SetSeen, Typed, TypeOK
<1>2. work'[p].stale = {}
  BY DEF StartReading, EndPass, SetWork, NoWork, Typed, TypeOK
<1>3. CASE EndPass(p)
  <2>1. pc'[p] = "idle"
    BY <1>3 DEF EndPass, Goto, Typed, TypeOK
  <2> QED
    BY <1>1, <1>2, <2>1, OthersSound DEF PassSound
<1>4. CASE StartReading(p)
  <2>1. seen'[p].withdrawable = {}
    BY <1>4, EmptyTyped DEF StartReading, SetSeen, NothingSeen, Typed, TypeOK
  <2>2. gone'[p] = {i \in Items : ~tagged[i]}
    BY <1>4 DEF StartReading, Typed, TypeOK
  <2>3. PassSound(p)'
    BY <1>2, <2>1, <2>2 DEF PassSound, Reading
  <2> QED
    BY <1>1, <2>3, OthersSound
<1> QED
  BY <1>3, <1>4

\* A source's answer keeps the record straight: an answer that counts as whole
\* names everything the source tags now, and what it leaves out is untagged.
LEMMA AnswerSound ==
    ASSUME Typed, Withdrawing, NEW p \in Procs, NEW s \in Sources, discover(p, s)
    PROVE  Withdrawing'
<1> DEFINE carried == {i \in Items : SourceOf[i] = s /\ tagged[i]}
<1>1. /\ seen[p] \in Seen /\ seen \in [Procs -> Seen] /\ pc[p] = "read"
      /\ UNCHANGED <<tagged, pc, work, gone>>
  BY DEF discover, Typed, TypeOK, library, history
<1>2. Reading(p) /\ work[p].stale \subseteq gone[p]
  BY <1>1 DEF Withdrawing, PassSound
<1>3. ASSUME NEW items, NEW ok, NEW whole \in BOOLEAN, Answer(p, s, items, ok, whole),
             whole => items = carried
      PROVE  Withdrawing'
  <2>1. /\ seen'[p].found = seen[p].found \cup items
        /\ seen'[p].withdrawable
              = seen[p].withdrawable \cup (IF whole THEN {s} ELSE {})
    BY <1>1, <1>3 DEF Answer, SetSeen, Seen
  <2>2. \A q \in Procs : q # p => seen'[q] = seen[q]
    BY <1>1, <1>3 DEF Answer, SetSeen
  <2>3. Reading(p)'
    BY <1>1, <1>2, <1>3, <2>1 DEF Reading
  <2>4. PassSound(p)'
    BY <1>1, <1>2, <2>3 DEF PassSound
  <2> QED
    BY <1>1, <2>2, <2>4, OthersSound
<1> QED
  BY <1>3 DEF discover

LEMMA StepWithdrawing ==
    ASSUME Typed, Withdrawing, [Next]_vars
    PROVE  Withdrawing'
<1>1. ASSUME NEW p \in Procs,
             \/ StartPass(p) \/ BailOut(p) \/ FinishPass(p) \/ Cancel(p) \/ ResetRow(p)
      PROVE  Withdrawing'
  BY <1>1, RestartSound
  DEF StartPass, BailOut, FinishPass, Cancel, ResetRow, library
<1>2. ASSUME NEW p \in Procs, ReadList(p) \/ ReadRows(p) \/ ReadEnds(p) PROVE Withdrawing'
  <2>1. seen \in [Procs -> Seen] /\ seen[p] \in Seen
    BY DEF Typed, TypeOK
  <2>2. \A q \in Procs : /\ seen'[q].found = seen[q].found
                         /\ seen'[q].withdrawable = seen[q].withdrawable
    <3>1. CASE ReadList(p)
      BY <2>1, <3>1 DEF ReadList, SetSeen, Seen
    <3>2. CASE ReadRows(p)
      BY <2>1, <3>2 DEF ReadRows, SetSeen, Seen
    <3>3. CASE ReadEnds(p)
      BY <2>1, <3>3 DEF ReadEnds, SetSeen, Seen
    <3> QED
      BY <1>2, <3>1, <3>2, <3>3
  <2>3. UNCHANGED <<tagged, pc, work, gone>>
    BY <1>2 DEF ReadList, ReadRows, ReadEnds, library, history
  <2> QED
    BY <2>2, <2>3 DEF Withdrawing, PassSound, Reading
<1>3. ASSUME NEW p \in Procs, BeginItems(p) PROVE Withdrawing'
  <2>1. \A q \in Procs : q # p => /\ pc'[q] = pc[q] /\ seen'[q] = seen[q]
                                  /\ work'[q] = work[q] /\ gone'[q] = gone[q]
    BY <1>3 DEF BeginItems, Goto, SetWork, SetSeen, Typed, TypeOK, history
  <2>2. work[p] \in Work /\ work \in [Procs -> Work] /\ pc \in [Procs -> PCs]
    BY DEF Typed, TypeOK
  <2>3. work'[p].stale = Stale(seen[p]) /\ pc'[p] = "share"
    BY <1>3, <2>2 DEF BeginItems, SetWork, Goto, Work
  <2>4. Stale(seen[p]) \subseteq gone[p]
    BY <1>3 DEF BeginItems, Stale, Withdrawing, PassSound, Reading
  <2> QED
    BY <1>3, <2>1, <2>3, <2>4, OthersSound DEF BeginItems, PassSound, library, history
<1>4. ASSUME NEW p \in Procs, NEW i \in Items,
             \/ EndShare(p, i) \/ Withdraw(p, i)
             \/ \E n \in {"idle", "read"} : ActOn(p, i, n)
      PROVE  Withdrawing'
  BY <1>4, UnshareSound DEF EndShare, Withdraw, ActOn, library, history
<1>5. ASSUME NEW p \in Procs, NEW i \in Items, BeginShare(p, i) PROVE Withdrawing'
  <2>1. work \in [Procs -> Work] /\ work[p] \in Work
    BY DEF Typed, TypeOK
  <2>2. /\ work'[p].stale = work[p].stale
        /\ \A q \in Procs : q # p => work'[q] = work[q]
    BY <1>5, <2>1 DEF BeginShare, SetWork, Work
  <2> QED
    BY <1>5, <2>2, MoveSound DEF BeginShare, PCs, library, history
<1>6. ASSUME NEW p \in Procs, NEW offered \in BOOLEAN, seed(p, offered)
      PROVE  Withdrawing'
  <2>1. ASSUME NEW h, NEW c, NEW at \in {"add", "record"}, Settle(p, h, c, at)
        PROVE  Withdrawing'
    <3>1. work \in [Procs -> Work] /\ work[p] \in Work
      BY DEF Typed, TypeOK
    <3>2. /\ work'[p].stale = work[p].stale
          /\ \A q \in Procs : q # p => work'[q] = work[q]
      BY <2>1, <3>1 DEF Settle, SetWork, Work
    <3> QED
      BY <1>6, <2>1, <3>2, MoveSound DEF seed, Settle, PCs, library, history
  <2> QED
    BY <1>6, <2>1 DEF seed, adopt
<1>7. ASSUME NEW p \in Procs,
             \/ SeedFails(p) \/ AddDuplicate(p) \/ AddFails(p) \/ AddTorrent(p)
             \/ RemoveTorrent(p)
      PROVE  Withdrawing'
  <2>1. /\ UNCHANGED <<tagged, gone, seen, work>>
        /\ \E at \in PCs \ {"read"} : Goto(p, at)
    BY <1>7 DEF SeedFails, AddDuplicate, AddFails, AddTorrent, RemoveTorrent, PCs,
                library, history
  <2> QED
    BY <2>1, MoveSound
<1>8. ASSUME NEW p \in Procs, Record(p) \/ MarkFailed(p) PROVE Withdrawing'
  BY <1>8, NextSound, MoveSound DEF Record, MarkFailed, ToMark, PCs, library, history
<1>9. ASSUME NEW p \in Procs, MarkUnshared(p) PROVE Withdrawing'
  BY <1>9, NextSound, RestartSound DEF MarkUnshared, library
<1>10. ASSUME NEW i \in Items, ToggleTag(i) PROVE Withdrawing'
  <2>1. UNCHANGED <<pc, seen, work>>
    BY <1>10 DEF ToggleTag
  <2>2. \A q \in Procs : gone[q] \subseteq gone'[q]
    BY <1>10 DEF ToggleTag
  <2>3. ASSUME NEW q \in Procs, pc[q] = "read" PROVE Reading(q)'
    <3>1. Reading(q)
      BY <2>3 DEF Withdrawing, PassSound
    <3>2. \A j \in Items : ~tagged'[j] => ~tagged[j] \/ j \in gone'[q]
      BY <1>10, <2>3 DEF ToggleTag, Typed, TypeOK
    <3> QED
      BY <2>1, <2>2, <3>1, <3>2 DEF Reading
  <2> QED
    BY <2>1, <2>2, <2>3 DEF Withdrawing, PassSound
<1>11. ASSUME \/ \E i \in Items : set_share_until(i)
              \/ \E f \in Files : ChangeFile(f)
              \/ \E h \in Hashes : OperatorTorrent(h)
              \/ NextDay \/ CalmDown \/ UNCHANGED vars
       PROVE  Withdrawing'
  <2>1. UNCHANGED <<tagged, pc, seen, work, gone>>
    BY <1>11 DEF set_share_until, ChangeFile, OperatorTorrent, NextDay, CalmDown, vars,
                 library, history
  <2> QED
    BY <2>1 DEF Withdrawing, PassSound, Reading
<1> QED
  BY <1>1, <1>2, <1>3, <1>4, <1>5, <1>6, <1>7, <1>8, <1>9, <1>10, <1>11, AnswerSound
  DEF Next, Request, unshare, rebuild, Step, Environment

\* A pass withdraws only what was really untagged while it ran: a source that
\* failed or answered in part never costs an item its share, for any number of
\* sources, items and passes side by side.
THEOREM WithdrawalSafe == Spec => []WithdrawsOnlyUntagged
<1>1. Init => Withdrawing
  BY DEF Init, Withdrawing, PassSound, NoWork
<1>2. Typed /\ Withdrawing /\ [Next]_vars => Withdrawing'
  BY StepWithdrawing
<1>3. Withdrawing => WithdrawsOnlyUntagged
  BY DEF Withdrawing, PassSound, WithdrawsOnlyUntagged
<1> QED
  BY <1>1, <1>2, <1>3, InitTyped, StepTyped, PTL DEF Spec

-----------------------------------------------------------------------------
(* What one process leaves behind.  Two passes at once may leave a torrent
   that nobody owns; one at a time they do not. *)

\* Passes and handlers as a lock would order them.
OneAtATime == \A p, q \in Procs : pc[p] # "idle" /\ pc[q] # "idle" => p = q
OneFileEach == \A i, j \in Items : FileOf[i] = FileOf[j] => i = j

\* A row's torrent is one of its item's file.
OfItem(r, i) ==
    /\ r.hash # NoHash => r.hash[2] = FileOf[i]
    /\ r.created \/ r.state = "Seeding" => r.hash # NoHash
FilesRight ==
    /\ \A i \in Items : OfItem(rows[i], i)
    /\ \A p \in Procs :
         /\ \A i \in Items : OfItem(seen[p].known[i], i)
         /\ pc[p] \in {"add", "record"} => work[p].hash[2] = FileOf[work[p].item]

\* The torrent of the row does not run.
Stopped(r) == r.created => client[r.hash] # "sharerr"

\* With nobody else writing, a pass's copy of a row is the row until the pass itself takes
\* the item up; and an item it has withdrawn from the client is stopped.
Plan(p) ==
    /\ pc[p] \in {"idle", "read"} => work[p].queue = {} /\ work[p].stale = {}
    /\ pc[p] = "read" /\ "rows" \notin seen[p].todo => seen[p].known = rows
    /\ pc[p] \notin {"idle", "read"} =>
         \A i \in work[p].queue \cup work[p].stale : seen[p].known[i] = rows[i]
    /\ work[p].queue \cap work[p].stale = {}
    /\ pc[p] \in {"seed", "add", "record", "mark", "remove", "unshare"} =>
         work[p].item \notin work[p].queue \cup work[p].stale
    /\ pc[p] \in {"seed", "add"} => rows[work[p].item].state = "Pending"
    /\ pc[p] = "remove" => seen[p].known[work[p].item] = rows[work[p].item]
    /\ pc[p] = "unshare" => Stopped(rows[work[p].item])
Orderly == FilesRight /\ (\A p \in Procs : Plan(p)) /\ NoOrphan

NoFailures == Upheavals \cap {"fault", "crash"} = {}

\* Every torrent sharerr runs is on a row that says so, or about to be; and an item is
\* taken up as not seeding only when its torrent does not run.
Recorded(h) == \E i \in Items : rows[i] = [state |-> "Seeding", hash |-> h, created |-> TRUE]
Recording(p, h) == pc[p] = "record" /\ work[p].hash = h /\ work[p].created
Account(p) ==
    /\ pc[p] \in {"seed", "add", "record", "mark"} => rows[work[p].item].state = "Pending"
    /\ pc[p] = "read" /\ "list" \notin seen[p].todo =>
         \A h \in Hashes \ seen[p].listed : client[h] # "sharerr"
    /\ pc[p] \notin {"idle", "read"} =>
         \A i \in work[p].queue \ work[p].ended :
             rows[i].state = "Seeding" => Stopped(rows[i])
Accounted ==
    /\ \A h \in Hashes : client[h] = "sharerr" =>
         Recorded(h) \/ \E p \in Procs : Recording(p, h)
    /\ \A p \in Procs : Account(p)

\* Whoever takes a step is the only one at work, before it and after.
LEMMA OthersIdle ==
    ASSUME Typed, OneAtATime, OneAtATime', NEW p \in Procs,
           Request(p) \/ Step(p) \/ Cancel(p)
    PROVE  \A q \in Procs : q # p =>
               /\ pc[q] = "idle" /\ pc'[q] = "idle"
               /\ work'[q] = work[q] /\ seen'[q] = seen[q]
<1>1. /\ \E at : Goto(p, at)
      /\ work' = work \/ \E w : SetWork(p, w)
      /\ seen' = seen \/ \E s : SetSeen(p, s)
  <2>1. CASE \/ StartPass(p) \/ BailOut(p) \/ FinishPass(p) \/ Cancel(p)
             \/ ResetRow(p)
    BY <2>1 DEF StartPass, BailOut, FinishPass, Cancel, ResetRow, StartReading, EndPass
  <2>2. CASE \/ \E i \in Items : EndShare(p, i) \/ BeginShare(p, i) \/ Withdraw(p, i)
             \/ \E i \in Items, n \in {"idle", "read"} : ActOn(p, i, n)
    BY <2>2 DEF EndShare, BeginShare, Withdraw, ActOn, BeginUnshare
  <2>3. CASE \E offered \in BOOLEAN : seed(p, offered)
    BY <2>3 DEF seed, adopt, Settle
  <2>4. CASE \/ SeedFails(p) \/ AddTorrent(p) \/ AddDuplicate(p) \/ AddFails(p)
             \/ RemoveTorrent(p) \/ BeginItems(p)
    BY <2>4 DEF SeedFails, AddTorrent, AddDuplicate, AddFails, RemoveTorrent, BeginItems
  <2>5. CASE Record(p) \/ MarkFailed(p) \/ MarkUnshared(p)
    BY <2>5 DEF Record, MarkFailed, MarkUnshared, NextItem, ToMark, EndPass
  <2>6. CASE (\E s \in Sources : discover(p, s)) \/ ReadList(p) \/ ReadRows(p) \/ ReadEnds(p)
    <3>1. pc' = pc /\ work' = work /\ \E s : SetSeen(p, s)
      BY <2>6 DEF discover, Answer, ReadList, ReadRows, ReadEnds
    <3>2. Goto(p, pc[p])
      BY <3>1 DEF Goto, Typed, TypeOK
    <3> QED BY <3>1, <3>2
  <2> QED BY <2>1, <2>2, <2>3, <2>4, <2>5, <2>6 DEF Request, unshare, rebuild, Step
<1>2. \A q \in Procs : q # p => pc'[q] = pc[q] /\ work'[q] = work[q] /\ seen'[q] = seen[q]
  BY <1>1 DEF Goto, SetWork, SetSeen, Typed, TypeOK
<1>3. pc[p] # "idle" \/ pc'[p] # "idle"
  <2>1. CASE Step(p) \/ Cancel(p)
    BY <2>1 DEF Step, Cancel, discover, ReadList, ReadRows, ReadEnds, BailOut, BeginItems, EndShare,
       BeginShare, Withdraw, seed, SeedFails, AddTorrent, AddDuplicate, AddFails, Record,
       MarkFailed, RemoveTorrent, MarkUnshared, ResetRow, FinishPass
  <2>2. CASE Request(p)
    BY <2>2 DEF Request, unshare, rebuild, StartPass, StartReading, ActOn, BeginUnshare, Goto, Typed, TypeOK
  <2> QED BY <2>1, <2>2
<1> QED BY <1>2, <1>3 DEF OneAtATime

\* So only what it does to its own plan is to be looked at.
LEMMA OrderlyOf ==
    ASSUME Orderly, NEW p \in Procs,
           \A q \in Procs : q # p =>
               /\ pc[q] = "idle" /\ pc'[q] = "idle"
               /\ work'[q] = work[q] /\ seen'[q] = seen[q],
           \A i \in Items : OfItem(rows'[i], i) /\ OfItem(seen'[p].known[i], i),
           pc'[p] \in {"add", "record"} => work'[p].hash[2] = FileOf[work'[p].item],
           Plan(p)', NoOrphan'
    PROVE  Orderly'
<1>1. ASSUME NEW q \in Procs, q # p PROVE Plan(q)'
  BY <1>1 DEF Orderly, Plan
<1>2. FilesRight'
  BY DEF Orderly, FilesRight, OfItem
<1> QED BY <1>1, <1>2 DEF Orderly

\* The writes of the store keep a row's torrent one of its item's file.
LEMMA WritesOfItem ==
    ASSUME NEW r \in Row, NEW i \in Items, OfItem(r, i)
    PROVE  /\ OfItem(upsert(r), i) /\ OfItem(reset_for_rebuild(r), i)
           /\ \A s : s # "Seeding" => OfItem(set_state(r, s), i)
           /\ \A h \in Hashes, c \in BOOLEAN :
                h[2] = FileOf[i] => OfItem(set_seeding(r, h, c), i)
<1>1. OfItem(upsert(r), i) /\ OfItem(reset_for_rebuild(r), i)
  BY DEF upsert, reset_for_rebuild, OfItem, Row
<1>2. ASSUME NEW s, s # "Seeding" PROVE OfItem(set_state(r, s), i)
  BY <1>2 DEF set_state, OfItem, Row
<1>3. NoHash \notin Hashes
  BY TorrentsAssumption DEF Hashes
<1>4. ASSUME NEW h \in Hashes, NEW c \in BOOLEAN, h[2] = FileOf[i]
      PROVE  OfItem(set_seeding(r, h, c), i)
  BY <1>3, <1>4 DEF set_seeding, OfItem, Row
<1> QED BY <1>1, <1>2, <1>4

\* A pass that begins or ends holds nothing.
LEMMA RestPlan ==
    ASSUME Typed, NEW p \in Procs, StartReading(p) \/ EndPass(p)
    PROVE  /\ Plan(p)' /\ pc'[p] \in {"idle", "read"}
           /\ \A i \in Items : OfItem(seen'[p].known[i], i)
<1>1. /\ work'[p] = NoWork /\ seen'[p].known = NothingSeen.known
      /\ pc'[p] = "idle" \/ (pc'[p] = "read" /\ "rows" \in seen'[p].todo)
  BY EmptyTyped DEF StartReading, EndPass, Goto, SetWork, SetSeen, Typed, TypeOK, Seen, Reads
<1>2. NoWork.queue = {} /\ NoWork.stale = {}
  BY DEF NoWork
<1>3. \A i \in Items : OfItem(NothingSeen.known[i], i)
  BY DEF OfItem, NothingSeen, NoRow
<1> QED BY <1>1, <1>2, <1>3 DEF Plan

\* A pass that is done with an item leaves the rest of its plan as it was.
LEMMA NextPlan ==
    ASSUME Typed, NEW p \in Procs, Plan(p), NextItem(p), seen' = seen,
           pc[p] \in {"seed", "add", "record", "mark", "remove", "unshare"},
           \A j \in Items : j # work[p].item => rows'[j] = rows[j]
    PROVE  Plan(p)' /\ pc'[p] = "share"
<1>1. /\ pc'[p] = "share" /\ work'[p].queue = work[p].queue /\ work'[p].stale = work[p].stale
      /\ work[p].queue \subseteq Items /\ work[p].stale \subseteq Items
  BY DEF NextItem, Goto, SetWork, Typed, TypeOK, Work
<1> QED BY <1>1 DEF Plan

\* A pass that goes on with the item in hand.
LEMMA KeepPlan ==
    ASSUME Typed, NEW p \in Procs, Plan(p), NEW at, Goto(p, at), seen' = seen,
           at \in {"seed", "add", "record", "mark"},
           pc[p] \in {"seed", "add", "record", "mark", "remove", "unshare"},
           /\ work'[p].queue = work[p].queue /\ work'[p].stale = work[p].stale
           /\ work'[p].item = work[p].item,
           \A j \in Items : j # work[p].item => rows'[j] = rows[j],
           at \in {"seed", "add"} => rows'[work[p].item].state = "Pending"
    PROVE  Plan(p)' /\ pc'[p] = at
<1>1. pc'[p] = at /\ work[p].queue \subseteq Items /\ work[p].stale \subseteq Items
  BY DEF Goto, Typed, TypeOK, Work
<1> QED BY <1>1 DEF Plan

\* The client's torrents are left alone, and so are the rows or all but one, which is not
\* withdrawn: nothing is orphaned.
LEMMA NoneOrphaned ==
    ASSUME NoOrphan, client' = client, NEW i,
           \A j \in Items : j # i => rows'[j] = rows[j],
           rows'[i] = rows[i] \/ rows'[i].state # "Unshared" \/ Stopped(rows'[i])
    PROVE  NoOrphan'
BY DEF NoOrphan, Stopped

LEMMA InitOrderly == Init => Orderly
<1> SUFFICES ASSUME Init PROVE Orderly
  OBVIOUS
<1>1. FilesRight
  BY DEF Init, FilesRight, OfItem, NoRow, NothingSeen
<1>2. \A p \in Procs : Plan(p)
  BY DEF Init, Plan, NoWork
<1>3. NoOrphan
  BY DEF Init, NoOrphan, NoRow
<1> QED BY <1>1, <1>2, <1>3 DEF Orderly

LEMMA StepOrderly ==
    ASSUME OneFileEach, Typed, Typed', OneAtATime, OneAtATime', Orderly, [Next]_vars
    PROVE  Orderly'
<1>a. /\ NoOrphan /\ \A p \in Procs : Plan(p)
      /\ \A i \in Items : rows[i] \in Row /\ OfItem(rows[i], i)
      /\ \A p \in Procs, i \in Items : OfItem(seen[p].known[i], i)
      /\ rows \in [Items -> Row] /\ client \in [Hashes -> Adders]
  BY DEF Orderly, FilesRight, Typed, TypeOK
<1>b. \A p \in Procs : /\ work[p] \in Work /\ seen[p] \in Seen
                       /\ work[p].queue \subseteq Items /\ work[p].stale \subseteq Items
  BY DEF Typed, TypeOK, Work
<1>1. ASSUME NEW p \in Procs, StartPass(p) \/ BailOut(p) \/ FinishPass(p) \/ Cancel(p)
      PROVE  Orderly'
  <2>1. /\ StartReading(p) \/ EndPass(p)
        /\ rows' = rows /\ client' = client
    BY <1>1 DEF StartPass, BailOut, FinishPass, Cancel
  <2>2. Request(p) \/ Step(p) \/ Cancel(p)
    BY <1>1 DEF Request, Step
  <2>3. NoOrphan'
    BY <1>a, <2>1 DEF NoOrphan
  <2> QED BY <1>a, <2>1, <2>2, <2>3, OthersIdle, RestPlan, OrderlyOf
<1>2. ASSUME NEW p \in Procs, NEW i \in Items, unshare(p, i) \/ rebuild(p, i)
      PROVE  Orderly'
  <2>a. PICK n \in {"idle", "read"} : ActOn(p, i, n)
    BY <1>2 DEF unshare, rebuild
  <2>1. /\ pc'[p] = "remove" /\ work'[p].item = i
        /\ work'[p].queue = work[p].queue \ {i} /\ work'[p].stale = work[p].stale \ {i}
    BY <2>a, <1>b DEF ActOn, BeginUnshare, Goto, SetWork, Typed, TypeOK, Work
  <2>2. work[p].queue = {} /\ work[p].stale = {} /\ rows' = rows /\ client' = client
    BY <2>a, <1>a DEF Plan, ActOn
  <2>3. seen'[p].known = [NothingSeen.known EXCEPT ![i] = rows[i]]
    BY <2>a, EmptyTyped DEF ActOn, SetSeen, Typed, TypeOK, Seen
  <2>4. seen'[p].known[i] = rows[i] /\ \A j \in Items : OfItem(seen'[p].known[j], j)
    BY <1>a, <2>3 DEF NothingSeen, NoRow, OfItem
  <2>5. Plan(p)'
    BY <2>1, <2>2, <2>4 DEF Plan
  <2>6. NoOrphan'
    BY <1>a, <2>2 DEF NoOrphan
  <2>7. Request(p)
    BY <1>2 DEF Request
  <2> QED BY <1>a, <2>1, <2>2, <2>4, <2>5, <2>6, <2>7, OthersIdle, OrderlyOf
<1>3. ASSUME NEW p \in Procs,
             (\E s \in Sources : discover(p, s)) \/ ReadList(p) \/ ReadRows(p) \/ ReadEnds(p)
      PROVE  Orderly'
  <2>1. /\ pc[p] = "read" /\ pc' = pc /\ work' = work /\ rows' = rows /\ client' = client
    BY <1>3 DEF discover, ReadList, ReadRows, ReadEnds
  <2>2. \/ seen'[p].known = rows
        \/ /\ seen'[p].known = seen[p].known
           /\ "rows" \in seen[p].todo => "rows" \in seen'[p].todo
    <3>1. CASE \E s \in Sources : discover(p, s)
      <4>1. PICK s \in Sources : \E items, ok, whole : Answer(p, s, items, ok, whole)
        BY <3>1 DEF discover
      <4>2. s # "rows"
        BY ItemsAssumption
      <4>3. seen'[p].known = seen[p].known /\ seen'[p].todo = seen[p].todo \ {s}
        BY <1>b, <4>1 DEF Answer, SetSeen, Typed, TypeOK, Seen
      <4> QED BY <4>2, <4>3
    <3>2. CASE ReadList(p)
      <4> DEFINE now == {h \in Hashes : client[h] # "absent"}
      <4> HIDE DEF now
      <4>1. seen' = [seen EXCEPT ![p] = [seen[p] EXCEPT !.todo = seen[p].todo \ {"list"},
                                                       !.listed = now,
                                                       !.covering = now \ moved]]
        BY <3>2 DEF ReadList, SetSeen, now
      <4>2. seen'[p].known = seen[p].known /\ seen'[p].todo = seen[p].todo \ {"list"}
        BY <1>b, <4>1 DEF Typed, TypeOK, Seen
      <4> QED BY <4>2
    <3>3. CASE ReadRows(p)
      BY <1>b, <3>3 DEF ReadRows, SetSeen, Typed, TypeOK, Seen
    <3>4. CASE ReadEnds(p)
      BY <1>b, <3>4 DEF ReadEnds, SetSeen, Typed, TypeOK, Seen
    <3> QED BY <1>3, <3>1, <3>2, <3>3, <3>4
  <2>3. Plan(p)' /\ \A i \in Items : OfItem(seen'[p].known[i], i)
    BY <1>a, <2>1, <2>2 DEF Plan
  <2>4. NoOrphan'
    BY <1>a, <2>1 DEF NoOrphan
  <2>5. Step(p)
    BY <1>3 DEF Step
  <2> QED BY <1>a, <2>1, <2>3, <2>4, <2>5, OthersIdle, OrderlyOf
<1>4. ASSUME NEW p \in Procs, BeginItems(p) PROVE Orderly'
  <2> DEFINE s == seen[p]
             queue == s.found \ Unchanged(s)
  <2>1. /\ pc[p] = "read" /\ pc'[p] = "share" /\ s.todo = {}
        /\ rows' = rows /\ client' = client
        /\ work'[p].queue = queue /\ work'[p].stale = Stale(s)
    BY <1>4, <1>b DEF BeginItems, Goto, SetWork, Typed, TypeOK, Work
  <2>2. seen'[p].known = [i \in Items |-> IF i \in queue \cup Stale(s) THEN s.known[i] ELSE NoRow]
    BY <1>4, EmptyTyped DEF BeginItems, SetSeen, Typed, TypeOK, Seen
  <2>3. s.known = rows
    BY <1>a, <2>1 DEF Plan
  <2>4. queue \subseteq Items /\ Stale(s) \subseteq Items /\ queue \cap Stale(s) = {}
    BY <1>b DEF Seen, Stale
  <2>5. Plan(p)'
    BY <2>1, <2>2, <2>3, <2>4 DEF Plan
  <2>6. \A i \in Items : OfItem(seen'[p].known[i], i)
    BY <1>a, <2>2 DEF OfItem, NoRow
  <2>7. NoOrphan'
    BY <1>a, <2>1 DEF NoOrphan
  <2>8. Step(p)
    BY <1>4 DEF Step
  <2> QED BY <1>a, <2>1, <2>5, <2>6, <2>7, <2>8, OthersIdle, OrderlyOf
<1>5. ASSUME NEW p \in Procs, NEW i \in Items, EndShare(p, i) \/ Withdraw(p, i)
      PROVE  Orderly'
  <2>1. /\ pc[p] = "share" /\ pc'[p] = "remove" /\ work'[p].item = i
        /\ work'[p].queue = work[p].queue \ {i} /\ work'[p].stale = work[p].stale \ {i}
        /\ i \in work[p].queue \cup work[p].stale
        /\ rows' = rows /\ client' = client /\ seen' = seen
    <3>1. /\ BeginUnshare(p, i, "share")
          /\ pc[p] = "share" /\ i \in work[p].queue \cup work[p].stale
          /\ rows' = rows /\ client' = client /\ seen' = seen
      BY <1>5 DEF EndShare, Withdraw
    <3>2. /\ pc'[p] = "remove" /\ work'[p].item = i
          /\ work'[p].queue = work[p].queue \ {i} /\ work'[p].stale = work[p].stale \ {i}
      BY <1>b, <3>1 DEF BeginUnshare, Goto, SetWork, Typed, TypeOK, Work
    <3> QED BY <3>1, <3>2
  <2>2. Plan(p)'
    BY <1>a, <2>1 DEF Plan
  <2>3. NoOrphan'
    BY <1>a, <2>1 DEF NoOrphan
  <2>4. Step(p)
    BY <1>5 DEF Step
  <2> QED BY <1>a, <2>1, <2>2, <2>3, <2>4, OthersIdle, OrderlyOf
<1>6. ASSUME NEW p \in Procs, NEW i \in Items, BeginShare(p, i) PROVE Orderly'
  <2>1. /\ pc[p] = "share" /\ pc'[p] \in {"seed", "mark"} /\ work'[p].item = i
        /\ work'[p].queue = work[p].queue \ {i} /\ work'[p].stale = work[p].stale
        /\ i \in work[p].queue /\ client' = client /\ seen' = seen
    BY <1>6, <1>b DEF BeginShare, Goto, SetWork, Typed, TypeOK, Work
  <2>2. /\ \A j \in Items : j # i => rows'[j] = rows[j]
        /\ rows'[i] = rows[i] \/ rows'[i] = upsert(rows[i])
        /\ pc'[p] = "seed" => rows'[i] = upsert(rows[i])
    BY <1>6, <1>a DEF BeginShare, Goto, Typed, TypeOK
  <2>3. upsert(rows[i]).state = "Pending"
    BY <1>a DEF upsert, Row
  <2>4. Plan(p)'
    BY <1>a, <1>b, <2>1, <2>2, <2>3 DEF Plan
  <2>5. \A j \in Items : OfItem(rows'[j], j)
    BY <1>a, <2>2, WritesOfItem
  <2>6. NoOrphan'
    BY <1>a, <2>1, <2>2, <2>3, NoneOrphaned
  <2>7. Step(p)
    BY <1>6 DEF Step
  <2> QED BY <1>a, <2>1, <2>4, <2>5, <2>6, <2>7, OthersIdle, OrderlyOf
<1>7. ASSUME NEW p \in Procs, NEW offered \in BOOLEAN, seed(p, offered) PROVE Orderly'
  <2> DEFINE i == work[p].item
             built == <<"built", FileOf[i], content[FileOf[i]]>>
  <2>1. /\ pc[p] = "seed" /\ i \in Items /\ rows' = rows /\ client' = client /\ seen' = seen
    BY <1>7 DEF seed, Typed, InHand
  <2>2. PICK h \in {g \in Hashes : g[2] = FileOf[i]}, c \in BOOLEAN, at \in {"add", "record"} :
             Settle(p, h, c, at)
    <3> DEFINE Right == {g \in Hashes : g[2] = FileOf[i]}
    <3>1. \A h \in Right : adopt(p, h) => Settle(p, h, FALSE, "record")
      BY DEF adopt
    <3>2. \A e \in Covers(seen[p], i) : e \subseteq Right
      BY <1>b DEF Covers, find_existing, Seen
    <3>3. catalog_matches(i, offered) \subseteq Right /\ built \in Right
      BY <2>1, ItemsAssumption DEF catalog_matches, Hashes, Typed, TypeOK
    <3>4. reuse_cached(seen[p], i) \subseteq Right
      <4>1. NoHash \notin cache /\ cache \subseteq Hashes
        BY TorrentsAssumption DEF Typed, TypeOK, Hashes
      <4> QED BY <1>a, <2>1, <4>1 DEF reuse_cached, OfItem
    <3> HIDE DEF Right
    <3>5. \E h \in Right, c \in BOOLEAN, at \in {"add", "record"} : Settle(p, h, c, at)
      BY <1>7, <3>1, <3>2, <3>3, <3>4 DEF seed, fetch_from_friend
    <3> QED BY <3>5 DEF Right
  <2>3. /\ work'[p].queue = work[p].queue /\ work'[p].stale = work[p].stale
        /\ work'[p].item = i /\ work'[p].hash = h
    BY <1>b, <2>2 DEF Settle, SetWork, Typed, TypeOK, Work
  <2>4. rows[i].state = "Pending"
    BY <1>a, <2>1 DEF Plan
  <2>5. Plan(p)' /\ pc'[p] = at
    BY <1>a, <2>1, <2>2, <2>3, <2>4, KeepPlan DEF Settle
  <2>6. NoOrphan'
    BY <1>a, <2>1 DEF NoOrphan
  <2>7. Step(p)
    BY <1>7 DEF Step
  <2> QED BY <1>a, <2>1, <2>2, <2>3, <2>5, <2>6, <2>7, OthersIdle, OrderlyOf
<1>8. ASSUME NEW p \in Procs, SeedFails(p) \/ AddDuplicate(p) \/ AddFails(p)
      PROVE  Orderly'
  <2>1. /\ pc[p] \in {"seed", "add"} /\ rows' = rows /\ client' = client /\ seen' = seen
        /\ work' = work
        /\ Goto(p, "mark") \/ (pc[p] = "add" /\ Goto(p, "record"))
    BY <1>8 DEF SeedFails, AddDuplicate, AddFails
  <2>2. /\ Plan(p)' /\ pc'[p] \in {"mark", "record"}
        /\ pc'[p] = "record" => pc[p] = "add"
    BY <1>a, <2>1, KeepPlan DEF Goto, Typed, TypeOK
  <2>3. pc'[p] \in {"add", "record"} => work'[p].hash[2] = FileOf[work'[p].item]
    BY <2>1, <2>2 DEF Orderly, FilesRight
  <2>4. NoOrphan'
    BY <1>a, <2>1 DEF NoOrphan
  <2>5. Step(p)
    BY <1>8 DEF Step
  <2> QED BY <1>a, <2>1, <2>2, <2>3, <2>4, <2>5, OthersIdle, OrderlyOf
<1>9. ASSUME NEW p \in Procs, AddTorrent(p) PROVE Orderly'
  <2> DEFINE i == work[p].item
             h == work[p].hash
  <2>1. /\ pc[p] = "add" /\ i \in Items /\ h \in Hashes /\ h[2] = FileOf[i]
        /\ rows' = rows /\ seen' = seen /\ work' = work
        /\ client' = [client EXCEPT ![h] = "sharerr"]
        /\ Goto(p, "record") \/ Goto(p, "mark")
    BY <1>9 DEF AddTorrent, Typed, InHand, Orderly, FilesRight
  <2>2. Plan(p)' /\ pc'[p] \in {"record", "mark"}
    BY <1>a, <2>1, KeepPlan
  <2>3. rows[i].state = "Pending"
    BY <1>a, <2>1 DEF Plan
  <2>4. NoOrphan'
    <3> SUFFICES ASSUME NEW j \in Items, rows[j].state = "Unshared", rows[j].created
                 PROVE  client'[rows[j].hash] # "sharerr"
      BY <2>1 DEF NoOrphan
    <3>1. rows[j].hash \in Hashes /\ rows[j].hash[2] = FileOf[j] /\ client[rows[j].hash] # "sharerr"
      BY <1>a DEF OfItem, Row, NoOrphan
    <3>2. rows[j].hash # h
      BY <2>1, <2>3, <3>1 DEF OneFileEach
    <3> QED BY <1>a, <2>1, <3>1, <3>2
  <2>5. Step(p)
    BY <1>9 DEF Step
  <2> QED BY <1>a, <2>1, <2>2, <2>4, <2>5, OthersIdle, OrderlyOf
<1>10. ASSUME NEW p \in Procs, Record(p) PROVE Orderly'
  <2> DEFINE i == work[p].item
             r == set_seeding(rows[i], work[p].hash, work[p].created)
  <2>1. /\ pc[p] = "record" /\ i \in Items /\ client' = client /\ seen' = seen
        /\ work[p].hash \in Hashes /\ work[p].hash[2] = FileOf[i]
        /\ NextItem(p) \/ ToMark(p)
    BY <1>10 DEF Record, Typed, InHand, Orderly, FilesRight
  <2>2. /\ \A j \in Items : j # i => rows'[j] = rows[j]
        /\ rows'[i] = rows[i] \/ rows'[i] = r
    BY <1>10, <1>a DEF Record
  <2>3. r = rows[i] \/ r.state # "Unshared"
    BY <1>a DEF set_seeding
  <2>4. OfItem(r, i)
    BY <1>a, <1>b, <2>1, WritesOfItem DEF Work
  <2>5. Plan(p)' /\ pc'[p] \in {"share", "mark"}
    BY <1>a, <2>1, <2>2, KeepPlan, NextPlan DEF ToMark
  <2>6. NoOrphan'
    BY <1>a, <2>1, <2>2, <2>3, NoneOrphaned
  <2>7. \A j \in Items : OfItem(rows'[j], j)
    BY <1>a, <2>2, <2>4
  <2>8. Step(p)
    BY <1>10 DEF Step
  <2> QED BY <1>a, <2>1, <2>5, <2>6, <2>7, <2>8, OthersIdle, OrderlyOf
<1>11. ASSUME NEW p \in Procs, MarkFailed(p) PROVE Orderly'
  <2> DEFINE i == work[p].item
             r == set_state(rows[i], "Failed")
  <2>1. /\ pc[p] = "mark" /\ i \in Items /\ client' = client /\ seen' = seen /\ NextItem(p)
    BY <1>11 DEF MarkFailed, Typed, InHand
  <2>2. /\ \A j \in Items : j # i => rows'[j] = rows[j]
        /\ rows'[i] = rows[i] \/ rows'[i] = r
    BY <1>11, <1>a DEF MarkFailed
  <2>3. r = rows[i] \/ r.state # "Unshared"
    BY <1>a, <2>1 DEF set_state, Row
  <2>4. OfItem(r, i)
    BY <1>a, <2>1, WritesOfItem
  <2>5. Plan(p)' /\ pc'[p] = "share"
    BY <1>a, <2>1, <2>2, NextPlan
  <2>6. NoOrphan'
    BY <1>a, <2>1, <2>2, <2>3, NoneOrphaned
  <2>7. \A j \in Items : OfItem(rows'[j], j)
    BY <1>a, <2>2, <2>4
  <2>8. Step(p)
    BY <1>11 DEF Step
  <2> QED BY <1>a, <2>1, <2>5, <2>6, <2>7, <2>8, OthersIdle, OrderlyOf
<1>12. ASSUME NEW p \in Procs, RemoveTorrent(p) PROVE Orderly'
  <2> DEFINE i == work[p].item
             r == seen[p].known[i]
  <2>1. /\ pc[p] = "remove" /\ i \in Items /\ r = rows[i] /\ Goto(p, "unshare")
        /\ rows' = rows /\ seen' = seen /\ work' = work
    BY <1>12, <1>a DEF RemoveTorrent, Typed, InHand, Plan
  <2>2. /\ \A h \in Hashes : client'[h] = "sharerr" => client[h] = "sharerr"
        /\ Stopped(rows[i])'
    <3>1. r.created => r.hash \in Hashes
      BY <1>a, <2>1 DEF OfItem, Row
    <3>2. CASE Owns(r)
      BY <1>12, <1>a, <2>1, <3>1, <3>2 DEF RemoveTorrent, Owns, Stopped
    <3>3. CASE ~Owns(r)
      BY <1>12, <1>a, <2>1, <3>1, <3>3 DEF RemoveTorrent, Owns, OfItem, Stopped
    <3> QED BY <3>2, <3>3
  <2>3. pc'[p] = "unshare"
    BY <2>1 DEF Goto, Typed, TypeOK
  <2>4. Plan(p)'
    BY <1>a, <2>1, <2>2, <2>3 DEF Plan
  <2>5. NoOrphan'
    BY <1>a, <2>1, <2>2 DEF NoOrphan, OfItem, Row
  <2>6. Step(p)
    BY <1>12 DEF Step
  <2> QED BY <1>a, <2>1, <2>3, <2>4, <2>5, <2>6, OthersIdle, OrderlyOf
<1>13. ASSUME NEW p \in Procs, MarkUnshared(p) \/ ResetRow(p) PROVE Orderly'
  <2> DEFINE i == work[p].item
             u == set_state(rows[i], "Unshared")
             z == reset_for_rebuild(rows[i])
  <2>1. /\ pc[p] = "unshare" /\ i \in Items /\ client' = client /\ Stopped(rows[i])
        /\ (NextItem(p) /\ seen' = seen) \/ EndPass(p) \/ StartReading(p)
    BY <1>13, <1>a DEF MarkUnshared, ResetRow, Typed, InHand, Plan
  <2>2. /\ \A j \in Items : j # i => rows'[j] = rows[j]
        /\ rows'[i] = rows[i] \/ rows'[i] = u \/ rows'[i] = z
    BY <1>13, <1>a DEF MarkUnshared, ResetRow
  <2>3. /\ OfItem(u, i) /\ OfItem(z, i)
        /\ Stopped(u) /\ (z = rows[i] \/ z.state # "Unshared")
    <3>1. u.hash = rows[i].hash /\ u.created = rows[i].created
      BY <1>a, <2>1 DEF set_state, Row
    <3> QED BY <1>a, <2>1, <3>1, WritesOfItem DEF Stopped, reset_for_rebuild
  <2>4. /\ Plan(p)' /\ pc'[p] \in {"share", "idle", "read"}
        /\ \A j \in Items : OfItem(seen'[p].known[j], j)
    BY <1>a, <2>1, <2>2, RestPlan, NextPlan
  <2>5. NoOrphan'
    <3> HIDE DEF u, z
    <3> QED BY <1>a, <2>1, <2>2, <2>3 DEF NoOrphan, Stopped
  <2>6. \A j \in Items : OfItem(rows'[j], j)
    BY <1>a, <2>2, <2>3
  <2>7. Step(p)
    BY <1>13 DEF Step
  <2> QED BY <2>4, <2>5, <2>6, <2>7, OthersIdle, OrderlyOf
<1>14. ASSUME NEW h \in Hashes, OperatorTorrent(h) PROVE Orderly'
  <2>1. UNCHANGED <<rows, pc, seen, work>>
    BY <1>14 DEF OperatorTorrent
  <2>2. \A g \in Hashes : client'[g] = "sharerr" => client[g] = "sharerr"
    BY <1>14, <1>a DEF OperatorTorrent
  <2>3. \A i \in Items : rows[i].created => rows[i].hash \in Hashes
    BY <1>a DEF OfItem, Row
  <2>4. NoOrphan' /\ \A i \in Items : Stopped(rows[i]) => Stopped(rows[i])'
    BY <1>a, <2>1, <2>2, <2>3 DEF NoOrphan, Stopped
  <2>5. \A p \in Procs : Plan(p)'
    BY <1>a, <2>1, <2>4 DEF Plan, Typed, InHand
  <2> QED BY <2>1, <2>4, <2>5 DEF Orderly, FilesRight, OfItem
<1>15. ASSUME \/ \E i \in Items : ToggleTag(i) \/ set_share_until(i)
              \/ \E f \in Files : ChangeFile(f)
              \/ NextDay \/ CalmDown \/ UNCHANGED vars
       PROVE  Orderly'
  <2>1. UNCHANGED <<rows, client, pc, seen, work>>
    BY <1>15 DEF ToggleTag, set_share_until, ChangeFile, NextDay, CalmDown, vars
  <2> QED BY <2>1 DEF Orderly, FilesRight, OfItem, Plan, Stopped, NoOrphan
<1> QED
  BY <1>1, <1>2, <1>3, <1>4, <1>5, <1>6, <1>7, <1>8, <1>9, <1>10, <1>11, <1>12, <1>13,
     <1>14, <1>15
  DEF Next, Request, Step, Environment

\* A withdrawn item leaves no torrent of its own running, whatever fails or crashes, for any
\* number of items with a file each, as long as passes and handlers do not overlap: it is
\* their overlap alone that orphans a torrent.
THEOREM NothingOrphaned ==
    ASSUME OneFileEach
    PROVE  Spec /\ []OneAtATime => []NoOrphan
<1>1. Typed /\ Typed' /\ OneAtATime /\ OneAtATime' /\ Orderly /\ [Next]_vars => Orderly'
  BY StepOrderly
<1>2. Orderly => NoOrphan
  BY DEF Orderly
<1> QED
  BY <1>1, <1>2, InitOrderly, InitTyped, StepTyped, PTL DEF Spec

-----------------------------------------------------------------------------
(* Without failures, the row of a running torrent says whose it is. *)

LEMMA AccountedOf ==
    ASSUME NEW p \in Procs,
           \A q \in Procs : q # p => pc'[q] = "idle",
           \A h \in Hashes : client'[h] = "sharerr" => Recorded(h)' \/ Recording(p, h)',
           Account(p)'
    PROVE  Accounted'
<1>1. ASSUME NEW q \in Procs, q # p PROVE Account(q)'
  BY <1>1 DEF Account
<1> QED BY <1>1 DEF Accounted

\* Of a process that is not recording, every running torrent is recorded.
LEMMA AllRecorded ==
    ASSUME Accounted, NEW p \in Procs, pc[p] # "record",
           \A q \in Procs : q # p => pc[q] = "idle",
           NEW h \in Hashes, client[h] = "sharerr"
    PROVE  Recorded(h)
BY DEF Accounted, Recording

\* And stays so when nothing new runs and the one row written is not of one that runs.
LEMMA RecordedKept ==
    ASSUME Accounted, NEW p \in Procs, pc[p] # "record",
           \A q \in Procs : q # p => pc[q] = "idle",
           \A h \in Hashes : client'[h] = "sharerr" => client[h] = "sharerr",
           NEW i, \A j \in Items : j # i => rows'[j] = rows[j],
           rows'[i] = rows[i] \/ rows[i].state # "Seeding" \/ Stopped(rows[i])
    PROVE  \A h \in Hashes : client'[h] = "sharerr" => Recorded(h)'
<1> SUFFICES ASSUME NEW h \in Hashes, client'[h] = "sharerr" PROVE Recorded(h)'
  OBVIOUS
<1>1. Recorded(h) /\ client[h] = "sharerr"
  BY AllRecorded
<1>2. PICK j \in Items : rows[j] = [state |-> "Seeding", hash |-> h, created |-> TRUE]
  BY <1>1 DEF Recorded
<1>3. rows'[j] = rows[j]
  BY <1>1, <1>2 DEF Stopped
<1> QED BY <1>2, <1>3 DEF Recorded

LEMMA InitAccounted == Init => Accounted
BY DEF Init, Accounted, Account

LEMMA StepAccounted ==
    ASSUME OneFileEach, NoFailures, Typed, Typed', OneAtATime, OneAtATime', Orderly,
           CachedWork, Accounted, [Next]_vars
    PROVE  Accounted'
<1>a. /\ \A p \in Procs : Plan(p) /\ Account(p)
      /\ \A i \in Items : rows[i] \in Row /\ OfItem(rows[i], i)
      /\ rows \in [Items -> Row] /\ client \in [Hashes -> Adders]
  BY DEF Orderly, FilesRight, Typed, TypeOK, Accounted
<1>b. \A p \in Procs : /\ work[p] \in Work /\ seen[p] \in Seen
                       /\ work[p].queue \subseteq Items
  BY DEF Typed, TypeOK, Work
<1>c. ~Faulty /\ "crash" \notin Upheavals
  BY DEF NoFailures, Faulty
<1>d. \A i \in Items : rows[i].created => rows[i].hash \in Hashes
  BY <1>a DEF OfItem, Row
<1>1. ASSUME NEW p \in Procs, StartPass(p) \/ BailOut(p) \/ FinishPass(p) PROVE Accounted'
  <2>1. /\ rows' = rows /\ client' = client /\ pc[p] # "record"
        /\ StartReading(p) \/ EndPass(p)
    BY <1>1 DEF StartPass, BailOut, FinishPass
  <2>2. pc'[p] = "idle" \/ (pc'[p] = "read" /\ "list" \in seen'[p].todo)
    BY <2>1, EmptyTyped DEF StartReading, EndPass, Goto, SetSeen, Typed, TypeOK, Seen, Reads
  <2>3. Account(p)'
    BY <2>2 DEF Account
  <2>4. Request(p) \/ Step(p)
    BY <1>1 DEF Request, Step
  <2> QED BY <2>1, <2>3, <2>4, OthersIdle, RecordedKept, AccountedOf
<1>2. ASSUME NEW p \in Procs, NEW i \in Items, unshare(p, i) \/ rebuild(p, i)
      PROVE  Accounted'
  <2>a. PICK n \in {"idle", "read"} : ActOn(p, i, n)
    BY <1>2 DEF unshare, rebuild
  <2>1. /\ pc[p] = "idle" /\ rows' = rows /\ client' = client
        /\ pc'[p] = "remove" /\ work'[p].queue = work[p].queue \ {i} /\ work[p].queue = {}
    BY <2>a, <1>a, <1>b
    DEF ActOn, BeginUnshare, Goto, SetWork, Typed, TypeOK, Work, Plan
  <2>2. Account(p)'
    BY <2>1 DEF Account
  <2>3. Request(p)
    BY <1>2 DEF Request
  <2> QED BY <2>1, <2>2, <2>3, OthersIdle, RecordedKept, AccountedOf
<1>3. ASSUME NEW p \in Procs,
             (\E s \in Sources : discover(p, s)) \/ ReadList(p) \/ ReadRows(p) \/ ReadEnds(p)
      PROVE  Accounted'
  <2>1. /\ pc[p] = "read" /\ pc' = pc /\ work' = work /\ rows' = rows /\ client' = client
    BY <1>3 DEF discover, ReadList, ReadRows, ReadEnds
  <2>2. \/ seen'[p].listed = {h \in Hashes : client[h] # "absent"}
        \/ /\ seen'[p].listed = seen[p].listed
           /\ "list" \in seen[p].todo => "list" \in seen'[p].todo
    <3>1. CASE \E s \in Sources : discover(p, s)
      <4>1. PICK s \in Sources : \E items, ok, whole : Answer(p, s, items, ok, whole)
        BY <3>1 DEF discover
      <4>2. s # "list"
        BY ItemsAssumption
      <4>3. seen'[p].listed = seen[p].listed /\ seen'[p].todo = seen[p].todo \ {s}
        BY <1>b, <4>1 DEF Answer, SetSeen, Typed, TypeOK, Seen
      <4> QED BY <4>2, <4>3
    <3>2. CASE ReadList(p)
      <4> DEFINE now == {h \in Hashes : client[h] # "absent"}
      <4> HIDE DEF now
      <4>1. seen' = [seen EXCEPT ![p] = [seen[p] EXCEPT !.todo = seen[p].todo \ {"list"},
                                                       !.listed = now,
                                                       !.covering = now \ moved]]
        BY <3>2 DEF ReadList, SetSeen, now
      <4>2. seen'[p].listed = now
        BY <1>b, <4>1 DEF Typed, TypeOK, Seen
      <4> QED BY <4>2 DEF now
    <3>3. CASE ReadRows(p)
      BY <1>b, <3>3 DEF ReadRows, SetSeen, Typed, TypeOK, Seen
    <3>4. CASE ReadEnds(p)
      BY <1>b, <3>4 DEF ReadEnds, SetSeen, Typed, TypeOK, Seen
    <3> QED BY <1>3, <3>1, <3>2, <3>3, <3>4
  <2>3. Account(p)'
    BY <1>a, <2>1, <2>2 DEF Account
  <2>4. Step(p)
    BY <1>3 DEF Step
  <2> QED BY <2>1, <2>3, <2>4, OthersIdle, RecordedKept, AccountedOf
<1>4. ASSUME NEW p \in Procs, BeginItems(p) PROVE Accounted'
  <2> DEFINE s == seen[p]
             queue == s.found \ Unchanged(s)
  <2>1. /\ pc[p] = "read" /\ pc'[p] = "share" /\ s.todo = {}
        /\ rows' = rows /\ client' = client
        /\ work'[p].queue = queue /\ work'[p].ended = Ended(s) \cap queue
    BY <1>4, <1>b DEF BeginItems, Goto, SetWork, Typed, TypeOK, Work
  <2>2. s.known = rows /\ \A h \in Hashes \ s.listed : client[h] # "sharerr"
    BY <1>a, <2>1 DEF Plan, Account
  <2>3. ASSUME NEW i \in queue, i \notin Ended(s), rows[i].state = "Seeding"
        PROVE  i \in Items /\ Stopped(rows[i])
    <3>1. i \in Items /\ ~StillLive(s, i)
      BY <1>b, <2>3 DEF Unchanged, Seen
    <3> QED BY <1>a, <1>d, <2>2, <2>3, <3>1 DEF StillLive, Stopped, OfItem
  <2>4. Account(p)'
    BY <2>1, <2>3 DEF Account, Stopped
  <2>5. Step(p)
    BY <1>4 DEF Step
  <2> QED BY <2>1, <2>4, <2>5, OthersIdle, RecordedKept, AccountedOf
<1>5. ASSUME NEW p \in Procs, NEW i \in Items, EndShare(p, i) \/ Withdraw(p, i)
      PROVE  Accounted'
  <2>1. /\ BeginUnshare(p, i, "share") /\ pc[p] = "share" /\ rows' = rows /\ client' = client
    BY <1>5 DEF EndShare, Withdraw
  <2>2. /\ pc'[p] = "remove"
        /\ work'[p].queue = work[p].queue \ {i} /\ work'[p].ended = work[p].ended
    BY <1>b, <2>1 DEF BeginUnshare, Goto, SetWork, Typed, TypeOK, Work
  <2>3. Account(p)'
    BY <1>a, <2>1, <2>2 DEF Account, Stopped
  <2>4. Step(p)
    BY <1>5 DEF Step
  <2> QED BY <2>1, <2>3, <2>4, OthersIdle, RecordedKept, AccountedOf
<1>6. ASSUME NEW p \in Procs, NEW i \in Items, BeginShare(p, i) PROVE Accounted'
  <2>1. /\ pc[p] = "share" /\ pc'[p] = "seed" /\ work'[p].item = i
        /\ work'[p].queue = work[p].queue \ {i} /\ work'[p].ended = work[p].ended
        /\ i \in work[p].queue \ work[p].ended /\ client' = client
        /\ rows' = [rows EXCEPT ![i] = upsert(@)]
    BY <1>6, <1>b, <1>c DEF BeginShare, Goto, SetWork, Typed, TypeOK, Work
  <2>2. rows'[i].state = "Pending" /\ \A j \in Items : j # i => rows'[j] = rows[j]
    BY <1>a, <2>1 DEF upsert, Row
  <2>3. rows[i].state # "Seeding" \/ Stopped(rows[i])
    BY <1>a, <2>1 DEF Account
  <2>4. Account(p)'
    BY <1>a, <1>b, <2>1, <2>2 DEF Account, Stopped
  <2>5. Step(p)
    BY <1>6 DEF Step
  <2> QED BY <2>1, <2>2, <2>3, <2>4, <2>5, OthersIdle, RecordedKept, AccountedOf
<1>7. ASSUME NEW p \in Procs, NEW offered \in BOOLEAN, seed(p, offered) PROVE Accounted'
  <2>1. /\ pc[p] = "seed" /\ rows' = rows /\ client' = client
        /\ \E h, c, at : Settle(p, h, c, at)
    BY <1>7 DEF seed, adopt
  <2>2. /\ work'[p].queue = work[p].queue /\ work'[p].ended = work[p].ended
        /\ work'[p].item = work[p].item
    BY <1>b, <2>1 DEF Settle, SetWork, Typed, TypeOK, Work
  <2>3. pc'[p] # "read"
    BY <1>7 DEF seed, adopt, Settle, Goto, Typed, TypeOK
  <2>4. Account(p)'
    BY <1>a, <2>1, <2>2, <2>3 DEF Account, Stopped
  <2>5. Step(p)
    BY <1>7 DEF Step
  <2> QED BY <2>1, <2>4, <2>5, OthersIdle, RecordedKept, AccountedOf
<1>8. ASSUME NEW p \in Procs, SeedFails(p) \/ AddDuplicate(p) \/ AddFails(p)
      PROVE  Accounted'
  <2>1. /\ pc[p] \in {"seed", "add"} /\ rows' = rows /\ client' = client /\ work' = work
        /\ Goto(p, "mark") \/ Goto(p, "record")
    BY <1>8 DEF SeedFails, AddDuplicate, AddFails
  <2>2. pc'[p] \in {"mark", "record"}
    BY <2>1 DEF Goto, Typed, TypeOK
  <2>3. Account(p)'
    BY <1>a, <2>1, <2>2 DEF Account, Stopped
  <2>4. Step(p)
    BY <1>8 DEF Step
  <2> QED BY <2>1, <2>3, <2>4, OthersIdle, RecordedKept, AccountedOf
<1>9. ASSUME NEW p \in Procs, AddTorrent(p) PROVE Accounted'
  <2> DEFINE i == work[p].item
             h == work[p].hash
  <2>1. /\ pc[p] = "add" /\ i \in Items /\ h \in Hashes /\ h[2] = FileOf[i]
        /\ rows' = rows /\ work' = work /\ work[p].created
        /\ client' = [client EXCEPT ![h] = "sharerr"]
        /\ pc'[p] = "record"
    BY <1>9, <1>c
    DEF AddTorrent, Goto, Typed, TypeOK, InHand, Orderly, FilesRight, CachedWork
  <2>2. \A q \in Procs : q # p => pc[q] = "idle" /\ pc'[q] = "idle"
    BY <1>9, OthersIdle DEF Step
  <2>3. ASSUME NEW g \in Hashes, client'[g] = "sharerr" PROVE Recorded(g)' \/ Recording(p, g)'
    <3>1. CASE g = h
      BY <2>1, <3>1 DEF Recording
    <3>2. CASE g # h
      <4>1. client[g] = "sharerr"
        BY <1>a, <2>1, <2>3, <3>2
      <4>2. Recorded(g)
        BY <2>1, <2>2, <4>1, AllRecorded
      <4> QED BY <2>1, <4>2 DEF Recorded
    <3> QED BY <3>1, <3>2
  <2>4. ASSUME NEW j \in work[p].queue, Stopped(rows[j]) PROVE Stopped(rows[j])'
    <3>1. j \in Items /\ j # i
      BY <1>a, <1>b, <2>1 DEF Plan
    <3>2. rows[j].created => rows[j].hash \in Hashes /\ rows[j].hash # h
      BY <1>a, <1>d, <2>1, <3>1 DEF OfItem, OneFileEach
    <3> QED BY <1>a, <2>1, <2>4, <3>2 DEF Stopped
  <2>5. Account(p)'
    BY <1>a, <2>1, <2>4 DEF Account
  <2> QED BY <2>2, <2>3, <2>5, AccountedOf
<1>10. ASSUME NEW p \in Procs, Record(p) PROVE Accounted'
  <2> DEFINE i == work[p].item
  <2>1. /\ pc[p] = "record" /\ i \in Items /\ client' = client /\ NextItem(p)
        /\ rows' = [rows EXCEPT ![i] = set_seeding(@, work[p].hash, work[p].created)]
    BY <1>10, <1>c DEF Record, Typed, InHand
  <2>2. rows[i].state = "Pending"
    BY <1>a, <2>1 DEF Account
  <2>3. /\ rows'[i] = [state |-> "Seeding", hash |-> work[p].hash, created |-> work[p].created]
        /\ \A j \in Items : j # i => rows'[j] = rows[j]
    BY <1>a, <2>1, <2>2 DEF set_seeding
  <2>4. /\ pc'[p] = "share"
        /\ work'[p].queue = work[p].queue /\ work'[p].ended = work[p].ended
    BY <1>b, <2>1 DEF NextItem, Goto, SetWork, Typed, TypeOK, Work
  <2>5. \A q \in Procs : q # p => pc[q] = "idle" /\ pc'[q] = "idle"
    BY <1>10, OthersIdle DEF Step
  <2>6. ASSUME NEW h \in Hashes, client'[h] = "sharerr" PROVE Recorded(h)'
    <3>1. Recorded(h) \/ Recording(p, h)
      BY <2>1, <2>5, <2>6 DEF Accounted, Recording
    <3>2. CASE Recording(p, h)
      BY <2>1, <2>3, <3>2 DEF Recording, Recorded
    <3>3. CASE Recorded(h)
      BY <2>2, <2>3, <3>3 DEF Recorded
    <3> QED BY <3>1, <3>2, <3>3
  <2>7. i \notin work[p].queue
    BY <1>a, <2>1 DEF Plan
  <2>8. ASSUME NEW j \in work'[p].queue \ work'[p].ended, rows'[j].state = "Seeding"
        PROVE  Stopped(rows[j])'
    <3>1. j \in work[p].queue \ work[p].ended /\ j \in Items /\ j # i
      BY <1>b, <2>4, <2>7, <2>8
    <3>2. rows'[j] = rows[j]
      BY <2>3, <3>1
    <3>3. Stopped(rows[j])
      BY <1>a, <2>1, <2>8, <3>1, <3>2 DEF Account
    <3> QED BY <2>1, <3>2, <3>3 DEF Stopped
  <2>9. Account(p)'
    BY <2>4, <2>8 DEF Account
  <2> QED BY <2>5, <2>6, <2>9, AccountedOf
<1>11. ASSUME NEW p \in Procs, MarkFailed(p) \/ MarkUnshared(p) \/ ResetRow(p)
       PROVE  Accounted'
  <2> DEFINE i == work[p].item
  <2>1. /\ pc[p] \in {"mark", "unshare"} /\ i \in Items /\ client' = client
        /\ NextItem(p) \/ EndPass(p) \/ StartReading(p)
        /\ \A j \in Items : j # i => rows'[j] = rows[j]
    BY <1>11, <1>a DEF MarkFailed, MarkUnshared, ResetRow, Typed, InHand
  <2>2. rows[i].state # "Seeding" \/ Stopped(rows[i])
    BY <1>a, <2>1 DEF Account, Plan
  <2>3. \/ /\ pc'[p] = "share" /\ work'[p].queue = work[p].queue
           /\ work'[p].ended = work[p].ended
        \/ pc'[p] = "idle"
        \/ pc'[p] = "read" /\ "list" \in seen'[p].todo
    <3>1. CASE NextItem(p)
      BY <1>b, <3>1 DEF NextItem, Goto, SetWork, Typed, TypeOK, Work
    <3>2. CASE EndPass(p)
      BY <3>2 DEF EndPass, Goto, Typed, TypeOK
    <3>3. CASE StartReading(p)
      BY <3>3, EmptyTyped DEF StartReading, Goto, SetSeen, Typed, TypeOK, Seen, Reads
    <3> QED BY <2>1, <3>1, <3>2, <3>3
  <2>4. i \notin work[p].queue
    BY <1>a, <2>1 DEF Plan
  <2>5. ASSUME pc'[p] = "share", NEW j \in work'[p].queue \ work'[p].ended,
               rows'[j].state = "Seeding"
        PROVE  Stopped(rows[j])'
    <3>1. j \in work[p].queue \ work[p].ended /\ j \in Items /\ j # i
      BY <1>b, <2>3, <2>4, <2>5
    <3>2. rows'[j] = rows[j]
      BY <2>1, <3>1
    <3>3. Stopped(rows[j])
      BY <1>a, <2>1, <2>5, <3>1, <3>2 DEF Account
    <3> QED BY <2>1, <3>2, <3>3 DEF Stopped
  <2>6. Account(p)'
    BY <2>3, <2>5 DEF Account
  <2>7. Step(p)
    BY <1>11 DEF Step
  <2> QED BY <2>1, <2>2, <2>6, <2>7, OthersIdle, RecordedKept, AccountedOf
<1>12. ASSUME NEW p \in Procs, RemoveTorrent(p) PROVE Accounted'
  <2>1. /\ pc[p] = "remove" /\ pc'[p] = "unshare" /\ rows' = rows /\ work' = work
        /\ \A h \in Hashes : client'[h] = "sharerr" => client[h] = "sharerr"
    BY <1>12, <1>a, <1>c DEF RemoveTorrent, Goto, Typed, TypeOK
  <2>2. Account(p)'
    BY <1>a, <1>b, <1>d, <2>1 DEF Account, Stopped
  <2>3. Step(p)
    BY <1>12 DEF Step
  <2> QED BY <2>1, <2>2, <2>3, OthersIdle, RecordedKept, AccountedOf
<1>13. ASSUME UNCHANGED <<rows, pc, seen, work>>,
              \A h \in Hashes : client'[h] = "sharerr" => client[h] = "sharerr"
       PROVE  Accounted'
  <2>1. ASSUME NEW p \in Procs PROVE Account(p)'
    <3>1. ASSUME NEW i \in Items, Stopped(rows[i]) PROVE Stopped(rows[i])'
      BY <1>13, <1>d, <3>1 DEF Stopped
    <3>2. ASSUME pc[p] \notin {"idle", "read"}, NEW i \in work[p].queue \ work[p].ended,
                 rows[i].state = "Seeding"
          PROVE  Stopped(rows[i])'
      BY <1>a, <1>b, <3>1, <3>2 DEF Account
    <3>3. ASSUME pc[p] = "read", "list" \notin seen[p].todo, NEW h \in Hashes \ seen[p].listed
          PROVE  client'[h] # "sharerr"
      BY <1>13, <1>a, <3>3 DEF Account
    <3> QED BY <1>13, <1>a, <3>2, <3>3 DEF Account
  <2> QED BY <1>13, <2>1 DEF Accounted, Recorded, Recording
<1>14. ASSUME NEW h \in Hashes, OperatorTorrent(h) PROVE Accounted'
  BY <1>14, <1>13, <1>a DEF OperatorTorrent
<1>15. ASSUME \/ \E i \in Items : ToggleTag(i) \/ set_share_until(i)
              \/ \E f \in Files : ChangeFile(f)
              \/ NextDay \/ CalmDown \/ UNCHANGED vars
       PROVE  Accounted'
  BY <1>15, <1>13 DEF ToggleTag, set_share_until, ChangeFile, NextDay, CalmDown, vars
<1>16. ASSUME NEW p \in Procs, Cancel(p) PROVE FALSE
  BY <1>16, <1>c DEF Cancel
<1> QED
  BY <1>1, <1>2, <1>3, <1>4, <1>5, <1>6, <1>7, <1>8, <1>9, <1>10, <1>11, <1>12,
     <1>14, <1>15, <1>16
  DEF Next, Request, Step, Environment

\* While nothing fails and passes do not overlap, a withdrawn item leaves no torrent of its
\* own running, and a seeding row over a torrent that sharerr added says that it did, for
\* any number of items with a file each: created_by_sharerr can be believed both ways.
THEOREM OwnerOnRecord ==
    ASSUME OneFileEach, NoFailures
    PROVE  Spec /\ []OneAtATime => []SharesRightly
<1>1. Typed /\ Typed' /\ OneAtATime /\ OneAtATime' /\ Orderly /\ [Next]_vars => Orderly'
  BY StepOrderly
<1>2. /\ Typed /\ Typed' /\ OneAtATime /\ OneAtATime' /\ Orderly /\ Servable /\ Accounted
      /\ [Next]_vars
      => Accounted'
  BY StepAccounted DEF Servable
<1>3. Typed /\ OneAtATime /\ Orderly /\ Accounted => SharesRightly
  <2> SUFFICES ASSUME Typed, OneAtATime, Orderly, Accounted,
                      NEW i \in Items, rows[i].state = "Seeding",
                      client[rows[i].hash] = "sharerr"
               PROVE  rows[i].created
    BY DEF SharesRightly, OwnTorrentOwned, Orderly
  <2>1. rows[i] \in Row /\ OfItem(rows[i], i)
    BY DEF Typed, TypeOK, Orderly, FilesRight
  <2>2. rows[i].hash \in Hashes /\ rows[i].hash[2] = FileOf[i]
    BY <2>1 DEF Row, OfItem
  <2>3. CASE Recorded(rows[i].hash)
    <3>1. PICK j \in Items : rows[j] = [state |-> "Seeding", hash |-> rows[i].hash,
                                        created |-> TRUE]
      BY <2>3 DEF Recorded
    <3>2. rows[j].hash = rows[i].hash /\ rows[j].created
      BY <3>1
    <3>3. FileOf[j] = FileOf[i]
      BY <2>1, <3>2 DEF Orderly, FilesRight, OfItem
    <3> QED BY <3>2, <3>3 DEF OneFileEach
  <2>4. ASSUME NEW p \in Procs, Recording(p, rows[i].hash) PROVE FALSE
    <3>1. work[p].item \in Items /\ FileOf[work[p].item] = FileOf[i]
      BY <2>2, <2>4 DEF Recording, Typed, InHand, Orderly, FilesRight
    <3>2. rows[work[p].item].state = "Pending"
      BY <2>4 DEF Recording, Accounted, Account
    <3> QED BY <3>1, <3>2 DEF OneFileEach
  <2> QED BY <2>2, <2>3, <2>4 DEF Accounted
<1>4. Init => Servable
  BY DEF Init, Servable, AdoptedServable, CachedWork, NoRow
<1>5. Typed /\ Servable /\ [Next]_vars => Servable'
  BY StepServable
<1> QED
  BY <1>1, <1>2, <1>3, <1>4, <1>5, InitOrderly, InitAccounted, InitTyped, StepTyped, PTL
  DEF Spec

=============================================================================
