-------------------------------- MODULE Sync --------------------------------
(***************************************************************************)
(* The reconciliation pass of crates/sharerr/src/sync: what the library    *)
(* sources tag is made to match what the torrent client seeds, with one    *)
(* row of the store per item in between.                                   *)
(*                                                                         *)
(* A process runs Syncer::run (the background loop, a web handler or the   *)
(* `sharerr sync` command) or one of the item page's handlers.  No lock    *)
(* orders two of them: each reads its own snapshots, works through them    *)
(* and writes rows, the client and the .torrent cache step by step, so     *)
(* every await between two effects is a point where another process, the   *)
(* operator or a crash may come in.                                        *)
(*                                                                         *)
(* Announce URLs, limits, ratios and file stamps change nothing a pass     *)
(* decides on and are left out here.                                       *)
(***************************************************************************)
EXTENDS Naturals, FiniteSets

CONSTANTS
    Items,          \* what may be tagged; each is one row key (source, file_id)
    Sources,        \* the configured library sources
    SourceOf,       \* the source an item belongs to
    PartialSources, \* sources whose scan may be incomplete ([[library]] trees)
    Files,          \* media files
    FileOf,         \* the file an item names
    Versions,       \* contents a file may have over time, told apart by size
    FriendFiles,    \* files a friend's catalog offers a torrent of
    Theirs,         \* torrents the operator may add by hand: one of their own
                    \* making ("operator"), a friend's ("friend")
    MayRetake,      \* whether those include one sharerr has added before
    Procs,          \* processes that run passes
    WebProcs,       \* the ones started by the item page's handlers
    WebOps,         \* which of "retry", "unshare", "rebuild" are used
    Backend,        \* the torrent client that is configured
    MayMove,        \* whether the operator relocates torrents in the client
    Upheavals,      \* what may happen: "tag", "file", "date" and "client"
                    \* change, "scan" or any other "fault", "crash",
                    \* and an "end" to all that
    MaxClock,       \* last day that is reached
    NoHash,
    NoItem

ASSUME ItemsAssumption ==
    /\ SourceOf \in [Items -> Sources]
    /\ FileOf \in [Items -> Files]
    /\ PartialSources \subseteq Sources
    /\ Sources \cap {"list", "rows", "ends"} = {}
    /\ NoItem \notin Items
ASSUME TorrentsAssumption ==
    /\ FriendFiles \subseteq Files
    /\ Theirs \subseteq {"operator", "friend"}
    /\ MayRetake \in BOOLEAN
    /\ Backend \in {"qbit", "transmission", "deluge", "rtorrent"}
    /\ MayMove \in BOOLEAN
    /\ NoHash \notin {"built", "operator", "friend"} \X Files \X Versions
ASSUME ProcsAssumption ==
    /\ WebProcs \subseteq Procs
    /\ WebOps \subseteq {"retry", "unshare", "rebuild"}
    /\ Upheavals \subseteq {"tag", "file", "date", "client", "scan",
                      "fault", "crash", "end"}
    /\ MaxClock \in Nat \ {0}

VARIABLES
    tagged,   \* [Items -> BOOLEAN]: carries the share tag at its source
    content,  \* [Files -> Versions]: what the file holds now
    present,  \* [Files -> BOOLEAN]: sharerr can see the file
    until,    \* [Items -> 1 .. MaxClock+1]: share_until, MaxClock+1 for none
    clock,    \* the current day
    rows,     \* [Items -> Row]: the shared_items table
    client,   \* [Hashes -> Adders]: the client's torrents and who added them
    moved,    \* torrents in the client whose data is outside the library path
    cache,    \* info hashes with a .torrent in torrent_dir
    pc,       \* [Procs -> control point]
    seen,     \* [Procs -> Seen]: the snapshots a pass works from
    work,     \* [Procs -> Work]: where it is in them
    calm,     \* from here on nothing fails and the operator changes nothing
    added,    \* history: hashes an add call of sharerr has put in the client
    gone      \* history: [Procs -> items untagged at some time in this pass]

library == <<tagged, content, present, until, clock>>
history == <<added, gone>>
vars == <<library, rows, client, moved, cache, pc, seen, work, calm, history>>

-----------------------------------------------------------------------------
Hashes == {"built", "operator", "friend"} \X Files \X Versions
\* "left": sharerr's, but the client refused to remove it, which leaves it to
\* the operator "to clean up by hand".
Adders == {"absent", "sharerr", "left", "operator"}
States == {"absent", "Pending", "Seeding", "Failed", "Unshared"}
Row == [state: States, hash: Hashes \cup {NoHash}, created: BOOLEAN]
NoRow == [state |-> "absent", hash |-> NoHash, created |-> FALSE]
Never == MaxClock + 1

\* The reads reconcile joins: each source, the client's list, the store's rows
\* and, by a query of its own, their share_until dates.
Reads == Sources \cup {"list", "rows", "ends"}

Seen == [todo: SUBSET Reads, found: SUBSET Items, scanned: SUBSET Sources,
         withdrawable: SUBSET Sources, listed: SUBSET Hashes,
         covering: SUBSET Hashes, known: [Items -> Row],
         ends: [Items -> 1 .. Never]]
NothingSeen == [todo |-> {}, found |-> {}, scanned |-> {},
                withdrawable |-> {}, listed |-> {}, covering |-> {},
                known |-> [i \in Items |-> NoRow],
                ends |-> [i \in Items |-> Never]]

Work == [queue: SUBSET Items, ended: SUBSET Items, stale: SUBSET Items,
         item: Items \cup {NoItem}, hash: Hashes \cup {NoHash},
         created: BOOLEAN, next: {"share", "idle", "read"}]
NoWork == [queue |-> {}, ended |-> {}, stale |-> {}, item |-> NoItem,
           hash |-> NoHash, created |-> FALSE, next |-> "share"]

PCs == {"idle", "read", "share", "seed", "add", "record", "mark", "remove",
        "unshare"}

TypeOK ==
    /\ tagged \in [Items -> BOOLEAN]
    /\ content \in [Files -> Versions]
    /\ present \in [Files -> BOOLEAN]
    /\ until \in [Items -> 1 .. Never]
    /\ clock \in 1 .. MaxClock
    /\ rows \in [Items -> Row]
    /\ client \in [Hashes -> Adders]
    /\ moved \subseteq Hashes
    /\ cache \subseteq Hashes
    /\ pc \in [Procs -> PCs]
    /\ seen \in [Procs -> Seen]
    /\ work \in [Procs -> Work]
    /\ calm \in BOOLEAN
    /\ added \subseteq Hashes
    /\ gone \in [Procs -> SUBSET Items]

Init ==
    /\ tagged \in [Items -> BOOLEAN]
    /\ content \in [Files -> Versions]
    /\ present = [f \in Files |-> TRUE]
    /\ until = [i \in Items |-> Never]
    /\ clock = 1
    /\ rows = [i \in Items |-> NoRow]
    /\ client = [h \in Hashes |-> "absent"]
    /\ moved = {}
    /\ cache = {}
    /\ pc = [p \in Procs |-> "idle"]
    /\ seen = [p \in Procs |-> NothingSeen]
    /\ work = [p \in Procs |-> NoWork]
    /\ calm = FALSE
    /\ added = {}
    /\ gone = [p \in Procs |-> {}]

-----------------------------------------------------------------------------
(* The store's writes.  An UPDATE of an item without a row changes nothing. *)

\* Mutant: the state is spelled differently from what the readers parse.
upsert_misspelled(r) == [r EXCEPT !.state = "pending"]

\* A rediscovered item goes back to Pending; COALESCE keeps its info hash, and
\* created_by_sharerr is not in the conflict clause at all.
upsert(r) == [r EXCEPT !.state = "Pending"]

set_state(r, s) == IF r.state = "absent" THEN r ELSE [r EXCEPT !.state = s]

\* Mutant: who added the torrent is left as it was.
set_seeding_keeps_created(r, h, created) ==
    IF r.state = "absent" THEN r
    ELSE [state |-> "Seeding", hash |-> h, created |-> r.created]

\* The hash, who added it and the state change in one write.
set_seeding(r, h, created) ==
    IF r.state = "absent" THEN r
    ELSE [state |-> "Seeding", hash |-> h, created |-> created]

reset_for_rebuild(r) ==
    IF r.state = "absent" THEN r
    ELSE [state |-> "Pending", hash |-> NoHash, created |-> FALSE]

(* What a pass decides from its snapshots. *)

\* Mutant: the row alone is believed.
StillLive_row_only(s, i) ==
    s.known[i].state = "Seeding" /\ s.known[i].hash # NoHash

\* The client still lists the torrent of a row that says Seeding.
StillLive(s, i) ==
    /\ s.known[i].state = "Seeding"
    /\ s.known[i].hash # NoHash
    /\ s.known[i].hash \in s.listed

\* share_until dates that have come, among the items found.
Ended(s) == {i \in s.found : s.ends[i] <= clock}

\* Mutant: any source that answered is taken at its word.
Stale_scanned(s) ==
    {i \in Items : /\ SourceOf[i] \in s.scanned
                   /\ i \notin s.found
                   /\ s.known[i].state \in {"Seeding", "Pending", "Failed"}}

\* withdraw_untagged: rows to withdraw on behalf of sources that answered whole.
Stale(s) ==
    {i \in Items : /\ SourceOf[i] \in s.withdrawable
                   /\ i \notin s.found
                   /\ s.known[i].state \in {"Seeding", "Pending", "Failed"}}

\* Mutant: only a torrent that is seeding is thought worth removing.
Owns_seeding(r) == r.hash # NoHash /\ r.created /\ r.state = "Seeding"

\* The client's licence to remove the torrent of a row as it was read.
Owns(r) == r.hash # NoHash /\ r.created

\* A call to a source, the client, the disk or the store may fail now.
Faulty == ~calm /\ "fault" \in Upheavals

\* find_existing: listed torrents whose content path is the item's file.
find_existing(s, i) == {h \in s.covering : h[2] = FileOf[i]}

\* What the search comes back with: one whose file list could not be read is
\* passed over.
Covers(s, i) == {find_existing(s, i)} \cup {found \in {{}} : Faulty}

\* catalog_matches: the torrent of the file as it is now that a friend's
\* catalog offers, if one does.
catalog_matches(i, offered) ==
    {h \in {<<"friend", FileOf[i], content[FileOf[i]]>>} : offered}

\* fetch_from_friend: the friend may not answer, and what they send is taken
\* only if its hash, its name and every piece are right, so a match may come to
\* nothing without anything having failed.  What is taken is cached.
fetch_from_friend(matches) == SUBSET matches

\* reuse_cached: the .torrent under the recorded hash still fits the file.
reuse_cached(s, i) ==
    {h \in cache : h = s.known[i].hash /\ h[3] = content[FileOf[i]]}

Goto(p, at) == pc' = [pc EXCEPT ![p] = at]
SetSeen(p, s) == seen' = [seen EXCEPT ![p] = s]
SetWork(p, w) == work' = [work EXCEPT ![p] = w]

\* Back to the item loop, with nothing in hand.
NextItem(p) ==
    /\ Goto(p, "share")
    /\ SetWork(p, [work[p] EXCEPT !.item = NoItem, !.hash = NoHash,
                                  !.created = FALSE])

\* share gives up on the item in hand.
ToMark(p) == Goto(p, "mark") /\ work' = work

-----------------------------------------------------------------------------
(* Syncer::run and the joined reads of reconcile. *)

StartReading(p) ==
    /\ Goto(p, "read")
    /\ SetSeen(p, [NothingSeen EXCEPT !.todo = Reads])
    /\ SetWork(p, NoWork)
    /\ gone' = [gone EXCEPT ![p] = {i \in Items : ~tagged[i]}]

\* The loop's next pass, `sharerr sync`, or the retry handler's direct run.
StartPass(p) ==
    /\ pc[p] = "idle"
    /\ p \in WebProcs =>
          "retry" \in WebOps /\ \E i \in Items : rows[i].state # "absent"
    /\ StartReading(p)
    /\ UNCHANGED <<library, rows, client, moved, cache, calm, added>>

\* A pass that ends: all it holds is dropped.
EndPass(p) ==
    /\ Goto(p, "idle")
    /\ SetSeen(p, NothingSeen)
    /\ SetWork(p, NoWork)
    /\ gone' = [gone EXCEPT ![p] = {}]

\* One source's answer: nothing, part of what it tags, or all of it.
Answer(p, s, items, ok, whole) ==
    LET was == seen[p]
    IN SetSeen(p, [was EXCEPT
          !.todo = was.todo \ {s},
          !.found = was.found \cup items,
          !.scanned = was.scanned \cup (IF ok THEN {s} ELSE {}),
          !.withdrawable = was.withdrawable \cup (IF whole THEN {s} ELSE {})])

discover(p, s) ==
    LET carried == {i \in Items : SourceOf[i] = s /\ tagged[i]}
    IN /\ pc[p] = "read"
       /\ s \in seen[p].todo \cap Sources
       /\ \/ Answer(p, s, carried, TRUE, TRUE)
          \/ /\ ~calm /\ "scan" \in Upheavals
             /\ s \in PartialSources
             /\ \E some \in SUBSET carried : Answer(p, s, some, TRUE, FALSE)
          \/ /\ ~calm /\ "scan" \in Upheavals
             /\ Answer(p, s, {}, FALSE, FALSE)
       /\ UNCHANGED <<library, rows, client, moved, cache, pc, work, calm, history>>

\* qbit.list: every hash, and which of them sit at the library path.
ReadList(p) ==
    LET present_now == {h \in Hashes : client[h] # "absent"}
    IN /\ pc[p] = "read"
       /\ "list" \in seen[p].todo
       /\ SetSeen(p, [seen[p] EXCEPT !.todo = seen[p].todo \ {"list"},
                                     !.listed = present_now,
                                     !.covering = present_now \ moved])
       /\ UNCHANGED <<library, rows, client, moved, cache, pc, work, calm, history>>

\* all_items.
ReadRows(p) ==
    /\ pc[p] = "read"
    /\ "rows" \in seen[p].todo
    /\ SetSeen(p, [seen[p] EXCEPT !.todo = seen[p].todo \ {"rows"}, !.known = rows])
    /\ UNCHANGED <<library, rows, client, moved, cache, pc, work, calm, history>>

\* share_ends.
ReadEnds(p) ==
    /\ pc[p] = "read"
    /\ "ends" \in seen[p].todo
    /\ SetSeen(p, [seen[p] EXCEPT !.todo = seen[p].todo \ {"ends"}, !.ends = until])
    /\ UNCHANGED <<library, rows, client, moved, cache, pc, work, calm, history>>

\* A read that errors stops the pass before it has changed anything, and so
\* does a pass no source answered.
BailOut(p) ==
    /\ pc[p] = "read"
    /\ \/ Faulty
       \/ seen[p].todo = {} /\ seen[p].scanned = {}
    /\ EndPass(p)
    /\ UNCHANGED <<library, rows, client, moved, cache, calm, added>>

\* Items of the loop that need no step here: ended and already withdrawn, or
\* seeding and live (confirm_live touches limits, announce and ratio only).
Unchanged(s) ==
    {i \in s.found : IF i \in Ended(s)
                     THEN s.known[i].state \in {"absent", "Unshared"}
                     ELSE StillLive(s, i)}

\* The clock is read once, after the join.  The snapshots settle which items
\* each part of the loop takes up; what no later step reads is dropped.
BeginItems(p) ==
    LET s == seen[p]
        queue == s.found \ Unchanged(s)
        sharing == queue \ Ended(s)
    IN /\ pc[p] = "read"
       /\ s.todo = {}
       /\ s.scanned # {}
       /\ Goto(p, "share")
       /\ SetWork(p, [work[p] EXCEPT !.queue = queue,
                                     !.ended = Ended(s) \cap queue,
                                     !.stale = Stale(s)])
       /\ SetSeen(p, [NothingSeen EXCEPT
             !.listed = IF sharing = {} THEN {} ELSE s.listed,
             !.covering = IF sharing = {} THEN {} ELSE s.covering,
             !.known = [i \in Items |-> IF i \in queue \cup Stale(s)
                                        THEN s.known[i] ELSE NoRow]])
       /\ UNCHANGED <<library, rows, client, moved, cache, calm, history>>

-----------------------------------------------------------------------------
(* The item loop of reconcile. *)

\* Mutant: the row is marked and the torrent forgotten.
BeginUnshare_marks(p, i, next) ==
    /\ Goto(p, "unshare")
    /\ SetWork(p, [work[p] EXCEPT
          !.queue = work[p].queue \ {i},
          !.stale = work[p].stale \ {i},
          !.item = i,
          !.next = next])

\* unshare_one as the loop calls it, on the row as the pass read it.
BeginUnshare(p, i, next) ==
    /\ Goto(p, "remove")
    /\ SetWork(p, [work[p] EXCEPT
          !.queue = work[p].queue \ {i},
          !.stale = work[p].stale \ {i},
          !.item = i,
          !.next = next])

\* The share ended on its date.
EndShare(p, i) ==
    /\ pc[p] = "share"
    /\ i \in work[p].queue \cap work[p].ended
    /\ BeginUnshare(p, i, "share")
    /\ UNCHANGED <<library, rows, client, moved, cache, seen, calm, history>>

\* share past the fast path: the row is recorded before anything can fail.
BeginShare(p, i) ==
    /\ pc[p] = "share"
    /\ i \in work[p].queue \ work[p].ended
    /\ SetWork(p, [work[p] EXCEPT !.queue = work[p].queue \ {i}, !.item = i])
    /\ \/ rows' = [rows EXCEPT ![i] = upsert(@)] /\ Goto(p, "seed")
       \/ Faulty /\ rows' = rows /\ Goto(p, "mark")
    /\ UNCHANGED <<library, client, moved, cache, seen, calm, history>>

\* The torrent seed settled on, and whether sharerr is to add it itself.
Settle(p, h, created, at) ==
    /\ SetWork(p, [work[p] EXCEPT !.hash = h, !.created = created])
    /\ Goto(p, at)

\* Only qBittorrent hands a .torrent back.
Exports == Backend = "qbit"

\* add_trackers of a torrent the client does not have: Transmission reads and
\* writes an empty list, Deluge reads one and may refuse to write it.
TracksAbsent == Backend \in {"transmission", "deluge"}

\* Mutant: an adopted torrent is recorded as sharerr's own.
adopt_claims(p, h) ==
    /\ client[h] # "absent" \/ TracksAbsent
    /\ h \in cache \/ Exports
    /\ cache' = cache \cup {h}
    /\ Settle(p, h, TRUE, "record")

\* Mutant: nothing is cached for the feed to serve.
adopt_uncached(p, h) ==
    /\ client[h] # "absent" \/ TracksAbsent
    /\ cache' = cache
    /\ Settle(p, h, FALSE, "record")

\* adopt: our tracker is added to a torrent the client listed, and its .torrent
\* is cached, exported from the client when sharerr has none.
adopt(p, h) ==
    /\ client[h] # "absent" \/ TracksAbsent
    /\ h \in cache \/ Exports
    /\ cache' = cache \cup {h}
    /\ Settle(p, h, FALSE, "record")

\* seed up to qbit.add.  `offered` says whether a friend's catalog matches now.
seed(p, offered) ==
    LET i == work[p].item
        s == seen[p]
        matches == catalog_matches(i, offered)
        held == s.listed \cap matches
        built == <<"built", FileOf[i], content[FileOf[i]]>>
    IN /\ pc[p] = "seed"
       /\ present[FileOf[i]]
       /\ offered => FileOf[i] \in FriendFiles
       /\ \E existing \in Covers(s, i) :
             \/ \E h \in existing : adopt(p, h)
             \/ existing = {} /\ \E h \in held : adopt(p, h)
             \/ /\ existing = {} /\ held = {}
                /\ \E h \in reuse_cached(s, i) : Settle(p, h, TRUE, "add")
                /\ cache' = cache
             \/ /\ existing = {} /\ held = {}
                /\ reuse_cached(s, i) = {} \/ Faulty
                /\ \E fetched \in fetch_from_friend(matches) :
                      \/ \E h \in fetched : /\ cache' = cache \cup {h}
                                             /\ Settle(p, h, TRUE, "add")
                      \/ /\ fetched = {}
                         /\ cache' = cache \cup {built} \/ (Faulty /\ cache' = cache)
                         /\ Settle(p, built, TRUE, "add")
       /\ UNCHANGED <<library, rows, client, moved, seen, calm, history>>

\* The file is missing, or a step of seed fails: a torrent to adopt that has
\* left the client or cannot be exported, or any error along the way.
SeedFails(p) ==
    LET i == work[p].item
        existing == find_existing(seen[p], i)
        held == seen[p].listed \cap catalog_matches(i, FileOf[i] \in FriendFiles)
    IN /\ pc[p] = "seed"
       /\ \/ ~present[FileOf[i]]
          \/ Faulty
          \/ \E h \in IF existing # {} THEN existing ELSE held :
                \/ client[h] = "absent" /\ Backend # "transmission"
                \/ h \notin cache /\ ~Exports
       /\ Goto(p, "mark")
       /\ UNCHANGED <<library, rows, client, moved, cache, seen, work, calm, history>>

\* qbit.add of a torrent the client does not have.
AddTorrent(p) ==
    LET h == work[p].hash
    IN /\ pc[p] = "add"
       /\ client[h] = "absent"
       /\ client' = [client EXCEPT ![h] = "sharerr"]
       /\ moved' = moved \ {h}
       /\ added' = added \cup {h}
       /\ Goto(p, "record") \/ (Faulty /\ Goto(p, "mark"))   \* the answer is lost
       /\ UNCHANGED <<library, rows, cache, seen, work, calm, gone>>

\* qbit.add of one it has: qBittorrent refuses, for Transmission and Deluge
\* that is success, and rTorrent loads in the background without an answer.
AddDuplicate(p) ==
    /\ pc[p] = "add"
    /\ client[work[p].hash] # "absent"
    /\ Goto(p, IF Backend = "qbit" THEN "mark" ELSE "record")
    /\ UNCHANGED <<library, rows, client, moved, cache, seen, work, calm, history>>

AddFails(p) ==
    /\ pc[p] = "add"
    /\ Faulty
    /\ Goto(p, "mark")
    /\ UNCHANGED <<library, rows, client, moved, cache, seen, work, calm, history>>

\* set_seeding, then the writes of the v2 hash and the origin: an error of the
\* first leaves the row as it was, one of the others comes after it changed.
Record(p) ==
    LET i == work[p].item
    IN /\ pc[p] = "record"
       /\ \/ /\ rows' = [rows EXCEPT ![i] =
                               set_seeding(@, work[p].hash, work[p].created)]
             /\ NextItem(p) \/ (Faulty /\ ToMark(p))
          \/ Faulty /\ rows' = rows /\ ToMark(p)
       /\ UNCHANGED <<library, client, moved, cache, seen, calm, history>>

\* share returned an error: the row says Failed, if that write works.
MarkFailed(p) ==
    /\ pc[p] = "mark"
    /\ \/ rows' = [rows EXCEPT ![work[p].item] = set_state(@, "Failed")]
       \/ Faulty /\ rows' = rows
    /\ NextItem(p)
    /\ UNCHANGED <<library, client, moved, cache, seen, calm, history>>

-----------------------------------------------------------------------------
(* Withdrawal, shared by the loop's end, an ended share and the handlers. *)

\* withdraw_untagged, once every item found has had its turn.
Withdraw(p, i) ==
    /\ pc[p] = "share"
    /\ work[p].queue = {}
    /\ i \in work[p].stale
    /\ BeginUnshare(p, i, "share")
    /\ UNCHANGED <<library, rows, client, moved, cache, seen, calm, history>>

FinishPass(p) ==
    /\ pc[p] = "share"
    /\ work[p].queue = {}
    /\ work[p].stale = {}
    /\ EndPass(p)
    /\ UNCHANGED <<library, rows, client, moved, cache, calm, added>>

\* The client half of unshare_one and prepare_rebuild: the torrent is removed
\* if the row says sharerr added it, and a refusal is only logged.
RemoveTorrent(p) ==
    LET r == seen[p].known[work[p].item]
    IN /\ pc[p] = "remove"
       /\ \/ /\ Owns(r)
             /\ client' = [client EXCEPT ![r.hash] = "absent"]
             /\ moved' = moved \ {r.hash}
          \/ /\ Owns(r) /\ Faulty
             /\ client' = [client EXCEPT ![r.hash] =
                              IF @ = "sharerr" THEN "left" ELSE @]
             /\ moved' = moved
          \/ /\ ~Owns(r)
             /\ UNCHANGED <<client, moved>>
       /\ Goto(p, "unshare")
       /\ UNCHANGED <<library, rows, cache, seen, work, calm, added, gone>>

\* The store half of unshare_one.  A pass goes on, a handler is done.
MarkUnshared(p) ==
    /\ pc[p] = "unshare"
    /\ work[p].next # "read"
    /\ \/ rows' = [rows EXCEPT ![work[p].item] = set_state(@, "Unshared")]
       \/ Faulty /\ rows' = rows
    /\ IF work[p].next = "share" THEN NextItem(p) /\ UNCHANGED <<seen, gone>>
                                 ELSE EndPass(p)
    /\ UNCHANGED <<library, client, moved, cache, calm, added>>

\* The store half of prepare_rebuild, the row and then its origin; the handler
\* goes on to run a pass, or gives up if either write failed.
ResetRow(p) ==
    LET reset == [rows EXCEPT ![work[p].item] = reset_for_rebuild(@)]
    IN /\ pc[p] = "unshare"
       /\ work[p].next = "read"
       /\ \/ rows' = reset /\ StartReading(p)
          \/ Faulty /\ rows' \in {rows, reset} /\ EndPass(p)
       /\ UNCHANGED <<library, client, moved, cache, calm, added>>

\* A handler of the item page loads the item and acts on that copy.
ActOn(p, i, next) ==
    /\ pc[p] = "idle"
    /\ p \in WebProcs
    /\ rows[i].state # "absent"
    /\ SetSeen(p, [NothingSeen EXCEPT !.known =
                      [NothingSeen.known EXCEPT ![i] = rows[i]]])
    /\ BeginUnshare(p, i, next)
    /\ UNCHANGED <<library, rows, client, moved, cache, calm, history>>

unshare(p, i) ==
    /\ "unshare" \in WebOps
    /\ rows[i].state # "Unshared"
    /\ ActOn(p, i, "idle")

rebuild(p, i) ==
    /\ "rebuild" \in WebOps
    /\ ActOn(p, i, "read")

\* A crash, or a request whose connection goes away: the process is dropped at
\* whatever await it is in, and only what it has written remains.
Cancel(p) ==
    /\ ~calm /\ "crash" \in Upheavals
    /\ pc[p] # "idle"
    /\ EndPass(p)
    /\ UNCHANGED <<library, rows, client, moved, cache, calm, added>>

-----------------------------------------------------------------------------
(* The operator, their library and their torrent client. *)

ToggleTag(i) ==
    /\ ~calm /\ "tag" \in Upheavals
    /\ tagged' = [tagged EXCEPT ![i] = ~@]
    /\ gone' = IF tagged[i] THEN [p \in Procs |->
                    IF pc[p] = "idle" THEN gone[p] ELSE gone[p] \cup {i}]
               ELSE gone
    /\ UNCHANGED <<content, present, until, clock, rows, client, moved, cache,
                   pc, seen, work, calm, added>>

\* A file is upgraded in place, disappears, or comes back.
ChangeFile(f) ==
    /\ ~calm /\ "file" \in Upheavals
    /\ \/ \E v \in Versions \ {content[f]} : content' = [content EXCEPT ![f] = v]
          /\ present' = present
       \/ present' = [present EXCEPT ![f] = ~@] /\ content' = content
    /\ UNCHANGED <<tagged, until, clock, rows, client, moved, cache, pc, seen,
                   work, calm, history>>

\* The share_until handler; it only updates a row that exists.
set_share_until(i) ==
    /\ ~calm /\ "date" \in Upheavals
    /\ rows[i].state # "absent"
    /\ \E d \in 1 .. Never : until' = [until EXCEPT ![i] = d]
    /\ UNCHANGED <<tagged, content, present, clock, rows, client, moved, cache,
                   pc, seen, work, calm, history>>

NextDay ==
    /\ ~calm /\ "date" \in Upheavals
    /\ clock < MaxClock
    /\ clock' = clock + 1
    /\ UNCHANGED <<tagged, content, present, until, rows, client, moved, cache,
                   pc, seen, work, calm, history>>

\* The operator adds a torrent by hand, or removes or relocates any.
OperatorTorrent(h) ==
    /\ ~calm /\ "client" \in Upheavals
    /\ \/ /\ client[h] = "absent"
          /\ h[1] \in Theirs
          /\ h[1] = "friend" => h[2] \in FriendFiles
          /\ h[3] = content[h[2]]
          /\ h \in added => MayRetake
          /\ client' = [client EXCEPT ![h] = "operator"]
          /\ moved' = moved \ {h}
       \/ /\ client[h] # "absent"
          /\ client' = [client EXCEPT ![h] = "absent"]
          /\ moved' = moved \ {h}
       \/ /\ MayMove
          /\ client[h] # "absent"
          /\ moved' = IF h \in moved THEN moved \ {h} ELSE moved \cup {h}
          /\ client' = client
    /\ UNCHANGED <<library, rows, cache, pc, seen, work, calm, history>>

CalmDown ==
    /\ ~calm /\ "end" \in Upheavals
    /\ calm' = TRUE
    /\ UNCHANGED <<library, rows, client, moved, cache, pc, seen, work, history>>

-----------------------------------------------------------------------------
Step(p) ==
    \/ \E s \in Sources : discover(p, s)
    \/ ReadList(p) \/ ReadRows(p) \/ ReadEnds(p)
    \/ BailOut(p) \/ BeginItems(p)
    \/ \E i \in Items : EndShare(p, i) \/ BeginShare(p, i) \/ Withdraw(p, i)
    \/ \E offered \in BOOLEAN : seed(p, offered)
    \/ SeedFails(p)
    \/ AddTorrent(p) \/ AddDuplicate(p) \/ AddFails(p)
    \/ Record(p) \/ MarkFailed(p)
    \/ RemoveTorrent(p) \/ MarkUnshared(p) \/ ResetRow(p)
    \/ FinishPass(p)

Request(p) ==
    \/ StartPass(p)
    \/ \E i \in Items : unshare(p, i) \/ rebuild(p, i)

Environment ==
    \/ \E i \in Items : ToggleTag(i) \/ set_share_until(i)
    \/ \E f \in Files : ChangeFile(f)
    \/ \E h \in Hashes : OperatorTorrent(h)
    \/ NextDay
    \/ CalmDown

Next ==
    \/ \E p \in Procs : Request(p) \/ Step(p) \/ Cancel(p)
    \/ Environment

Spec == Init /\ [][Next]_vars

-----------------------------------------------------------------------------
(* Properties. *)

\* withdraw_untagged acts only on what a source has really said: every row a
\* pass is about to withdraw belongs to an item that was untagged at some time
\* since that pass began.  A source that failed, or listed only part of itself,
\* has withdrawn nothing by its silence.
WithdrawsOnlyUntagged == \A p \in Procs : work[p].stale \subseteq gone[p]

\* unshare_one and prepare_rebuild are never about to take down a torrent the
\* operator put in the client, on whatever copy of the row, however old, they
\* act.
RemovesOnlyOwn ==
    \A p \in Procs :
        LET r == seen[p].known[work[p].item]
        IN pc[p] = "remove" /\ Owns(r) => client[r.hash] # "operator"

\* adopt's contract: a torrent that is shared without being sharerr's has its
\* .torrent in the cache, or the feed would offer what it cannot serve.
AdoptedServable ==
    \A i \in Items :
        rows[i].hash # NoHash /\ ~rows[i].created => rows[i].hash \in cache

\* A withdrawn row leaves no torrent of its own running: nothing would ever
\* look at it again.  (One the client refused to remove is the operator's.)
NoOrphan ==
    \A i \in Items :
        rows[i].state = "Unshared" /\ rows[i].created
            => client[rows[i].hash] # "sharerr"

\* created_by_sharerr says "whether sharerr is the one that added this item's
\* torrent": a seeding row over a torrent sharerr added does say so.
OwnTorrentOwned ==
    \A i \in Items :
        rows[i].state = "Seeding" /\ client[rows[i].hash] = "sharerr"
            => rows[i].created

\* Both ways: what is withdrawn was taken down, and whose a torrent is can be
\* told by its row.
SharesRightly == NoOrphan /\ OwnTorrentOwned

\* What the loop is for, per item: shared exactly when it should be.
Wanted(i) == tagged[i] /\ until[i] > clock
Converged ==
    \A i \in Items :
        IF Wanted(i)
        THEN present[FileOf[i]] => /\ rows[i].state = "Seeding"
                                   /\ client[rows[i].hash] # "absent"
        ELSE rows[i].state \in {"absent", "Unshared"}

\* Once failures stop and the operator leaves things alone, the loop brings
\* every item to where it should be, from any state, and leaves it there.
Converges == <>[]Converged

=============================================================================
