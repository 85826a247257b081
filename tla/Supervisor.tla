----------------------------- MODULE Supervisor -----------------------------
(***************************************************************************)
(* ServeState (state.rs) and the background loop of `sharerr serve`        *)
(* (commands/serve.rs): how a saved setting or credential reaches the      *)
(* syncer and the cached vault values, how a pass is asked for, and how    *)
(* the loop sleeps and wakes.                                              *)
(*                                                                         *)
(* Settings handlers (web/settings/mod.rs), callers that need a vault      *)
(* value and callers that ask for a pass run beside the loop; a lock or a  *)
(* blocking call awaited is a point where another comes in.  A document    *)
(* (sharerr.toml, the vault) is the set of saves it holds, with what the   *)
(* loop reads of it: whether a syncer can be built from it, and whether    *)
(* periodic sync is on.                                                    *)
(***************************************************************************)
EXTENDS Common, Naturals

CONSTANTS
    Saves,       \* requests to the settings handlers
    Kind,        \* [Saves -> which handler: see Kinds]
    Readers,     \* callers that read a vault value through the caches
    MaxAsks,     \* requests for a pass that are explored
    MayBreak,    \* whether a save may leave the syncer unbuildable
    MayAbandon,  \* whether a handler may be dropped at an await
    Enabled      \* the values of sync.enabled a document may have

\* write_config; write_config_and_secret; mutate_tracker_token; save_tracker.
Kinds == {"config", "secret", "token", "tracker"}

ASSUME ConstantsAssumption ==
    /\ Kind \in [Saves -> Kinds]
    /\ MaxAsks \in Nat
    /\ MayBreak \in BOOLEAN /\ MayAbandon \in BOOLEAN
    /\ Enabled \subseteq BOOLEAN /\ Enabled # {}
    /\ None \notin Saves \cup Readers
    /\ \A S \in SUBSET Saves : S # None

VARIABLES
    file,          \* sharerr.toml
    config,        \* the configuration in force
    config_error,  \* whether the file failed to load
    vault,         \* the vault file
    config_write,  \* the save that holds the config-write lock, or None
    saver,         \* [Saves -> where its handler is, and the document it holds]
    syncer,        \* the cached syncer: the documents it was built from, or None
    vault_caches,  \* the Arc of the current set of caches
    slots,         \* [Arcs -> the vault value cached, or None]
    guards,        \* [Arcs -> the reader that holds the slot to fill it, or None]
    reader,        \* [Readers -> where it is, its Arc, what it read]
    pc,            \* where the loop is
    build,         \* the documents ensure_ready has read for a syncer, or None
    pass_requested,
    notifying,     \* requests that have set the flag and not yet the permit
    wake,          \* tokio's Notify: one stored permit
    raced,         \* history: saves whose syncer drop fell within the last build
    owed,          \* history: no pass has begun since the last request
    asked,         \* history: requests so far
    unasked        \* history: passes begun with periodic sync off

settings == <<file, config, config_error, vault, config_write, saver>>
caching == <<vault_caches, slots, guards, reader>>
asking == <<pass_requested, notifying, owed, asked, unasked>>
looping == <<pc, build>>
cached == <<syncer, raced>>
vars == <<settings, caching, asking, looping, cached, wake>>

-----------------------------------------------------------------------------
Document == [holds: SUBSET Saves, good: BOOLEAN, enabled: BOOLEAN]
Vault == [holds: SUBSET Saves, good: BOOLEAN]

\* A set of caches is known by the save whose invalidate made it, and by
\* whether that was after its commit: save_tracker invalidates twice.
Arcs == (Saves \X BOOLEAN) \cup {<<None, FALSE>>}

Away == [at |-> "idle", arc |-> <<None, FALSE>>, value |-> {}, since |-> {}]

Goods == IF MayBreak THEN BOOLEAN ELSE {TRUE}

Least(a, b) == IF a < b THEN a ELSE b

TypeOK ==
    /\ file \in Document /\ config \in Document
    /\ config_error \in BOOLEAN
    /\ vault \in Vault
    /\ config_write \in Saves \cup {None}
    /\ saver \in [Saves -> [at: {"idle", "put", "write", "swap", "clear", "drop",
                                 "caches", "landing", "dropped", "done"},
                            committed: BOOLEAN, doc: Document]]
    /\ syncer \in (Document \X Vault) \cup {None}
    /\ vault_caches \in Arcs
    /\ slots \in [Arcs -> (SUBSET Saves) \cup {None}]
    /\ guards \in [Arcs -> Readers \cup {None}]
    /\ reader \in [Readers -> [at: {"idle", "slot", "opening", "filling", "got"},
                               arc: Arcs, value: SUBSET Saves,
                               since: SUBSET Saves]]
    /\ pc \in {"ready", "vault", "install", "decide", "pass", "sleep"}
    /\ build \in (Document \X (Vault \cup {None})) \cup {None}
    /\ pass_requested \in BOOLEAN /\ wake \in BOOLEAN
    /\ notifying \in 0 .. MaxAsks
    /\ raced \subseteq Saves
    /\ owed \in BOOLEAN
    /\ asked \in 0 .. MaxAsks /\ unasked \in 0 .. MaxAsks + 1

\* A server that has just started.  A file that did not load leaves a salvaged
\* configuration, from which nothing is built.
Init ==
    /\ file \in [holds: {{}}, good: Goods, enabled: Enabled]
    /\ config = file
    /\ config_error \in BOOLEAN
    /\ vault \in [holds: {{}}, good: Goods]
    /\ config_write = None
    /\ saver = [s \in Saves |-> [at |-> "idle", committed |-> FALSE, doc |-> file]]
    /\ syncer = None
    /\ vault_caches = <<None, FALSE>>
    /\ slots = [a \in Arcs |-> None]
    /\ guards = [a \in Arcs |-> None]
    /\ reader = [r \in Readers |-> Away]
    /\ pc = "ready"
    /\ build = None
    /\ pass_requested = FALSE /\ wake = FALSE /\ notifying = 0
    /\ raced = {} /\ owed = FALSE
    /\ asked = 0 /\ unasked = 0

-----------------------------------------------------------------------------
(* The settings handlers.                                                  *)

At(s, here) == saver[s].at = here
Goto(s, there) == saver' = [saver EXCEPT ![s].at = there]
Unlocked(s) == IF config_write = s THEN None ELSE config_write

\* The saves in the document a handler starts from: the file, or the blank
\* replacement_for one that did not load.
Opened == IF config_error THEN {} ELSE file.holds

\* A mutant: the file is opened before the lock is taken.
prepare_config_unlocked(s) ==
    /\ At(s, "idle") /\ Kind[s] # "token"
    /\ config_write' = s
    /\ \E good \in Goods, enabled \in Enabled :
         saver' = [saver EXCEPT ![s] =
            [at |-> IF Kind[s] = "config" THEN "write" ELSE "put",
             committed |-> FALSE,
             doc |-> [holds |-> Opened \cup {s}, good |-> good,
                      enabled |-> enabled]]]
    /\ UNCHANGED <<file, config, config_error, vault, caching, asking, looping,
                   cached, wake>>

\* prepare_config: take the lock, open the file, edit it, validate the result.
\* A document that does not validate changes nothing.
prepare_config(s) ==
    /\ At(s, "idle") /\ Kind[s] # "token"
    /\ config_write = None
    /\ config_write' = s
    /\ \E good \in Goods, enabled \in Enabled :
         saver' = [saver EXCEPT ![s] =
            [at |-> IF Kind[s] = "config" THEN "write" ELSE "put",
             committed |-> FALSE,
             doc |-> [holds |-> Opened \cup {s}, good |-> good,
                      enabled |-> enabled]]]
    /\ UNCHANGED <<file, config, config_error, vault, caching, asking, looping,
                   cached, wake>>

\* apply_secret, or the rotation in mutate_tracker_token: one write of the vault.
apply_secret(s) ==
    /\ At(s, "put") \/ (At(s, "idle") /\ Kind[s] = "token")
    /\ \E good \in Goods : vault' = [holds |-> vault.holds \cup {s}, good |-> good]
    /\ Goto(s, IF Kind[s] = "secret" THEN "write" ELSE "drop")
    /\ UNCHANGED <<file, config, config_error, config_write, caching, asking,
                   looping, cached, wake>>

\* The vault cannot be opened or written: the handler rejects the form.
RejectSecret(s) ==
    /\ At(s, "put")
    /\ Goto(s, "done")
    /\ config_write' = Unlocked(s)
    /\ UNCHANGED <<file, config, config_error, vault, caching, asking, looping,
                   cached, wake>>

\* commit_config: write the document ...
commit_config(s) ==
    /\ At(s, "write")
    /\ file' = saver[s].doc
    /\ Goto(s, "swap")
    /\ UNCHANGED <<config, config_error, vault, config_write, caching, asking,
                   looping, cached, wake>>

\* A mutant: a failed commit invalidates nothing.
CommitFails_quiet(s) ==
    /\ At(s, "write")
    /\ config_write' = Unlocked(s)
    /\ Goto(s, "done")
    /\ UNCHANGED <<file, config, config_error, vault, caching, asking, looping,
                   cached, wake>>

\* ... or fail to, and reject: invalidate_unless_committed then drops the
\* syncer if a secret was stored.
CommitFails(s) ==
    /\ At(s, "write")
    /\ config_write' = Unlocked(s)
    /\ Goto(s, IF Kind[s] = "secret" THEN "drop" ELSE "done")
    /\ UNCHANGED <<file, config, config_error, vault, caching, asking, looping,
                   cached, wake>>

\* replace_config: the configuration, then the load error, then invalidate.
replace_config(s) ==
    /\ \/ /\ At(s, "swap")
          /\ config' = saver[s].doc
          /\ saver' = [saver EXCEPT ![s].at = "clear", ![s].committed = TRUE]
          /\ UNCHANGED config_error
       \/ /\ At(s, "clear")
          /\ config_error' = FALSE
          /\ Goto(s, "drop")
          /\ UNCHANGED config
    /\ UNCHANGED <<file, vault, config_write, caching, asking, looping, cached,
                   wake>>

\* invalidate: the syncer first ...
DropSyncer(s) ==
    /\ At(s, "drop")
    /\ syncer' = None
    /\ raced' = IF pc \in {"vault", "install"} THEN raced \cup {s} ELSE raced
    /\ Goto(s, "caches")
    /\ UNCHANGED <<file, config, config_error, vault, config_write, caching,
                   asking, looping, wake>>

\* A mutant: invalidate does not wake the loop.
DropCaches_silent(s) ==
    /\ At(s, "caches")
    /\ vault_caches' = <<s, saver[s].committed>>
    /\ IF Kind[s] = "tracker" /\ ~saver[s].committed
          THEN Goto(s, "write") /\ UNCHANGED config_write
          ELSE Goto(s, "done") /\ config_write' = Unlocked(s)
    /\ UNCHANGED <<file, config, config_error, vault, slots, guards, reader,
                   asking, looping, cached, wake>>

\* ... then a new, empty set of caches, and the wake.  What is
\* left of save_tracker is its commit; any other handler answers.
DropCaches(s) ==
    /\ At(s, "caches")
    /\ vault_caches' = <<s, saver[s].committed>>
    /\ wake' = TRUE
    /\ IF Kind[s] = "tracker" /\ ~saver[s].committed
          THEN Goto(s, "write") /\ UNCHANGED config_write
          ELSE Goto(s, "done") /\ config_write' = Unlocked(s)
    /\ UNCHANGED <<file, config, config_error, vault, slots, guards, reader,
                   asking, looping, cached>>

\* The client goes away and the handler's future is dropped at an await.  A
\* blocking write that has begun goes on without it.
Abandon(s) ==
    /\ MayAbandon
    /\ saver[s].at \in {"put", "write", "swap", "clear", "drop", "caches"}
    /\ config_write' = Unlocked(s)
    /\ \/ Goto(s, "dropped")
       \/ At(s, "write") /\ Goto(s, "landing")
    /\ UNCHANGED <<file, config, config_error, vault, caching, asking, looping,
                   cached, wake>>

Land(s) ==
    /\ At(s, "landing")
    /\ file' = saver[s].doc
    /\ Goto(s, "dropped")
    /\ UNCHANGED <<config, config_error, vault, config_write, caching, asking,
                   looping, cached, wake>>

Handle(s) ==
    \/ apply_secret(s) /\ ~At(s, "idle")
    \/ RejectSecret(s) \/ commit_config(s) \/ CommitFails(s) \/ replace_config(s)
    \/ DropSyncer(s) \/ DropCaches(s) \/ Land(s)

-----------------------------------------------------------------------------
(* try_cached_from_vault, under an Arc taken by vault_caches().            *)

Settled == {s \in vault.holds : At(s, "done")}

Reading(r, here) == reader[r].at = here
others == <<settings, asking, looping, cached, wake>>

TakeCaches(r) ==
    /\ Reading(r, "idle")
    /\ reader' = [reader EXCEPT ![r] = [at |-> "slot", arc |-> vault_caches,
                                        value |-> {}, since |-> Settled]]
    /\ UNCHANGED <<vault_caches, slots, guards, others>>

\* The slot is filled, at once or by whoever held it meanwhile.
ReadCached(r) ==
    LET a == reader[r].arc IN
    /\ Reading(r, "slot")
    /\ guards[a] = None /\ slots[a] # None
    /\ reader' = [reader EXCEPT ![r].at = "got", ![r].value = slots[a]]
    /\ UNCHANGED <<vault_caches, slots, guards, others>>

HoldSlot(r) ==
    LET a == reader[r].arc IN
    /\ Reading(r, "slot")
    /\ guards[a] = None /\ slots[a] = None
    /\ guards' = [guards EXCEPT ![a] = r]
    /\ reader' = [reader EXCEPT ![r].at = "opening"]
    /\ UNCHANGED <<vault_caches, slots, others>>

OpenVault(r) ==
    /\ Reading(r, "opening")
    /\ reader' = [reader EXCEPT ![r].at = "filling", ![r].value = vault.holds]
    /\ UNCHANGED <<vault_caches, slots, guards, others>>

\* The vault does not open, or the caller is dropped: nothing is cached.
OpenFails(r) ==
    /\ reader[r].at \in {"opening", "filling"}
    /\ guards' = [guards EXCEPT ![reader[r].arc] = None]
    /\ reader' = [reader EXCEPT ![r] = Away]
    /\ UNCHANGED <<vault_caches, slots, others>>

\* A mutant: what was read goes to the set of caches that is current by now.
FillSlot_current(r) ==
    /\ Reading(r, "filling")
    /\ slots' = [slots EXCEPT ![vault_caches] = reader[r].value]
    /\ guards' = [guards EXCEPT ![reader[r].arc] = None]
    /\ reader' = [reader EXCEPT ![r].at = "got"]
    /\ UNCHANGED <<vault_caches, others>>

FillSlot(r) ==
    LET a == reader[r].arc IN
    /\ Reading(r, "filling")
    /\ slots' = [slots EXCEPT ![a] = reader[r].value]
    /\ guards' = [guards EXCEPT ![a] = None]
    /\ reader' = [reader EXCEPT ![r].at = "got"]
    /\ UNCHANGED <<vault_caches, others>>

\* The value is used, and the caller may come again.
Use(r) ==
    /\ Reading(r, "got")
    /\ reader' = [reader EXCEPT ![r] = Away]
    /\ UNCHANGED <<vault_caches, slots, guards, others>>

Read(r) ==
    \/ TakeCaches(r) \/ ReadCached(r) \/ HoldSlot(r) \/ OpenVault(r)
    \/ OpenFails(r) \/ FillSlot(r) \/ Use(r)

-----------------------------------------------------------------------------
(* Asking for a pass.                                                      *)

\* request_pass: the flag ...
request_pass ==
    /\ asked < MaxAsks
    /\ pass_requested' = TRUE /\ owed' = TRUE
    /\ asked' = asked + 1 /\ notifying' = notifying + 1
    /\ UNCHANGED <<settings, caching, looping, cached, wake, unasked>>

\* ... and then the permit.
notify_one ==
    /\ notifying > 0
    /\ notifying' = notifying - 1
    /\ wake' = TRUE
    /\ UNCHANGED <<settings, caching, looping, cached,
                   pass_requested, owed, asked, unasked>>

\* request_sync: the advertised endpoint changed.
request_sync ==
    /\ wake' = TRUE
    /\ UNCHANGED <<settings, caching, asking, looping, cached>>

-----------------------------------------------------------------------------
(* The loop.                                                               *)

\* ensure_ready finds a syncer, ...
UseCached ==
    /\ pc = "ready" /\ syncer # None
    /\ pc' = "decide"
    /\ UNCHANGED <<settings, caching, asking, build, cached, wake>>

\* ... or a file that did not load, ...
ConfigBroken ==
    /\ pc = "ready" /\ syncer = None /\ config_error
    /\ pc' = "sleep"
    /\ UNCHANGED <<settings, caching, asking, build, cached, wake>>

\* ... or builds one: from the configuration ...
ReadConfig ==
    /\ pc = "ready" /\ syncer = None /\ ~config_error
    /\ build' = <<config, None>>
    /\ raced' = {}
    /\ pc' = "vault"
    /\ UNCHANGED <<settings, caching, asking, syncer, wake>>

\* ... and the vault, read later ...
ReadVault ==
    /\ pc = "vault"
    /\ build' = <<build[1], vault>>
    /\ pc' = "install"
    /\ UNCHANGED <<settings, caching, asking, cached, wake>>

Builds(b) == b[1].good /\ b[2].good

\* ... and caches it, whatever has been invalidated since.
Install ==
    /\ pc = "install"
    /\ IF Builds(build) THEN syncer' = build /\ pc' = "decide"
                        ELSE syncer' = None /\ pc' = "sleep"
    /\ build' = None
    /\ UNCHANGED <<settings, caching, asking, raced, wake>>

\* A mutant: the request is read and not taken.
Decide_keeps ==
    /\ pc = "decide"
    /\ IF config.enabled \/ pass_requested
          THEN /\ pc' = "pass" /\ owed' = FALSE
               /\ unasked' = IF config.enabled THEN unasked
                                ELSE Least(unasked + 1, MaxAsks + 1)
          ELSE /\ pc' = "sleep"
               /\ UNCHANGED <<owed, unasked>>
    /\ UNCHANGED <<settings, caching, build, syncer, raced, wake,
                   pass_requested, notifying, asked>>

\* background: the request is taken before the pass.
Decide ==
    /\ pc = "decide"
    /\ pass_requested' = FALSE
    /\ IF config.enabled \/ pass_requested
          THEN /\ pc' = "pass" /\ owed' = FALSE
               /\ unasked' = IF config.enabled THEN unasked
                                ELSE Least(unasked + 1, MaxAsks + 1)
          ELSE /\ pc' = "sleep"
               /\ UNCHANGED <<owed, unasked>>
    /\ UNCHANGED <<settings, caching, build, syncer, raced, wake,
                   notifying, asked>>

\* A mutant: the end of a pass takes the requests that landed during it.
FinishPass_takes ==
    /\ pc = "pass"
    /\ pass_requested' = FALSE
    /\ pc' = "sleep"
    /\ UNCHANGED <<settings, caching, notifying, owed, asked, unasked, build,
                   cached, wake>>

\* The pass succeeds or fails; note_sync_success and note_sync_failure only set
\* how long the sleep is, which Timer leaves open.
FinishPass ==
    /\ pc = "pass"
    /\ pc' = "sleep"
    /\ UNCHANGED <<settings, caching, asking, build, cached, wake>>

\* sleep_or_wake: a stored permit ends the sleep at once, ...
Wake ==
    /\ pc = "sleep" /\ wake
    /\ wake' = FALSE
    /\ pc' = "ready"
    /\ UNCHANGED <<settings, caching, asking, build, cached>>

\* ... a timer, whatever the backoff made it, some day.
Timer ==
    /\ pc = "sleep"
    /\ pc' = "ready"
    /\ UNCHANGED <<settings, caching, asking, build, cached, wake>>

Loop ==
    \/ UseCached \/ ConfigBroken \/ ReadConfig \/ ReadVault \/ Install
    \/ Decide \/ FinishPass \/ Wake

Next ==
    \/ \E s \in Saves :
         prepare_config(s) \/ apply_secret(s) \/ RejectSecret(s)
           \/ commit_config(s) \/ CommitFails(s) \/ replace_config(s)
           \/ DropSyncer(s) \/ DropCaches(s) \/ Abandon(s) \/ Land(s)
    \/ \E r \in Readers : Read(r)
    \/ request_pass \/ notify_one \/ request_sync
    \/ Loop \/ Timer

Spec == Init /\ [][Next]_vars

Dropped == \E s \in Saves : At(s, "dropped")

-----------------------------------------------------------------------------
(* Properties.                                                             *)

\* Whoever takes the vault caches after a save has answered gets that save's
\* credential: invalidate replaces the caches after the vault is written, and
\* a reader that was already opening the vault fills the set it took.
ReadsSaved ==
    \A r \in Readers : Reading(r, "got") => reader[r].since \subseteq reader[r].value

\* What a handler has saved and not yet dropped the syncer for.
Unannounced == {s \in Saves : saver[s].at \in {"write", "swap", "clear", "drop"}}

\* A cached syncer misses a save only while the save is still on its way to
\* invalidate, or when invalidate ran during the very build of that syncer.
MissesOnlyRaced ==
    syncer # None =>
        (config.holds \ syncer[1].holds) \cup (vault.holds \ syncer[2].holds)
            \subseteq Unannounced \cup raced

\* Nobody is given caches older than a save that had answered when they asked, and the
\* cached syncer lacks nothing but what is on its way or raced its own build (state.rs:
\* invalidate, try_cached_from_vault; serve.rs: background).
ReadsRightly == ReadsSaved /\ MissesOnlyRaced

\* The config-write lock makes a save a read-modify-write: nothing saved before
\* disappears from the file or from the configuration in force.
SavesKept ==
    [][/\ file.holds \subseteq file'.holds
       /\ config.holds \subseteq config'.holds]_vars

\* With periodic sync off every pass answers a request that no earlier pass
\* took: requests coalesce, and none is counted twice.
PassesAsked == unasked <= asked

\* The settings in force are ones a syncer can be built from.
Usable == ~config_error /\ Builds(<<config, vault>>)

\* A request is followed by a pass, whether it lands during a build, a pass, a
\* save or a sleep, unless the settings stay unusable; and without the help of
\* any timer unless a handler has been dropped.
RequestServed == <>[]Usable => []<>~owed

\* Once the saves are over, an instance whose settings are good has a syncer:
\* the last save's wake leads to a build, with no timer to help; the retry timer
\* makes up for the wake of a handler that was dropped.
Recovers == <>[](Usable => syncer # None)

\* Once the saves are over, no cached syncer lacks one: a changed credential
\* takes effect without a restart (state.rs, invalidate).
TakesEffect ==
    <>[](syncer # None => config.holds \subseteq syncer[1].holds
                            /\ vault.holds \subseteq syncer[2].holds)
=============================================================================
