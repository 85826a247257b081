# sharerr in TLA+

sharerr shares media that *arr applications tag, by seeding the files in place
through the operator's torrent client, and offers them to friends through a
Torznab feed and a tracker of its own. This directory models the parts of it
where concurrency, failures and restarts decide whether it is correct. TLC
checks the models on small instances; TLAPS proves the central safety
properties for every instance. Paths below are relative to `src/crates/`.

Contents: [inventory](#inventory), [modules](#modules), [runs](#runs),
[where code and comments disagree](#where-code-and-comments-disagree),
[proofs](#proofs), [plan](#plan), [not modelled](#not-modelled).

## Inventory

| Component | State | Operations | Meets | What is hard | Properties wanted |
| --- | --- | --- | --- | --- | --- |
| Reconciliation (`sharerr/src/sync`) | `shared_items` rows, the .torrent cache, one snapshot per pass | discover, share, adopt, reuse, join, build, add, set_seeding, confirm_live, withdraw | sources, client, store, item page | stale snapshots, passes side by side, lost answers, crashes between client and store | never removes a foreign torrent, silence withdraws nothing, no orphan, convergence |
| Torrent client (`sharerr-client`, `-qbit`, `-transmission`, `-deluge`, `-rtorrent`) | torrents and who added them | add, list, remove, export | reconciliation, operator | back ends answer a duplicate add differently; the operator changes things | as above |
| Item page (`web/items`) | a row read before the work on it | retry, rebuild, unshare, share_until | reconciliation | a pass beside the loop's | as above |
| Supervisor (`state.rs`, `commands/serve.rs`) | cached syncer, permit, request flag | ensure_ready, invalidate, request_pass, background loop | settings, webhooks | lost wake-ups, a build overtaken by a save | requests served, recovery, saves take effect |
| Settings and vault caches (`web/settings`, `state.rs`) | config file, config in force, vault, caches behind an `Arc` | prepare, put, commit, replace, invalidate; cached reads | supervisor | read-modify-write, a failed second write, dropped handlers | no save lost, no stale credential |
| Gossip (`gossip.rs`) | peers' keys and signed records | self_record, push, pull, ingest | peers, endpoints | late, relayed and repeated records, overlapping ingests, first-contact binding | identity kept, no rewind |
| Peer endpoints (`sharerr-store/src/endpoints.rs`) | address history per friend | upsert, prune | gossip, feed | out of order sightings, clocks ahead | bounded, newest moves forward |
| Swarm and transfers (`sharerr-torrent/src/announce.rs`, `sharerr-store/src/transfers.rs`) | peers with expiry, counters | announce, stats, record | tracker | reordered announces, restarts on either side | never counts more than moved |
| Tracker (`tracker.rs`) | tokens, the previous token's grace | announce, scrape | swarm, vault, peers | rotation beside announces | a friend is served across a rotation |
| Vault (`sharerr-store/src/vault.rs`) | file, handles, salt | open, put, remove, persist | settings, CLI | two processes, crash while writing, two first writers | atomic map |
| Peers and keys (`sharerr-store/src/peers.rs`, `web/peers.rs`) | keys, audiences, revocation | issue, revoke, delete, touch | feed, tracker, gossip | stale reads of a revoked key | a revoked key sees nothing new |
| Pairing (`pairing.rs`) | invites, half-open rows | apply_invite, pair, send_pair | peers | lost answer, repeated invite | both sides agree or can retry |
| Lighthouse (`sharerr-lighthouse`, `lighthouse_client.rs`) | records by key hash, pins | report, lookup, sweep | gossip, endpoints | capacity, expiry, replay | the pinned key keeps its slot |
| Sessions and second factor (`web/auth.rs`, `web/two_factor.rs`, `totp.rs`) | sessions, pending logins | login, second step, revoke | users | attempts in parallel, expiry | no session without both factors |
| Addresses (`gluetun.rs`, `sharerr-core/src/endpoint.rs`) | the published base | poll, resolve | gossip, feed | failing polls | keeps the last good address |
| Notifications (`notify.rs`, `commands/serve.rs`) | what was announced | fresh, notify_sync_report | supervisor | repeated or lost digests | each change told once |
| Config import (`web/config_io`) | config, vault, peers | import, export | settings | stops half way | repeatable |

The rest (web pages, command line, discovery APIs, probing, torrent building)
is listed in `PROJECT.json` with the reason it has no module.

## Modules

| Module | Models |
| --- | --- |
| `Sync` | one or more reconciliation passes and item page handlers over the store, the client, the cache and the sources |
| `SyncProofs` | the theorems about `Sync` |
| `Common` | the constant `None` the modules share |
| `Supervisor` | `ServeState`, the background loop, the settings handlers and readers of the vault caches |
| `Gossip` | one instance's ingest, push and pull, and the endpoint history it writes |
| `MCSync`, `MCSupervisor`, `MCGossip` | constants for TLC |

Definitions keep the names of the functions they model; one called
`<name>_<word>` just before `<name>` is a mutant of it, a plausible bug that
some property must catch.

### Sync

A process of `Procs` is the loop or a handler of the item page. A pass reads
each source, the client's list and the rows in any order (`tokio::join!` in
`reconcile`), keeps those reads in `seen[p]` and works through them in
`work[p]`; every later call to the client or the store is a step of its own, so
other processes, the operator, failures and crashes come in between. A torrent
is `<<origin, file, version>>`: built by sharerr, brought by the operator or
joined from a friend. `client` records who added each one, which the code
cannot see, and `created` in a row is what the code believes
(`created_by_sharerr`). `added` and `gone` are history variables: what sharerr
has ever added, and what was untagged during each pass.

retry and rebuild start a pass of their own beside the loop's; unshare works on
the row it loaded; a date change writes the date and only asks the loop for a
pass.

`Upheavals` chooses what may happen around the passes: tags, files, dates and
the client's torrents change, sources or any call fail, the process crashes.
`Backend` is the configured client, which decides three answers: qBittorrent
exports a torrent it holds and the others do not (`Exports`); qBittorrent and
rTorrent refuse a torrent they already have, Transmission and Deluge report
success (`AddDuplicate`). `Theirs` says which torrents the operator adds by hand,
and `MayRetake` whether these include one that sharerr has added before. A cache
file deleted from outside is not modelled: the cache only grows.

### Supervisor

A document (the config file, the configuration in force, the vault) is the set
of saves it holds, with whether a syncer can be built from it and whether
periodic sync is on. Each save is a handler that walks the steps of
`prepare_config`, `apply_secret`, `commit_config`, `replace_config` and
`invalidate`, and may fail or be dropped at an await. A set of vault caches is
known by the save that created it, as the `Arc` in the code is. The loop is
`background`: find or build a syncer, decide, pass, sleep until the permit or
the timer. The delays themselves (recovery interval, retry backoff) are
abstracted to "some day"; `sync_failures` only sets them and is left out.

### Gossip

Friends are honest and the network is not: a signed record is one its signer
made, and a batch may come late, twice or never, first hand or relayed. A push
carries any batch of signed records, at most `MaxBatch` of them; a pull takes what
the friend asked answers. Sightings of an address come from records, from feed
requests, from the lighthouse (`lookup_quiet_one`) and, dated by nothing, from an
import of peers (`Restored`); which of these it was is never read by the code
modelled here and is left out. The length of the history is a constant,
though a saved configuration can change it. An
ingest lists the peers, reads the stored times, and then judges and writes one
record at a time, as `ingest` does, beside other ingests, feed sightings,
revocations and deletions.

## Runs

| Run | Instance | Checks | Distinct states |
| --- | --- | --- | --- |
| `side` | one item, loop and one handler that unshares, or rebuilds and goes on to a pass of its own (retry is that pass alone: run `orphan`), a source that may be partial | `TypeOK`, `WithdrawsOnlyUntagged` | 777,000 |
| `faults` | one item, one loop, every failure and crash, operator's torrents moved and removed | `RemovesOnlyOwn`, `AdoptedServable`, `NoOrphan` | 652,000 |
| `steady` | two versions of a file, dates, a friend's torrent, no failure | `OwnTorrentOwned`, `NoOrphan` | 791,000 |
| `converges` | one item, failures that end | `Converges` | 77,000 |
| `saves` | two saves that write both documents, one reader, the loop | `ReadsSaved`, `MissesOnlyRaced`, `SavesKept` | 581,000 |
| `recovers` | two saves, two requests, bad settings, dropped handlers | `PassesAsked`, `RequestServed`, `Recovers` | 212,000 |
| `overlap` | one friend with two identities and a fast clock, two ingests | `RecordsOwn`, `HistoryBounded`, `NotAhead`, `IdentityKept`, `NewestForward` | 1,182,000 |
| `orphan`, `taken`, `stale`, `rewind`, `binds` | see below | one property each, violated | |

**Bounds.** One item is enough for the ownership and withdrawal properties,
because items interact only through a shared file or a source's answer; the
theorems lift the bound for three of them. Two processes suffice for every
race found, each being between one process's read and the other's write. Two
saves give a lost update and a wake-up consumed by the wrong party; two
requests give one that lands during the pass of the other. Two ingests give
the stale comparison. The history length is 1 with two addresses, so pruning
happens on every new address. `MaxClock`, `MaxRecords` and `MaxAsks` cap
counters that grow for ever.

**Deadlock** is checked except for `Gossip`, where everyone may be revoked and
the clock at its bound.

**Fairness.** `Sync`: a pass that has begun goes on (the executor runs a
ready task), the loop keeps starting passes, and the disturbances end, without which no item could stay shared. Handlers are never
required to start. `Supervisor`: the loop and started handlers run. The timer
is assumed only once a handler has been dropped: until then requests and saves
must take effect through the permit of `Notify` alone.

`Converges` is checked without relocations. On a client that refuses
duplicates, an adopted torrent the operator has moved away keeps its item
Failed until a rebuild is asked for, since the cached torrent is refused as a
duplicate and the moved one no longer covers the file.

## Where code and comments disagree

Five runs end in a counterexample to something the repository states.

- `orphan`: retry and rebuild run a pass beside the loop's
  (`web/items/mod.rs`, `trigger_sync_now`). One pass withdraws on a row it read
  before the other recorded its torrent; the row is Unshared and the torrent
  runs on.
- `taken`: with Transmission or Deluge, the operator adds a friend's torrent
  after a pass has listed the client and before it adds the same one. The add is
  reported as success, the row says sharerr created the torrent, and untagging the
  item removes it.
- `stale`: `ensure_ready` installs a syncer built from settings that
  `invalidate` has meanwhile replaced, and keeps it.
- `rewind`: two overlapping ingests judge by times read before either wrote, and
  the older record is stored last.
- `binds`: a friend with no key on record pushes their whole view, and their row
  is bound to the key of the first stranger in it, where the route's description
  has such records dropped.

The models show further limits of the same kind, which the passing runs leave
out by a constant and which a reader can see by changing it:

- with `"crash"` in the `steady` run, a crash between the client's add and
  `set_seeding` makes the next pass adopt sharerr's own torrent as someone
  else's, so `OwnTorrentOwned` fails;
- with `MayAbandon` in `saves`, a handler dropped during its file write frees
  the lock while the write goes on, so `SavesKept` fails, and one dropped before
  `invalidate` leaves a syncer without its save, so `MissesOnlyRaced` fails;
- with `MayRetake` in `faults`, the operator re-adds by hand a torrent sharerr
  added and they removed, and sharerr takes it for its own (`RemovesOnlyOwn`);
- a failed read of the stored times (`ReadFails`) lets an older record win
  (`NoRewind`), with no overlap at all.

## Proofs

All theorems are about `Sync`, in `SyncProofs`, and hold for any items, sources, files, versions,
processes and upheavals that satisfy the named assumptions of `Sync.tla`.

| Theorem | States |
| --- | --- |
| `TypeCorrect` | `TypeOK` |
| `OwnershipSafe` | `RemovesOnlyOwn`, on qBittorrent and without `MayRetake` |
| `AdoptionServable` | `AdoptedServable` |
| `WithdrawalSafe` | `WithdrawsOnlyUntagged` |
| `NothingOrphaned` | `NoOrphan`, when items have a file each and passes do not overlap |
| `OwnerOnRecord` | `SharesRightly`, that is `NoOrphan` and `OwnTorrentOwned`, when moreover nothing fails |

- *Types.* `Typed` is `TypeOK` as an inductive invariant; `StepTyped` has one
  step per action, over lemmas on how `seen`, `work` and `pc` are written.
- *Ownership.* `RemovesOnlyOwn` speaks of the moment of removal and is not
  inductive: it depends on a copy of a row, made from a row, written from an
  add. `Owned` follows the claim back along that path: rows, every pass's copy
  of them, and an add not yet recorded all name only hashes that were added, and
  what was added the operator has not added since (`NotTaken`). The answer to a
  duplicate add is used in one place, the add itself; the `taken` run shows that
  it is needed.
- *Adoption.* `Servable` adds that work about to be recorded as an adoption has
  its .torrent in the cache, which only grows.
- *Withdrawal.* `Withdrawing` says that while a pass reads, whatever is untagged
  now, or missing from a whole answer, is on record in `gone`; so what the pass
  finally calls stale is too.

- *Orphans.* `Orderly` relates what the one running process holds to the row it
  is working on; `Accounted` adds that a torrent sharerr added is on some row or
  in hand.

Only model-checked: the
`Supervisor` and `Gossip` safety properties (planned), and `Converges`,
`RequestServed` and `Recovers`, since liveness is beyond this prover.

## Plan

1. `Swarm`, then `Tracker` over it: expiry, the transfer delta, stopped events,
   reordered announces; tokens, grace and attribution. Run: one swarm, two
   peers, a restart on either side. Abstract specification: bytes counted never
   exceed bytes moved.
2. `Vault`: handles, locks, salt, crash. Refinement: the file implements one
   atomic map.
3. `Lighthouse` with its client, composed with the endpoint history.
4. `Peers` and `Pairing`: two instances, lost answers, revocation, audiences.
5. `Auth`: sessions, pending logins, attempt limits.
6. `Endpoints`, `Digest`, config import; bencode and path mapping as pure
   functions against reference definitions.
7. Theorems: `ReadsSaved` and `SavesKept` of
   `Supervisor`, `IdentityKept`, `RecordsOwn` and `NotAhead` of `Gossip`, the
   transfer bound of `Swarm`, the refinement of `Vault`.

Runs of one component are merged as others are added, so that each remaining run
answers a question of its own.

## Not modelled

Rendering, read-only routes, metrics, the command line's reports and the test
kit change no state. The *arr walks, the media probe and the wire formats of
the client back ends are I/O; `Sync` keeps what they can answer. Hashing pieces
and signatures are modelled by what they guarantee. In `Sync`, audiences and
`refresh_announce` are left out, and every item has a file of its own.
