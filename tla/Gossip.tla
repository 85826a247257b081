------------------------------- MODULE Gossip -------------------------------
(***************************************************************************)
(* The gossip of endpoints (crates/sharerr/src/gossip.rs) as one instance  *)
(* takes part in it: friends sign records of where they are, push them and *)
(* relay each other's, and the instance ingests batches, in the push       *)
(* handler and after its own pulls, over the tables `peers` and            *)
(* `peer_endpoints` (sharerr-store/src/endpoints.rs).                      *)
(*                                                                         *)
(* A record is its signer's key, its time and one address, of one kind,    *)
(* and a batch is shorter than MAX_RECORDS.  Signatures hold, so a record  *)
(* is one its signer made.  Friends are honest, the network is not: a      *)
(* batch may arrive late, twice or never.  Row ids are never used again,   *)
(* so a friend who is added again is another friend.                       *)
(***************************************************************************)
EXTENDS Common, Integers, Sequences, FiniteSets

CONSTANTS
    Friends,
    Addrs,
    Ingests,      \* ingests that may run at a time: handlers and exchanges
    Identities,   \* how many signing keys a friend has in turn
    Fast,         \* friends whose clock may run ahead
    Skew,         \* MAX_FUTURE_SKEW_SECS
    History,      \* retention.endpoint_history
    LastTick,     \* the last instant that is explored
    MaxRecords,   \* the records one friend signs that are explored
    MaxBatch,     \* the records of one push that are explored
    MayDelete,    \* whether the operator deletes friends
    ReadFails,    \* whether a read may fail
    WriteFails    \* whether a write may fail

ASSUME ConstantsAssumption ==
    /\ Identities \in Nat \ {0} /\ Skew \in Nat /\ LastTick \in Nat
    /\ MaxRecords \in Nat /\ MaxBatch \in Nat
    /\ History \in Nat \ {0}
    /\ Fast \subseteq Friends
    /\ MayDelete \in BOOLEAN /\ ReadFails \in BOOLEAN /\ WriteFails \in BOOLEAN

VARIABLES
    now,
    identity,  \* [Friends -> the number of the friend's present key]
    signed,    \* the records friends have signed
    peers,     \* [Friends -> the friend's row in `peers`]
    endpoints, \* [Friends -> the friend's rows in `peer_endpoints`]
    ingest     \* [Ingests -> where it is and what it has read]

gossipVars == <<now, identity, signed, peers, endpoints, ingest>>

-----------------------------------------------------------------------------
Pubkeys == Friends \X (1 .. Identities)
ASSUME NoneAssumption == None \notin Pubkeys \cup Friends

Times == 0 .. LastTick + Skew + 1
SignedRecord == [key: Pubkeys, at: Times, addr: Addrs]
PeerRow == [present: BOOLEAN, revoked: BOOLEAN, pubkey: Pubkeys \cup {None},
            record: SignedRecord \cup {None}]
\* How an address came to be known (`via`) is shown and decides nothing here.
Endpoint == [addr: Addrs, at: Times]

NoIngest == [at |-> "idle", from |-> None, known |-> {}, batch |-> <<>>,
             peers |-> None, now |-> 0, stamps |-> None, subject |-> None]

GossipTypeOK ==
    /\ now \in 0 .. LastTick
    /\ identity \in [Friends -> 1 .. Identities]
    /\ signed \subseteq SignedRecord
    /\ peers \in [Friends -> PeerRow]
    /\ \A f \in Friends : endpoints[f] \subseteq Endpoint
    /\ \A i \in Ingests :
         /\ ingest[i].at \in {"idle", "asked", "list", "stamps", "record",
                              "endpoint", "store"}
         /\ ingest[i].from \in Friends \cup {None}
         /\ ingest[i].known \subseteq Pubkeys
         /\ ingest[i].batch \in Seq(SignedRecord)
         /\ ingest[i].subject \in Friends \cup {None}

\* A friend restored from a [[peers]] block starts with the address given there, which has
\* no time of its own (INSERT_ONLY); the row is new and its key is known to nobody yet, so
\* nothing was recorded before.
Restored(addr) == [addr |-> addr, at |-> 0]

GossipInit ==
    /\ now = 0
    /\ identity = [f \in Friends |-> 1]
    /\ signed = {}
    /\ peers = [f \in Friends |-> [present |-> TRUE, revoked |-> FALSE,
                                  pubkey |-> None, record |-> None]]
    /\ endpoints \in [Friends -> {{}} \cup {{Restored(addr)} : addr \in Addrs}]
    /\ ingest = [i \in Ingests |-> NoIngest]

-----------------------------------------------------------------------------
(* The friends, and what the network may bring of theirs.                  *)

By(f) == {r \in signed : r.key[1] = f}

\* self_record, at a friend: now by its own clock, the address it has.
self_record(f) ==
    /\ Cardinality(By(f)) < MaxRecords
    /\ \E at \in {now} \cup (IF f \in Fast THEN {now + Skew + 1} ELSE {}),
          addr \in Addrs :
         signed' = signed \cup {[key |-> <<f, identity[f]>>, at |-> at,
                                 addr |-> addr]}
    /\ UNCHANGED <<now, identity, peers, endpoints, ingest>>

\* A friend starts over with an empty vault, and load_or_create mints a key.
Reinstall(f) ==
    /\ identity[f] < Identities
    /\ identity' = [identity EXCEPT ![f] = @ + 1]
    /\ UNCHANGED <<now, signed, peers, endpoints, ingest>>

Tick ==
    /\ now < LastTick
    /\ now' = now + 1
    /\ UNCHANGED <<identity, signed, peers, endpoints, ingest>>

Active(f) == peers[f].present /\ ~peers[f].revoked

\* push: a friend's request, authenticated by its API key, with its own record or as much
\* as it likes of its view of others.
Batches == UNION {[1 .. n -> signed] : n \in 1 .. MaxBatch}

push(i, f) ==
    /\ ingest[i].at = "idle" /\ Active(f)
    /\ \E batch \in Batches :
         ingest' = [ingest EXCEPT ![i] = [NoIngest EXCEPT !.at = "list", !.from = f,
                                                      !.batch = batch]]
    /\ UNCHANGED <<now, identity, signed, peers, endpoints>>

\* exchange_with: the pull names every key on record ...
Ask(i, f) ==
    /\ ingest[i].at = "idle" /\ Active(f)
    /\ ingest' = [ingest EXCEPT ![i] = [NoIngest EXCEPT !.at = "asked", !.from = f,
         !.known = {peers[g].pubkey : g \in {h \in Friends : peers[h].present}} \ {None}]]
    /\ UNCHANGED <<now, identity, signed, peers, endpoints>>

\* A mutant: the friend relays whatever it holds, named or not.
pull_unasked(i) ==
    /\ ingest[i].at = "asked"
    /\ \E own \in {<<>>} \cup {<<r>> : r \in By(ingest[i].from)},
          relayed \in {<<>>} \cup {<<r>> : r \in {q \in signed :
                                              q.key[1] # ingest[i].from}} :
         ingest' = [ingest EXCEPT ![i] = IF own \o relayed = <<>> THEN NoIngest
                      ELSE [ingest[i] EXCEPT !.at = "list", !.known = {},
                                             !.batch = own \o relayed]]
    /\ UNCHANGED <<now, identity, signed, peers, endpoints>>

\* ... and the friend answers (pull): its own record, unless its vault is shut,
\* and the records it holds of those it was asked about.
pull(i) ==
    /\ ingest[i].at = "asked"
    /\ \E own \in {<<>>} \cup {<<r>> : r \in By(ingest[i].from)},
          relayed \in {<<>>} \cup {<<r>> : r \in {q \in signed :
                          q.key \in ingest[i].known /\ q.key[1] # ingest[i].from}} :
         ingest' = [ingest EXCEPT ![i] = IF own \o relayed = <<>> THEN NoIngest
                      ELSE [ingest[i] EXCEPT !.at = "list", !.known = {},
                                             !.batch = own \o relayed]]
    /\ UNCHANGED <<now, identity, signed, peers, endpoints>>

\* The friend cannot be reached, or does not answer in time.
AskFails(i) ==
    /\ ingest[i].at = "asked"
    /\ ingest' = [ingest EXCEPT ![i] = NoIngest]
    /\ UNCHANGED <<now, identity, signed, peers, endpoints>>

-----------------------------------------------------------------------------
(* The operator, and the feed.                                             *)

revoke_peer(f) ==
    /\ Active(f)
    /\ peers' = [peers EXCEPT ![f].revoked = TRUE]
    /\ UNCHANGED <<now, identity, signed, endpoints, ingest>>

\* delete_peer: the row goes and its endpoints with it.
delete_peer(f) ==
    /\ MayDelete /\ peers[f].present
    /\ peers' = [peers EXCEPT ![f] = [present |-> FALSE, revoked |-> FALSE,
                                    pubkey |-> None, record |-> None]]
    /\ endpoints' = [endpoints EXCEPT ![f] = {}]
    /\ UNCHANGED <<now, identity, signed, ingest>>

\* A mutant: the last sighting to arrive wins.
Upsert_last(eps, e) == {k \in eps : k.addr # e.addr} \cup {e}

\* UPSERT_NEWER: a new address is added, a known one only moves forward.
Upsert(eps, e) ==
    LET known == {k \in eps : k.addr = e.addr} IN
    IF \A k \in known : e.at > k.at THEN (eps \ known) \cup {e} ELSE eps

\* A mutant: one address more than the limit survives.
Prunings_more(eps) ==
    {kept \in SUBSET eps :
        /\ Cardinality(kept) <= History + 1
        /\ kept = eps \/ Cardinality(kept) = History + 1
        /\ \A k \in kept, d \in eps \ kept : k.at >= d.at}

\* The newest few, of those that may be kept when times are equal: no more than the
\* limit, and fewer only when there are no more.
Prunings(eps) ==
    {kept \in SUBSET eps :
        /\ Cardinality(kept) <= History
        /\ kept = eps \/ Cardinality(kept) = History
        /\ \A k \in kept, d \in eps \ kept : k.at >= d.at}

\* record_peer_endpoint, one transaction: clamp, upsert, and prune what an
\* upsert that wrote something has made too long.
record_peer_endpoint(f, addr, at) ==
    LET e == [addr |-> addr, at |-> IF at < now + Skew THEN at ELSE now + Skew]
        eps == Upsert(endpoints[f], e)
    IN IF ~peers[f].present \/ eps = endpoints[f] THEN UNCHANGED endpoints
       ELSE \E kept \in Prunings(eps) : endpoints' = [endpoints EXCEPT ![f] = kept]

\* A friend's request to the feed shows its address first hand.
Sighting(f) ==
    /\ Active(f)
    /\ \E addr \in Addrs : record_peer_endpoint(f, addr, now)
    /\ UNCHANGED <<now, identity, signed, peers, ingest>>

\* lookup_quiet_one: a lighthouse answers with a record of a friend whose key is known,
\* read from a list that may be older than the friend's being revoked or deleted.
lookup_quiet_one(f) ==
    /\ \E r \in signed : /\ r.key = peers[f].pubkey
                         /\ \/ record_peer_endpoint(f, r.addr, r.at)
                            \/ WriteFails /\ UNCHANGED endpoints
    /\ UNCHANGED <<now, identity, signed, peers, ingest>>

-----------------------------------------------------------------------------
(* ingest: snapshots first, then record by record.                         *)

\* Without the list there is nothing to go by, and the batch is dropped.
list_peers(i) ==
    /\ ingest[i].at = "list"
    /\ \/ ingest' = [ingest EXCEPT ![i].at = "stamps", ![i].now = now,
            ![i].peers = [f \in Friends |-> [present |-> peers[f].present,
                 revoked |-> peers[f].revoked, pubkey |-> peers[f].pubkey]]]
       \/ ReadFails /\ ingest' = [ingest EXCEPT ![i] = NoIngest]
    /\ UNCHANGED <<now, identity, signed, peers, endpoints>>

\* The stored signed_at of everyone listed.  A read that fails reads as
\* nothing stored.
Stamp(f) == IF peers[f].record = None THEN -1 ELSE peers[f].record.at

peer_gossip_records(i) ==
    /\ ingest[i].at = "stamps"
    /\ \E failed \in {FALSE, ReadFails} :
         ingest' = [ingest EXCEPT ![i].at = "record",
                      ![i].stamps = [f \in Friends |-> IF failed THEN -1 ELSE Stamp(f)]]
    /\ UNCHANGED <<now, identity, signed, peers, endpoints>>

\* The rest of the batch, or the end of it.
RestOf(i, in) ==
    IF Len(in.batch) = 1 THEN NoIngest
    ELSE [in EXCEPT !.at = "record", !.batch = Tail(@), !.subject = None]

\* A mutant: the index by key leaves out the revoked.
Subjects_active(in, r) ==
    {f \in Friends : in.peers[f].pubkey = r.key /\ ~in.peers[f].revoked}

\* Whom a record is about, by the snapshot: one row, or the last listed of those that two
\* ingests have bound to the same key.
Subjects(in, r) == {f \in Friends : in.peers[f].pubkey = r.key}

\* A mutant: only the records of the revoked are passed over, and a time far
\* ahead counts as the host's own.
PassOver_revoked(i) ==
    LET in == ingest[i]
        r == Head(in.batch)
    IN /\ in.at = "record"
       /\ IF r.at > in.now + Skew
             THEN \E f \in Subjects(in, r) :
                     ingest' = [ingest EXCEPT ![i].at = "endpoint", ![i].subject = f]
             ELSE /\ \E f \in Subjects(in, r) : in.peers[f].revoked
                  /\ ingest' = [ingest EXCEPT ![i] = RestOf(i, in)]
       /\ UNCHANGED <<now, identity, signed, peers, endpoints>>

\* A record signed too far ahead, or about somebody revoked, is passed over.
PassOver(i) ==
    LET in == ingest[i]
        r == Head(in.batch)
    IN /\ in.at = "record"
       /\ \/ r.at > in.now + Skew
          \/ \E f \in Subjects(in, r) : in.peers[f].revoked
       /\ ingest' = [ingest EXCEPT ![i] = RestOf(i, in)]
       /\ UNCHANGED <<now, identity, signed, peers, endpoints>>

\* A mutant: whatever is presented is fresh.
Weigh_all(i, f) ==
    ingest' = [ingest EXCEPT ![i].at = "endpoint", ![i].subject = f]

\* Freshness: a record no newer than the stamp read is stale.
Weigh(i, f) ==
    LET in == ingest[i] IN
    ingest' = [ingest EXCEPT ![i] =
        IF in.stamps[f] >= Head(in.batch).at THEN RestOf(i, in)
        ELSE [in EXCEPT !.at = "endpoint", !.subject = f]]

TakeKnown(i) ==
    LET in == ingest[i]
        r == Head(in.batch)
    IN /\ in.at = "record"
       /\ r.at <= in.now + Skew
       /\ \E f \in Subjects(in, r) : ~in.peers[f].revoked /\ Weigh(i, f)
       /\ UNCHANGED <<now, identity, signed, peers, endpoints>>

\* A mutant: the key of a row is set whatever it was.
Bindable_always(f, key) == peers[f].present

\* bind_peer_pubkey: a row that has no key yet, or this one.
Bindable(f, key) == peers[f].present /\ peers[f].pubkey \in {None, key}

\* A mutant: the answer of bind_peer_pubkey is not looked at.
TakeUnbound_unchecked(i) ==
    LET in == ingest[i]
        r == Head(in.batch)
        f == in.from
    IN /\ in.at = "record"
       /\ r.at <= in.now + Skew
       /\ Subjects(in, r) = {}
       /\ IF in.peers[f].present /\ in.peers[f].pubkey = None
             THEN /\ peers' = [peers EXCEPT ![f].pubkey =
                                IF Bindable(f, r.key) THEN r.key ELSE @]
                  /\ Weigh(i, f)
             ELSE UNCHANGED peers /\ ingest' = [ingest EXCEPT ![i] = RestOf(i, in)]
       /\ UNCHANGED <<now, identity, signed, endpoints>>

\* A key nobody has is the presenter's, if the presenter was listed without
\* one and the row still has none; it is a stranger's otherwise, or when the
\* write fails.
TakeUnbound(i) ==
    LET in == ingest[i]
        r == Head(in.batch)
        f == in.from
    IN /\ in.at = "record"
       /\ r.at <= in.now + Skew
       /\ Subjects(in, r) = {}
       /\ \/ /\ in.peers[f].present /\ in.peers[f].pubkey = None /\ Bindable(f, r.key)
             /\ peers' = [peers EXCEPT ![f].pubkey = r.key] /\ Weigh(i, f)
          \/ /\ \/ ~(in.peers[f].present /\ in.peers[f].pubkey = None /\ Bindable(f, r.key))
                \/ WriteFails
             /\ UNCHANGED peers /\ ingest' = [ingest EXCEPT ![i] = RestOf(i, in)]
       /\ UNCHANGED <<now, identity, signed, endpoints>>

\* record_endpoints: a write that fails only warns.
record_endpoints(i) ==
    LET in == ingest[i]
        r == Head(in.batch)
    IN /\ in.at = "endpoint"
       /\ \/ record_peer_endpoint(in.subject, r.addr, r.at)
          \/ WriteFails /\ UNCHANGED endpoints
       /\ ingest' = [ingest EXCEPT ![i].at = "store"]
       /\ UNCHANGED <<now, identity, signed, peers>>

\* set_peer_gossip_record, whatever the row holds by now; the stamp follows
\* unless the write failed.
set_peer_gossip_record(i) ==
    LET in == ingest[i]
        f == in.subject
        r == Head(in.batch)
    IN /\ in.at = "store"
       /\ \/ /\ peers' = [peers EXCEPT ![f].record = IF peers[f].present THEN r ELSE @]
             /\ ingest' = [ingest EXCEPT ![i] =
                             RestOf(i, [in EXCEPT !.stamps[f] = r.at])]
          \/ /\ WriteFails
             /\ ingest' = [ingest EXCEPT ![i] = RestOf(i, in)]
             /\ UNCHANGED peers
       /\ UNCHANGED <<now, identity, signed, endpoints>>

Ingest(i) ==
    \/ list_peers(i) \/ peer_gossip_records(i)
    \/ PassOver(i) \/ TakeKnown(i) \/ TakeUnbound(i)
    \/ record_endpoints(i) \/ set_peer_gossip_record(i)

GossipNext ==
    \/ \E f \in Friends :
         self_record(f) \/ Reinstall(f) \/ revoke_peer(f) \/ delete_peer(f)
           \/ Sighting(f) \/ lookup_quiet_one(f)
    \/ Tick
    \/ \E i \in Ingests :
         \/ \E f \in Friends : push(i, f) \/ Ask(i, f)
         \/ pull(i) \/ AskFails(i) \/ Ingest(i)

GossipSpec == GossipInit /\ [][GossipNext]_gossipVars

-----------------------------------------------------------------------------
(* Properties.                                                             *)

\* A friend's row is bound to a key that friend signs with: "learned on
\* trust-on-first-use from the first *self*-record they present", never from a
\* record they relay (migrations/0006_peer_endpoints.sql; ingest).
BindsOwn ==
    \A f \in Friends : peers[f].pubkey # None => peers[f].pubkey[1] = f

\* No two rows are bound to one key, so that "identity is the pubkey" names one friend,
\* whoever presents whose records (ingest: by_pubkey, bind_peer_pubkey).
KeysApart ==
    \A f, g \in Friends :
        f # g /\ peers[f].pubkey # None => peers[f].pubkey # peers[g].pubkey

\* Once bound, a row keeps its key for as long as it exists, however many
\* ingests listed it before it was bound.
IdentityKept ==
    [][\A f \in Friends : peers[f].pubkey # None /\ peers'[f].present =>
           peers'[f].pubkey = peers[f].pubkey]_peers

\* The stored record of a friend, which is relayed to others, never gives way
\* to an older one ("never let an older record rewind a newer one").
NoRewind ==
    [][\A f \in Friends : peers[f].record # None /\ peers'[f].record # None =>
           peers'[f].record.at >= peers[f].record.at]_peers

\* Where a friend was last seen only moves forward in time: no sighting is dropped unless
\* one at least as new is there, whatever order records and sightings arrive in and
\* whatever is pruned.
NewestForward ==
    [][\A f \in Friends : peers'[f].present =>
           \A e \in endpoints[f] : \E d \in endpoints'[f] : d.at >= e.at]_endpoints

\* The history of a friend stays within the retention limit.
HistoryBounded == \A f \in Friends : Cardinality(endpoints[f]) <= History

\* Neither a stored record nor a sighting is further ahead of the clock than
\* the skew allows, so no slot is locked against honest updates.
NotAhead ==
    \A f \in Friends :
        /\ peers[f].record # None => peers[f].record.at <= now + Skew
        /\ \A e \in endpoints[f] : e.at <= now + Skew

\* A stored record is its row's own: relayed under the key it is bound to.
RecordsOwn ==
    \A f \in Friends : peers[f].record # None => peers[f].record.key = peers[f].pubkey

\* A stored record is its row's own, the history stays within its limit and nothing is
\* further ahead than the skew allows, although two ingests read and write the same rows
\* (set_peer_gossip_record, record_peer_endpoint).
StoresRightly == RecordsOwn /\ HistoryBounded /\ NotAhead

\* Neither the key a row is bound to nor the time of the newest sighting is ever turned
\* back, by whichever ingest comes last.
NothingUndone == IdentityKept /\ NewestForward
=============================================================================
