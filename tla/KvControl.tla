------------------------------ MODULE KvControl ------------------------------
(***************************************************************************)
(* The coordinator's versioned meta key-value store: KvControl in          *)
(* src/coordinator/kv_control_kv.cc.                                       *)
(*                                                                         *)
(* A client request is validated against the leader's in-memory maps       *)
(* (KvPut, KvDeleteRange), which build a MetaIncrement of sub-commands     *)
(* tagged with a reserved (main, sub) revision; the increment is committed *)
(* to the replicated log and later applied, one sub-command at a time, by  *)
(* the single apply thread (KvPutApply, KvDeleteApply, KvCompactApply).    *)
(* Requests and applies interleave: what a request read may be stale when  *)
(* its command applies.  An apply writes kv_index_map_ and kv_rev_map_ in  *)
(* two separate map updates (PutRawKvIndex, then PutRawKvRev), so a        *)
(* request may read between the two.                                       *)
(*                                                                         *)
(* The lease registry, the watch bus, the revision id epoch and the apply  *)
(* dispatcher live in files outside src/ and are modelled from spec.md.    *)
(***************************************************************************)
EXTENDS Integers, Sequences, FiniteSets, TLC, SequencesExt, Functions

CONSTANTS
  Keys,              \* logical keys; naturals > 0 so ranges are ordered
  Values,            \* non-empty values a client may put
  NoValue,           \* the empty string
  Point,             \* range_end = ""   : a point lookup of key
  All,               \* range_end = "\0" : every key >= key
  MaxLease,          \* lease ids 1..MaxLease, issued in order
  MaxRevision,       \* bound on the ID_NEXT_REVISION epoch
  MaxLog,            \* bound on committed, not yet applied sub-commands
  Watchers,          \* clients that issue one-shot watches
  AutoCompaction,    \* FLAGS_auto_compaction
  RetentionRevCount, \* FLAGS_compaction_retention_rev_count
  CompactBatch,      \* keys per KvCompact call (50 in CompactionTask)
  SubmitMayFail      \* the caller's SubmitMetaIncrement may fail

ASSUME Keys \subseteq Nat \ {0} /\ Keys # {}
ASSUME NoValue \notin Values
ASSUME MaxLease \in Nat /\ MaxRevision \in Nat /\ MaxLog \in Nat \ {0}
ASSUME AutoCompaction \in BOOLEAN /\ RetentionRevCount \in Nat
ASSUME CompactBatch \in Nat \ {0} /\ SubmitMayFail \in BOOLEAN

VARIABLES
  kvIndexMap,   \* kv_index_map_: key -> [mod, gens]
  kvRevMap,     \* kv_rev_map_: revision -> KvRevInternal
  leaseMap,     \* kv_lease_map_: the ids of the existing leases
  leaseKeys,    \* lease id -> the set of keys registered with it
  leaseId,      \* id epoch of leases: the last lease id issued
  revision,     \* ID_NEXT_REVISION: the last main revision reserved
  log,          \* committed sub-commands the apply thread has not applied
  applying,     \* a put/delete whose index write is done, kv_rev write not
  watch,        \* one_time_watch_map_, one slot per watcher
  lastEvent     \* history: main revision of the last event applied per key

vars == <<kvIndexMap, kvRevMap, leaseMap, leaseKeys, leaseId, revision, log,
          applying, watch, lastEvent>>

-----------------------------------------------------------------------------
(* Revisions, generations and records                                      *)

NoLease == 0
LeaseIds == 1..MaxLease
MaxSub == Cardinality(Keys)
Rev == (0..MaxRevision) \X (0..MaxSub)

\* A RevisionInternal with neither field set; a generation whose
\* create_revision is ZeroRev has no create_revision: it is a tombstone.
ZeroRev == <<0, 0>>
RevLess(a, b) == a[1] < b[1] \/ (a[1] = b[1] /\ a[2] < b[2])

\* The 17-byte kv_rev_map_ key of a revision.  Buf (outside src/) writes a
\* long as 8 bytes, most significant first (spec.md section 3); a byte is a
\* natural in 0..255 and '_' is 95.
Sep == 95
RECURSIVE WriteLong(_, _)
WriteLong(n, w) ==
  IF w = 0 THEN <<>> ELSE Append(WriteLong(n \div 256, w - 1), n % 256)
ReadLong(bytes) == FoldLeft(LAMBDA acc, b : acc * 256 + b, 0, bytes)

\* Mutant: the separator is not written (line 49 dropped)
RevisionToStringNoSep(r) == WriteLong(r[1], 8) \o WriteLong(r[2], 8)

RevisionToString(r) == WriteLong(r[1], 8) \o <<Sep>> \o WriteLong(r[2], 8)

\* A key not 17 bytes long decodes to the default RevisionInternal
StringToRevision(s) ==
  IF Len(s) # 17 THEN ZeroRev
  ELSE <<ReadLong(SubSeq(s, 1, 8)), ReadLong(SubSeq(s, 10, 17))>>

EmptyGeneration == [create |-> ZeroRev, revs |-> <<>>, ver |-> 0]
Generation == [create: Rev, revs: Seq(Rev), ver: Nat]
KvIndex == [mod: Rev, gens: Seq(Generation)]
KvRevRec == [key: Keys, value: Values \cup {NoValue}, create: Rev, mod: Rev,
             ver: Nat, lease: {NoLease} \cup LeaseIds, deleted: BOOLEAN]
\* pb::version::Kv, the record a read or a watch event carries (main only)
Kv == [key: {0} \cup Keys, value: Values \cup {NoValue}, create: Nat,
       mod: Nat, ver: Nat, lease: {NoLease} \cup LeaseIds]
EmptyKv == [key |-> 0, value |-> NoValue, create |-> 0, mod |-> 0, ver |-> 0,
            lease |-> NoLease]
\* A GetRawKvRev that misses leaves the default KvRevInternal
DefaultKvRev == [key |-> CHOOSE k \in Keys : TRUE, value |-> NoValue,
                 create |-> ZeroRev, mod |-> ZeroRev, ver |-> 0,
                 lease |-> NoLease, deleted |-> FALSE]

\* The kv_indexes sub-commands of a MetaIncrement (and the lease revoke)
OpTypes == {"put", "delete", "compact", "revoke"}
Op == [type: OpTypes, key: {0} \cup Keys, rev: Rev, lease: {NoLease} \cup LeaseIds,
       ignoreLease: BOOLEAN, ignoreValue: BOOLEAN, value: Values \cup {NoValue}]
NoApply == [rev |-> ZeroRev]
Event == [type: {"put", "delete"}, new: Kv, prev: Kv]
NoEvent == [type |-> "none"]
IdleWatch == [state |-> "idle", key |-> 0, start |-> 0, reg |-> 0, event |-> NoEvent]

MapPut(f, k, v) == [x \in DOMAIN f \cup {k} |-> IF x = k THEN v ELSE f[x]]
MapErase(f, S) == Restrict(f, DOMAIN f \ S)
EmptyMap == [x \in {} |-> 0]

-----------------------------------------------------------------------------
(* Read path                                                               *)

\* GetRawKvRev: the record, or the default one when the revision is absent
KvRevAt(r) == IF r \in DOMAIN kvRevMap THEN kvRevMap[r] ELSE DefaultKvRev

\* PutRawKvRev and DeleteRawKvRev: kv_rev_map_ is keyed by RevisionToString,
\* which is one-to-one (RevisionEncodingRoundTrip), so the map is modelled
\* as keyed by the revision itself.
PutRawKvRev(r, rec) == MapPut(kvRevMap, r, rec)
DeleteRawKvRev(revs) == MapErase(kvRevMap, revs)

\* The filter of RangeRawKvIndex and of the KvRange loop: the latest
\* generation has a create_revision and at least one revision.
IsListed(idx) ==
  /\ idx.gens # <<>>
  /\ Last(idx.gens).create # ZeroRev
  /\ Last(idx.gens).revs # <<>>

\* The key bounds of RangeRawKvIndex for range_end "", "\0" or a key
InRange(k, key, rangeEnd) ==
  CASE rangeEnd = Point -> k = key
    [] rangeEnd = All   -> k >= key
    [] OTHER            -> key <= k /\ k < rangeEnd

\* The pb::version::Kv projected from a KvRevInternal (main revisions only)
RecToKv(x) ==
  [key |-> x.key, value |-> x.value, create |-> x.create[1],
   mod |-> x.mod[1], ver |-> x.ver, lease |-> x.lease]

ToKv(r) == RecToKv(kvRevMap[r])

\* KvRange: the Kv of every listed key in the range whose kv_rev at
\* mod_revision is found (a miss is skipped with `continue`).
KvRange(key, rangeEnd) ==
  { ToKv(kvIndexMap[k].mod) :
      k \in { k \in DOMAIN kvIndexMap :
                /\ InRange(k, key, rangeEnd)
                /\ IsListed(kvIndexMap[k])
                /\ kvIndexMap[k].mod \in DOMAIN kvRevMap } }

SortByKey(kvs) == SetToSortSeq(kvs, LAMBDA a, b : a.key < b.key)

\* KvRange with limit and count_only: the loop over the listed keys in key
\* order counts each one, stops past the limit (0 is INT64_MAX), skips the
\* kv_rev lookup when count_only or when it misses; total_count_in_range
\* is the size of the returned vector.
KvRangeLimited(key, rangeEnd, limit, countOnly) ==
  LET lim    == IF limit = 0 THEN Cardinality(Keys) + 1 ELSE limit
      listed == SetToSortSeq({ k \in DOMAIN kvIndexMap :
                                 InRange(k, key, rangeEnd) /\ IsListed(kvIndexMap[k]) }, <)
      step(acc, k) ==
        IF acc.stop THEN acc
        ELSE IF acc.count + 1 > lim THEN [acc EXCEPT !.stop = TRUE]
        ELSE IF countOnly \/ kvIndexMap[k].mod \notin DOMAIN kvRevMap
        THEN [acc EXCEPT !.count = @ + 1]
        ELSE [acc EXCEPT !.count = @ + 1, !.kvs = Append(@, ToKv(kvIndexMap[k].mod))]
      res    == FoldLeft(step, [count |-> 0, stop |-> FALSE, kvs |-> <<>>], listed)
  IN [kvs |-> res.kvs, total |-> Len(res.kvs)]

-----------------------------------------------------------------------------
(* Request path: validation and building the MetaIncrement                 *)

\* Mutant: the id epoch never reports exhaustion
ReserveUnbounded == revision' = revision + 1

\* GetNextId(ID_NEXT_REVISION): reserve the main revision of a request
Reserve == revision < MaxRevision /\ revision' = revision + 1

\* SubmitMetaIncrement: the sub-commands enter the log in order
Submit(ops) == Len(log) + Len(ops) <= MaxLog /\ log' = log \o ops

\* The caller of KvPut/KvDeleteRange submits the increment they built; when
\* the submit fails (not leader, raft error) the increment is dropped, but
\* what the request already did to the lease registry stays done.
SubmitOutcomes == IF SubmitMayFail THEN BOOLEAN ELSE {TRUE}
SubmitIf(ops, ok) == IF ok THEN Submit(ops) ELSE UNCHANGED log

\* The put sub-command.  ignore_value is set on the increment only when it
\* is false, so the applied command always reads the proto default: false.
PutOp(k, rev, ignoreLease, lease, ignoreValue, value) ==
  [type |-> "put", key |-> k, rev |-> rev, lease |-> lease,
   ignoreLease |-> ignoreLease, ignoreValue |-> FALSE,
   value |-> IF ignoreValue THEN NoValue ELSE value]

DeleteOp(k, rev) ==
  [type |-> "delete", key |-> k, rev |-> rev, lease |-> NoLease,
   ignoreLease |-> FALSE, ignoreValue |-> FALSE, value |-> NoValue]

CompactOp(k, rev) ==
  [type |-> "compact", key |-> k, rev |-> rev, lease |-> NoLease,
   ignoreLease |-> FALSE, ignoreValue |-> FALSE, value |-> NoValue]

RevokeOp(l) ==
  [type |-> "revoke", key |-> 0, rev |-> ZeroRev, lease |-> l,
   ignoreLease |-> FALSE, ignoreValue |-> FALSE, value |-> NoValue]

\* KvPut: reject an empty value, an unknown lease, ignore_lease on a key
\* that is not found, a lease other than the key's current one; then add
\* the key to its lease and emit one put at (main, 0).
KvPut(k, v, lid, ignoreValue, ignoreLease, ok) ==
  LET cur   == KvRange(k, Point)
      found == cur # {}
      curKv == CHOOSE x \in cur : TRUE
      grant == IF found THEN curKv.lease ELSE lid      \* lease_grant_id
  IN
  /\ ignoreValue \/ v # NoValue
  /\ ignoreLease \/ lid = NoLease \/ lid \in leaseMap  \* LeaseQuery
  /\ ignoreLease => found
  /\ (~ignoreLease /\ found) => curKv.lease = lid
  /\ grant # NoLease => grant \in leaseMap             \* LeaseAddKeys
  /\ Reserve
  /\ SubmitIf(<< PutOp(k, <<revision + 1, 0>>, ignoreLease, grant, ignoreValue, v) >>, ok)
  /\ leaseKeys' = IF grant = NoLease THEN leaseKeys
                  ELSE [leaseKeys EXCEPT ![grant] = @ \cup {k}]
  /\ UNCHANGED <<kvIndexMap, kvRevMap, leaseMap, leaseId, applying, watch, lastEvent>>

\* Mutant: sub_revision is not incremented between deleted keys (line 502)
DeleteOpsSameSub(order, main, sub0) ==
  [i \in 1..Len(order) |-> DeleteOp(order[i].key, <<main, sub0>>)]

\* One delete per found key, in key order, sub revisions sub0, sub0+1, ...
DeleteOps(order, main, sub0) ==
  [i \in 1..Len(order) |-> DeleteOp(order[i].key, <<main, sub0 + i - 1>>)]

\* keys_to_remove_lease.insert_or_assign(lease, {key}): for every lease,
\* the set holds only the last key bound to it.
LeaseRemoval(order) ==
  [l \in LeaseIds |->
     { order[i].key : i \in { i \in 1..Len(order) :
                                /\ order[i].lease = l
                                /\ \A j \in i+1..Len(order) : order[j].lease # l } }]

\* KvDeleteRange from a client (need_lease_remove_keys): delete every key the
\* range finds and remove the keys from their leases.
KvDeleteRange(key, rangeEnd, ok) ==
  LET order   == SortByKey(KvRange(key, rangeEnd))
      removed == LeaseRemoval(order)
  IN
  /\ order # <<>>
  /\ Reserve
  /\ SubmitIf(DeleteOps(order, revision + 1, 0), ok)
  /\ leaseKeys' = [l \in LeaseIds |-> leaseKeys[l] \ removed[l]]
  /\ UNCHANGED <<kvIndexMap, kvRevMap, leaseMap, leaseId, applying, watch, lastEvent>>

\* The batching loop of CompactionTask over the keys of kv_index_map_:
\* a key joins the batch while it has fewer than CompactBatch keys;
\* otherwise the batch is compacted and cleared (and that key is not
\* added); a non-empty last batch is compacted after the loop.
CompactBatches(keys) ==
  LET step(acc, k) ==
        IF Len(acc.cur) < CompactBatch
        THEN [acc EXCEPT !.cur = Append(@, k)]
        ELSE [cur |-> <<>>, out |-> Append(acc.out, acc.cur)]
      res == FoldLeft(step, [cur |-> <<>>, out |-> <<>>], keys)
  IN IF res.cur # <<>> THEN Append(res.out, res.cur) ELSE res.out

\* CompactionTask + KvCompact: every batch is compacted at
\* now_revision - retention; each KvCompact is one MetaIncrement.
CompactionTask ==
  /\ AutoCompaction
  /\ revision >= RetentionRevCount
  /\ DOMAIN kvIndexMap # {}
  /\ LET keys    == SetToSortSeq(DOMAIN kvIndexMap, <)
         at      == <<revision - RetentionRevCount, 0>>
         batches == CompactBatches(keys)
     IN Submit(FlattenSeq([b \in DOMAIN batches |->
                  [i \in DOMAIN batches[b] |-> CompactOp(batches[b][i], at)]]))
  /\ UNCHANGED <<kvIndexMap, kvRevMap, leaseMap, leaseKeys, leaseId, revision,
                 applying, watch, lastEvent>>

\* CompactionTask's early returns: auto_compaction off, now_revision below
\* the retention count, or no key; the periodic task then does nothing.
CompactionTaskSkip ==
  /\ \/ ~AutoCompaction
     \/ revision < RetentionRevCount
     \/ DOMAIN kvIndexMap = {}
  /\ UNCHANGED vars

-----------------------------------------------------------------------------
(* Lease registry (kv_control_lease, outside src/: from spec.md 4.C)       *)

LeaseGrant ==
  /\ leaseId < MaxLease
  /\ leaseId' = leaseId + 1
  /\ leaseMap' = leaseMap \cup {leaseId + 1}
  /\ UNCHANGED <<kvIndexMap, kvRevMap, leaseKeys, revision, log, applying,
                 watch, lastEvent>>

\* Expiry or revoke: a KvDeleteRange (without lease key removal) of every
\* key registered with the lease, then the removal of the lease, in one
\* increment.  Time is abstracted: a lease may expire at any moment.
LeaseRevoke(l) ==
  LET order == SortByKey(UNION { KvRange(k, Point) : k \in leaseKeys[l] })
  IN
  /\ l \in leaseMap
  /\ Reserve
  /\ Submit(DeleteOps(order, revision + 1, 0) \o << RevokeOp(l) >>)
  /\ UNCHANGED <<kvIndexMap, kvRevMap, leaseMap, leaseKeys, leaseId, applying,
                 watch, lastEvent>>

-----------------------------------------------------------------------------
(* Watch bus (kv_control_watch, outside src/: from spec.md 4.E)            *)

OneTimeWatch(w, k, start) ==
  /\ watch[w].state = "idle"
  /\ watch' = [watch EXCEPT ![w] = [state |-> "waiting", key |-> k, start |-> start,
                                    reg |-> lastEvent[k], event |-> NoEvent]]
  /\ UNCHANGED <<kvIndexMap, kvRevMap, leaseMap, leaseKeys, leaseId, revision,
                 log, applying, lastEvent>>

\* The client cancels a pending watch, or collects a fired one
WatchRelease(w) ==
  /\ watch[w].state # "idle"
  /\ watch' = [watch EXCEPT ![w] = IdleWatch]
  /\ UNCHANGED <<kvIndexMap, kvRevMap, leaseMap, leaseKeys, leaseId, revision,
                 log, applying, lastEvent>>

\* TriggerOneWatch: every waiting watch on the key with start_rev <= the
\* event's mod_revision fires once with the event.
TriggerOneWatch(key, type, newKv, prevKv) ==
  [w \in Watchers |->
     IF /\ watch[w].state = "waiting"
        /\ watch[w].key = key
        /\ watch[w].start <= newKv.mod
     THEN [watch[w] EXCEPT !.state = "fired",
                           !.event = [type |-> type, new |-> newKv, prev |-> prevKv]]
     ELSE watch[w]]

-----------------------------------------------------------------------------
(* Apply thread                                                            *)

\* Mutant: a put into an open generation does not bump its version (line 583)
PutGenerationsNoVersionBump(gens, rev) ==
  IF gens = <<>>
  THEN << [create |-> rev, revs |-> <<rev>>, ver |-> 1] >>
  ELSE LET g == Last(gens)
       IN [gens EXCEPT ![Len(gens)] =
             IF g.create # ZeroRev
             THEN [g EXCEPT !.revs = Append(@, rev)]
             ELSE [create |-> rev, revs |-> Append(g.revs, rev), ver |-> 1]]

\* KvPutApply: the generations after the put at rev
PutGenerations(gens, rev) ==
  IF gens = <<>>
  THEN << [create |-> rev, revs |-> <<rev>>, ver |-> 1] >>
  ELSE LET g == Last(gens)
       IN [gens EXCEPT ![Len(gens)] =
             IF g.create # ZeroRev
             THEN [g EXCEPT !.revs = Append(@, rev), !.ver = @ + 1]
             ELSE [create |-> rev, revs |-> Append(g.revs, rev), ver |-> 1]]

\* Mutant: prev_kv's mod_revision is read after kv_index.mod_revision was
\* set to the op revision (line 605 before line 588)
PutEffectPrevModIsNew(op) ==
  LET k       == op.key
      exists  == k \in DOMAIN kvIndexMap
      gens    == IF exists THEN kvIndexMap[k].gens ELSE <<>>
      lastMod == IF exists THEN kvIndexMap[k].mod ELSE ZeroRev
      last    == KvRevAt(lastMod)                        \* kv_rev_last
      newGens == PutGenerations(gens, op.rev)
      g       == Last(newGens)
      open    == gens # <<>> /\ Last(gens).create # ZeroRev
  IN [gens  |-> newGens,
      rec   |-> [key |-> k, create |-> g.create, mod |-> op.rev, ver |-> g.ver,
                 deleted |-> FALSE,
                 value |-> IF op.ignoreValue THEN last.value ELSE op.value,
                 lease |-> IF op.ignoreLease THEN last.lease ELSE op.lease],
      prev  |-> IF open
                THEN [key |-> k, value |-> last.value, create |-> g.create[1],
                      mod |-> op.rev[1], ver |-> g.ver, lease |-> last.lease]
                ELSE EmptyKv]

\* The put the head command would write, with its watch prev_kv
PutEffect(op) ==
  LET k       == op.key
      exists  == k \in DOMAIN kvIndexMap
      gens    == IF exists THEN kvIndexMap[k].gens ELSE <<>>
      lastMod == IF exists THEN kvIndexMap[k].mod ELSE ZeroRev
      last    == KvRevAt(lastMod)                        \* kv_rev_last
      newGens == PutGenerations(gens, op.rev)
      g       == Last(newGens)
      open    == gens # <<>> /\ Last(gens).create # ZeroRev
  IN [gens  |-> newGens,
      rec   |-> [key |-> k, create |-> g.create, mod |-> op.rev, ver |-> g.ver,
                 deleted |-> FALSE,
                 value |-> IF op.ignoreValue THEN last.value ELSE op.value,
                 lease |-> IF op.ignoreLease THEN last.lease ELSE op.lease],
      prev  |-> IF open
                THEN [key |-> k, value |-> last.value, create |-> g.create[1],
                      mod |-> lastMod[1], ver |-> g.ver, lease |-> last.lease]
                ELSE EmptyKv]

HeadIs(type) == applying = NoApply /\ log # <<>> /\ Head(log).type = type

\* KvPutApply up to PutRawKvIndex: the lease check passes, the index is written
ApplyPutIndex ==
  /\ HeadIs("put")
  /\ LET op == Head(log)
         e  == PutEffect(op)
     IN /\ e.rec.lease = NoLease \/ e.rec.lease \in leaseMap
        /\ kvIndexMap' = MapPut(kvIndexMap, op.key, [mod |-> op.rev, gens |-> e.gens])
        /\ applying' = [rev |-> op.rev, type |-> "put", rec |-> e.rec, prev |-> e.prev]
  /\ log' = Tail(log)
  /\ UNCHANGED <<kvRevMap, leaseMap, leaseKeys, leaseId, revision, watch, lastEvent>>

\* KvPutApply: the resolved lease does not exist; the command is a no-op
ApplyPutLeaseMissing ==
  /\ HeadIs("put")
  /\ LET rec == PutEffect(Head(log)).rec
     IN rec.lease # NoLease /\ rec.lease \notin leaseMap
  /\ log' = Tail(log)
  /\ UNCHANGED <<kvIndexMap, kvRevMap, leaseMap, leaseKeys, leaseId, revision,
                 applying, watch, lastEvent>>

\* Mutant: the delete closes the generation without a tombstone (line 731)
DeleteGenerationsNoTombstone(gens, rev) ==
  IF gens = <<>> THEN << EmptyGeneration >>
  ELSE IF Last(gens).create # ZeroRev
  THEN [gens EXCEPT ![Len(gens)].revs = Append(@, rev), ![Len(gens)].ver = @ + 1]
  ELSE gens

\* KvDeleteApply: close an open latest generation with the delete revision
\* and append a tombstone; a tombstoned key is left as it is.
DeleteGenerations(gens, rev) ==
  IF gens = <<>> THEN << EmptyGeneration >>
  ELSE IF Last(gens).create # ZeroRev
  THEN Append([gens EXCEPT ![Len(gens)].revs = Append(@, rev),
                           ![Len(gens)].ver = @ + 1], EmptyGeneration)
  ELSE gens

\* KvDeleteApply up to PutRawKvIndex, for a key that has a kv_index
ApplyDeleteIndex ==
  /\ HeadIs("delete")
  /\ Head(log).key \in DOMAIN kvIndexMap
  /\ LET op      == Head(log)
         idx     == kvIndexMap[op.key]
         last    == KvRevAt(idx.mod)
         newGens == DeleteGenerations(idx.gens, op.rev)
         \* latest_generation: the generation the delete closed (or found)
         g       == IF idx.gens = <<>> THEN [create |-> op.rev, ver |-> 1]
                    ELSE newGens[Len(idx.gens)]
         open    == idx.gens # <<>> /\ Last(idx.gens).create # ZeroRev
         rec     == [key |-> op.key, value |-> NoValue, create |-> g.create,
                     mod |-> op.rev, ver |-> g.ver, lease |-> NoLease,
                     deleted |-> TRUE]
         prev    == IF open
                    THEN [key |-> op.key, value |-> last.value, create |-> g.create[1],
                          mod |-> idx.mod[1], ver |-> g.ver, lease |-> last.lease]
                    ELSE EmptyKv
     IN /\ kvIndexMap' = MapPut(kvIndexMap, op.key, [mod |-> op.rev, gens |-> newGens])
        /\ applying' = [rev |-> op.rev, type |-> "delete", rec |-> rec, prev |-> prev]
  /\ log' = Tail(log)
  /\ UNCHANGED <<kvRevMap, leaseMap, leaseKeys, leaseId, revision, watch, lastEvent>>

\* KvDeleteApply's early return: GetRawKvIndex finds no kv_index, the
\* delete is acknowledged and nothing is written.  A delete is requested
\* only for a live key, but a compaction queued between two deletes of it
\* can erase the whole kv_index after the first one applied.
ApplyDeleteNothing ==
  /\ HeadIs("delete")
  /\ Head(log).key \notin DOMAIN kvIndexMap
  /\ log' = Tail(log)
  /\ UNCHANGED <<kvIndexMap, kvRevMap, leaseMap, leaseKeys, leaseId, revision,
                 applying, watch, lastEvent>>

\* Mutant: KvDeleteApply does not trigger the watches (line 794)
ApplyKvRevPutWatchOnly(type) ==
  /\ applying # NoApply /\ applying.type = type
  /\ LET r   == applying.rec
         new == [key |-> r.key, value |-> r.value, create |-> r.create[1],
                 mod |-> r.mod[1], ver |-> r.ver, lease |-> r.lease]
     IN /\ kvRevMap' = PutRawKvRev(applying.rev, r)
        /\ watch' = IF applying.type = "put"
                    THEN TriggerOneWatch(r.key, applying.type, new, applying.prev)
                    ELSE watch
        /\ lastEvent' = [lastEvent EXCEPT ![r.key] = applying.rev[1]]
  /\ applying' = NoApply
  /\ UNCHANGED <<kvIndexMap, leaseMap, leaseKeys, leaseId, revision, log>>

\* The rest of KvPutApply (type "put") or KvDeleteApply (type "delete"):
\* PutRawKvRev, then the watches with the new Kv and the prev_kv
ApplyKvRev(type) ==
  /\ applying # NoApply /\ applying.type = type
  /\ LET r   == applying.rec
         new == [key |-> r.key, value |-> r.value, create |-> r.create[1],
                 mod |-> r.mod[1], ver |-> r.ver, lease |-> r.lease]
     IN /\ kvRevMap' = PutRawKvRev(applying.rev, r)
        /\ watch' = TriggerOneWatch(r.key, applying.type, new, applying.prev)
        /\ lastEvent' = [lastEvent EXCEPT ![r.key] = applying.rev[1]]
  /\ applying' = NoApply
  /\ UNCHANGED <<kvIndexMap, leaseMap, leaseKeys, leaseId, revision, log>>

ApplyPutKvRev == ApplyKvRev("put")

ApplyDeleteKvRev == ApplyKvRev("delete")

\* Mutant: a history revision equal to the compaction revision is dropped
CompactHistoryStepStrict(acc, g, at) ==
  IF acc.gens # <<>> THEN [acc EXCEPT !.gens = Append(@, g)]
  ELSE IF g.create = ZeroRev THEN acc
  ELSE LET kept == SelectSeq(g.revs, LAMBDA r : r[1] > at[1])
       IN [gens |-> IF kept = <<>> THEN <<>>
                    ELSE << [create |-> g.create, revs |-> kept, ver |-> g.ver] >>,
           del  |-> acc.del \cup { r \in ToSet(g.revs) : r[1] <= at[1] }]

\* KvCompactApply, the loop over the history generations: until one is
\* kept, an open generation keeps its revisions >= at and drops the rest;
\* once one is kept, later generations are copied whole.
CompactHistoryStep(acc, g, at) ==
  IF acc.gens # <<>> THEN [acc EXCEPT !.gens = Append(@, g)]
  ELSE IF g.create = ZeroRev THEN acc
  ELSE LET kept == SelectSeq(g.revs, LAMBDA r : r[1] >= at[1])
       IN [gens |-> IF kept = <<>> THEN <<>>
                    ELSE << [create |-> g.create, revs |-> kept, ver |-> g.ver] >>,
           del  |-> acc.del \cup { r \in ToSet(g.revs) : r[1] < at[1] }]

\* Mutant: the latest revision is not kept when below the compact revision
CompactLatestNoKeepLast(acc, g, at) ==
  IF acc.gens # <<>> THEN [acc EXCEPT !.gens = Append(@, g)]
  ELSE IF g.create = ZeroRev THEN acc
  ELSE LET n       == Len(g.revs)
           keepIdx == SetToSortSeq({ j \in 1..n : g.revs[j][1] >= at[1] }, <)
           kept    == [i \in 1..Len(keepIdx) |-> g.revs[keepIdx[i]]]
       IN [gens |-> IF kept = <<>> THEN <<>>
                    ELSE << [create |-> g.create, revs |-> kept, ver |-> g.ver] >>,
           del  |-> acc.del \cup { g.revs[j] : j \in { j \in 1..n : g.revs[j][1] < at[1] } }]

\* Mutant: the kept latest revision is also erased from kv_rev_map_ (1..n)
CompactLatestErasesLast(acc, g, at) ==
  IF acc.gens # <<>> THEN [acc EXCEPT !.gens = Append(@, g)]
  ELSE IF g.create = ZeroRev THEN acc
  ELSE LET n       == Len(g.revs)
           keepIdx == SetToSortSeq({ j \in 1..n : j = n \/ g.revs[j][1] >= at[1] }, <)
           kept    == [i \in 1..Len(keepIdx) |-> g.revs[keepIdx[i]]]
       IN [gens |-> IF kept = <<>> THEN <<>>
                    ELSE << [create |-> g.create, revs |-> kept, ver |-> g.ver] >>,
           del  |-> acc.del \cup { g.revs[j] : j \in { j \in 1..n : g.revs[j][1] < at[1] } }]

\* KvCompactApply, the latest generation: a tombstone or an open generation
\* is copied after a kept one; alone, an open generation keeps its revisions
\* >= at and always its last revision.
CompactLatest(acc, g, at) ==
  IF acc.gens # <<>> THEN [acc EXCEPT !.gens = Append(@, g)]
  ELSE IF g.create = ZeroRev THEN acc
  ELSE LET n       == Len(g.revs)
           keepIdx == SetToSortSeq({ j \in 1..n : j = n \/ g.revs[j][1] >= at[1] }, <)
           kept    == [i \in 1..Len(keepIdx) |-> g.revs[keepIdx[i]]]
       IN [gens |-> IF kept = <<>> THEN <<>>
                    ELSE << [create |-> g.create, revs |-> kept, ver |-> g.ver] >>,
           del  |-> acc.del \cup { g.revs[j] : j \in { j \in 1..n-1 : g.revs[j][1] < at[1] } }]

CompactIndex(gens, at) ==
  CompactLatest(FoldLeft(LAMBDA acc, g : CompactHistoryStep(acc, g, at),
                         [gens |-> <<>>, del |-> {}],
                         SubSeq(gens, 1, Len(gens) - 1)),
                Last(gens), at)

\* KvCompactApply of a key with generations: put or erase the kv_index,
\* then erase the dropped revisions from kv_rev_map_.
ApplyCompact ==
  /\ HeadIs("compact")
  /\ Head(log).key \in DOMAIN kvIndexMap
  /\ kvIndexMap[Head(log).key].gens # <<>>
  /\ LET op  == Head(log)
         res == CompactIndex(kvIndexMap[op.key].gens, op.rev)
     IN /\ kvIndexMap' = IF res.gens = <<>>
                         THEN MapErase(kvIndexMap, {op.key})
                         ELSE MapPut(kvIndexMap, op.key,
                                     [kvIndexMap[op.key] EXCEPT !.gens = res.gens])
        /\ kvRevMap' = DeleteRawKvRev(res.del)
  /\ log' = Tail(log)
  /\ UNCHANGED <<leaseMap, leaseKeys, leaseId, revision, applying, watch, lastEvent>>

\* KvCompactApply of a key without kv_index or without generations
ApplyCompactNothing ==
  /\ HeadIs("compact")
  /\ ~(Head(log).key \in DOMAIN kvIndexMap /\ kvIndexMap[Head(log).key].gens # <<>>)
  /\ log' = Tail(log)
  /\ UNCHANGED <<kvIndexMap, kvRevMap, leaseMap, leaseKeys, leaseId, revision,
                 applying, watch, lastEvent>>

\* The lease removal of a revoke increment (spec.md 4.C)
ApplyRevoke ==
  /\ HeadIs("revoke")
  /\ LET l == Head(log).lease
     IN /\ leaseMap' = leaseMap \ {l}
        /\ leaseKeys' = [leaseKeys EXCEPT ![l] = {}]
  /\ log' = Tail(log)
  /\ UNCHANGED <<kvIndexMap, kvRevMap, leaseId, revision, applying, watch, lastEvent>>

-----------------------------------------------------------------------------

RangeEnds == {Point, All} \cup Keys
RangeLimits == {0, 1}

Init ==
  /\ kvIndexMap = EmptyMap
  /\ kvRevMap = EmptyMap
  /\ leaseMap = {}
  /\ leaseKeys = [l \in LeaseIds |-> {}]
  /\ leaseId = 0
  /\ revision = 0
  /\ log = <<>>
  /\ applying = NoApply
  /\ watch = [w \in Watchers |-> IdleWatch]
  /\ lastEvent = [k \in Keys |-> 0]

Request ==
  \/ \E k \in Keys, v \in Values \cup {NoValue}, l \in {NoLease} \cup LeaseIds,
        iv, il \in BOOLEAN, ok \in SubmitOutcomes : KvPut(k, v, l, iv, il, ok)
  \/ \E k \in Keys, e \in RangeEnds, ok \in SubmitOutcomes : KvDeleteRange(k, e, ok)
  \/ CompactionTask
  \/ CompactionTaskSkip
  \/ LeaseGrant
  \/ \E l \in LeaseIds : LeaseRevoke(l)
  \/ \E w \in Watchers, k \in Keys, s \in {revision, revision + 1} : OneTimeWatch(w, k, s)
  \/ \E w \in Watchers : WatchRelease(w)

Apply ==
  \/ ApplyPutIndex
  \/ ApplyPutLeaseMissing
  \/ ApplyDeleteIndex
  \/ ApplyDeleteNothing
  \/ ApplyPutKvRev
  \/ ApplyDeleteKvRev
  \/ ApplyCompact
  \/ ApplyCompactNothing
  \/ ApplyRevoke

Next == Request \/ Apply

Spec == Init /\ [][Next]_vars

\* The apply thread is a dedicated loop that takes the next committed
\* command whenever there is one: weak fairness of its steps.
LiveSpec == Spec /\ WF_vars(Apply)


-----------------------------------------------------------------------------
(* Properties                                                              *)

TypeOK ==
  /\ DOMAIN kvIndexMap \subseteq Keys
  /\ \A k \in DOMAIN kvIndexMap : kvIndexMap[k] \in KvIndex
  /\ DOMAIN kvRevMap \subseteq Rev
  /\ \A r \in DOMAIN kvRevMap : kvRevMap[r] \in KvRevRec
  /\ leaseMap \subseteq LeaseIds
  /\ leaseKeys \in [LeaseIds -> SUBSET Keys]
  /\ leaseId \in 0..MaxLease
  /\ revision \in 0..MaxRevision
  /\ log \in Seq(Op)
  /\ applying = NoApply \/ applying.rev \in Rev
  /\ \A w \in Watchers : watch[w].state \in {"idle", "waiting", "fired"}
  /\ lastEvent \in [Keys -> 0..MaxRevision]

\* Every revision a kv_index refers to, in generation order
IndexRevs(k) == FlattenSeq([i \in DOMAIN kvIndexMap[k].gens |-> kvIndexMap[k].gens[i].revs])

\* What a point KvRange of k returns
Visible(k) == KvRange(k, Point)

\* The revision the apply thread is between its two map writes of
InFlight == IF applying = NoApply THEN {} ELSE {applying.rev}

\* Spec invariant 1 (KvPutApply/KvDeleteApply, generations): within a
\* kv_index the revisions are strictly increasing across generations, every
\* generation but the latest ends with a delete, and no other revision is a
\* delete.  So two puts share a generation iff no delete came between them.
GenerationsFollowDeletes ==
  \A k \in DOMAIN kvIndexMap :
    LET gens == kvIndexMap[k].gens
        rs   == IndexRevs(k)
    IN /\ \A i \in 1..Len(rs) - 1 : RevLess(rs[i], rs[i + 1])
       /\ \A i \in DOMAIN gens : \A j \in DOMAIN gens[i].revs :
            LET r == gens[i].revs[j]
            IN r \in DOMAIN kvRevMap =>
                 (kvRevMap[r].deleted <=> (i < Len(gens) /\ j = Len(gens[i].revs)))

\* PutRawKvIndex/PutRawKvRev and KvCompactApply: every revision a kv_index
\* refers to (mod_revision and the generations' revisions) has its kv_rev,
\* except the one whose kv_rev write is in flight.  Compaction must erase a
\* kv_rev only together with its slot.
NoDanglingRevision ==
  \A k \in DOMAIN kvIndexMap :
    ({kvIndexMap[k].mod} \cup ToSet(IndexRevs(k))) \ InFlight \subseteq DOMAIN kvRevMap

\* KvPut/KvDeleteRange sub_revision++ and the revision epoch: the kv_rev the
\* apply thread is about to write is at a revision above every revision in
\* kv_rev_map_, so no write overwrites history.
InFlightRevisionIsNewest ==
  applying # NoApply => \A r \in DOMAIN kvRevMap : RevLess(r, applying.rev)

\* A delete of k is committed and not yet applied
DeleteQueued(k) == \E i \in DOMAIN log : log[i].type = "delete" /\ log[i].key = k

\* KvPut adds the key to its lease at request time, KvDeleteRange removes it
\* at request time, the put binds it at apply time: a live key bound to an
\* existing lease is registered with that lease (so the lease's expiry
\* deletes it) unless a delete of the key is already queued.
LeaseTracksBoundKeys ==
  \A k \in Keys : \A kv \in Visible(k) :
    (kv.lease \in leaseMap /\ ~DeleteQueued(k)) => k \in leaseKeys[kv.lease]

\* KvCompactApply keeps the latest revision of the latest generation: a
\* compaction step never changes what a read of any key returns.
CompactionPreservesReads ==
  [][ApplyCompact => \A k \in Keys : Visible(k)' = Visible(k)]_vars

\* TriggerOneWatch from KvPutApply/KvDeleteApply: a watch still waiting has
\* seen no event on its key at or after its start revision since it was
\* registered, i.e. no event it should have fired on was lost.
NoMissedWatchEvent ==
  \A w \in Watchers :
    watch[w].state = "waiting" =>
      \/ lastEvent[watch[w].key] = watch[w].reg
      \/ lastEvent[watch[w].key] < watch[w].start

\* Spec 4.E: the prev_kv a put or delete apply builds for its watch event is
\* populated only if the key had a value, and then is that value's Kv: its
\* key, value, create and mod revisions and lease, taken from the kv_index
\* before it was updated and from kv_rev_last.  (Its version is the one
\* after the update, line 589/737; the README records this.)
EventPrevIsPreviousKv ==
  [][applying = NoApply /\ applying' # NoApply =>
       LET k    == applying'.rec.key
           prev == applying'.prev
       IN IF Visible(k) = {} THEN prev = EmptyKv
          ELSE \E kv \in Visible(k) : [prev EXCEPT !.ver = kv.ver] = kv]_vars

\* The i-th command of the log is a delete of k that will find a kv_index:
\* k has one, or a put of k is ahead of it, and no compaction of k (the
\* only step that erases a kv_index) is ahead of it.  A delete that finds
\* none returns at lines 708-713 and, as spec 4.D says, emits no event.
DeleteWillApply(i, k) ==
  /\ \A j \in 1..i-1 : ~(log[j].type = "compact" /\ log[j].key = k)
  /\ \/ k \in DOMAIN kvIndexMap
     \/ \E j \in 1..i-1 : log[j].type = "put" /\ log[j].key = k

\* A command that will emit an event on w's key at or after w's start
\* revision is committed or half applied
EventPendingFor(w) ==
  LET k == watch[w].key
      s == watch[w].start
  IN \/ \E i \in DOMAIN log :
          /\ log[i].key = k /\ log[i].rev[1] >= s
          /\ \/ log[i].type = "put"
             \/ log[i].type = "delete" /\ DeleteWillApply(i, k)
     \/ applying # NoApply /\ applying.rec.key = k /\ applying.rev[1] >= s

\* OneTimeWatch with TriggerOneWatch in KvPutApply/KvDeleteApply: a waiting
\* watch whose key has a put, or a delete that will find its kv_index, at or
\* after its start revision in the pipeline eventually fires (or is
\* released by its client), wherever in the two-step apply it was
\* registered and whatever compactions are queued.  Puts carry no lease in
\* the run that checks it, so no put is rejected at apply.
WatchEventuallyFires ==
  \A w \in Watchers :
    (watch[w].state = "waiting" /\ EventPendingFor(w)) ~> watch[w].state # "waiting"

\* The store as the apply thread has decided it: a key whose put or delete
\* is between its two map writes already has the value being written.
AppliedView(k) ==
  IF applying # NoApply /\ applying.rec.key = k
  THEN IF applying.type = "put" THEN {RecToKv(applying.rec)} ELSE {}
  ELSE Visible(k)

Atomic == INSTANCE AtomicKv WITH store <- [k \in Keys |-> AppliedView(k)]

\* KvPutApply/KvDeleteApply/KvCompactApply implement AtomicKv: seen at the
\* point each apply decides its command, a put keeps the key's create
\* revision and increments its version or starts a lifetime at version 1,
\* a delete removes the key, a compaction and a rejected put change nothing.
AtomicKvRefined == Atomic!Spec

(* Statements the spec makes that the code does not keep                   *)

ReadView == INSTANCE AtomicKv WITH store <- [k \in Keys |-> Visible(k)]

\* Spec 4.D "partial apply is impossible": what KvRange returns changes
\* only by whole commands.  KvPutApply writes kv_index_map_ before
\* kv_rev_map_, and KvRange skips a key whose kv_rev is missing.
ReadsAreAtomic == ReadView!Spec

\* Spec 4.B step 4 and the open question of spec 6: KvRange's caller
\* receives the number of keys in the whole range, independent of limit
\* (and of count_only); the code reports the size of the returned vector.
RangeTotalCountIsFull ==
  applying = NoApply =>
    \A key \in Keys, e \in RangeEnds, lim \in RangeLimits, co \in BOOLEAN :
      KvRangeLimited(key, e, lim, co).total =
        Cardinality({ k \in DOMAIN kvIndexMap :
                        InRange(k, key, e) /\ IsListed(kvIndexMap[k]) })

\* Spec 4.F: a CompactionTask run issues COMPACT commands over all known
\* keys, in groups of CompactBatch: every key of kv_index_map_ is compacted.
CompactionCoversAllKeys ==
  [][CompactionTask =>
       \A k \in DOMAIN kvIndexMap :
         \E i \in 1..Len(log') : log'[i].type = "compact" /\ log'[i].key = k]_vars

\* Spec 4.D step 4: with ignore_value a put reuses the previous value, and an
\* empty value is rejected otherwise: a live key never reads as empty.
LiveValueNonEmpty ==
  \A k \in Keys : \A kv \in Visible(k) : kv.value # NoValue

\* No command on k is queued or half applied
Settled(k) ==
  /\ \A i \in DOMAIN log : log[i].key # k
  /\ applying = NoApply \/ applying.rec.key # k

\* Spec 4.C: revoking a lease deletes only keys bound to it: a live key
\* registered with an existing lease, with no command on it in flight, is
\* bound to that lease.
LeaseKeysAreBound ==
  \A l \in leaseMap : \A k \in leaseKeys[l] :
    Settled(k) => \A kv \in Visible(k) : kv.lease = l

\* Spec invariant 2: every kv_rev in kv_rev_map_ is referenced by exactly one
\* revision slot of its key's kv_index generations.
EveryKvRevReferenced ==
  \A r \in DOMAIN kvRevMap :
    LET k == kvRevMap[r].key
    IN k \in DOMAIN kvIndexMap /\ r \in ToSet(IndexRevs(k))


-----------------------------------------------------------------------------
(* The revision encoding and the compaction of one kv_index               *)

\* Revision fields at the byte and sign boundaries TLC's integers reach
EncodingSamples == {0, 1, 95, 255, 256, 65535, 65536, 16777216, 2147483647}
SampleRevs == (EncodingSamples \X EncodingSamples) \cup Rev

RoundTripsOn(S) ==
  \A r \in S : Len(RevisionToString(r)) = 17 /\ StringToRevision(RevisionToString(r)) = r
\* Constant-level, so evaluated once: the boundary samples and the model
\* revisions whose kv_rev_map_ key decodes back
SamplesRoundTrip == RoundTripsOn(SampleRevs)
KvRevKeyDecodes ==
  { r : r \in { r \in Rev : StringToRevision(RevisionToString(r)) = r } }

\* RevisionToString/StringToRevision: every revision, at the byte
\* boundaries and every key of kv_rev_map_, is written as 17 bytes and
\* StringToRevision reads back the same (main, sub), so GetRawKvRev,
\* PutRawKvRev and DeleteRawKvRev address the kv_rev a revision names.
RevisionEncodingRoundTrip ==
  SamplesRoundTrip /\ DOMAIN kvRevMap \subseteq KvRevKeyDecodes

AllRevs(gens) == FlattenSeq([i \in DOMAIN gens |-> gens[i].revs])
\* Compaction revisions a KvCompact of this model can ask for
CompactAts == { <<m, 0>> : m \in 0..MaxRevision + 1 }

\* Spec 4.D COMPACT: the revisions >= at_revision, and the final revision
\* of the most recent generation, are retained.
SpecRetained(gens, at) ==
  { r \in ToSet(AllRevs(gens)) : r[1] >= at[1] }
  \cup (IF Last(gens).revs = <<>> THEN {} ELSE {Last(Last(gens).revs)})

\* KvCompactApply on every kv_index the store can hold and every compaction
\* revision: it retains exactly the revisions spec 4.D COMPACT retains, once
\* each; it erases the others from kv_rev_map_; it erases the kv_index when
\* nothing is retained; and a deleted key stays deleted (its tombstone
\* generation is kept).
CompactIndexMatchesSpec ==
  \A k \in DOMAIN kvIndexMap, at \in CompactAts :
    LET gens == kvIndexMap[k].gens
        res  == CompactIndex(gens, at)
        kept == ToSet(AllRevs(res.gens))
    IN gens # <<>> =>
         /\ kept = SpecRetained(gens, at)
         /\ Len(AllRevs(res.gens)) = Cardinality(kept)
         /\ res.del = ToSet(AllRevs(gens)) \ kept
         /\ (res.gens = <<>>) = (kept = {})
         /\ res.gens # <<>> =>
              ((Last(res.gens).create = ZeroRev) = (Last(gens).create = ZeroRev))

\* Spec invariant 4 and 4.F: a second KvCompactApply at the same revision
\* changes neither the kv_index nor kv_rev_map_.
CompactIsIdempotent ==
  \A k \in DOMAIN kvIndexMap, at \in CompactAts :
    LET once == CompactIndex(kvIndexMap[k].gens, at)
    IN (kvIndexMap[k].gens # <<>> /\ once.gens # <<>>) =>
         CompactIndex(once.gens, at) = [gens |-> once.gens, del |-> {}]
=============================================================================
