# TLA+ models of the coordinator's versioned key-value store and the store engine

These modules model two parts of dingo-store, and TLC checks them.
- `KvControl`'s meta key-value store in `src/src/coordinator/kv_control_kv.cc`: the coordinator's MVCC store with leases and one-shot watches, described in `spec.md`.
- The writer of the mono store engine in `src/src/engine/mono_store_engine.cc`: puts, deletes, put-if-absent and compare-and-set over a region's MVCC versions.

## The system and its parts

| Part | Source | Role |
|---|---|---|
| Request path | `KvRange`, `KvPut`, `KvDeleteRange` (lines 201-533) | Validates a client request against the leader's in-memory maps. Builds a `MetaIncrement` of sub-commands tagged with a reserved `(main, sub)` revision. `KvPut` also registers the key with its lease. `KvDeleteRange` unregisters the deleted keys. |
| Apply path | `KvPutApply`, `KvDeleteApply`, `KvCompactApply` (535-1027) | Runs on the single apply thread, one committed sub-command at a time. Rewrites the key's `kv_index` (a list of generations; a generation ends with a delete) and writes a `kv_rev` record at the command's revision. Two separate map updates do this: `PutRawKvIndex`, then `PutRawKvRev`. Then it triggers the watches. |
| Compaction task | `CompactionTask`, `KvCompact` (819-912) | A periodic task that compacts every key at `now_revision - retention`, in batches of 50 keys. |
| Revision encoding | `RevisionToString`, `StringToRevision` (46-71) | Encodes a revision as a 17-byte key of `kv_rev_map_`. |
| Lease registry, watch bus, id epoch, apply dispatcher | outside `src/` | Modelled from `spec.md` 4.C and 4.E. Grant, revoke/expiry, key registration, one-shot watches. |
| Store engine writer | `MonoStoreEngine::Writer` (347-588), `Write`, `DispatchEvent` (102-154) | Each call takes a timestamp from the TSO, reads the keys it needs one at a time, then writes one batch of versions at that timestamp. |
| Txn helper, pretty printer, service access, SDK supervisor | `src/src/engine/txn_engine_helper.h`, `client_v2`, `common`, `sdk` | Not modelled (see below). |

The two parts do not call each other, so no module composes them. In `KvControl` the hard part is that requests and applies interleave. A request validates against state that earlier committed commands have not yet changed. A read or request can also run between an apply's two map writes.

## Modules

| Module | Role |
|---|---|
| `KvControl.tla` | The whole meta store: requests, applies, compaction, leases and watches. |
| `MCKvControl.tla` | Instantiates `KvControl` with two ordered keys. |
| `AtomicKv.tla` | The abstract store `KvControl` is shown to implement (see Refinement). |
| `MonoStoreEngine.tla` | The store engine's writer. |
| `MCMonoStoreEngine.tla` | Instantiates `MonoStoreEngine` with two keys, two clients and a symmetry set. |

### KvControl

**State.** Each variable corresponds to a piece of the code's state:

| Variable | Code |
|---|---|
| `kvIndexMap` | `kv_index_map_` |
| `kvRevMap` | `kv_rev_map_`, keyed by `(main, sub)` pairs (`PutRawKvRev`, `DeleteRawKvRev`; see Revision encoding) |
| `leaseMap`, `leaseKeys` | `kv_lease_map_`: the existing leases and each lease's key set |
| `leaseId` | the lease id epoch |
| `revision` | `ID_NEXT_REVISION` |
| `log` | committed sub-commands not yet applied |
| `applying` | an apply between its `PutRawKvIndex` and its `PutRawKvRev` |
| `watch` | `one_time_watch_map_`, one slot per watcher |
| `lastEvent` | history variable for the watch property |

**Request actions.**

| Action | Models |
|---|---|
| `KvPut` | `KvPut`; `LeaseAddKeys` happens even when the submit then fails |
| `KvDeleteRange` | `KvDeleteRange` with `need_lease_remove_keys`; the lease removal happens even when the submit then fails |
| `CompactionTask` | `CompactionTask` with `KvCompact`; the batching loop is `CompactBatches` |
| `CompactionTaskSkip` | the task's early returns |
| `LeaseGrant`, `LeaseRevoke` | spec-modelled; a revoke or expiry deletes the lease's keys and then removes the lease, in one increment |
| `OneTimeWatch`, `WatchRelease` | spec-modelled |

Each request reserves a main revision (`Reserve`, the id epoch). It then appends its sub-commands to the log (`SubmitIf`). With `SubmitMayFail` the caller's submit may fail, and the increment is then dropped. A request's guards are the code's early returns, in the code's order. Each request is one atomic step: the caller's reserve, then `KvPut` or `KvDeleteRange`, then the submit. The caller is outside `src/`. So the model does not interleave another request between `KvDeleteRange`'s `KvRange` (line 480) and its lease removal (line 516), or between a reserve and the submit that follows it. The spec has requests on parallel threads, so this is an assumption of the model. It is listed as an uncovered hazard.

**Apply actions.**

| Action | Models |
|---|---|
| `ApplyPutIndex` | the lease check and the index write of `KvPutApply` |
| `ApplyPutLeaseMissing` | `KvPutApply`'s early return when the lease is gone |
| `ApplyDeleteIndex` | the index write of `KvDeleteApply` |
| `ApplyDeleteNothing` | `KvDeleteApply`'s early return for a key with no kv_index (lines 708-713) |
| `ApplyPutKvRev`, `ApplyDeleteKvRev` | the second half of `KvPutApply` (lines 657-684) and of `KvDeleteApply` (lines 783-817): `PutRawKvRev` and `TriggerOneWatch`, one body `ApplyKvRev(type)` |
| `ApplyCompact` | `KvCompactApply` (`CompactIndex` = history loop + latest generation) |
| `ApplyCompactNothing` | `KvCompactApply`'s early returns |
| `ApplyRevoke` | the lease removal |

`PROJECT.json` "map" gives the source lines of every definition.

**Abstractions.**
- Keys are naturals, so ranges are ordered. Values are model values plus `NoValue`, the empty string.
- `Point` and `All` stand for `range_end` `""` and `"\0"`.
- Only main revisions appear in the `Kv` a read returns, as in the code.
- Reads are `KvRange` (the set of kvs) and `KvRangeLimited`. `KvRangeLimited` is the loop with `limit` and `count_only`, and computes `total_count_in_range`.
- `keys_only` and the request's `prev_kv` output are not modelled; they change no state.
- The replication log never loses or reorders a committed command. Raft guarantees this below this code.
- A submit either appends the whole increment or nothing.

**Revision encoding.** `RevisionToString` is a byte sequence: `WriteLong(main, 8)`, the separator `'_'` (95), then `WriteLong(sub, 8)`. `StringToRevision` returns the default revision `(0, 0)` for any key that is not 17 bytes long. Otherwise it reads both longs back. `Buf` is outside `src/`, so its byte order (most significant byte first, spec.md section 3) is spec-modelled in `WriteLong` and `ReadLong`. `RevisionEncodingRoundTrip` in the core run shows that the encoding is one-to-one, so `kv_rev_map_` can be modelled as keyed by the revision itself. Its byte order is not checked: nothing under `src/` reads `kv_rev_map_` in key order, only point `Get`, `Put` and `Erase` (lines 153, 163, 182). The round trip is checked over every model revision and over fields at the byte boundaries TLC's integers reach (0, 1, 95, 255, 256, 65535, 65536, 2^24, 2^31-1).

**Compaction against the spec.** `CompactIndex` translates `KvCompactApply`'s two loops. `SpecRetained` states spec 4.D COMPACT directly: the revisions at or above the compaction revision, plus the final revision of the most recent generation. In every reachable state, `CompactIndexMatchesSpec` checks each key's kv_index against this reference for every compaction revision the model can issue. A repeated compaction is checked by `CompactIsIdempotent` (spec invariant 4).

The spec's wording would drop a tombstone generation, which has no revisions. The code keeps it when an earlier generation is kept, so the key stays deleted. The reference therefore compares the retained and purged revision sets, and checks that a deleted key stays deleted.

**Refinement.** `AtomicKv.tla` is what a reader of the store is promised (spec 4.D and the round trip of spec 5). Each key has at most one current `Kv`. A put of an absent key starts a lifetime with `create = mod` and version 1. A put of a present key keeps `create` and increments the version. A delete removes the key. The mapping `AppliedView` gives each key its visible `Kv`. While an apply is between its two map writes, the key instead maps to the `Kv` that apply is writing. Under this mapping every step of `KvControl` is an `AtomicKv` step or a stutter (`AtomicKvRefined`). A mapping that uses only what a reader sees (`ReadView`) fails; this is the torn_read finding.

### MonoStoreEngine

**State.**

| Variable | Code |
|---|---|
| `data` | the raw engine's MVCC versions of each key: `key@ts` with a `kPut` or `kDelete` flag |
| `tso` | the last timestamp `ts_provider_` handed out |
| `pc`, `call` | each client's call: its inputs, `ts`, loop index, `put_kvs`, `key_states` and status |

**Actions.**

| Action | Models |
|---|---|
| `KvPut`, `KvDelete`, `KvPutIfAbsent`, `KvCompareAndSet` | a request entering the Writer method |
| `GetTs` | `ts_provider_->GetTs()` and the `ts == 0` early return |
| `ReadKey` | one iteration of the read loop. It reads at ts 0 (the newest version), then records, skips or returns early as the method does. After the last key an empty `put_kvs` returns OK. |
| `Write` | `MonoStoreEngine::Write` with `DispatchEvent`: one write batch, or a failure with nothing written |

**Abstractions.**
- The MVCC read at ts 0 (`Latest`, `Found`, `OldValue`) is modelled as "the newest version, found unless it is a delete". The reader is outside `src/`.
- `KvDelete` reads at `ctx->Ts()`; the model takes 0.
- TTL is 0.
- Each client makes one call, so there is no bound on timestamps beyond the number of clients.
- The reader's internal error (`EINTERNAL`) and empty keys are not modelled. Their code is outside `src/`, or they are input errors.

## Runs

| Run | cfg | Expect | Checks |
|---|---|---|---|
| core | `MCKvControl.cfg` | pass | `TypeOK`, `GenerationsFollowDeletes`, `NoDanglingRevision`, `InFlightRevisionIsNewest`, `RevisionEncodingRoundTrip`, `CompactIndexMatchesSpec`, `CompactIsIdempotent`, `CompactionPreservesReads`, `EventPrevIsPreviousKv` |
| watch | `MCKvWatch.cfg` | pass | `NoMissedWatchEvent`, `WatchEventuallyFires` |
| live | `MCKvLive.cfg` | pass | `AtomicKvRefined` |
| engine | `MCEngine.cfg` | pass | `TypeOK`, `AtomicAllOrNothing`, `KeyStatesMatchWrites` |
| ignore_value | `MCKvIgnoreValue.cfg` | violation | `LiveValueNonEmpty` |
| lease_keys | `MCKvLeaseKeys.cfg` | violation | `LeaseKeysAreBound` |
| orphan_rev | `MCKvOrphanRev.cfg` | violation | `EveryKvRevReferenced` |
| compact_batch | `MCKvCompactBatch.cfg` | violation | `CompactionCoversAllKeys` |
| range_count | `MCKvRangeCount.cfg` | violation | `RangeTotalCountIsFull` |
| submit_fail | `MCKvSubmitFail.cfg` | violation | `LeaseTracksBoundKeys` |
| torn_read | `MCKvTornRead.cfg` | violation | `ReadsAreAtomic` |
| engine_cas | `MCEngineCas.cfg` | violation | `WriteSeesPredecessor` |

**What the passing runs show.**
- In any interleaving of puts, range deletes, lease grants and revokes, auto-compaction and the two-step applies, the following hold:
  - Generation boundaries are exactly the deletes, and revisions increase.
  - Every revision an index names has its `kv_rev`, except the one being written.
  - The `kv_rev` being written is newer than every stored one.
  - A compaction step never changes what a read returns.
  - On every reachable kv_index, compaction retains exactly what spec 4.D COMPACT retains, and a second compaction at the same revision changes nothing.
  - The `prev_kv` of every put or delete event is the Kv the key had before the apply: key, value, create and mod revisions, and lease.
- The 17-byte revision key decodes back to its revision.
- A one-shot watch never misses an event at or after its start revision, even when it is registered between the two halves of an apply (watch).
- A waiting watch eventually fires if its key has a pending put at or after its start revision. The same holds for a pending delete that will find the key's kv_index (watch, under weak fairness of the apply thread).
  - A delete can find no kv_index. It is validated against a live key, but a compaction committed between two deletes of the key erases the whole index once the first delete applied. The second delete then takes `KvDeleteApply`'s early return (lines 708-713). Like spec 4.D DELETE step 1, it writes nothing and fires no watch.
  - The same delete, applied before the compaction, finds the tombstone and fires a DELETE event. So whether a watcher sees that redundant delete depends on when compaction ran.
  - With a premise that counts every queued delete, the property fails on exactly this trace. The premise therefore counts a delete only when no compaction of its key is ahead of it in the log.
- The apply path implements `AtomicKv` (live), including the delete that finds no kv_index.
- Two clients run store-engine writer calls in any interleaving of their steps, with TSO and write failures (engine). An atomic put-if-absent or compare-and-set writes all of its batch or none. A finished conditional call's `key_states` are exactly the keys it wrote.

**What the violation runs show.** Each one is a finding in `PROJECT.json`.
1. **ignore_value.** `KvPut` drops `ignore_value` from the increment, so the put stores an empty value. It also accepts `ignore_value` on an absent key. (line 447)
2. **lease_keys.** Two puts of one key with different leases both pass the request-time lease check. The key ends up unbound but still in the old lease's key set, so that lease's expiry would delete it. (lines 396-411)
3. **orphan_rev.** Two deletes of a key that both validate before either applies make the second one write a `kv_rev` that no generation refers to. Compaction never removes it. (lines 738-784)
4. **compact_batch.** The batching loop drops the key that finds the batch full, so every 51st key is never compacted. (lines 852-863)
5. **range_count.** `total_count_in_range` is the number of returned kvs. With `count_only` it is always 0, and with a limit it is capped at the limit. (lines 248-250 and 277)
6. **submit_fail.** `KvDeleteRange` removes the keys from their leases before the caller submits the increment. When the submit fails, a live key bound to the lease is no longer registered with it, so the lease's expiry does not delete it. `KvPut`'s `LeaseAddKeys` (line 411) has the same order. (line 516)
7. **torn_read.** An apply writes `kv_index_map_` and then `kv_rev_map_`. A read between the two skips the key, because its `kv_rev` is missing. A key that exists before and after a put reads as absent. (lines 651-657 and 253-257)
8. **engine_cas.** `KvPutIfAbsent` and `KvCompareAndSet` read and then write with no lock. They also take their timestamp before reading. In the trace, a `KvPut` of k1 (ts 1) and a `KvPutIfAbsent` of k1 (ts 2) run concurrently. The put-if-absent reads k1 as absent, then the put lands, then the put-if-absent writes over it. Both report success. `KvDelete` has the same shape: it takes its timestamp (line 381) before it reads (line 391). A put with a newer timestamp, written in between, is read as present. The delete is then written below the put, and the call reports the key deleted while reads still return the put. The engine_cas run includes deletes, but TLC reports the put-if-absent trace above. With `RequestOps` set to puts and deletes only, the same property fails on the delete trace, which uses two clients. (lines 379-399, 415-467 and 500-568 of `mono_store_engine.cc`)

**Observation.** A PUT (and DELETE) event's `prev_kv.version` is built after the generation was updated, so it is the post-event version (lines 583-589 and 737). Spec 4.E describes prev_kv only as the previous value, so `EventPrevIsPreviousKv` compares every other field and leaves the version out. The model records the event's `prev` as the code builds it.

**Mutants.** Every property of the passing runs is broken by a mutant, a plausible bug in the code it covers:

| Mutant | Bug | Breaks |
|---|---|---|
| `DeleteGenerationsNoTombstone` | no tombstone generation | `GenerationsFollowDeletes` |
| `CompactLatestErasesLast` | erases the kept revision | `NoDanglingRevision` |
| `CompactLatestNoKeepLast` | drops the keep-last rule | `CompactionPreservesReads` |
| `DeleteOpsSameSub` | no `sub_revision++` | `InFlightRevisionIsNewest` |
| `ApplyKvRevPutWatchOnly` | no delete trigger | `NoMissedWatchEvent` |
| `ReserveUnbounded` | no epoch bound | `TypeOK` |
| `PutGenerationsNoVersionBump` | a put does not increment the version | `AtomicKvRefined` |
| `GetTsDropsTs` | the timestamp is not kept for the write | `TypeOK` (engine) |
| `ReadKeyAtomicSkips` | the atomic branch skips instead of returning | `AtomicAllOrNothing` |
| `WriteStatesBeforeStatus` | `key_states` is set before the write status is checked | `KeyStatesMatchWrites` |
| `RevisionToStringNoSep` | the separator is not written | `RevisionEncodingRoundTrip` |
| `CompactHistoryStepStrict` | a history revision equal to the compaction revision is dropped | `CompactIndexMatchesSpec` |
| `CompactLatestErasesLast` | erases the kept revision | `CompactIsIdempotent` |
| `ApplyKvRevPutWatchOnly` | no delete trigger | `WatchEventuallyFires` |
| `PutEffectPrevModIsNew` | prev_kv's mod revision is read after line 605 set it to the op revision | `EventPrevIsPreviousKv` |

## Bounds

| Constant | Value | Why it is enough |
|---|---|---|
| `Keys` | `{1, 2}` (`{1}` in watch) | A range can span two keys; a compaction covers two keys. A watch follows one key, and the watch run has compaction and a three-command log, which with two keys takes more than 15 minutes. |
| `MaxRevision` | 4 | Four requests: enough for put–put–delete–delete, or put–delete–put with a compaction. |
| `MaxLog` | 2 (3 for compact_batch, live and watch) | Two committed unapplied commands: the least for every request/apply race above. Live and watch need three for delete, compaction, delete. |
| `MaxLease` | 1 in core, 0 in watch and live | Keeps the watch and live runs within minutes. |
| `Values` | `{v1}` | The properties only compare values with the empty value. |
| Watchers | none in core, one in watch | Keeps the watch run within minutes. |
| `RetentionRevCount` | 1 (0 in live and watch) | Compaction fires with a compact revision that some history is below. With 0 in live and watch, a compaction right after a failed submit covers a delete that is still queued. |

`SubmitMayFail` is TRUE in live, watch and submit_fail, and FALSE elsewhere. `AutoCompaction` is TRUE in all `KvControl` runs.

In the engine runs:
- `Keys` is two keys, enough for a two-key batch whose second key is written while the first is read.
- `Clients` is two clients with one call each. Two concurrent calls are the least for every race above, and give two timestamps.
- `Values` is one value plus the empty value, which the conditional writes tell apart. `MaxBatch` is 2 in engine and 1 in engine_cas.
- `RequestOps` has all four calls in engine. In engine_cas it has all four calls with one-key batches.
- Keys and clients are symmetric model values; the symmetry is used only in safety runs.

`CompactBatch` is the literal 50 of `CompactionTask`. It is 50 in the passing runs, where it never fills. It is 1 in compact_batch, which maps 1 and 2 keys onto the code's 50 and 51.

## Fairness

`LiveSpec` (the watch run) assumes weak fairness of `Apply` only. The apply thread is a dedicated loop that takes each committed command as soon as it is in the log, so it cannot be starved while commands wait. Nothing is assumed of requests, lease expiry or the compaction timer: they are "any moment". `WatchEventuallyFires` says that a watch waiting on a key with a pending event-emitting command fires. Nothing forces a client to release a watch. That every committed command is eventually applied is not stated as a property. Every apply action removes the head of the log or finishes the half-applied command, and each code path runs straight through, so such a property would only restate the fairness assumption.

Deadlock is checked in the `KvControl` runs: `CompactionTaskSkip` is the task's idle tick, so a state where every revision is spent is not a deadlock. The engine runs say `CHECK_DEADLOCK FALSE`. The engine takes no step of its own, so once both calls have returned it really is idle.

## Not modelled

- **Store engine, the rest of the file:**
  - `Writer::KvDeleteRange` computes `encode_range` but writes the raw range. Whether the raw range covers the encoded keys depends on `mvcc::Codec`, which is outside `src/`.
  - `AsyncWrite` is used by no writer call.
  - `Recover` only launches index loads.
  - The Reader, VectorReader, DocumentReader, TxnReader and TxnWriter methods only delegate to helpers outside this file.
- **`txn_engine_helper.h`, `service_access.h`, `supervisor.h`:** class declarations with no bodies. The behaviour is in files outside `src/`.
- **`pretty.cc`:** the CLI's table printing of responses. It has no state and no control a property could tell apart.
- **`KvRangeRawKeys` (lines 292-321):** nothing in `src/` calls it. Its point form returns a key whenever a kv_index exists, even a deleted one. Its range form filters through `RangeRawKvIndex`.
- **`GetRawKvIndex` (lines 73-80):** a map lookup, folded into the guards of the apply actions.
- **Lease TTL time and renew:** an expiry is modelled as a revoke at any moment.
- **Which keys an expiry deletes:** the lease code is outside `src/`. The model's revoke deletes the keys registered with the lease that a point `KvRange` finds live. A put of such a key that is committed but not yet applied is not live, so the revoke does not delete it. If that put is committed before the revoke, it applies while the lease still exists and leaves a live key bound to a removed lease. `LeaseTracksBoundKeys` (checked in submit_fail) therefore speaks only of existing leases. Whether the real expiry path has this window depends on code this model cannot read.
- **Crash and restart:** the maps are rebuilt from the meta store written through `meta_writer_`, outside `src/`.

## Plan for further work

- Add a run that reaches the `insert_or_assign` path (line 511) on its own.
- Add a three-client engine run. With two-key batches and all four calls, the three-client state space did not finish within 10 minutes; it needs a smaller set of calls.
