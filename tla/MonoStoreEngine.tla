--------------------------- MODULE MonoStoreEngine ---------------------------
(***************************************************************************)
(* The Writer of the mono store engine (src/src/engine/mono_store_engine.cc)*)
(* over one region's MVCC column family.  Every write is a batch of         *)
(* versions at one timestamp taken from the TSO; a read at ts 0 returns the *)
(* key's newest version.  KvPut, KvDelete, KvPutIfAbsent and               *)
(* KvCompareAndSet each run on the RPC thread of the request as three kinds *)
(* of step, in the code's order: GetTs, the read loop (one MVCC read per    *)
(* key of the batch, no snapshot), and Write.  Calls of different clients  *)
(* interleave between these steps; nothing in the engine orders them.       *)
(***************************************************************************)
EXTENDS Naturals, Sequences, FiniteSets

CONSTANTS
  Keys,          \* keys of the region
  Values,        \* non-empty values
  NoValue,       \* the empty string: an absent value, and "delete" in a CAS
  Clients,       \* concurrent requests, one Writer call each
  TsoMayFail,    \* GetTs may return 0 (TSO not available)
  WriteMayFail,  \* Write may fail: region or metrics gone, apply event failed
  RequestOps,    \* the Writer calls the requests of a run make
  MaxBatch       \* longest batch of a request

ASSUME TsoMayFail \in BOOLEAN /\ WriteMayFail \in BOOLEAN /\ MaxBatch \in {1, 2}

VARIABLES
  data,   \* key -> set of MVCC versions [ts, flag, value] in the raw engine
  tso,    \* last timestamp the TSO handed out
  pc,     \* client -> step of its current call
  call    \* client -> the call's inputs and locals

vars == <<data, tso, pc, call>>

\* One call per client: the TSO hands out at most this many timestamps.
MaxTs == Cardinality(Clients)

AnyValue == Values \cup {NoValue}

\* A stored MVCC version: mvcc::Codec's key@ts with a kPut or kDelete flag.
Version == [ts : 1..MaxTs, flag : {"put", "delete"}, value : AnyValue]

Ops == {"put", "delete", "putIfAbsent", "cas"}

ASSUME RequestOps \subseteq Ops

\* butil::Status of a finished call: OK, ETSO_NOT_AVAILABLE, the error of
\* Write, EKEY_NOT_FOUND.
Statuses == {"none", "ok", "tso", "failed", "notFound"}

\* The kvs (or keys) argument: a batch of distinct keys, in request order.
Batches == {<<k>> : k \in Keys} \cup
           IF MaxBatch = 1 THEN {} ELSE {ab \in Keys \X Keys : ab[1] # ab[2]}

Call == [op : Ops, keys : Seq(Keys), vals : Seq(AnyValue), expect : Seq(AnyValue),
         atomic : BOOLEAN, ts : 0..MaxTs, i : Nat, put : SUBSET Nat,
         states : SUBSET Nat, status : Statuses]

\* MVCC read at ts 0 (Reader::KvGet): the newest version, found unless it
\* is a delete.
Latest(k) == CHOOSE x \in data[k] : \A y \in data[k] : y.ts <= x.ts
Found(k) == data[k] # {} /\ Latest(k).flag = "put"
OldValue(k) == IF Found(k) THEN Latest(k).value ELSE NoValue

\* The version the call's Write stores for the i-th key of its batch.
VersionOf(c, i) ==
  [ts |-> call[c].ts,
   flag |-> IF call[c].op = "delete" \/ (call[c].op = "cas" /\ call[c].vals[i] = NoValue)
            THEN "delete" ELSE "put",
   value |-> IF call[c].op = "delete" THEN NoValue ELSE call[c].vals[i]]

\* Indexes of the batch the Write covers: all of it for KvPut and KvDelete,
\* put_kvs for the conditional calls.
WriteSet(c) == IF call[c].op \in {"put", "delete"} THEN DOMAIN call[c].keys ELSE call[c].put

\* The condition of the read loop: a KvPutIfAbsent key must be absent, a
\* KvCompareAndSet key must hold its expected value (absent when empty).
Wanted(cl, k) == IF cl.op = "putIfAbsent" THEN ~Found(k) ELSE OldValue(k) = cl.expect[cl.i]

Init ==
  /\ data = [k \in Keys |-> {}]
  /\ tso = 0
  /\ pc = [c \in Clients |-> "idle"]
  /\ call = [c \in Clients |-> [op |-> "put", keys |-> <<>>, vals |-> <<>>, expect |-> <<>>,
                                atomic |-> FALSE, ts |-> 0, i |-> 1, put |-> {},
                                states |-> {}, status |-> "none"]]

Finish(c, status) ==
  /\ pc' = [pc EXCEPT ![c] = "done"]
  /\ call' = [call EXCEPT ![c].status = status]

\* A request enters one of the Writer calls with a non-empty batch.
Start(c, op, ks, vs, ex, atomic) ==
  /\ pc[c] = "idle"
  /\ pc' = [pc EXCEPT ![c] = "ts"]
  /\ call' = [call EXCEPT ![c] = [op |-> op, keys |-> ks, vals |-> vs, expect |-> ex,
                                  atomic |-> atomic, ts |-> 0, i |-> 1, put |-> {},
                                  states |-> {}, status |-> "none"]]
  /\ UNCHANGED <<data, tso>>

\* Mutant of GetTs: the timestamp is taken but not kept for the write.
GetTsDropsTs(c) ==
  /\ pc[c] = "ts"
  /\ \/ /\ tso' = tso + 1
        /\ pc' = [pc EXCEPT ![c] = IF call[c].op = "put" THEN "write" ELSE "read"]
        /\ UNCHANGED call
     \/ /\ TsoMayFail
        /\ Finish(c, "tso")
        /\ UNCHANGED tso
  /\ UNCHANGED data

\* ts_provider_->GetTs(), and the ts == 0 early return.
GetTs(c) ==
  /\ pc[c] = "ts"
  /\ \/ /\ tso' = tso + 1
        /\ pc' = [pc EXCEPT ![c] = IF call[c].op = "put" THEN "write" ELSE "read"]
        /\ call' = [call EXCEPT ![c].ts = tso + 1]
     \/ /\ TsoMayFail
        /\ Finish(c, "tso")
        /\ UNCHANGED tso
  /\ UNCHANGED data

\* Mutant of ReadKey: the atomic branch skips a key that fails its
\* condition instead of returning.
ReadKeyAtomicSkips(c) ==
  LET cl == call[c]
      k == cl.keys[cl.i]
      wanted == Wanted(cl, k)
      put == IF cl.op # "delete" /\ wanted THEN cl.put \cup {cl.i} ELSE cl.put
  IN /\ pc[c] = "read"
     /\ call' = [call EXCEPT ![c].i = @ + 1, ![c].put = put,
                   ![c].states = IF cl.op = "delete" /\ Found(k) THEN @ \cup {cl.i} ELSE @,
                   ![c].status = IF cl.i = Len(cl.keys) /\ cl.op # "delete" /\ put = {}
                                 THEN "ok" ELSE @]
     /\ pc' = [pc EXCEPT ![c] =
                 IF cl.i < Len(cl.keys) THEN "read"
                 ELSE IF cl.op = "delete" \/ put # {} THEN "write" ELSE "done"]
     /\ UNCHANGED <<data, tso>>

\* One iteration of the read loop of KvDelete, KvPutIfAbsent or
\* KvCompareAndSet: read the i-th key, then record it, skip it, or return
\* early.  After the last key, an empty put_kvs returns OK without a Write
\* (lines 460-462 and 561-563).
ReadKey(c) ==
  LET cl == call[c]
      k == cl.keys[cl.i]
      wanted == Wanted(cl, k)
      last == cl.i = Len(cl.keys)
      put == IF cl.op # "delete" /\ wanted THEN cl.put \cup {cl.i} ELSE cl.put
  IN /\ pc[c] = "read"
     /\ IF cl.op # "delete" /\ cl.atomic /\ ~wanted
        THEN Finish(c, IF cl.op = "cas" /\ ~Found(k) THEN "notFound" ELSE "ok")
        ELSE /\ call' = [call EXCEPT ![c].i = @ + 1, ![c].put = put,
                           ![c].states = IF cl.op = "delete" /\ Found(k) THEN @ \cup {cl.i} ELSE @,
                   ![c].status = IF cl.i = Len(cl.keys) /\ cl.op # "delete" /\ put = {}
                                 THEN "ok" ELSE @]
             /\ pc' = [pc EXCEPT ![c] =
                         IF ~last THEN "read"
                         ELSE IF cl.op = "delete" \/ put # {} THEN "write" ELSE "done"]
     /\ UNCHANGED <<data, tso>>

\* Mutant of Write: key_states is taken from temp_key_states before the
\* status of the Write is checked.
WriteStatesBeforeStatus(c) ==
  /\ pc[c] = "write"
  /\ call' = [call EXCEPT ![c].states = IF call[c].op = "delete" THEN @ ELSE call[c].put,
                ![c].status = "ok"]
  /\ \/ /\ data' = [k \in Keys |-> data[k] \cup
                      {VersionOf(c, i) : i \in {j \in WriteSet(c) : call[c].keys[j] = k}}]
     \/ /\ WriteMayFail
        /\ UNCHANGED data
  /\ pc' = [pc EXCEPT ![c] = "done"]
  /\ UNCHANGED tso

\* MonoStoreEngine::Write with DispatchEvent of the kSmApply event: the
\* batch is applied as one write batch, or the call fails with nothing
\* written.  The conditional calls set key_states only after a good Write.
Write(c) ==
  /\ pc[c] = "write"
  /\ \/ /\ data' = [k \in Keys |-> data[k] \cup
                      {VersionOf(c, i) : i \in {j \in WriteSet(c) : call[c].keys[j] = k}}]
        /\ pc' = [pc EXCEPT ![c] = "done"]
        /\ call' = [call EXCEPT ![c].status = "ok",
                      ![c].states = IF call[c].op = "delete" THEN @ ELSE call[c].put]
     \/ /\ WriteMayFail
        /\ Finish(c, "failed")
        /\ UNCHANGED data
  /\ UNCHANGED tso

\* The Writer's entry points; each runs as GetTs, ReadKey and Write steps.
KvPut(c, ks, vs) == Start(c, "put", ks, vs, <<>>, FALSE)

KvDelete(c, ks) == Start(c, "delete", ks, <<>>, <<>>, FALSE)

KvPutIfAbsent(c, ks, vs, atomic) == Start(c, "putIfAbsent", ks, vs, <<>>, atomic)

KvCompareAndSet(c, ks, vs, ex, atomic) == Start(c, "cas", ks, vs, ex, atomic)

\* The request inputs: a batch, its values, for a CAS the expected values.
Request(c) ==
  \E ks \in Batches :
    LET Vals == [DOMAIN ks -> AnyValue] IN
    \/ "put" \in RequestOps /\ \E vs \in Vals : KvPut(c, ks, vs)
    \/ "delete" \in RequestOps /\ KvDelete(c, ks)
    \/ "putIfAbsent" \in RequestOps /\ \E vs \in Vals, atomic \in BOOLEAN : KvPutIfAbsent(c, ks, vs, atomic)
    \/ "cas" \in RequestOps /\ \E vs, ex \in Vals, atomic \in BOOLEAN : KvCompareAndSet(c, ks, vs, ex, atomic)

Step(c) == GetTs(c) \/ ReadKey(c) \/ Write(c)

Next == \E c \in Clients : Request(c) \/ Step(c)

Spec == Init /\ [][Next]_vars

-----------------------------------------------------------------------------
(* Properties.                                                              *)

TypeOK ==
  /\ data \in [Keys -> SUBSET Version]
  /\ tso \in 0..MaxTs
  /\ pc \in [Clients -> {"idle", "ts", "read", "write", "done"}]
  /\ call \in [Clients -> Call]

\* Keys of c's batch that have a version at c's timestamp.
WrittenAt(c) == {i \in DOMAIN call[c].keys : \E x \in data[call[c].keys[i]] : x.ts = call[c].ts}

\* An atomic KvPutIfAbsent or KvCompareAndSet writes every key of its batch
\* or none, whatever the other clients write between its reads: the early
\* returns of the atomic branch of the read loop, and the single write batch.
AtomicAllOrNothing ==
  \A c \in Clients :
    pc[c] = "done" /\ call[c].atomic /\ call[c].ts # 0 =>
      WrittenAt(c) \in {{}, DOMAIN call[c].keys}

\* The key_states a finished KvPutIfAbsent or KvCompareAndSet returns are
\* exactly the keys it wrote: set from temp_key_states only after Write
\* succeeded, and all false on every early return.
KeyStatesMatchWrites ==
  \A c \in Clients :
    pc[c] = "done" /\ call[c].op \in {"putIfAbsent", "cas"} /\ call[c].ts # 0 =>
      call[c].states = WrittenAt(c)

-----------------------------------------------------------------------------
(* What a caller of the read-then-write calls is promised and the engine   *)
(* does not keep.                                                          *)

\* The newest version of k older than t, as a read at t - 1 returns it.
ValueBefore(k, t) ==
  LET older == {x \in data[k] : x.ts < t}
      newest == CHOOSE x \in older : \A y \in older : y.ts <= x.ts
  IN IF older = {} \/ newest.flag = "delete" THEN NoValue ELSE newest.value

\* A key a successful KvDelete reports deleted held a value just before its
\* delete, a key a successful KvPutIfAbsent reports written was absent just
\* before its write, and a key a successful KvCompareAndSet reports written
\* held the expected value just before it: in the order of timestamps, no
\* other write comes between the read that set key_states and the write.
WriteSeesPredecessor ==
  \A c \in Clients :
    pc[c] = "done" /\ call[c].status = "ok" =>
      \A i \in call[c].states :
        LET before == ValueBefore(call[c].keys[i], call[c].ts)
        IN CASE call[c].op = "delete"      -> before # NoValue
             [] call[c].op = "putIfAbsent" -> before = NoValue
             [] OTHER                      -> before = call[c].expect[i]

=============================================================================
