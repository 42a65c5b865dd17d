------------------------------- MODULE AtomicKv -------------------------------
(***************************************************************************)
(* What the coordinator's versioned key-value store promises a reader      *)
(* (spec.md 4.D and the round-trip requirement of spec.md 5): every key    *)
(* maps to at most one current Kv, and each applied command changes it     *)
(* atomically.  A put of a key that has no current Kv starts a new         *)
(* lifetime (create = mod = its revision, version 1); a put of a key that  *)
(* has one keeps its create revision and increments its version; a delete *)
(* removes it.  Revisions of successive changes to a key increase.         *)
(***************************************************************************)
EXTENDS Naturals

CONSTANTS Keys, Values, NoValue, MaxLease, MaxRevision

VARIABLE store     \* key -> {} or {the key's current Kv}

Leases == 0..MaxLease

Current(k) == CHOOSE x \in store[k] : TRUE

Init == store = [k \in Keys |-> {}]

Put(k, v, l, r) ==
  /\ store[k] = {} \/ Current(k).mod < r
  /\ store' = [store EXCEPT ![k] =
                 IF @ = {}
                 THEN {[key |-> k, value |-> v, create |-> r, mod |-> r, ver |-> 1, lease |-> l]}
                 ELSE {[Current(k) EXCEPT !.value = v, !.mod = r, !.ver = @ + 1, !.lease = l]}]

Delete(k) ==
  /\ store[k] # {}
  /\ store' = [store EXCEPT ![k] = {}]

Next ==
  \E k \in Keys :
    \/ \E v \in Values \cup {NoValue}, l \in Leases, r \in 1..MaxRevision : Put(k, v, l, r)
    \/ Delete(k)

Spec == Init /\ [][Next]_store

=============================================================================
