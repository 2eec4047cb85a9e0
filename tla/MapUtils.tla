------------------------------ MODULE MapUtils ------------------------------
(***************************************************************************)
(* The functions of map_utils.hpp, which hash_map and linked_hash_map      *)
(* share.  A table is a sequence of chains of entries; bucket 0 of the     *)
(* code is its first element.                                              *)
(***************************************************************************)
EXTENDS Integers, SequencesExt, FiniteSetsExt

CONSTANTS
  Keys,
  Hash,         \* THASHER: key -> number
  MinCapacity   \* the length of a first table, 16 in the code

HashAssumption == Hash \in [Keys -> Nat] /\ MinCapacity \in Nat \ {0}

Buckets(n)   == [b \in 1 .. n |-> << >>]
Bucket(t, h) == (h % Len(t)) + 1
Entries(t)   == FlattenSeq(t)

append_entry(t, b, e) == [t EXCEPT ![b] = << e >> \o @]

\* The entry with an equal key in the bucket of k, as a set.
find_entry(t, k) ==
  IF t = << >> THEN {} ELSE {e \in ToSet(t[Bucket(t, Hash[k])]) : e.key = k}

\* Every entry, in the order of the old table, is put in front of its new
\* bucket.
rehash(t, newcap) ==
  [b \in 1 .. newcap |-> Reverse(SelectSeq(Entries(t), LAMBDA e : (e.hash % newcap) + 1 = b))]

SetValue(t, k, v) ==
  [t EXCEPT ![Bucket(t, Hash[k])] =
     [p \in DOMAIN @ |-> IF @[p].key = k THEN [key |-> k, val |-> v, hash |-> @[p].hash] ELSE @[p]]]

NewCapacity(n) == Max({MinCapacity, n + n \div 2})
=============================================================================
