------------------------------ MODULE BoundedMap ------------------------------
(***************************************************************************)
(* What a user of the memory cache may rely on: a map that holds at most   *)
(* MaxBytes bytes, forgets an entry only to make room or when told to, and *)
(* never answers with anything but what was put there.                     *)
(***************************************************************************)
EXTENDS FiniteSetsExt, Integers

CONSTANTS
  CacheKeys,
  Data,      \* what is cached: records with a size and a body
  MaxBytes   \* the bound; the cache is disabled if it is not positive

VARIABLE map  \* map[k]: the data of k, for the keys that are present

Weight(m) == MapThenSumSet(LAMBDA k : m[k].size, DOMAIN m)

BMInit == map = [k \in {} |-> {}]

\* k is put; victims make room for it, and none of them without need.
Put(k, d) ==
  /\ d.size <= MaxBytes
  /\ \E victims \in SUBSET (DOMAIN map \ {k}) :
       /\ map' = [x \in (DOMAIN map \cup {k}) \ victims |-> IF x = k THEN d ELSE map[x]]
       /\ Weight(map') <= MaxBytes
       /\ victims # {} => \E v \in victims : Weight(map') + map[v].size > MaxBytes

Remove(k) == map' = [x \in DOMAIN map \ {k} |-> map[x]]

BMNext == \E k \in CacheKeys : Remove(k) \/ \E d \in Data : Put(k, d)

BMSpec == BMInit /\ [][BMNext]_map
=============================================================================
