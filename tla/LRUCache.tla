------------------------------- MODULE LRUCache -------------------------------
(***************************************************************************)
(* The memory cache (internal/cache/lru.go): a list of entries in order of *)
(* use, the newest first, and the number of bytes in it. The map of the    *)
(* code is an index of the list, and its mutex makes every operation one   *)
(* step.                                                                   *)
(***************************************************************************)
EXTENDS SequencesExt, Integers

CONSTANTS CacheKeys, Data, MaxBytes  \* see BoundedMap

ASSUME DataAssumption == \A d \in Data : d.size \in Nat
ASSUME MaxBytesAssumption == MaxBytes \in Int

VARIABLES
  order,    \* the entries, most recently used first
  curBytes, \* the size of all of them
  recency,  \* history: all keys ever put or found, most recent first
  newest    \* history: newest[k] is what was last given to Set under k

lruVars == <<order, curBytes, recency, newest>>

Entry == [key : CacheKeys, data : Data]
Nothing == [size |-> -1]  \* never set

Cached == {order[i].key : i \in DOMAIN order}

\* Sums(ns)[i] is the sum of the first i numbers of ns.
Sums(ns) == LET sum[i \in 0 .. Len(ns)] == IF i = 0 THEN 0 ELSE sum[i - 1] + ns[i]
            IN  sum
Sizes(es) == [i \in DOMAIN es |-> es[i].data.size]
Total(es) == Sums(Sizes(es))[Len(es)]

\* A key is at one index of the list, or at none.
Where(k) == {i \in DOMAIN order : order[i].key = k}
At(k) == CHOOSE i \in Where(k) : TRUE
DropAny(s, is) == IF is = {} THEN s ELSE RemoveAt(s, CHOOSE i \in is : TRUE)
Without(k) == DropAny(order, Where(k))

Used(k) == recency' = <<k>> \o DropAny(recency, {i \in DOMAIN recency : recency[i] = k})

LRUInit ==
  /\ order = <<>> /\ curBytes = 0 /\ recency = <<>>
  /\ newest = [k \in CacheKeys |-> Nothing]

\* Mutant of Evict: the loop ends one entry too late.
EvictOneMore(es, bytes) ==
  LET left(n) == bytes - Total(es) + Sums(Sizes(es))[n]
      fits == {n \in 0 .. Len(es) : left(n) <= MaxBytes}
      n == IF fits = {} THEN 0 ELSE Max(fits)
  IN  IF n < Len(es) /\ n > 1 THEN <<SubSeq(es, 1, n - 1), left(n - 1)>>
      ELSE <<SubSeq(es, 1, n), left(n)>>

\* evict: entries leave from the back until the rest fits, or none is left.
Evict(es, bytes) ==
  LET left(n) == bytes - Total(es) + Sums(Sizes(es))[n]
      fits == {n \in 0 .. Len(es) : left(n) <= MaxBytes}
      n == IF fits = {} THEN 0 ELSE Max(fits)
  IN  <<SubSeq(es, 1, n), left(n)>>

\* Mutant of Get: a hit does not promote the entry.
GetUnmoved(k) ==
  /\ k \in Cached /\ Used(k)
  /\ UNCHANGED <<order, curBytes, newest>>

\* Get: a hit moves the entry to the front, a miss changes nothing.
Get(k) ==
  /\ k \in Cached
  /\ order' = <<order[At(k)]>> \o Without(k)
  /\ Used(k)
  /\ UNCHANGED <<curBytes, newest>>

\* Mutant of Set: an update forgets the size of the old data.
SetAdds(k, d) ==
  /\ newest' = [newest EXCEPT ![k] = d]
  /\ MaxBytes > 0 /\ d.size <= MaxBytes
  /\ LET es == <<[key |-> k, data |-> d]>> \o Without(k)
         kept == Evict(es, curBytes + d.size)
     IN  order' = kept[1] /\ curBytes' = kept[2]
  /\ Used(k)

\* Mutant of Set: an update moves the entry and keeps its old data.
SetKeeps(k, d) ==
  /\ newest' = [newest EXCEPT ![k] = d]
  /\ MaxBytes > 0 /\ d.size <= MaxBytes
  /\ LET e == IF k \in Cached THEN order[At(k)] ELSE [key |-> k, data |-> d]
         es == <<e>> \o Without(k)
         kept == Evict(es, Total(es))
     IN  order' = kept[1] /\ curBytes' = kept[2]
  /\ Used(k)

\* What the data of k take up.
Share(k) == IF k \in Cached THEN order[At(k)].data.size ELSE 0

\* Set: what is larger than the whole cache is ignored, anything else goes to
\* the front, in place of the data the key had, and older entries make room.
Set(k, d) ==
  /\ newest' = [newest EXCEPT ![k] = d]
  /\ IF MaxBytes <= 0 \/ d.size > MaxBytes
       THEN UNCHANGED <<order, curBytes, recency>>
       ELSE LET es == <<[key |-> k, data |-> d]>> \o Without(k)
                kept == Evict(es, curBytes + d.size - Share(k))
            IN  order' = kept[1] /\ curBytes' = kept[2] /\ Used(k)

\* Delete.
Delete(k) ==
  /\ k \in Cached
  /\ order' = Without(k)
  /\ curBytes' = curBytes - Share(k)
  /\ UNCHANGED <<recency, newest>>

LRUNext == \E k \in CacheKeys : Get(k) \/ Delete(k) \/ \E d \in Data : Set(k, d)

LRUSpec == LRUInit /\ [][LRUNext]_lruVars
-----------------------------------------------------------------------------

\* Every variable keeps its type; a key is cached once, and the count of bytes
\* is the size of what is cached, whatever was replaced, evicted and deleted.
LRUTypeOK ==
  /\ order \in Seq(Entry) /\ IsInjective([i \in DOMAIN order |-> order[i].key])
  /\ curBytes = Total(order)
  /\ recency \in Seq(CacheKeys) /\ IsInjective(recency)
  /\ newest \in [CacheKeys -> Data \cup {Nothing}]

\* What is cached is what was last set, unless that was too large: then the
\* older data stay, and are served.
NewestOrRefused ==
  \A i \in DOMAIN order :
    LET last == newest[order[i].key]
    IN  order[i].data = last \/ last.size > MaxBytes

\* Position of k among the keys by last use.
Age(r, k) == CHOOSE i \in DOMAIN r : r[i] = k

\* An entry that has to make room for another one was used less recently than
\* every entry that stays.
OldestGoFirst ==
  [][\/ UNCHANGED <<recency, newest>>  \* Delete
     \/ \A k \in Cached \ Cached', x \in Cached' : Age(recency', x) < Age(recency', k)]_lruVars

\* The cache is a bounded map.
Map == INSTANCE BoundedMap WITH
         map <- [k \in Cached |-> (CHOOSE e \in {order[i] : i \in DOMAIN order} : e.key = k).data]
IsBoundedMap == Map!BMSpec
=============================================================================
