--------------------------- MODULE LRUCacheProofs ---------------------------
(***************************************************************************)
(* What holds of LRUCache for any number of keys and any sizes: a hit is   *)
(* the newest bytes, the oldest entries go first, and the cache is a       *)
(* bounded map.                                                            *)
(***************************************************************************)
EXTENDS LRUCache, DataProofs

-----------------------------------------------------------------------------

(* Sums. *)

\* The recursion of Sums has a solution.
LEMMA SumsDef ==
  ASSUME NEW ns \in Seq(Nat)
  PROVE  /\ Sums(ns) \in [0 .. Len(ns) -> Nat]
         /\ Sums(ns)[0] = 0
         /\ \A i \in 1 .. Len(ns) : Sums(ns)[i] = Sums(ns)[i - 1] + ns[i]
<1> DEFINE Sol(f, n) == f[0] = 0 /\ \A i \in 1 .. n : f[i] = f[i - 1] + ns[i]
           Has(n) == \E f \in [0 .. n -> Nat] : Sol(f, n)
           S == {n \in Nat : n <= Len(ns) => Has(n)}
<1>1. 0 \in S
  <2>1. [i \in 0 .. 0 |-> 0] \in [0 .. 0 -> Nat] /\ Sol([i \in 0 .. 0 |-> 0], 0)
    OBVIOUS
  <2> QED BY <2>1
<1>2. ASSUME NEW n \in Nat, n \in S PROVE n + 1 \in S
  <2> SUFFICES ASSUME n + 1 <= Len(ns) PROVE Has(n + 1)
    <3> HIDE DEF Has
    <3> QED OBVIOUS
  <2>0. Has(n)
    <3> HIDE DEF Has
    <3> QED BY <1>2
  <2>1. PICK f \in [0 .. n -> Nat] : Sol(f, n)
    BY <2>0
  <2> DEFINE g == [i \in 0 .. n + 1 |-> IF i = n + 1 THEN f[n] + ns[i] ELSE f[i]]
  <2>2. ns[n + 1] \in Nat
    OBVIOUS
  <2>3. g \in [0 .. n + 1 -> Nat]
    BY <2>2
  <2>4. ASSUME NEW i \in 1 .. n + 1 PROVE g[i] = g[i - 1] + ns[i]
    <3>1. i - 1 \in 0 .. n /\ g[i - 1] = f[i - 1]
      OBVIOUS
    <3>2. CASE i = n + 1
      BY <3>1, <3>2
    <3>3. CASE i # n + 1
      <4>1. i \in 1 .. n /\ g[i] = f[i]
        BY <3>3
      <4> QED BY <2>1, <3>1, <4>1
    <3> QED BY <3>2, <3>3
  <2>5. g[0] = 0
    BY <2>1
  <2> QED BY <2>3, <2>4, <2>5
<1>3. Nat \subseteq S
  <2> HIDE DEF S
  <2> QED BY <1>1, <1>2, Induction
<1>4. Len(ns) \in Nat
  OBVIOUS
<1>5. PICK f \in [0 .. Len(ns) -> Nat] : Sol(f, Len(ns))
  <2>1. Has(Len(ns))
    <3> HIDE DEF Has
    <3> QED BY <1>3, <1>4
  <2> QED BY <2>1
<1>6. f = [i \in 0 .. Len(ns) |-> IF i = 0 THEN 0 ELSE f[i - 1] + ns[i]]
  BY <1>5
<1>7. Sums(ns) = [i \in 0 .. Len(ns) |-> IF i = 0 THEN 0 ELSE Sums(ns)[i - 1] + ns[i]]
  BY <1>6, Zenon DEF Sums
<1> DEFINE sum == Sums(ns)
<1> HIDE DEF sum
<1>0. sum = [i \in 0 .. Len(ns) |-> IF i = 0 THEN 0 ELSE sum[i - 1] + ns[i]]
  BY <1>7 DEF sum
<1>8. sum[0] = 0
  BY <1>0, <1>4
<1>9. ASSUME NEW i \in 1 .. Len(ns) PROVE sum[i] = sum[i - 1] + ns[i]
  <2>1. i \in 0 .. Len(ns) /\ i # 0
    BY <1>4
  <2>2. sum[i] = IF i = 0 THEN 0 ELSE sum[i - 1] + ns[i]
    BY <1>0, <2>1, Zenon
  <2> QED BY <2>1, <2>2
<1> DEFINE T == {n \in Nat : n <= Len(ns) => sum[n] \in Nat}
<1>10. 0 \in T
  BY <1>8
<1>11. ASSUME NEW n \in Nat, n \in T PROVE n + 1 \in T
  BY <1>9, <1>11
<1>12. Nat \subseteq T
  <2> HIDE DEF T
  <2> QED BY <1>10, <1>11, Induction
<1>13. \A i \in 0 .. Len(ns) : sum[i] \in Nat
  BY <1>12
<1>14. sum \in [0 .. Len(ns) -> Nat]
  <2>1. DOMAIN sum = 0 .. Len(ns) /\ sum = [i \in DOMAIN sum |-> sum[i]]
    BY <1>0
  <2> QED BY <1>13, <2>1
<1> QED BY <1>8, <1>9, <1>14 DEF sum

\* And no other one.
LEMMA SumsUnique ==
  ASSUME NEW ns \in Seq(Nat), NEW g, g[0] = 0,
         \A i \in 1 .. Len(ns) : g[i] = g[i - 1] + ns[i]
  PROVE  \A i \in 0 .. Len(ns) : Sums(ns)[i] = g[i]
<1> DEFINE sum == Sums(ns)
           S == {n \in Nat : n <= Len(ns) => sum[n] = g[n]}
<1>1. sum[0] = 0 /\ \A i \in 1 .. Len(ns) : sum[i] = sum[i - 1] + ns[i]
  BY SumsDef
<1> HIDE DEF sum
<1>2. 0 \in S
  BY <1>1
<1>3. ASSUME NEW n \in Nat, n \in S PROVE n + 1 \in S
  BY <1>1, <1>3
<1>4. Nat \subseteq S
  <2> HIDE DEF S
  <2> QED BY <1>2, <1>3, Induction
<1> QED BY <1>4 DEF sum

LEMMA SizesType ==
  ASSUME NEW es \in Seq(Entry)
  PROVE  /\ Sizes(es) \in Seq(Nat) /\ Len(Sizes(es)) = Len(es)
         /\ \A i \in 1 .. Len(es) : Sizes(es)[i] = es[i].data.size /\ es[i].data.size \in Nat
<1>1. \A i \in 1 .. Len(es) : es[i] \in Entry
  OBVIOUS
<1>2. \A i \in 1 .. Len(es) : es[i].data.size \in Nat
  BY <1>1, DataAssumption DEF Entry
<1>3. DOMAIN es = 1 .. Len(es) /\ Len(es) \in Nat
  OBVIOUS
<1>4. Sizes(es) = [i \in 1 .. Len(es) |-> es[i].data.size]
  BY <1>3 DEF Sizes
<1>5. Sizes(es) \in [1 .. Len(es) -> Nat]
  BY <1>2, <1>4
<1> QED BY <1>2, <1>3, <1>4, <1>5, IsASeq, LenProperties

\* What is left of a sequence of which the i-th element is taken out.
LEMMA Removed ==
  ASSUME NEW S, NEW s \in Seq(S), NEW i \in 1 .. Len(s)
  PROVE  /\ RemoveAt(s, i) \in Seq(S)
         /\ Len(RemoveAt(s, i)) = Len(s) - 1
         /\ \A j \in 1 .. Len(s) - 1 : RemoveAt(s, i)[j] = s[IF j < i THEN j ELSE j + 1]
<1>0. Len(s) \in Nat /\ i \in Int
  BY LenProperties
<1> DEFINE front == SubSeq(s, 1, i - 1)
           back == SubSeq(s, i + 1, Len(s))
<1>1. /\ front \in Seq(S) /\ Len(front) = i - 1
      /\ \A j \in 1 .. i - 1 : front[j] = s[j]
  BY <1>0, SubSeqProperties, ElementOfSeq
<1>2. /\ back \in Seq(S) /\ Len(back) = Len(s) - i
      /\ \A j \in 1 .. Len(s) - i : back[j] = s[i + j]
  BY <1>0, SubSeqProperties, ElementOfSeq
<1>3. RemoveAt(s, i) = front \o back
  BY DEF RemoveAt
<1> HIDE DEF front, back
<1>4. /\ front \o back \in Seq(S)
      /\ Len(front \o back) = Len(front) + Len(back)
      /\ \A j \in 1 .. Len(front) + Len(back) : (front \o back)[j] =
             IF j <= Len(front) THEN front[j] ELSE back[j - Len(front)]
  BY <1>1, <1>2, ConcatProperties
<1>5. ASSUME NEW j \in 1 .. Len(s) - 1
      PROVE  (front \o back)[j] = s[IF j < i THEN j ELSE j + 1]
  <2>1. CASE j < i
    BY <1>0, <1>1, <1>2, <1>4, <2>1
  <2>2. CASE ~(j < i)
    <3>1. (front \o back)[j] = back[j - (i - 1)]
      <4>1. j \in 1 .. Len(front) + Len(back) /\ ~ (j <= Len(front)) /\ Len(front) = i - 1
        BY <1>0, <1>1, <1>2, <2>2
      <4>2. (front \o back)[j] = back[j - Len(front)]
        BY <1>4, <4>1
      <4> QED BY <4>1, <4>2
    <3>2. j - (i - 1) \in 1 .. Len(s) - i /\ i + (j - (i - 1)) = j + 1
      BY <1>0, <2>2
    <3> QED BY <1>2, <2>2, <3>1, <3>2
  <2> QED BY <2>1, <2>2
<1> QED BY <1>0, <1>1, <1>2, <1>3, <1>4, <1>5

\* An element in front of the others.
LEMMA Pushed ==
  ASSUME NEW S, NEW e \in S, NEW s \in Seq(S), NEW w, w = <<e>> \o s
  PROVE  w \in Seq(S) /\ Len(w) = Len(s) + 1 /\ w[1] = e /\ \A j \in 1 .. Len(s) : w[j + 1] = s[j]
<1>1. <<e>> \in Seq(S) /\ Len(<<e>>) = 1 /\ <<e>>[1] = e /\ Len(s) \in Nat
  OBVIOUS
<1>2. /\ <<e>> \o s \in Seq(S)
      /\ Len(<<e>> \o s) = Len(<<e>>) + Len(s)
      /\ \A j \in 1 .. Len(<<e>>) + Len(s) : (<<e>> \o s)[j] =
             IF j <= Len(<<e>>) THEN <<e>>[j] ELSE s[j - Len(<<e>>)]
  BY <1>1, ConcatProperties
<1> QED BY <1>1, <1>2

LEMMA TotalType ==
  ASSUME NEW es \in Seq(Entry)
  PROVE  Total(es) \in Nat
<1> QED BY SizesType, SumsDef DEF Total

\* The sum of the sizes, of a list to which an entry is added or from which one
\* is taken, and of the first entries of a list.
LEMMA TotalPushed ==
  ASSUME NEW es \in Seq(Entry), NEW e \in Entry
  PROVE  Total(<<e>> \o es) = Total(es) + e.data.size
<1> DEFINE all == <<e>> \o es
           ns == Sizes(es)
           ms == Sizes(all)
           g == [i \in 0 .. Len(all) |-> IF i = 0 THEN 0 ELSE Sums(ns)[i - 1] + e.data.size]
<1>0. Len(es) \in Nat /\ e.data.size \in Nat
  BY DataAssumption DEF Entry
<1>1. /\ all \in Seq(Entry) /\ Len(all) = Len(es) + 1 /\ all[1] = e
      /\ \A j \in 1 .. Len(es) : all[j + 1] = es[j]
  BY Pushed
<1> HIDE DEF all
<1>2. /\ ns \in Seq(Nat) /\ Len(ns) = Len(es)
      /\ \A i \in 1 .. Len(es) : ns[i] = es[i].data.size
  BY SizesType
<1>3. /\ ms \in Seq(Nat) /\ Len(ms) = Len(all)
      /\ \A i \in 1 .. Len(all) : ms[i] = all[i].data.size
  BY <1>1, SizesType
<1>4. Total(es) = Sums(ns)[Len(es)] /\ Total(all) = Sums(ms)[Len(all)]
  BY DEF Total
<1> HIDE DEF ns, ms
<1>5. /\ Sums(ns) \in [0 .. Len(es) -> Nat] /\ Sums(ns)[0] = 0
      /\ \A i \in 1 .. Len(es) : Sums(ns)[i] = Sums(ns)[i - 1] + ns[i]
  BY <1>2, SumsDef
<1>6. ASSUME NEW i \in 1 .. Len(ms) PROVE g[i] = g[i - 1] + ms[i]
  <2>1. CASE i = 1
    <3>1. i - 1 = 0 /\ i - 1 \in 0 .. Len(all) /\ i \in 0 .. Len(all) /\ ms[1] = all[1].data.size
      BY <1>0, <1>1, <1>3, <2>1
    <3> QED BY <1>0, <1>1, <1>5, <2>1, <3>1
  <2>2. CASE i # 1
    <3>1. i - 1 \in 1 .. Len(es) /\ i - 1 \in 1 .. Len(all) /\ i \in 0 .. Len(all)
      BY <1>0, <1>1, <1>3, <2>2
    <3>2. ms[i] = ns[i - 1]
      <4>1. ms[i] = all[i].data.size
        BY <1>3
      <4>3. all[(i - 1) + 1] = es[i - 1]
        <5>1. PICK j \in 1 .. Len(es) : j = i - 1
          BY <3>1
        <5>2. all[j + 1] = es[j]
          BY <1>1
        <5> QED BY <5>1, <5>2
      <4>2. ns[i - 1] = es[i - 1].data.size
        <5>1. PICK j \in 1 .. Len(es) : j = i - 1
          BY <3>1
        <5>2. ns[j] = es[j].data.size
          BY <1>2
        <5> QED BY <5>1, <5>2
      <4>4. (i - 1) + 1 = i
        BY <3>1
      <4> QED BY <4>1, <4>2, <4>3, <4>4
    <3>3. Sums(ns)[i - 1] = Sums(ns)[(i - 1) - 1] + ns[i - 1]
      BY <1>5, <3>1
    <3>4. Sums(ns)[(i - 1) - 1] \in Nat /\ ns[i - 1] \in Nat
      <4>1. (i - 1) - 1 \in 0 .. Len(es)
        BY <1>0, <3>1
      <4>2. Sums(ns)[(i - 1) - 1] \in Nat
        BY <1>5, <4>1
      <4>3. ns[i - 1] \in Nat
        BY <1>2, <3>1
      <4> QED BY <4>2, <4>3
    <3>5. g[i] = Sums(ns)[i - 1] + e.data.size /\ g[i - 1] = Sums(ns)[(i - 1) - 1] + e.data.size
      BY <3>1
    <3> HIDE DEF g
    <3> QED BY <1>0, <3>2, <3>3, <3>4, <3>5
  <2> QED BY <2>1, <2>2
<1>7. g[0] = 0
  BY <1>0, <1>1
<1>8. g[Len(all)] = Sums(ns)[Len(es)] + e.data.size
  BY <1>0, <1>1
<1> HIDE DEF g
<1>9. Sums(ms)[Len(all)] = g[Len(all)]
  <2>1. \A i \in 0 .. Len(ms) : Sums(ms)[i] = g[i]
    BY <1>3, <1>6, <1>7, SumsUnique
  <2> QED BY <1>0, <1>1, <1>3, <2>1
<1> QED BY <1>4, <1>8, <1>9 DEF all

LEMMA TotalRemoved ==
  ASSUME NEW es \in Seq(Entry), NEW r \in 1 .. Len(es)
  PROVE  Total(RemoveAt(es, r)) = Total(es) - es[r].data.size
<1> DEFINE rest == RemoveAt(es, r)
           ns == Sizes(es)
           ms == Sizes(rest)
           g == [i \in 0 .. Len(rest) |-> IF i < r THEN Sums(ns)[i]
                                          ELSE Sums(ns)[i + 1] - es[r].data.size]
<1>0. Len(es) \in Nat /\ r \in Nat /\ r > 0
  OBVIOUS
<1>1. /\ rest \in Seq(Entry) /\ Len(rest) = Len(es) - 1
      /\ \A j \in 1 .. Len(es) - 1 : rest[j] = es[IF j < r THEN j ELSE j + 1]
  BY Removed
<1> HIDE DEF rest
<1>2. /\ ns \in Seq(Nat) /\ Len(ns) = Len(es)
      /\ \A i \in 1 .. Len(es) : ns[i] = es[i].data.size /\ es[i].data.size \in Nat
  BY SizesType
<1>3. /\ ms \in Seq(Nat) /\ Len(ms) = Len(rest)
      /\ \A i \in 1 .. Len(rest) : ms[i] = rest[i].data.size
  BY <1>1, SizesType
<1>4. Total(es) = Sums(ns)[Len(es)] /\ Total(rest) = Sums(ms)[Len(rest)]
  BY DEF Total
<1> HIDE DEF ns, ms
<1>5. /\ Sums(ns) \in [0 .. Len(es) -> Nat] /\ Sums(ns)[0] = 0
      /\ \A i \in 1 .. Len(es) : Sums(ns)[i] = Sums(ns)[i - 1] + ns[i]
  BY <1>2, SumsDef
<1>6. ASSUME NEW i \in 1 .. Len(ms) PROVE g[i] = g[i - 1] + ms[i]
  <2>0. i \in 0 .. Len(rest) /\ i - 1 \in 0 .. Len(rest) /\ i \in 1 .. Len(es)
        /\ i + 1 \in 1 .. Len(es) /\ i \in 1 .. Len(es) - 1
    BY <1>0, <1>1, <1>3
  <2>1. /\ Sums(ns)[i] = Sums(ns)[i - 1] + ns[i]
        /\ Sums(ns)[i + 1] = Sums(ns)[i] + ns[i + 1]
        /\ Sums(ns)[i] \in Nat /\ Sums(ns)[i - 1] \in Nat /\ Sums(ns)[i + 1] \in Nat
    <3>1. Sums(ns)[i + 1] = Sums(ns)[(i + 1) - 1] + ns[i + 1]
      BY <1>5, <2>0
    <3>2. (i + 1) - 1 = i /\ i \in 0 .. Len(es) /\ i - 1 \in 0 .. Len(es) /\ i + 1 \in 0 .. Len(es)
      BY <1>0, <2>0
    <3> QED BY <1>5, <2>0, <3>1, <3>2
  <2>2. ns[i] \in Nat /\ ns[i + 1] \in Nat /\ ns[r] \in Nat /\ ns[r] = es[r].data.size
    BY <1>0, <1>2, <2>0
  <2>3. ms[i] = ns[IF i < r THEN i ELSE i + 1]
    BY <1>1, <1>2, <1>3, <2>0
  <2>4. g[i] = IF i < r THEN Sums(ns)[i] ELSE Sums(ns)[i + 1] - es[r].data.size
    BY <2>0
  <2>5. g[i - 1] = IF i - 1 < r THEN Sums(ns)[i - 1] ELSE Sums(ns)[i] - es[r].data.size
    <3>1. g[i - 1] = IF i - 1 < r THEN Sums(ns)[i - 1] ELSE Sums(ns)[(i - 1) + 1] - es[r].data.size
      BY <2>0
    <3> QED BY <2>0, <3>1
  <2> HIDE DEF g
  <2>a. PICK x, y, z, size : /\ x = Sums(ns)[i - 1] /\ y = Sums(ns)[i] /\ z = Sums(ns)[i + 1]
                             /\ size = es[r].data.size
    OBVIOUS
  <2>b. PICK a, b : a = ns[i] /\ b = ns[i + 1]
    OBVIOUS
  <2>c. /\ x \in Nat /\ y \in Nat /\ z \in Nat /\ a \in Nat /\ b \in Nat /\ size \in Nat
        /\ y = x + a /\ z = y + b
    BY <2>a, <2>b, <2>1, <2>2
  <2>d. /\ ms[i] = IF i < r THEN a ELSE b
        /\ g[i] = IF i < r THEN y ELSE z - size
        /\ g[i - 1] = IF i - 1 < r THEN x ELSE y - size
    BY <2>a, <2>b, <2>3, <2>4, <2>5, Zenon
  <2>6. CASE i < r
    <3>1. i - 1 < r
      BY <1>0, <2>0, <2>6
    <3> QED BY <2>c, <2>d, <2>6, <3>1
  <2>7. CASE i = r
    <3>1. i - 1 < r /\ ~ (i < r) /\ a = size
      BY <1>0, <2>a, <2>b, <2>2, <2>7
    <3> QED BY <2>c, <2>d, <3>1
  <2>8. CASE i > r
    <3>1. ~ (i - 1 < r) /\ ~ (i < r)
      BY <1>0, <2>0, <2>8
    <3> QED BY <2>c, <2>d, <3>1
  <2> QED BY <1>0, <2>0, <2>6, <2>7, <2>8
<1>7. g[0] = 0
  BY <1>0, <1>1, <1>5
<1>8. g[Len(rest)] = Sums(ns)[Len(es)] - es[r].data.size
  <2>1. CASE r = Len(es)
    <3>1. g[Len(rest)] = Sums(ns)[Len(es) - 1]
      <4>1. Len(rest) \in 0 .. Len(rest) /\ Len(rest) < r /\ Len(rest) = Len(es) - 1
        BY <1>0, <1>1, <2>1
      <4> QED BY <4>1
    <3>2. Sums(ns)[Len(es)] = Sums(ns)[Len(es) - 1] + ns[Len(es)]
      BY <1>0, <1>5
    <3>3. Sums(ns)[Len(es) - 1] \in Nat /\ es[r].data.size \in Nat
      <4>1. Len(es) - 1 \in 0 .. Len(es)
        BY <1>0
      <4> QED BY <1>2, <1>5, <4>1
    <3> HIDE DEF g
    <3> QED BY <1>2, <2>1, <3>1, <3>2, <3>3
  <2>2. CASE r # Len(es)
    BY <1>0, <1>1, <2>2
  <2> QED BY <2>1, <2>2
<1> HIDE DEF g
<1>9. Sums(ms)[Len(rest)] = g[Len(rest)]
  <2>1. \A i \in 0 .. Len(ms) : Sums(ms)[i] = g[i]
    BY <1>3, <1>6, <1>7, SumsUnique
  <2> QED BY <1>0, <1>1, <1>3, <2>1
<1> QED BY <1>4, <1>8, <1>9 DEF rest

LEMMA TotalPrefix ==
  ASSUME NEW es \in Seq(Entry), NEW n \in 0 .. Len(es)
  PROVE  /\ SubSeq(es, 1, n) \in Seq(Entry) /\ Len(SubSeq(es, 1, n)) = n
         /\ \A i \in 1 .. n : SubSeq(es, 1, n)[i] = es[i]
         /\ Total(SubSeq(es, 1, n)) = Sums(Sizes(es))[n]
<1> DEFINE some == SubSeq(es, 1, n)
           ns == Sizes(es)
           ms == Sizes(some)
<1>0. Len(es) \in Nat /\ n \in Nat
  OBVIOUS
<1>1. some \in Seq(Entry) /\ Len(some) = n /\ \A i \in 1 .. n : some[i] = es[i]
  <2>1. \A i \in 1 .. n : es[i] \in Entry
    BY <1>0
  <2>2. /\ some \in Seq(Entry)
        /\ Len(some) = IF 1 <= n THEN n - 1 + 1 ELSE 0
        /\ \A i \in 1 .. n - 1 + 1 : some[i] = es[1 + i - 1]
    BY <1>0, <2>1, SubSeqProperties
  <2> HIDE DEF some
  <2> QED BY <1>0, <2>2
<1> HIDE DEF some
<1>2. /\ ns \in Seq(Nat) /\ Len(ns) = Len(es)
      /\ \A i \in 1 .. Len(es) : ns[i] = es[i].data.size
  BY SizesType
<1>3. /\ ms \in Seq(Nat) /\ Len(ms) = n
      /\ \A i \in 1 .. n : ms[i] = some[i].data.size
  BY <1>1, SizesType
<1>4. Total(some) = Sums(ms)[n]
  BY <1>1 DEF Total
<1> HIDE DEF ns, ms
<1>5. /\ Sums(ns)[0] = 0
      /\ \A i \in 1 .. Len(es) : Sums(ns)[i] = Sums(ns)[i - 1] + ns[i]
  BY <1>2, SumsDef
<1>6. ASSUME NEW i \in 1 .. Len(ms) PROVE Sums(ns)[i] = Sums(ns)[i - 1] + ms[i]
  <2>1. i \in 1 .. n /\ i \in 1 .. Len(es)
    BY <1>0, <1>3
  <2>2. ms[i] = ns[i]
    BY <1>1, <1>2, <1>3, <2>1
  <2> QED BY <1>5, <2>1, <2>2
<1>7. Sums(ms)[n] = Sums(ns)[n]
  <2> DEFINE g == Sums(ns)
  <2>1. g[0] = 0 /\ \A i \in 1 .. Len(ms) : g[i] = g[i - 1] + ms[i]
    BY <1>5, <1>6
  <2> HIDE DEF g
  <2>2. \A i \in 0 .. Len(ms) : Sums(ms)[i] = g[i]
    BY <1>3, <2>1, SumsUnique
  <2> QED BY <1>0, <1>3, <2>2 DEF g
<1> QED BY <1>1, <1>4, <1>7 DEF some, ns
-----------------------------------------------------------------------------

(* The memory cache: lists of entries. *)

Known(r) == {r[i] : i \in DOMAIN r}

\* The entries es are in the order in which their keys were used, r says when;
\* their keys differ, and their data are what nw says was last set, or that was
\* too large.
Proper(es, r, nw) ==
  /\ es \in Seq(Entry)
  /\ \A i, j \in 1 .. Len(es) : es[i].key = es[j].key => i = j
  /\ \A i \in 1 .. Len(es) :
       /\ es[i].key \in Known(r)
       /\ es[i].data = nw[es[i].key] \/ nw[es[i].key].size > MaxBytes
  /\ \A i, j \in 1 .. Len(es) : i < j => Age(r, es[i].key) < Age(r, es[j].key)

Distinct(r) == r \in Seq(CacheKeys) /\ IsInjective(r)

\* A cache that is disabled stays empty: what it is given can be as small as
\* what it had.
LRUInv ==
  /\ Proper(order, recency, newest) /\ Distinct(recency)
  /\ newest \in [CacheKeys -> Data \cup {Nothing}]
  /\ curBytes = Total(order)
  /\ MaxBytes <= 0 => order = <<>>

\* w is s without the elements at is, in the same order.
Spares(w, s, is) ==
  \E h \in [1 .. Len(w) -> (1 .. Len(s)) \ is] :
    /\ \A j \in 1 .. Len(w) : w[j] = s[h[j]]
    /\ \A j, l \in 1 .. Len(w) : j < l => h[j] < h[l]
    /\ \A i \in (1 .. Len(s)) \ is : \E j \in 1 .. Len(w) : h[j] = i

LEMMA Spared ==
  ASSUME NEW w, NEW s, NEW is, Spares(w, s, is)
  PROVE  \A j \in 1 .. Len(w) : \E i \in (1 .. Len(s)) \ is : w[j] = s[i]
<1>1. PICK h \in [1 .. Len(w) -> (1 .. Len(s)) \ is] : \A j \in 1 .. Len(w) : w[j] = s[h[j]]
  BY Zenon DEF Spares
<1>2. \A j \in 1 .. Len(w) : h[j] \in (1 .. Len(s)) \ is
  OBVIOUS
<1> QED BY <1>1, <1>2

\* At most one element is dropped, the others keep their order.
LEMMA Dropped ==
  ASSUME NEW S, NEW s \in Seq(S), NEW is \in SUBSET (1 .. Len(s)), \A i, j \in is : i = j,
         NEW w, w = DropAny(s, is)
  PROVE  w \in Seq(S) /\ Spares(w, s, is)
<1>0. Len(s) \in Nat
  OBVIOUS
<1>1. CASE is = {}
  <2>1. w = s
    BY <1>1 DEF DropAny
  <2> DEFINE h == [j \in 1 .. Len(s) |-> j]
  <2>2. /\ h \in [1 .. Len(s) -> (1 .. Len(s)) \ is]
        /\ \A j \in 1 .. Len(s) : s[j] = s[h[j]]
        /\ \A j, l \in 1 .. Len(s) : j < l => h[j] < h[l]
        /\ \A i \in (1 .. Len(s)) \ is : i \in 1 .. Len(s) /\ h[i] = i
    BY <1>1
  <2> HIDE DEF h
  <2> QED BY <2>1, <2>2 DEF Spares
<1>2. CASE is # {}
  <2>1. PICK i \in 1 .. Len(s) : is = {i} /\ i = CHOOSE x \in is : TRUE
    BY <1>2
  <2>2. w = RemoveAt(s, i)
    BY <1>2, <2>1 DEF DropAny
  <2>3. /\ w \in Seq(S) /\ Len(w) = Len(s) - 1
        /\ \A j \in 1 .. Len(s) - 1 : w[j] = s[IF j < i THEN j ELSE j + 1]
    BY <2>2, Removed
  <2> DEFINE h == [j \in 1 .. Len(w) |-> IF j < i THEN j ELSE j + 1]
  <2>4. h \in [1 .. Len(w) -> (1 .. Len(s)) \ is]
    <3>1. \A j \in 1 .. Len(w) : h[j] \in 1 .. Len(s) /\ h[j] # i
      BY <1>0, <2>1, <2>3
    <3>2. \A j \in 1 .. Len(w) : h[j] \in (1 .. Len(s)) \ is
      BY <2>1, <3>1
    <3> QED BY <3>2
  <2>5. \A j \in 1 .. Len(w) : w[j] = s[h[j]]
    BY <1>0, <2>3
  <2>6. \A j, l \in 1 .. Len(w) : j < l => h[j] < h[l]
    BY <1>0, <2>1, <2>3
  <2>7. ASSUME NEW m \in (1 .. Len(s)) \ is PROVE \E j \in 1 .. Len(w) : h[j] = m
    <3>1. CASE m < i
      <4>1. m \in 1 .. Len(w) /\ h[m] = m
        BY <1>0, <2>1, <2>3, <3>1
      <4> QED BY <4>1
    <3>2. CASE m > i
      <4>1. m - 1 \in 1 .. Len(w) /\ h[m - 1] = m
        BY <1>0, <2>1, <2>3, <3>2
      <4> QED BY <4>1
    <3>3. m < i \/ m > i
      <4>1. m # i /\ m \in Int /\ i \in Int
        BY <1>0, <2>1
      <4> QED BY <4>1
    <3> QED BY <3>1, <3>2, <3>3
  <2> HIDE DEF h
  <2> QED BY <2>3, <2>4, <2>5, <2>6, <2>7 DEF Spares
<1> QED BY <1>1, <1>2

LEMMA AgeIs ==
  ASSUME NEW r, Distinct(r), NEW a \in 1 .. Len(r)
  PROVE  Age(r, r[a]) = a /\ r[a] \in Known(r) /\ r[a] \in CacheKeys
<1>1. DOMAIN r = 1 .. Len(r) /\ r \in Seq(CacheKeys)
  BY DEF Distinct
<1>2. \A i \in DOMAIN r : r[i] = r[a] => i = a
  BY <1>1 DEF Distinct, IsInjective
<1>3. Age(r, r[a]) = a
  BY <1>1, <1>2 DEF Age
<1> QED BY <1>1, <1>3 DEF Known

LEMMA AgeOf ==
  ASSUME NEW r, Distinct(r), NEW k \in Known(r)
  PROVE  Age(r, k) \in 1 .. Len(r) /\ r[Age(r, k)] = k
<1>1. DOMAIN r = 1 .. Len(r)
  BY DEF Distinct
<1>2. PICK a \in 1 .. Len(r) : r[a] = k
  BY <1>1 DEF Known
<1> QED BY <1>2, AgeIs

\* q is r with k in front.
Promotes(q, r, k) ==
  /\ Distinct(q)
  /\ Known(r) \subseteq Known(q) /\ k \in Known(q) /\ Age(q, k) = 1
  /\ \A x \in Known(r) \ {k} : Age(q, x) > 1
  /\ \A x, y \in Known(r) \ {k} : Age(r, x) < Age(r, y) => Age(q, x) < Age(q, y)

\* A key that is used comes first, and the others keep their order.
LEMMA UsedKeys ==
  ASSUME NEW r, Distinct(r), NEW k \in CacheKeys,
         NEW w, w = DropAny(r, {i \in DOMAIN r : r[i] = k}),
         NEW q, q = <<k>> \o w
  PROVE  Promotes(q, r, k)
<1> DEFINE is == {i \in DOMAIN r : r[i] = k}
<1>0. w = DropAny(r, is)
  OBVIOUS
<1>1. r \in Seq(CacheKeys) /\ DOMAIN r = 1 .. Len(r) /\ Len(r) \in Nat
  BY DEF Distinct
<1>2. is \in SUBSET (1 .. Len(r)) /\ \A i, j \in is : i = j
  BY <1>1 DEF Distinct, IsInjective
<1>3. is = {i \in DOMAIN r : r[i] = k}
  OBVIOUS
<1> HIDE DEF is
<1>4. w \in Seq(CacheKeys) /\ Spares(w, r, is)
  BY <1>0, <1>1, <1>2, Dropped
<1>5. PICK h \in [1 .. Len(w) -> (1 .. Len(r)) \ is] :
        /\ \A j \in 1 .. Len(w) : w[j] = r[h[j]]
        /\ \A j, l \in 1 .. Len(w) : j < l => h[j] < h[l]
        /\ \A i \in (1 .. Len(r)) \ is : \E j \in 1 .. Len(w) : h[j] = i
  BY <1>4 DEF Spares
<1>6. \A j, l \in 1 .. Len(w) : j < l => h[j] < h[l]
  BY <1>5
<1>7. /\ q \in Seq(CacheKeys) /\ Len(q) = Len(w) + 1 /\ q[1] = k
      /\ \A j \in 1 .. Len(w) : q[j + 1] = w[j]
  BY <1>4, Pushed
<1>8. Len(w) \in Nat /\ DOMAIN q = 1 .. Len(q)
  BY <1>4, <1>7
<1>9. ASSUME NEW a \in 1 .. Len(q), a # 1
      PROVE  \E j \in 1 .. Len(w) : a = j + 1 /\ q[a] = r[h[j]] /\ h[j] \in (1 .. Len(r)) \ is
  <2>1. a - 1 \in 1 .. Len(w) /\ a = (a - 1) + 1
    <3>1. Len(q) = Len(w) + 1 /\ Len(w) \in Nat
      BY <1>7, <1>8
    <3> QED BY <1>9, <3>1
  <2>2. PICK j \in 1 .. Len(w) : a = j + 1
    BY <2>1
  <2>3. q[a] = r[h[j]]
    BY <1>5, <1>7, <2>2
  <2> QED BY <1>5, <2>2, <2>3
<1>10. \A i \in (1 .. Len(r)) \ is : r[i] # k
  BY <1>1, <1>3
<1>11. Distinct(q)
  <2>a. q \in Seq(CacheKeys) /\ DOMAIN q = 1 .. Len(q)
    BY <1>7, <1>8
  <2>b. SUFFICES IsInjective(q)
    BY <2>a, Zenon DEF Distinct
  <2>c. SUFFICES ASSUME NEW a \in DOMAIN q, NEW b \in DOMAIN q, q[a] = q[b] PROVE a = b
    BY Zenon DEF IsInjective
  <2>d. a \in 1 .. Len(q) /\ b \in 1 .. Len(q)
    BY <2>a, Zenon
  <2>0. \A c \in 1 .. Len(q) : c # 1 => q[c] # k
    <3> TAKE c \in 1 .. Len(q)
    <3> HAVE c # 1
    <3>1. PICK j \in 1 .. Len(w) : q[c] = r[h[j]] /\ h[j] \in (1 .. Len(r)) \ is
      BY <1>9
    <3> QED BY <1>10, <3>1
  <2>1. CASE a = 1 \/ b = 1
    <3>1. q[1] = k
      BY <1>7
    <3> QED BY <2>0, <2>1, <2>c, <2>d, <3>1, Zenon
  <2>2. CASE a # 1 /\ b # 1
    <3>1. PICK j \in 1 .. Len(w) : a = j + 1 /\ q[a] = r[h[j]] /\ h[j] \in 1 .. Len(r)
      BY <1>9, <2>2, <2>d
    <3>2. PICK l \in 1 .. Len(w) : b = l + 1 /\ q[b] = r[h[l]] /\ h[l] \in 1 .. Len(r)
      BY <1>9, <2>2, <2>d
    <3>3. h[j] = h[l]
      BY <1>1, <2>c, <3>1, <3>2 DEF Distinct, IsInjective
    <3>4. ~ (j < l) /\ ~ (l < j)
      <4>1. ~ (h[j] < h[l]) /\ ~ (h[l] < h[j])
        BY <1>1, <3>1, <3>3
      <4> QED BY <1>6, <4>1
    <3> QED BY <1>8, <3>1, <3>2, <3>4
  <2> QED BY <2>1, <2>2
<1>12. 1 \in 1 .. Len(q)
  BY <1>7, <1>8
<1>13. k \in Known(q) /\ Age(q, k) = 1
  <2>1. Age(q, q[1]) = 1 /\ q[1] \in Known(q)
    BY <1>11, <1>12, AgeIs
  <2> QED BY <1>7, <2>1
<1>14. ASSUME NEW x \in Known(r) \ {k}
       PROVE  \E j \in 1 .. Len(w) : /\ h[j] = Age(r, x) /\ q[j + 1] = x
                                     /\ j + 1 \in 1 .. Len(q) /\ Age(q, x) = j + 1 /\ x \in Known(q)
  <2>1. Age(r, x) \in 1 .. Len(r) /\ r[Age(r, x)] = x
    BY AgeOf
  <2>2. Age(r, x) \notin is
    BY <1>3, <2>1
  <2>3. PICK j \in 1 .. Len(w) : h[j] = Age(r, x)
    BY <1>5, <2>1, <2>2
  <2>4. q[j + 1] = x
    BY <1>5, <1>7, <2>1, <2>3
  <2>5. j + 1 \in 1 .. Len(q)
    BY <1>7, <1>8
  <2>6. Age(q, q[j + 1]) = j + 1 /\ q[j + 1] \in Known(q)
    BY <1>11, <2>5, AgeIs
  <2> QED BY <2>3, <2>4, <2>5, <2>6
<1>15. Known(r) \subseteq Known(q) /\ \A x \in Known(r) \ {k} : Age(q, x) > 1
  <2>1. \A x \in Known(r) \ {k} : x \in Known(q) /\ Age(q, x) > 1
    <3> TAKE x \in Known(r) \ {k}
    <3>1. PICK j \in 1 .. Len(w) : Age(q, x) = j + 1 /\ x \in Known(q)
      BY <1>14
    <3> QED BY <1>8, <3>1
  <2> QED BY <1>13, <2>1
<1>16. ASSUME NEW x \in Known(r) \ {k}, NEW y \in Known(r) \ {k}, Age(r, x) < Age(r, y)
       PROVE  Age(q, x) < Age(q, y)
  <2>1. PICK j \in 1 .. Len(w) : h[j] = Age(r, x) /\ Age(q, x) = j + 1
    BY <1>14
  <2>2. PICK l \in 1 .. Len(w) : h[l] = Age(r, y) /\ Age(q, y) = l + 1
    BY <1>14
  <2>3. h[j] < h[l] /\ h[j] \in 1 .. Len(r) /\ h[l] \in 1 .. Len(r)
    BY <1>16, <2>1, <2>2
  <2>4. ~ (l < j) /\ l # j
    <3>1. h[j] \in Int /\ h[l] \in Int
      BY <1>1, <2>3
    <3>2. ~ (h[l] < h[j]) /\ h[l] # h[j]
      BY <2>3, <3>1
    <3> QED BY <1>6, <3>2
  <2> QED BY <1>8, <2>1, <2>2, <2>4
<1> QED BY <1>11, <1>13, <1>15, <1>16 DEF Promotes

\* The list without the entry of k.
LEMMA WithoutIs ==
  ASSUME Proper(order, recency, newest), NEW k, NEW w, w = Without(k)
  PROVE  /\ w \in Seq(Entry) /\ Spares(w, order, Where(k))
         /\ Total(w) = Total(order) - Share(k) /\ Share(k) \in Nat
         /\ k \in Cached => At(k) \in 1 .. Len(order) /\ order[At(k)].key = k
<1>1. order \in Seq(Entry) /\ DOMAIN order = 1 .. Len(order)
  BY DEF Proper
<1>2. Where(k) \in SUBSET (1 .. Len(order)) /\ \A i, j \in Where(k) : i = j
  BY <1>1 DEF Where, Proper
<1>3. w = DropAny(order, Where(k))
  BY DEF Without
<1>4. w \in Seq(Entry) /\ Spares(w, order, Where(k))
  BY <1>1, <1>2, <1>3, Dropped
<1>5. CASE Where(k) = {}
  <2>1. k \notin Cached
    BY <1>5 DEF Where, Cached
  <2>2. Share(k) = 0
    BY <2>1 DEF Share
  <2>3. w = order
    BY <1>3, <1>5 DEF DropAny
  <2>4. Total(order) \in Nat
    BY <1>1, TotalType
  <2> QED BY <1>4, <2>1, <2>2, <2>3, <2>4
<1>6. CASE Where(k) # {}
  <2>1. At(k) \in Where(k)
    BY <1>6 DEF At
  <2>2. At(k) \in 1 .. Len(order) /\ order[At(k)].key = k /\ k \in Cached
    BY <1>1, <2>1 DEF Where, Cached
  <2>3. Share(k) = order[At(k)].data.size
    BY <2>2 DEF Share
  <2>4. w = RemoveAt(order, At(k))
    BY <1>3, <1>6 DEF DropAny, At
  <2>5. Total(w) = Total(order) - Share(k)
    BY <1>1, <2>2, <2>3, <2>4, TotalRemoved
  <2>6. Share(k) \in Nat
    <3>1. order[At(k)] \in Entry
      BY <1>1, <2>2
    <3> QED BY <2>3, <3>1, DataAssumption DEF Entry
  <2> QED BY <1>4, <2>2, <2>5, <2>6
<1> QED BY <1>5, <1>6

LEMMA ProperWithout ==
  ASSUME Proper(order, recency, newest), NEW k, NEW w, w = Without(k)
  PROVE  Proper(w, recency, newest)
<1>1. w \in Seq(Entry) /\ Spares(w, order, Where(k)) /\ Len(order) \in Nat
  BY WithoutIs DEF Proper
<1>2. PICK h \in [1 .. Len(w) -> (1 .. Len(order)) \ Where(k)] :
        /\ \A j \in 1 .. Len(w) : w[j] = order[h[j]]
        /\ \A j, l \in 1 .. Len(w) : j < l => h[j] < h[l]
  BY <1>1 DEF Spares
<1>3. \A j \in 1 .. Len(w) : w[j] = order[h[j]] /\ h[j] \in 1 .. Len(order)
  BY <1>2
<1>4. \A j, l \in 1 .. Len(w) : j < l => h[j] < h[l]
  BY <1>2
<1>5. ASSUME NEW i \in 1 .. Len(w), NEW j \in 1 .. Len(w), w[i].key = w[j].key PROVE i = j
  <2>1. h[i] = h[j] /\ h[i] \in Int
    BY <1>1, <1>3, <1>5 DEF Proper
  <2>2. ~ (h[i] < h[j]) /\ ~ (h[j] < h[i])
    BY <2>1
  <2>3. ~ (i < j) /\ ~ (j < i)
    BY <1>4, <2>2
  <2> QED BY <1>1, <2>3
<1>6. \A i \in 1 .. Len(w) :
        /\ w[i].key \in Known(recency)
        /\ w[i].data = newest[w[i].key] \/ newest[w[i].key].size > MaxBytes
  BY <1>3 DEF Proper
<1>7. \A i, j \in 1 .. Len(w) : i < j => Age(recency, w[i].key) < Age(recency, w[j].key)
  BY <1>3, <1>4 DEF Proper
<1> QED BY <1>1, <1>5, <1>6, <1>7 DEF Proper

LEMMA ProperFront ==
  ASSUME Proper(order, recency, newest), NEW k \in CacheKeys, NEW e \in Entry, e.key = k,
         NEW q, Promotes(q, recency, k),
         NEW nw, \A x \in CacheKeys \ {k} : nw[x] = newest[x],
         e.data = nw[k] \/ nw[k].size > MaxBytes,
         NEW w, w = Without(k), NEW es, es = <<e>> \o w
  PROVE  Proper(es, q, nw)
<1>1. w \in Seq(Entry) /\ Spares(w, order, Where(k)) /\ Proper(w, recency, newest)
  BY WithoutIs, ProperWithout
<1>2. /\ es \in Seq(Entry) /\ Len(es) = Len(w) + 1 /\ es[1] = e /\ Len(w) \in Nat
      /\ \A j \in 1 .. Len(w) : es[j + 1] = w[j]
  BY <1>1, Pushed
<1>3. ASSUME NEW j \in 1 .. Len(w)
      PROVE  /\ w[j].key \in Known(recency) \ {k} /\ w[j].key \in CacheKeys
             /\ w[j].data = nw[w[j].key] \/ nw[w[j].key].size > MaxBytes
  <2>1. w[j].key \in Known(recency) /\ w[j] \in Entry
        /\ (w[j].data = newest[w[j].key] \/ newest[w[j].key].size > MaxBytes)
    BY <1>1 DEF Proper
  <2>2. PICK i \in (1 .. Len(order)) \ Where(k) : w[j] = order[i]
    BY <1>1, Spared
  <2>3. w[j].key # k
    BY <2>2 DEF Where, Proper
  <2>4. w[j].key \in CacheKeys
    BY <2>1 DEF Entry
  <2> QED BY <2>1, <2>3, <2>4
<1>4. ASSUME NEW i \in 1 .. Len(es), i # 1
      PROVE  \E j \in 1 .. Len(w) : i = j + 1 /\ es[i] = w[j]
  <2>1. i - 1 \in 1 .. Len(w) /\ i = (i - 1) + 1
    BY <1>2, <1>4
  <2>2. PICK j \in 1 .. Len(w) : i = j + 1
    BY <2>1
  <2> QED BY <1>2, <2>2
<1>5. \A i \in 1 .. Len(es) : es[i].key \in Known(q)
                              /\ (es[i].data = nw[es[i].key] \/ nw[es[i].key].size > MaxBytes)
  <2> TAKE i \in 1 .. Len(es)
  <2>1. CASE i = 1
    BY <1>2, <2>1 DEF Promotes
  <2>2. CASE i # 1
    <3>1. PICK j \in 1 .. Len(w) : es[i] = w[j]
      BY <1>4, <2>2
    <3> QED BY <1>3, <3>1 DEF Promotes
  <2> QED BY <2>1, <2>2
<1>6. ASSUME NEW i \in 1 .. Len(es), NEW j \in 1 .. Len(es), i < j
      PROVE  Age(q, es[i].key) < Age(q, es[j].key) /\ es[i].key # es[j].key
  <2>1. PICK l \in 1 .. Len(w) : j = l + 1 /\ es[j] = w[l]
    <3>1. j # 1
      BY <1>2, <1>6
    <3> QED BY <1>4, <3>1
  <2>2. CASE i = 1
    BY <1>2, <1>3, <2>1, <2>2 DEF Promotes
  <2>3. CASE i # 1
    <3>1. PICK m \in 1 .. Len(w) : i = m + 1 /\ es[i] = w[m]
      BY <1>4, <2>3
    <3>2. m < l
      BY <1>2, <1>6, <2>1, <3>1
    <3>3. Age(recency, w[m].key) < Age(recency, w[l].key) /\ w[m].key # w[l].key
      <4>1. m # l
        BY <3>2
      <4> QED BY <1>1, <3>2, <4>1 DEF Proper
    <3> QED BY <1>3, <2>1, <3>1, <3>3 DEF Promotes
  <2> QED BY <2>2, <2>3
<1>7. \A i, j \in 1 .. Len(es) : es[i].key = es[j].key => i = j
  <2> TAKE i, j \in 1 .. Len(es)
  <2>1. i < j \/ j < i \/ i = j
    BY <1>2
  <2> QED BY <1>6, <2>1
<1>8. \A i, j \in 1 .. Len(es) : i < j => Age(q, es[i].key) < Age(q, es[j].key)
  BY <1>6
<1> QED BY <1>2, <1>5, <1>7, <1>8 DEF Proper

LEMMA ProperPrefix ==
  ASSUME NEW es, NEW q, NEW nw, Proper(es, q, nw), NEW n \in 0 .. Len(es),
         NEW kept, kept = SubSeq(es, 1, n)
  PROVE  Proper(kept, q, nw)
<1>1. es \in Seq(Entry) /\ Len(es) \in Nat
  BY DEF Proper
<1>2. kept \in Seq(Entry) /\ Len(kept) = n /\ \A i \in 1 .. n : kept[i] = es[i]
  BY <1>1, TotalPrefix
<1>3. \A i \in 1 .. n : i \in 1 .. Len(es)
  BY <1>1
<1> QED BY <1>2, <1>3 DEF Proper

\* What Evict keeps of a list of which the first entry fits: as much as fits.
LEMMA EvictIs ==
  ASSUME NEW es \in Seq(Entry), Len(es) > 0, es[1].data.size <= MaxBytes
  PROVE  \E n \in 1 .. Len(es) :
           /\ Evict(es, Total(es)) = <<SubSeq(es, 1, n), Total(SubSeq(es, 1, n))>>
           /\ Total(SubSeq(es, 1, n)) <= MaxBytes
           /\ n < Len(es) => Total(SubSeq(es, 1, n)) + es[n + 1].data.size > MaxBytes
<1> DEFINE ns == Sizes(es)
           left(n) == Total(es) - Total(es) + Sums(ns)[n]
           fits == {n \in 0 .. Len(es) : left(n) <= MaxBytes}
           most == IF fits = {} THEN 0 ELSE Max(fits)
<1>1. Evict(es, Total(es)) = <<SubSeq(es, 1, most), left(most)>>
  BY Zenon DEF Evict
<1>2. /\ ns \in Seq(Nat) /\ Len(ns) = Len(es)
      /\ \A i \in 1 .. Len(es) : ns[i] = es[i].data.size /\ es[i].data.size \in Nat
  BY SizesType
<1>3. Total(es) \in Nat /\ Len(es) \in Nat /\ 1 \in 1 .. Len(es)
  BY TotalType
<1> HIDE DEF ns
<1>4. /\ Sums(ns) \in [0 .. Len(es) -> Nat] /\ Sums(ns)[0] = 0
      /\ \A i \in 1 .. Len(es) : Sums(ns)[i] = Sums(ns)[i - 1] + ns[i]
  BY <1>2, SumsDef
<1>5. \A n \in 0 .. Len(es) : left(n) = Sums(ns)[n] /\ Sums(ns)[n] \in Nat
  BY <1>3, <1>4
<1> HIDE DEF left
<1>6. 1 \in fits
  <2>1. Sums(ns)[1] = ns[1]
    <3>1. Sums(ns)[1] = Sums(ns)[1 - 1] + ns[1]
      BY <1>3, <1>4
    <3> QED BY <1>2, <1>3, <1>4, <3>1
  <2> QED BY <1>2, <1>3, <1>5, <2>1
<1>7. most \in fits /\ \A n \in fits : n <= most
  <2>1. fits \in SUBSET (0 .. Len(es)) /\ fits # {}
    BY <1>6
  <2> HIDE DEF fits
  <2> QED BY <1>3, <2>1, Maximum
<1> HIDE DEF most
<1>8. most \in 1 .. Len(es) /\ left(most) <= MaxBytes
  BY <1>3, <1>6, <1>7
<1>9. \A n \in 0 .. Len(es) : Total(SubSeq(es, 1, n)) = Sums(ns)[n]
  BY TotalPrefix DEF ns
<1>10. ASSUME most < Len(es) PROVE Sums(ns)[most] + es[most + 1].data.size > MaxBytes
  <2>1. most + 1 \in 1 .. Len(es) /\ most + 1 \in 0 .. Len(es) /\ (most + 1) - 1 = most
    BY <1>3, <1>8, <1>10
  <2>2. most + 1 \notin fits
    BY <1>7, <1>8
  <2>3. ~ (left(most + 1) <= MaxBytes)
    BY <2>1, <2>2
  <2>4. Sums(ns)[most + 1] = Sums(ns)[most] + ns[most + 1]
    BY <1>4, <2>1
  <2>5. Sums(ns)[most + 1] > MaxBytes
    BY <1>5, <2>1, <2>3, MaxBytesAssumption
  <2> QED BY <1>2, <2>1, <2>4, <2>5
<1>11. most \in 0 .. Len(es) /\ left(most) = Sums(ns)[most]
  BY <1>3, <1>5, <1>8
<1> HIDE DEF fits
<1> QED BY <1>1, <1>8, <1>9, <1>10, <1>11
-----------------------------------------------------------------------------

(* The memory cache: its steps. *)

Keys(es) == {es[i].key : i \in DOMAIN es}

\* Every entry of w is one of order, and not the one of k.
OthersOnly(w, k) ==
  \A j \in 1 .. Len(w) : \E i \in 1 .. Len(order) : w[j] = order[i] /\ w[j].key # k

LEMMA OthersStay ==
  ASSUME Proper(order, recency, newest), NEW k, NEW w, w = Without(k)
  PROVE  OthersOnly(w, k)
<1>1. w \in Seq(Entry) /\ Spares(w, order, Where(k)) /\ DOMAIN order = 1 .. Len(order)
  BY WithoutIs DEF Proper
<1>2. \A i \in 1 .. Len(order) : i \in Where(k) <=> order[i].key = k
  BY <1>1 DEF Where
<1>3. ASSUME NEW j \in 1 .. Len(w)
      PROVE  \E i \in 1 .. Len(order) : w[j] = order[i] /\ w[j].key # k
  <2>1. PICK i \in (1 .. Len(order)) \ Where(k) : w[j] = order[i]
    BY <1>1, Spared
  <2> QED BY <1>2, <2>1
<1> QED BY <1>3 DEF OthersOnly

LEMMA KeysFront ==
  ASSUME Proper(order, recency, newest), NEW k, NEW w, w = Without(k),
         NEW e \in Entry, e.key = k, NEW es, es = <<e>> \o w
  PROVE  Keys(w) = Cached \ {k} /\ Keys(es) = Cached \cup {k}
<1>1. w \in Seq(Entry) /\ Spares(w, order, Where(k))
  BY WithoutIs
<1>2. DOMAIN order = 1 .. Len(order) /\ DOMAIN w = 1 .. Len(w) /\ Len(w) \in Nat
  BY <1>1 DEF Proper
<1>3. \A i \in 1 .. Len(order) : i \in Where(k) <=> order[i].key = k
  BY <1>2 DEF Where
<1>4. PICK h \in [1 .. Len(w) -> (1 .. Len(order)) \ Where(k)] :
        /\ \A j \in 1 .. Len(w) : w[j] = order[h[j]]
        /\ \A i \in (1 .. Len(order)) \ Where(k) : \E j \in 1 .. Len(w) : h[j] = i
  BY <1>1 DEF Spares
<1>5. \A j \in 1 .. Len(w) : \E i \in 1 .. Len(order) : w[j] = order[i] /\ w[j].key # k
  <2>1. OthersOnly(w, k)
    BY OthersStay
  <2> QED BY <2>1 DEF OthersOnly
<1>6. Keys(w) = Cached \ {k}
  <2>1. ASSUME NEW x \in Keys(w) PROVE x \in Cached \ {k}
    <3>1. PICK j \in 1 .. Len(w) : x = w[j].key
      BY <1>2 DEF Keys
    <3>2. PICK i \in 1 .. Len(order) : w[j] = order[i] /\ w[j].key # k
      BY <1>5
    <3> QED BY <1>2, <3>1, <3>2 DEF Cached
  <2>2. ASSUME NEW x \in Cached \ {k} PROVE x \in Keys(w)
    <3>1. PICK i \in 1 .. Len(order) : x = order[i].key
      BY <1>2 DEF Cached
    <3>2. i \in (1 .. Len(order)) \ Where(k)
      BY <1>3, <3>1
    <3>3. PICK j \in 1 .. Len(w) : h[j] = i
      BY <1>4, <3>2, Zenon
    <3>4. w[j].key = x
      BY <1>4, <3>1, <3>3
    <3> QED BY <1>2, <3>4 DEF Keys
  <2> QED BY <2>1, <2>2
<1>7. /\ es \in Seq(Entry) /\ Len(es) = Len(w) + 1 /\ es[1] = e
      /\ \A j \in 1 .. Len(w) : es[j + 1] = w[j]
  BY <1>1, Pushed
<1>8. DOMAIN es = 1 .. Len(es)
  BY <1>7
<1>9. Keys(es) = Keys(w) \cup {k}
  <2>1. ASSUME NEW i \in 1 .. Len(es) PROVE es[i].key \in Keys(w) \cup {k}
    <3>1. CASE i = 1
      BY <1>7, <3>1
    <3>2. CASE i # 1
      <4>1. i - 1 \in 1 .. Len(w) /\ i = (i - 1) + 1
        BY <1>2, <1>7, <3>2
      <4>2. PICK j \in 1 .. Len(w) : i = j + 1
        BY <4>1
      <4> QED BY <1>2, <1>7, <4>2 DEF Keys
    <3> QED BY <3>1, <3>2
  <2>2. 1 \in 1 .. Len(es) /\ \A j \in 1 .. Len(w) : j + 1 \in 1 .. Len(es)
    BY <1>2, <1>7
  <2>3. k \in Keys(es)
    BY <1>7, <1>8, <2>2 DEF Keys
  <2>4. ASSUME NEW j \in 1 .. Len(w) PROVE w[j].key \in Keys(es)
    BY <1>7, <1>8, <2>2 DEF Keys
  <2>5. Keys(es) \subseteq Keys(w) \cup {k}
    BY <1>8, <2>1 DEF Keys
  <2>6. ASSUME NEW x \in Keys(w) PROVE x \in Keys(es)
    <3>1. PICK j \in 1 .. Len(w) : x = w[j].key
      BY <1>2 DEF Keys
    <3> QED BY <2>4, <3>1
  <2> QED BY <2>3, <2>5, <2>6
<1> QED BY <1>6, <1>9

\* What Used makes of the history.
LEMMA UsedPromotes ==
  ASSUME Distinct(recency), NEW k \in CacheKeys, Used(k)
  PROVE  Promotes(recency', recency, k)
<1> PICK w : w = DropAny(recency, {i \in DOMAIN recency : recency[i] = k})
  OBVIOUS
<1>1. recency' = <<k>> \o w
  BY DEF Used
<1> QED BY <1>1, UsedKeys

LEMMA GetStep ==
  ASSUME LRUInv, NEW k \in CacheKeys, Get(k)
  PROVE  LRUInv' /\ Cached' = Cached
<1> PICK w : w = Without(k)
  OBVIOUS
<1> PICK e : e = order[At(k)]
  OBVIOUS
<1>1. /\ k \in Cached /\ order' = <<e>> \o w /\ Promotes(recency', recency, k)
      /\ curBytes' = curBytes /\ newest' = newest
  BY UsedPromotes DEF Get, LRUInv
<1>2. Proper(order, recency, newest)
  BY DEF LRUInv
<1>3. At(k) \in 1 .. Len(order) /\ e.key = k
  BY <1>1, <1>2, WithoutIs
<1>4. e \in Entry /\ (e.data = newest[k] \/ newest[k].size > MaxBytes)
  BY <1>2, <1>3 DEF Proper
<1>5. Proper(order', recency', newest)
  BY <1>1, <1>2, <1>3, <1>4, ProperFront
<1>6. w \in Seq(Entry) /\ Total(w) = Total(order) - Share(k) /\ Share(k) \in Nat
  BY <1>2, WithoutIs
<1>7. Share(k) = e.data.size
  BY <1>1 DEF Share
<1>8. Total(order') = Total(w) + e.data.size
  BY <1>1, <1>4, <1>6, TotalPushed
<1>9. Total(order) \in Nat
  BY <1>2, TotalType DEF Proper
<1>10. Total(order') = Total(order)
  BY <1>6, <1>7, <1>8, <1>9
<1>11. Cached' = Cached
  <2>1. Keys(order') = Cached \cup {k}
    <3>1. order' = <<e>> \o w /\ e \in Entry /\ e.key = k
      BY <1>1, <1>3, <1>4
    <3>2. PICK es : es = <<e>> \o w
      OBVIOUS
    <3>3. Keys(es) = Cached \cup {k}
      BY <1>2, <3>1, <3>2, KeysFront
    <3> QED BY <3>1, <3>2, <3>3
  <2> QED BY <1>1, <2>1 DEF Keys, Cached
<1>12. order # <<>>
  BY <1>1, <1>3
<1> QED BY <1>1, <1>5, <1>10, <1>11, <1>12 DEF LRUInv, Promotes

LEMMA DeleteStep ==
  ASSUME LRUInv, NEW k \in CacheKeys, Delete(k)
  PROVE  LRUInv'
<1>1. /\ k \in Cached /\ order' = Without(k) /\ curBytes' = curBytes - Share(k)
      /\ recency' = recency /\ newest' = newest
  BY DEF Delete
<1>2. Proper(order', recency, newest)
  BY <1>1, ProperWithout DEF LRUInv
<1>3. Total(order') = Total(order) - Share(k)
  BY <1>1, WithoutIs DEF LRUInv
<1>4. order # <<>>
  BY <1>1 DEF Cached
<1> QED BY <1>1, <1>2, <1>3, <1>4 DEF LRUInv

\* As many entries of es are kept as fit.
KeepsMost(kept, es) ==
  \E n \in 1 .. Len(es) :
    /\ kept = SubSeq(es, 1, n) /\ Total(kept) <= MaxBytes
    /\ n < Len(es) => Total(kept) + es[n + 1].data.size > MaxBytes

\* What Set does, when its data are not too large.
LEMMA SetKept ==
  ASSUME LRUInv, NEW k \in CacheKeys, NEW d \in Data, Set(k, d),
         MaxBytes > 0, d.size <= MaxBytes,
         NEW w, w = Without(k), NEW es, es = <<[key |-> k, data |-> d]>> \o w
  PROVE  /\ Proper(es, recency', newest') /\ Promotes(recency', recency, k)
         /\ KeepsMost(order', es) /\ curBytes' = Total(order')
<1> PICK e : e = [key |-> k, data |-> d]
  OBVIOUS
<1>1. e \in Entry /\ e.key = k /\ e.data = d /\ es = <<e>> \o w
  BY DEF Entry
<1>2. ~ (MaxBytes <= 0 \/ d.size > MaxBytes) /\ d.size \in Nat
  BY MaxBytesAssumption, DataAssumption
<1>3. /\ newest' = [newest EXCEPT ![k] = d]
      /\ order' = Evict(es, curBytes + d.size - Share(k))[1]
      /\ curBytes' = Evict(es, curBytes + d.size - Share(k))[2]
      /\ Used(k)
  BY <1>2 DEF Set
<1>4. Promotes(recency', recency, k)
  BY <1>3, UsedPromotes DEF LRUInv
<1>5. newest'[k] = d /\ \A x \in CacheKeys \ {k} : newest'[x] = newest[x]
  BY <1>3 DEF LRUInv
<1>6. Proper(order, recency, newest)
  BY DEF LRUInv
<1>7. Proper(es, recency', newest')
  BY <1>1, <1>4, <1>5, <1>6, ProperFront
<1>8. w \in Seq(Entry) /\ Total(w) = Total(order) - Share(k) /\ Share(k) \in Nat
  BY <1>6, WithoutIs
<1>9. es \in Seq(Entry) /\ Len(es) = Len(w) + 1 /\ es[1] = e
  BY <1>1, <1>8, Pushed
<1>10. curBytes + d.size - Share(k) = Total(es)
  <2>1. Total(es) = Total(w) + d.size
    BY <1>1, <1>8, TotalPushed
  <2>2. curBytes = Total(order) /\ Total(order) \in Nat
    BY <1>6, TotalType DEF LRUInv, Proper
  <2> QED BY <1>2, <1>8, <2>1, <2>2
<1>11. Len(es) > 0 /\ es[1].data.size <= MaxBytes
  BY <1>1, <1>8, <1>9
<1>12. PICK n \in 1 .. Len(es) :
         /\ Evict(es, Total(es)) = <<SubSeq(es, 1, n), Total(SubSeq(es, 1, n))>>
         /\ Total(SubSeq(es, 1, n)) <= MaxBytes
         /\ n < Len(es) => Total(SubSeq(es, 1, n)) + es[n + 1].data.size > MaxBytes
  BY <1>9, <1>11, EvictIs
<1>13. order' = SubSeq(es, 1, n) /\ curBytes' = Total(order')
  <2>1. Evict(es, curBytes + d.size - Share(k)) = <<SubSeq(es, 1, n), Total(SubSeq(es, 1, n))>>
    BY <1>10, <1>12
  <2> DEFINE pair == Evict(es, curBytes + d.size - Share(k))
  <2>2. order' = pair[1] /\ curBytes' = pair[2]
    BY <1>3
  <2> HIDE DEF pair
  <2>3. pair = <<SubSeq(es, 1, n), Total(SubSeq(es, 1, n))>>
    BY <2>1 DEF pair
  <2>4. order' = SubSeq(es, 1, n) /\ curBytes' = Total(SubSeq(es, 1, n))
    BY <2>2, <2>3
  <2> QED BY <2>4
<1> QED BY <1>4, <1>7, <1>12, <1>13 DEF KeepsMost

LEMMA SetStep ==
  ASSUME LRUInv, NEW k \in CacheKeys, NEW d \in Data, Set(k, d)
  PROVE  LRUInv'
<1>1. newest' = [newest EXCEPT ![k] = d] /\ newest' \in [CacheKeys -> Data \cup {Nothing}]
  BY DEF Set, LRUInv
<1>2. CASE MaxBytes <= 0 \/ d.size > MaxBytes
  <2>1. order' = order /\ curBytes' = curBytes /\ recency' = recency
    BY <1>2 DEF Set
  <2>2. CASE order = <<>>
    BY <1>1, <2>1, <2>2 DEF LRUInv, Proper
  <2>3. CASE order # <<>>
    <3>1. d.size > MaxBytes
      BY <1>2, <2>3 DEF LRUInv
    <3>2. ASSUME NEW x \in CacheKeys PROVE newest'[x] = newest[x] \/ newest'[x].size > MaxBytes
      BY <1>1, <3>1 DEF LRUInv
    <3>3. ASSUME NEW i \in 1 .. Len(order)
          PROVE  order[i].data = newest'[order[i].key] \/ newest'[order[i].key].size > MaxBytes
      <4>1. order[i].key \in CacheKeys
        <5>1. order[i] \in Entry
          BY DEF LRUInv, Proper
        <5> QED BY <5>1 DEF Entry
      <4> QED BY <3>1, <3>2, <1>1, <4>1 DEF LRUInv, Proper
    <3> QED BY <1>1, <2>1, <3>3 DEF LRUInv, Proper
  <2> QED BY <2>2, <2>3
<1>3. CASE ~ (MaxBytes <= 0 \/ d.size > MaxBytes)
  <2>0. MaxBytes > 0 /\ d.size <= MaxBytes
    BY <1>3, MaxBytesAssumption, DataAssumption
  <2> PICK w : w = Without(k)
    OBVIOUS
  <2> PICK es : es = <<[key |-> k, data |-> d]>> \o w
    OBVIOUS
  <2>1. /\ Proper(es, recency', newest') /\ Promotes(recency', recency, k)
        /\ KeepsMost(order', es) /\ curBytes' = Total(order')
    BY <2>0, SetKept
  <2>2. PICK n \in 1 .. Len(es) : order' = SubSeq(es, 1, n)
    BY <2>1 DEF KeepsMost
  <2>3. n \in 0 .. Len(es)
    BY <2>1 DEF Proper
  <2>4. Proper(order', recency', newest')
    BY <2>1, <2>2, <2>3, ProperPrefix
  <2> QED BY <1>1, <2>0, <2>1, <2>2, <2>4, MaxBytesAssumption DEF LRUInv, Promotes
<1> QED BY <1>2, <1>3

LEMMA LRUInitially == LRUInit => LRUInv
<1> SUFFICES ASSUME LRUInit PROVE LRUInv
  OBVIOUS
<1>1. order = <<>> /\ curBytes = 0 /\ recency = <<>> /\ newest = [k \in CacheKeys |-> Nothing]
  BY DEF LRUInit
<1>2. order \in Seq(Entry) /\ Len(order) = 0
  BY <1>1
<1>3. Proper(order, recency, newest)
  BY <1>2 DEF Proper
<1>4. Distinct(recency)
  BY <1>1 DEF Distinct, IsInjective
<1>5. Total(order) = 0
  BY <1>2, SizesType, SumsDef DEF Total
<1> QED BY <1>1, <1>3, <1>4, <1>5 DEF LRUInv

LEMMA LRUNextStep == LRUInv /\ [LRUNext]_lruVars => LRUInv'
<1> SUFFICES ASSUME LRUInv, [LRUNext]_lruVars PROVE LRUInv'
  OBVIOUS
<1>1. ASSUME NEW k \in CacheKeys, Get(k) PROVE LRUInv'
  BY <1>1, GetStep
<1>2. ASSUME NEW k \in CacheKeys, Delete(k) PROVE LRUInv'
  BY <1>2, DeleteStep
<1>3. ASSUME NEW k \in CacheKeys, NEW d \in Data, Set(k, d) PROVE LRUInv'
  BY <1>3, SetStep
<1>4. CASE UNCHANGED lruVars
  BY <1>4 DEF lruVars, LRUInv, Proper, Distinct
<1> QED BY <1>1, <1>2, <1>3, <1>4 DEF LRUNext

LEMMA LRUInvariant == LRUSpec => []LRUInv
<1> QED BY LRUInitially, LRUNextStep, PTL DEF LRUSpec

LEMMA LRUMeans == LRUInv => LRUTypeOK /\ NewestOrRefused
<1> SUFFICES ASSUME LRUInv PROVE LRUTypeOK /\ NewestOrRefused
  OBVIOUS
<1>1. order \in Seq(Entry) /\ DOMAIN order = 1 .. Len(order)
  BY DEF LRUInv, Proper
<1>2. IsInjective([i \in DOMAIN order |-> order[i].key])
  BY <1>1 DEF LRUInv, Proper, IsInjective
<1>3. LRUTypeOK
  BY <1>1, <1>2 DEF LRUInv, Distinct, LRUTypeOK
<1>4. NewestOrRefused
  BY <1>1 DEF LRUInv, Proper, NewestOrRefused
<1> QED BY <1>3, <1>4

\* Every key has one entry, and curBytes, which the code keeps up to date by
\* adding and subtracting, is the size of all of them.
THEOREM CacheTypeCorrect == LRUSpec => []LRUTypeOK
<1> QED BY LRUInvariant, LRUMeans, PTL

\* A hit returns what was last given to Set, or that was too large to be kept.
THEOREM HitsAreNewest == LRUSpec => []NewestOrRefused
<1> QED BY LRUInvariant, LRUMeans, PTL

\* In a list that is in the order of use, what is cut off at the end was used
\* before everything that stays.
LEMMA CutOff ==
  ASSUME NEW es, NEW q, NEW nw, Proper(es, q, nw), NEW n \in 0 .. Len(es),
         NEW kept, kept = SubSeq(es, 1, n), NEW k \in Keys(es) \ Keys(kept), NEW x \in Keys(kept)
  PROVE  Age(q, x) < Age(q, k)
<1>1. es \in Seq(Entry) /\ Len(es) \in Nat /\ DOMAIN es = 1 .. Len(es)
  BY DEF Proper
<1>2. kept \in Seq(Entry) /\ Len(kept) = n /\ \A i \in 1 .. n : kept[i] = es[i]
  BY <1>1, TotalPrefix
<1>3. DOMAIN kept = 1 .. n
  BY <1>2
<1>4. PICK i \in 1 .. n : x = es[i].key
  BY <1>2, <1>3 DEF Keys
<1>5. PICK j \in 1 .. Len(es) : k = es[j].key
  BY <1>1 DEF Keys
<1>6. j \notin 1 .. n
  BY <1>2, <1>3, <1>5 DEF Keys
<1>7. i < j /\ i \in 1 .. Len(es)
  BY <1>1, <1>4, <1>5, <1>6
<1> QED BY <1>4, <1>5, <1>7 DEF Proper

\* The entries that Set evicts were used less recently than every entry that it
\* leaves; nothing else but Delete takes an entry away.
THEOREM OldestAreEvicted == LRUSpec => OldestGoFirst
<1> DEFINE OldFirst == \/ UNCHANGED <<recency, newest>>
                       \/ \A k \in Cached \ Cached', x \in Cached' :
                            Age(recency', x) < Age(recency', k)
<1>1. ASSUME LRUInv, [LRUNext]_lruVars PROVE OldFirst
  <2>1. CASE UNCHANGED lruVars
    BY <2>1 DEF lruVars
  <2>2. ASSUME NEW k \in CacheKeys, Get(k) PROVE OldFirst
    <3>1. Cached' = Cached
      BY <1>1, <2>2, GetStep
    <3> QED BY <3>1, Zenon
  <2>3. ASSUME NEW k \in CacheKeys, Delete(k) PROVE OldFirst
    BY <2>3 DEF Delete
  <2>4. ASSUME NEW k \in CacheKeys, NEW d \in Data, Set(k, d) PROVE OldFirst
    <3>1. CASE MaxBytes <= 0 \/ d.size > MaxBytes
      <4>1. order' = order
        BY <2>4, <3>1 DEF Set
      <4>2. Cached' = Cached
        BY <4>1 DEF Cached
      <4> QED BY <4>2, Zenon
    <3>2. CASE ~ (MaxBytes <= 0 \/ d.size > MaxBytes)
      <4>0. MaxBytes > 0 /\ d.size <= MaxBytes
        BY <3>2, MaxBytesAssumption, DataAssumption
      <4> PICK w : w = Without(k)
        OBVIOUS
      <4> PICK e : e = [key |-> k, data |-> d]
        OBVIOUS
      <4> PICK es : es = <<e>> \o w
        OBVIOUS
      <4>1. Proper(es, recency', newest') /\ KeepsMost(order', es)
        BY <1>1, <2>4, <4>0, SetKept
      <4>2. PICK n \in 1 .. Len(es) : order' = SubSeq(es, 1, n)
        BY <4>1 DEF KeepsMost
      <4>3. n \in 0 .. Len(es)
        BY <4>1 DEF Proper
      <4>4. Keys(es) = Cached \cup {k}
        <5>1. Proper(order, recency, newest) /\ e \in Entry /\ e.key = k
          BY <1>1 DEF LRUInv, Entry
        <5> QED BY <5>1, KeysFront
      <4>5. Cached' = Keys(order')
        BY DEF Cached, Keys
      <4>6. ASSUME NEW old \in Cached \ Cached', NEW x \in Cached'
            PROVE  Age(recency', x) < Age(recency', old)
        <5>1. old \in Keys(es) \ Keys(order') /\ x \in Keys(order')
          BY <4>4, <4>5, <4>6
        <5> QED BY <4>1, <4>2, <4>3, <5>1, CutOff
      <4> QED BY <4>6
    <3> QED BY <3>1, <3>2
  <2> QED BY <1>1, <2>1, <2>2, <2>3, <2>4 DEF LRUNext
<1>2. LRUInv /\ [LRUNext]_lruVars => [OldFirst]_lruVars
  BY <1>1
<1> QED BY LRUInvariant, <1>2, PTL DEF LRUSpec, OldestGoFirst
-----------------------------------------------------------------------------

(* The memory cache as a bounded map. *)

\* The sizes of the entries whose keys are in s, and of the others 0.
Shares(es, s) == [i \in 1 .. Len(es) |-> IF es[i].key \in s THEN es[i].data.size ELSE 0]
Part(es, s) == Sums(Shares(es, s))[Len(es)]

LEMMA SharesType ==
  ASSUME NEW es \in Seq(Entry), NEW s
  PROVE  Shares(es, s) \in Seq(Nat) /\ Len(Shares(es, s)) = Len(es)
<1>1. \A i \in 1 .. Len(es) : es[i].data.size \in Nat
  BY SizesType
<1>2. Shares(es, s) \in [1 .. Len(es) -> Nat] /\ Len(es) \in Nat
  BY <1>1 DEF Shares
<1> QED BY <1>2

LEMMA PartOfNone ==
  ASSUME NEW es \in Seq(Entry)
  PROVE  Part(es, {}) = 0
<1> PICK ns : ns = Shares(es, {})
  OBVIOUS
<1>1. ns \in Seq(Nat) /\ Len(ns) = Len(es) /\ \A i \in 1 .. Len(ns) : ns[i] = 0
  BY SharesType DEF Shares
<1> DEFINE g == [i \in 0 .. Len(ns) |-> 0]
<1>2. Len(ns) \in Nat
  BY <1>1
<1>3. g[0] = 0 /\ \A i \in 1 .. Len(ns) : g[i] = g[i - 1] + ns[i]
  BY <1>1, <1>2
<1>4. g[Len(ns)] = 0
  BY <1>2
<1> HIDE DEF g
<1>5. \A i \in 0 .. Len(ns) : Sums(ns)[i] = g[i]
  BY <1>1, <1>3, SumsUnique
<1> QED BY <1>1, <1>2, <1>4, <1>5 DEF Part

LEMMA PartOfAll ==
  ASSUME NEW es \in Seq(Entry)
  PROVE  Part(es, Keys(es)) = Total(es)
<1>1. DOMAIN es = 1 .. Len(es)
  OBVIOUS
<1>2. \A i \in 1 .. Len(es) : es[i].key \in Keys(es)
  BY <1>1 DEF Keys
<1>3. Shares(es, Keys(es)) = Sizes(es)
  BY <1>1, <1>2 DEF Shares, Sizes
<1> QED BY <1>3 DEF Part, Total

LEMMA PartOfMore ==
  ASSUME NEW es \in Seq(Entry), \A i, j \in 1 .. Len(es) : es[i].key = es[j].key => i = j,
         NEW r \in 1 .. Len(es), NEW s, es[r].key \in s
  PROVE  Part(es, s) = es[r].data.size + Part(es, s \ {es[r].key})
<1> DEFINE t == s \ {es[r].key}
           ns == Shares(es, s)
           ms == Shares(es, t)
           size == es[r].data.size
           sum == Sums(ms)
           g == [i \in 0 .. Len(es) |-> sum[i] + IF i < r THEN 0 ELSE size]
<1>1. ns \in Seq(Nat) /\ Len(ns) = Len(es) /\ ms \in Seq(Nat) /\ Len(ms) = Len(es)
  BY SharesType
<1>2. Len(es) \in Nat /\ size \in Nat /\ r \in Nat
  BY SizesType
<1>3. ASSUME NEW i \in 1 .. Len(es) PROVE ns[i] = IF i = r THEN size ELSE ms[i]
  BY DEF Shares
<1>4. ms[r] = 0
  BY DEF Shares
<1>5. Part(es, s) = Sums(ns)[Len(es)] /\ Part(es, t) = sum[Len(es)]
  BY DEF Part
<1> HIDE DEF ns, ms, size, t
<1>6. /\ sum \in [0 .. Len(es) -> Nat] /\ sum[0] = 0
      /\ \A i \in 1 .. Len(es) : sum[i] = sum[i - 1] + ms[i]
  BY <1>1, SumsDef
<1>7. \A i \in 1 .. Len(es) : ms[i] \in Nat
  BY <1>1
<1> HIDE DEF sum
<1>8. ASSUME NEW i \in 1 .. Len(es) PROVE g[i] = g[i - 1] + ns[i]
  <2>1. i \in 0 .. Len(es) /\ i - 1 \in 0 .. Len(es) /\ i \in Nat
    BY <1>2
  <2>2. /\ g[i] = sum[i] + (IF i < r THEN 0 ELSE size)
        /\ g[i - 1] = sum[i - 1] + (IF i - 1 < r THEN 0 ELSE size)
    BY <2>1
  <2> HIDE DEF g
  <2>3. sum[i] = sum[i - 1] + ms[i] /\ sum[i] \in Nat /\ sum[i - 1] \in Nat /\ ms[i] \in Nat
    BY <1>6, <1>7, <2>1
  <2>4. CASE i < r
    BY <1>2, <1>3, <2>1, <2>2, <2>3, <2>4
  <2>5. CASE i = r
    BY <1>2, <1>3, <1>4, <2>1, <2>2, <2>3, <2>5
  <2>6. CASE i > r
    BY <1>2, <1>3, <2>1, <2>2, <2>3, <2>6
  <2> QED BY <1>2, <2>1, <2>4, <2>5, <2>6
<1>9. g[0] = 0
  BY <1>2, <1>6
<1>10. Len(es) \in 0 .. Len(es) /\ g[Len(es)] = sum[Len(es)] + size
  BY <1>2
<1>11. sum[Len(es)] \in Nat
  BY <1>6, <1>10
<1> HIDE DEF g
<1>12. \A i \in 0 .. Len(ns) : Sums(ns)[i] = g[i]
  <2>1. \A i \in 1 .. Len(ns) : g[i] = g[i - 1] + ns[i]
    BY <1>1, <1>8
  <2>2. ns \in Seq(Nat)
    BY <1>1
  <2> QED BY <1>9, <2>1, <2>2, SumsUnique
<1>13. Part(es, s) = size + Part(es, t)
  <2>1. Sums(ns)[Len(es)] = g[Len(es)]
    BY <1>1, <1>10, <1>12
  <2> QED BY <1>2, <1>5, <1>10, <1>11, <2>1
<1> QED BY <1>13 DEF t, size

\* The weight of a map is the size of a list with its keys and data, whichever
\* key the sum of MapThenSumSet takes first.
LEMMA WeightIs ==
  ASSUME NEW es \in Seq(Entry), \A i, j \in 1 .. Len(es) : es[i].key = es[j].key => i = j,
         NEW m, DOMAIN m = Keys(es), \A i \in 1 .. Len(es) : m[es[i].key] = es[i].data
  PROVE  Map!Weight(m) = Total(es)
<1> DEFINE D == DOMAIN m
           first(s) == CHOOSE x \in s : TRUE
           F == [s \in SUBSET D |-> Part(es, s)]
           iter == CHOOSE f : f = [s \in SUBSET D |->
                     IF s = {} THEN 0 ELSE m[first(s)].size + f[s \ {first(s)}]]
<1>1. Map!Weight(m) = iter[D]
  BY DEF Map!Weight, Map!MapThenSumSet, Map!MapThenFoldSet
<1>2. ASSUME NEW s \in SUBSET D, s # {}
      PROVE  /\ first(s) \in s /\ s \ {first(s)} \in SUBSET D
             /\ Part(es, s) = m[first(s)].size + Part(es, s \ {first(s)})
  <2>1. first(s) \in s
    BY <1>2
  <2> HIDE DEF first
  <2>2. PICK r \in 1 .. Len(es) : es[r].key = first(s)
    <3>1. DOMAIN es = 1 .. Len(es)
      OBVIOUS
    <3>2. first(s) \in Keys(es)
      BY <2>1
    <3> QED BY <3>1, <3>2 DEF Keys
  <2>3. m[first(s)].size = es[r].data.size
    BY <2>2
  <2>4. Part(es, s) = es[r].data.size + Part(es, s \ {es[r].key})
    BY <2>1, <2>2, PartOfMore
  <2> QED BY <2>1, <2>2, <2>3, <2>4
<1>3. F = [s \in SUBSET D |-> IF s = {} THEN 0 ELSE m[first(s)].size + F[s \ {first(s)}]]
  <2>1. ASSUME NEW s \in SUBSET D
        PROVE  Part(es, s) = IF s = {} THEN 0 ELSE m[first(s)].size + F[s \ {first(s)}]
    <3> HIDE DEF first
    <3>1. CASE s = {}
      BY <3>1, PartOfNone
    <3>2. CASE s # {}
      BY <1>2, <3>2
    <3> QED BY <3>1, <3>2
  <2> HIDE DEF first
  <2> QED BY <2>1
<1>4. iter = [s \in SUBSET D |-> IF s = {} THEN 0 ELSE m[first(s)].size + iter[s \ {first(s)}]]
  <2> HIDE DEF F, first
  <2> QED BY <1>3
<1> HIDE DEF iter
<1> DEFINE Same(n) == \A s \in SUBSET D : Cardinality(s) = n => iter[s] = Part(es, s)
           T == {n \in Nat : Same(n)}
<1>5. IsFiniteSet(D)
  <2> DEFINE f == [i \in 1 .. Len(es) |-> es[i].key]
  <2>1. DOMAIN es = 1 .. Len(es) /\ Len(es) \in Nat
    OBVIOUS
  <2>2. f \in Surjection(1 .. Len(es), D)
    BY <2>1 DEF Surjection, Keys
  <2>3. IsFiniteSet(1 .. Len(es))
    BY <2>1, FS_Interval
  <2> HIDE DEF f
  <2> QED BY <2>2, <2>3, FS_Surjection
<1>6. \A s \in SUBSET D : IsFiniteSet(s) /\ Cardinality(s) \in Nat
  BY <1>5, FS_Subset, FS_CardinalityType
<1>7. Same(0)
  <2> TAKE s \in SUBSET D
  <2> HAVE Cardinality(s) = 0
  <2>1. s = {}
    BY <1>6, FS_EmptySet
  <2> HIDE DEF first
  <2> QED BY <1>4, <2>1, PartOfNone
<1>8. ASSUME NEW n \in Nat, Same(n) PROVE Same(n + 1)
  <2> TAKE s \in SUBSET D
  <2> HAVE Cardinality(s) = n + 1
  <2>1. IsFiniteSet(s) /\ s # {}
    BY <1>6, FS_EmptySet
  <2> DEFINE x == first(s)
             rest == s \ {x}
  <2>2. x \in s /\ rest \in SUBSET D /\ Part(es, s) = m[x].size + Part(es, rest)
    BY <1>2, <2>1
  <2>3. iter[s] = m[x].size + iter[rest]
    <3> HIDE DEF first
    <3> QED BY <1>4, <2>1
  <2> HIDE DEF x
  <2>4. Cardinality(rest) = n
    <3>1. Cardinality(rest) = Cardinality(s) - 1
      BY <2>1, <2>2, FS_RemoveElement
    <3> QED BY <3>1
  <2>5. iter[rest] = Part(es, rest)
    BY <1>8, <2>2, <2>4
  <2> QED BY <2>2, <2>3, <2>5
<1>9. Nat \subseteq T
  <2> HIDE DEF Same
  <2>1. 0 \in T /\ \A n \in Nat : n \in T => n + 1 \in T
    BY <1>7, <1>8
  <2> HIDE DEF T
  <2> QED BY <2>1, Induction
<1>10. Cardinality(D) \in T
  BY <1>6, <1>9
<1>11. iter[D] = Part(es, D)
  BY <1>10
<1> QED BY <1>1, <1>11, PartOfAll DEF iter

\* The map of a list of entries, as Map has it of order.
MapOf(es) == [k \in Keys(es) |-> (CHOOSE e \in {es[i] : i \in DOMAIN es} : e.key = k).data]

LEMMA MapOfIs ==
  ASSUME NEW es, NEW q, NEW nw, Proper(es, q, nw)
  PROVE  /\ DOMAIN MapOf(es) = Keys(es)
         /\ MapOf(es) = [x \in Keys(es) |-> MapOf(es)[x]]
         /\ \A i \in 1 .. Len(es) : MapOf(es)[es[i].key] = es[i].data
         /\ Map!Weight(MapOf(es)) = Total(es)
<1>1. es \in Seq(Entry) /\ DOMAIN es = 1 .. Len(es)
  BY DEF Proper
<1>2. \A i, j \in 1 .. Len(es) : es[i].key = es[j].key => i = j
  BY DEF Proper
<1>3. DOMAIN MapOf(es) = Keys(es) /\ MapOf(es) = [x \in Keys(es) |-> MapOf(es)[x]]
  BY DEF MapOf
<1>4. ASSUME NEW i \in 1 .. Len(es) PROVE MapOf(es)[es[i].key] = es[i].data
  <2>1. es[i].key \in Keys(es)
    BY <1>1 DEF Keys
  <2>2. \E e \in {es[j] : j \in DOMAIN es} : e.key = es[i].key
    BY <1>1
  <2>3. \A e \in {es[j] : j \in DOMAIN es} : e.key = es[i].key => e = es[i]
    BY <1>1, <1>2
  <2>4. (CHOOSE e \in {es[j] : j \in DOMAIN es} : e.key = es[i].key) = es[i]
    BY <2>2, <2>3
  <2> QED BY <2>1, <2>4 DEF MapOf
<1>5. Map!Weight(MapOf(es)) = Total(es)
  BY <1>1, <1>2, <1>3, <1>4, WeightIs
<1> QED BY <1>3, <1>4, <1>5

map == MapOf(order)

\* A hit is no step of the map.
LEMMA GetMaps ==
  ASSUME LRUInv, NEW k \in CacheKeys, Get(k)
  PROVE  map' = map
<1> PICK w : w = Without(k)
  OBVIOUS
<1> PICK e : e = order[At(k)]
  OBVIOUS
<1>1. k \in Cached /\ order' = <<e>> \o w
  BY DEF Get
<1>2. Proper(order, recency, newest) /\ Proper(order', recency', newest') /\ Cached' = Cached
  BY GetStep DEF LRUInv
<1>3. At(k) \in 1 .. Len(order) /\ e.key = k /\ w \in Seq(Entry)
  BY <1>1, <1>2, WithoutIs
<1>4. e \in Entry
  BY <1>2, <1>3 DEF Proper
<1>5. /\ order' \in Seq(Entry) /\ Len(order') = Len(w) + 1 /\ order'[1] = e
      /\ \A j \in 1 .. Len(w) : order'[j + 1] = w[j]
  BY <1>1, <1>3, <1>4, Pushed
<1>6. OthersOnly(w, k)
  BY <1>2, OthersStay
<1>7. /\ map = [x \in Cached |-> map[x]] /\ map' = [x \in Cached |-> map'[x]]
      /\ \A i \in 1 .. Len(order) : map[order[i].key] = order[i].data
      /\ \A i \in 1 .. Len(order') : map'[order'[i].key] = order'[i].data
  BY <1>2, MapOfIs DEF map, Keys, Cached
<1>8. ASSUME NEW i \in 1 .. Len(order') PROVE map'[order'[i].key] = map[order'[i].key]
  <2>1. \E j \in 1 .. Len(order) : order'[i] = order[j]
    <3>1. CASE i = 1
      BY <1>3, <1>5, <3>1
    <3>2. CASE i # 1
      <4>1. i - 1 \in 1 .. Len(w) /\ i = (i - 1) + 1
        BY <1>3, <1>5, <3>2
      <4>2. PICK l \in 1 .. Len(w) : i = l + 1
        BY <4>1
      <4> QED BY <1>5, <1>6, <4>2 DEF OthersOnly
    <3> QED BY <3>1, <3>2
  <2> QED BY <1>7, <2>1
<1>9. ASSUME NEW x \in Cached PROVE map'[x] = map[x]
  <2>1. x \in Cached' /\ DOMAIN order' = 1 .. Len(order')
    BY <1>2, <1>5
  <2>2. PICK i \in 1 .. Len(order') : x = order'[i].key
    BY <2>1 DEF Cached
  <2> QED BY <1>8, <2>2
<1> QED BY <1>7, <1>9

LEMMA DeleteMaps ==
  ASSUME LRUInv, NEW k \in CacheKeys, Delete(k)
  PROVE  Map!Remove(k)
<1> PICK w : w = Without(k)
  OBVIOUS
<1>1. k \in Cached /\ order' = w
  BY DEF Delete
<1>2. Proper(order, recency, newest) /\ Proper(w, recency, newest)
  BY ProperWithout DEF LRUInv
<1>3. Keys(w) = Cached \ {k}
  <2>1. PICK i \in 1 .. Len(order) : order[i].key = k
    BY <1>1, <1>2 DEF Cached, Proper
  <2>2. order[i] \in Entry
    BY <1>2 DEF Proper
  <2>3. PICK es : es = <<order[i]>> \o w
    OBVIOUS
  <2> QED BY <1>2, <2>1, <2>2, <2>3, KeysFront
<1>4. OthersOnly(w, k)
  BY <1>2, OthersStay
<1>5. /\ DOMAIN map = Cached /\ map' = [x \in Cached \ {k} |-> map'[x]]
      /\ \A i \in 1 .. Len(order) : map[order[i].key] = order[i].data
      /\ \A j \in 1 .. Len(w) : map'[w[j].key] = w[j].data
  <2>1. Keys(order) = Cached
    BY DEF Keys, Cached
  <2>2. DOMAIN map = Cached /\ \A i \in 1 .. Len(order) : map[order[i].key] = order[i].data
    BY <1>2, <2>1, MapOfIs DEF map
  <2>3. map' = MapOf(w)
    BY <1>1 DEF map
  <2>4. /\ MapOf(w) = [x \in Keys(w) |-> MapOf(w)[x]]
        /\ \A j \in 1 .. Len(w) : MapOf(w)[w[j].key] = w[j].data
    BY <1>2, MapOfIs
  <2> QED BY <1>3, <2>2, <2>3, <2>4
<1>6. ASSUME NEW x \in Cached \ {k} PROVE map'[x] = map[x]
  <2>1. DOMAIN w = 1 .. Len(w)
    BY <1>2 DEF Proper
  <2>2. PICK j \in 1 .. Len(w) : x = w[j].key
    BY <1>3, <2>1 DEF Keys
  <2>3. PICK i \in 1 .. Len(order) : w[j] = order[i]
    BY <1>4 DEF OthersOnly
  <2> QED BY <1>5, <2>2, <2>3
<1>7. map' = [x \in DOMAIN map \ {k} |-> map[x]]
  BY <1>5, <1>6
<1>8. Map!Remove(k) <=> map' = [x \in DOMAIN map \ {k} |-> map[x]]
  BY DEF Map!Remove, map, MapOf, Keys, Cached
<1> QED BY <1>7, <1>8

\* Set puts k, and the keys of what is cut off are the victims.
LEMMA SetMaps ==
  ASSUME LRUInv, NEW k \in CacheKeys, NEW d \in Data, Set(k, d),
         MaxBytes > 0, d.size <= MaxBytes
  PROVE  Map!Put(k, d)
<1> PICK w : w = Without(k)
  OBVIOUS
<1> PICK e : e = [key |-> k, data |-> d]
  OBVIOUS
<1> PICK es : es = <<e>> \o w
  OBVIOUS
<1>1. Proper(es, recency', newest') /\ KeepsMost(order', es)
  BY SetKept
<1>2. Proper(order, recency, newest) /\ e \in Entry /\ e.key = k /\ e.data = d
  BY DEF LRUInv, Entry
<1>3. w \in Seq(Entry)
  BY <1>2, WithoutIs
<1>4. /\ es \in Seq(Entry) /\ Len(es) = Len(w) + 1 /\ es[1] = e
      /\ \A j \in 1 .. Len(w) : es[j + 1] = w[j]
  BY <1>2, <1>3, Pushed
<1>5. Keys(w) = Cached \ {k} /\ Keys(es) = Cached \cup {k}
  BY <1>2, KeysFront
<1>6. OthersOnly(w, k)
  BY <1>2, OthersStay
<1>7. PICK n \in 1 .. Len(es) :
        /\ order' = SubSeq(es, 1, n) /\ Total(order') <= MaxBytes
        /\ n < Len(es) => Total(order') + es[n + 1].data.size > MaxBytes
  BY <1>1 DEF KeepsMost
<1>8. Len(es) \in Nat /\ Len(w) \in Nat /\ n \in 0 .. Len(es) /\ DOMAIN es = 1 .. Len(es)
  BY <1>3, <1>4
<1>9. /\ order' \in Seq(Entry) /\ Len(order') = n
      /\ \A i \in 1 .. n : order'[i] = es[i]
  BY <1>4, <1>7, <1>8, TotalPrefix
<1>10. Proper(order', recency', newest') /\ DOMAIN order' = 1 .. n
  <2>1. PICK kept, r, nw : kept = order' /\ r = recency' /\ nw = newest'
    OBVIOUS
  <2>2. Proper(kept, r, nw)
    <3>1. Proper(es, r, nw) /\ kept = SubSeq(es, 1, n)
      BY <1>1, <1>7, <2>1
    <3> QED BY <1>8, <3>1, ProperPrefix
  <2>3. DOMAIN order' = 1 .. n
    BY <1>9
  <2> QED BY <2>1, <2>2, <2>3
<1>11. /\ DOMAIN map = Cached
       /\ \A i \in 1 .. Len(order) : map[order[i].key] = order[i].data
  <2>1. Keys(order) = Cached
    BY DEF Keys, Cached
  <2> QED BY <1>2, <2>1, MapOfIs DEF map
<1>12. /\ map' = [x \in Keys(order') |-> map'[x]] /\ DOMAIN map' = Keys(order')
       /\ \A i \in 1 .. n : map'[order'[i].key] = order'[i].data
       /\ Map!Weight(map') = Total(order')
  <2>1. map' = MapOf(order')
    BY DEF map
  <2> PICK kept : kept = order'
    OBVIOUS
  <2>2. /\ DOMAIN MapOf(kept) = Keys(kept)
        /\ MapOf(kept) = [x \in Keys(kept) |-> MapOf(kept)[x]]
        /\ \A i \in 1 .. Len(kept) : MapOf(kept)[kept[i].key] = kept[i].data
        /\ Map!Weight(MapOf(kept)) = Total(kept)
    BY <1>10, MapOfIs
  <2> QED BY <1>9, <2>1, <2>2
<1> DEFINE victims == Keys(es) \ Keys(order')
<1>13. k \in Keys(order') /\ Keys(order') \subseteq Keys(es) /\ 1 \in 1 .. n
  <2>1. 1 \in 1 .. n /\ \A i \in 1 .. n : i \in 1 .. Len(es)
    BY <1>8
  <2>2. k \in Keys(order')
    <3>1. order'[1].key = k /\ 1 \in DOMAIN order'
      <4>1. order'[1] = es[1]
        BY <1>9, <2>1
      <4> QED BY <1>2, <1>4, <1>10, <2>1, <4>1
    <3> QED BY <3>1 DEF Keys
  <2>3. ASSUME NEW i \in 1 .. n PROVE order'[i].key \in Keys(es)
    <3>1. order'[i] = es[i] /\ i \in DOMAIN es
      BY <1>8, <1>9, <2>1
    <3> QED BY <3>1 DEF Keys
  <2>4. Keys(order') \subseteq Keys(es)
    BY <1>10, <2>3 DEF Keys
  <2> QED BY <2>1, <2>2, <2>4
<1>14. victims \in SUBSET (DOMAIN map \ {k})
  BY <1>5, <1>11, <1>13
<1>15. ASSUME NEW j \in 1 .. Len(w) PROVE map[w[j].key] = w[j].data /\ w[j].key # k
  <2>1. PICK i \in 1 .. Len(order) : w[j] = order[i] /\ w[j].key # k
    BY <1>6 DEF OthersOnly
  <2> QED BY <1>11, <2>1
<1>16. ASSUME NEW x \in Keys(order') PROVE map'[x] = IF x = k THEN d ELSE map[x]
  <2>1. PICK i \in 1 .. n : x = order'[i].key
    BY <1>10 DEF Keys
  <2>2. map'[x] = es[i].data /\ x = es[i].key
    BY <1>9, <1>12, <2>1
  <2>3. CASE i = 1
    BY <1>2, <1>4, <2>2, <2>3
  <2>4. CASE i # 1
    <3>1. i - 1 \in 1 .. Len(w) /\ i = (i - 1) + 1
      BY <1>4, <1>8, <2>4
    <3>2. PICK j \in 1 .. Len(w) : i = j + 1
      BY <3>1
    <3> QED BY <1>4, <1>15, <2>2, <3>2
  <2> QED BY <2>3, <2>4
<1>17. map' = [x \in (DOMAIN map \cup {k}) \ victims |-> IF x = k THEN d ELSE map[x]]
  <2>1. Keys(order') = (DOMAIN map \cup {k}) \ victims
    BY <1>5, <1>11, <1>13
  <2> QED BY <1>12, <1>16, <2>1
<1>18. ASSUME victims # {}
       PROVE  \E v \in victims : Map!Weight(map') + map[v].size > MaxBytes
  <2>1. n < Len(es)
    <3>1. CASE n = Len(es)
      <4>1. ASSUME NEW i \in 1 .. Len(es) PROVE es[i].key \in Keys(order')
        <5>1. order'[i] = es[i] /\ i \in DOMAIN order'
          BY <1>9, <1>10, <3>1
        <5> QED BY <5>1 DEF Keys
      <4>2. \A x \in Keys(es) : \E i \in 1 .. Len(es) : x = es[i].key
        BY <1>8 DEF Keys
      <4>3. Keys(es) \subseteq Keys(order')
        <5> SUFFICES ASSUME NEW x \in Keys(es) PROVE x \in Keys(order')
          OBVIOUS
        <5>1. PICK i \in 1 .. Len(es) : x = es[i].key
          BY <4>2
        <5> QED BY <4>1, <5>1
      <4> QED BY <1>18, <4>3
    <3> QED BY <1>8, <3>1
  <2>2. n \in 1 .. Len(w) /\ n + 1 \in 1 .. Len(es)
    BY <1>4, <1>8, <2>1
  <2> DEFINE v == es[n + 1].key
  <2>3. v \in Keys(es)
    BY <1>8, <2>2 DEF Keys
  <2>4. ASSUME v \in Keys(order') PROVE FALSE
    <3>1. PICK i \in 1 .. n : v = order'[i].key
      BY <1>10, <2>4 DEF Keys
    <3>2. i \in 1 .. Len(es) /\ i # n + 1
      BY <1>8
    <3>3. order'[i] = es[i]
      BY <1>9
    <3>4. es[i].key = es[n + 1].key
      BY <3>1, <3>3
    <3> QED BY <1>1, <2>2, <3>2, <3>4 DEF Proper
  <2>5. map[v] = es[n + 1].data
    BY <1>4, <1>15, <2>2
  <2>6. Map!Weight(map') + map[v].size > MaxBytes
    BY <1>7, <1>12, <2>1, <2>5
  <2> QED BY <2>3, <2>4, <2>6
<1>19. Map!Weight(map') <= MaxBytes
  BY <1>7, <1>12
<1>20. Map!Put(k, d) <=>
         /\ d.size <= MaxBytes
         /\ \E vs \in SUBSET (DOMAIN map \ {k}) :
              /\ map' = [x \in (DOMAIN map \cup {k}) \ vs |-> IF x = k THEN d ELSE map[x]]
              /\ Map!Weight(map') <= MaxBytes
              /\ vs # {} => \E v \in vs : Map!Weight(map') + map[v].size > MaxBytes
  BY DEF Map!Put, map, MapOf, Keys, Cached
<1> HIDE DEF victims
<1> QED BY <1>14, <1>17, <1>18, <1>19, <1>20

LEMMA MapInit == LRUInit => Map!BMInit
<1> SUFFICES ASSUME LRUInit PROVE Map!BMInit
  OBVIOUS
<1>1. order = <<>>
  BY DEF LRUInit
<1>2. Cached = {}
  BY <1>1 DEF Cached
<1> QED BY <1>2 DEF Map!BMInit

LEMMA MapNext == LRUInv /\ [LRUNext]_lruVars => [Map!BMNext]_map
<1> SUFFICES ASSUME LRUInv, [LRUNext]_lruVars PROVE [Map!BMNext]_map
  OBVIOUS
<1>1. ASSUME order' = order PROVE map' = map
  BY <1>1 DEF map, MapOf, Keys
<1>2. ASSUME NEW k \in CacheKeys, Get(k) PROVE map' = map
  BY <1>2, GetMaps
<1>3. ASSUME NEW k \in CacheKeys, Delete(k) PROVE Map!BMNext
  BY <1>3, DeleteMaps DEF Map!BMNext
<1>4. ASSUME NEW k \in CacheKeys, NEW d \in Data, Set(k, d) PROVE Map!BMNext \/ map' = map
  <2>1. CASE MaxBytes <= 0 \/ d.size > MaxBytes
    BY <1>1, <1>4, <2>1 DEF Set
  <2>2. CASE ~ (MaxBytes <= 0 \/ d.size > MaxBytes)
    <3>1. MaxBytes > 0 /\ d.size <= MaxBytes
      BY <2>2, MaxBytesAssumption, DataAssumption
    <3>2. Map!Put(k, d)
      BY <1>4, <3>1, SetMaps
    <3> QED BY <3>2 DEF Map!BMNext
  <2> QED BY <2>1, <2>2
<1>5. CASE UNCHANGED lruVars
  BY <1>1, <1>5 DEF lruVars
<1> QED BY <1>2, <1>3, <1>4, <1>5 DEF LRUNext

\* The memory cache is a bounded map: whatever is put, found, deleted and evicted,
\* its users see a map that holds at most MaxBytes bytes and forgets nothing
\* without need.
THEOREM CacheIsBoundedMap == LRUSpec => IsBoundedMap
<1>1. LRUInv /\ [LRUNext]_lruVars =>
        [Map!BMNext]_([k \in Cached |-> (CHOOSE e \in {order[i] : i \in DOMAIN order} : e.key = k).data])
  BY MapNext DEF map, MapOf, Keys, Cached
<1> QED BY LRUInvariant, MapInit, <1>1, PTL DEF LRUSpec, IsBoundedMap, Map!BMSpec
=============================================================================
