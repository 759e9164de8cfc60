------------------------------ MODULE LookupProofs -----------------------------
(***************************************************************************)
(* Proofs about GeoLookup and IntelLookup, for any addresses, hashes,      *)
(* pages, prefetches, lookups, writers, panels, limits and lifetimes.  Of  *)
(* the first: an address is marked while exactly one prefetch or lookup    *)
(* answers for it, and no location outlives its lookup.  Of the second:    *)
(* overlapping lookups of a hash share a request, a failure takes nothing  *)
(* away, verdicts only advance, and the settings in memory are the saved.  *)
(***************************************************************************)
EXTENDS GeoLookup, IntelLookup, FiniteOrder, SequenceTheorems

(* A prefetch goes over each address it has claimed once. *)
IsPoll(b) ==
  /\ {"at", "todo", "need", "late"} \subseteq DOMAIN b
  /\ b.todo \in Seq(Ip) /\ b.need \in Seq(Ip)
  /\ b.at \in {"idle", "wait"} => b.need = << >> /\ b.todo = << >>
  /\ IsInjective(b.need)
  /\ b.at = "sweep" => IsInjective(b.todo) /\ ToSet(b.need) \cap ToSet(b.todo) = {}
IsRequest(j) == {"ip", "by", "at", "permit"} \subseteq DOMAIN j /\ j.ip \in Ip
LookInv ==
  /\ inflight \subseteq Ip
  /\ DOMAIN poll = Prefetch /\ \A p \in Prefetch : IsPoll(poll[p])
  /\ \A j \in job : IsRequest(j)

(* A marked address has a claimant or a lookup, and never two of them. *)
Lookers == {j \in job : j.at # "save"}
ClaimsOf(b) == IF b.at = "sweep" THEN ToSet(b.need) \cup ToSet(b.todo) ELSE ToSet(b.need)
ClaimsNow == [p \in Prefetch |-> ClaimsOf(poll[p])]
Marked(C, L, F) ==
  /\ \A ip \in Ip : ip \in F <=> (\E p \in Prefetch : ip \in C[p]) \/ (\E j \in L : j.ip = ip)
  /\ \A p, q \in Prefetch : p # q => C[p] \cap C[q] = {}
  /\ \A j, k \in L : j.ip = k.ip => j = k
  /\ \A p \in Prefetch, j \in L : j.ip \notin C[p]
MarkInv == Marked(ClaimsNow, Lookers, inflight)

(* What is in memory is what is in its order of use. *)
IsCache(c) ==
  /\ {"entry", "order"} \subseteq DOMAIN c /\ c.order \in Seq(Ip) /\ DOMAIN c.entry = ToSet(c.order)
(* No row, and none that a panel has read, is younger than its lookup.     *)
Ages ==
  /\ hour \in Nat /\ DOMAIN answered = Ip /\ DOMAIN row = Ip /\ DOMAIN view = Viewer
  /\ \A ip \in Ip : /\ answered[ip] \in Int /\ answered[ip] <= hour
                    /\ row[ip] \in Int /\ row[ip] <= answered[ip]
  /\ \A v \in Viewer :
       /\ {"at", "ip", "row"} \subseteq DOMAIN view[v]
       /\ view[v].at \in {"row", "read"} => view[v].ip \in Ip
       /\ view[v].at = "read" => view[v].row \in Int /\ view[v].row <= answered[view[v].ip]
Locations ==
  \A ip \in DOMAIN cache.entry :
    cache.entry[ip].ok => cache.entry[ip].expiry \in Int /\ cache.entry[ip].expiry <= answered[ip] + RowFor
AgeInv == Ages /\ IsCache(cache) /\ Locations

GeoInv == LookInv /\ MarkInv /\ AgeInv

-----------------------------------------------------------------------------
(* Operators *)

LEMMA Lifetimes ==
  /\ {CacheMax, SweepMax, Permits, PerCall} \subseteq Nat \ {0} /\ Page \subseteq Seq(Ip) /\ Covered \subseteq Ip
  /\ {MissFor, RefusedFor, PauseFor, FreshFor, RowFor} \subseteq Nat /\ FreshFor < RowFor
BY GeoAssumption

LEMMA ElementsOf ==
  ASSUME NEW S, NEW s \in Seq(S)
  PROVE  ToSet(s) = {s[i] : i \in 1 .. Len(s)} /\ ToSet(s) \subseteq S
BY DEF ToSet

LEMMA EmptyElements == ToSet(<< >>) = {} /\ IsInjective(<< >>)
BY DEF ToSet, IsInjective

LEMMA HeadAndTail ==
  ASSUME NEW S, NEW s \in Seq(S), s # << >>
  PROVE  /\ Head(s) \in S /\ Tail(s) \in Seq(S) /\ ToSet(s) = {Head(s)} \cup ToSet(Tail(s))
         /\ IsInjective(s) => Head(s) \notin ToSet(Tail(s)) /\ IsInjective(Tail(s))
<1>1. /\ Len(s) \in Nat \ {0} /\ Head(s) = s[1] /\ Head(s) \in S /\ Tail(s) \in Seq(S)
      /\ Len(Tail(s)) = Len(s) - 1 /\ \A i \in 1 .. Len(Tail(s)) : Tail(s)[i] = s[i + 1]
  BY HeadTailProperties
<1>2. PICK t, n : t = Tail(s) /\ n = Len(s)
  OBVIOUS
<1>3. /\ t \in Seq(S) /\ n \in Nat \ {0} /\ Len(t) = n - 1 /\ \A i \in 1 .. n - 1 : t[i] = s[i + 1]
  BY <1>1, <1>2
<1>4. DOMAIN s = 1 .. n /\ DOMAIN t = 1 .. n - 1
  BY <1>2, <1>3
<1>5. ToSet(s) = {s[1]} \cup ToSet(t)
  <2>1. ASSUME NEW x \in ToSet(s) PROVE x \in {s[1]} \cup ToSet(t)
    <3>1. PICK i \in 1 .. n : x = s[i]
      BY <1>4 DEF ToSet
    <3>2. CASE i # 1
      <4>1. i - 1 \in 1 .. n - 1 /\ x = t[i - 1]
        BY <1>3, <3>1, <3>2
      <4> QED
        BY <1>4, <4>1 DEF ToSet
    <3> QED
      BY <3>1, <3>2
  <2>2. ASSUME NEW x \in ToSet(t) PROVE x \in ToSet(s)
    <3>1. PICK i \in 1 .. n - 1 : x = t[i]
      BY <1>4, <2>2 DEF ToSet
    <3>2. i + 1 \in 1 .. n /\ x = s[i + 1]
      BY <1>3, <3>1
    <3> QED
      BY <1>4, <3>2 DEF ToSet
  <2>3. s[1] \in ToSet(s)
    BY <1>3, <1>4 DEF ToSet
  <2> QED
    BY <2>1, <2>2, <2>3
<1>6. ASSUME IsInjective(s) PROVE s[1] \notin ToSet(t) /\ IsInjective(t)
  <2>1. \A i, k \in 1 .. n : s[i] = s[k] => i = k
    BY <1>4, <1>6 DEF IsInjective
  <2>2. \A i \in 1 .. n - 1 : t[i] = s[i + 1] /\ i + 1 \in 1 .. n /\ i + 1 # 1 /\ 1 \in 1 .. n
    BY <1>3
  <2>3. s[1] \notin ToSet(t)
    BY <1>4, <2>1, <2>2 DEF ToSet
  <2>4. \A i, k \in 1 .. n - 1 : t[i] = t[k] => i = k
    <3>1. ASSUME NEW i \in 1 .. n - 1, NEW k \in 1 .. n - 1, t[i] = t[k] PROVE i = k
      <4>1. i + 1 = k + 1
        BY <2>1, <2>2, <3>1
      <4> QED
        BY <4>1
    <3> QED
      BY <3>1
  <2> QED
    BY <1>4, <2>3, <2>4 DEF IsInjective
<1> QED
  BY <1>1, <1>2, <1>5, <1>6

LEMMA Appending ==
  ASSUME NEW S, NEW s \in Seq(S), NEW x \in S
  PROVE  /\ Append(s, x) \in Seq(S) /\ ToSet(Append(s, x)) = ToSet(s) \cup {x}
         /\ IsInjective(s) /\ x \notin ToSet(s) => IsInjective(Append(s, x))
<1>1. PICK t, n : t = Append(s, x) /\ n = Len(s)
  OBVIOUS
<1>2. /\ t \in Seq(S) /\ n \in Nat /\ DOMAIN s = 1 .. n /\ DOMAIN t = 1 .. n + 1
      /\ t[n + 1] = x /\ \A i \in 1 .. n : t[i] = s[i]
  BY <1>1, AppendProperties
<1>3. \A i \in 1 .. n + 1 : i = n + 1 \/ i \in 1 .. n
  BY <1>2
<1>4. \A i \in 1 .. n : i \in 1 .. n + 1
  BY <1>2
<1>5. n + 1 \in 1 .. n + 1
  BY <1>2
<1>6. ToSet(t) = ToSet(s) \cup {x}
  BY <1>2, <1>3, <1>4, <1>5 DEF ToSet
<1>7. IsInjective(s) /\ x \notin ToSet(s) => IsInjective(t)
  BY <1>2, <1>3 DEF ToSet, IsInjective
<1> QED
  BY <1>1, <1>2, <1>6, <1>7

(* What is left of a sequence without repetitions behind its first k.      *)
LEMMA Splitting ==
  ASSUME NEW S, NEW s \in Seq(S), IsInjective(s), NEW k \in 0 .. Len(s)
  PROVE  /\ \A i \in 1 .. k : s[i] \in S
         /\ ToSet(s) = {s[i] : i \in 1 .. k} \cup ToSet(SubSeq(s, k + 1, Len(s)))
         /\ {s[i] : i \in 1 .. k} \cap ToSet(SubSeq(s, k + 1, Len(s))) = {}
<1>1. PICK t, n : t = SubSeq(s, k + 1, Len(s)) /\ n = Len(s)
  OBVIOUS
<1>2. n \in Nat /\ k \in Nat /\ k <= n /\ DOMAIN s = 1 .. n
  BY <1>1
<1>3. t = [i \in 1 .. n - k |-> s[i + k]]
  <2>1. n - k = (IF k + 1 <= n THEN n - (k + 1) + 1 ELSE 0)
    BY <1>2
  <2>2. t = [i \in 1 .. n - k |-> s[k + 1 + i - 1]]
    BY <1>1, <1>2, SubSeqProperties
  <2>3. \A i \in 1 .. n - k : k + 1 + i - 1 = i + k
    BY <1>2
  <2> QED
    BY <2>2, <2>3
<1>4. DOMAIN t = 1 .. n - k /\ \A i \in 1 .. n - k : t[i] = s[i + k] /\ i + k \in k + 1 .. n
  BY <1>2, <1>3
<1>5. \A i \in k + 1 .. n : i - k \in 1 .. n - k /\ t[i - k] = s[i]
  <2>1. \A i \in k + 1 .. n : i - k \in 1 .. n - k /\ (i - k) + k = i
    BY <1>2
  <2> QED
    BY <1>4, <2>1
<1>6. ToSet(t) = {s[i] : i \in k + 1 .. n}
  <2>1. \A i \in 1 .. n - k : \E l \in k + 1 .. n : t[i] = s[l]
    BY <1>4
  <2>2. \A l \in k + 1 .. n : \E i \in 1 .. n - k : t[i] = s[l]
    BY <1>5
  <2>3. \A x : x \in ToSet(t) <=> \E i \in 1 .. n - k : x = t[i]
    BY <1>4 DEF ToSet
  <2>4. \A x : x \in {s[i] : i \in k + 1 .. n} <=> \E i \in k + 1 .. n : x = s[i]
    OBVIOUS
  <2>5. ASSUME NEW x \in ToSet(t) PROVE x \in {s[i] : i \in k + 1 .. n}
    BY <2>1, <2>3, <2>4
  <2>6. ASSUME NEW x \in {s[i] : i \in k + 1 .. n} PROVE x \in ToSet(t)
    BY <2>2, <2>3, <2>4
  <2> QED
    BY <2>5, <2>6
<1>7. \A i \in 1 .. n : i \in 1 .. k \/ i \in k + 1 .. n
  BY <1>2
<1>8. \A i \in 1 .. k, l \in k + 1 .. n : i \in 1 .. n /\ l \in 1 .. n /\ i # l
  BY <1>2
<1>9. \A i \in 1 .. k : i \in 1 .. n
  BY <1>2
<1>10. \A i \in k + 1 .. n : i \in 1 .. n
  BY <1>2
<1>11. ToSet(s) = {s[i] : i \in 1 .. k} \cup ToSet(t)
  BY <1>2, <1>6, <1>7, <1>9, <1>10 DEF ToSet
<1>12. {s[i] : i \in 1 .. k} \cap ToSet(t) = {}
  BY <1>2, <1>6, <1>8 DEF IsInjective
<1> QED
  BY <1>1, <1>2, <1>9, <1>11, <1>12

-----------------------------------------------------------------------------
(* The cache *)

(* A shorter cache knows nothing new. *)
LEMMA ShortenedCache ==
  ASSUME NEW c, IsCache(c), NEW n \in 0 .. Len(c.order)
  PROVE  /\ IsCache(Shortened(c, n))
         /\ \A ip \in DOMAIN Shortened(c, n).entry : /\ ip \in DOMAIN c.entry
                                                     /\ Shortened(c, n).entry[ip] = c.entry[ip]
<1>1. PICK kept : kept = SubSeq(c.order, 1, n)
  OBVIOUS
<1>2. PICK d : d = Shortened(c, n)
  OBVIOUS
<1>3. d = [entry |-> [ip \in ToSet(kept) |-> c.entry[ip]], order |-> kept]
  BY <1>1, <1>2 DEF Shortened, Restrict
<1>4. c.order \in Seq(Ip) /\ n \in Nat /\ n <= Len(c.order) /\ Len(c.order) \in Nat
  BY DEF IsCache
<1>5. kept \in Seq(Ip) /\ \A i \in DOMAIN kept : i \in DOMAIN c.order /\ kept[i] = c.order[i]
  <2>1. kept = [i \in 1 .. n |-> c.order[i]]
    BY <1>1, <1>4
  <2>2. \A i \in 1 .. n : i \in 1 .. Len(c.order)
    BY <1>4
  <2>3. DOMAIN c.order = 1 .. Len(c.order) /\ \A i \in 1 .. Len(c.order) : c.order[i] \in Ip
    BY <1>4
  <2> QED
    BY <1>4, <2>1, <2>2, <2>3
<1>6. ToSet(kept) \subseteq ToSet(c.order)
  BY <1>5 DEF ToSet
<1>7. d.order = kept /\ DOMAIN d.entry = ToSet(kept) /\ {"entry", "order"} \subseteq DOMAIN d
      /\ \A ip \in ToSet(kept) : d.entry[ip] = c.entry[ip]
  BY <1>3
<1> QED
  BY <1>2, <1>5, <1>6, <1>7 DEF IsCache

LEMMA TouchedCache ==
  ASSUME NEW c, IsCache(c), NEW ip \in Ip, ip \in DOMAIN c.entry
  PROVE  IsCache(Touched(c, ip)) /\ Touched(c, ip).entry = c.entry
<1>1. PICK s, n : s = c.order /\ n = Len(s)
  OBVIOUS
<1>2. s \in Seq(Ip) /\ n \in Nat /\ DOMAIN s = 1 .. n /\ \A i \in 1 .. n : s[i] \in Ip
  BY <1>1 DEF IsCache
<1>3. PICK k : k = CHOOSE i \in DOMAIN s : s[i] = ip
  OBVIOUS
<1>4. k \in 1 .. n /\ s[k] = ip
  <2>1. \E i \in DOMAIN s : s[i] = ip
    BY <1>1 DEF IsCache, ToSet
  <2> QED
    BY <1>2, <1>3, <2>1
<1>5. PICK r : r = <<ip>> \o RemoveAt(s, k)
  OBVIOUS
<1>6. r \in Seq(Ip) /\ Len(r) = n /\ r[1] = ip
      /\ \A i \in 2 .. n : r[i] = IF i <= k THEN s[i - 1] ELSE s[i]
  <2>1. PICK a, b : a = SubSeq(s, 1, k - 1) /\ b = SubSeq(s, k + 1, n)
    OBVIOUS
  <2>2. a = [i \in 1 .. k - 1 |-> s[i]] /\ a \in Seq(Ip) /\ Len(a) = k - 1
    BY <1>2, <1>4, <2>1
  <2>3. b \in Seq(Ip) /\ Len(b) = n - k /\ \A i \in 1 .. n - k : b[i] = s[k + i]
    <3>1. Len(b) = (IF k + 1 <= n THEN n - (k + 1) + 1 ELSE 0)
      BY <1>2, <1>4, <2>1, SubSeqProperties
    <3>2. b \in Seq(Ip)
      BY <1>2, <1>4, <2>1, SubSeqProperties
    <3>3. \A i \in 1 .. n - (k + 1) + 1 : b[i] = s[k + 1 + i - 1]
      BY <1>2, <1>4, <2>1, SubSeqProperties
    <3>4. k \in Nat /\ k >= 1 /\ k <= n
      BY <1>2, <1>4
    <3>5. n - (k + 1) + 1 = n - k /\ Len(b) = n - k
      BY <1>2, <3>1, <3>4
    <3>6. \A i \in 1 .. n - k : k + 1 + i - 1 = k + i
      BY <1>2, <3>4
    <3> QED
      BY <3>2, <3>3, <3>5, <3>6
  <2>4. r = <<ip>> \o (a \o b)
    BY <1>1, <1>5, <2>1 DEF RemoveAt
  <2>5. PICK t : t = a \o b
    OBVIOUS
  <2>6. t \in Seq(Ip) /\ Len(t) = n - 1
        /\ \A i \in 1 .. n - 1 : t[i] = IF i <= k - 1 THEN a[i] ELSE b[i - (k - 1)]
    <3>1. k \in Nat /\ k >= 1 /\ k <= n /\ (k - 1) + (n - k) = n - 1
      BY <1>2, <1>4
    <3> QED
      BY <1>2, <2>2, <2>3, <2>5, <3>1
  <2>7. r = <<ip>> \o t /\ <<ip>> \in Seq(Ip) /\ Len(<<ip>>) = 1 /\ <<ip>>[1] = ip
    BY <2>4, <2>5
  <2>8. r \in Seq(Ip) /\ Len(r) = 1 + (n - 1)
        /\ \A i \in 1 .. 1 + (n - 1) : r[i] = IF i <= 1 THEN <<ip>>[i] ELSE t[i - 1]
    BY <2>6, <2>7, ConcatProperties
  <2>9. k \in Nat /\ k >= 1 /\ k <= n /\ 1 + (n - 1) = n
    BY <1>2, <1>4
  <2>10. Len(r) = n /\ r[1] = ip
    BY <2>7, <2>8, <2>9
  <2>11. ASSUME NEW i \in 2 .. n PROVE r[i] = IF i <= k THEN s[i - 1] ELSE s[i]
    <3>1. r[i] = t[i - 1] /\ i - 1 \in 1 .. n - 1
      BY <1>2, <2>8, <2>9
    <3>2. CASE i <= k
      <4>1. i - 1 <= k - 1 /\ i - 1 \in 1 .. k - 1
        BY <2>9, <3>2
      <4> QED
        BY <2>2, <2>6, <3>1, <3>2, <4>1
    <3>3. CASE ~(i <= k)
      <4>1. ~(i - 1 <= k - 1) /\ i - 1 - (k - 1) \in 1 .. n - k /\ k + (i - 1 - (k - 1)) = i
        BY <1>2, <2>9, <3>3
      <4> QED
        BY <2>3, <2>6, <3>1, <3>3, <4>1
    <3> QED
      BY <3>2, <3>3
  <2> QED
    BY <2>8, <2>10, <2>11
<1>7. ToSet(r) = ToSet(s)
  <2>1. DOMAIN r = 1 .. n /\ k \in Nat /\ k >= 1 /\ k <= n
    BY <1>2, <1>4, <1>6
  <2>2. ASSUME NEW i \in 1 .. n PROVE \E l \in 1 .. n : r[i] = s[l]
    <3>1. CASE i = 1
      BY <1>4, <1>6, <3>1
    <3>2. CASE i # 1
      <4>1. i \in 2 .. n /\ i - 1 \in 1 .. n
        BY <1>2, <3>2
      <4> QED
        BY <1>6, <4>1
    <3> QED
      BY <3>1, <3>2
  <2>3. ASSUME NEW l \in 1 .. n PROVE \E i \in 1 .. n : r[i] = s[l]
    <3>1. CASE l = k
      BY <1>4, <1>6, <2>1, <3>1
    <3>2. CASE l < k
      <4>1. l + 1 \in 2 .. n /\ l + 1 \in 1 .. n /\ l + 1 <= k /\ (l + 1) - 1 = l
        BY <1>2, <2>1, <3>2
      <4>2. r[l + 1] = s[l]
        BY <1>6, <4>1
      <4> QED
        BY <4>1, <4>2
    <3>3. CASE l > k
      <4>1. l \in 2 .. n /\ ~(l <= k)
        BY <1>2, <2>1, <3>3
      <4> QED
        BY <1>6, <4>1
    <3> QED
      BY <2>1, <3>1, <3>2, <3>3
  <2>4. \A x : x \in ToSet(r) <=> \E i \in 1 .. n : x = r[i]
    BY <2>1 DEF ToSet
  <2>5. \A x : x \in ToSet(s) <=> \E i \in 1 .. n : x = s[i]
    BY <1>2 DEF ToSet
  <2>6. ASSUME NEW x \in ToSet(r) PROVE x \in ToSet(s)
    BY <2>2, <2>4, <2>5
  <2>7. ASSUME NEW x \in ToSet(s) PROVE x \in ToSet(r)
    BY <2>3, <2>4, <2>5
  <2> QED
    BY <2>6, <2>7
<1>8. Touched(c, ip) = [c EXCEPT !.order = r]
  BY <1>1, <1>3, <1>5 DEF Touched
<1>9. /\ {"entry", "order"} \subseteq DOMAIN Touched(c, ip) /\ Touched(c, ip).order = r
      /\ Touched(c, ip).entry = c.entry
  BY <1>8 DEF IsCache
<1> QED
  BY <1>1, <1>6, <1>7, <1>9 DEF IsCache

LEMMA SweptCache ==
  ASSUME NEW c, IsCache(c)
  PROVE  /\ IsCache(Swept(c))
         /\ \A ip \in DOMAIN Swept(c).entry : ip \in DOMAIN c.entry /\ Swept(c).entry[ip] = c.entry[ip]
<1>1. PICK total : total = Len(c.order)
  OBVIOUS
<1>2. PICK cuts : cuts = {n \in 0 .. total : /\ \A i \in n + 1 .. total : ~Fresh(c, c.order[i])
                                             /\ total - n <= SweepMax}
  OBVIOUS
<1>3. total \in Nat /\ SweepMax \in Nat
  BY <1>1, Lifetimes DEF IsCache
<1>4. cuts \in SUBSET Nat /\ total \in cuts
  BY <1>2, <1>3
<1>5. Min(cuts) \in cuts
  BY <1>4, NatMin
<1>6. Min(cuts) \in 0 .. Len(c.order)
  BY <1>1, <1>2, <1>5
<1>7. Swept(c) = Shortened(c, Min(cuts))
  BY <1>1, <1>2 DEF Swept
<1> QED
  BY <1>6, <1>7, ShortenedCache

(* An entry of the new cache is the one put there or was there before.     *)
LEMMA PutCache ==
  ASSUME NEW c, IsCache(c), NEW ip \in Ip, NEW e
  PROVE  /\ IsCache(Put(c, ip, e))
         /\ \A x \in DOMAIN Put(c, ip, e).entry :
              IF x = ip THEN Put(c, ip, e).entry[x] = e
              ELSE x \in DOMAIN c.entry /\ Put(c, ip, e).entry[x] = c.entry[x]
<1> DEFINE entry == [x \in DOMAIN c.entry \cup {ip} |-> IF x = ip THEN e ELSE c.entry[x]]
<1>1. CASE ip \in DOMAIN c.entry
  <2>1. PICK d : d = [c EXCEPT !.entry = entry]
    OBVIOUS
  <2>2. /\ {"entry", "order"} \subseteq DOMAIN d /\ d.order = c.order /\ d.entry = entry
    BY <2>1 DEF IsCache
  <2>3. /\ DOMAIN d.entry = DOMAIN c.entry
        /\ \A x \in DOMAIN c.entry : d.entry[x] = IF x = ip THEN e ELSE c.entry[x]
    BY <1>1, <2>2
  <2>4. IsCache(d) /\ ip \in DOMAIN d.entry
    BY <1>1, <2>2, <2>3 DEF IsCache
  <2>5. Put(c, ip, e) = Touched(d, ip)
    BY <1>1, <2>1 DEF Put
  <2> QED
    BY <2>3, <2>4, <2>5, TouchedCache
<1>2. CASE ip \notin DOMAIN c.entry
  <2>1. PICK d : d = [entry |-> entry, order |-> <<ip>> \o c.order]
    OBVIOUS
  <2>2. /\ {"entry", "order"} \subseteq DOMAIN d /\ d.entry = entry /\ d.order = <<ip>> \o c.order
    BY <2>1
  <2>3. DOMAIN d.entry = {ip} \cup DOMAIN c.entry
        /\ \A x \in DOMAIN d.entry : d.entry[x] = IF x = ip THEN e ELSE c.entry[x]
    BY <2>2
  <2>4. c.order \in Seq(Ip) /\ <<ip>> \in Seq(Ip) /\ Len(<<ip>>) = 1 /\ <<ip>>[1] = ip
    BY DEF IsCache
  <2>5. d.order \in Seq(Ip) /\ Len(d.order) = 1 + Len(c.order) /\ ToSet(d.order) = {ip} \cup ToSet(c.order)
    <3>1. PICK r, n : r = d.order /\ n = Len(c.order)
      OBVIOUS
    <3>2. r \in Seq(Ip) /\ Len(r) = 1 + n /\ n \in Nat
          /\ \A i \in 1 .. 1 + n : r[i] = IF i <= 1 THEN <<ip>>[i] ELSE c.order[i - 1]
      BY <2>2, <2>4, <3>1, ConcatProperties
    <3>3. DOMAIN r = 1 .. 1 + n /\ DOMAIN c.order = 1 .. n
      BY <2>4, <3>1, <3>2
    <3>4. r[1] = ip /\ 1 \in 1 .. 1 + n
      BY <2>4, <3>2
    <3>5. \A i \in 1 .. 1 + n : r[i] = ip \/ \E l \in 1 .. n : r[i] = c.order[l]
      <4>1. ASSUME NEW i \in 1 .. 1 + n, i # 1 PROVE i - 1 \in 1 .. n /\ ~(i <= 1)
        BY <3>2, <4>1
      <4> QED
        BY <3>2, <3>4, <4>1
    <3>6. \A l \in 1 .. n : l + 1 \in 1 .. 1 + n /\ r[l + 1] = c.order[l]
      <4>1. ASSUME NEW l \in 1 .. n PROVE l + 1 \in 1 .. 1 + n /\ ~(l + 1 <= 1) /\ (l + 1) - 1 = l
        BY <3>2
      <4> QED
        BY <3>2, <4>1
    <3>7. ToSet(r) = {ip} \cup ToSet(c.order)
      BY <3>3, <3>4, <3>5, <3>6 DEF ToSet
    <3> QED
      BY <3>1, <3>2, <3>7
  <2>6. IsCache(d)
    BY <2>2, <2>3, <2>5 DEF IsCache
  <2>7. PICK n : n = Min({CacheMax, Len(c.order) + 1})
    OBVIOUS
  <2>8. n \in 0 .. Len(d.order)
    <3>1. /\ CacheMax \in Nat /\ Len(c.order) \in Nat /\ Len(d.order) = Len(c.order) + 1
          /\ CacheMax \in Int /\ Len(c.order) + 1 \in Int
      BY <2>4, <2>5, Lifetimes
    <3>2. n \in {CacheMax, Len(c.order) + 1} /\ n <= Len(c.order) + 1
      BY <2>7, <3>1, LeastOfTwo
    <3> QED
      BY <3>1, <3>2
  <2>9. PICK k : k = Shortened(d, n)
    OBVIOUS
  <2>10. IsCache(k) /\ \A x \in DOMAIN k.entry : x \in DOMAIN d.entry /\ k.entry[x] = d.entry[x]
    BY <2>6, <2>8, <2>9, ShortenedCache
  <2>11. Put(c, ip, e) = Swept(k)
    BY <1>2, <2>1, <2>7, <2>9 DEF Put
  <2>12. IsCache(Swept(k)) /\ \A x \in DOMAIN Swept(k).entry : x \in DOMAIN k.entry /\ Swept(k).entry[x] = k.entry[x]
    BY <2>10, SweptCache
  <2> QED
    BY <2>3, <2>10, <2>11, <2>12
<1> QED
  BY <1>1, <1>2

-----------------------------------------------------------------------------
(* What is known of an address, and since when *)

LEMMA AgesSame ==
  ASSUME AgeInv, UNCHANGED <<hour, answered, row, view, cache>>
  PROVE  AgeInv'
BY DEF AgeInv, Ages, IsCache, Locations

(* An answer now: nothing else is younger than it was. *)
LEMMA AnsweredNow ==
  ASSUME Ages, NEW ip \in Ip, Answers(ip), hour' = hour, view' = view,
         row' = row \/ row' = [row EXCEPT ![ip] = hour]
  PROVE  /\ Ages' /\ answered'[ip] = hour
         /\ \A x \in Ip : answered'[x] \in Int /\ answered'[x] >= answered[x]
<1>1. answered' = [answered EXCEPT ![ip] = hour]
  BY DEF Answers
<1>2. DOMAIN answered' = Ip /\ answered'[ip] = hour /\ \A x \in Ip : x # ip => answered'[x] = answered[x]
  BY <1>1 DEF Ages
<1>3. \A x \in Ip : answered'[x] \in Int /\ answered'[x] <= hour /\ answered'[x] >= answered[x]
  BY <1>2 DEF Ages
<1>4. DOMAIN row' = Ip /\ \A x \in Ip : row'[x] \in Int /\ row'[x] <= answered'[x]
  <2>1. CASE row' = row
    BY <1>3, <2>1 DEF Ages
  <2>2. CASE row' = [row EXCEPT ![ip] = hour]
    <3>1. DOMAIN row' = Ip /\ row'[ip] = hour /\ \A x \in Ip : x # ip => row'[x] = row[x]
      BY <2>2 DEF Ages
    <3> QED
      BY <1>2, <1>3, <3>1 DEF Ages
  <2> QED
    BY <2>1, <2>2
<1>5. ASSUME NEW v \in Viewer, view[v].at = "read"
      PROVE  view[v].row \in Int /\ view[v].row <= answered'[view[v].ip]
  <2>1. view[v].ip \in Ip /\ view[v].row \in Int /\ view[v].row <= answered[view[v].ip]
        /\ answered[view[v].ip] \in Int
    BY <1>5 DEF Ages
  <2> QED
    BY <1>3, <2>1
<1>6. Ages'
  BY <1>2, <1>3, <1>4, <1>5 DEF Ages
<1> QED
  BY <1>2, <1>3, <1>6

(* Every entry of the new cache is the one put there or an old one.         *)
LEMMA PutKeeps ==
  ASSUME AgeInv, NEW ip \in Ip, NEW e, cache' = Put(cache, ip, e), Ages',
         \A x \in Ip : answered'[x] \in Int /\ answered'[x] >= answered[x],
         e.ok => e.expiry \in Int /\ e.expiry <= answered'[ip] + RowFor
  PROVE  AgeInv'
<1>1. PICK c : c = Put(cache, ip, e)
  OBVIOUS
<1>2. IsCache(c) /\ \A x \in DOMAIN c.entry :
        IF x = ip THEN c.entry[x] = e ELSE x \in DOMAIN cache.entry /\ c.entry[x] = cache.entry[x]
  BY <1>1, PutCache DEF AgeInv
<1>3. \A x \in DOMAIN c.entry : x \in Ip
  BY <1>2, ElementsOf DEF IsCache
<1>4. RowFor \in Nat /\ \A x \in Ip : answered[x] \in Int
  BY Lifetimes DEF AgeInv, Ages
<1>5. ASSUME NEW x \in DOMAIN c.entry, c.entry[x].ok
      PROVE  c.entry[x].expiry \in Int /\ c.entry[x].expiry <= answered'[x] + RowFor
  <2>1. CASE x = ip
    BY <1>2, <1>5, <2>1
  <2>2. CASE x # ip
    <3>1. c.entry[x] = cache.entry[x] /\ x \in DOMAIN cache.entry
      BY <1>2, <2>2
    <3>2. c.entry[x].expiry \in Int /\ c.entry[x].expiry <= answered[x] + RowFor
      BY <1>5, <3>1 DEF AgeInv, Locations
    <3>3. answered[x] \in Int /\ answered'[x] \in Int /\ answered'[x] >= answered[x]
      BY <1>3, <1>4
    <3> QED
      BY <1>4, <3>2, <3>3
  <2> QED
    BY <2>1, <2>2
<1>6. cache' = c
  BY <1>1
<1>7. IsCache(cache)'
  BY <1>2, <1>6 DEF IsCache
<1>8. Locations'
  BY <1>5, <1>6 DEF Locations
<1> QED
  BY <1>7, <1>8 DEF AgeInv

LEMMA PutLocated ==
  ASSUME AgeInv, NEW ip \in Ip, cache' = Put(cache, ip, Located(hour + FreshFor)), Answers(ip),
         UNCHANGED <<hour, row, view>>
  PROVE  AgeInv'
<1>1. Ages' /\ answered'[ip] = hour /\ \A x \in Ip : answered'[x] \in Int /\ answered'[x] >= answered[x]
  BY AnsweredNow DEF AgeInv
<1>2. hour \in Nat /\ FreshFor \in Nat /\ RowFor \in Nat /\ FreshFor < RowFor
  BY Lifetimes DEF AgeInv, Ages
<1>3. PICK e : e = Located(hour + FreshFor)
  OBVIOUS
<1>4. e.expiry = hour + FreshFor
  BY <1>3 DEF Located
<1>5. e.expiry \in Int /\ e.expiry <= answered'[ip] + RowFor
  BY <1>1, <1>2, <1>4
<1> QED
  BY <1>1, <1>3, <1>5, PutKeeps

LEMMA PutUnlocated ==
  ASSUME AgeInv, NEW ip \in Ip, NEW t, cache' = Put(cache, ip, Unlocated(t)),
         UNCHANGED <<hour, answered, row>>, Ages'
  PROVE  AgeInv'
<1>1. \A x \in Ip : answered'[x] \in Int /\ answered'[x] >= answered[x]
  BY DEF AgeInv, Ages
<1>2. PICK e : e = Unlocated(t)
  OBVIOUS
<1>3. ~e.ok
  BY <1>2 DEF Unlocated
<1> QED
  BY <1>1, <1>2, <1>3, PutKeeps

LEMMA SaveAges ==
  ASSUME AgeInv, NEW j \in job, j.ip \in Ip, Save(j)
  PROVE  AgeInv'
<1>1. UNCHANGED <<hour, cache, view>>
  BY DEF Save
<1>2. CASE row' = [row EXCEPT ![j.ip] = hour] /\ Answers(j.ip)
  <2>1. Ages' /\ \A x \in Ip : answered'[x] \in Int /\ answered'[x] >= answered[x]
    BY <1>1, <1>2, AnsweredNow DEF AgeInv
  <2>2. IsCache(cache)'
    BY <1>1 DEF AgeInv, IsCache
  <2>3. ASSUME NEW x \in DOMAIN cache.entry, cache.entry[x].ok
        PROVE  cache.entry[x].expiry \in Int /\ cache.entry[x].expiry <= answered'[x] + RowFor
    <3>1. x \in Ip
      BY ElementsOf DEF AgeInv, IsCache
    <3>2. cache.entry[x].expiry \in Int /\ cache.entry[x].expiry <= answered[x] + RowFor
      BY <2>3 DEF AgeInv, Locations
    <3>3. answered[x] \in Int /\ answered'[x] \in Int /\ answered'[x] >= answered[x] /\ RowFor \in Nat
      BY <2>1, <3>1, Lifetimes DEF AgeInv, Ages
    <3> QED
      BY <3>2, <3>3
  <2>4. Locations'
    BY <1>1, <2>3 DEF Locations
  <2> QED
    BY <2>1, <2>2, <2>4 DEF AgeInv
<1>3. CASE UNCHANGED <<row, answered>>
  BY <1>1, <1>3, AgesSame
<1> QED
  BY <1>2, <1>3 DEF Save

LEMMA LookAges ==
  ASSUME AgeInv, NEW v \in Viewer, Look(v)
  PROVE  AgeInv'
<1>1. UNCHANGED <<hour, row, answered>>
  BY DEF Look
<1>2. PICK ip \in Ip :
        IF Fresh(cache, ip)
        THEN cache' = Touched(cache, ip) /\ UNCHANGED view
        ELSE view' = [view EXCEPT ![v] = [NoView EXCEPT !.at = "row", !.ip = ip]] /\ UNCHANGED cache
  BY DEF Look
<1>3. CASE Fresh(cache, ip)
  <2>1. PICK c : c = Touched(cache, ip)
    OBVIOUS
  <2>2. IsCache(c) /\ c.entry = cache.entry /\ cache' = c /\ view' = view
    BY <1>2, <1>3, <2>1, TouchedCache DEF Fresh, AgeInv
  <2>3. Ages' /\ Locations'
    BY <1>1, <2>2 DEF AgeInv, Ages, Locations
  <2>4. IsCache(cache)'
    BY <2>2 DEF IsCache
  <2> QED
    BY <2>3, <2>4 DEF AgeInv
<1>4. CASE ~Fresh(cache, ip)
  <2>1. PICK w : w = [NoView EXCEPT !.at = "row", !.ip = ip]
    OBVIOUS
  <2>2. {"at", "ip", "row"} \subseteq DOMAIN w /\ w.at = "row" /\ w.ip = ip
    BY <2>1 DEF NoView
  <2>3. view' = [view EXCEPT ![v] = w] /\ cache' = cache
    BY <1>2, <1>4, <2>1
  <2>4. DOMAIN view' = Viewer /\ view'[v] = w /\ \A u \in Viewer : u # v => view'[u] = view[u]
    BY <2>3 DEF AgeInv, Ages
  <2>5. Ages'
    BY <1>1, <2>2, <2>4 DEF AgeInv, Ages
  <2> QED
    BY <1>1, <2>3, <2>5 DEF AgeInv, IsCache, Locations
<1> QED
  BY <1>3, <1>4

LEMMA ReadRowAges ==
  ASSUME AgeInv, NEW v \in Viewer, ReadRow(v)
  PROVE  AgeInv'
<1>1. UNCHANGED <<hour, row, cache, answered>> /\ view[v].at = "row"
      /\ view' = [view EXCEPT ![v].at = "read", ![v].row = row[view[v].ip]]
  BY DEF ReadRow
<1>2. PICK w : w = [view[v] EXCEPT !.at = "read", !.row = row[view[v].ip]]
  OBVIOUS
<1>3. {"at", "ip", "row"} \subseteq DOMAIN w /\ w.at = "read" /\ w.ip = view[v].ip /\ w.row = row[view[v].ip]
  BY <1>2 DEF AgeInv, Ages
<1>4. view' = [view EXCEPT ![v] = w]
  BY <1>1, <1>2
<1>5. DOMAIN view' = Viewer /\ view'[v] = w /\ \A u \in Viewer : u # v => view'[u] = view[u]
  BY <1>4 DEF AgeInv, Ages
<1>6. view[v].ip \in Ip
  BY <1>1 DEF AgeInv, Ages
<1>7. w.row \in Int /\ w.row <= answered[w.ip]
  BY <1>3, <1>6 DEF AgeInv, Ages
<1>8. Ages'
  BY <1>1, <1>3, <1>5, <1>6, <1>7 DEF AgeInv, Ages
<1> QED
  BY <1>1, <1>8 DEF AgeInv, IsCache, Locations

LEMMA RememberAges ==
  ASSUME AgeInv, NEW v \in Viewer, Remember(v)
  PROVE  AgeInv'
<1>1. UNCHANGED <<hour, row, answered>> /\ view[v].at = "read" /\ view' = [view EXCEPT ![v] = NoView]
  BY DEF Remember
<1>2. PICK ip, at : ip = view[v].ip /\ at = view[v].row
  OBVIOUS
<1>3. ip \in Ip /\ at \in Int /\ at <= answered[ip] /\ answered[ip] \in Int /\ RowFor \in Nat
  BY <1>1, <1>2, Lifetimes DEF AgeInv, Ages
<1>4. {"at", "ip", "row"} \subseteq DOMAIN NoView /\ NoView.at = "idle"
  BY DEF NoView
<1>5. DOMAIN view' = Viewer /\ view'[v] = NoView /\ \A u \in Viewer : u # v => view'[u] = view[u]
  BY <1>1 DEF AgeInv, Ages
<1>6. Ages'
  BY <1>1, <1>4, <1>5 DEF AgeInv, Ages
<1>7. CASE cache' = Put(cache, ip, Located(UntilOld(at)))
  <2>1. PICK e : e = Located(UntilOld(at))
    OBVIOUS
  <2>2. e.expiry = at + RowFor
    BY <2>1 DEF Located, UntilOld
  <2>3. e.expiry \in Int /\ e.expiry <= answered'[ip] + RowFor
    BY <1>1, <1>3, <2>2
  <2>4. \A x \in Ip : answered'[x] \in Int /\ answered'[x] >= answered[x]
    BY <1>1 DEF AgeInv, Ages
  <2> QED
    BY <1>3, <1>6, <1>7, <2>1, <2>3, <2>4, PutKeeps
<1>8. CASE cache' = cache
  BY <1>1, <1>6, <1>8 DEF AgeInv, IsCache, Locations
<1>9. CASE cache' = Put(cache, ip, Unlocated(hour + MissFor))
  BY <1>1, <1>3, <1>6, <1>9, PutUnlocated
<1>10. \/ cache' = Put(cache, ip, Located(UntilOld(at)))
       \/ cache' = cache
       \/ cache' = Put(cache, ip, Unlocated(hour + MissFor))
  BY <1>2 DEF Remember
<1> QED
  BY <1>7, <1>8, <1>9, <1>10

LEMMA RestartAges ==
  ASSUME AgeInv, Restart
  PROVE  AgeInv'
<1>1. UNCHANGED <<hour, row, answered>> /\ cache' = EmptyCache /\ view' = [v \in Viewer |-> NoView]
  BY DEF Restart
<1>2. Ages'
  BY <1>1 DEF AgeInv, Ages, NoView
<1>3. cache'.entry = << >> /\ cache'.order = << >> /\ {"entry", "order"} \subseteq DOMAIN cache'
  BY <1>1 DEF EmptyCache
<1>4. IsCache(cache)' /\ Locations'
  BY <1>3, EmptyElements DEF IsCache, Locations
<1> QED
  BY <1>2, <1>4 DEF AgeInv

LEMMA PassTimeAges ==
  ASSUME AgeInv, PassTime
  PROVE  AgeInv'
BY DEF PassTime, AgeInv, Ages, IsCache, Locations

-----------------------------------------------------------------------------
(* Marks *)

(* An unmarked address is claimed. *)
LEMMA MarkClaimed ==
  ASSUME NEW C, DOMAIN C = Prefetch, NEW L, NEW F, Marked(C, L, F), NEW p \in Prefetch, NEW ip \in Ip, ip \notin F
  PROVE  Marked([C EXCEPT ![p] = C[p] \cup {ip}], L, F \cup {ip})
<1>1. PICK D : D = [C EXCEPT ![p] = C[p] \cup {ip}]
  OBVIOUS
<1>2. D[p] = C[p] \cup {ip} /\ \A q \in Prefetch : q # p => D[q] = C[q]
  BY <1>1
<1>3. (\A q \in Prefetch : ip \notin C[q]) /\ (\A j \in L : j.ip # ip)
  BY DEF Marked
<1>4. \A x \in Ip : x \in F \cup {ip} <=> (\E q \in Prefetch : x \in D[q]) \/ (\E j \in L : j.ip = x)
  BY <1>2 DEF Marked
<1>5. \A q, r \in Prefetch : q # r => D[q] \cap D[r] = {}
  BY <1>2, <1>3 DEF Marked
<1>6. \A q \in Prefetch, j \in L : j.ip \notin D[q]
  BY <1>2, <1>3 DEF Marked
<1> QED
  BY <1>1, <1>4, <1>5, <1>6 DEF Marked

(* Of what a prefetch holds, some is begun and some is let go. *)
LEMMA MarksHandedOn ==
  ASSUME NEW C, DOMAIN C = Prefetch, NEW L, NEW F, Marked(C, L, F), NEW p \in Prefetch,
         NEW Kept, NEW Begun, NEW Freed, C[p] = Kept \cup Begun \cup Freed,
         Kept \cap Begun = {}, Kept \cap Freed = {}, Begun \cap Freed = {}, C[p] \subseteq Ip,
         NEW N, \A ip \in Begun : \E j \in N : j.ip = ip, \A j \in N : j.ip \in Begun,
         \A j, k \in N : j.ip = k.ip => j = k
  PROVE  Marked([C EXCEPT ![p] = Kept], L \cup N, F \ Freed)
<1>1. PICK D : D = [C EXCEPT ![p] = Kept]
  OBVIOUS
<1>2. D[p] = Kept /\ \A q \in Prefetch : q # p => D[q] = C[q]
  BY <1>1
<1>3. ASSUME NEW x \in Ip
      PROVE  x \in F \ Freed <=> (\E q \in Prefetch : x \in D[q]) \/ (\E j \in L \cup N : j.ip = x)
  <2>1. CASE x \in C[p]
    <3>1. x \in F /\ (\A q \in Prefetch : q # p => x \notin D[q]) /\ (\A j \in L : j.ip # x)
      BY <1>2, <2>1 DEF Marked
    <3>2. x \notin Freed <=> x \in Kept \/ x \in Begun
      BY <2>1
    <3>3. x \in Begun <=> \E j \in N : j.ip = x
      OBVIOUS
    <3> QED
      BY <1>2, <3>1, <3>2, <3>3
  <2>2. CASE x \notin C[p]
    <3>1. x \notin Freed /\ x \notin D[p] /\ (\A j \in N : j.ip # x)
      BY <1>2, <2>2
    <3> QED
      BY <1>2, <2>2, <3>1 DEF Marked
  <2> QED
    BY <2>1, <2>2
<1>4. \A q, r \in Prefetch : q # r => D[q] \cap D[r] = {}
  BY <1>2 DEF Marked
<1>5. \A j, k \in L \cup N : j.ip = k.ip => j = k
  BY DEF Marked
<1>6. \A q \in Prefetch, j \in L \cup N : j.ip \notin D[q]
  <2>1. ASSUME NEW q \in Prefetch, NEW j \in L PROVE j.ip \notin D[q]
    BY <1>2 DEF Marked
  <2>2. ASSUME NEW q \in Prefetch, NEW j \in N PROVE j.ip \notin D[q]
    <3>1. j.ip \in C[p] /\ j.ip \notin Kept
      OBVIOUS
    <3> QED
      BY <1>2, <3>1 DEF Marked
  <2> QED
    BY <2>1, <2>2
<1> QED
  BY <1>1, <1>3, <1>4, <1>5, <1>6 DEF Marked

LEMMA MarksLetGo ==
  ASSUME NEW C, DOMAIN C = Prefetch, NEW L, NEW F, Marked(C, L, F), NEW p \in Prefetch,
         NEW Kept, NEW Freed, C[p] = Kept \cup Freed, Kept \cap Freed = {}, C[p] \subseteq Ip
  PROVE  Marked([C EXCEPT ![p] = Kept], L, F \ Freed)
<1>1. Marked([C EXCEPT ![p] = Kept], L \cup {}, F \ Freed)
  <2>1. C[p] = Kept \cup {} \cup Freed /\ Kept \cap {} = {} /\ {} \cap Freed = {}
    OBVIOUS
  <2>2. \A ip \in {} : \E j \in {} : j.ip = ip
    OBVIOUS
  <2>3. (\A j \in {} : j.ip \in {}) /\ (\A j, k \in {} : j.ip = k.ip => j = k)
    OBVIOUS
  <2> QED
    BY <2>1, <2>2, <2>3, MarksHandedOn
<1>2. L \cup {} = L
  OBVIOUS
<1> QED
  BY <1>1, <1>2

LEMMA LookerDone ==
  ASSUME NEW C, NEW L, NEW F, Marked(C, L, F), NEW j \in L
  PROVE  Marked(C, L \ {j}, F \ {j.ip})
BY DEF Marked

LEMMA LookerGoesOn ==
  ASSUME NEW C, NEW L, NEW F, Marked(C, L, F), NEW j \in L, NEW k, k.ip = j.ip
  PROVE  Marked(C, (L \ {j}) \cup {k}, F)
BY DEF Marked

LEMMA ClaimsAreAddresses ==
  ASSUME NEW b, IsPoll(b)
  PROVE  ClaimsOf(b) \subseteq Ip
<1>1. b.need \in Seq(Ip) /\ b.todo \in Seq(Ip)
  BY DEF IsPoll
<1>2. ToSet(b.need) \subseteq Ip /\ ToSet(b.todo) \subseteq Ip
  BY <1>1, ElementsOf
<1> QED
  BY <1>2 DEF ClaimsOf

LEMMA NoPrefetchHolds == IsPoll(NoPrefetch) /\ ClaimsOf(NoPrefetch) = {}
<1>1. /\ NoPrefetch.at = "idle" /\ NoPrefetch.todo = << >> /\ NoPrefetch.need = << >>
      /\ {"at", "todo", "need", "late"} \subseteq DOMAIN NoPrefetch
  BY DEF NoPrefetch
<1>2. << >> \in Seq(Ip)
  OBVIOUS
<1> QED
  BY <1>1, <1>2, EmptyElements DEF IsPoll, ClaimsOf

(* The step of one prefetch. *)
LEMMA PollMoves ==
  ASSUME LookInv, NEW p \in Prefetch, NEW b, IsPoll(b), poll' = [poll EXCEPT ![p] = b],
         inflight' \subseteq Ip, \A j \in job' : IsRequest(j)
  PROVE  /\ LookInv' /\ ClaimsNow' = [ClaimsNow EXCEPT ![p] = ClaimsOf(b)]
         /\ DOMAIN ClaimsNow = Prefetch /\ ClaimsNow[p] = ClaimsOf(poll[p]) /\ ClaimsNow[p] \subseteq Ip
         /\ IsPoll(poll[p])
<1>1. DOMAIN poll' = Prefetch /\ poll'[p] = b /\ \A q \in Prefetch : q # p => poll'[q] = poll[q]
  BY DEF LookInv
<1>2. \A q \in Prefetch : IsPoll(poll[q])
  BY DEF LookInv
<1>3. \A q \in Prefetch : IsPoll(poll'[q])
  <2>1. ASSUME NEW q \in Prefetch PROVE IsPoll(poll'[q])
    <3>1. CASE q = p
      BY <1>1, <3>1
    <3>2. CASE q # p
      <4>1. poll'[q] = poll[q]
        BY <1>1, <3>2
      <4> QED
        BY <1>2, <4>1
    <3> QED
      BY <3>1, <3>2
  <2> QED
    BY <2>1
<1>4. LookInv'
  BY <1>1, <1>3 DEF LookInv
<1>5. ClaimsNow' = [q \in Prefetch |-> ClaimsOf(poll'[q])]
  BY DEF ClaimsNow, ClaimsOf
<1>6. \A q \in Prefetch : q # p => ClaimsOf(poll'[q]) = ClaimsOf(poll[q])
  BY <1>1
<1>7. ClaimsNow' = [ClaimsNow EXCEPT ![p] = ClaimsOf(b)]
  BY <1>1, <1>5, <1>6 DEF ClaimsNow
<1>8. DOMAIN ClaimsNow = Prefetch /\ ClaimsNow[p] = ClaimsOf(poll[p])
  BY DEF ClaimsNow
<1>9. IsPoll(poll[p]) /\ ClaimsOf(poll[p]) \subseteq Ip
  BY <1>2, ClaimsAreAddresses
<1> QED
  BY <1>4, <1>7, <1>8, <1>9

LEMMA LookersSame == job' = job => Lookers' = Lookers
BY DEF Lookers

(* A step of a prefetch that neither claims nor lets go. *)
LEMMA PollMovesOn ==
  ASSUME LookInv, MarkInv, NEW p \in Prefetch, NEW b, IsPoll(b), poll' = [poll EXCEPT ![p] = b],
         ClaimsOf(b) = ClaimsOf(poll[p]), UNCHANGED <<inflight, job>>
  PROVE  LookInv' /\ MarkInv'
<1>1. inflight' \subseteq Ip /\ \A j \in job' : IsRequest(j)
  BY DEF LookInv
<1>2. /\ LookInv' /\ ClaimsNow' = [ClaimsNow EXCEPT ![p] = ClaimsOf(b)]
      /\ DOMAIN ClaimsNow = Prefetch /\ ClaimsNow[p] = ClaimsOf(poll[p])
  BY <1>1, PollMoves
<1>3. ClaimsNow' = ClaimsNow
  BY <1>2 DEF ClaimsNow
<1>4. Lookers' = Lookers /\ inflight' = inflight
  BY LookersSame
<1> QED
  BY <1>2, <1>3, <1>4 DEF MarkInv

-----------------------------------------------------------------------------
(* The steps of a prefetch *)

LEMMA BeginMarks ==
  ASSUME LookInv, MarkInv, NEW p \in Prefetch, Begin(p)
  PROVE  LookInv' /\ MarkInv'
<1>1. PICK page \in Page : poll' = [poll EXCEPT ![p] = [NoPrefetch EXCEPT !.at = "claim", !.todo = page]]
  BY DEF Begin
<1>2. PICK b : b = [NoPrefetch EXCEPT !.at = "claim", !.todo = page]
  OBVIOUS
<1>3. /\ b.at = "claim" /\ b.todo = page /\ b.need = << >>
      /\ {"at", "todo", "need", "late"} \subseteq DOMAIN b
  BY <1>2 DEF NoPrefetch
<1>4. << >> \in Seq(Ip) /\ page \in Seq(Ip)
  BY Lifetimes
<1>5. IsPoll(b) /\ ClaimsOf(b) = {}
  BY <1>3, <1>4, EmptyElements DEF IsPoll, ClaimsOf
<1>6. poll[p].at = "idle" /\ IsPoll(poll[p])
  BY DEF Begin, LookInv
<1>7. ClaimsOf(poll[p]) = {}
  BY <1>6, EmptyElements DEF IsPoll, ClaimsOf
<1>8. UNCHANGED <<inflight, job>>
  BY DEF Begin
<1> QED
  BY <1>1, <1>2, <1>5, <1>7, <1>8, PollMovesOn

LEMMA ClaimMarks ==
  ASSUME LookInv, MarkInv, NEW p \in Prefetch, Claim(p)
  PROVE  LookInv' /\ MarkInv'
<1>1. PICK todo, need, ip : todo = poll[p].todo /\ need = poll[p].need /\ ip = Head(poll[p].todo)
  OBVIOUS
<1>2. /\ poll[p].at = "claim" /\ todo # << >> /\ job' = job
      /\ IF Claimable(ip)
         THEN /\ inflight' = inflight \cup {ip}
              /\ poll' = [poll EXCEPT ![p].todo = Tail(todo), ![p].need = Append(need, ip)]
         ELSE poll' = [poll EXCEPT ![p].todo = Tail(todo)] /\ inflight' = inflight
  BY <1>1 DEF Claim
<1>3. IsPoll(poll[p]) /\ inflight \subseteq Ip /\ DOMAIN poll = Prefetch /\ \A j \in job' : IsRequest(j)
  BY <1>2 DEF LookInv
<1>4. todo \in Seq(Ip) /\ need \in Seq(Ip) /\ IsInjective(need)
  BY <1>1, <1>3 DEF IsPoll
<1>5. ip \in Ip /\ Tail(todo) \in Seq(Ip)
  BY <1>1, <1>2, <1>4, HeadAndTail
<1>6. ClaimsOf(poll[p]) = ToSet(need)
  BY <1>1, <1>2 DEF ClaimsOf
<1>7. CASE Claimable(ip)
  <2>1. PICK b : b = [poll[p] EXCEPT !.todo = Tail(todo), !.need = Append(need, ip)]
    OBVIOUS
  <2>2. /\ b.at = "claim" /\ b.todo = Tail(todo) /\ b.need = Append(need, ip)
        /\ {"at", "todo", "need", "late"} \subseteq DOMAIN b
    BY <1>2, <1>3, <2>1 DEF IsPoll
  <2>3. ip \notin inflight
    BY <1>7 DEF Claimable
  <2>4. ip \notin ToSet(need)
    <3>1. ClaimsNow[p] = ToSet(need)
      BY <1>6 DEF ClaimsNow
    <3> QED
      BY <1>5, <2>3, <3>1 DEF MarkInv, Marked
  <2>5. /\ Append(need, ip) \in Seq(Ip) /\ ToSet(Append(need, ip)) = ToSet(need) \cup {ip}
        /\ IsInjective(Append(need, ip))
    BY <1>4, <1>5, <2>4, Appending
  <2>6. IsPoll(b)
    BY <1>5, <2>2, <2>5 DEF IsPoll
  <2>7. ClaimsOf(b) = ToSet(need) \cup {ip}
    BY <2>2, <2>5 DEF ClaimsOf
  <2>8. poll' = [poll EXCEPT ![p] = b] /\ inflight' = inflight \cup {ip}
    BY <1>2, <1>3, <1>7, <2>1
  <2>9. inflight' \subseteq Ip
    BY <1>3, <1>5, <2>8
  <2>10. /\ LookInv' /\ ClaimsNow' = [ClaimsNow EXCEPT ![p] = ClaimsOf(b)]
         /\ DOMAIN ClaimsNow = Prefetch /\ ClaimsNow[p] = ToSet(need)
    BY <1>3, <1>6, <2>6, <2>8, <2>9, PollMoves
  <2>11. Marked([ClaimsNow EXCEPT ![p] = ClaimsNow[p] \cup {ip}], Lookers, inflight \cup {ip})
    BY <1>5, <2>3, <2>10, MarkClaimed DEF MarkInv
  <2>12. Lookers' = Lookers
    BY <1>2, LookersSame
  <2>13. ClaimsNow' = [ClaimsNow EXCEPT ![p] = ClaimsNow[p] \cup {ip}]
    BY <2>7, <2>10
  <2> QED
    BY <2>8, <2>10, <2>11, <2>12, <2>13 DEF MarkInv
<1>8. CASE ~Claimable(ip)
  <2>1. PICK b : b = [poll[p] EXCEPT !.todo = Tail(todo)]
    OBVIOUS
  <2>2. /\ b.at = "claim" /\ b.todo = Tail(todo) /\ b.need = need
        /\ {"at", "todo", "need", "late"} \subseteq DOMAIN b
    BY <1>1, <1>2, <1>3, <2>1 DEF IsPoll
  <2>3. IsPoll(b) /\ ClaimsOf(b) = ClaimsOf(poll[p])
    BY <1>4, <1>5, <1>6, <2>2 DEF IsPoll, ClaimsOf
  <2>4. poll' = [poll EXCEPT ![p] = b] /\ inflight' = inflight
    BY <1>2, <1>3, <1>8, <2>1
  <2> QED
    BY <1>2, <2>3, <2>4, PollMovesOn
<1> QED
  BY <1>7, <1>8

LEMMA ClaimedMarks ==
  ASSUME LookInv, MarkInv, NEW p \in Prefetch, Claimed(p)
  PROVE  LookInv' /\ MarkInv'
<1>1. PICK need : need = poll[p].need
  OBVIOUS
<1>2. IsPoll(poll[p]) /\ poll[p].at = "claim" /\ poll[p].todo = << >> /\ UNCHANGED <<inflight, job>>
  BY DEF Claimed, LookInv
<1>3. need \in Seq(Ip) /\ IsInjective(need) /\ ClaimsOf(poll[p]) = ToSet(need)
  BY <1>1, <1>2 DEF IsPoll, ClaimsOf
<1>4. CASE need = << >>
  <2>1. poll' = [poll EXCEPT ![p] = NoPrefetch]
    BY <1>1, <1>4 DEF Claimed, LookInv
  <2>2. ClaimsOf(poll[p]) = {}
    BY <1>3, <1>4, EmptyElements
  <2> QED
    BY <1>2, <2>1, <2>2, NoPrefetchHolds, PollMovesOn
<1>5. CASE need # << >> /\ sky.database
  <2>1. PICK b : b = [NoPrefetch EXCEPT !.at = "sweep", !.todo = need]
    OBVIOUS
  <2>2. poll' = [poll EXCEPT ![p] = b]
    BY <1>1, <1>5, <2>1 DEF Claimed, LookInv
  <2>3. /\ b.at = "sweep" /\ b.todo = need /\ b.need = << >>
        /\ {"at", "todo", "need", "late"} \subseteq DOMAIN b
    BY <2>1 DEF NoPrefetch
  <2>4. << >> \in Seq(Ip)
    OBVIOUS
  <2>5. IsPoll(b) /\ ClaimsOf(b) = ToSet(need)
    BY <1>3, <2>3, <2>4, EmptyElements DEF IsPoll, ClaimsOf
  <2> QED
    BY <1>2, <1>3, <2>2, <2>5, PollMovesOn
<1>6. CASE need # << >> /\ ~sky.database
  <2>1. PICK b : b = [poll[p] EXCEPT !.at = "launch"]
    OBVIOUS
  <2>2. poll' = [poll EXCEPT ![p] = b]
    BY <1>1, <1>6, <2>1 DEF Claimed, LookInv
  <2>3. /\ b.at = "launch" /\ b.todo = poll[p].todo /\ b.need = need
        /\ {"at", "todo", "need", "late"} \subseteq DOMAIN b
    BY <1>1, <1>2, <2>1 DEF IsPoll
  <2>4. IsPoll(b) /\ ClaimsOf(b) = ToSet(need)
    BY <1>2, <1>3, <2>3 DEF IsPoll, ClaimsOf
  <2> QED
    BY <1>2, <1>3, <2>2, <2>4, PollMovesOn
<1> QED
  BY <1>4, <1>5, <1>6

(* A step of a prefetch that lets go what it no longer holds. *)
LEMMA PollLetsGo ==
  ASSUME LookInv, MarkInv, NEW p \in Prefetch, NEW b, IsPoll(b), poll' = [poll EXCEPT ![p] = b],
         NEW Freed, inflight' = inflight \ Freed, ClaimsOf(poll[p]) = ClaimsOf(b) \cup Freed,
         ClaimsOf(b) \cap Freed = {}, Lookers' = Lookers, \A j \in job' : IsRequest(j)
  PROVE  LookInv' /\ MarkInv'
<1>1. inflight' \subseteq Ip
  BY DEF LookInv
<1>2. /\ LookInv' /\ ClaimsNow' = [ClaimsNow EXCEPT ![p] = ClaimsOf(b)]
      /\ DOMAIN ClaimsNow = Prefetch /\ ClaimsNow[p] = ClaimsOf(poll[p]) /\ ClaimsNow[p] \subseteq Ip
  BY <1>1, PollMoves
<1>3. Marked([ClaimsNow EXCEPT ![p] = ClaimsOf(b)], Lookers, inflight \ Freed)
  BY <1>2, MarksLetGo DEF MarkInv
<1> QED
  BY <1>2, <1>3 DEF MarkInv

LEMMA SweepMarks ==
  ASSUME LookInv, MarkInv, NEW p \in Prefetch, Sweep(p)
  PROVE  LookInv' /\ MarkInv'
<1>1. PICK todo, need, ip : todo = poll[p].todo /\ need = poll[p].need /\ ip = Head(poll[p].todo)
  OBVIOUS
<1>2. /\ poll[p].at = "sweep" /\ todo # << >>
      /\ IF InDatabase(ip)
         THEN /\ inflight' = inflight \ {ip} /\ poll' = [poll EXCEPT ![p].todo = Tail(todo)]
              /\ job' = job \cup {Request(ip, p, "save", FALSE)}
         ELSE /\ poll' = [poll EXCEPT ![p].todo = Tail(todo), ![p].need = Append(need, ip)]
              /\ inflight' = inflight /\ job' = job
  BY <1>1 DEF Sweep
<1>3. IsPoll(poll[p]) /\ DOMAIN poll = Prefetch /\ \A j \in job : IsRequest(j)
  BY DEF LookInv
<1>4. /\ todo \in Seq(Ip) /\ need \in Seq(Ip) /\ IsInjective(need) /\ IsInjective(todo)
      /\ ToSet(need) \cap ToSet(todo) = {}
  BY <1>1, <1>2, <1>3 DEF IsPoll
<1>5. PICK rest : rest = Tail(todo)
  OBVIOUS
<1>6. /\ ip \in Ip /\ rest \in Seq(Ip) /\ ToSet(todo) = {ip} \cup ToSet(rest)
      /\ ip \notin ToSet(rest) /\ IsInjective(rest)
  BY <1>1, <1>2, <1>4, <1>5, HeadAndTail
<1>7. ClaimsOf(poll[p]) = ToSet(need) \cup ToSet(todo) /\ ip \notin ToSet(need)
  BY <1>1, <1>2, <1>4, <1>6 DEF ClaimsOf
<1>8. CASE InDatabase(ip)
  <2>1. PICK b : b = [poll[p] EXCEPT !.todo = rest]
    OBVIOUS
  <2>2. /\ b.at = "sweep" /\ b.todo = rest /\ b.need = need
        /\ {"at", "todo", "need", "late"} \subseteq DOMAIN b
    BY <1>1, <1>2, <1>3, <2>1 DEF IsPoll
  <2>3. IsPoll(b)
    BY <1>4, <1>6, <2>2 DEF IsPoll
  <2>4. ClaimsOf(b) = ToSet(need) \cup ToSet(rest)
    BY <2>2 DEF ClaimsOf
  <2>5. PICK r : r = Request(ip, p, "save", FALSE)
    OBVIOUS
  <2>6. IsRequest(r) /\ r.at = "save"
    BY <1>6, <2>5 DEF IsRequest, Request
  <2>7. job' = job \cup {r} /\ inflight' = inflight \ {ip} /\ poll' = [poll EXCEPT ![p] = b]
    BY <1>2, <1>3, <1>5, <1>8, <2>1, <2>5
  <2>8. Lookers' = Lookers /\ \A j \in job' : IsRequest(j)
    BY <1>3, <2>6, <2>7 DEF Lookers
  <2>9. ClaimsOf(poll[p]) = ClaimsOf(b) \cup {ip} /\ ClaimsOf(b) \cap {ip} = {}
    BY <1>6, <1>7, <2>4
  <2> QED
    BY <2>3, <2>7, <2>8, <2>9, PollLetsGo
<1>9. CASE ~InDatabase(ip)
  <2>1. PICK b : b = [poll[p] EXCEPT !.todo = rest, !.need = Append(need, ip)]
    OBVIOUS
  <2>2. /\ b.at = "sweep" /\ b.todo = rest /\ b.need = Append(need, ip)
        /\ {"at", "todo", "need", "late"} \subseteq DOMAIN b
    BY <1>2, <1>3, <2>1 DEF IsPoll
  <2>3. /\ Append(need, ip) \in Seq(Ip) /\ ToSet(Append(need, ip)) = ToSet(need) \cup {ip}
        /\ IsInjective(Append(need, ip))
    BY <1>4, <1>6, <1>7, Appending
  <2>4. ToSet(b.need) \cap ToSet(b.todo) = {}
    BY <1>4, <1>6, <2>2, <2>3
  <2>5. IsPoll(b)
    BY <1>6, <2>2, <2>3, <2>4 DEF IsPoll
  <2>6. ClaimsOf(b) = ClaimsOf(poll[p])
    BY <1>6, <1>7, <2>2, <2>3 DEF ClaimsOf
  <2>7. poll' = [poll EXCEPT ![p] = b] /\ UNCHANGED <<inflight, job>>
    BY <1>2, <1>3, <1>5, <1>9, <2>1
  <2> QED
    BY <2>5, <2>6, <2>7, PollMovesOn
<1> QED
  BY <1>8, <1>9

LEMMA EndSweepMarks ==
  ASSUME LookInv, MarkInv, NEW p \in Prefetch, EndSweep(p)
  PROVE  LookInv' /\ MarkInv'
<1>1. PICK need : need = poll[p].need
  OBVIOUS
<1>2. /\ poll[p].at = "sweep" /\ poll[p].todo = << >> /\ job' = job
      /\ \/ poll' = [poll EXCEPT ![p].at = "launch"] /\ inflight' = inflight
         \/ poll' = [poll EXCEPT ![p] = NoPrefetch] /\ inflight' = inflight \ ToSet(need)
  BY <1>1 DEF EndSweep
<1>3. IsPoll(poll[p]) /\ DOMAIN poll = Prefetch /\ \A j \in job' : IsRequest(j)
  BY <1>2 DEF LookInv
<1>4. need \in Seq(Ip) /\ IsInjective(need)
  BY <1>1, <1>3 DEF IsPoll
<1>5. ClaimsOf(poll[p]) = ToSet(need)
  BY <1>1, <1>2, EmptyElements DEF ClaimsOf
<1>6. CASE poll' = [poll EXCEPT ![p].at = "launch"] /\ inflight' = inflight
  <2>1. PICK b : b = [poll[p] EXCEPT !.at = "launch"]
    OBVIOUS
  <2>2. /\ b.at = "launch" /\ b.todo = poll[p].todo /\ b.need = need
        /\ {"at", "todo", "need", "late"} \subseteq DOMAIN b
    BY <1>1, <1>3, <2>1 DEF IsPoll
  <2>3. IsPoll(b) /\ ClaimsOf(b) = ToSet(need)
    BY <1>3, <1>4, <2>2 DEF IsPoll, ClaimsOf
  <2>4. poll' = [poll EXCEPT ![p] = b]
    BY <1>3, <1>6, <2>1
  <2> QED
    BY <1>2, <1>5, <1>6, <2>3, <2>4, PollMovesOn
<1>7. CASE poll' = [poll EXCEPT ![p] = NoPrefetch] /\ inflight' = inflight \ ToSet(need)
  <2>1. IsPoll(NoPrefetch) /\ ClaimsOf(NoPrefetch) = {}
    BY NoPrefetchHolds
  <2>2. ClaimsOf(poll[p]) = ClaimsOf(NoPrefetch) \cup ToSet(need) /\ ClaimsOf(NoPrefetch) \cap ToSet(need) = {}
    BY <1>5, <2>1
  <2>3. Lookers' = Lookers
    BY <1>2, LookersSame
  <2> QED
    BY <1>3, <1>7, <2>1, <2>2, <2>3, PollLetsGo
<1> QED
  BY <1>2, <1>6, <1>7

(* The first k of what was claimed are looked up, the others let go.       *)
LEMMA LaunchMarks ==
  ASSUME LookInv, MarkInv, NEW p \in Prefetch, Launch(p)
  PROVE  LookInv' /\ MarkInv'
<1>1. PICK need, most : need = poll[p].need /\ most = Min({PerCall, Len(poll[p].need)})
  OBVIOUS
<1>2. PICK k \in 0 .. most :
        /\ job' = job \cup {Request(need[i], p, "launched", FALSE) : i \in 1 .. k}
        /\ inflight' = inflight \ Released(need, k)
        /\ poll' = [poll EXCEPT ![p] = [NoPrefetch EXCEPT !.at = "wait", !.late = k < most]]
  <2>1. PICK k \in 0 .. Min({PerCall, Len(poll[p].need)}) :
          /\ job' = job \cup {Request(poll[p].need[i], p, "launched", FALSE) : i \in 1 .. k}
          /\ inflight' = inflight \ Released(poll[p].need, k)
          /\ poll' = [poll EXCEPT ![p] = [NoPrefetch EXCEPT !.at = "wait",
                                             !.late = k < Min({PerCall, Len(poll[p].need)})]]
    BY Zenon DEF Launch
  <2>2. k \in 0 .. most /\ inflight' = inflight \ Released(need, k)
    BY <1>1, <2>1
  <2>3. job' = job \cup {Request(need[i], p, "launched", FALSE) : i \in 1 .. k}
    BY <1>1, <2>1, Zenon
  <2>4. poll' = [poll EXCEPT ![p] = [NoPrefetch EXCEPT !.at = "wait", !.late = k < most]]
    BY <1>1, <2>1, Zenon
  <2> QED
    BY <2>2, <2>3, <2>4
<1>3. IsPoll(poll[p]) /\ poll[p].at = "launch" /\ inflight \subseteq Ip /\ \A j \in job : IsRequest(j)
  BY DEF LookInv, Launch
<1>4. need \in Seq(Ip) /\ IsInjective(need) /\ ClaimsOf(poll[p]) = ToSet(need) /\ Len(need) \in Nat
  BY <1>1, <1>3 DEF IsPoll, ClaimsOf
<1>5. k \in 0 .. Len(need)
  <2>1. PerCall \in Nat /\ PerCall \in Int /\ Len(need) \in Int
    BY <1>4, Lifetimes
  <2>2. most \in {PerCall, Len(need)} /\ most <= Len(need)
    BY <1>1, <2>1, LeastOfTwo
  <2> QED
    BY <1>4, <2>1, <2>2
<1>6. PICK Begun, Freed : Begun = {need[i] : i \in 1 .. k} /\ Freed = ToSet(SubSeq(need, k + 1, Len(need)))
  OBVIOUS
<1>7. /\ \A i \in 1 .. k : need[i] \in Ip
      /\ ToSet(need) = Begun \cup Freed /\ Begun \cap Freed = {}
  BY <1>4, <1>5, <1>6, Splitting
<1>8. PICK N : N = {Request(need[i], p, "launched", FALSE) : i \in 1 .. k}
  OBVIOUS
<1>9. ASSUME NEW j \in N PROVE \E i \in 1 .. k : j = Request(need[i], p, "launched", FALSE)
  BY <1>8
<1>10. ASSUME NEW i \in 1 .. k PROVE Request(need[i], p, "launched", FALSE) \in N
  BY <1>8
<1>11. \A x : /\ Request(x, p, "launched", FALSE).ip = x /\ Request(x, p, "launched", FALSE).at = "launched"
              /\ {"ip", "by", "at", "permit"} \subseteq DOMAIN Request(x, p, "launched", FALSE)
  BY DEF Request
<1>12. \A j \in N : j.ip \in Begun /\ j.at = "launched" /\ IsRequest(j) /\ j = Request(j.ip, p, "launched", FALSE)
  <2>1. ASSUME NEW j \in N
        PROVE  j.ip \in Begun /\ j.at = "launched" /\ IsRequest(j) /\ j = Request(j.ip, p, "launched", FALSE)
    <3>1. PICK i \in 1 .. k : j = Request(need[i], p, "launched", FALSE)
      BY <1>9
    <3>2. j.ip = need[i] /\ j.at = "launched" /\ {"ip", "by", "at", "permit"} \subseteq DOMAIN j
      BY <1>11, <3>1
    <3>3. need[i] \in Begun /\ need[i] \in Ip
      BY <1>6, <1>7
    <3> QED
      BY <3>1, <3>2, <3>3 DEF IsRequest
  <2> QED
    BY <2>1
<1>13. \A ip \in Begun : \E j \in N : j.ip = ip
  <2>1. ASSUME NEW ip \in Begun PROVE \E j \in N : j.ip = ip
    <3>1. PICK i \in 1 .. k : ip = need[i]
      BY <1>6
    <3>2. Request(need[i], p, "launched", FALSE) \in N
      BY <1>10
    <3> QED
      BY <1>11, <3>1, <3>2
  <2> QED
    BY <2>1
<1>14. \A j, l \in N : j.ip = l.ip => j = l
  BY <1>12
<1>15. PICK b : b = [NoPrefetch EXCEPT !.at = "wait", !.late = k < most]
  OBVIOUS
<1>16. /\ b.at = "wait" /\ b.todo = << >> /\ b.need = << >>
       /\ {"at", "todo", "need", "late"} \subseteq DOMAIN b
  BY <1>15 DEF NoPrefetch
<1>17. << >> \in Seq(Ip)
  OBVIOUS
<1>18. IsPoll(b) /\ ClaimsOf(b) = {}
  BY <1>16, <1>17, EmptyElements DEF IsPoll, ClaimsOf
<1>19. poll' = [poll EXCEPT ![p] = b] /\ inflight' = inflight \ Freed /\ job' = job \cup N
  BY <1>1, <1>2, <1>6, <1>8, <1>15 DEF Released
<1>20. inflight' \subseteq Ip /\ \A j \in job' : IsRequest(j)
  BY <1>3, <1>12, <1>19
<1>21. /\ LookInv' /\ ClaimsNow' = [ClaimsNow EXCEPT ![p] = {}]
       /\ DOMAIN ClaimsNow = Prefetch /\ ClaimsNow[p] = ToSet(need) /\ ClaimsNow[p] \subseteq Ip
  BY <1>4, <1>18, <1>19, <1>20, PollMoves
<1>22. Lookers' = Lookers \cup N
  BY <1>12, <1>19 DEF Lookers
<1>23. ClaimsNow[p] = {} \cup Begun \cup Freed /\ {} \cap Begun = {} /\ {} \cap Freed = {}
  BY <1>7, <1>21
<1>24. \A j \in N : j.ip \in Begun
  BY <1>12
<1>25. Marked([ClaimsNow EXCEPT ![p] = {}], Lookers \cup N, inflight \ Freed)
  BY <1>7, <1>13, <1>14, <1>21, <1>23, <1>24, MarksHandedOn DEF MarkInv
<1> QED
  BY <1>19, <1>21, <1>22, <1>25 DEF MarkInv

LEMMA BudgetEndsMarks ==
  ASSUME LookInv, MarkInv, NEW p \in Prefetch, BudgetEnds(p)
  PROVE  LookInv' /\ MarkInv'
<1>1. PICK b : b = [poll[p] EXCEPT !.late = TRUE]
  OBVIOUS
<1>2. IsPoll(poll[p]) /\ DOMAIN poll = Prefetch
  BY DEF LookInv
<1>3. poll' = [poll EXCEPT ![p] = b] /\ UNCHANGED <<inflight, job>>
  BY <1>1, <1>2 DEF BudgetEnds
<1>4. /\ b.at = poll[p].at /\ b.todo = poll[p].todo /\ b.need = poll[p].need
      /\ {"at", "todo", "need", "late"} \subseteq DOMAIN b
  BY <1>1, <1>2 DEF IsPoll
<1>5. IsPoll(b) /\ ClaimsOf(b) = ClaimsOf(poll[p])
  BY <1>2, <1>4 DEF IsPoll, ClaimsOf
<1> QED
  BY <1>3, <1>5, PollMovesOn

LEMMA EndPrefetchMarks ==
  ASSUME LookInv, MarkInv, NEW p \in Prefetch, EndPrefetch(p)
  PROVE  LookInv' /\ MarkInv'
<1>1. poll' = [poll EXCEPT ![p] = NoPrefetch] /\ poll[p].at = "wait" /\ UNCHANGED <<inflight, job>>
  BY DEF EndPrefetch
<1>2. IsPoll(poll[p])
  BY DEF LookInv
<1>3. ClaimsOf(poll[p]) = {}
  BY <1>1, <1>2, EmptyElements DEF IsPoll, ClaimsOf
<1> QED
  BY <1>1, <1>3, NoPrefetchHolds, PollMovesOn

-----------------------------------------------------------------------------
(* The steps of a lookup *)

(* Steps that leave the prefetches alone. *)
LEMMA ClaimsSame == poll' = poll => ClaimsNow' = ClaimsNow
BY DEF ClaimsNow, ClaimsOf

(* The lookup ends, or goes on only to be saved, and its address is let go. *)
LEMMA LookEnds ==
  ASSUME LookInv, MarkInv, NEW j \in job, j.at # "save", poll' = poll, Unclaim(j),
         NEW next, Onward(j, next), \A k \in next : IsRequest(k) /\ k.at = "save"
  PROVE  LookInv' /\ MarkInv'
<1>1. job' = (job \ {j}) \cup next /\ inflight' = inflight \ {j.ip}
  BY DEF Onward, Unclaim
<1>2. LookInv'
  BY <1>1 DEF LookInv
<1>3. Lookers' = Lookers \ {j} /\ j \in Lookers
  BY <1>1 DEF Lookers
<1>4. Marked(ClaimsNow, Lookers \ {j}, inflight \ {j.ip})
  BY <1>3, LookerDone DEF MarkInv
<1>5. ClaimsNow' = ClaimsNow
  BY ClaimsSame
<1> QED
  BY <1>1, <1>2, <1>3, <1>4, <1>5 DEF MarkInv

LEMMA LookGoesOn ==
  ASSUME LookInv, MarkInv, NEW j \in job, j.at # "save", UNCHANGED <<poll, inflight>>,
         NEW k, Onward(j, {k}), IsRequest(k), k.ip = j.ip, k.at # "save"
  PROVE  LookInv' /\ MarkInv'
<1>1. job' = (job \ {j}) \cup {k}
  BY DEF Onward
<1>2. LookInv'
  BY <1>1 DEF LookInv
<1>3. Lookers' = (Lookers \ {j}) \cup {k} /\ j \in Lookers
  BY <1>1 DEF Lookers
<1>4. Marked(ClaimsNow, (Lookers \ {j}) \cup {k}, inflight)
  BY <1>3, LookerGoesOn DEF MarkInv
<1>5. ClaimsNow' = ClaimsNow
  BY ClaimsSame
<1> QED
  BY <1>2, <1>3, <1>4, <1>5 DEF MarkInv

LEMMA EnterInv ==
  ASSUME GeoInv, NEW j \in job, Enter(j)
  PROVE  GeoInv'
<1>1. LookInv /\ MarkInv /\ AgeInv
  BY DEF GeoInv
<1>2. IsRequest(j) /\ j.at = "launched" /\ j.ip \in Ip
  BY <1>1 DEF LookInv, IsRequest, Enter
<1>3. UNCHANGED <<hour, row, poll, view>>
  BY DEF Enter
<1>4. CASE HttpTier /\ ~InDatabase(j.ip)
  <2>1. PICK k : k = [j EXCEPT !.at = "allowed", !.permit = TRUE]
    OBVIOUS
  <2>2. IsRequest(k) /\ k.ip = j.ip /\ k.at = "allowed"
    BY <1>2, <2>1 DEF IsRequest
  <2>3. Onward(j, {k}) /\ UNCHANGED <<inflight, cache, answered>>
    BY <1>4, <2>1 DEF Enter
  <2>4. LookInv' /\ MarkInv'
    BY <1>1, <1>2, <1>3, <2>2, <2>3, LookGoesOn
  <2>5. AgeInv'
    BY <1>1, <1>3, <2>3, AgesSame
  <2> QED
    BY <2>4, <2>5 DEF GeoInv
<1>5. CASE InDatabase(j.ip)
  <2>1. PICK k : k = [j EXCEPT !.at = "save", !.permit = TRUE]
    OBVIOUS
  <2>2. IsRequest(k) /\ k.at = "save"
    BY <1>2, <2>1 DEF IsRequest
  <2>3. Onward(j, {k}) /\ Unclaim(j) /\ cache' = Put(cache, j.ip, Located(hour + FreshFor)) /\ Answers(j.ip)
    BY <1>5, <2>1 DEF Enter
  <2>4. \A x \in {k} : IsRequest(x) /\ x.at = "save"
    BY <2>2
  <2>5. LookInv' /\ MarkInv'
    BY <1>1, <1>2, <1>3, <2>3, <2>4, LookEnds
  <2>6. AgeInv'
    BY <1>1, <1>2, <1>3, <2>3, PutLocated
  <2> QED
    BY <2>5, <2>6 DEF GeoInv
<1>6. CASE ~(HttpTier /\ ~InDatabase(j.ip)) /\ ~InDatabase(j.ip)
  <2>1. Onward(j, {}) /\ Unclaim(j) /\ cache' = Put(cache, j.ip, Unlocated(hour + PauseFor)) /\ answered' = answered
    BY <1>6 DEF Enter, Ends
  <2>2. \A k \in {} : IsRequest(k) /\ k.at = "save"
    OBVIOUS
  <2>3. LookInv' /\ MarkInv'
    BY <1>1, <1>2, <1>3, <2>1, <2>2, LookEnds
  <2>4. Ages'
    BY <1>1, <1>3, <2>1 DEF AgeInv, Ages
  <2>5. AgeInv'
    BY <1>1, <1>2, <1>3, <2>1, <2>4, PutUnlocated
  <2> QED
    BY <2>3, <2>5 DEF GeoInv
<1> QED
  BY <1>4, <1>5, <1>6

LEMMA AskInv ==
  ASSUME GeoInv, NEW j \in job, Ask(j)
  PROVE  GeoInv'
<1>1. LookInv /\ MarkInv /\ AgeInv
  BY DEF GeoInv
<1>2. IsRequest(j) /\ j.at = "allowed" /\ UNCHANGED <<hour, row, poll, view, cache, answered>>
  BY <1>1 DEF LookInv, Ask
<1>3. AgeInv'
  BY <1>1, <1>2, AgesSame
<1>4. CASE Askable
  <2>1. PICK k : k = [j EXCEPT !.at = "asking"]
    OBVIOUS
  <2>2. IsRequest(k) /\ k.ip = j.ip /\ k.at = "asking"
    BY <1>2, <2>1 DEF IsRequest
  <2>3. Onward(j, {k}) /\ inflight' = inflight
    BY <1>4, <2>1 DEF Ask
  <2> QED
    BY <1>1, <1>2, <1>3, <2>2, <2>3, LookGoesOn DEF GeoInv
<1>5. CASE ~Askable
  <2>1. Onward(j, {}) /\ Unclaim(j)
    BY <1>5 DEF Ask, Ends
  <2>2. \A k \in {} : IsRequest(k) /\ k.at = "save"
    OBVIOUS
  <2> QED
    BY <1>1, <1>2, <1>3, <2>1, <2>2, LookEnds DEF GeoInv
<1> QED
  BY <1>4, <1>5

(* No answer, a refusal, or none because the budget or the permits ran out. *)
LEMMA UnansweredInv ==
  ASSUME GeoInv, NEW j \in job, Drop(j) \/ Fail(j) \/ CutOff(j) \/ Reject(j)
  PROVE  GeoInv'
<1>1. LookInv /\ MarkInv /\ AgeInv
  BY DEF GeoInv
<1>2. j.at # "save" /\ UNCHANGED <<hour, row, poll, view, answered>> /\ Unclaim(j) /\ Onward(j, {})
  BY DEF Drop, Fail, CutOff, Reject, Responds, Ends
<1>3. IsRequest(j) /\ j.ip \in Ip
  BY <1>1 DEF LookInv, IsRequest
<1>4. \A k \in {} : IsRequest(k) /\ k.at = "save"
  OBVIOUS
<1>5. LookInv' /\ MarkInv'
  BY <1>1, <1>2, <1>4, LookEnds
<1>6. Ages'
  BY <1>1, <1>2 DEF AgeInv, Ages
<1>7. CASE cache' = cache
  BY <1>1, <1>2, <1>5, <1>7, AgesSame DEF GeoInv
<1>8. CASE \E t : cache' = Put(cache, j.ip, Unlocated(t))
  BY <1>1, <1>2, <1>3, <1>5, <1>6, <1>8, PutUnlocated DEF GeoInv
<1>9. cache' = cache \/ \E t : cache' = Put(cache, j.ip, Unlocated(t))
  BY DEF Drop, Fail, CutOff, Reject
<1> QED
  BY <1>7, <1>8, <1>9

LEMMA LocateInv ==
  ASSUME GeoInv, NEW j \in job, Locate(j)
  PROVE  GeoInv'
<1>1. LookInv /\ MarkInv /\ AgeInv
  BY DEF GeoInv
<1>2. PICK k : k = [j EXCEPT !.at = "save"]
  OBVIOUS
<1>3. IsRequest(j) /\ j.ip \in Ip
  BY <1>1 DEF LookInv, IsRequest
<1>4. \A x \in {k} : IsRequest(x) /\ x.at = "save"
  BY <1>2, <1>3 DEF IsRequest
<1>5. /\ j.at = "asking" /\ UNCHANGED <<hour, row, poll, view>> /\ Unclaim(j) /\ Onward(j, {k})
      /\ Answers(j.ip) /\ cache' = Put(cache, j.ip, Located(hour + FreshFor))
  BY <1>2 DEF Locate, Responds
<1>6. LookInv' /\ MarkInv'
  BY <1>1, <1>4, <1>5, LookEnds
<1>7. AgeInv'
  BY <1>1, <1>3, <1>5, PutLocated
<1> QED
  BY <1>6, <1>7 DEF GeoInv

LEMMA SaveInv ==
  ASSUME GeoInv, NEW j \in job, Save(j)
  PROVE  GeoInv'
<1>1. LookInv /\ MarkInv /\ AgeInv
  BY DEF GeoInv
<1>2. j.at = "save" /\ job' = job \ {j} /\ UNCHANGED <<poll, inflight>>
  BY DEF Save, Ends, Onward
<1>3. j.ip \in Ip
  BY <1>1 DEF LookInv, IsRequest
<1>4. LookInv'
  BY <1>1, <1>2 DEF LookInv
<1>5. Lookers' = Lookers /\ ClaimsNow' = ClaimsNow
  BY <1>2, ClaimsSame DEF Lookers
<1>6. MarkInv'
  BY <1>1, <1>2, <1>5 DEF MarkInv
<1>7. AgeInv'
  BY <1>1, <1>3, SaveAges
<1> QED
  BY <1>4, <1>6, <1>7 DEF GeoInv

-----------------------------------------------------------------------------
(* Every step *)

LEMMA MarksSame ==
  ASSUME LookInv, MarkInv, UNCHANGED <<inflight, poll, job>>
  PROVE  LookInv' /\ MarkInv'
<1>1. LookInv'
  BY DEF LookInv
<1>2. Lookers' = Lookers /\ ClaimsNow' = ClaimsNow
  BY LookersSame, ClaimsSame
<1> QED
  BY <1>1, <1>2 DEF MarkInv

(* Nothing is claimed or looked up. *)
LEMMA NothingMarked ==
  ASSUME inflight = {}, job = {}, poll = [p \in Prefetch |-> NoPrefetch]
  PROVE  LookInv /\ MarkInv
<1>1. LookInv
  BY NoPrefetchHolds DEF LookInv
<1>2. Lookers = {} /\ \A p \in Prefetch : ClaimsNow[p] = {}
  BY NoPrefetchHolds DEF Lookers, ClaimsNow
<1>3. MarkInv
  BY <1>2 DEF MarkInv, Marked
<1> QED
  BY <1>1, <1>3

LEMMA RestartInv ==
  ASSUME GeoInv, Restart
  PROVE  GeoInv'
<1>1. inflight' = {} /\ job' = {} /\ poll' = [p \in Prefetch |-> NoPrefetch]
  BY DEF Restart
<1>2. LookInv'
  BY <1>1, NoPrefetchHolds DEF LookInv
<1>3. Lookers' = {} /\ \A p \in Prefetch : ClaimsNow'[p] = {}
  BY <1>1, NoPrefetchHolds DEF Lookers, ClaimsNow, ClaimsOf
<1>4. MarkInv'
  BY <1>1, <1>3 DEF MarkInv, Marked
<1> QED
  BY <1>2, <1>4, RestartAges DEF GeoInv

LEMMA PrefetchInv ==
  ASSUME GeoInv, NEW p \in Prefetch,
         \/ Begin(p) \/ Claim(p) \/ Claimed(p) \/ Sweep(p) \/ EndSweep(p)
         \/ Launch(p) \/ BudgetEnds(p) \/ EndPrefetch(p)
  PROVE  GeoInv'
<1>1. LookInv /\ MarkInv /\ AgeInv
  BY DEF GeoInv
<1>2. LookInv' /\ MarkInv'
  BY <1>1, BeginMarks, ClaimMarks, ClaimedMarks, SweepMarks, EndSweepMarks, LaunchMarks,
     BudgetEndsMarks, EndPrefetchMarks
<1>3. CASE Sweep(p)
  <2>1. PICK ip : ip = Head(poll[p].todo)
    OBVIOUS
  <2>2. ip \in Ip
    <3>1. IsPoll(poll[p]) /\ poll[p].todo # << >>
      BY <1>1, <1>3 DEF LookInv, Sweep
    <3>2. poll[p].todo \in Seq(Ip)
      BY <3>1 DEF IsPoll
    <3> QED
      BY <2>1, <3>1, <3>2, HeadAndTail
  <2>3. UNCHANGED <<hour, row, view>>
    BY <1>3 DEF Sweep
  <2>4. CASE InDatabase(ip)
    <3>1. cache' = Put(cache, ip, Located(hour + FreshFor)) /\ Answers(ip)
      BY <1>3, <2>1, <2>4 DEF Sweep
    <3> QED
      BY <1>1, <1>2, <2>2, <2>3, <3>1, PutLocated DEF GeoInv
  <2>5. CASE ~InDatabase(ip)
    <3>1. UNCHANGED <<cache, answered>>
      BY <1>3, <2>1, <2>5 DEF Sweep
    <3> QED
      BY <1>1, <1>2, <2>3, <3>1, AgesSame DEF GeoInv
  <2> QED
    BY <2>4, <2>5
<1>4. CASE ~Sweep(p)
  <2>1. UNCHANGED <<hour, answered, row, view, cache>>
    BY <1>4 DEF Begin, Claim, Claimed, EndSweep, Launch, BudgetEnds, EndPrefetch
  <2> QED
    BY <1>1, <1>2, <2>1, AgesSame DEF GeoInv
<1> QED
  BY <1>3, <1>4

LEMMA PanelInv ==
  ASSUME GeoInv, NEW v \in Viewer, Look(v) \/ ReadRow(v) \/ Remember(v)
  PROVE  GeoInv'
<1>1. LookInv /\ MarkInv /\ AgeInv
  BY DEF GeoInv
<1>2. UNCHANGED <<inflight, poll, job>>
  BY DEF Look, ReadRow, Remember
<1>3. LookInv' /\ MarkInv'
  BY <1>1, <1>2, MarksSame
<1>4. AgeInv'
  BY <1>1, LookAges, ReadRowAges, RememberAges
<1> QED
  BY <1>3, <1>4 DEF GeoInv

LEMMA GeoStart == GeoInit => GeoInv
<1> SUFFICES ASSUME GeoInit PROVE GeoInv
  OBVIOUS
<1>1. LookInv /\ MarkInv
  BY NothingMarked DEF GeoInit
<1>2. /\ hour = 0 /\ row = [ip \in Ip |-> -1] /\ answered = [ip \in Ip |-> -1]
      /\ view = [v \in Viewer |-> NoView] /\ cache = EmptyCache
  BY DEF GeoInit
<1>3. NoView.at = "idle" /\ {"at", "ip", "row"} \subseteq DOMAIN NoView
  BY DEF NoView
<1>4. Ages
  BY <1>2, <1>3 DEF Ages
<1>5. cache.entry = << >> /\ cache.order = << >> /\ {"entry", "order"} \subseteq DOMAIN cache
  BY <1>2 DEF EmptyCache
<1>6. IsCache(cache) /\ Locations
  BY <1>5, EmptyElements DEF IsCache, Locations
<1> QED
  BY <1>1, <1>4, <1>6 DEF GeoInv, AgeInv

LEMMA GeoSteps == GeoInv /\ [GeoNext]_geoVars => GeoInv'
<1> SUFFICES ASSUME GeoInv, [GeoNext]_geoVars PROVE GeoInv'
  OBVIOUS
<1>1. LookInv /\ MarkInv /\ AgeInv
  BY DEF GeoInv
<1>2. CASE SaveFlag
  <2>1. UNCHANGED <<hour, row, cache, inflight, poll, job, view, answered>>
    BY <1>2 DEF SaveFlag
  <2> QED
    BY <1>1, <2>1, MarksSame, AgesSame DEF GeoInv
<1>3. CASE PassTime
  <2>1. UNCHANGED <<inflight, poll, job>>
    BY <1>3 DEF PassTime
  <2> QED
    BY <1>1, <1>3, <2>1, MarksSame, PassTimeAges DEF GeoInv
<1>4. CASE UNCHANGED geoVars
  <2>1. UNCHANGED <<hour, row, cache, inflight, poll, job, view, answered>>
    BY <1>4 DEF geoVars
  <2> QED
    BY <1>1, <2>1, MarksSame, AgesSame DEF GeoInv
<1>5. CASE Restart
  BY <1>5, RestartInv
<1>6. ASSUME NEW p \in Prefetch,
             \/ Begin(p) \/ Claim(p) \/ Claimed(p) \/ Sweep(p) \/ EndSweep(p)
             \/ Launch(p) \/ BudgetEnds(p) \/ EndPrefetch(p)
      PROVE  GeoInv'
  BY <1>6, PrefetchInv
<1>7. ASSUME NEW j \in job,
             \/ Drop(j) \/ Enter(j) \/ Ask(j) \/ Fail(j) \/ CutOff(j) \/ Reject(j) \/ Locate(j) \/ Save(j)
      PROVE  GeoInv'
  BY <1>7, UnansweredInv, EnterInv, AskInv, LocateInv, SaveInv
<1>8. ASSUME NEW v \in Viewer, Look(v) \/ ReadRow(v) \/ Remember(v) PROVE GeoInv'
  BY <1>8, PanelInv
<1> QED
  BY <1>2, <1>3, <1>4, <1>5, <1>6, <1>7, <1>8 DEF GeoNext

LEMMA GeoInvariant == GeoSpec => []GeoInv
BY GeoStart, GeoSteps, PTL DEF GeoSpec

-----------------------------------------------------------------------------
(* Theorems *)

LEMMA HeldByOne ==
  ASSUME GeoInv
  PROVE  MarkHeldOnce
<1> SUFFICES ASSUME NEW ip \in Ip
             PROVE  Cardinality(Holders(ip)) = IF ip \in inflight THEN 1 ELSE 0
  BY DEF MarkHeldOnce
<1>1. PICK Claimants, Jobs : /\ Claimants = {p \in Prefetch : ip \in Claims(p)}
                             /\ Jobs = {j \in job : j.ip = ip /\ j.at # "save"}
  OBVIOUS
<1>2. Holders(ip) = Claimants \cup Jobs
  BY <1>1 DEF Holders
<1>3. \A p \in Prefetch : ClaimsNow[p] = Claims(p)
  BY DEF ClaimsNow, ClaimsOf, Claims
<1>4. \A j : j \in Jobs <=> j \in Lookers /\ j.ip = ip
  BY <1>1 DEF Lookers
<1>5. Marked(ClaimsNow, Lookers, inflight)
  BY DEF GeoInv, MarkInv
<1>6. ip \in inflight <=> Claimants # {} \/ Jobs # {}
  BY <1>1, <1>3, <1>4, <1>5 DEF Marked
<1>7. \A p, q \in Claimants : p = q
  BY <1>1, <1>3, <1>5 DEF Marked
<1>8. \A j, k \in Jobs : j = k
  BY <1>4, <1>5 DEF Marked
<1>9. Claimants = {} \/ Jobs = {}
  BY <1>1, <1>3, <1>4, <1>5 DEF Marked
<1>10. CASE ip \in inflight
  <2>1. PICK x : x \in Claimants \/ x \in Jobs
    BY <1>6, <1>10
  <2>2. CASE x \in Claimants
    <3>1. Claimants = {x} /\ Jobs = {}
      BY <1>7, <1>9, <2>2
    <3> QED
      BY <1>2, <1>10, <3>1, FS_Singleton
  <2>3. CASE x \in Jobs
    <3>1. Jobs = {x} /\ Claimants = {}
      BY <1>8, <1>9, <2>3
    <3> QED
      BY <1>2, <1>10, <3>1, FS_Singleton
  <2> QED
    BY <2>1, <2>2, <2>3
<1>11. CASE ip \notin inflight
  <2>1. Holders(ip) = {}
    BY <1>2, <1>6, <1>11
  <2> QED
    BY <1>11, <2>1, FS_EmptySet
<1> QED
  BY <1>10, <1>11

(* An address is marked as being looked up while exactly one prefetch or   *)
(* lookup answers for it: through overlapping polls, the database sweep,   *)
(* the cap, the budget, a refused permit and settings changed on the way.  *)
THEOREM MarksAreHeldOnce == GeoSpec => []MarkHeldOnce
BY GeoInvariant, HeldByOne, PTL

LEMMA NoneOutdated ==
  ASSUME GeoInv
  PROVE  NothingOutdated
BY DEF GeoInv, AgeInv, Locations, NothingOutdated

(* No location is shown beyond RowFor after the lookup that gave it,        *)
(* however often it left memory, or the process, and its row was read back. *)
THEOREM LocationsExpire == GeoSpec => []NothingOutdated
BY GeoInvariant, NoneOutdated, PTL

-----------------------------------------------------------------------------
(* IntelLookup *)

(* The settings: a writer holds writeMu from before it persists until      *)
(* after it has remembered, and in between saved is one step ahead.        *)
Writing(at) == at \in {"persist", "remember", "unlock"}
Ahead(c) == saved = [memory EXCEPT ![c.setting] = c.value]
KeyInv ==
  /\ writeMu \in Saver \cup {NoWriter}
  /\ DOMAIN save = Saver
  /\ \A s \in Saver :
       /\ {"at", "setting", "value"} \subseteq DOMAIN save[s]
       /\ Writing(save[s].at) <=> writeMu = s
       /\ save[s].at = "remember" => Ahead(save[s])
  /\ (\A s \in Saver : save[s].at # "remember") => memory = saved

(* A lookup of a hash that leads does so in a flight that is open, nobody   *)
(* else runs a flight that somebody ran, and what a lookup is about to keep *)
(* is no older than what is cached.                                         *)
Leads(c) == c.of \in Hash /\ c.at \in {"fetch", "asked", "refused", "keep"}
Ran(c) == c.of \in Hash /\ (c.at \in {"fetch", "asked", "refused", "keep"} \/ c.spent)
IsLookup(c) ==
  /\ {"at", "of", "test", "held", "fresh", "turn", "spent", "known", "told", "shown"} \subseteq DOMAIN c
  /\ c.at # "idle" => c.of \in Subject
  /\ c.at \in {"check", "join", "do"} => c.of \in Hash
  /\ c.at \in {"idle", "read", "check", "join", "do"} => ~c.spent
InFlight(c) ==
  /\ Leads(c) => flight[c.of].open /\ flight[c.of].led /\ flight[c.of].turn = c.turn
  /\ Ran(c) => /\ c.turn \in Nat /\ c.turn <= flight[c.of].turn
               /\ c.turn = flight[c.of].turn => flight[c.of].led
IsAnswer(r) == r.at \in Int /\ r.at <= date
Kept(c) ==
  c.at = "keep" =>
    /\ Current(c.fresh) /\ IsAnswer(c.fresh)
    /\ c.of \in Hash => intel[c.of].at <= c.fresh.at
(* Who has no answer knew of nothing, or is one of three who are told why. *)
Told(c) ==
  c.at = "told" /\ c.known =>
    \/ c.told \in {"answer", "unreadable"}
    \/ c.told = "unconfigured" /\ c.of \notin Keyless
    \/ c.told = "declined" /\ c.of \in Host
(* What a lookup knew of is still there, or in its hands. *)
Known(c) ==
  /\ Told(c)
  /\ c.known /\ c.at \notin {"idle", "told"} =>
       IF c.of \in Hash THEN Current(intel[c.of])
       ELSE IF c.at = "read" THEN Has(intel[c.of]) ELSE Has(c.held)
AskerInv(c) == IsLookup(c) /\ InFlight(c) /\ Kept(c) /\ Known(c)
Distinct ==
  \A a, b \in Asker :
    Ran(lookup[a]) /\ Ran(lookup[b]) /\ lookup[a].of = lookup[b].of /\ lookup[a].turn = lookup[b].turn => a = b
AnswersInv ==
  /\ date \in Nat
  /\ DOMAIN lookup = Asker /\ DOMAIN flight = Hash /\ DOMAIN intel = Subject
  /\ \A h \in Hash : {"turn", "open", "led"} \subseteq DOMAIN flight[h] /\ flight[h].turn \in Nat
  /\ \A x \in Subject : IsAnswer(intel[x])
  /\ \A a \in Asker : AskerInv(lookup[a])
  /\ Distinct

IntelInv == KeyInv /\ AnswersInv

-----------------------------------------------------------------------------
(* The settings *)

LEMMA SettingsSame == KeyInv /\ UNCHANGED <<saved, memory, writeMu, save>> => KeyInv'
BY DEF KeyInv, Ahead

(* A save that moves on while its writeMu, and what is saved, stay. *)
LEMMA SaveMoves ==
  ASSUME KeyInv, NEW s \in Saver, NEW c, save' = [save EXCEPT ![s] = c],
         {"at", "setting", "value"} \subseteq DOMAIN c,
         UNCHANGED <<saved, memory, writeMu>>,
         Writing(c.at) <=> Writing(save[s].at),
         save[s].at # "remember", c.at # "remember"
  PROVE  KeyInv'
<1>1. DOMAIN save = Saver /\ save'[s] = c /\ \A t \in Saver \ {s} : save'[t] = save[t]
  BY DEF KeyInv
<1> QED
  BY <1>1 DEF KeyInv, Ahead

LEMMA SaveSettingInv ==
  ASSUME KeyInv, NEW s \in Saver, SaveSteps(s)
  PROVE  KeyInv'
<1>1. DOMAIN save = Saver /\ {"at", "setting", "value"} \subseteq DOMAIN save[s]
  BY DEF KeyInv
<1>2. NoWriter \notin Saver
  BY IntelAssumption DEF NoWriter
<1>3. CASE RequestSave(s) \/ RotateToken(s)
  <2>1. PICK c : /\ save' = [save EXCEPT ![s] = c] /\ c.at = "lock"
                 /\ {"at", "setting", "value"} \subseteq DOMAIN c
    <3>1. PICK k, v : save' = [save EXCEPT ![s] = [at |-> "lock", setting |-> k, value |-> v]]
      BY <1>3 DEF RequestSave, RotateToken
    <3>2. PICK d : d = [at |-> "lock", setting |-> k, value |-> v]
      OBVIOUS
    <3>3. save' = [save EXCEPT ![s] = d] /\ d.at = "lock" /\ {"at", "setting", "value"} \subseteq DOMAIN d
      BY <3>1, <3>2
    <3> QED
      BY <3>3
  <2>2. save[s].at = "idle" /\ UNCHANGED <<saved, memory, writeMu>>
    BY <1>3 DEF RequestSave, RotateToken, Saving
  <2> QED
    BY <2>1, <2>2, SaveMoves DEF Writing
<1>4. ASSUME NEW at, SaveAt(s, at)
      PROVE  /\ DOMAIN save' = Saver /\ \A t \in Saver \ {s} : save'[t] = save[t]
             /\ {"at", "setting", "value"} \subseteq DOMAIN save'[s]
             /\ save'[s].at = at /\ save'[s].setting = save[s].setting /\ save'[s].value = save[s].value
  BY <1>1, <1>4 DEF SaveAt
<1>5. CASE Lock(s)
  <2>1. /\ save[s].at = "lock" /\ writeMu = NoWriter /\ writeMu' = s /\ SaveAt(s, "persist")
        /\ UNCHANGED <<saved, memory>>
    BY <1>5 DEF Lock, Saving, LockFree
  <2>2. save'[s].at = "persist" /\ \A t \in Saver \ {s} : save'[t] = save[t]
    BY <1>4, <2>1
  <2>3. \A t \in Saver : ~Writing(save[t].at)
    BY <1>2, <2>1 DEF KeyInv
  <2>4. \A t \in Saver : save[t].at # "remember" /\ save'[t].at # "remember"
    BY <2>2, <2>3 DEF Writing
  <2>5. \A t \in Saver : Writing(save'[t].at) <=> writeMu' = t
    BY <2>1, <2>2, <2>3 DEF Writing
  <2> QED
    BY <1>4, <2>1, <2>2, <2>4, <2>5 DEF KeyInv
<1>6. CASE Persist(s)
  <2>1. /\ save[s].at = "persist" /\ SaveAt(s, "remember") /\ UNCHANGED <<memory, writeMu>>
        /\ saved' = [saved EXCEPT ![save[s].setting] = save[s].value]
    BY <1>6 DEF Persist, Saving
  <2>2. /\ save'[s].at = "remember" /\ \A t \in Saver \ {s} : save'[t] = save[t]
        /\ save'[s].setting = save[s].setting /\ save'[s].value = save[s].value
    BY <1>4, <2>1
  <2>3. writeMu = s
    BY <2>1 DEF KeyInv, Writing
  <2>4. \A t \in Saver \ {s} : ~Writing(save[t].at)
    BY <2>3 DEF KeyInv
  <2>5. memory = saved
    BY <2>1, <2>4 DEF KeyInv, Writing
  <2>6. Ahead(save[s])' <=> saved' = [memory EXCEPT ![save'[s].setting] = save'[s].value]
    BY <2>1 DEF Ahead
  <2>7. Ahead(save[s])'
    BY <2>1, <2>2, <2>5, <2>6
  <2>8. \A t \in Saver \ {s} : save'[t].at # "remember"
    BY <2>2, <2>4 DEF Writing
  <2>9. \A t \in Saver : Writing(save'[t].at) <=> writeMu' = t
    BY <2>1, <2>2, <2>3, <2>4 DEF Writing
  <2> QED
    BY <1>4, <2>1, <2>2, <2>7, <2>8, <2>9 DEF KeyInv
<1>7. CASE FailToPersist(s)
  <2>1. /\ save[s].at = "persist" /\ UNCHANGED <<saved, memory, writeMu>>
        /\ save' = [save EXCEPT ![s].at = "unlock"]
    BY <1>7 DEF FailToPersist, Saving, SaveAt
  <2>2. PICK c : c = [save[s] EXCEPT !.at = "unlock"]
    OBVIOUS
  <2>3. save' = [save EXCEPT ![s] = c] /\ c.at = "unlock" /\ {"at", "setting", "value"} \subseteq DOMAIN c
    BY <1>1, <2>1, <2>2
  <2> QED
    BY <2>1, <2>3, SaveMoves DEF Writing
<1>8. CASE RememberSetting(s)
  <2>1. /\ save[s].at = "remember" /\ SaveAt(s, "unlock") /\ UNCHANGED <<saved, writeMu>>
        /\ memory' = [memory EXCEPT ![save[s].setting] = save[s].value]
    BY <1>8 DEF RememberSetting, Saving
  <2>2. save'[s].at = "unlock" /\ \A t \in Saver \ {s} : save'[t] = save[t]
    BY <1>4, <2>1
  <2>3. memory' = saved'
    BY <2>1 DEF KeyInv, Ahead
  <2>4. writeMu = s
    BY <2>1 DEF KeyInv, Writing
  <2>5. \A t \in Saver \ {s} : ~Writing(save[t].at)
    BY <2>4 DEF KeyInv
  <2>6. \A t \in Saver : save'[t].at # "remember"
    BY <2>2, <2>5 DEF Writing
  <2>7. \A t \in Saver : Writing(save'[t].at) <=> writeMu' = t
    BY <2>1, <2>2, <2>4, <2>5 DEF Writing
  <2> QED
    BY <1>4, <2>1, <2>2, <2>3, <2>6, <2>7 DEF KeyInv
<1>9. CASE Unlock(s)
  <2>1. /\ save[s].at = "unlock" /\ UNCHANGED <<saved, memory>> /\ writeMu' = NoWriter
        /\ save' = [save EXCEPT ![s] = NoSave]
    BY <1>9 DEF Unlock, Saving
  <2>2. DOMAIN save' = Saver /\ save'[s] = NoSave /\ \A t \in Saver \ {s} : save'[t] = save[t]
    BY <1>1, <2>1
  <2>3. NoSave.at = "idle" /\ {"at", "setting", "value"} \subseteq DOMAIN NoSave
    BY DEF NoSave
  <2>4. writeMu = s
    BY <2>1 DEF KeyInv, Writing
  <2>5. \A t \in Saver \ {s} : ~Writing(save[t].at)
    BY <2>4 DEF KeyInv
  <2>6. \A t \in Saver : ~Writing(save'[t].at)
    BY <2>2, <2>3, <2>5 DEF Writing
  <2>7. \A t \in Saver : save'[t].at # "remember" /\ save[t].at # "remember"
    BY <2>1, <2>5, <2>6 DEF Writing
  <2>8. memory' = saved'
    BY <2>1, <2>7 DEF KeyInv
  <2>9. \A t \in Saver : {"at", "setting", "value"} \subseteq DOMAIN save'[t]
    BY <2>2, <2>3 DEF KeyInv
  <2> QED
    BY <1>2, <2>1, <2>2, <2>6, <2>7, <2>8, <2>9 DEF KeyInv
<1> QED
  BY <1>3, <1>5, <1>6, <1>7, <1>8, <1>9 DEF SaveSteps

-----------------------------------------------------------------------------
(* The lookups *)

LEMMA LookupsSame ==
  AnswersInv /\ LookupsKept /\ date' \in Nat /\ date <= date' => AnswersInv'
<1> SUFFICES ASSUME AnswersInv, LookupsKept, date' \in Nat, date <= date' PROVE AnswersInv'
  OBVIOUS
<1>1. UNCHANGED <<intel, lookup, flight>> /\ date \in Nat
  BY DEF LookupsKept, AnswersInv
<1>2. \A r : IsAnswer(r) => IsAnswer(r)'
  BY <1>1 DEF IsAnswer
<1>3. \A x \in Subject : IsAnswer(intel[x])'
  BY <1>1 DEF AnswersInv, IsAnswer
<1>4. ASSUME NEW a \in Asker PROVE AskerInv(lookup[a])'
  <2>1. AskerInv(lookup[a])
    BY DEF AnswersInv
  <2>2. IsLookup(lookup[a])' /\ InFlight(lookup[a])' /\ Known(lookup[a])'
    BY <1>1, <2>1 DEF AskerInv, IsLookup, InFlight, Known
  <2>3. Kept(lookup[a])'
    BY <1>1, <2>1 DEF AskerInv, Kept, IsAnswer
  <2> QED
    BY <2>2, <2>3 DEF AskerInv
<1>5. Distinct'
  BY <1>1 DEF AnswersInv, Distinct
<1> QED
  BY <1>1, <1>3, <1>4, <1>5 DEF AnswersInv

(* A hash has one leader. *)
LEMMA Alone ==
  ASSUME AnswersInv, NEW a \in Asker, NEW b \in Asker,
         Leads(lookup[a]), Leads(lookup[b]), lookup[a].of = lookup[b].of
  PROVE  a = b
<1>1. lookup[a].turn = lookup[b].turn
  BY DEF AnswersInv, AskerInv, InFlight
<1>2. Ran(lookup[a]) /\ Ran(lookup[b])
  BY DEF Leads, Ran
<1> QED
  BY <1>1, <1>2 DEF AnswersInv, Distinct

(* A step that neither begins to lead nor writes. *)
LEMMA AskMoves ==
  ASSUME AnswersInv, NEW a \in Asker, NEW c, lookup' = [lookup EXCEPT ![a] = c],
         UNCHANGED <<date, intel, flight>>,
         AskerInv(c), Ran(c) => Ran(lookup[a]) /\ c.of = lookup[a].of /\ c.turn = lookup[a].turn
  PROVE  AnswersInv'
<1>1. DOMAIN lookup' = Asker /\ lookup'[a] = c /\ \A b \in Asker \ {a} : lookup'[b] = lookup[b]
  BY DEF AnswersInv
<1>2. ASSUME NEW b \in Asker PROVE AskerInv(lookup[b])'
  <2>1. AskerInv(lookup'[b])
    BY <1>1 DEF AnswersInv
  <2> QED
    BY <2>1 DEF AskerInv, IsLookup, InFlight, Kept, Known, IsAnswer
<1>3. Distinct'
  BY <1>1 DEF AnswersInv, Distinct
<1>4. \A x \in Subject : IsAnswer(intel[x])'
  BY DEF AnswersInv, IsAnswer
<1> QED
  BY <1>1, <1>2, <1>3, <1>4 DEF AnswersInv

LEMMA NoLookupHolds == AskerInv(NoLookup) /\ ~Ran(NoLookup)
<1>1. {"at", "of", "test", "held", "fresh", "turn", "spent", "known", "told", "shown"} \subseteq DOMAIN NoLookup
  BY DEF NoLookup
<1>2. NoLookup.at = "idle" /\ ~NoLookup.spent /\ ~NoLookup.known
  BY DEF NoLookup
<1>3. ~Ran(NoLookup) /\ ~Leads(NoLookup)
  BY <1>2 DEF Ran, Leads
<1> QED
  BY <1>1, <1>2, <1>3 DEF AskerInv, IsLookup, InFlight, Kept, Known, Told

(* What a lookup may be told that knows of something. *)
MayTell(a, what) ==
  lookup[a].known =>
    \/ what \in {"answer", "unreadable"}
    \/ what = "unconfigured" /\ Of(a) \notin Keyless
    \/ what = "declined" /\ Of(a) \in Host

(* A lookup that is told something has nothing left to keep to. *)
LEMMA Telling ==
  ASSUME AnswersInv, NEW a \in Asker, NEW what, NEW r, Tell(a, what, r),
         UNCHANGED <<date, intel, flight>>,
         lookup[a].at # "idle", MayTell(a, what)
  PROVE  AnswersInv'
<1>1. AskerInv(lookup[a]) /\ DOMAIN lookup = Asker
  BY DEF AnswersInv
<1>2. PICK c : c = [lookup[a] EXCEPT !.at = "told", !.told = what, !.shown = r]
  OBVIOUS
<1>3. lookup' = [lookup EXCEPT ![a] = c]
  BY <1>1, <1>2 DEF Tell
<1>4. /\ c.at = "told" /\ c.told = what /\ c.of = lookup[a].of /\ c.known = lookup[a].known
      /\ c.turn = lookup[a].turn /\ c.spent = lookup[a].spent
      /\ {"at", "of", "test", "held", "fresh", "turn", "spent", "known", "told", "shown"} \subseteq DOMAIN c
  BY <1>1, <1>2 DEF AskerInv, IsLookup
<1>5. ~Leads(c) /\ (Ran(c) => Ran(lookup[a]))
  BY <1>4 DEF Leads, Ran
<1>6. IsLookup(c) /\ InFlight(c) /\ Kept(c)
  BY <1>1, <1>4, <1>5 DEF AskerInv, IsLookup, InFlight, Kept
<1>7. Known(c)
  BY <1>4 DEF Known, Told, MayTell, Of
<1> QED
  BY <1>3, <1>4, <1>5, <1>6, <1>7, AskMoves DEF AskerInv

(* A lookup of a hash that goes on to ask. *)
LEMMA Going ==
  ASSUME AnswersInv, NEW a \in Asker, NEW at, Goes(a, at),
         UNCHANGED <<date, intel, flight>>,
         at \in {"check", "join"}, Of(a) \in Hash, lookup[a].at \in {"read", "check"}
  PROVE  AnswersInv'
<1>1. AskerInv(lookup[a]) /\ DOMAIN lookup = Asker
  BY DEF AnswersInv
<1>2. PICK c : c = [lookup[a] EXCEPT !.at = at]
  OBVIOUS
<1>3. lookup' = [lookup EXCEPT ![a] = c]
  BY <1>1, <1>2 DEF Goes
<1>4. /\ c.at = at /\ c.of = lookup[a].of /\ c.known = lookup[a].known /\ c.spent = lookup[a].spent
      /\ {"at", "of", "test", "held", "fresh", "turn", "spent", "known", "told", "shown"} \subseteq DOMAIN c
  BY <1>1, <1>2 DEF AskerInv, IsLookup
<1>5. ~c.spent
  BY <1>1, <1>4 DEF AskerInv, IsLookup
<1>6. ~Leads(c) /\ ~Ran(c)
  BY <1>4, <1>5 DEF Leads, Ran
<1>7. IsLookup(c) /\ InFlight(c) /\ Kept(c)
  BY <1>1, <1>4, <1>5, <1>6 DEF AskerInv, IsLookup, InFlight, Kept, Of
<1>8. Known(c)
  BY <1>1, <1>4 DEF AskerInv, Known, Told, Of
<1> QED
  BY <1>3, <1>6, <1>7, <1>8, AskMoves DEF AskerInv

LEMMA BeginsInv ==
  ASSUME AnswersInv, NEW a \in Asker, Begins(a)
  PROVE  AnswersInv'
<1>1. UNCHANGED <<date, intel, flight>>
  BY DEF Begins, Inquire, Test, Glance, Decorate, SettingsKept
<1>2. Host \cap Hash = {}
  BY IntelAssumption
<1>3. CASE Inquire(a)
  <2>1. PICK x \in Subject :
          LET begun == [NoLookup EXCEPT !.at = "read", !.of = x, !.known = Readable(x, intel[x])]
          IN lookup' = [lookup EXCEPT ![a] =
               IF x \in Host \/ Configured(x) THEN begun
               ELSE [begun EXCEPT !.at = "told", !.told = "unconfigured"]]
    BY <1>3 DEF Inquire
  <2>2. PICK b : b = [NoLookup EXCEPT !.at = "read", !.of = x, !.known = Readable(x, intel[x])]
    OBVIOUS
  <2>3. PICK c : c = IF x \in Host \/ Configured(x) THEN b ELSE [b EXCEPT !.at = "told", !.told = "unconfigured"]
    OBVIOUS
  <2>4. lookup' = [lookup EXCEPT ![a] = c]
    BY <2>1, <2>2, <2>3
  <2>5. /\ b.at = "read" /\ b.of = x /\ ~b.spent /\ b.known = Readable(x, intel[x])
        /\ {"at", "of", "test", "held", "fresh", "turn", "spent", "known", "told", "shown"} \subseteq DOMAIN b
    BY <2>2 DEF NoLookup
  <2>6. CASE x \in Host \/ Configured(x)
    <3>1. c = b
      BY <2>3, <2>6
    <3>2. ~Leads(c) /\ ~Ran(c)
      BY <2>5, <3>1 DEF Leads, Ran
    <3>3. AskerInv(c)
      BY <2>5, <3>1, <3>2 DEF AskerInv, IsLookup, InFlight, Kept, Known, Told, Readable
    <3> QED
      BY <1>1, <2>4, <3>2, <3>3, AskMoves
  <2>7. CASE ~(x \in Host \/ Configured(x))
    <3>1. c = [b EXCEPT !.at = "told", !.told = "unconfigured"]
      BY <2>3, <2>7
    <3>2. /\ c.at = "told" /\ c.told = "unconfigured" /\ c.of = x /\ ~c.spent
          /\ {"at", "of", "test", "held", "fresh", "turn", "spent", "known", "told", "shown"} \subseteq DOMAIN c
      BY <2>5, <3>1
    <3>3. ~Leads(c) /\ ~Ran(c)
      BY <3>2 DEF Leads, Ran
    <3>4. x \notin Keyless
      BY <2>7 DEF Configured
    <3>5. AskerInv(c)
      BY <3>2, <3>3, <3>4 DEF AskerInv, IsLookup, InFlight, Kept, Known, Told
    <3> QED
      BY <1>1, <2>4, <3>3, <3>5, AskMoves
  <2> QED
    BY <2>6, <2>7
<1>4. CASE Test(a)
  <2>1. PICK x \in Host :
          lookup' = [lookup EXCEPT ![a] = [NoLookup EXCEPT !.at = "fetch", !.of = x, !.test = TRUE]]
    BY <1>4 DEF Test
  <2>2. PICK c : c = [NoLookup EXCEPT !.at = "fetch", !.of = x, !.test = TRUE]
    OBVIOUS
  <2>3. /\ c.at = "fetch" /\ c.of = x /\ ~c.spent /\ ~c.known
        /\ {"at", "of", "test", "held", "fresh", "turn", "spent", "known", "told", "shown"} \subseteq DOMAIN c
    BY <2>2 DEF NoLookup
  <2>4. ~Leads(c) /\ ~Ran(c) /\ x \in Subject
    BY <1>2, <2>3 DEF Leads, Ran, Subject
  <2>5. AskerInv(c)
    BY <2>3, <2>4 DEF AskerInv, IsLookup, InFlight, Kept, Known, Told
  <2> QED
    BY <1>1, <2>1, <2>2, <2>4, <2>5, AskMoves
<1>5. CASE Glance(a) \/ Decorate(a)
  <2>1. PICK h \in Hash :
          lookup' = [lookup EXCEPT ![a] =
            [NoLookup EXCEPT !.at = "told", !.of = h, !.told = "answer", !.shown = intel[h]]]
    BY <1>5 DEF Glance, Decorate
  <2>2. PICK c : c = [NoLookup EXCEPT !.at = "told", !.of = h, !.told = "answer", !.shown = intel[h]]
    OBVIOUS
  <2>3. /\ c.at = "told" /\ c.of = h /\ c.told = "answer" /\ ~c.spent
        /\ {"at", "of", "test", "held", "fresh", "turn", "spent", "known", "told", "shown"} \subseteq DOMAIN c
    BY <2>2 DEF NoLookup
  <2>4. ~Leads(c) /\ ~Ran(c) /\ h \in Subject
    BY <2>3 DEF Leads, Ran, Subject
  <2>5. AskerInv(c)
    BY <2>3, <2>4 DEF AskerInv, IsLookup, InFlight, Kept, Known, Told
  <2> QED
    BY <1>1, <2>1, <2>2, <2>4, <2>5, AskMoves
<1> QED
  BY <1>3, <1>4, <1>5 DEF Begins

(* Reading the cache: what is not good enough is held on to. *)
LEMMA ReadCacheInv ==
  ASSUME AnswersInv, NEW a \in Asker, ReadCache(a)
  PROVE  AnswersInv'
<1>1. lookup[a].at = "read" /\ UNCHANGED <<date, intel, flight>>
  BY DEF ReadCache, SettingsKept, AtStep
<1>2. PICK r : r = intel[Of(a)]
  OBVIOUS
<1>3. CASE Readable(Of(a), r) /\ Unexpired(Of(a), r)
  <2>1. Tell(a, "answer", r)
    BY <1>2, <1>3 DEF ReadCache
  <2> QED
    BY <1>1, <2>1, Telling DEF MayTell
<1>4. CASE ~(Readable(Of(a), r) /\ Unexpired(Of(a), r))
  <2>1. AskerInv(lookup[a]) /\ DOMAIN lookup = Asker
    BY DEF AnswersInv
  <2>2. PICK at : at = IF Of(a) \in Hash THEN "check" ELSE "fetch"
    OBVIOUS
  <2>3. PICK c : c = [lookup[a] EXCEPT !.at = at, !.held = r]
    OBVIOUS
  <2>4. lookup' = [lookup EXCEPT ![a].at = at, ![a].held = r]
    BY <1>2, <1>4, <2>2 DEF ReadCache
  <2>5. lookup' = [lookup EXCEPT ![a] = c]
    BY <2>1, <2>3, <2>4
  <2>6. /\ c.at = at /\ c.of = lookup[a].of /\ c.known = lookup[a].known
        /\ c.spent = lookup[a].spent /\ c.held = r
        /\ {"at", "of", "test", "held", "fresh", "turn", "spent", "known", "told", "shown"} \subseteq DOMAIN c
    BY <2>1, <2>3 DEF AskerInv, IsLookup
  <2>7. ~c.spent
    BY <1>1, <2>1, <2>6 DEF AskerInv, IsLookup
  <2>8. ~Leads(c) /\ ~Ran(c)
    BY <2>2, <2>6, <2>7 DEF Leads, Ran, Of
  <2>9. IsLookup(c) /\ InFlight(c) /\ Kept(c)
    BY <1>1, <2>1, <2>2, <2>6, <2>7, <2>8 DEF AskerInv, IsLookup, InFlight, Kept, Of
  <2>10. Known(c)
    BY <1>1, <1>2, <2>1, <2>2, <2>6 DEF AskerInv, Known, Told, Of
  <2> QED
    BY <2>5, <2>8, <2>9, <2>10, <1>1, AskMoves DEF AskerInv
<1> QED
  BY <1>3, <1>4

LEMMA MisreadInv ==
  ASSUME AnswersInv, NEW a \in Asker, Misread(a)
  PROVE  AnswersInv'
<1>1. lookup[a].at = "read" /\ UNCHANGED <<date, intel, flight>>
  BY DEF Misread, SettingsKept, AtStep
<1>2. CASE Of(a) \in Hash
  <2>1. Goes(a, "check")
    BY <1>2 DEF Misread
  <2> QED
    BY <1>1, <1>2, <2>1, Going
<1>3. CASE Of(a) \notin Hash
  <2>1. Tell(a, "unreadable", NoAnswer)
    BY <1>3 DEF Misread
  <2> QED
    BY <1>1, <2>1, Telling DEF MayTell
<1> QED
  BY <1>2, <1>3

LEMMA CheckKeyInv ==
  ASSUME AnswersInv, NEW a \in Asker, CheckKey(a)
  PROVE  AnswersInv'
<1>1. lookup[a].at = "check" /\ UNCHANGED <<date, intel, flight>>
  BY DEF CheckKey, SettingsKept, AtStep
<1>2. Of(a) \in Hash
  BY <1>1 DEF AnswersInv, AskerInv, IsLookup, Of
<1>3. CASE Configured(Of(a))
  BY <1>1, <1>2, <1>3, Going DEF CheckKey
<1>4. CASE ~Configured(Of(a))
  <2>1. Tell(a, "unconfigured", NoAnswer) /\ MayTell(a, "unconfigured")
    BY <1>4 DEF CheckKey, MayTell, Configured
  <2> QED
    BY <1>1, <2>1, Telling
<1> QED
  BY <1>3, <1>4

(* Who reads the cache again knows of nothing if nothing is there. *)
LEMMA FallBackInv ==
  ASSUME AnswersInv, NEW a \in Asker, lookup[a].at # "idle", NEW r,
         lookup[a].known => Readable(Of(a), r),
         FallBackTo(a, r) \/ Tell(a, "unreadable", NoAnswer),
         UNCHANGED <<date, intel, flight>>
  PROVE  AnswersInv'
<1>1. CASE Tell(a, "answer", r)
  BY <1>1, Telling DEF MayTell
<1>2. CASE Tell(a, "nothing", NoAnswer) /\ ~lookup[a].known
  BY <1>2, Telling DEF MayTell
<1>3. CASE Tell(a, "unreadable", NoAnswer)
  BY <1>3, Telling DEF MayTell
<1> QED
  BY <1>1, <1>2, <1>3 DEF FallBackTo

LEMMA FollowLeadInv ==
  ASSUME AnswersInv, NEW a \in Asker, FollowLead(a)
  PROVE  AnswersInv'
<1>1. lookup[a].at = "do" /\ UNCHANGED <<date, intel, flight>>
  BY DEF FollowLead, SettingsKept, AtStep
<1>2. AskerInv(lookup[a])
  BY DEF AnswersInv
<1>3. lookup[a].known => Readable(Of(a), intel[Of(a)])
  BY <1>1, <1>2 DEF AskerInv, IsLookup, Known, Readable, Of
<1>4. FallBackTo(a, intel[Of(a)]) \/ Tell(a, "unreadable", NoAnswer)
  BY DEF FollowLead, FailsToReadAgain
<1> QED
  BY <1>1, <1>3, <1>4, FallBackInv

(* An answer is as new as it can be. *)
LEMMA AnsweredInv ==
  ASSUME AnswersInv, NEW a \in Asker, Answered(a)
  PROVE  AnswersInv'
<1>1. lookup[a].at = "asked" /\ UNCHANGED <<date, intel, flight>>
  BY DEF Answered, SettingsKept, AtStep
<1>2. PICK found, r :
        /\ r = [at |-> date, found |-> found, layout |-> CurrentLayout]
        /\ IF lookup[a].test THEN Tell(a, "answer", r)
           ELSE lookup' = [lookup EXCEPT ![a].at = "keep", ![a].fresh = r]
  <2>1. PICK found \in BOOLEAN :
          LET r == [at |-> date, found |-> found, layout |-> CurrentLayout]
          IN IF lookup[a].test THEN Tell(a, "answer", r)
             ELSE lookup' = [lookup EXCEPT ![a].at = "keep", ![a].fresh = r]
    BY DEF Answered
  <2>2. PICK r : r = [at |-> date, found |-> found, layout |-> CurrentLayout]
    OBVIOUS
  <2>3. IF lookup[a].test THEN Tell(a, "answer", r)
        ELSE lookup' = [lookup EXCEPT ![a].at = "keep", ![a].fresh = r]
    BY <2>1, <2>2
  <2> QED
    BY <2>2, <2>3
<1>3. CASE Tell(a, "answer", r)
  BY <1>1, <1>3, Telling DEF MayTell
<1>4. CASE lookup' = [lookup EXCEPT ![a].at = "keep", ![a].fresh = r]
  <2>1. AskerInv(lookup[a]) /\ DOMAIN lookup = Asker /\ date \in Nat
    BY DEF AnswersInv
  <2>2. PICK c : c = [lookup[a] EXCEPT !.at = "keep", !.fresh = r]
    OBVIOUS
  <2>3. lookup' = [lookup EXCEPT ![a] = c]
    BY <1>4, <2>1, <2>2
  <2>4. /\ c.at = "keep" /\ c.of = lookup[a].of /\ c.known = lookup[a].known
        /\ c.held = lookup[a].held /\ c.turn = lookup[a].turn /\ c.fresh = r
        /\ {"at", "of", "test", "held", "fresh", "turn", "spent", "known", "told", "shown"} \subseteq DOMAIN c
    BY <2>1, <2>2 DEF AskerInv, IsLookup
  <2>5. (Leads(c) => Leads(lookup[a])) /\ (Ran(c) => Ran(lookup[a]))
    BY <1>1, <2>4 DEF Leads, Ran
  <2>6. IsLookup(c) /\ InFlight(c) /\ Known(c)
    BY <1>1, <2>1, <2>4, <2>5 DEF AskerInv, IsLookup, InFlight, Known, Told
  <2>7. c.of \in Subject
    BY <1>1, <2>1, <2>4 DEF AskerInv, IsLookup
  <2>8. r.at = date /\ r.layout = CurrentLayout
    BY <1>2
  <2>9. Current(r) /\ IsAnswer(r) /\ intel[c.of].at <= r.at
    BY <2>1, <2>7, <2>8 DEF Current, Has, IsAnswer, AnswersInv
  <2>10. Kept(c)
    BY <2>4, <2>9 DEF Kept
  <2> QED
    BY <1>1, <2>3, <2>4, <2>5, <2>6, <2>10, AskMoves DEF AskerInv
<1> QED
  BY <1>2, <1>3, <1>4

LEMMA RespondInv ==
  ASSUME AnswersInv, NEW a \in Asker, Respond(a)
  PROVE  AnswersInv'
<1>1. UNCHANGED <<date, intel, flight>> /\ lookup' = [lookup EXCEPT ![a] = NoLookup]
  BY DEF Respond, SettingsKept
<1> QED
  BY <1>1, NoLookupHolds, AskMoves

(* A flight is open until its leader lets go of it, so joining one never   *)
(* leaves a leader behind.                                                 *)
LEMMA JoinInv ==
  ASSUME AnswersInv, NEW a \in Asker, Join(a)
  PROVE  AnswersInv'
<1>1. lookup[a].at = "join" /\ UNCHANGED <<date, intel>>
  BY DEF Join, SettingsKept, AtStep
<1>2. AskerInv(lookup[a]) /\ DOMAIN lookup = Asker /\ DOMAIN flight = Hash
  BY DEF AnswersInv
<1>3. PICK h : h = lookup[a].of
  OBVIOUS
<1>4. h \in Hash
  BY <1>1, <1>2, <1>3 DEF AskerInv, IsLookup
<1>5. PICK f : f = OnFlight(flight[h])
  OBVIOUS
<1>6. /\ f = flight[h] \/ (~flight[h].open /\ f.turn = flight[h].turn + 1)
      /\ {"turn", "open", "led"} \subseteq DOMAIN f
  <2>1. CASE flight[h].open
    BY <1>4, <1>5, <2>1 DEF OnFlight, AnswersInv
  <2>2. CASE ~flight[h].open
    BY <1>5, <2>2 DEF OnFlight
  <2> QED
    BY <2>1, <2>2
<1>7. flight' = [flight EXCEPT ![h] = f]
  BY <1>2, <1>3, <1>4, <1>5 DEF Join, Of
<1>8. PICK c : c = [lookup[a] EXCEPT !.at = "do", !.turn = OnFlight(flight[Of(a)]).turn]
  OBVIOUS
<1>9. lookup' = [lookup EXCEPT ![a].at = "do", ![a].turn = OnFlight(flight[Of(a)]).turn]
  BY DEF Join
<1>10. lookup' = [lookup EXCEPT ![a] = c]
  BY <1>2, <1>8, <1>9
<1>11. /\ c.at = "do" /\ c.of = h /\ c.known = lookup[a].known /\ ~c.spent
       /\ {"at", "of", "test", "held", "fresh", "turn", "spent", "known", "told", "shown"} \subseteq DOMAIN c
  BY <1>1, <1>2, <1>3, <1>8 DEF AskerInv, IsLookup
<1>12. ~Leads(c) /\ ~Ran(c)
  BY <1>11 DEF Leads, Ran
<1>13. DOMAIN lookup' = Asker /\ lookup'[a] = c /\ \A b \in Asker \ {a} : lookup'[b] = lookup[b]
  BY <1>2, <1>10
<1>14. DOMAIN flight' = Hash /\ flight'[h] = f /\ \A g \in Hash \ {h} : flight'[g] = flight[g]
  BY <1>2, <1>4, <1>7
<1>15. ASSUME NEW b \in Asker \ {a} PROVE AskerInv(lookup[b])'
  <2>1. AskerInv(lookup[b]) /\ lookup'[b] = lookup[b]
    BY <1>13 DEF AnswersInv
  <2>2. Leads(lookup[b]) => flight'[lookup[b].of] = flight[lookup[b].of]
    BY <1>6, <1>14, <2>1 DEF AskerInv, InFlight, Leads
  <2>3. flight[h].turn \in Nat
    BY <1>4 DEF AnswersInv
  <2>4. Ran(lookup[b]) => /\ lookup[b].turn \in Nat /\ lookup[b].turn <= flight'[lookup[b].of].turn
                          /\ lookup[b].turn = flight'[lookup[b].of].turn => flight'[lookup[b].of].led
    BY <1>6, <1>14, <2>1, <2>3 DEF AskerInv, InFlight, Ran
  <2>5. IsLookup(lookup[b])' /\ Kept(lookup[b])' /\ Known(lookup[b])'
    BY <1>1, <2>1 DEF AskerInv, IsLookup, Kept, Known, IsAnswer
  <2>6. InFlight(lookup[b])'
    BY <2>1, <2>2, <2>4 DEF AskerInv, InFlight
  <2> QED
    BY <2>5, <2>6 DEF AskerInv
<1>16. AskerInv(lookup[a])'
  <2>1. IsLookup(c) /\ Kept(c) /\ Known(c)
    BY <1>1, <1>2, <1>3, <1>4, <1>11 DEF AskerInv, IsLookup, Kept, Known, Told
  <2>2. IsLookup(lookup[a])' /\ Kept(lookup[a])' /\ Known(lookup[a])'
    BY <1>1, <1>13, <2>1 DEF IsLookup, Kept, Known, IsAnswer
  <2>3. InFlight(lookup[a])'
    BY <1>12, <1>13 DEF InFlight
  <2> QED
    BY <2>2, <2>3 DEF AskerInv
<1>17. \A g \in Hash : {"turn", "open", "led"} \subseteq DOMAIN flight'[g] /\ flight'[g].turn \in Nat
  BY <1>6, <1>14 DEF AnswersInv
<1>18. Distinct'
  BY <1>12, <1>13 DEF AnswersInv, Distinct
<1>19. date' \in Nat /\ DOMAIN intel' = Subject /\ \A x \in Subject : IsAnswer(intel[x])'
  BY <1>1 DEF AnswersInv, IsAnswer
<1> QED
  BY <1>13, <1>14, <1>15, <1>16, <1>17, <1>18, <1>19 DEF AnswersInv

(* The first to run a flight finds it unled: nobody else leads there. *)
LEMMA LeadInv ==
  ASSUME AnswersInv, NEW a \in Asker, Lead(a)
  PROVE  AnswersInv'
<1>1. lookup[a].at = "do" /\ UNCHANGED <<date, intel>>
  BY DEF Lead, SettingsKept, AtStep
<1>2. AskerInv(lookup[a]) /\ DOMAIN lookup = Asker /\ DOMAIN flight = Hash
  BY DEF AnswersInv
<1>3. PICK h : h = lookup[a].of
  OBVIOUS
<1>4. h \in Hash
  BY <1>1, <1>2, <1>3 DEF AskerInv, IsLookup
<1>5. flight[h] = [turn |-> lookup[a].turn, open |-> TRUE, led |-> FALSE]
  BY <1>3 DEF Lead, Of
<1>6. flight[h].turn = lookup[a].turn /\ flight[h].open /\ ~flight[h].led
  BY <1>5
<1>7. PICK f : f = [flight[h] EXCEPT !.led = TRUE]
  OBVIOUS
<1>8. /\ f.turn = lookup[a].turn /\ f.open /\ f.led
      /\ {"turn", "open", "led"} \subseteq DOMAIN f
  BY <1>5, <1>7
<1>9. flight' = [flight EXCEPT ![h] = f]
  BY <1>2, <1>3, <1>4, <1>7 DEF Lead, Of
<1>10. PICK c : c = [lookup[a] EXCEPT !.at = "fetch"]
  OBVIOUS
<1>11. lookup' = [lookup EXCEPT ![a] = c]
  BY <1>2, <1>10 DEF Lead, Goes
<1>12. /\ c.at = "fetch" /\ c.of = h /\ c.known = lookup[a].known
       /\ c.turn = lookup[a].turn
       /\ {"at", "of", "test", "held", "fresh", "turn", "spent", "known", "told", "shown"} \subseteq DOMAIN c
  BY <1>2, <1>3, <1>10 DEF AskerInv, IsLookup
<1>13. DOMAIN lookup' = Asker /\ lookup'[a] = c /\ \A b \in Asker \ {a} : lookup'[b] = lookup[b]
  BY <1>2, <1>11
<1>14. DOMAIN flight' = Hash /\ flight'[h] = f /\ \A g \in Hash \ {h} : flight'[g] = flight[g]
  BY <1>2, <1>4, <1>9
<1>15. ASSUME NEW b \in Asker \ {a}
       PROVE  AskerInv(lookup[b])' /\ ~(Ran(lookup[b]) /\ lookup[b].of = h /\ lookup[b].turn = c.turn)
  <2>1. AskerInv(lookup[b]) /\ lookup'[b] = lookup[b]
    BY <1>13 DEF AnswersInv
  <2>2. /\ ~(Leads(lookup[b]) /\ lookup[b].of = h)
        /\ ~(Ran(lookup[b]) /\ lookup[b].of = h /\ lookup[b].turn = c.turn)
    BY <1>6, <1>12, <2>1 DEF AskerInv, InFlight
  <2>3. Leads(lookup[b]) => flight'[lookup[b].of] = flight[lookup[b].of]
    BY <1>14, <2>2 DEF Leads
  <2>4. Ran(lookup[b]) => /\ lookup[b].turn \in Nat /\ lookup[b].turn <= flight'[lookup[b].of].turn
                          /\ lookup[b].turn = flight'[lookup[b].of].turn => flight'[lookup[b].of].led
    BY <1>6, <1>8, <1>14, <2>1 DEF AskerInv, InFlight, Ran
  <2>5. IsLookup(lookup[b])' /\ Kept(lookup[b])' /\ Known(lookup[b])'
    BY <1>1, <2>1 DEF AskerInv, IsLookup, Kept, Known, IsAnswer
  <2>6. InFlight(lookup[b])'
    BY <2>1, <2>3, <2>4 DEF AskerInv, InFlight
  <2> QED
    BY <2>2, <2>5, <2>6 DEF AskerInv
<1>16. AskerInv(lookup[a])'
  <2>1. IsLookup(c) /\ Kept(c) /\ Known(c)
    BY <1>1, <1>2, <1>3, <1>4, <1>12 DEF AskerInv, IsLookup, Kept, Known, Told
  <2>2. IsLookup(lookup[a])' /\ Kept(lookup[a])' /\ Known(lookup[a])'
    BY <1>1, <1>13, <2>1 DEF IsLookup, Kept, Known, IsAnswer
  <2>3. c.turn \in Nat
    BY <1>4, <1>6, <1>12 DEF AnswersInv
  <2>4. InFlight(lookup[a])'
    BY <1>8, <1>12, <1>13, <1>14, <2>3 DEF InFlight
  <2> QED
    BY <2>2, <2>4 DEF AskerInv
<1>17. \A g \in Hash : {"turn", "open", "led"} \subseteq DOMAIN flight'[g] /\ flight'[g].turn \in Nat
  <2>1. flight[h].turn \in Nat
    BY <1>4 DEF AnswersInv
  <2> QED
    BY <1>6, <1>8, <1>14, <2>1 DEF AnswersInv
<1>18. Distinct'
  BY <1>12, <1>13, <1>15 DEF AnswersInv, Distinct
<1>19. date' \in Nat /\ DOMAIN intel' = Subject /\ \A x \in Subject : IsAnswer(intel[x])'
  BY <1>1 DEF AnswersInv, IsAnswer
<1> QED
  BY <1>13, <1>14, <1>15, <1>16, <1>17, <1>18, <1>19 DEF AnswersInv

(* A request that is over, with what it keeps.  No other leads where it     *)
(* led, and who knew of something knows of what is kept.                    *)
LEMMA EndsInv ==
  ASSUME AnswersInv, NEW a \in Asker, NEW c, lookup' = [lookup EXCEPT ![a] = c],
         c.at \in {"told", "failed"}, {"at", "of", "test", "held", "fresh", "turn", "spent", "known", "told", "shown"} \subseteq DOMAIN c,
         c.of = lookup[a].of, c.turn = lookup[a].turn, c.spent = lookup[a].spent,
         c.known = lookup[a].known, c.held = lookup[a].held, Told(c),
         Done(a), date' = date, lookup[a].at \in {"fetch", "asked", "refused", "keep"},
         \/ intel' = intel
         \/ lookup[a].at = "keep" /\ intel' = [intel EXCEPT ![Of(a)] = lookup[a].fresh]
  PROVE  AnswersInv'
<1>1. AskerInv(lookup[a]) /\ DOMAIN lookup = Asker /\ DOMAIN flight = Hash /\ DOMAIN intel = Subject
  BY DEF AnswersInv
<1>2. PICK x : x = lookup[a].of
  OBVIOUS
<1>3. x \in Subject
  BY <1>1, <1>2 DEF AskerInv, IsLookup
<1>7. DOMAIN lookup' = Asker /\ lookup'[a] = c /\ \A b \in Asker \ {a} : lookup'[b] = lookup[b]
  BY <1>1
<1>8. (x \in Hash => Leads(lookup[a])) /\ ~Leads(c) /\ (Ran(c) => Ran(lookup[a]))
  BY <1>2 DEF Leads, Ran
<1>9. DOMAIN flight' = Hash /\ \A g \in Hash \ {x} : flight'[g] = flight[g]
  BY <1>1, <1>2 DEF Done, Of
<1>10. \A g \in Hash : /\ {"turn", "open", "led"} \subseteq DOMAIN flight'[g] /\ flight'[g].turn \in Nat
                      /\ flight'[g].turn = flight[g].turn /\ flight'[g].led = flight[g].led
  <2>1. \A g \in Hash : {"turn", "open", "led"} \subseteq DOMAIN flight[g] /\ flight[g].turn \in Nat
    BY DEF AnswersInv
  <2>2. CASE x \in Hash
    <3>1. PICK f : f = [flight[x] EXCEPT !.open = FALSE]
      OBVIOUS
    <3>2. {"turn", "open", "led"} \subseteq DOMAIN f /\ f.turn = flight[x].turn /\ f.led = flight[x].led
      BY <2>1, <2>2, <3>1
    <3>3. flight' = [flight EXCEPT ![x] = f]
      BY <1>1, <1>2, <2>2, <3>1 DEF Done, Of
    <3> QED
      BY <1>1, <2>1, <2>2, <3>2, <3>3
  <2>3. CASE x \notin Hash
    BY <1>2, <2>1, <2>3 DEF Done, Of
  <2> QED
    BY <2>2, <2>3
<1>11. /\ DOMAIN intel' = Subject /\ \A y \in Subject \ {x} : intel'[y] = intel[y]
       /\ intel'[x] = intel[x] \/ (Current(intel'[x]) /\ IsAnswer(intel'[x]))
  <2>1. CASE intel' = intel
    BY <1>1, <2>1
  <2>2. CASE lookup[a].at = "keep" /\ intel' = [intel EXCEPT ![Of(a)] = lookup[a].fresh]
    <3>1. intel' = [intel EXCEPT ![x] = lookup[a].fresh]
      BY <1>2, <2>2 DEF Of
    <3>2. Current(lookup[a].fresh) /\ IsAnswer(lookup[a].fresh)
      BY <1>1, <2>2 DEF AskerInv, Kept
    <3>3. intel'[x] = lookup[a].fresh
      BY <1>1, <1>3, <3>1
    <3> QED
      BY <1>1, <3>1, <3>2, <3>3
  <2> QED
    BY <2>1, <2>2
<1>12. \A y \in Subject : IsAnswer(intel[y])'
  <2>1. \A y \in Subject : IsAnswer(intel'[y])
    BY <1>11 DEF AnswersInv
  <2> QED
    BY <2>1 DEF IsAnswer
<1>13. ASSUME NEW b \in Asker \ {a} PROVE AskerInv(lookup[b])'
  <2>1. AskerInv(lookup[b]) /\ lookup'[b] = lookup[b]
    BY <1>7 DEF AnswersInv
  <2>2. Leads(lookup[b]) => lookup[b].of # x
    BY <1>2, <1>8, Alone DEF Leads
  <2>3. Leads(lookup[b]) => flight'[lookup[b].of] = flight[lookup[b].of]
    BY <1>9, <2>2 DEF Leads
  <2>4. InFlight(lookup[b])'
    <3>1. Leads(lookup[b]) => /\ flight'[lookup[b].of].open /\ flight'[lookup[b].of].led
                              /\ flight'[lookup[b].of].turn = lookup[b].turn
      BY <2>1, <2>3 DEF AskerInv, InFlight
    <3>2. Ran(lookup[b]) => /\ lookup[b].turn \in Nat /\ lookup[b].turn <= flight'[lookup[b].of].turn
                            /\ lookup[b].turn = flight'[lookup[b].of].turn => flight'[lookup[b].of].led
      BY <1>10, <2>1 DEF AskerInv, InFlight, Ran
    <3> QED
      BY <2>1, <3>1, <3>2 DEF InFlight
  <2>5. IsLookup(lookup[b])'
    BY <2>1 DEF AskerInv, IsLookup
  <2>6. Hash \subseteq Subject
    BY DEF Subject
  <2>7. lookup[b].at = "keep" /\ lookup[b].of \in Hash => intel'[lookup[b].of] = intel[lookup[b].of]
    BY <1>11, <2>2, <2>6 DEF Leads
  <2>8. Kept(lookup[b])'
    BY <2>1, <2>7 DEF AskerInv, Kept, IsAnswer
  <2>9. CASE lookup[b].of = x
    <3>1. (Current(intel[x]) => Current(intel'[x])) /\ (Has(intel[x]) => Has(intel'[x]))
      BY <1>11 DEF Current
    <3>2. Known(lookup[b])'
      BY <2>1, <2>9, <3>1 DEF AskerInv, Known
    <3> QED
      BY <2>4, <2>5, <2>8, <3>2 DEF AskerInv
  <2>10. CASE lookup[b].of # x
    <3>1. lookup[b].at # "idle" => intel'[lookup[b].of] = intel[lookup[b].of]
      BY <1>11, <2>1, <2>10 DEF AskerInv, IsLookup
    <3>2. Known(lookup[b])'
      BY <2>1, <3>1 DEF AskerInv, Known
    <3> QED
      BY <2>4, <2>5, <2>8, <3>2 DEF AskerInv
  <2> QED
    BY <2>9, <2>10
<1>14. AskerInv(lookup[a])'
  <2>1. c.known /\ c.at # "told" => IF x \in Hash THEN Current(intel[x]) ELSE Has(c.held)
    BY <1>1, <1>2 DEF AskerInv, Known
  <2>2. c.known /\ c.at # "told" => IF x \in Hash THEN Current(intel'[x]) ELSE Has(c.held)
    BY <1>11, <2>1 DEF Current
  <2>3. Known(lookup[a])'
    BY <1>2, <1>7, <2>2 DEF Known, Told
  <2>4. IsLookup(lookup[a])' /\ Kept(lookup[a])'
    BY <1>2, <1>3, <1>7 DEF IsLookup, Kept
  <2>5. Ran(c) => /\ c.turn \in Nat /\ c.turn <= flight'[c.of].turn
                  /\ c.turn = flight'[c.of].turn => flight'[c.of].led
    BY <1>1, <1>8, <1>10 DEF AskerInv, InFlight, Ran
  <2>6. InFlight(lookup[a])'
    BY <1>7, <1>8, <2>5 DEF InFlight
  <2> QED
    BY <2>3, <2>4, <2>6 DEF AskerInv
<1>15. Distinct'
  BY <1>7, <1>8 DEF AnswersInv, Distinct
<1>16. date' \in Nat
  BY DEF AnswersInv
<1> QED
  BY <1>7, <1>9, <1>10, <1>11, <1>12, <1>13, <1>14, <1>15, <1>16 DEF AnswersInv

LEMMA KeepInv ==
  ASSUME AnswersInv, NEW a \in Asker, Keep(a)
  PROVE  AnswersInv'
<1>1. lookup[a].at = "keep" /\ date' = date /\ Done(a) /\ Tell(a, "answer", lookup[a].fresh)
  BY DEF Keep, SettingsKept, AtStep
<1>2. intel' = intel \/ intel' = [intel EXCEPT ![Of(a)] = lookup[a].fresh]
  BY DEF Keep
<1>3. AskerInv(lookup[a]) /\ DOMAIN lookup = Asker
  BY DEF AnswersInv
<1>4. PICK c : c = [lookup[a] EXCEPT !.at = "told", !.told = "answer", !.shown = lookup[a].fresh]
  OBVIOUS
<1>5. lookup' = [lookup EXCEPT ![a] = c]
  BY <1>1, <1>3, <1>4 DEF Tell
<1>6. /\ c.at = "told" /\ c.told = "answer" /\ {"at", "of", "test", "held", "fresh", "turn", "spent", "known", "told", "shown"} \subseteq DOMAIN c
      /\ c.of = lookup[a].of /\ c.turn = lookup[a].turn /\ c.spent = lookup[a].spent
      /\ c.known = lookup[a].known /\ c.held = lookup[a].held
  BY <1>3, <1>4 DEF AskerInv, IsLookup
<1>7. Told(c)
  BY <1>6 DEF Told
<1> QED
  BY <1>1, <1>2, <1>5, <1>6, <1>7, EndsInv

LEMMA FailingInv ==
  ASSUME AnswersInv, NEW a \in Asker, Goes(a, "failed"), Done(a), UNCHANGED <<date, intel>>,
         lookup[a].at \in {"fetch", "asked", "refused"}
  PROVE  AnswersInv'
<1>1. AskerInv(lookup[a]) /\ DOMAIN lookup = Asker
  BY DEF AnswersInv
<1>2. PICK c : c = [lookup[a] EXCEPT !.at = "failed"]
  OBVIOUS
<1>3. lookup' = [lookup EXCEPT ![a] = c]
  BY <1>1, <1>2 DEF Goes
<1>4. /\ c.at = "failed" /\ {"at", "of", "test", "held", "fresh", "turn", "spent", "known", "told", "shown"} \subseteq DOMAIN c
      /\ c.of = lookup[a].of /\ c.turn = lookup[a].turn /\ c.spent = lookup[a].spent
      /\ c.known = lookup[a].known /\ c.held = lookup[a].held
  BY <1>1, <1>2 DEF AskerInv, IsLookup
<1>5. Told(c)
  BY <1>4 DEF Told
<1> QED
  BY <1>3, <1>4, <1>5, EndsInv

(* Without a key nothing is asked; with one, the leader's request is spent. *)
LEMMA FetchInv ==
  ASSUME AnswersInv, NEW a \in Asker, Fetch(a)
  PROVE  AnswersInv'
<1>1. lookup[a].at = "fetch" /\ UNCHANGED <<date, intel>>
  BY DEF Fetch, SettingsKept, AtStep
<1>2. AskerInv(lookup[a]) /\ DOMAIN lookup = Asker
  BY DEF AnswersInv
<1>3. CASE Configured(Of(a))
  <2>1. PICK at \in {"asked", "refused"} :
          lookup' = [lookup EXCEPT ![a].spent = TRUE, ![a].at = at]
    BY <1>3 DEF Fetch
  <2>2. flight' = flight
    BY <1>3 DEF Fetch
  <2>3. PICK c : c = [lookup[a] EXCEPT !.spent = TRUE, !.at = at]
    OBVIOUS
  <2>4. lookup' = [lookup EXCEPT ![a] = c]
    BY <1>2, <2>1, <2>3
  <2>5. /\ c.at = at /\ {"at", "of", "test", "held", "fresh", "turn", "spent", "known", "told", "shown"} \subseteq DOMAIN c
        /\ c.of = lookup[a].of /\ c.turn = lookup[a].turn
        /\ c.known = lookup[a].known /\ c.held = lookup[a].held
    BY <1>2, <2>3 DEF AskerInv, IsLookup
  <2>6. (Leads(c) => Leads(lookup[a])) /\ (Ran(c) => Ran(lookup[a]))
    BY <1>1, <2>5 DEF Leads, Ran
  <2>7. IsLookup(c) /\ InFlight(c) /\ Kept(c)
    BY <1>1, <1>2, <2>1, <2>5, <2>6 DEF AskerInv, IsLookup, InFlight, Kept
  <2>8. Known(c)
    BY <1>1, <1>2, <2>1, <2>5 DEF AskerInv, Known, Told
  <2> QED
    BY <1>1, <2>2, <2>4, <2>5, <2>6, <2>7, <2>8, AskMoves DEF AskerInv
<1>4. CASE ~Configured(Of(a)) /\ Of(a) \in Hash
  BY <1>1, <1>4, FailingInv DEF Fetch
<1>5. CASE ~Configured(Of(a)) /\ Of(a) \notin Hash
  <2>1. Tell(a, "unconfigured", NoAnswer) /\ flight' = flight /\ MayTell(a, "unconfigured")
    BY <1>5 DEF Fetch, Done, MayTell, Configured
  <2> QED
    BY <1>1, <2>1, Telling
<1> QED
  BY <1>3, <1>4, <1>5

LEMMA UnansweredLookInv ==
  ASSUME AnswersInv, NEW a \in Asker, Unanswered(a) \/ Declined(a)
  PROVE  AnswersInv'
<1>1. lookup[a].at \in {"asked", "refused"} /\ UNCHANGED <<date, intel>>
  BY DEF Unanswered, Declined, SettingsKept, AtStep
<1>2. CASE Unanswered(a)
  BY <1>1, <1>2, FailingInv DEF Unanswered
<1>3. CASE Declined(a)
  <2>1. Tell(a, "declined", NoAnswer) /\ flight' = flight /\ MayTell(a, "declined")
    BY <1>3 DEF Declined, MayTell
  <2> QED
    BY <1>1, <2>1, Telling
<1> QED
  BY <1>2, <1>3

(* Who fails, and has nothing to fall back to, knew of nothing. *)
LEMMA GiveUpInv ==
  ASSUME AnswersInv, NEW a \in Asker, GiveUp(a)
  PROVE  AnswersInv'
<1>1. lookup[a].at = "failed" /\ UNCHANGED <<date, intel, flight>>
  BY DEF GiveUp, SettingsKept, AtStep
<1>2. AskerInv(lookup[a])
  BY DEF AnswersInv
<1>3. lookup[a].known => Readable(Of(a), LastKnown(a))
  BY <1>1, <1>2 DEF AskerInv, Known, LastKnown, Readable, Of
<1>4. FallBackTo(a, LastKnown(a)) \/ Tell(a, "unreadable", NoAnswer)
  BY DEF GiveUp, FailsToReadAgain
<1> QED
  BY <1>1, <1>3, <1>4, FallBackInv

-----------------------------------------------------------------------------
(* Every step *)

(* Retention takes the answer, and the knowledge of it. *)
LEMMA TrimInv ==
  ASSUME AnswersInv, NEW T, Trim(T)
  PROVE  AnswersInv'
<1>1. PICK old : /\ old = {x \in T : Has(intel[x]) /\ date - intel[x].at > KeptFor}
                 /\ intel' = [x \in Subject |-> IF x \in old THEN NoAnswer ELSE intel[x]]
                 /\ lookup' = [a \in Asker |-> [lookup[a] EXCEPT !.known = @ /\ Of(a) \notin old]]
  BY DEF Trim
<1>2. UNCHANGED <<date, flight>> /\ date \in Nat
  BY DEF Trim, SettingsKept, AnswersInv
<1>3. ASSUME NEW a \in Asker
      PROVE  /\ AskerInv(lookup[a])' /\ lookup'[a].of = lookup[a].of /\ lookup'[a].turn = lookup[a].turn
             /\ Ran(lookup'[a]) <=> Ran(lookup[a])
  <2>1. AskerInv(lookup[a])
    BY DEF AnswersInv
  <2>2. PICK c : c = [lookup[a] EXCEPT !.known = @ /\ Of(a) \notin old]
    OBVIOUS
  <2>3. lookup'[a] = c
    BY <1>1, <2>2
  <2>4. /\ c.at = lookup[a].at /\ c.of = lookup[a].of /\ c.told = lookup[a].told
        /\ c.held = lookup[a].held /\ c.fresh = lookup[a].fresh /\ c.turn = lookup[a].turn
        /\ c.spent = lookup[a].spent
        /\ c.known = (lookup[a].known /\ lookup[a].of \notin old)
        /\ {"at", "of", "test", "held", "fresh", "turn", "spent", "known", "told", "shown"} \subseteq DOMAIN c
    BY <2>1, <2>2 DEF AskerInv, IsLookup, Of
  <2>5. (Leads(c) <=> Leads(lookup[a])) /\ (Ran(c) <=> Ran(lookup[a]))
    BY <2>4 DEF Leads, Ran
  <2>6. IsLookup(lookup[a])' /\ InFlight(lookup[a])'
    BY <1>2, <2>1, <2>3, <2>4, <2>5 DEF AskerInv, IsLookup, InFlight
  <2>7. Hash \subseteq Subject
    BY DEF Subject
  <2>8. c.at = "keep" /\ c.of \in Hash => intel'[c.of] \in {NoAnswer, intel[c.of]}
    BY <1>1, <2>7
  <2>9. c.at = "keep" /\ c.of \in Hash => intel'[c.of].at <= c.fresh.at
    <3>1. SUFFICES ASSUME c.at = "keep", c.of \in Hash PROVE intel'[c.of].at <= c.fresh.at
      OBVIOUS
    <3>2. c.fresh.at \in Int /\ c.fresh.at >= 0 /\ intel[c.of].at <= c.fresh.at
      BY <2>1, <2>4, <3>1 DEF AskerInv, Kept, IsAnswer, Current, Has
    <3>3. NoAnswer.at = -1
      BY DEF NoAnswer
    <3> QED
      BY <2>8, <3>1, <3>2, <3>3
  <2>10. Kept(lookup[a])'
    BY <1>2, <2>1, <2>3, <2>4, <2>9 DEF AskerInv, Kept, IsAnswer
  <2>11. c.known /\ c.at # "idle" => intel'[c.of] = intel[c.of]
    BY <1>1, <2>1, <2>4 DEF AskerInv, IsLookup
  <2>12. Known(lookup[a])'
    BY <2>1, <2>3, <2>4, <2>11 DEF AskerInv, Known, Told
  <2> QED
    BY <2>3, <2>4, <2>5, <2>6, <2>10, <2>12 DEF AskerInv
<1>4. \A x \in Subject : IsAnswer(intel[x])'
  <2>1. NoAnswer.at = -1
    BY DEF NoAnswer
  <2>2. ASSUME NEW x \in Subject PROVE IsAnswer(intel'[x])
    <3>1. intel'[x] = intel[x] \/ intel'[x] = NoAnswer
      BY <1>1
    <3>2. IsAnswer(NoAnswer)
      BY <1>2, <2>1 DEF IsAnswer
    <3> QED
      BY <3>1, <3>2 DEF AnswersInv
  <2> QED
    BY <1>2, <2>2 DEF IsAnswer
<1>5. Distinct'
  BY <1>3 DEF AnswersInv, Distinct
<1>6. DOMAIN lookup' = Asker /\ DOMAIN intel' = Subject
  BY <1>1
<1>7. /\ DOMAIN flight' = Hash
      /\ \A h \in Hash : {"turn", "open", "led"} \subseteq DOMAIN flight'[h] /\ flight'[h].turn \in Nat
  BY <1>2 DEF AnswersInv
<1> QED
  BY <1>2, <1>3, <1>4, <1>5, <1>6, <1>7 DEF AnswersInv

(* Nobody looks anything up. *)
LEMMA NoLookups ==
  ASSUME date \in Nat, DOMAIN intel = Subject, \A x \in Subject : IsAnswer(intel[x]),
         lookup = [a \in Asker |-> NoLookup], flight = [h \in Hash |-> NoFlight]
  PROVE  AnswersInv
<1>1. \A a \in Asker : AskerInv(lookup[a]) /\ ~Ran(lookup[a])
  BY NoLookupHolds
<1>2. {"turn", "open", "led"} \subseteq DOMAIN NoFlight /\ NoFlight.turn \in Nat
  BY DEF NoFlight
<1> QED
  BY <1>1, <1>2 DEF AnswersInv, Distinct

LEMMA NothingSaved ==
  ASSUME memory = saved, writeMu = NoWriter, save = [s \in Saver |-> NoSave]
  PROVE  KeyInv
<1>1. NoWriter \notin Saver
  BY IntelAssumption DEF NoWriter
<1>2. NoSave.at = "idle" /\ {"at", "setting", "value"} \subseteq DOMAIN NoSave
  BY DEF NoSave
<1> QED
  BY <1>1, <1>2 DEF KeyInv, Writing

LEMMA EndAndStartInv ==
  ASSUME IntelInv, EndAndStart
  PROVE  IntelInv'
<1>1. /\ memory' = saved /\ saved' = saved /\ writeMu' = NoWriter /\ save' = [s \in Saver |-> NoSave]
      /\ lookup' = [a \in Asker |-> NoLookup] /\ flight' = [h \in Hash |-> NoFlight]
      /\ date' = date /\ intel' = intel
  BY DEF EndAndStart
<1>2. KeyInv'
  <2>1. NoWriter \notin Saver
    BY IntelAssumption DEF NoWriter
  <2>2. NoSave.at = "idle" /\ {"at", "setting", "value"} \subseteq DOMAIN NoSave
    BY DEF NoSave
  <2> QED
    BY <1>1, <2>1, <2>2 DEF KeyInv, Writing
<1>3. AnswersInv'
  <2>1. \A a \in Asker : AskerInv(lookup[a])' /\ ~Ran(lookup'[a])
    <3> SUFFICES ASSUME NEW a \in Asker PROVE AskerInv(lookup[a])' /\ ~Ran(lookup'[a])
      OBVIOUS
    <3>1. lookup'[a] = NoLookup
      BY <1>1
    <3>2. IsLookup(NoLookup) /\ ~Ran(NoLookup) /\ ~Leads(NoLookup)
      BY NoLookupHolds DEF AskerInv, Leads, Ran
    <3>3. NoLookup.at = "idle"
      BY DEF NoLookup
    <3> QED
      BY <3>1, <3>2, <3>3 DEF AskerInv, IsLookup, InFlight, Kept, Known, Told, Ran, Leads
  <2>2. {"turn", "open", "led"} \subseteq DOMAIN NoFlight /\ NoFlight.turn \in Nat
    BY DEF NoFlight
  <2>3. \A x \in Subject : IsAnswer(intel[x])'
    BY <1>1 DEF IntelInv, AnswersInv, IsAnswer
  <2>4. date' \in Nat /\ DOMAIN intel' = Subject
    BY <1>1 DEF IntelInv, AnswersInv
  <2>5. Distinct'
    BY <2>1 DEF Distinct
  <2> QED
    BY <1>1, <2>1, <2>2, <2>3, <2>4, <2>5 DEF AnswersInv
<1> QED
  BY <1>2, <1>3 DEF IntelInv

LEMMA IntelStart == IntelInit => IntelInv
<1> SUFFICES ASSUME IntelInit PROVE IntelInv
  OBVIOUS
<1>1. KeyInv
  BY NothingSaved DEF IntelInit
<1>2. ASSUME NEW x \in Subject PROVE IsAnswer(intel[x])
  <2>1. intel[x] \in {OldAnswer, NoAnswer} /\ date = 0
    BY DEF IntelInit
  <2>2. OldAnswer.at = 0 /\ NoAnswer.at = -1
    BY DEF OldAnswer, NoAnswer
  <2> QED
    BY <2>1, <2>2 DEF IsAnswer
<1>3. AnswersInv
  BY <1>2, NoLookups DEF IntelInit
<1> QED
  BY <1>1, <1>3 DEF IntelInv

LEMMA IntelSteps == IntelInv /\ [IntelNext]_intelVars => IntelInv'
<1> SUFFICES ASSUME IntelInv, [IntelNext]_intelVars PROVE IntelInv'
  OBVIOUS
<1>1. KeyInv /\ AnswersInv /\ date \in Nat
  BY DEF IntelInv, AnswersInv
<1>2. CASE EndAndStart
  BY <1>2, EndAndStartInv
<1>3. CASE DatePasses
  <2>1. date' = date + 1 /\ LookupsKept /\ UNCHANGED <<saved, memory, writeMu, save>>
    BY <1>3 DEF DatePasses
  <2>2. date' \in Nat /\ date <= date'
    BY <1>1, <2>1
  <2> QED
    BY <1>1, <2>1, <2>2, LookupsSame, SettingsSame DEF IntelInv
<1>4. ASSUME NEW T, Trim(T) PROVE IntelInv'
  <2>1. UNCHANGED <<saved, memory, writeMu, save>>
    BY <1>4 DEF Trim, SettingsKept
  <2> QED
    BY <1>1, <1>4, <2>1, TrimInv, SettingsSame DEF IntelInv
<1>5. ASSUME NEW s \in Saver, SaveSteps(s) PROVE IntelInv'
  <2>1. date' = date /\ LookupsKept
    BY <1>5 DEF SaveSteps, RequestSave, RotateToken, Lock, Persist, FailToPersist, RememberSetting, Unlock
  <2>2. date' \in Nat /\ date <= date'
    BY <1>1, <2>1
  <2> QED
    BY <1>1, <1>5, <2>1, <2>2, LookupsSame, SaveSettingInv DEF IntelInv
<1>6. ASSUME NEW a \in Asker, Begins(a) \/ Proceeds(a) PROVE IntelInv'
  <2>1. SettingsKept
    BY <1>6 DEF Begins, Inquire, Test, Glance, Decorate, Proceeds, ReadCache, Misread, CheckKey, Join,
                Lead, FollowLead, Fetch, Answered, Unanswered, Declined, Keep, GiveUp, Respond
  <2>2. KeyInv'
    BY <1>1, <2>1, SettingsSame DEF SettingsKept
  <2>3. AnswersInv'
    BY <1>1, <1>6, BeginsInv, ReadCacheInv, MisreadInv, CheckKeyInv, JoinInv, LeadInv, FollowLeadInv,
       FetchInv, AnsweredInv, UnansweredLookInv, KeepInv, GiveUpInv, RespondInv DEF Proceeds
  <2> QED
    BY <2>2, <2>3 DEF IntelInv
<1>7. CASE UNCHANGED intelVars
  <2>1. date' \in Nat /\ date <= date' /\ LookupsKept /\ UNCHANGED <<saved, memory, writeMu, save>>
    BY <1>1, <1>7 DEF intelVars, LookupsKept
  <2> QED
    BY <1>1, <2>1, LookupsSame, SettingsSame DEF IntelInv
<1> QED
  BY <1>2, <1>3, <1>4, <1>5, <1>6, <1>7 DEF IntelNext

LEMMA IntelInvariant == IntelSpec => []IntelInv
BY IntelStart, IntelSteps, PTL DEF IntelSpec

-----------------------------------------------------------------------------
(* Theorems *)

LEMMA SavedRemembered == IntelInv => MemoryIsSaved
<1> SUFFICES ASSUME IntelInv, writeMu = NoWriter PROVE memory = saved
  BY DEF MemoryIsSaved
<1>1. NoWriter \notin Saver
  BY IntelAssumption DEF NoWriter
<1>2. \A s \in Saver : save[s].at # "remember"
  BY <1>1 DEF IntelInv, KeyInv, Writing
<1> QED
  BY <1>2 DEF IntelInv, KeyInv

(* The key a request is made with is the one that was committed last, by   *)
(* whichever writer, whenever none is at work.                             *)
THEOREM MemoryFollowsStore == IntelSpec => []MemoryIsSaved
BY IntelInvariant, SavedRemembered, PTL

LEMMA OneRequests == IntelInv => RequestsShared
<1> SUFFICES ASSUME IntelInv, NEW a \in Asker, NEW b \in Asker, SameHash(a, b), a # b
             PROVE  /\ ~({lookup[a].at, lookup[b].at} \subseteq {"asked", "refused"})
                    /\ lookup[a].spent /\ lookup[b].spent => lookup[a].turn # lookup[b].turn
  BY DEF RequestsShared
<1>1. lookup[a].of = lookup[b].of /\ lookup[a].of \in Hash /\ AnswersInv
  BY DEF IntelInv, SameHash, Of
<1>2. {lookup[a].at, lookup[b].at} \subseteq {"asked", "refused"} => Leads(lookup[a]) /\ Leads(lookup[b])
  BY <1>1 DEF Leads
<1>3. lookup[a].spent /\ lookup[b].spent => Ran(lookup[a]) /\ Ran(lookup[b])
  BY <1>1 DEF Ran
<1> QED
  BY <1>1, <1>2, <1>3, Alone DEF AnswersInv, Distinct

(* A hash is asked about once at a time, and lookups that met in one Once   *)
(* make one request between them: through failures, rows that cannot be     *)
(* written, settings changed and processes restarted on the way.  Lookups   *)
(* that overlap without meeting there can make more (OverlapCostsOne).      *)
THEOREM RequestsAreShared == IntelSpec => []RequestsShared
BY IntelInvariant, OneRequests, PTL

LEMMA NothingForgotten == IntelInv => KnownNotLost
BY DEF IntelInv, AnswersInv, AskerInv, Known, Told, KnownNotLost, AtStep, Of

(* A request that fails, one's own or another's that was waited for, takes  *)
(* away nothing that was there to be shown and that retention has left, but *)
(* for a lookup whose own last read fails, that finds no key set, or whose  *)
(* provider answers with an error.                                          *)
THEOREM FailuresLoseNothing == IntelSpec => []KnownNotLost
BY IntelInvariant, NothingForgotten, PTL

LEMMA VerdictsOnlyAdvance ==
  IntelInv /\ [IntelNext]_intelVars =>
    [\A h \in Hash : Has(intel'[h]) => intel'[h].at >= intel[h].at]_intelVars
<1> SUFFICES ASSUME IntelInv, IntelNext, NEW h \in Hash, Has(intel'[h])
             PROVE  intel'[h].at >= intel[h].at
  BY DEF intelVars
<1>1. AnswersInv /\ h \in Subject /\ intel[h].at \in Int
  BY DEF IntelInv, AnswersInv, IsAnswer, Subject
<1>2. CASE intel' = intel
  BY <1>1, <1>2
<1>3. ASSUME NEW a \in Asker, Keep(a), intel' # intel PROVE intel'[h].at >= intel[h].at
  <2>1. lookup[a].at = "keep" /\ intel' = [intel EXCEPT ![Of(a)] = lookup[a].fresh]
    BY <1>3 DEF Keep, AtStep
  <2>2. AskerInv(lookup[a]) /\ DOMAIN intel = Subject
    BY <1>1 DEF AnswersInv
  <2>3. CASE h = Of(a)
    <3>1. intel'[h] = lookup[a].fresh
      BY <1>1, <2>1, <2>2, <2>3
    <3>2. intel[h].at <= lookup[a].fresh.at
      BY <2>1, <2>2, <2>3 DEF AskerInv, Kept, Of
    <3>3. lookup[a].fresh.at \in Int
      BY <2>1, <2>2 DEF AskerInv, Kept, IsAnswer
    <3> QED
      BY <1>1, <3>1, <3>2, <3>3
  <2>4. CASE h # Of(a)
    BY <1>1, <2>1, <2>2, <2>4
  <2> QED
    BY <2>3, <2>4
<1>4. ASSUME NEW T, Trim(T) PROVE intel'[h].at >= intel[h].at
  <2>1. intel'[h] = intel[h] \/ intel'[h] = NoAnswer
    BY <1>1, <1>4 DEF Trim
  <2>2. ~Has(NoAnswer)
    BY DEF Has, NoAnswer
  <2> QED
    BY <1>1, <2>1, <2>2
<1>5. intel' = intel \/ (\E a \in Asker : Keep(a)) \/ \E T : Trim(T)
  BY DEF IntelNext, EndAndStart, DatePasses, LookupsKept, SaveSteps, RequestSave, RotateToken, Lock, Persist,
         FailToPersist, RememberSetting, Unlock, Begins, Inquire, Test, Glance, Decorate, Proceeds,
         ReadCache, Misread, CheckKey, Join, Lead, FollowLead, Fetch, Answered, Unanswered, Declined,
         GiveUp, Respond
<1> QED
  BY <1>2, <1>3, <1>4, <1>5

(* No verdict that took longer to arrive, or to be written, replaces a     *)
(* later one.                                                              *)
THEOREM VerdictsNeverGoBack == IntelSpec => VerdictsAdvance
BY IntelInvariant, VerdictsOnlyAdvance, PTL DEF IntelSpec, VerdictsAdvance
=============================================================================
