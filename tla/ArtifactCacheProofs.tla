------------------------- MODULE ArtifactCacheProofs -------------------------
(***************************************************************************)
(* The invariants of ArtifactCache, for every set of names and artifacts   *)
(* and every budget.                                                       *)
(***************************************************************************)
EXTENDS CacheRecency, LeastElement

(***************************************************************************)
(* Sums.  Bytes(s) is the last value of the running sum over s; a running  *)
(* sum exists and is unique, so that to know Bytes of a sequence it is     *)
(* enough to exhibit its running sum.                                      *)
(***************************************************************************)
IsRunningSum(f, s) ==
    f = [i \in 0 .. Len(s) |->
            IF i = 0 THEN 0 ELSE f[i - 1] + s[i].art.bytes]

LEMMA EntryBytes == ASSUME NEW e \in Entries PROVE e.art.bytes \in Nat \ {0}
BY ArtifactsAssumption DEF Entries

LEMMA RunningSumSteps ==
    ASSUME NEW s \in Seq(Entries), NEW f, IsRunningSum(f, s)
    PROVE  /\ f[0] = 0
           /\ \A i \in 1 .. Len(s) : f[i] = f[i - 1] + s[i].art.bytes
<1>1. Len(s) \in Nat
  OBVIOUS
<1>2. \A i \in 0 .. Len(s) :
         f[i] = IF i = 0 THEN 0 ELSE f[i - 1] + s[i].art.bytes
  BY DEF IsRunningSum
<1> QED BY <1>1, <1>2

LEMMA RunningSumExists ==
    ASSUME NEW s \in Seq(Entries)
    PROVE  \E f \in [0 .. Len(s) -> Nat] : IsRunningSum(f, s)
<1> DEFINE Sum(f, n) ==
             f = [i \in 0 .. n |->
                    IF i = 0 THEN 0 ELSE f[i - 1] + s[i].art.bytes]
           T == {n \in 0 .. Len(s) : ~ \E f \in [0 .. n -> Nat] : Sum(f, n)}
<1>1. SUFFICES ASSUME T # {} PROVE FALSE
  BY DEF IsRunningSum
<1>0. T \in SUBSET Nat
  OBVIOUS
<1>2. PICK n \in T : \A m \in T : n <= m
  <2> HIDE DEF T
  <2> QED BY <1>1, <1>0, LeastNat
<1>3. n # 0
  <2>1. [i \in 0 .. 0 |-> 0] \in [0 .. 0 -> Nat] /\ Sum([i \in 0 .. 0 |-> 0], 0)
    OBVIOUS
  <2> QED BY <2>1, <1>2
<1>4. PICK h \in [0 .. n - 1 -> Nat] : Sum(h, n - 1)
  <2>1. n - 1 \in 0 .. Len(s) /\ ~ (n <= n - 1)
    BY <1>2, <1>3
  <2>2. n - 1 \notin T
    BY <2>1, <1>2
  <2> QED BY <2>1, <2>2
<1>5. s[n].art.bytes \in Nat
  BY <1>2, <1>3, EntryBytes
<1> DEFINE f == [i \in 0 .. n |->
                   IF i = n THEN h[n - 1] + s[n].art.bytes ELSE h[i]]
<1>6. f \in [0 .. n -> Nat]
  <2>1. ASSUME NEW i \in 0 .. n, i # n
        PROVE  i \in 0 .. n - 1
    BY <2>1
  <2>2. n - 1 \in 0 .. n - 1 /\ h[n - 1] \in Nat
    BY <1>2, <1>3, <1>4
  <2>3. h[n - 1] + s[n].art.bytes \in Nat
    BY <2>2, <1>5
  <2> QED BY <2>1, <2>3, <1>4
<1>7. ASSUME NEW i \in 0 .. n
      PROVE  f[i] = IF i = 0 THEN 0 ELSE f[i - 1] + s[i].art.bytes
  <2>1. CASE i = 0
    BY <2>1, <1>3, <1>4
  <2>2. CASE i # 0 /\ i # n
    <3>1. i \in 0 .. n - 1 /\ i - 1 \in 0 .. n - 1 /\ i - 1 # n
      BY <2>2
    <3> QED BY <3>1, <2>2, <1>4
  <2>3. CASE i # 0 /\ i = n
    <3>1. i - 1 \in 0 .. n /\ i - 1 # n
      BY <2>3
    <3> QED BY <3>1, <2>3
  <2> QED BY <2>1, <2>2, <2>3
<1>8. Sum(f, n)
  BY <1>7
<1> QED BY <1>2, <1>6, <1>8

LEMMA RunningSumUnique ==
    ASSUME NEW s \in Seq(Entries), NEW f, NEW g,
           IsRunningSum(f, s), IsRunningSum(g, s)
    PROVE  f = g
<1> DEFINE T == {i \in 0 .. Len(s) : f[i] # g[i]}
<1>1. T = {}
  <2>1. SUFFICES ASSUME T # {} PROVE FALSE
    OBVIOUS
  <2>2. PICK n \in T : \A m \in T : n <= m
    <3>1. T \in SUBSET Nat
      OBVIOUS
    <3> HIDE DEF T
    <3> QED BY <2>1, <3>1, LeastNat
  <2>3. CASE n = 0
    BY <2>2, <2>3 DEF IsRunningSum
  <2>4. CASE n # 0
    <3>1. n - 1 \in 0 .. Len(s) /\ n - 1 \notin T
      BY <2>2, <2>4
    <3>2. f[n] = f[n - 1] + s[n].art.bytes /\ g[n] = g[n - 1] + s[n].art.bytes
      BY <2>2, <2>4 DEF IsRunningSum
    <3> QED BY <3>1, <3>2, <2>2
  <2> QED BY <2>3, <2>4
<1>2. f = [i \in 0 .. Len(s) |-> f[i]] /\ g = [i \in 0 .. Len(s) |-> g[i]]
  BY DEF IsRunningSum
<1> QED BY <1>1, <1>2

LEMMA BytesIsLast ==
    ASSUME NEW s \in Seq(Entries), NEW f, IsRunningSum(f, s)
    PROVE  Bytes(s) = f[Len(s)]
<1> DEFINE sum == CHOOSE g : g = [i \in 0 .. Len(s) |->
                     IF i = 0 THEN 0 ELSE g[i - 1] + s[i].art.bytes]
<1>1. IsRunningSum(sum, s)
  BY DEF IsRunningSum
<1>2. Bytes(s) = sum[Len(s)]
  BY DEF Bytes
<1> HIDE DEF sum
<1> QED BY <1>1, <1>2, RunningSumUnique

\* Every sequence of entries has a running sum of naturals, and Bytes is its
\* last value.
LEMMA BytesSum ==
    ASSUME NEW s \in Seq(Entries)
    PROVE  /\ Bytes(s) \in Nat
           /\ \E f \in [0 .. Len(s) -> Nat] :
                 IsRunningSum(f, s) /\ Bytes(s) = f[Len(s)]
<1>1. PICK f \in [0 .. Len(s) -> Nat] : IsRunningSum(f, s)
  BY RunningSumExists
<1>2. Bytes(s) = f[Len(s)]
  BY <1>1, BytesIsLast
<1> QED BY <1>1, <1>2

LEMMA BytesOfEmpty == Bytes(<< >>) = 0
<1>1. << >> \in Seq(Entries)
  OBVIOUS
<1> DEFINE z == [i \in 0 .. 0 |-> 0]
<1>2. IsRunningSum(z, << >>) /\ z[0] = 0
  BY DEF IsRunningSum
<1> HIDE DEF z
<1>3. Bytes(<< >>) = z[Len(<< >>)]
  BY <1>1, <1>2, BytesIsLast
<1> QED BY <1>2, <1>3

\* An entry pushed in front adds its bytes.
LEMMA BytesOfPushed ==
    ASSUME NEW s \in Seq(Entries), NEW e \in Entries
    PROVE  Bytes(<<e>> \o s) = Bytes(s) + e.art.bytes
<1> DEFINE t == <<e>> \o s
<1>1. PICK f \in [0 .. Len(s) -> Nat] :
         IsRunningSum(f, s) /\ Bytes(s) = f[Len(s)]
  BY BytesSum
<1>2. /\ t \in Seq(Entries)
      /\ Len(t) = Len(s) + 1
      /\ t[1] = e
      /\ \A i \in 2 .. Len(t) : t[i] = s[i - 1]
  OBVIOUS
<1>3. e.art.bytes \in Nat
  BY EntryBytes
<1> DEFINE g == [i \in 0 .. Len(t) |->
                   IF i = 0 THEN 0 ELSE f[i - 1] + e.art.bytes]
<1> HIDE DEF t
<1>4. ASSUME NEW i \in 0 .. Len(t)
      PROVE  g[i] = IF i = 0 THEN 0 ELSE g[i - 1] + t[i].art.bytes
  <2>1. CASE i = 0
    BY <2>1
  <2>2. CASE i = 1
    <3>1. f[0] = 0
      BY <1>1 DEF IsRunningSum
    <3> QED BY <3>1, <2>2, <1>2, <1>3
  <2>3. CASE i > 1
    <3>1. i - 1 \in 1 .. Len(s) /\ i - 2 \in 0 .. Len(s) /\ i - 1 \in 0 .. Len(t)
      BY <2>3, <1>2
    <3>2. f[i - 1] = f[i - 2] + s[i - 1].art.bytes
      BY <3>1, <1>1 DEF IsRunningSum
    <3>3. t[i] = s[i - 1]
      BY <2>3, <1>2
    <3>4. s[i - 1].art.bytes \in Nat /\ f[i - 2] \in Nat
      <4>1. s[i - 1] \in Entries
        BY <3>1
      <4> QED BY <3>1, <4>1, <1>1, EntryBytes
    <3> QED BY <3>1, <3>2, <3>3, <3>4, <2>3, <1>3
  <2> QED BY <2>1, <2>2, <2>3
<1>5. IsRunningSum(g, t)
  BY <1>4 DEF IsRunningSum
<1>6. g[Len(t)] = Bytes(s) + e.art.bytes
  BY <1>1, <1>2
<1> HIDE DEF g
<1>7. Bytes(t) = g[Len(t)]
  BY <1>2, <1>5, BytesIsLast
<1> QED BY <1>6, <1>7 DEF t

\* The last entry, removed, takes its bytes with it.
LEMMA BytesOfShortened ==
    ASSUME NEW s \in Seq(Entries), Len(s) > 0
    PROVE  Bytes(SubSeq(s, 1, Len(s) - 1)) = Bytes(s) - s[Len(s)].art.bytes
<1> DEFINE t == SubSeq(s, 1, Len(s) - 1)
<1>1. PICK f \in [0 .. Len(s) -> Nat] :
         IsRunningSum(f, s) /\ Bytes(s) = f[Len(s)]
  BY BytesSum
<1>2. /\ t \in Seq(Entries)
      /\ Len(t) = Len(s) - 1
      /\ \A i \in 1 .. Len(t) : t[i] = s[i]
  OBVIOUS
<1> DEFINE g == [i \in 0 .. Len(t) |-> f[i]]
<1> HIDE DEF t
<1>3. ASSUME NEW i \in 0 .. Len(t)
      PROVE  g[i] = IF i = 0 THEN 0 ELSE g[i - 1] + t[i].art.bytes
  <2>1. CASE i = 0
    BY <2>1, <1>1, <1>2 DEF IsRunningSum
  <2>2. CASE i # 0
    <3>1. i \in 0 .. Len(s) /\ i - 1 \in 0 .. Len(t) /\ i \in 1 .. Len(t)
      BY <2>2, <1>2
    <3>2. f[i] = f[i - 1] + s[i].art.bytes
      BY <3>1, <2>2, <1>1 DEF IsRunningSum
    <3> QED BY <3>1, <3>2, <1>2, <2>2
  <2> QED BY <2>1, <2>2
<1>4. IsRunningSum(g, t)
  BY <1>3 DEF IsRunningSum
<1>5. f[Len(s)] = f[Len(s) - 1] + s[Len(s)].art.bytes
  BY <1>1, RunningSumSteps
<1>6. s[Len(s)].art.bytes \in Nat /\ f[Len(s) - 1] \in Nat
  BY <1>1, EntryBytes
<1>7. g[Len(t)] = Bytes(s) - s[Len(s)].art.bytes
  BY <1>1, <1>2, <1>5, <1>6
<1> HIDE DEF g
<1>8. Bytes(t) = g[Len(t)]
  BY <1>2, <1>4, BytesIsLast
<1> QED BY <1>7, <1>8 DEF t

(***************************************************************************)
(* MoveToFront permutes a list.                                            *)
(***************************************************************************)
LEMMA MoveToFrontPermutes ==
    ASSUME NEW s \in Seq(Entries), NEW at \in 1 .. Len(s),
           at = Position(s, s[at]), NEW t, t = MoveToFront(s, s[at])
    PROVE  /\ t \in Seq(Entries)
           /\ Len(t) = Len(s)
           /\ t[1] = s[at]
           /\ \A j \in 2 .. Len(s) : t[j] = IF j <= at THEN s[j - 1] ELSE s[j]
<1>1. t = [j \in 1 .. Len(s) |->
             IF j = 1 THEN s[at] ELSE IF j <= at THEN s[j - 1] ELSE s[j]]
  BY DEF MoveToFront
<1>2. \A j \in 1 .. Len(s) : t[j] \in Entries
  BY <1>1
<1>3. t \in Seq(Entries) /\ Len(t) = Len(s)
  BY <1>1, <1>2
<1> QED BY <1>1, <1>3

LEMMA BytesOfMoved ==
    ASSUME NEW s \in Seq(Entries), NEW at \in 1 .. Len(s),
           at = Position(s, s[at])
    PROVE  Bytes(MoveToFront(s, s[at])) = Bytes(s)
<1> DEFINE t == MoveToFront(s, s[at])
<1>1. PICK f \in [0 .. Len(s) -> Nat] :
         IsRunningSum(f, s) /\ Bytes(s) = f[Len(s)]
  BY BytesSum
<1>2. /\ t \in Seq(Entries)
      /\ Len(t) = Len(s)
      /\ t[1] = s[at]
      /\ \A j \in 2 .. Len(s) : t[j] = IF j <= at THEN s[j - 1] ELSE s[j]
  BY MoveToFrontPermutes
<1>3. \A i \in 1 .. Len(s) : s[i].art.bytes \in Nat
  BY EntryBytes
<1>4. /\ f[0] = 0
      /\ \A i \in 1 .. Len(s) : f[i] = f[i - 1] + s[i].art.bytes
  BY <1>1, RunningSumSteps
<1> DEFINE g == [i \in 0 .. Len(t) |->
                   IF i = 0 THEN 0
                   ELSE IF i <= at THEN f[i - 1] + s[at].art.bytes ELSE f[i]]
<1> HIDE DEF t
<1>5. ASSUME NEW i \in 0 .. Len(t)
      PROVE  g[i] = IF i = 0 THEN 0 ELSE g[i - 1] + t[i].art.bytes
  <2>1. CASE i = 0
    BY <2>1
  <2>2. CASE i = 1
    BY <2>2, <1>2, <1>3, <1>4
  <2>3. CASE i > 1 /\ i <= at
    <3>1. i - 1 \in 1 .. Len(s) /\ i - 2 \in 0 .. Len(s) /\ (i - 1) - 1 = i - 2
      BY <2>3, <1>2
    <3>2. f[i - 1] = f[i - 2] + s[i - 1].art.bytes /\ f[i - 2] \in Nat
      BY <3>1, <1>1, <1>4
    <3>3. g[i] = f[i - 1] + s[at].art.bytes
      BY <2>3
    <3>4. g[i - 1] = f[i - 2] + s[at].art.bytes
      <4>1. i - 1 \in 0 .. Len(t) /\ i - 1 # 0 /\ i - 1 <= at
        BY <2>3, <3>1, <1>2
      <4>2. g[i - 1] = f[(i - 1) - 1] + s[at].art.bytes
        BY <4>1
      <4> HIDE DEF g
      <4> QED BY <4>2, <3>1
    <3>5. t[i] = s[i - 1]
      BY <2>3, <1>2
    <3>6. i # 0 /\ s[at].art.bytes \in Nat /\ s[i - 1].art.bytes \in Nat
      BY <2>3, <3>1, <1>3
    <3>7. \A x, y, z \in Nat : (x + y) + z = (x + z) + y
      OBVIOUS
    <3> HIDE DEF g
    <3>8. g[i] = (f[i - 2] + s[i - 1].art.bytes) + s[at].art.bytes
      BY <3>2, <3>3
    <3>9. g[i - 1] + t[i].art.bytes =
             (f[i - 2] + s[at].art.bytes) + s[i - 1].art.bytes
      BY <3>4, <3>5
    <3> QED BY <3>2, <3>6, <3>7, <3>8, <3>9
  <2>4. CASE i = at + 1
    <3>1. f[i] = f[at] + s[i].art.bytes /\ f[at] = f[at - 1] + s[at].art.bytes
      BY <2>4, <1>2, <1>4
    <3>2. g[i] = f[i] /\ g[i - 1] = f[at - 1] + s[at].art.bytes /\ t[i] = s[i]
      BY <2>4, <1>2
    <3> QED BY <3>1, <3>2, <2>4
  <2>5. CASE i > at + 1
    BY <2>5, <1>2, <1>4
  <2> QED BY <2>1, <2>2, <2>3, <2>4, <2>5
<1>6. IsRunningSum(g, t)
  BY <1>5 DEF IsRunningSum
<1>7. g[Len(t)] = Bytes(s)
  <2>1. CASE Len(s) = at
    BY <2>1, <1>1, <1>2, <1>4
  <2>2. CASE Len(s) # at
    BY <2>2, <1>1, <1>2
  <2> QED BY <2>1, <2>2
<1> HIDE DEF g
<1>8. Bytes(t) = g[Len(t)]
  BY <1>2, <1>6, BytesIsLast
<1> QED BY <1>7, <1>8 DEF t

(***************************************************************************)
(* The inductive invariant, stated of any cache value: the eviction loop   *)
(* passes through caches that are not states.  Without Reachable, pushing  *)
(* an entry could leave two of its version in the list; without            *)
(* NoDuplicates, evicting one entry could orphan another.                  *)
(***************************************************************************)
Good(c) ==
    /\ c = [ll |-> c.ll, byID |-> c.byID, size |-> c.size]
    /\ c.ll \in Seq(Entries)
    /\ \A i, j \in 1 .. Len(c.ll) :
          VersionKeyOf(c.ll[i]) = VersionKeyOf(c.ll[j]) => i = j
    /\ \A k \in DOMAIN c.byID :
          \E i \in 1 .. Len(c.ll) : c.byID[k] = c.ll[i] /\ k \in Ids(c.ll[i])
    /\ \A i \in 1 .. Len(c.ll) :
          /\ VersionKeyOf(c.ll[i]) \in DOMAIN c.byID
          /\ c.byID[VersionKeyOf(c.ll[i])] = c.ll[i]
    /\ c.size = Bytes(c.ll)

Within(c) == c.size <= MaxBytes \/ Len(c.ll) = 1

CacheInv ==
    TypeOK /\ NoDuplicates /\ IndexCoherent /\ Reachable /\ SizeExact
      /\ WithinBudget

\* A version key is no digest key: it is among the keys of an entry only as
\* its own version key.
LEMMA VersionKeyAmongIds ==
    ASSUME NEW x, NEW y, VersionKeyOf(x) \in Ids(y)
    PROVE  VersionKeyOf(x) = VersionKeyOf(y)
BY DEF Ids, VersionKeyOf, VersionKey, DigestKey

LEMMA OwnVersionKey == ASSUME NEW e PROVE VersionKeyOf(e) \in Ids(e)
BY DEF Ids

LEMMA GoodEmpty == Good(EmptyCache) /\ Within(EmptyCache)
BY BytesOfEmpty, MaxBytesAssumption DEF Good, Within, EmptyCache

\* A hit only permutes the list.
LEMMA TouchKeepsGood ==
    ASSUME NEW c, Good(c), NEW k \in DOMAIN c.byID
    PROVE  /\ Good(Touch(c, c.byID[k]))
           /\ Touch(c, c.byID[k]).size = c.size
           /\ Len(Touch(c, c.byID[k]).ll) = Len(c.ll)
           /\ Touch(c, c.byID[k]).byID = c.byID
           /\ \A i \in 1 .. Len(c.ll) :
                 \E j \in 1 .. Len(c.ll) : Touch(c, c.byID[k]).ll[j] = c.ll[i]
<1> DEFINE s == c.ll
           at == Position(s, c.byID[k])
           t == MoveToFront(s, c.byID[k])
           d == Touch(c, c.byID[k])
<1>1. s \in Seq(Entries) /\ Len(s) \in Nat /\ DOMAIN s = 1 .. Len(s)
  BY DEF Good
<1>2. at \in 1 .. Len(s) /\ s[at] = c.byID[k]
  <2>1. \E i \in DOMAIN s : s[i] = c.byID[k]
    BY <1>1 DEF Good
  <2> QED BY <2>1, <1>1 DEF Position
<1>3. at = Position(s, s[at])
  BY <1>2
<1>4. d = [ll |-> t, byID |-> c.byID, size |-> c.size]
  BY DEF Good, Touch
<1>5. /\ t \in Seq(Entries)
      /\ Len(t) = Len(s)
      /\ t[1] = s[at]
      /\ \A j \in 2 .. Len(s) : t[j] = IF j <= at THEN s[j - 1] ELSE s[j]
  BY <1>1, <1>2, <1>3, MoveToFrontPermutes
<1>6. Bytes(t) = Bytes(s)
  BY <1>1, <1>2, <1>3, BytesOfMoved
<1> HIDE DEF s, at, t, d
\* Where the element at position j of the old list goes, and comes from.
<1> DEFINE To(i) == IF i = at THEN 1 ELSE IF i < at THEN i + 1 ELSE i
           From(j) == IF j = 1 THEN at ELSE IF j <= at THEN j - 1 ELSE j
<1>7. \A i \in 1 .. Len(s) : To(i) \in 1 .. Len(t) /\ t[To(i)] = s[i]
  <2> SUFFICES ASSUME NEW i \in 1 .. Len(s)
               PROVE  To(i) \in 1 .. Len(t) /\ t[To(i)] = s[i]
    OBVIOUS
  <2>1. CASE i = at
    BY <2>1, <1>1, <1>2, <1>5
  <2>2. CASE i < at
    BY <2>2, <1>1, <1>2, <1>5
  <2>3. CASE i > at
    BY <2>3, <1>1, <1>2, <1>5
  <2> QED BY <2>1, <2>2, <2>3, <1>1, <1>2
<1>8. \A j \in 1 .. Len(t) : From(j) \in 1 .. Len(s) /\ t[j] = s[From(j)]
  BY <1>1, <1>2, <1>5
<1>9. \A i, j \in 1 .. Len(t) : From(i) = From(j) => i = j
  BY <1>1, <1>2, <1>5
<1> HIDE DEF To, From
<1>10. \A i, j \in 1 .. Len(t) : VersionKeyOf(t[i]) = VersionKeyOf(t[j]) => i = j
  <2> SUFFICES ASSUME NEW i \in 1 .. Len(t), NEW j \in 1 .. Len(t),
                      VersionKeyOf(t[i]) = VersionKeyOf(t[j])
               PROVE  i = j
    OBVIOUS
  <2>1. \A x, y \in 1 .. Len(s) :
           VersionKeyOf(s[x]) = VersionKeyOf(s[y]) => x = y
    BY DEF Good, s
  <2>2. /\ From(i) \in 1 .. Len(s) /\ t[i] = s[From(i)]
        /\ From(j) \in 1 .. Len(s) /\ t[j] = s[From(j)]
    BY <1>8
  <2>3. From(i) = From(j)
    BY <2>1, <2>2
  <2> QED BY <2>3, <1>9
<1>11. \A q \in DOMAIN c.byID :
          \E i \in 1 .. Len(t) : c.byID[q] = t[i] /\ q \in Ids(t[i])
  <2> SUFFICES ASSUME NEW q \in DOMAIN c.byID
               PROVE  \E i \in 1 .. Len(t) :
                         c.byID[q] = t[i] /\ q \in Ids(t[i])
    OBVIOUS
  <2>1. PICK i \in 1 .. Len(s) : c.byID[q] = s[i] /\ q \in Ids(s[i])
    BY DEF Good, s
  <2> QED BY <2>1, <1>7
<1>12. \A i \in 1 .. Len(t) :
          /\ VersionKeyOf(t[i]) \in DOMAIN c.byID
          /\ c.byID[VersionKeyOf(t[i])] = t[i]
  BY <1>8 DEF Good, s
<1>13. Good(d)
  BY <1>4, <1>5, <1>6, <1>10, <1>11, <1>12 DEF Good, s
<1> QED BY <1>4, <1>5, <1>7, <1>13 DEF d, s

\* Evicting removes every key of the oldest entry and no version key of
\* another.
LEMMA EvictOldestKeepsGood ==
    ASSUME NEW c, Good(c), Len(c.ll) > 0
    PROVE  Good(EvictOldest(c)) /\ Len(EvictOldest(c).ll) = Len(c.ll) - 1
<1> DEFINE s == c.ll
           oldest == s[Len(s)]
           t == SubSeq(s, 1, Len(s) - 1)
           left == Restrict(c.byID, DOMAIN c.byID \ Ids(oldest))
<1>1. s \in Seq(Entries) /\ Len(s) \in Nat \ {0}
  BY DEF Good
<1>2. /\ t \in Seq(Entries)
      /\ Len(t) = Len(s) - 1
      /\ \A i \in 1 .. Len(t) : t[i] = s[i] /\ i \in 1 .. Len(s) /\ i # Len(s)
  BY <1>1
<1>3. Bytes(t) = Bytes(s) - oldest.art.bytes
  BY <1>1, BytesOfShortened
<1>4. EvictOldest(c) = [ll |-> t, byID |-> left, size |-> c.size - oldest.art.bytes]
  BY DEF EvictOldest
<1>5. /\ DOMAIN left = DOMAIN c.byID \ Ids(oldest)
      /\ \A k \in DOMAIN left : left[k] = c.byID[k]
  BY DEF Restrict
<1> HIDE DEF s, oldest, t, left
<1>6. \A i, j \in 1 .. Len(t) : VersionKeyOf(t[i]) = VersionKeyOf(t[j]) => i = j
  BY <1>2 DEF Good, s
<1>7. \A k \in DOMAIN left :
         \E i \in 1 .. Len(t) : left[k] = t[i] /\ k \in Ids(t[i])
  <2> SUFFICES ASSUME NEW k \in DOMAIN left
               PROVE  \E i \in 1 .. Len(t) : left[k] = t[i] /\ k \in Ids(t[i])
    OBVIOUS
  <2>1. PICK i \in 1 .. Len(s) : c.byID[k] = s[i] /\ k \in Ids(s[i])
    BY <1>5 DEF Good, s
  <2>2. i # Len(s)
    BY <2>1, <1>5 DEF oldest
  <2>3. i \in 1 .. Len(t)
    BY <2>2, <1>1, <1>2
  <2> QED BY <2>1, <2>3, <1>2, <1>5
<1>8. \A i \in 1 .. Len(t) :
         VersionKeyOf(t[i]) \in DOMAIN left /\ left[VersionKeyOf(t[i])] = t[i]
  <2> SUFFICES ASSUME NEW i \in 1 .. Len(t)
               PROVE  /\ VersionKeyOf(t[i]) \in DOMAIN left
                      /\ left[VersionKeyOf(t[i])] = t[i]
    OBVIOUS
  <2>1. VersionKeyOf(s[i]) # VersionKeyOf(oldest)
    <3>1. \A x, y \in 1 .. Len(s) :
             VersionKeyOf(s[x]) = VersionKeyOf(s[y]) => x = y
      BY DEF Good, s
    <3>2. i \in 1 .. Len(s) /\ i # Len(s) /\ Len(s) \in 1 .. Len(s)
      BY <1>1, <1>2
    <3> QED BY <3>1, <3>2 DEF oldest
  <2>2. VersionKeyOf(s[i]) \notin Ids(oldest)
    BY <2>1, VersionKeyAmongIds
  <2>3. VersionKeyOf(s[i]) \in DOMAIN c.byID /\ c.byID[VersionKeyOf(s[i])] = s[i]
    BY <1>2 DEF Good, s
  <2> QED BY <2>2, <2>3, <1>2, <1>5
<1>9. Good(EvictOldest(c))
  <2>1. c.size - oldest.art.bytes = Bytes(t)
    BY <1>3 DEF Good, s
  <2> HIDE DEF Good
  <2> DEFINE d == EvictOldest(c)
  <2>2. d.ll = t /\ d.byID = left /\ d.size = Bytes(t)
        /\ d = [ll |-> d.ll, byID |-> d.byID, size |-> d.size]
    BY <1>4, <2>1
  <2> HIDE DEF d
  <2>3. Good(d)
    BY <2>2, <1>2, <1>6, <1>7, <1>8 DEF Good
  <2> QED BY <2>3 DEF d
<1> QED BY <1>2, <1>4, <1>9 DEF s

\* Filing an entry whose version is not cached.
LEMMA PushKeepsGood ==
    ASSUME NEW c, Good(c), NEW e \in Entries,
           VersionKeyOf(e) \notin DOMAIN c.byID
    PROVE  Good(PushFront(c, e)) /\ Len(PushFront(c, e).ll) = Len(c.ll) + 1
<1> DEFINE s == c.ll
           t == <<e>> \o s
           filed == [k \in DOMAIN c.byID \cup Ids(e) |->
                       IF k \in Ids(e) THEN e ELSE c.byID[k]]
<1>1. s \in Seq(Entries) /\ Len(s) \in Nat
  BY DEF Good
<1>2. /\ t \in Seq(Entries)
      /\ Len(t) = Len(s) + 1
      /\ t[1] = e
      /\ \A i \in 1 .. Len(s) : t[i + 1] = s[i]
      /\ \A i \in 2 .. Len(t) : t[i] = s[i - 1] /\ i - 1 \in 1 .. Len(s)
  BY <1>1
<1>3. Bytes(t) = Bytes(s) + e.art.bytes
  BY <1>1, BytesOfPushed
<1>4. PushFront(c, e) = [ll |-> t, byID |-> filed, size |-> c.size + e.art.bytes]
  BY DEF PushFront
<1>5. /\ DOMAIN filed = DOMAIN c.byID \cup Ids(e)
      /\ \A k \in DOMAIN filed :
            filed[k] = IF k \in Ids(e) THEN e ELSE c.byID[k]
  OBVIOUS
<1> HIDE DEF s, t, filed
<1>6. \A i \in 1 .. Len(s) : VersionKeyOf(s[i]) # VersionKeyOf(e)
  BY DEF Good, s
<1>7. \A i, j \in 1 .. Len(t) : VersionKeyOf(t[i]) = VersionKeyOf(t[j]) => i = j
  <2> SUFFICES ASSUME NEW i \in 1 .. Len(t), NEW j \in 1 .. Len(t),
                      VersionKeyOf(t[i]) = VersionKeyOf(t[j])
               PROVE  i = j
    OBVIOUS
  <2>1. CASE i = 1 /\ j = 1
    BY <2>1
  <2>2. CASE i = 1 /\ j # 1
    BY <2>2, <1>1, <1>2, <1>6
  <2>3. CASE i # 1 /\ j = 1
    BY <2>3, <1>1, <1>2, <1>6
  <2>4. CASE i # 1 /\ j # 1
    <3>1. /\ t[i] = s[i - 1] /\ i - 1 \in 1 .. Len(s)
          /\ t[j] = s[j - 1] /\ j - 1 \in 1 .. Len(s)
      BY <2>4, <1>1, <1>2
    <3>2. i - 1 = j - 1
      BY <3>1 DEF Good, s
    <3> QED BY <3>2, <1>1, <1>2
  <2> QED BY <2>1, <2>2, <2>3, <2>4
<1>8. \A k \in DOMAIN filed :
         \E i \in 1 .. Len(t) : filed[k] = t[i] /\ k \in Ids(t[i])
  <2> SUFFICES ASSUME NEW k \in DOMAIN filed
               PROVE  \E i \in 1 .. Len(t) : filed[k] = t[i] /\ k \in Ids(t[i])
    OBVIOUS
  <2>1. CASE k \in Ids(e)
    <3>1. 1 \in 1 .. Len(t)
      BY <1>1, <1>2
    <3> QED BY <3>1, <2>1, <1>2, <1>5
  <2>2. CASE k \notin Ids(e)
    <3>1. PICK i \in 1 .. Len(s) : c.byID[k] = s[i] /\ k \in Ids(s[i])
      BY <2>2, <1>5 DEF Good, s
    <3>2. i + 1 \in 1 .. Len(t)
      BY <1>1, <1>2
    <3> QED BY <3>1, <3>2, <2>2, <1>2, <1>5
  <2> QED BY <2>1, <2>2
<1>9. \A i \in 1 .. Len(t) :
         VersionKeyOf(t[i]) \in DOMAIN filed /\ filed[VersionKeyOf(t[i])] = t[i]
  <2> SUFFICES ASSUME NEW i \in 1 .. Len(t)
               PROVE  /\ VersionKeyOf(t[i]) \in DOMAIN filed
                      /\ filed[VersionKeyOf(t[i])] = t[i]
    OBVIOUS
  <2>1. CASE i = 1
    BY <2>1, <1>2, <1>5, OwnVersionKey
  <2>2. CASE i # 1
    <3>1. t[i] = s[i - 1] /\ i - 1 \in 1 .. Len(s)
      BY <2>2, <1>1, <1>2
    <3>2. VersionKeyOf(t[i]) \notin Ids(e)
      BY <3>1, <1>6, VersionKeyAmongIds
    <3>3. /\ VersionKeyOf(t[i]) \in DOMAIN c.byID
          /\ c.byID[VersionKeyOf(t[i])] = t[i]
      BY <3>1 DEF Good, s
    <3> QED BY <3>2, <3>3, <1>5
  <2> QED BY <2>1, <2>2
<1>10. Good(PushFront(c, e))
  BY <1>2, <1>3, <1>4, <1>7, <1>8, <1>9 DEF Good, s
<1> QED BY <1>2, <1>4, <1>10 DEF s

(***************************************************************************)
(* The eviction loop.  TurnsExist is the recursion principle for Turns,    *)
(* derived from the least-number principle.                                *)
(***************************************************************************)
LEMMA TurnsExist ==
    ASSUME NEW c, Len(c.ll) \in Nat
    PROVE  Turns(c) = [k \in 0 .. Len(c.ll) |->
                         IF k = 0 THEN c ELSE EvictOldest(Turns(c)[k - 1])]
<1> DEFINE Def(f, n) ==
             f = [k \in 0 .. n |-> IF k = 0 THEN c ELSE EvictOldest(f[k - 1])]
           T == {n \in Nat : ~ \E f : Def(f, n)}
<1>1. T = {}
  <2>1. SUFFICES ASSUME T # {} PROVE FALSE
    OBVIOUS
  <2>2. PICK n \in T : \A m \in T : n <= m
    <3>1. T \in SUBSET Nat
      OBVIOUS
    <3> HIDE DEF T
    <3> QED BY <2>1, <3>1, LeastNat
  <2>3. n # 0
    <3>1. Def([k \in 0 .. 0 |-> c], 0)
      OBVIOUS
    <3> QED BY <3>1, <2>2
  <2>4. PICK h : Def(h, n - 1)
    <3>1. n - 1 \in Nat /\ ~ (n <= n - 1)
      BY <2>2, <2>3
    <3>2. n - 1 \notin T
      BY <3>1, <2>2
    <3> QED BY <3>1, <3>2
  <2> DEFINE f == [k \in 0 .. n |->
                     IF k = n THEN EvictOldest(h[n - 1]) ELSE h[k]]
  <2>5. ASSUME NEW k \in 0 .. n
        PROVE  f[k] = IF k = 0 THEN c ELSE EvictOldest(f[k - 1])
    <3>1. CASE k = 0
      <4>1. 0 \in 0 .. n - 1
        BY <2>2, <2>3
      <4> QED BY <3>1, <4>1, <2>3, <2>4
    <3>2. CASE k # 0 /\ k # n
      <4>1. k \in 0 .. n - 1 /\ k - 1 \in 0 .. n - 1 /\ k - 1 # n
            /\ k - 1 \in 0 .. n
        BY <3>2, <2>2
      <4>2. h[k] = EvictOldest(h[k - 1])
        BY <4>1, <3>2, <2>4
      <4> QED BY <4>1, <4>2, <3>2
    <3>3. CASE k # 0 /\ k = n
      <4>1. k - 1 \in 0 .. n /\ k - 1 # n
        BY <3>3, <2>2
      <4> QED BY <4>1, <3>3
    <3> QED BY <3>1, <3>2, <3>3
  <2>6. Def(f, n)
    BY <2>5
  <2> HIDE DEF f
  <2> QED BY <2>2, <2>6
<1>2. \E f : Def(f, Len(c.ll))
  BY <1>1
<1>3. Turns(c) = CHOOSE f : Def(f, Len(c.ll))
  BY DEF Turns
<1> QED BY <1>2, <1>3

\* Every turn up to the last but one element leaves a good cache.
LEMMA TurnsKeepGood ==
    ASSUME NEW c, Good(c), NEW k \in 0 .. Len(c.ll)
    PROVE  Good(Turns(c)[k]) /\ Len(Turns(c)[k].ll) = Len(c.ll) - k
<1> DEFINE after == Turns(c)
           n == Len(c.ll)
           Ok(i) == Good(after[i]) /\ Len(after[i].ll) = n - i
           T == {i \in 0 .. n : ~Ok(i)}
<1>1. n \in Nat
  BY DEF Good
<1>2. after = [i \in 0 .. n |-> IF i = 0 THEN c ELSE EvictOldest(after[i - 1])]
  BY <1>1, TurnsExist
<1> HIDE DEF after, n
<1>3. SUFFICES ASSUME T # {} PROVE FALSE
  BY DEF after, n
<1>4. PICK m \in T : \A i \in T : m <= i
  <2>1. T \in SUBSET Nat
    BY <1>1
  <2> HIDE DEF T
  <2> QED BY <1>3, <2>1, LeastNat
<1>5. CASE m = 0
  <2>1. after[0] = c
    BY <1>1, <1>2
  <2>2. Ok(0)
    BY <2>1, <1>1 DEF n
  <2> QED BY <2>2, <1>4, <1>5
<1>6. CASE m # 0
  <2>1. m - 1 \in 0 .. n /\ ~ (m <= m - 1) /\ m \in 0 .. n
    BY <1>1, <1>4, <1>6
  <2>2. Ok(m - 1)
    <3>1. m - 1 \notin T
      BY <2>1, <1>4
    <3> QED BY <3>1, <2>1
  <2>3. after[m] = EvictOldest(after[m - 1])
    BY <2>1, <1>2, <1>6
  <2>4. Len(after[m - 1].ll) > 0
    BY <2>1, <2>2, <1>1
  <2>5. /\ Good(EvictOldest(after[m - 1]))
        /\ Len(EvictOldest(after[m - 1]).ll) = Len(after[m - 1].ll) - 1
    BY <2>2, <2>4, EvictOldestKeepsGood
  <2>6. Ok(m)
    BY <2>1, <2>2, <2>3, <2>5, <1>1
  <2> QED BY <2>6, <1>4
<1> QED BY <1>5, <1>6

\* The loop stops, within budget or with a single entry.
LEMMA LoopKeepsGood ==
    ASSUME NEW c, Good(c), Len(c.ll) > 0
    PROVE  /\ Good(EvictWhileOverBudget(c))
           /\ Within(EvictWhileOverBudget(c))
<1> DEFINE after == Turns(c)
           n == Len(c.ll)
           Stops(k) == /\ ~OverBudget(after[k])
                      /\ \A i \in 0 .. k - 1 : OverBudget(after[i])
           T == {k \in 0 .. n : ~OverBudget(after[k])}
<1>1. n \in Nat /\ n > 0
  BY DEF Good
<1>2. \A k \in 0 .. n : Good(after[k]) /\ Len(after[k].ll) = n - k
  BY TurnsKeepGood
<1>3. EvictWhileOverBudget(c) = after[CHOOSE k \in 0 .. n : Stops(k)]
  BY DEF EvictWhileOverBudget
<1> HIDE DEF after, n
<1>4. n - 1 \in 0 .. n /\ Len(after[n - 1].ll) = 1 /\ n - 1 \in T
  <2>1. n - 1 \in 0 .. n
    BY <1>1
  <2>2. Len(after[n - 1].ll) = n - (n - 1)
    BY <2>1, <1>2
  <2>3. Len(after[n - 1].ll) = 1
    BY <2>2, <1>1
  <2>4. ~OverBudget(after[n - 1])
    BY <2>3 DEF OverBudget
  <2> QED BY <2>1, <2>3, <2>4
<1>5. PICK m \in T : \A i \in T : m <= i
  <2>1. T \in SUBSET Nat /\ T # {}
    BY <1>1, <1>4
  <2> HIDE DEF T
  <2> QED BY <2>1, LeastNat
<1>6. \E k \in 0 .. n : Stops(k)
  <2>1. ASSUME NEW i \in 0 .. m - 1 PROVE OverBudget(after[i])
    <3>1. i \in 0 .. n /\ ~ (m <= i)
      BY <1>1, <1>5
    <3> QED BY <3>1, <1>5
  <2> QED BY <2>1, <1>5
<1>7. PICK k \in 0 .. n :
         Stops(k) /\ EvictWhileOverBudget(c) = after[k]
  BY <1>3, <1>6
<1>8. k <= n - 1
  <2>1. SUFFICES ASSUME k = n PROVE FALSE
    BY <1>1, <1>7
  <2>2. n - 1 \in 0 .. k - 1
    BY <2>1, <1>1
  <2> QED BY <2>2, <1>4, <1>7
<1>9. Within(after[k])
  <2>1. Len(after[k].ll) = n - k /\ n - k >= 1
    BY <1>1, <1>2, <1>8
  <2>2. after[k].size \in Int
    <3>1. after[k].ll \in Seq(Entries) /\ after[k].size = Bytes(after[k].ll)
      BY <1>2 DEF Good
    <3> QED BY <3>1, BytesSum
  <2> QED BY <2>1, <2>2, <1>1, <1>7, MaxBytesAssumption DEF OverBudget, Within
<1> QED BY <1>2, <1>7, <1>9

(***************************************************************************)
(* What an insertion evicts.  Goners(c, k) are the k last entries of the   *)
(* list, and LeftBy(c, d, k) says that d is c without them.                *)
(***************************************************************************)
Goners(c, k) == {c.ll[i] : i \in Len(c.ll) - k + 1 .. Len(c.ll)}

KeysLeft(c, k) == {x \in DOMAIN c.byID : \A e \in Goners(c, k) : x \notin Ids(e)}

LeftBy(c, d, k) ==
    /\ Len(d.ll) = Len(c.ll) - k
    /\ \A i \in 1 .. Len(c.ll) - k : d.ll[i] = c.ll[i]
    /\ d.byID = [x \in KeysLeft(c, k) |-> c.byID[x]]

\* One turn of the eviction loop takes the last entry that is left.
LEMMA TurnTakesTheLast ==
    ASSUME NEW c, Good(c), NEW k \in 0 .. Len(c.ll) - 1, NEW d, Good(d),
           LeftBy(c, d, k)
    PROVE  /\ LeftBy(c, EvictOldest(d), k + 1)
           /\ EvictOldest(d).size = d.size - c.ll[Len(c.ll) - k].art.bytes
<1> DEFINE n == Len(c.ll)
           oldest == c.ll[n - k]
           t == SubSeq(d.ll, 1, Len(d.ll) - 1)
<1>1. n \in Nat /\ d.ll \in Seq(Entries) /\ Len(d.ll) = n - k /\ k \in Nat
  BY DEF Good, LeftBy
<1>2. n - k \in 1 .. n - k /\ d.ll[Len(d.ll)] = oldest
  <2>1. n - k \in 1 .. n - k
    BY <1>1
  <2>2. d.ll[n - k] = c.ll[n - k]
    BY <2>1 DEF LeftBy
  <2> QED BY <1>1, <2>1, <2>2
<1>3. /\ EvictOldest(d).ll = t
      /\ EvictOldest(d).byID = Restrict(d.byID, DOMAIN d.byID \ Ids(oldest))
      /\ EvictOldest(d).size = d.size - oldest.art.bytes
  BY <1>2 DEF EvictOldest
<1>4. Len(t) = n - (k + 1) /\ \A i \in 1 .. n - (k + 1) : t[i] = c.ll[i]
  <2>1. Len(t) = Len(d.ll) - 1 /\ \A i \in 1 .. Len(d.ll) - 1 : t[i] = d.ll[i]
    BY <1>1
  <2>2. Len(d.ll) - 1 = n - (k + 1)
    BY <1>1
  <2>3. \A i \in 1 .. n - (k + 1) : d.ll[i] = c.ll[i]
    <3> HIDE DEF t, oldest
    <3>1. \A i \in 1 .. n - k : d.ll[i] = c.ll[i]
      BY DEF LeftBy
    <3>2. \A i \in 1 .. n - (k + 1) : i \in 1 .. n - k
      BY <1>1
    <3> QED BY <3>1, <3>2
  <2> HIDE DEF t
  <2> QED BY <2>1, <2>2, <2>3
<1>5. Goners(c, k + 1) = Goners(c, k) \cup {oldest}
  <2>1. n - (k + 1) + 1 .. n = (n - k + 1 .. n) \cup {n - k}
    BY <1>1
  <2> QED BY <2>1 DEF Goners
<1>6. KeysLeft(c, k + 1) = KeysLeft(c, k) \ Ids(oldest)
  BY <1>5 DEF KeysLeft
<1>7. EvictOldest(d).byID = [x \in KeysLeft(c, k + 1) |-> c.byID[x]]
  BY <1>3, <1>6 DEF LeftBy, Restrict
<1> QED BY <1>3, <1>4, <1>7 DEF LeftBy

LEMMA TurnsTakeTheLast ==
    ASSUME NEW c, Good(c), c.byID = [x \in DOMAIN c.byID |-> c.byID[x]],
           NEW k \in 0 .. Len(c.ll)
    PROVE  LeftBy(c, Turns(c)[k], k)
<1> DEFINE after == Turns(c)
           n == Len(c.ll)
           T == {i \in 0 .. n : ~LeftBy(c, after[i], i)}
<1>1. n \in Nat
  BY DEF Good
<1>2. after = [i \in 0 .. n |-> IF i = 0 THEN c ELSE EvictOldest(after[i - 1])]
  BY <1>1, TurnsExist
<1>3. \A i \in 0 .. n : Good(after[i])
  BY TurnsKeepGood
<1> HIDE DEF after
<1>4. SUFFICES ASSUME T # {} PROVE FALSE
  BY DEF after
<1>5. PICK m \in T : \A i \in T : m <= i
  <2>1. T \in SUBSET Nat
    BY <1>1
  <2> HIDE DEF T
  <2> QED BY <1>4, <2>1, LeastNat
<1>6. CASE m = 0
  <2>1. after[0] = c
    BY <1>1, <1>2
  <2>2. Goners(c, 0) = {}
    BY <1>1 DEF Goners
  <2>3. KeysLeft(c, 0) = DOMAIN c.byID
    BY <2>2 DEF KeysLeft
  <2>4. LeftBy(c, c, 0)
    BY <2>3, <1>1 DEF LeftBy
  <2> QED BY <2>1, <2>4, <1>5, <1>6
<1>7. CASE m # 0
  <2>1. m - 1 \in 0 .. n - 1 /\ ~ (m <= m - 1) /\ m \in 0 .. n /\ m - 1 \in 0 .. n
    BY <1>1, <1>5, <1>7
  <2>2. LeftBy(c, after[m - 1], m - 1)
    <3>1. m - 1 \notin T
      BY <2>1, <1>5
    <3> QED BY <3>1, <2>1
  <2>3. after[m] = EvictOldest(after[m - 1])
    BY <2>1, <1>2, <1>7
  <2>4. (m - 1) + 1 = m
    BY <2>1
  <2>5. LeftBy(c, after[m], m)
    BY <2>1, <2>2, <2>3, <2>4, <1>3, TurnTakesTheLast
  <2> QED BY <2>5, <1>5
<1> QED BY <1>6, <1>7

\* The loop takes a suffix of the list, which never is the whole of it, and
\* with the first entry of the suffix the cache would be over its budget.
LEMMA LoopTakesASuffix ==
    ASSUME NEW c, Good(c), c.byID = [x \in DOMAIN c.byID |-> c.byID[x]],
           Len(c.ll) > 0
    PROVE  \E k \in 0 .. Len(c.ll) - 1 :
              LET d == EvictWhileOverBudget(c)
              IN  /\ LeftBy(c, d, k)
                  /\ k > 0 => d.size + c.ll[Len(c.ll) - k + 1].art.bytes > MaxBytes
<1> DEFINE after == Turns(c)
           n == Len(c.ll)
           d == EvictWhileOverBudget(c)
           Stops(k) == /\ ~OverBudget(after[k])
                      /\ \A i \in 0 .. k - 1 : OverBudget(after[i])
           T == {k \in 0 .. n : ~OverBudget(after[k])}
<1>1. n \in Nat /\ n > 0
  BY DEF Good
<1>2. \A k \in 0 .. n : /\ Good(after[k]) /\ Len(after[k].ll) = n - k
                        /\ LeftBy(c, after[k], k)
  BY TurnsKeepGood, TurnsTakeTheLast
<1>3. d = after[CHOOSE k \in 0 .. n : Stops(k)]
  BY DEF EvictWhileOverBudget
<1>4. \A k \in 1 .. n : after[k] = EvictOldest(after[k - 1])
  BY <1>1, TurnsExist
<1> HIDE DEF after, n, d
<1>5. n - 1 \in T
  <2>1. n - 1 \in 0 .. n /\ n - (n - 1) = 1
    BY <1>1
  <2>2. Len(after[n - 1].ll) = 1
    BY <2>1, <1>2
  <2>3. ~OverBudget(after[n - 1])
    BY <2>2 DEF OverBudget
  <2> QED BY <2>1, <2>3
<1>6. PICK m \in T : \A i \in T : m <= i
  <2>1. T \in SUBSET Nat /\ T # {}
    BY <1>1, <1>5
  <2> HIDE DEF T
  <2> QED BY <2>1, LeastNat
<1>7. \E k \in 0 .. n : Stops(k)
  <2>1. ASSUME NEW i \in 0 .. m - 1 PROVE OverBudget(after[i])
    <3>1. i \in 0 .. n /\ ~ (m <= i)
      BY <1>1, <1>6
    <3> QED BY <3>1, <1>6
  <2> QED BY <2>1, <1>6
<1>8. PICK k \in 0 .. n : Stops(k) /\ d = after[k]
  BY <1>3, <1>7
<1>9. k \in 0 .. n - 1
  <2>1. SUFFICES ASSUME k = n PROVE FALSE
    BY <1>1, <1>8
  <2>2. n - 1 \in 0 .. k - 1
    BY <2>1, <1>1
  <2> QED BY <2>2, <1>5, <1>8
<1>10. ASSUME k > 0 PROVE d.size + c.ll[n - k + 1].art.bytes > MaxBytes
  <2> DEFINE b == after[k - 1]
             e == c.ll[n - k + 1]
  <2>1. k - 1 \in 0 .. k - 1 /\ k - 1 \in 0 .. n - 1 /\ k - 1 \in 0 .. n
        /\ k \in 1 .. n /\ n - (k - 1) = n - k + 1 /\ n - k + 1 \in 1 .. n
    BY <1>1, <1>9, <1>10
  <2>2. b.size > MaxBytes
    BY <2>1, <1>8 DEF OverBudget
  <2>3. d.size = b.size - e.art.bytes
    <3>1. EvictOldest(b).size = b.size - c.ll[n - (k - 1)].art.bytes
      BY <2>1, <1>2, TurnTakesTheLast DEF n
    <3> QED BY <3>1, <2>1, <1>4, <1>8
  <2>4. b.size \in Nat
    <3>1. b.ll \in Seq(Entries) /\ b.size = Bytes(b.ll)
      BY <2>1, <1>2 DEF Good
    <3> QED BY <3>1, BytesSum
  <2>5. e.art.bytes \in Nat
    <3>1. e \in Entries
      BY <2>1 DEF Good, n
    <3> QED BY <3>1, EntryBytes
  <2> HIDE DEF b, e
  <2>6. d.size + e.art.bytes > MaxBytes
    BY <2>2, <2>3, <2>4, <2>5, MaxBytesAssumption
  <2> QED BY <2>6 DEF e
<1>11. LeftBy(c, d, k)
  BY <1>2, <1>8
<1> QED BY <1>9, <1>10, <1>11 DEF n, d

(***************************************************************************)
(* What an insertion of a version that is not cached leaves: of the pushed *)
(* list, the entries before a position that is past the first.             *)
(***************************************************************************)
LEMMA InsertionEffect ==
    ASSUME Good(cache), NEW e \in Entries, Insert(e),
           VersionKeyOf(e) \notin DOMAIN cache.byID
    PROVE  LET c == PushFront(cache, e)
           IN  /\ Good(c)
               /\ Len(c.ll) = Len(cache.ll) + 1 /\ c.ll[1] = e
               /\ \A i \in 1 .. Len(cache.ll) : c.ll[i + 1] = cache.ll[i]
               /\ c.byID = [x \in DOMAIN cache.byID \cup Ids(e) |->
                              IF x \in Ids(e) THEN e ELSE cache.byID[x]]
               /\ \E k \in 0 .. Len(cache.ll) :
                     /\ LeftBy(c, cache', k)
                     /\ k > 0 =>
                           cache'.size + c.ll[Len(c.ll) - k + 1].art.bytes > MaxBytes
<1> DEFINE c == PushFront(cache, e)
<1>1. cache.ll \in Seq(Entries) /\ Len(cache.ll) \in Nat
  BY DEF Good
<1>2. Good(c) /\ Len(c.ll) = Len(cache.ll) + 1
  BY PushKeepsGood
<1>3. cache' = EvictWhileOverBudget(c)
  BY DEF Insert, Add
<1>4. /\ c.ll = <<e>> \o cache.ll
      /\ c.byID = [x \in DOMAIN cache.byID \cup Ids(e) |->
                     IF x \in Ids(e) THEN e ELSE cache.byID[x]]
  BY DEF PushFront
<1>5. c.ll[1] = e /\ \A i \in 1 .. Len(cache.ll) : c.ll[i + 1] = cache.ll[i]
  BY <1>1, <1>4
<1>6. c.byID = [x \in DOMAIN c.byID |-> c.byID[x]]
  BY <1>4
<1> HIDE DEF c
<1>7. Len(c.ll) > 0 /\ Len(c.ll) - 1 = Len(cache.ll)
  BY <1>1, <1>2
<1>8. \E k \in 0 .. Len(cache.ll) :
         /\ LeftBy(c, cache', k)
         /\ k > 0 => cache'.size + c.ll[Len(c.ll) - k + 1].art.bytes > MaxBytes
  BY <1>2, <1>3, <1>6, <1>7, LoopTakesASuffix
<1> QED BY <1>2, <1>4, <1>5, <1>8 DEF c

(***************************************************************************)
(* The theorems.                                                           *)
(***************************************************************************)
LEMMA GoodIsCacheInv == Good(cache) /\ Within(cache) => CacheInv
<1> SUFFICES ASSUME Good(cache), Within(cache) PROVE CacheInv
  OBVIOUS
<1>1. /\ ll \in Seq(Entries) /\ Len(ll) \in Nat /\ DOMAIN ll = 1 .. Len(ll)
      /\ \A i \in 1 .. Len(ll) : ll[i] \in Entries
  BY DEF Good, ll
<1>2. \A k \in DOMAIN byID :
         \E i \in 1 .. Len(ll) : byID[k] = ll[i] /\ k \in Ids(ll[i])
  BY DEF Good, ll, byID
<1>3. TypeOK
  <2>1. DOMAIN byID \subseteq Keys /\ \A k \in DOMAIN byID : byID[k] \in Entries
    BY <1>1, <1>2 DEF Keys
  <2>2. cache.size \in Nat
    BY <1>1, BytesSum DEF Good, ll
  <2> QED BY <1>1, <2>1, <2>2 DEF TypeOK
<1>4. NoDuplicates
  BY <1>1 DEF Good, NoDuplicates, ll
<1>5. IndexCoherent
  BY <1>1, <1>2 DEF IndexCoherent, Range
<1>6. Reachable
  BY <1>1 DEF Good, Reachable, ll, byID
<1>7. SizeExact /\ WithinBudget
  BY DEF Good, Within, SizeExact, WithinBudget, ll
<1> QED BY <1>3, <1>4, <1>5, <1>6, <1>7 DEF CacheInv

LEMMA LookupKeepsGood ==
    ASSUME Good(cache), Within(cache), NEW id, Lookup(id)
    PROVE  Good(cache') /\ Within(cache')
<1>1. CASE id \in DOMAIN cache.byID
  <2>1. cache' = Touch(cache, cache.byID[id])
    BY <1>1 DEF Lookup, Get
  <2> QED BY <1>1, <2>1, TouchKeepsGood DEF Within
<1>2. CASE id \notin DOMAIN cache.byID
  BY <1>2 DEF Lookup, Get
<1> QED BY <1>1, <1>2

LEMMA InsertKeepsGood ==
    ASSUME Good(cache), Within(cache), NEW e \in Entries, Insert(e)
    PROVE  Good(cache') /\ Within(cache')
<1>1. CASE VersionKeyOf(e) \in DOMAIN cache.byID
  <2>1. cache' = Touch(cache, cache.byID[VersionKeyOf(e)])
    BY <1>1 DEF Insert, Add
  <2> QED BY <1>1, <2>1, TouchKeepsGood DEF Within
<1>2. CASE VersionKeyOf(e) \notin DOMAIN cache.byID
  <2>1. cache' = EvictWhileOverBudget(PushFront(cache, e))
    BY <1>2 DEF Insert, Add
  <2>2. Len(cache.ll) \in Nat
    BY DEF Good
  <2>3. Good(PushFront(cache, e)) /\ Len(PushFront(cache, e).ll) > 0
    BY <1>2, <2>2, PushKeepsGood
  <2> QED BY <2>1, <2>3, LoopKeepsGood
<1> QED BY <1>1, <1>2

\* Whatever is looked up and inserted, the list, the index and the byte count
\* agree, no version is cached twice, and the budget is kept.
THEOREM CacheInvariant == Spec => []CacheInv
<1> DEFINE IInv == Good(cache) /\ Within(cache)
<1>1. Init => IInv
  BY GoodEmpty DEF Init
<1>2. IInv /\ [Next]_cache => IInv'
  <2> SUFFICES ASSUME IInv, [Next]_cache PROVE IInv'
    OBVIOUS
  <2>1. CASE \E id \in Keys : Lookup(id)
    BY <2>1, LookupKeepsGood
  <2>2. CASE \E e \in Entries : Insert(e)
    BY <2>2, InsertKeepsGood
  <2>3. CASE UNCHANGED cache
    BY <2>3
  <2> QED BY <2>1, <2>2, <2>3 DEF Next
<1>3. IInv => CacheInv
  BY GoodIsCacheInv
<1> QED BY <1>1, <1>2, <1>3, PTL DEF Spec

\* The list, the index and the byte count always have their types.
THEOREM TypeCorrect == Spec => []TypeOK
<1>1. CacheInv => TypeOK
  BY DEF CacheInv
<1> QED BY <1>1, CacheInvariant, PTL

\* No version of a chart is cached twice, however often it is published.
THEOREM VersionsAreUnique == Spec => []NoDuplicates
<1>1. CacheInv => NoDuplicates
  BY DEF CacheInv
<1> QED BY <1>1, CacheInvariant, PTL

\* A hit is never wrong: what a key leads to is cached and was filed under it.
THEOREM IndexIsCoherent == Spec => []IndexCoherent
<1>1. CacheInv => IndexCoherent
  BY DEF CacheInv
<1> QED BY <1>1, CacheInvariant, PTL

\* No entry is ever beyond the reach of a lookup by its version.
THEOREM EntriesStayReachable == Spec => []Reachable
<1>1. CacheInv => Reachable
  BY DEF CacheInv
<1> QED BY <1>1, CacheInvariant, PTL

\* The byte count never drifts from what the list holds.
THEOREM SizeStaysExact == Spec => []SizeExact
<1>1. CacheInv => SizeExact
  BY DEF CacheInv
<1> QED BY <1>1, CacheInvariant, PTL

\* The budget is kept, but for a single artifact above it.
THEOREM BudgetIsKept == Spec => []WithinBudget
<1>1. CacheInv => WithinBudget
  BY DEF CacheInv
<1> QED BY <1>1, CacheInvariant, PTL

\* A call evicts a suffix of the recency list, and no more of it than the
\* budget asks for (cache.go:87-103).
THEOREM OnlyTheOldestAreEvicted == Spec => EvictsOnlyTheOldest
<1> DEFINE Evicted(i) == ll[i] \notin Range(ll')
           Fair == \A i \in DOMAIN ll : Evicted(i) =>
                      /\ \A j \in i .. Len(ll) : Evicted(j)
                      /\ (\A j \in 1 .. i - 1 : ~Evicted(j))
                            => cache'.size + ll[i].art.bytes > MaxBytes
           IInv == Good(cache) /\ Within(cache)
<1>1. Init => IInv
  BY GoodEmpty DEF Init
<1>2. IInv /\ [Next]_cache => IInv'
  BY LookupKeepsGood, InsertKeepsGood DEF Next
<1>3. IInv /\ [Next]_cache => [Fair]_cache
  <2> SUFFICES ASSUME Good(cache), Within(cache), Next PROVE Fair
    OBVIOUS
  <2>1. /\ ll \in Seq(Entries) /\ Len(ll) \in Nat /\ DOMAIN ll = 1 .. Len(ll)
        /\ ll = cache.ll /\ byID = cache.byID
    BY DEF Good, ll, byID
  <2>2. ASSUME NEW k \in DOMAIN cache.byID,
               cache' = Touch(cache, cache.byID[k])
        PROVE  Fair
    <3>1. /\ Good(cache') /\ Len(cache'.ll) = Len(cache.ll)
          /\ \A i \in 1 .. Len(cache.ll) :
                \E j \in 1 .. Len(cache.ll) : cache'.ll[j] = cache.ll[i]
      BY <2>2, TouchKeepsGood
    <3>2. DOMAIN ll' = 1 .. Len(cache.ll)
      BY <3>1 DEF Good, ll
    <3>3. \A i \in DOMAIN ll : ~Evicted(i)
      BY <2>1, <3>1, <3>2 DEF ll, Range
    <3> QED BY <3>3
  <2>3. CASE \E id \in Keys : Lookup(id)
    <3>1. PICK id \in Keys : Lookup(id)
      BY <2>3
    <3>2. CASE id \in DOMAIN cache.byID
      BY <2>2, <3>1, <3>2 DEF Lookup, Get
    <3>3. CASE id \notin DOMAIN cache.byID
      <4>1. ll' = ll
        BY <3>1, <3>3 DEF Lookup, Get, ll
      <4>2. \A i \in DOMAIN ll : ~Evicted(i)
        BY <4>1 DEF Range
      <4> QED BY <4>2
    <3> QED BY <3>2, <3>3
  <2>4. ASSUME NEW e \in Entries, Insert(e) PROVE Fair
    <3>1. CASE VersionKeyOf(e) \in DOMAIN cache.byID
      BY <2>2, <2>4, <3>1 DEF Insert, Add
    <3>2. CASE VersionKeyOf(e) \notin DOMAIN cache.byID
      <4> DEFINE c == PushFront(cache, e)
                 n == Len(cache.ll)
      <4>1. /\ Good(c) /\ Len(c.ll) = n + 1
            /\ \A i \in 1 .. n : c.ll[i + 1] = cache.ll[i]
        BY <2>4, <3>2, InsertionEffect
      <4>2. PICK k \in 0 .. n :
               /\ LeftBy(c, cache', k)
               /\ k > 0 => cache'.size + c.ll[Len(c.ll) - k + 1].art.bytes
                              > MaxBytes
        BY <2>4, <3>2, InsertionEffect
      <4>3. \A i, j \in 1 .. Len(c.ll) : c.ll[i] = c.ll[j] => i = j
        BY <4>1 DEF Good
      <4> HIDE DEF c
      <4>4. n \in Nat /\ n = Len(ll) /\ DOMAIN ll = 1 .. n
            /\ n + 1 - k \in 1 .. n + 1
        BY <2>1, <4>2
      <4>5. /\ DOMAIN ll' = 1 .. n + 1 - k
            /\ \A j \in 1 .. n + 1 - k : ll'[j] = c.ll[j]
        <5>1. Good(cache')
          BY <2>4, InsertKeepsGood
        <5>2. Len(cache'.ll) = n + 1 - k
          BY <4>1, <4>2, <4>4 DEF LeftBy
        <5> QED BY <4>1, <4>2, <4>4, <5>1, <5>2 DEF LeftBy, Good, ll
      <4>6. ASSUME NEW i \in 1 .. n PROVE Evicted(i) <=> i >= n + 1 - k
        <5>1. ll[i] = c.ll[i + 1] /\ i + 1 \in 1 .. Len(c.ll)
          BY <2>1, <4>1, <4>4
        <5>2. ASSUME i < n + 1 - k PROVE ~Evicted(i)
          <6>1. i + 1 \in DOMAIN ll' /\ ll'[i + 1] = ll[i]
            BY <4>4, <4>5, <5>1, <5>2
          <6> QED BY <6>1 DEF Range
        <5>3. ASSUME i >= n + 1 - k, ~Evicted(i) PROVE FALSE
          <6>1. PICK j \in 1 .. n + 1 - k : c.ll[j] = c.ll[i + 1]
            BY <4>5, <5>1, <5>3 DEF Range
          <6>2. j \in 1 .. Len(c.ll)
            BY <4>1, <4>2, <4>4
          <6>3. j = i + 1
            BY <4>3, <5>1, <6>1, <6>2
          <6> QED BY <4>2, <4>4, <5>3, <6>3
        <5> QED BY <5>2, <5>3, <4>4
      <4>7. ASSUME NEW i \in 1 .. n, Evicted(i)
            PROVE  /\ \A j \in i .. n : Evicted(j)
                   /\ (\A j \in 1 .. i - 1 : ~Evicted(j))
                         => cache'.size + ll[i].art.bytes > MaxBytes
        <5> HIDE DEF Evicted, n
        <5>1. i >= n + 1 - k
          BY <4>6, <4>7
        <5>2. ASSUME NEW j \in i .. n PROVE Evicted(j)
          <6>1. j \in 1 .. n /\ j >= n + 1 - k
            BY <4>2, <4>4, <5>1
          <6> QED BY <4>6, <6>1
        <5>3. ASSUME \A j \in 1 .. i - 1 : ~Evicted(j)
              PROVE  cache'.size + ll[i].art.bytes > MaxBytes
          <6>1. i = n + 1 - k
            <7>1. SUFFICES ASSUME i # n + 1 - k PROVE FALSE
              OBVIOUS
            <7>2. /\ n + 1 - k \in 1 .. i - 1 /\ n + 1 - k \in 1 .. n
                  /\ n + 1 - k >= n + 1 - k
              BY <4>2, <4>4, <5>1, <7>1
            <7> QED BY <4>6, <5>3, <7>2
          <6>2. k > 0 /\ Len(c.ll) - k + 1 = i + 1
            BY <4>1, <4>2, <4>4, <6>1
          <6>3. ll[i] = c.ll[i + 1]
            BY <2>1, <4>1 DEF n
          <6> QED BY <4>2, <6>2, <6>3
        <5> QED BY <5>2, <5>3
      <4> QED BY <4>4, <4>7
    <3> QED BY <3>1, <3>2
  <2> QED BY <2>3, <2>4 DEF Next
<1> QED BY <1>1, <1>2, <1>3, PTL DEF Spec, EvictsOnlyTheOldest

(***************************************************************************)
(* The refinement of DerivedCache, whose vocabulary is the same.           *)
(***************************************************************************)
LEMMA SameVocabulary ==
    /\ \A e : Derived!VersionKeyOf(e) = VersionKeyOf(e) /\ Derived!Ids(e) = Ids(e)
    /\ Derived!Entries = Entries
BY DEF Derived!VersionKeyOf, VersionKeyOf, Derived!VersionKey, VersionKey,
       Derived!Ids, Ids, Derived!DigestKey, DigestKey, Derived!BlobDigests,
       BlobDigests, Derived!Entries, Entries

\* A hit is a stutter; an insertion files the entry and forgets what the loop
\* evicts, which never is the entry itself.
THEOREM CacheKeepsItsPromise == Spec => ImplementsDerivedCache
<1> DEFINE IInv == Good(cache) /\ Within(cache)
<1>1. Init => IInv
  BY GoodEmpty DEF Init
<1>2. IInv /\ [Next]_cache => IInv'
  BY LookupKeepsGood, InsertKeepsGood DEF Next
<1>3. Init => Derived!Init
  BY DEF Init, Derived!Init, EmptyCache, byID
<1>4. IInv /\ [Next]_cache => [Derived!Next]_byID
  <2> SUFFICES ASSUME Good(cache), Within(cache), [Next]_cache
               PROVE  Derived!Next \/ UNCHANGED byID
    OBVIOUS
  <2>1. ASSUME NEW k \in DOMAIN cache.byID,
               cache' = Touch(cache, cache.byID[k])
        PROVE  UNCHANGED byID
    BY <2>1, TouchKeepsGood DEF byID
  <2>2. ASSUME NEW id \in Keys, Lookup(id) PROVE UNCHANGED byID
    BY <2>1, <2>2 DEF Lookup, Get, byID
  <2>3. ASSUME NEW e \in Entries, Insert(e)
        PROVE  Derived!Next \/ UNCHANGED byID
    <3>1. CASE VersionKeyOf(e) \in DOMAIN cache.byID
      BY <2>1, <2>3, <3>1 DEF Insert, Add
    <3>2. CASE VersionKeyOf(e) \notin DOMAIN cache.byID
      <4> DEFINE c == PushFront(cache, e)
                 n == Len(cache.ll)
                 learnt == Derived!Learn(byID, e)
      <4>1. /\ Good(c) /\ Len(c.ll) = n + 1
            /\ \A i \in 1 .. n : c.ll[i + 1] = cache.ll[i]
            /\ c.byID = [x \in DOMAIN cache.byID \cup Ids(e) |->
                           IF x \in Ids(e) THEN e ELSE cache.byID[x]]
        BY <2>3, <3>2, InsertionEffect
      <4>2. PICK k \in 0 .. n : LeftBy(c, cache', k)
        BY <2>3, <3>2, InsertionEffect
      <4>3. n \in Nat
        BY DEF Good
      <4> DEFINE gone == Goners(c, k)
      <4>4. c.byID = learnt
        BY <4>1, SameVocabulary DEF Derived!Learn, byID
      <4> HIDE DEF c, n, learnt
      <4>5. gone \subseteq Derived!Range(byID) \ {e}
        <5> SUFFICES ASSUME NEW i \in Len(c.ll) - k + 1 .. Len(c.ll)
                     PROVE  c.ll[i] \in Derived!Range(byID) \ {e}
          BY DEF Goners
        <5>1. i - 1 \in 1 .. n /\ (i - 1) + 1 = i
          BY <4>1, <4>2, <4>3
        <5>2. c.ll[i] = cache.ll[i - 1]
          BY <4>1, <5>1
        <5>3. /\ VersionKeyOf(c.ll[i]) \in DOMAIN cache.byID
              /\ cache.byID[VersionKeyOf(c.ll[i])] = c.ll[i]
          BY <5>1, <5>2 DEF Good, n
        <5> QED BY <3>2, <5>3 DEF Derived!Range, byID
      <4>6. KeysLeft(c, k) = DOMAIN learnt \ UNION {Derived!Ids(g) : g \in gone}
        BY <4>4, SameVocabulary DEF KeysLeft
      <4>7. byID' = Derived!Forget(learnt, gone)
        <5>1. byID' = [x \in KeysLeft(c, k) |-> c.byID[x]]
          BY <4>2 DEF LeftBy, byID
        <5> QED BY <4>4, <4>6, <5>1 DEF Derived!Forget, Derived!Restrict
      <4>8. Derived!File(e)
        BY <3>2, <4>5, <4>7, SameVocabulary DEF Derived!File, byID, learnt
      <4> QED BY <4>8, SameVocabulary DEF Derived!Next
    <3> QED BY <3>1, <3>2
  <2>4. CASE UNCHANGED cache
    BY <2>4 DEF byID
  <2> QED BY <2>2, <2>3, <2>4 DEF Next
<1> QED BY <1>1, <1>2, <1>3, <1>4, PTL
        DEF Spec, ImplementsDerivedCache, Derived!Spec

(***************************************************************************)
(* Recency.                                                                *)
(***************************************************************************)
\* A hit moves its entry from its place to the first.
LEMMA TouchMovesToFront ==
    ASSUME NEW c, Good(c), NEW k \in DOMAIN c.byID
    PROVE  \E at \in 1 .. Len(c.ll) :
              LET t == Touch(c, c.byID[k]).ll
              IN  /\ c.ll[at] = c.byID[k] /\ Len(t) = Len(c.ll) /\ t[1] = c.ll[at]
                  /\ \A j \in 2 .. Len(c.ll) :
                        t[j] = IF j <= at THEN c.ll[j - 1] ELSE c.ll[j]
<1> DEFINE s == c.ll
           at == Position(s, c.byID[k])
           t == MoveToFront(s, c.byID[k])
<1>1. s \in Seq(Entries) /\ Len(s) \in Nat /\ DOMAIN s = 1 .. Len(s)
  BY DEF Good
<1>2. \E i \in DOMAIN s : s[i] = c.byID[k]
  BY <1>1 DEF Good
<1>3. at \in 1 .. Len(s) /\ s[at] = c.byID[k]
  BY <1>1, <1>2 DEF Position
<1>4. Touch(c, c.byID[k]).ll = t
  BY DEF Touch, Good
<1>5. at = Position(s, s[at])
  BY <1>3
<1>6. t = MoveToFront(s, s[at])
  BY <1>3
<1> HIDE DEF s, at, t
<1>7. /\ Len(t) = Len(s) /\ t[1] = s[at]
      /\ \A j \in 2 .. Len(s) : t[j] = IF j <= at THEN s[j - 1] ELSE s[j]
  BY <1>1, <1>3, <1>5, <1>6, MoveToFrontPermutes
<1> QED BY <1>3, <1>4, <1>7 DEF s

LEMMA UseFoundKeepsOrder ==
    ASSUME Good(cache), HoldsMostRecentlyUsed, NEW k \in DOMAIN byID,
           cache' = Touch(cache, cache.byID[k]), Use(byID[k])
    PROVE  HoldsMostRecentlyUsed'
<1> DEFINE s == cache.ll
           t == cache'.ll
           n == Len(s)
           e == byID[k]
<1>1. s \in Seq(Entries) /\ n \in Nat /\ DOMAIN s = 1 .. n
  BY DEF Good
<1>2. PICK at \in 1 .. n :
         /\ s[at] = e /\ Len(t) = n /\ t[1] = s[at]
         /\ \A j \in 2 .. n : t[j] = IF j <= at THEN s[j - 1] ELSE s[j]
  BY TouchMovesToFront DEF byID
<1>3. Good(cache')
  BY TouchKeepsGood DEF byID
<1>4. DOMAIN t = 1 .. n /\ \A i, j \in 1 .. n : t[i] = t[j] => i = j
  BY <1>1, <1>2, <1>3 DEF Good
<1>5. \A i \in 1 .. n : since[s[i]] = {s[j] : j \in 1 .. i - 1}
  BY <1>1 DEF HoldsMostRecentlyUsed, ll
<1>6. \A i \in 1 .. n : since'[t[i]] = IF t[i] = e THEN {} ELSE since[t[i]] \cup {e}
  BY <1>4 DEF Use, Range, ll
<1> HIDE DEF s, t, n, e
<1>7. ASSUME NEW i \in 1 .. n PROVE since'[t[i]] = {t[j] : j \in 1 .. i - 1}
  <2>1. CASE i = 1
    <3>1. t[i] = e
      BY <2>1, <1>2
    <3>2. since'[t[i]] = {}
      BY <3>1, <1>6
    <3>3. ~ \E j \in 1 .. i - 1 : TRUE
      BY <2>1
    <3> QED BY <3>2, <3>3
  <2>2. CASE i \in 2 .. at
    <3>1. t[i] = s[i - 1] /\ t[i] # e /\ i - 1 \in 1 .. n
      BY <1>1, <1>2, <1>4, <2>2
    <3>2. since'[t[i]] = {s[j] : j \in 1 .. i - 2} \cup {e}
      <4>1. since'[t[i]] = since[s[i - 1]] \cup {e}
        BY <1>6, <3>1
      <4>2. since[s[i - 1]] = {s[j] : j \in 1 .. (i - 1) - 1}
        BY <1>5, <3>1
      <4>3. (i - 1) - 1 = i - 2
        OBVIOUS
      <4> QED BY <4>1, <4>2, <4>3
    <3>3. \A j \in 2 .. i - 1 : t[j] = s[j - 1]
      BY <1>1, <1>2, <2>2
    <3>4. ASSUME NEW j \in 1 .. i - 2 PROVE s[j] = t[j + 1] /\ j + 1 \in 1 .. i - 1
      BY <1>1, <2>2, <3>3
    <3>5. ASSUME NEW j \in 1 .. i - 1
          PROVE  t[j] = e \/ \E l \in 1 .. i - 2 : t[j] = s[l]
      <4>1. CASE j = 1
        BY <4>1, <1>2
      <4>2. CASE j # 1
        <5>1. t[j] = s[j - 1] /\ j - 1 \in 1 .. i - 2
          BY <4>2, <1>1, <2>2, <3>3
        <5> QED BY <5>1
      <4> QED BY <4>1, <4>2
    <3>6. t[1] = e /\ 1 \in 1 .. i - 1
      BY <1>1, <1>2, <2>2
    <3> QED BY <3>2, <3>4, <3>5, <3>6
  <2>3. CASE i \in at + 1 .. n
    <3>1. t[i] = s[i] /\ t[i] # e
      BY <1>1, <1>2, <1>4, <2>3
    <3>2. since'[t[i]] = {s[j] : j \in 1 .. i - 1} \cup {e}
      BY <1>5, <1>6, <3>1
    <3>3. ASSUME NEW j \in 1 .. i - 1 PROVE \E l \in 1 .. i - 1 : s[j] = t[l]
      <4>1. CASE j < at
        <5>1. s[j] = t[j + 1] /\ j + 1 \in 1 .. i - 1
          BY <4>1, <1>1, <1>2, <2>3
        <5> QED BY <5>1
      <4>2. CASE j = at
        <5>1. s[j] = t[1] /\ 1 \in 1 .. i - 1
          BY <4>2, <1>1, <1>2, <2>3
        <5> QED BY <5>1
      <4>3. CASE j > at
        <5>1. s[j] = t[j]
          BY <4>3, <1>1, <1>2, <2>3
        <5> QED BY <5>1
      <4> QED BY <1>1, <4>1, <4>2, <4>3
    <3>4. ASSUME NEW j \in 1 .. i - 1 PROVE \E l \in 1 .. i - 1 : t[j] = s[l]
      <4>1. CASE j = 1
        BY <4>1, <1>1, <1>2, <2>3
      <4>2. CASE j \in 2 .. at
        <5>1. t[j] = s[j - 1] /\ j - 1 \in 1 .. i - 1
          BY <4>2, <1>1, <1>2, <2>3
        <5> QED BY <5>1
      <4>3. CASE j > at
        <5>1. t[j] = s[j]
          BY <4>3, <1>1, <1>2, <2>3
        <5> QED BY <5>1
      <4> QED BY <1>1, <4>1, <4>2, <4>3
    <3>5. e = s[at] /\ at \in 1 .. i - 1
      BY <1>1, <1>2, <2>3
    <3> QED BY <3>2, <3>3, <3>4, <3>5
  <2> QED BY <1>1, <1>2, <2>1, <2>2, <2>3
<1> QED BY <1>4, <1>7 DEF HoldsMostRecentlyUsed, ll, t

LEMMA InsertionKeepsOrder ==
    ASSUME Good(cache), Within(cache), HoldsMostRecentlyUsed,
           NEW e \in Entries, Insert(e), VersionKeyOf(e) \notin DOMAIN byID, Use(e)
    PROVE  HoldsMostRecentlyUsed'
<1> DEFINE s == cache.ll
           t == cache'.ll
           n == Len(t)
           c == PushFront(cache, e)
<1>1. s \in Seq(Entries) /\ Len(s) \in Nat /\ DOMAIN s = 1 .. Len(s)
  BY DEF Good
<1>2. Good(cache')
  BY InsertKeepsGood
<1>3. /\ n \in Nat /\ DOMAIN t = 1 .. n
      /\ \A i, j \in 1 .. n : t[i] = t[j] => i = j
  BY <1>2 DEF Good
<1>4. /\ Len(c.ll) = Len(s) + 1 /\ c.ll[1] = e
      /\ \A i \in 1 .. Len(s) : c.ll[i + 1] = s[i]
      /\ \E k \in 0 .. Len(s) : LeftBy(c, cache', k)
  BY InsertionEffect DEF byID
<1>5. PICK k \in 0 .. Len(s) :
         /\ n = Len(c.ll) - k
         /\ \A i \in 1 .. Len(c.ll) - k : t[i] = c.ll[i]
  BY <1>4 DEF LeftBy
<1>6. \A i \in 1 .. Len(s) : since[s[i]] = {s[j] : j \in 1 .. i - 1}
  BY <1>1 DEF HoldsMostRecentlyUsed, ll
<1>7. \A i \in 1 .. n : since'[t[i]] = IF t[i] = e THEN {} ELSE since[t[i]] \cup {e}
  BY <1>3 DEF Use, Range, ll
<1> HIDE DEF s, t, n, c
<1>8. /\ n \in 1 .. Len(s) + 1 /\ t[1] = e
      /\ \A i \in 2 .. n : i - 1 \in 1 .. Len(s) /\ t[i] = s[i - 1]
  <2>1. n \in 1 .. Len(s) + 1 /\ t[1] = e
    BY <1>1, <1>4, <1>5
  <2>2. ASSUME NEW i \in 2 .. n PROVE i - 1 \in 1 .. Len(s) /\ t[i] = s[i - 1]
    <3>1. i - 1 \in 1 .. Len(s) /\ i \in 1 .. Len(c.ll) - k /\ (i - 1) + 1 = i
      BY <1>1, <1>5, <2>1
    <3> QED BY <1>4, <1>5, <3>1
  <2> QED BY <2>1, <2>2
<1>9. ASSUME NEW i \in 1 .. n PROVE since'[t[i]] = {t[j] : j \in 1 .. i - 1}
  <2>1. CASE i = 1
    <3>1. t[i] = e
      BY <2>1, <1>8
    <3>2. since'[t[i]] = {}
      BY <3>1, <1>7
    <3>3. ~ \E j \in 1 .. i - 1 : TRUE
      BY <2>1
    <3> QED BY <3>2, <3>3
  <2>2. CASE i # 1
    <3>1. t[i] = s[i - 1] /\ t[i] # e /\ i - 1 \in 1 .. Len(s)
      BY <1>3, <1>8, <2>2
    <3>2. since'[t[i]] = {s[j] : j \in 1 .. i - 2} \cup {e}
      <4>1. since'[t[i]] = since[s[i - 1]] \cup {e}
        BY <1>7, <3>1
      <4>2. since[s[i - 1]] = {s[j] : j \in 1 .. (i - 1) - 1}
        BY <1>6, <3>1
      <4>3. (i - 1) - 1 = i - 2
        OBVIOUS
      <4> QED BY <4>1, <4>2, <4>3
    <3>3. ASSUME NEW j \in 1 .. i - 2 PROVE s[j] = t[j + 1] /\ j + 1 \in 1 .. i - 1
      <4>1. j + 1 \in 2 .. n /\ (j + 1) - 1 = j
        BY <1>3, <2>2
      <4> QED BY <4>1, <1>8
    <3>4. ASSUME NEW j \in 1 .. i - 1
          PROVE  t[j] = e \/ \E l \in 1 .. i - 2 : t[j] = s[l]
      <4>1. CASE j = 1
        BY <4>1, <1>8
      <4>2. CASE j # 1
        <5>1. t[j] = s[j - 1] /\ j - 1 \in 1 .. i - 2
          BY <4>2, <1>3, <1>8, <2>2
        <5> QED BY <5>1
      <4> QED BY <4>1, <4>2
    <3>5. t[1] = e /\ 1 \in 1 .. i - 1
      BY <1>3, <1>8, <2>2
    <3> QED BY <3>2, <3>3, <3>4, <3>5
  <2> QED BY <2>1, <2>2
<1> QED BY <1>3, <1>9 DEF HoldsMostRecentlyUsed, ll, t

\* The list is in the order of the last uses and an eviction loses nothing that
\* was used since an entry that is kept: the cache holds the most recently used
\* entries (cache.go:53, :78, :87-103).
THEOREM MostRecentlyUsedAreKept == RecencySpec => []HoldsMostRecentlyUsed
<1> DEFINE IInv == Good(cache) /\ Within(cache) /\ HoldsMostRecentlyUsed
<1>1. RecencyInit => IInv
  BY GoodEmpty DEF RecencyInit, Init, HoldsMostRecentlyUsed, ll, EmptyCache
<1>2. IInv /\ [RecencyNext]_<<cache, since>> => IInv'
  <2> SUFFICES ASSUME IInv, [RecencyNext]_<<cache, since>> PROVE IInv'
    OBVIOUS
  <2>1. ASSUME NEW id, RecencyLookup(id) PROVE IInv'
    <3>1. CASE id \in DOMAIN byID
      <4>1. cache' = Touch(cache, cache.byID[id]) /\ Use(byID[id])
        BY <2>1, <3>1 DEF RecencyLookup, Lookup, Get, UseFound, byID
      <4> QED BY <2>1, <3>1, <4>1, LookupKeepsGood, UseFoundKeepsOrder
              DEF RecencyLookup
    <3>2. CASE id \notin DOMAIN byID
      BY <2>1, <3>2 DEF RecencyLookup, Lookup, Get, UseFound, byID,
                        HoldsMostRecentlyUsed, ll
    <3> QED BY <3>1, <3>2
  <2>2. ASSUME NEW e \in Entries, RecencyInsert(e) PROVE IInv'
    <3>1. Good(cache') /\ Within(cache')
      BY <2>2, InsertKeepsGood DEF RecencyInsert
    <3>2. CASE VersionKeyOf(e) \in DOMAIN byID
      <4>1. /\ cache' = Touch(cache, cache.byID[VersionKeyOf(e)])
            /\ Use(byID[VersionKeyOf(e)])
        BY <2>2, <3>2 DEF RecencyInsert, Insert, Add, UseFound, byID
      <4> QED BY <3>1, <3>2, <4>1, UseFoundKeepsOrder
    <3>3. CASE VersionKeyOf(e) \notin DOMAIN byID
      BY <2>2, <3>1, <3>3, InsertionKeepsOrder DEF RecencyInsert
    <3> QED BY <3>2, <3>3
  <2>3. CASE UNCHANGED <<cache, since>>
    BY <2>3 DEF HoldsMostRecentlyUsed, ll
  <2> QED BY <2>1, <2>2, <2>3 DEF RecencyNext
<1> QED BY <1>1, <1>2, PTL DEF RecencySpec
=============================================================================
