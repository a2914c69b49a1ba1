----------------------------- MODULE ListingProofs -----------------------------
(***************************************************************************)
(* What clients find who follow the links of tags/list, for every history  *)
(* of the index, any page sizes and any number of replicas.                *)
(***************************************************************************)
EXTENDS Listing, LeastElement, SequenceTheorems, TLAPS

Walks ==
    [at : {"idle", "walking", "complete", "failed"},
     n : PageSizes \cup {NoLimit}, last : Nat \cup {Start},
     page : Seq(ValidTags), listed : SUBSET ValidTags,
     seen : SUBSET DOMAIN History]

\* A client that walks has been told all up to the last tag, and of the stable
\* versions none is missing there; one that is through misses none at all.
Told(w) ==
    /\ w.at = "walking" =>
          /\ w.seen = {} => w.last = Start
          /\ \A t \in w.listed : Place(t) <= w.last
          /\ \A v \in Stable(w) :
                Place(VersionToTag(v)) <= w.last => VersionToTag(v) \in w.listed
    /\ w.at = "complete" /\ w.n # 0 =>
          \A v \in Stable(w) : VersionToTag(v) \in w.listed

\* The tags in a set lead back to versions that were read.
Resolves(tags, seen) ==
    \A t \in tags : \E rev \in seen :
        \/ TagToVersion(t) \in VersionsAt(rev)
        \/ t.mark = "_" /\ t \in VersionsAt(rev)

WalkInv(w) ==
    w \in Walks /\ Range(w.page) \subseteq w.listed /\ Told(w) /\ Resolves(w.listed, w.seen)

ListingInv ==
    /\ published \in DOMAIN History
    /\ read \in [Replicas -> DOMAIN History]
    /\ walk \in [Clients -> Walks]
    /\ \A c \in Clients : WalkInv(walk[c])
-----------------------------------------------------------------------------
(* Tags and their order. *)

LEMMA Histories ==
    /\ Len(History) \in Nat \ {0} /\ DOMAIN History = 1 .. Len(History)
    /\ \A rev \in DOMAIN History :
          /\ Len(History[rev]) \in Nat
          /\ DOMAIN History[rev] = 1 .. Len(History[rev])
          /\ \A i \in DOMAIN History[rev] : History[rev][i] \in AllVersions
<1>1. /\ Len(History) \in Nat /\ DOMAIN History = 1 .. Len(History)
      /\ Len(History) # 0
      /\ \A rev \in DOMAIN History : History[rev] \in Seq(AllVersions)
  BY HistoryAssumption
<1> HIDE DEF AllVersions
<1>2. ASSUME NEW rev \in DOMAIN History
      PROVE  /\ Len(History[rev]) \in Nat
             /\ DOMAIN History[rev] = 1 .. Len(History[rev])
             /\ \A i \in DOMAIN History[rev] : History[rev][i] \in AllVersions
  BY <1>1
<1> QED BY <1>1, <1>2

LEMMA PlaceIsNat == ASSUME NEW t, t.core \in Nat PROVE Place(t) \in Nat
<1> DEFINE n == t.core
           d == IF t.mark = "" THEN 0 ELSE 1
<1>1. n \in Nat /\ d \in Nat /\ Place(t) = 2 * n + d
  BY DEF Place
<1> HIDE DEF n, d
<1> QED BY <1>1

\* VersionToTag loses nothing but what tags cannot tell apart.
LEMMA TagsOfVersions ==
    ASSUME NEW v \in AllVersions, ValidTag(VersionToTag(v))
    PROVE  LET t == VersionToTag(v)
           IN  /\ t \in ValidTags /\ Place(t) \in Nat
               /\ TagToVersion(t) = v \/ (t.mark = "_" /\ t = v)
<1> DEFINE t == VersionToTag(v)
<1>1. CASE v.mark = "+"
  <2>1. t = [v EXCEPT !.mark = "_"]
    BY <1>1 DEF VersionToTag
  <2>2. t \in AllVersions /\ t.mark = "_" /\ t.core = v.core
    BY <2>1 DEF AllVersions, Marks
  <2>3. TagToVersion(t) = v
    BY <1>1, <2>1, <2>2 DEF TagToVersion, AllVersions
  <2>4. t.core \in Nat
    BY <2>2 DEF AllVersions
  <2> QED BY <2>2, <2>3, <2>4, PlaceIsNat DEF ValidTags
<1>2. CASE v.mark # "+"
  <2>1. t = v /\ v.mark \in {"", "_"} /\ v.core \in Nat
    BY <1>2 DEF VersionToTag, ValidTag, AllVersions
  <2>2. v \in ValidTags /\ Place(v) \in Nat
    BY <2>1, PlaceIsNat DEF ValidTags
  <2>3. TagToVersion(v) = v \/ v.mark = "_"
    BY DEF TagToVersion
  <2> QED BY <2>1, <2>2, <2>3
<1> QED BY <1>1, <1>2

\* A version is its two fields.
LEMMA SameVersion ==
    ASSUME NEW t \in AllVersions, NEW u \in AllVersions,
           t.core = u.core, t.mark = u.mark
    PROVE  t = u
BY DEF AllVersions

\* A valid tag is known by its place.
LEMMA PlaceTellsTags ==
    ASSUME NEW t \in ValidTags, NEW u \in ValidTags, Place(t) = Place(u)
    PROVE  t = u
<1> DEFINE a == t.core
           b == u.core
           d == IF t.mark = "" THEN 0 ELSE 1
           e == IF u.mark = "" THEN 0 ELSE 1
<1>1. /\ t \in AllVersions /\ u \in AllVersions
      /\ t.mark \in {"", "_"} /\ u.mark \in {"", "_"}
  BY DEF ValidTags, ValidTag
<1>2. a \in Nat /\ b \in Nat
  BY <1>1 DEF AllVersions
<1>3. d \in 0 .. 1 /\ e \in 0 .. 1
  OBVIOUS
<1>4. 2 * a + d = 2 * b + e
  BY DEF Place
<1>5. a = b /\ d = e
  <2> HIDE DEF a, b, d, e
  <2> QED BY <1>2, <1>3, <1>4
<1>6. t.mark = u.mark
  <2>1. CASE t.mark = ""
    <3>1. d = 0
      BY <2>1
    <3>2. e = 0
      <4> HIDE DEF d, e
      <4> QED BY <1>5, <3>1
    <3>3. u.mark # "" => e = 1
      OBVIOUS
    <3>4. 0 # 1
      OBVIOUS
    <3> HIDE DEF d, e
    <3> QED BY <2>1, <3>2, <3>3, <3>4
  <2>2. CASE t.mark # ""
    <3>1. d = 1
      BY <2>2
    <3>2. e = 1
      <4> HIDE DEF d, e
      <4> QED BY <1>5, <3>1
    <3>3. u.mark = "" => e = 0
      OBVIOUS
    <3>4. 0 # 1
      OBVIOUS
    <3> HIDE DEF d, e
    <3> QED BY <1>1, <2>2, <3>2, <3>3, <3>4
  <2> QED BY <2>1, <2>2
<1> HIDE DEF d, e
<1> QED BY <1>1, <1>5, <1>6, SameVersion

\* The entries of an index that are listed, with their tags and places.
LEMMA EntriesAre ==
    ASSUME NEW rev \in DOMAIN History
    PROVE  /\ IsFiniteSet(Entries(rev)) /\ Entries(rev) \subseteq Nat
           /\ \A i \in Entries(rev) :
                 /\ TagAt(rev, i) \in ValidTags /\ PlaceAt(rev, i) \in Nat
                 /\ Resolves({TagAt(rev, i)}, {rev})
<1>1. Entries(rev) \subseteq 1 .. Len(History[rev]) /\ Len(History[rev]) \in Nat
  BY Histories DEF Entries
<1>2. IsFiniteSet(Entries(rev))
  <2>1. IsFiniteSet(1 .. Len(History[rev]))
    BY <1>1, FS_Interval
  <2> QED BY <1>1, <2>1, FS_Subset
<1>3. ASSUME NEW i \in Entries(rev)
      PROVE  /\ TagAt(rev, i) \in ValidTags /\ PlaceAt(rev, i) \in Nat
             /\ Resolves({TagAt(rev, i)}, {rev})
  <2> DEFINE v == History[rev][i]
             t == TagAt(rev, i)
  <2>1. v \in AllVersions /\ v \in VersionsAt(rev) /\ ValidTag(t)
    BY Histories DEF Entries, VersionsAt
  <2>2. t = VersionToTag(v) /\ PlaceAt(rev, i) = Place(t)
    BY DEF TagAt, PlaceAt
  <2> HIDE DEF v, t
  <2>3. /\ t \in ValidTags /\ Place(t) \in Nat
        /\ TagToVersion(t) = v \/ (t.mark = "_" /\ t = v)
    BY <2>1, <2>2, TagsOfVersions
  <2>4. Resolves({t}, {rev})
    BY <2>1, <2>3 DEF Resolves
  <2> QED BY <2>2, <2>3, <2>4 DEF t
<1>4. Entries(rev) \subseteq Nat
  BY <1>1
<1> QED BY <1>2, <1>3, <1>4
-----------------------------------------------------------------------------
(* The sorted tags of an index.  An entry's rank is how many are before it. *)

Ahead(rev, i) == {k \in Entries(rev) : Before(rev, k, i)}
Rank(rev, i) == Cardinality(Ahead(rev, i))

\* Any two entries are in one order or the other.
LEMMA BeforeIsTotal ==
    ASSUME NEW rev \in DOMAIN History,
           NEW i \in Entries(rev), NEW j \in Entries(rev), i # j
    PROVE  Before(rev, i, j) \/ Before(rev, j, i)
<1>1. /\ i \in Nat /\ j \in Nat
      /\ PlaceAt(rev, i) \in Nat /\ PlaceAt(rev, j) \in Nat
  BY EntriesAre
<1> QED BY <1>1 DEF Before

\* Ranks grow in that order.
LEMMA RanksGrow ==
    ASSUME NEW rev \in DOMAIN History,
           NEW i \in Entries(rev), NEW j \in Entries(rev), Before(rev, i, j)
    PROVE  Rank(rev, i) \in Nat /\ Rank(rev, j) \in Nat /\ Rank(rev, i) < Rank(rev, j)
<1>1. /\ IsFiniteSet(Entries(rev)) /\ Entries(rev) \subseteq Nat
      /\ \A k \in Entries(rev) : PlaceAt(rev, k) \in Nat
  BY EntriesAre
<1>2. Ahead(rev, i) \subseteq Ahead(rev, j)
  <2> SUFFICES ASSUME NEW k \in Entries(rev), Before(rev, k, i)
               PROVE  Before(rev, k, j)
    BY DEF Ahead
  <2>1. k \in Nat /\ i \in Nat /\ j \in Nat
    BY <1>1
  <2>2. /\ PlaceAt(rev, k) \in Nat /\ PlaceAt(rev, i) \in Nat
        /\ PlaceAt(rev, j) \in Nat
    BY <1>1
  <2> QED BY <2>1, <2>2 DEF Before
<1>3. i \in Ahead(rev, j) /\ i \notin Ahead(rev, i)
  <2>1. i \in Nat /\ PlaceAt(rev, i) \in Nat
    BY <1>1
  <2>2. ~Before(rev, i, i)
    BY <2>1 DEF Before
  <2> QED BY <2>2 DEF Ahead
<1>4. /\ Ahead(rev, j) \subseteq Entries(rev)
      /\ Ahead(rev, i) # Ahead(rev, j)
  BY <1>3 DEF Ahead
<1>5. IsFiniteSet(Ahead(rev, j))
  BY <1>1, <1>4, FS_Subset
<1>6. /\ IsFiniteSet(Ahead(rev, i))
      /\ Cardinality(Ahead(rev, i)) <= Cardinality(Ahead(rev, j))
      /\ Cardinality(Ahead(rev, j)) # Cardinality(Ahead(rev, i))
  BY <1>2, <1>4, <1>5, FS_Subset
<1>7. Cardinality(Ahead(rev, i)) \in Nat /\ Cardinality(Ahead(rev, j)) \in Nat
  BY <1>5, <1>6, FS_CardinalityType
<1> QED BY <1>6, <1>7 DEF Rank

\* Every position has an entry, and every entry a position.
LEMMA RanksArePositions ==
    ASSUME NEW rev \in DOMAIN History
    PROVE  LET m == Cardinality(Entries(rev))
           IN  /\ m \in Nat
               /\ \A i \in Entries(rev) : Rank(rev, i) + 1 \in 1 .. m
               /\ \A at \in 1 .. m : \E i \in Entries(rev) : Rank(rev, i) = at - 1
<1> DEFINE E == Entries(rev)
           m == Cardinality(E)
           f == [i \in E |-> Rank(rev, i) + 1]
<1>1. IsFiniteSet(E) /\ m \in Nat
  BY EntriesAre, FS_CardinalityType
<1>2. ASSUME NEW i \in E PROVE Rank(rev, i) \in Nat /\ Rank(rev, i) + 1 \in 1 .. m
  <2>1. i \in Nat /\ PlaceAt(rev, i) \in Nat
    BY EntriesAre
  <2>2. i \notin Ahead(rev, i)
    BY <2>1 DEF Ahead, Before
  <2>3. Ahead(rev, i) \in SUBSET E /\ Ahead(rev, i) # E
    BY <2>2 DEF Ahead
  <2>4. /\ IsFiniteSet(Ahead(rev, i))
        /\ Cardinality(Ahead(rev, i)) <= m /\ m # Cardinality(Ahead(rev, i))
    BY <1>1, <2>3, FS_Subset
  <2>5. Cardinality(Ahead(rev, i)) \in Nat
    BY <2>4, FS_CardinalityType
  <2> HIDE DEF m
  <2> QED BY <1>1, <2>4, <2>5 DEF Rank
<1>3. ASSUME NEW i \in E, NEW j \in E, i # j PROVE Rank(rev, i) # Rank(rev, j)
  <2>1. CASE Before(rev, i, j)
    BY <2>1, RanksGrow
  <2>2. CASE Before(rev, j, i)
    BY <2>2, RanksGrow
  <2> QED BY <1>3, <2>1, <2>2, BeforeIsTotal
<1>4. f \in Injection(E, 1 .. m)
  <2>1. f \in [E -> 1 .. m]
    BY <1>2
  <2>2. ASSUME NEW i \in E, NEW j \in E, i # j PROVE f[i] # f[j]
    <3>1. f[i] = Rank(rev, i) + 1 /\ f[j] = Rank(rev, j) + 1
      OBVIOUS
    <3>2. Rank(rev, i) \in Nat /\ Rank(rev, j) \in Nat
      BY <1>2
    <3>3. Rank(rev, i) # Rank(rev, j)
      BY <1>3, <2>2
    <3> HIDE DEF f
    <3> QED BY <3>1, <3>2, <3>3
  <2> HIDE DEF f
  <2> QED BY <2>1, <2>2 DEF Injection, IsInjective
<1>5. IsFiniteSet(1 .. m) /\ Cardinality(1 .. m) = m
  BY <1>1, FS_Interval
<1>6. f \in Surjection(E, 1 .. m)
  <2> HIDE DEF f, E
  <2> QED BY <1>4, <1>5, FS_Injection DEF m
<1>7. ASSUME NEW at \in 1 .. m PROVE \E i \in E : Rank(rev, i) = at - 1
  <2>1. PICK i \in E : f[i] = at
    BY <1>6 DEF Surjection
  <2>2. Rank(rev, i) \in Nat /\ Rank(rev, i) + 1 = at
    BY <1>2, <2>1
  <2>3. Rank(rev, i) = at - 1
    BY <2>2
  <2> QED BY <2>3
<1> QED BY <1>1, <1>2, <1>7

\* A sequence of tags is in order; a tag may appear in it more than once.
InOrder(tags) ==
    \A j \in DOMAIN tags : \A k \in DOMAIN tags :
        j <= k => Place(tags[j]) <= Place(tags[k])

\* Resolver.Tags returns the tags of all entries that have one, in order.
LEMMA TagsAre ==
    ASSUME NEW rev \in DOMAIN History
    PROVE  LET tags == Tags[rev]
           IN  /\ tags \in Seq(ValidTags) /\ InOrder(tags)
               /\ \A k \in DOMAIN tags : \E i \in Entries(rev) : tags[k] = TagAt(rev, i)
               /\ \A i \in Entries(rev) : \E k \in DOMAIN tags : tags[k] = TagAt(rev, i)
<1> DEFINE E == Entries(rev)
           m == Cardinality(E)
           At(at) == CHOOSE i \in E : Rank(rev, i) = at - 1
           tags == Tags[rev]
<1>1. tags = [at \in 1 .. m |-> TagAt(rev, At(at))]
  BY DEF Tags, Rank, Ahead
<1>2. /\ m \in Nat
      /\ \A i \in E : Rank(rev, i) + 1 \in 1 .. m
      /\ \A at \in 1 .. m : \E i \in E : Rank(rev, i) = at - 1
  BY RanksArePositions
<1>3. ASSUME NEW at \in 1 .. m PROVE At(at) \in E /\ Rank(rev, At(at)) = at - 1
  BY <1>2
<1>4. /\ \A i \in E : TagAt(rev, i) \in ValidTags /\ PlaceAt(rev, i) \in Nat
      /\ \A i \in E : Place(TagAt(rev, i)) = PlaceAt(rev, i)
  BY EntriesAre DEF PlaceAt
<1> HIDE DEF At, E, m, tags
<1>5. DOMAIN tags = 1 .. m /\ \A at \in 1 .. m : tags[at] = TagAt(rev, At(at))
  BY <1>1
<1>6. tags \in Seq(ValidTags)
  <2>1. tags \in [1 .. m -> ValidTags]
    BY <1>1, <1>3, <1>4
  <2> QED BY <1>2, <2>1
<1>7. ASSUME NEW j \in 1 .. m, NEW k \in 1 .. m, j <= k
      PROVE  Place(tags[j]) <= Place(tags[k])
  <2>1. /\ At(j) \in E /\ Rank(rev, At(j)) = j - 1
        /\ At(k) \in E /\ Rank(rev, At(k)) = k - 1
    BY <1>3
  <2>2. ~Before(rev, At(k), At(j))
    <3>1. ~ (k - 1 < j - 1)
      BY <1>2, <1>7
    <3> QED BY <2>1, <3>1, RanksGrow DEF E
  <2>3. At(j) = At(k) \/ Before(rev, At(j), At(k))
    BY <2>1, <2>2, BeforeIsTotal DEF E
  <2>4. PlaceAt(rev, At(j)) \in Nat /\ PlaceAt(rev, At(k)) \in Nat
    BY <1>4, <2>1
  <2>5. PlaceAt(rev, At(j)) <= PlaceAt(rev, At(k))
    BY <2>3, <2>4 DEF Before
  <2> QED BY <1>4, <1>5, <2>1, <2>5
<1>8. InOrder(tags)
  BY <1>5, <1>7 DEF InOrder
<1>9. ASSUME NEW i \in E PROVE \E k \in DOMAIN tags : tags[k] = TagAt(rev, i)
  <2> DEFINE k == Rank(rev, i) + 1
  <2>1. k \in 1 .. m /\ At(k) \in E /\ Rank(rev, At(k)) = k - 1
    BY <1>2, <1>3
  <2>2. Rank(rev, At(k)) = Rank(rev, i)
    <3>1. Cardinality(Ahead(rev, i)) \in Nat
      <4>1. IsFiniteSet(E) /\ Ahead(rev, i) \in SUBSET E
        BY EntriesAre DEF Ahead, E
      <4> QED BY <4>1, FS_Subset, FS_CardinalityType
    <3>2. Rank(rev, i) \in Nat
      BY <3>1 DEF Rank
    <3> QED BY <2>1, <3>2
  <2>3. At(k) = i
    <3> HIDE DEF k
    <3>1. ASSUME NEW x \in E, NEW y \in E, Before(rev, x, y)
          PROVE  Rank(rev, x) # Rank(rev, y)
      BY <3>1, RanksGrow DEF E
    <3>2. At(k) = i \/ Before(rev, At(k), i) \/ Before(rev, i, At(k))
      BY <2>1, BeforeIsTotal DEF E
    <3> QED BY <2>1, <2>2, <3>1, <3>2
  <2> HIDE DEF k
  <2> QED BY <1>5, <2>1, <2>3
<1> QED BY <1>3, <1>5, <1>6, <1>8, <1>9 DEF tags, E
-----------------------------------------------------------------------------
(* Pages. *)

\* Numbers from 1 on without a gap are counted by their greatest.
LEMMA Prefix ==
    ASSUME NEW m \in Nat, NEW P \in SUBSET (1 .. m),
           \A i \in P : \A j \in 1 .. i : j \in P
    PROVE  P = 1 .. Cardinality(P) /\ Cardinality(P) \in 0 .. m
<1> DEFINE Out == {k \in Nat : k >= 1 /\ k \notin P}
<1>1. m + 1 \in Out
  OBVIOUS
<1>2. PICK q \in Out : \A k \in Out : q <= k
  BY <1>1, LeastNat
<1>3. q \in Nat /\ q >= 1 /\ q \notin P /\ q <= m + 1
  BY <1>1, <1>2
<1>4. P = 1 .. q - 1
  <2>1. ASSUME NEW j \in 1 .. q - 1 PROVE j \in P
    <3>1. j \in Nat /\ j >= 1 /\ ~ (q <= j)
      BY <1>3
    <3> QED BY <1>2, <3>1
  <2>2. ASSUME NEW j \in P PROVE j \in 1 .. q - 1
    <3>1. j \in 1 .. m /\ q \notin 1 .. j
      BY <1>3
    <3> QED BY <1>3, <3>1
  <2> QED BY <2>1, <2>2
<1>5. Cardinality(P) = q - 1
  <2>1. q - 1 \in Int /\ ~ (1 > q - 1) => q - 1 - 1 + 1 = q - 1
    BY <1>3
  <2>2. Cardinality(1 .. q - 1) = IF 1 > q - 1 THEN 0 ELSE q - 1 - 1 + 1
    BY <1>3, FS_Interval
  <2> QED BY <1>3, <1>4, <2>2
<1> QED BY <1>3, <1>4, <1>5

\* What is left after a tag is every tag beyond it, in order.
LEMMA RestIs ==
    ASSUME NEW rev \in DOMAIN History, NEW last \in Nat \cup {Start}
    PROVE  LET rest == Rest(rev, last)
           IN  /\ rest \in Seq(ValidTags) /\ InOrder(rest)
               /\ \A k \in DOMAIN rest :
                     /\ Place(rest[k]) \in Nat /\ last < Place(rest[k])
                     /\ \E i \in Entries(rev) : rest[k] = TagAt(rev, i)
               /\ \A i \in Entries(rev) :
                     last < PlaceAt(rev, i) =>
                         \E k \in DOMAIN rest : rest[k] = TagAt(rev, i)
<1> DEFINE tags == Tags[rev]
           m == Len(tags)
           passed == {k \in DOMAIN tags : Place(tags[k]) <= last}
           c == Cardinality(passed)
           rest == Rest(rev, last)
<1>1. /\ tags \in Seq(ValidTags) /\ InOrder(tags)
      /\ \A k \in DOMAIN tags : \E i \in Entries(rev) : tags[k] = TagAt(rev, i)
      /\ \A i \in Entries(rev) : \E k \in DOMAIN tags : tags[k] = TagAt(rev, i)
  BY TagsAre
<1>2. m \in Nat /\ DOMAIN tags = 1 .. m /\ last \in Int
  BY <1>1 DEF Start
<1>3. \A k \in 1 .. m : tags[k] \in ValidTags /\ Place(tags[k]) \in Nat
  <2>1. \A t \in ValidTags : Place(t) \in Nat
    BY PlaceIsNat DEF ValidTags, AllVersions
  <2> QED BY <1>1, <1>2, <2>1
<1>4. rest = SubSeq(tags, c + 1, m)
  BY DEF Rest
<1> HIDE DEF tags, m, rest
<1>5. passed = 1 .. c /\ c \in 0 .. m
  <2>1. ASSUME NEW i \in passed, NEW j \in 1 .. i PROVE j \in passed
    <3>1. i \in 1 .. m /\ j \in 1 .. m /\ j <= i /\ Place(tags[i]) <= last
      BY <1>2
    <3>2. Place(tags[j]) <= Place(tags[i])
      BY <1>1, <1>2, <3>1 DEF InOrder
    <3>3. Place(tags[j]) \in Nat /\ Place(tags[i]) \in Nat
      BY <1>3, <3>1
    <3>4. Place(tags[j]) <= last
      BY <1>2, <3>1, <3>2, <3>3
    <3> QED BY <1>2, <3>1, <3>4
  <2>2. passed \in SUBSET (1 .. m)
    BY <1>2
  <2> HIDE DEF passed
  <2> QED BY <1>2, <2>1, <2>2, Prefix
<1>6. \A k \in 1 .. m : Place(tags[k]) <= last <=> k <= c
  <2> TAKE k \in 1 .. m
  <2>1. k \in passed <=> Place(tags[k]) <= last
    BY <1>2
  <2> HIDE DEF passed, c
  <2>2. k \in 1 .. c <=> k <= c
    BY <1>5
  <2> QED BY <1>5, <2>1, <2>2
<1> HIDE DEF passed, c
<1>7. /\ rest \in Seq(ValidTags) /\ DOMAIN rest = 1 .. m - c
      /\ \A k \in 1 .. m - c : rest[k] = tags[k + c] /\ k + c \in 1 .. m /\ k + c > c
  <2>1. c + 1 \in 1 .. m + 1 /\ m - c \in Nat
    BY <1>2, <1>5
  <2>2. ASSUME NEW k \in 1 .. m - c PROVE k + c \in 1 .. m /\ k + c > c
    BY <1>2, <1>5
  <2>3. c + 1 \in Int /\ m \in Int /\ \A k \in c + 1 .. m : tags[k] \in ValidTags
    BY <1>2, <1>3, <1>5
  <2>4. /\ rest \in Seq(ValidTags)
        /\ Len(rest) = IF c + 1 <= m THEN m - (c + 1) + 1 ELSE 0
        /\ \A k \in 1 .. m - (c + 1) + 1 : rest[k] = tags[c + 1 + k - 1]
    BY <1>4, <2>3, SubSeqProperties
  <2>5. m - (c + 1) + 1 = m - c /\ Len(rest) = m - c
    BY <1>2, <1>5, <2>4
  <2>6. ASSUME NEW k \in 1 .. m - c PROVE rest[k] = tags[k + c]
    <3>1. c + 1 + k - 1 = k + c
      BY <1>5
    <3> QED BY <2>4, <2>5, <3>1
  <2>7. DOMAIN rest = 1 .. m - c
    BY <2>4, <2>5
  <2> QED BY <2>2, <2>4, <2>6, <2>7
<1>8. ASSUME NEW k \in DOMAIN rest
      PROVE  /\ Place(rest[k]) \in Nat /\ last < Place(rest[k])
             /\ \E i \in Entries(rev) : rest[k] = TagAt(rev, i)
  <2>1. /\ k + c \in 1 .. m /\ rest[k] = tags[k + c]
        /\ k + c > c /\ k + c \in Int /\ c \in Int
    BY <1>5, <1>7
  <2>2. ~ (k + c <= c)
    BY <2>1
  <2>3. Place(tags[k + c]) \in Nat /\ ~ (Place(tags[k + c]) <= last)
    BY <1>3, <1>6, <2>1, <2>2
  <2>4. last < Place(tags[k + c])
    BY <1>2, <2>3
  <2> QED BY <1>1, <1>2, <2>1, <2>3, <2>4
<1>9. ASSUME NEW i \in Entries(rev), last < PlaceAt(rev, i)
      PROVE  \E k \in DOMAIN rest : rest[k] = TagAt(rev, i)
  <2>1. PICK j \in 1 .. m : tags[j] = TagAt(rev, i)
    BY <1>1, <1>2
  <2>2. Place(tags[j]) \in Nat /\ last < Place(tags[j])
    BY <1>3, <1>9, <2>1 DEF PlaceAt
  <2>3. ~ (Place(tags[j]) <= last)
    BY <1>2, <2>2
  <2>4. ~ (j <= c)
    BY <1>6, <2>3
  <2>5. j - c \in 1 .. m - c /\ j - c + c = j
    BY <1>2, <1>5, <2>4
  <2> QED BY <1>7, <2>1, <2>5
<1>10. InOrder(rest)
  <2> SUFFICES ASSUME NEW j \in 1 .. m - c, NEW k \in 1 .. m - c, j <= k
               PROVE  Place(rest[j]) <= Place(rest[k])
    BY <1>7 DEF InOrder
  <2>1. j + c \in 1 .. m /\ k + c \in 1 .. m
    BY <1>7
  <2>2. j + c <= k + c
    BY <1>2, <1>5
  <2>3. Place(tags[j + c]) <= Place(tags[k + c])
    BY <1>1, <1>2, <2>1, <2>2 DEF InOrder
  <2> QED BY <1>7, <2>3
<1> QED BY <1>7, <1>8, <1>9, <1>10 DEF rest

\* A page is what is left from its start on, and all of it if there is no Link,
\* unless it was to have nothing.
LEMMA PageIs ==
    ASSUME NEW rev \in DOMAIN History, NEW last \in Nat \cup {Start},
           NEW n \in PageSizes \cup {NoLimit}, n # NoLimit => n >= 0
    PROVE  LET rest == Rest(rev, last)
               page == Page(rev, last, n)
           IN  /\ page \in Seq(ValidTags) /\ Len(page) <= Len(rest)
               /\ \A k \in 1 .. Len(page) : page[k] = rest[k]
               /\ HasLink(rev, last, n) => Len(page) > 0
               /\ ~HasLink(rev, last, n) /\ n # 0 => page = rest
<1> DEFINE rest == Rest(rev, last)
           page == Page(rev, last, n)
<1>1. rest \in Seq(ValidTags) /\ Len(rest) \in Nat
  BY RestIs
<1>2. CASE ~Truncated(rev, last, n)
  <2>1. page = rest /\ ~HasLink(rev, last, n)
    BY <1>2 DEF Page, HasLink
  <2> HIDE DEF page, rest
  <2> QED BY <1>1, <2>1 DEF page, rest
<1>3. CASE Truncated(rev, last, n)
  <2>1. n \in Int /\ n >= 0 /\ n < Len(rest)
    BY <1>1, <1>3, PageSizesAssumption DEF Truncated
  <2>2. page = SubSeq(rest, 1, n)
    BY <1>3 DEF Page
  <2>3. HasLink(rev, last, n) <=> page # << >>
    BY <1>3 DEF HasLink
  <2> HIDE DEF page, rest
  <2>4. /\ page \in Seq(ValidTags) /\ Len(page) = n
        /\ \A k \in 1 .. n : page[k] = rest[k]
    BY <1>1, <2>1, <2>2
  <2>5. page # << >> <=> n > 0
    BY <2>1, <2>4
  <2> QED BY <2>1, <2>3, <2>4, <2>5, <1>1 DEF page, rest
<1> QED BY <1>2, <1>3

\* What clients need to know of a page: its tags are beyond "last", in order
\* and tags of entries; with a Link, it has every tag up to the one that this
\* names, and without one every tag there is.
LEMMA PagesAreFair ==
    ASSUME NEW rev \in DOMAIN History, NEW last \in Nat \cup {Start},
           NEW n \in PageSizes \cup {NoLimit}, n # NoLimit => n >= 0
    PROVE  LET page == Page(rev, last, n)
               link == HasLink(rev, last, n)
               new  == LastOf(rev, last, n)
           IN  /\ page \in Seq(ValidTags) /\ InOrder(page)
               /\ \A t \in Range(page) :
                     /\ Place(t) \in Nat /\ last < Place(t)
                     /\ \E i \in Entries(rev) : t = TagAt(rev, i)
               /\ link => /\ new \in Nat /\ last < new
                          /\ \A t \in Range(page) : Place(t) <= new
               /\ \A i \in Entries(rev) :
                     /\ last < PlaceAt(rev, i)
                     /\ (link /\ PlaceAt(rev, i) <= new) \/ (~link /\ n # 0)
                     => TagAt(rev, i) \in Range(page)
<1> DEFINE rest == Rest(rev, last)
           page == Page(rev, last, n)
           link == HasLink(rev, last, n)
           new  == LastOf(rev, last, n)
           len  == Len(page)
<1>1. /\ rest \in Seq(ValidTags) /\ InOrder(rest)
      /\ \A k \in DOMAIN rest :
            /\ Place(rest[k]) \in Nat /\ last < Place(rest[k])
            /\ \E i \in Entries(rev) : rest[k] = TagAt(rev, i)
      /\ \A i \in Entries(rev) :
            last < PlaceAt(rev, i) =>
                \E k \in DOMAIN rest : rest[k] = TagAt(rev, i)
  BY RestIs
<1>2. /\ page \in Seq(ValidTags) /\ len <= Len(rest)
      /\ \A k \in 1 .. len : page[k] = rest[k]
      /\ link => len > 0
      /\ ~link /\ n # 0 => page = rest
  BY PageIs
<1>3. /\ len \in Nat /\ Len(rest) \in Nat
      /\ DOMAIN page = 1 .. len /\ DOMAIN rest = 1 .. Len(rest)
  BY <1>1, <1>2
<1>4. new = Place(page[len])
  BY DEF LastOf
<1> HIDE DEF rest, page, link, new, len
<1>5. 1 .. len \subseteq DOMAIN rest
  BY <1>2, <1>3
<1>6. Range(page) = {page[k] : k \in 1 .. len}
  BY <1>3 DEF Range
<1>7. InOrder(page)
  BY <1>1, <1>2, <1>3, <1>5 DEF InOrder
<1>8. ASSUME NEW t \in Range(page)
      PROVE  /\ Place(t) \in Nat /\ last < Place(t)
             /\ \E i \in Entries(rev) : t = TagAt(rev, i)
  BY <1>1, <1>2, <1>5, <1>6
<1>9. ASSUME link
      PROVE  /\ len \in 1 .. len /\ new \in Nat /\ last < new
             /\ \A t \in Range(page) : Place(t) <= new
  <2>1. len \in 1 .. len
    BY <1>2, <1>3, <1>9
  <2>2. page[len] \in Range(page)
    BY <1>6, <2>1
  <2>3. ASSUME NEW t \in Range(page) PROVE Place(t) <= new
    <3>1. PICK k \in 1 .. len : t = page[k]
      BY <1>6
    <3>2. k <= len
      BY <1>3
    <3> QED BY <1>3, <1>4, <1>7, <2>1, <3>1, <3>2 DEF InOrder
  <2> QED BY <1>4, <1>8, <2>1, <2>2, <2>3
<1>10. ASSUME NEW i \in Entries(rev), last < PlaceAt(rev, i), ~link, n # 0
       PROVE  TagAt(rev, i) \in Range(page)
  <2>1. PICK k \in DOMAIN rest : rest[k] = TagAt(rev, i)
    BY <1>1, <1>10
  <2>2. page = rest
    BY <1>2, <1>10
  <2> QED BY <2>1, <2>2 DEF Range
\* A tag that the cut left out has the place of the last one at least, and is
\* the same tag if it has that place.
<1>11. ASSUME NEW i \in Entries(rev), last < PlaceAt(rev, i), link,
              PlaceAt(rev, i) <= new
       PROVE  TagAt(rev, i) \in Range(page)
  <2>1. PICK k \in DOMAIN rest : rest[k] = TagAt(rev, i)
    BY <1>1, <1>11
  <2>2. CASE k <= len
    <3>1. k \in 1 .. len
      BY <1>3, <2>2
    <3> QED BY <1>2, <1>6, <2>1, <3>1
  <2>3. CASE ~ (k <= len)
    <3>1. len \in 1 .. len /\ len \in DOMAIN rest /\ len <= k
      BY <1>3, <1>5, <1>9, <1>11, <2>3
    <3>2. Place(rest[len]) <= Place(rest[k])
      BY <1>1, <3>1 DEF InOrder
    <3>3. /\ Place(rest[len]) \in Nat /\ Place(rest[k]) \in Nat
          /\ new = Place(rest[len]) /\ Place(rest[k]) <= new
      BY <1>1, <1>2, <1>4, <1>11, <2>1, <3>1 DEF PlaceAt
    <3>4. Place(rest[k]) = Place(rest[len])
      BY <3>2, <3>3
    <3>5. rest[k] \in ValidTags /\ rest[len] \in ValidTags
      BY <1>1, <3>1
    <3>6. rest[k] = rest[len]
      BY <3>4, <3>5, PlaceTellsTags
    <3> QED BY <1>2, <1>6, <2>1, <3>1, <3>6
  <2> QED BY <2>2, <2>3
<1> QED BY <1>2, <1>7, <1>8, <1>9, <1>10, <1>11 DEF page, link, new
-----------------------------------------------------------------------------
(* Steps of a listing. *)

\* What a page leads back to was read, and stays read.
LEMMA ResolvesMore ==
    ASSUME NEW old, NEW new, NEW seen, NEW rev,
           Resolves(old, seen), \A t \in new : Resolves({t}, {rev})
    PROVE  Resolves(old \cup new, seen \cup {rev})
BY DEF Resolves

\* A version that stays stable was stable before, if anything was read.
LEMMA StableBefore ==
    ASSUME NEW w \in Walks, NEW x \in Walks, NEW rev,
           x.seen = w.seen \cup {rev}, NEW v \in Stable(x)
    PROVE  /\ v \in VersionsAt(rev) /\ ValidTag(VersionToTag(v))
           /\ w.seen = {} \/ v \in Stable(w)
BY DEF Stable

\* One page of a listing.
LEMMA TurnKeeps ==
    ASSUME NEW w, WalkInv(w), w.at = "walking",
           NEW rev \in DOMAIN History, ~Refused(w, rev)
    PROVE  WalkInv(Turn(w, rev)) /\ Continues(Turn(w, rev).page, w.listed)
<1> DEFINE page == Page(rev, w.last, w.n)
           tags == Range(page)
           link == HasLink(rev, w.last, w.n)
           new == LastOf(rev, w.last, w.n)
           x == Turn(w, rev)
<1>1. /\ w \in Walks /\ Told(w) /\ Resolves(w.listed, w.seen)
      /\ w.last \in Nat \cup {Start} /\ w.n \in PageSizes \cup {NoLimit}
      /\ w.listed \subseteq ValidTags /\ w.seen \subseteq DOMAIN History
  BY DEF WalkInv, Walks
<1>2. w.n # NoLimit => w.n >= 0
  <2>1. w.n # NoLimit => w.n \in Int /\ ~ (w.n < 0)
    BY <1>1, PageSizesAssumption DEF Refused
  <2> QED BY <2>1
<1>3. /\ page \in Seq(ValidTags) /\ InOrder(page)
      /\ \A t \in tags : /\ Place(t) \in Nat /\ w.last < Place(t)
                         /\ \E i \in Entries(rev) : t = TagAt(rev, i)
      /\ link => new \in Nat /\ w.last < new /\ \A t \in tags : Place(t) <= new
      /\ \A i \in Entries(rev) :
            /\ w.last < PlaceAt(rev, i)
            /\ (link /\ PlaceAt(rev, i) <= new) \/ (~link /\ w.n # 0)
            => TagAt(rev, i) \in tags
  BY <1>1, <1>2, PagesAreFair
<1> HIDE DEF page, link, new, x
<1>4. tags \subseteq ValidTags /\ \A t \in tags : Resolves({t}, {rev})
  <2>1. \A i \in Entries(rev) :
           TagAt(rev, i) \in ValidTags /\ Resolves({TagAt(rev, i)}, {rev})
    BY EntriesAre
  <2> QED BY <1>3, <2>1
<1>5. /\ x \in Walks /\ x.n = w.n /\ x.page = page
      /\ x.listed = w.listed \cup tags /\ x.seen = w.seen \cup {rev}
      /\ link => x.at = "walking" /\ x.last = new
      /\ ~link => x.at = "complete" /\ x.last = w.last
  <2> HIDE DEF tags
  <2>1. x = [w EXCEPT !.at     = IF link THEN "walking" ELSE "complete",
                      !.last   = IF link THEN new ELSE @,
                      !.page   = page,
                      !.listed = @ \cup tags,
                      !.seen   = @ \cup {rev}]
    BY DEF Turn, page, tags, link, new, x
  <2> DEFINE a == IF link THEN "walking" ELSE "complete"
             l == IF link THEN new ELSE w.last
             told == w.listed \cup tags
             seen == w.seen \cup {rev}
  <2>2. /\ a \in {"walking", "complete"} /\ l \in Nat \cup {Start}
        /\ page \in Seq(ValidTags) /\ told \subseteq ValidTags
        /\ seen \subseteq DOMAIN History
    BY <1>1, <1>3, <1>4
  <2>3. x = [w EXCEPT !.at = a, !.last = l, !.page = page, !.listed = told,
                      !.seen = seen]
    BY <2>1
  <2> HIDE DEF a, l, told, seen
  <2> DEFINE Pages == Seq(ValidTags)
  <2>4. w \in [at : {"idle", "walking", "complete", "failed"},
               n : PageSizes \cup {NoLimit}, last : Nat \cup {Start},
               page : Pages, listed : SUBSET ValidTags,
               seen : SUBSET DOMAIN History]
    BY <1>1 DEF Walks
  <2>5. page \in Pages
    BY <2>2
  <2> HIDE DEF Pages
  <2>6. /\ x \in [at : {"idle", "walking", "complete", "failed"},
                  n : PageSizes \cup {NoLimit}, last : Nat \cup {Start},
                  page : Pages, listed : SUBSET ValidTags,
                  seen : SUBSET DOMAIN History]
        /\ x.n = w.n /\ x.page = page /\ x.listed = told
        /\ x.seen = seen /\ x.at = a /\ x.last = l
    BY <2>2, <2>3, <2>4, <2>5
  <2>7. x \in Walks
    BY <2>6 DEF Walks, Pages
  <2> QED BY <2>6, <2>7 DEF a, l, told, seen
<1>6. Resolves(x.listed, x.seen)
  <2> HIDE DEF tags
  <2>1. Resolves(w.listed \cup tags, w.seen \cup {rev})
    BY <1>1, <1>4, ResolvesMore
  <2> QED BY <1>5, <2>1
<1>7. \A t \in w.listed : Place(t) <= w.last /\ Place(t) \in Nat
  BY <1>1, PlaceIsNat DEF Told, ValidTags, AllVersions
<1>8. Continues(page, w.listed)
  <2>1. DOMAIN page = 1 .. Len(page) /\ Len(page) \in Nat
    BY <1>3
  <2>2. ASSUME NEW i \in DOMAIN page, NEW t \in w.listed
        PROVE  Place(t) < Place(page[i])
    <3>1. page[i] \in tags
      BY DEF Range
    <3>2. Place(page[i]) \in Nat /\ w.last < Place(page[i])
      BY <1>3, <3>1
    <3> QED BY <1>1, <1>7, <3>2 DEF Start
  <2>3. ASSUME NEW i \in DOMAIN page, NEW j \in 1 .. i - 1
        PROVE  Place(page[j]) <= Place(page[i])
    <3>1. j \in DOMAIN page /\ j <= i
      BY <2>1
    <3> QED BY <1>3, <3>1 DEF InOrder
  <2> QED BY <2>2, <2>3 DEF Continues
\* A version that is stable still was told of, or has an entry beyond "last".
<1>9. ASSUME NEW v \in Stable(x), VersionToTag(v) \notin w.listed
      PROVE  \E i \in Entries(rev) :
                /\ TagAt(rev, i) = VersionToTag(v)
                /\ PlaceAt(rev, i) = Place(VersionToTag(v))
                /\ w.last < PlaceAt(rev, i)
  <2>1. /\ v \in VersionsAt(rev) /\ ValidTag(VersionToTag(v))
        /\ w.seen = {} \/ v \in Stable(w)
    BY <1>1, <1>5, <1>9, StableBefore
  <2>2. PICK i \in DOMAIN History[rev] : v = History[rev][i]
    BY <2>1 DEF VersionsAt
  <2>3. /\ TagAt(rev, i) = VersionToTag(v) /\ i \in Entries(rev)
        /\ PlaceAt(rev, i) = Place(VersionToTag(v))
    BY <2>1, <2>2 DEF TagAt, Entries, PlaceAt
  <2>4. PlaceAt(rev, i) \in Nat
    BY <2>3, EntriesAre
  <2>5. w.last < PlaceAt(rev, i)
    <3> SUFFICES ASSUME PlaceAt(rev, i) <= w.last PROVE FALSE
      BY <1>1, <2>4 DEF Start
    <3>1. Place(VersionToTag(v)) <= w.last /\ w.last # Start
      BY <1>1, <2>3, <2>4 DEF Start
    <3>2. w.seen # {} /\ v \in Stable(w)
      BY <1>1, <2>1, <3>1 DEF Told
    <3> QED BY <1>1, <1>9, <3>1, <3>2 DEF Told
  <2> QED BY <2>3, <2>5
<1>10. ASSUME link PROVE Told(x)
  <2>1. ASSUME NEW t \in x.listed PROVE Place(t) <= x.last
    <3>1. CASE t \in w.listed
      BY <1>1, <1>3, <1>5, <1>7, <1>10, <3>1 DEF Start
    <3>2. CASE t \in tags
      BY <1>3, <1>5, <1>10, <3>2
    <3> QED BY <1>5, <2>1, <3>1, <3>2
  <2>2. ASSUME NEW v \in Stable(x), Place(VersionToTag(v)) <= x.last
        PROVE  VersionToTag(v) \in x.listed
    <3> SUFFICES ASSUME VersionToTag(v) \notin w.listed
                 PROVE  VersionToTag(v) \in tags
      BY <1>5
    <3>1. PICK i \in Entries(rev) :
             /\ TagAt(rev, i) = VersionToTag(v)
             /\ PlaceAt(rev, i) = Place(VersionToTag(v))
             /\ w.last < PlaceAt(rev, i)
      BY <1>9
    <3>2. PlaceAt(rev, i) <= new
      BY <1>5, <1>10, <2>2, <3>1
    <3> QED BY <1>3, <1>10, <3>1, <3>2
  <2>3. x.at = "walking" /\ x.at # "complete" /\ x.seen # {}
    BY <1>5, <1>10
  <2> QED BY <2>1, <2>2, <2>3 DEF Told
<1>11. ASSUME ~link PROVE Told(x)
  <2>1. ASSUME w.n # 0, NEW v \in Stable(x) PROVE VersionToTag(v) \in x.listed
    <3> SUFFICES ASSUME VersionToTag(v) \notin w.listed
                 PROVE  VersionToTag(v) \in tags
      BY <1>5
    <3>1. PICK i \in Entries(rev) :
             TagAt(rev, i) = VersionToTag(v) /\ w.last < PlaceAt(rev, i)
      BY <1>9
    <3> QED BY <1>3, <1>11, <2>1, <3>1
  <2>2. x.at = "complete" /\ x.at # "walking" /\ x.n = w.n
    BY <1>5, <1>11
  <2> QED BY <2>1, <2>2 DEF Told
<1>12. Range(x.page) \subseteq x.listed
  BY <1>5
<1> QED BY <1>5, <1>6, <1>8, <1>10, <1>11, <1>12 DEF WalkInv, x

\* A client that has been told nothing.
LEMMA NothingToldYet ==
    ASSUME NEW x \in Walks, x.page = << >>, x.listed = {}, x.seen = {},
           x.last = Start, x.at # "complete"
    PROVE  WalkInv(x)
<1>1. Stable(x) = {}
  BY DEF Stable
<1>2. Range(x.page) = {}
  <2>1. DOMAIN << >> = {}
    BY Z3
  <2> QED BY <2>1 DEF Range
<1>3. Told(x)
  BY <1>1 DEF Told
<1> QED BY <1>2, <1>3 DEF WalkInv, Resolves

LEMMA IdleIsWalk == Idle \in Walks
<1>1. << >> \in Seq(ValidTags)
  OBVIOUS
<1> QED BY <1>1 DEF Idle, Walks

LEMMA IdleIsFine == WalkInv(Idle)
BY IdleIsWalk, NothingToldYet DEF Idle

\* A listing that begins.
LEMMA ListKeeps ==
    ASSUME NEW n \in PageSizes
    PROVE  WalkInv([Idle EXCEPT !.at = "walking", !.n = n])
<1> DEFINE x == [Idle EXCEPT !.at = "walking", !.n = n]
<1>1. x \in Walks
  BY IdleIsWalk DEF Walks
<1>2. /\ x.at = "walking" /\ x.last = Start /\ x.page = << >>
      /\ x.listed = {} /\ x.seen = {}
  BY DEF Idle
<1> HIDE DEF x
<1>3. WalkInv(x)
  BY <1>1, <1>2, NothingToldYet
<1> QED BY <1>3 DEF x

\* A listing that is given up.
LEMMA FailKeeps ==
    ASSUME NEW w, WalkInv(w)
    PROVE  WalkInv([w EXCEPT !.at = "failed"])
<1> DEFINE x == [w EXCEPT !.at = "failed"]
<1>1. /\ x \in Walks /\ x.at = "failed" /\ x.page = w.page
      /\ x.listed = w.listed /\ x.seen = w.seen
  BY DEF WalkInv, Walks
<1> HIDE DEF x
<1> QED BY <1>1 DEF WalkInv, Told, x

\* The client c has gone on to the record w, in good order, and if it has read
\* another page, that continues what was listed.
Went(c, w) ==
    /\ walk' = [walk EXCEPT ![c] = w] /\ WalkInv(w)
    /\ walk[c].at = "walking" /\ w.at # "failed" =>
          Continues(w.page, walk[c].listed)

LEMMA PageGoes ==
    ASSUME ListingInv, NEW c \in Clients, NEW p \in Replicas,
           NEW rev \in read[p] .. published, handleTags(c, p, rev)
    PROVE  /\ \E w : Went(c, w)
           /\ read' \in [Replicas -> DOMAIN History]
<1>1. rev \in DOMAIN History
  BY Histories DEF ListingInv
<1>2. WalkInv(walk[c]) /\ walk[c].at = "walking"
  BY DEF ListingInv, handleTags
<1>3. read' \in [Replicas -> DOMAIN History]
  BY <1>1 DEF ListingInv, handleTags, ReadIndex
<1>4. CASE Refused(walk[c], rev)
  <2> DEFINE w == [walk[c] EXCEPT !.at = "failed"]
  <2>1. walk' = [walk EXCEPT ![c] = w] /\ w.at = "failed"
    BY <1>2, <1>4 DEF handleTags, WalkInv, Walks
  <2>2. WalkInv(w)
    BY <1>2, FailKeeps
  <2> QED BY <2>1, <2>2, <1>3 DEF Went
<1>5. CASE ~Refused(walk[c], rev)
  <2>1. walk' = [walk EXCEPT ![c] = Turn(walk[c], rev)]
    BY <1>5 DEF handleTags
  <2>2. /\ WalkInv(Turn(walk[c], rev))
        /\ Continues(Turn(walk[c], rev).page, walk[c].listed)
    BY <1>1, <1>2, <1>5, TurnKeeps
  <2> QED BY <2>1, <2>2, <1>3 DEF Went
<1> QED BY <1>4, <1>5, <1>3

LEMMA ClientGoes ==
    ASSUME ListingInv, NEW c \in Clients,
           \/ \E n \in PageSizes : List(c, n)
           \/ NextPage(c) \/ Fail(c) \/ Finish(c)
    PROVE  /\ \E w : Went(c, w)
           /\ read' \in [Replicas -> DOMAIN History] /\ UNCHANGED published
<1>1. WalkInv(walk[c]) /\ read \in [Replicas -> DOMAIN History]
  BY DEF ListingInv
<1>2. ASSUME NEW n \in PageSizes, List(c, n)
      PROVE  (\E w : Went(c, w)) /\ UNCHANGED <<read, published>>
  BY <1>2, ListKeeps DEF List, Went
<1>3. CASE NextPage(c)
  <2>1. PICK p \in Replicas :
           \E rev \in read[p] .. published : handleTags(c, p, rev)
    BY <1>3 DEF NextPage
  <2>2. PICK rev \in read[p] .. published : handleTags(c, p, rev)
    BY <2>1
  <2> QED BY <2>2, PageGoes DEF handleTags
<1>4. CASE Fail(c)
  <2> DEFINE w == [walk[c] EXCEPT !.at = "failed"]
  <2>1. walk' = [walk EXCEPT ![c] = w] /\ w.at = "failed"
    BY <1>1, <1>4 DEF Fail, WalkInv, Walks
  <2>2. WalkInv(w)
    BY <1>1, FailKeeps
  <2> QED BY <1>1, <1>4, <2>1, <2>2 DEF Went, Fail
<1>5. CASE Finish(c)
  BY <1>1, <1>5, IdleIsFine DEF Finish, Went
<1> QED BY <1>1, <1>2, <1>3, <1>4, <1>5

LEMMA ListingInit == Init => ListingInv
BY IdleIsFine, Histories DEF Init, ListingInv, WalkInv

LEMMA WentKeeps ==
    ASSUME ListingInv, NEW c \in Clients, NEW w, Went(c, w)
    PROVE  walk' \in [Clients -> Walks] /\ \A d \in Clients : WalkInv(walk'[d])
BY DEF ListingInv, Went, WalkInv

LEMMA ListingStep == ListingInv /\ [Next]_vars => ListingInv'
<1> SUFFICES ASSUME ListingInv, [Next]_vars PROVE ListingInv'
  OBVIOUS
<1>1. ASSUME NEW c \in Clients,
             \/ \E n \in PageSizes : List(c, n)
             \/ NextPage(c) \/ Fail(c) \/ Finish(c)
      PROVE  ListingInv'
  <2>1. PICK w : Went(c, w)
    BY <1>1, ClientGoes
  <2>2. walk' \in [Clients -> Walks] /\ \A d \in Clients : WalkInv(walk'[d])
    BY <2>1, WentKeeps
  <2>3. read' \in [Replicas -> DOMAIN History] /\ UNCHANGED published
    BY <1>1, ClientGoes
  <2> QED BY <2>2, <2>3 DEF ListingInv
<1>2. ASSUME NEW p \in Replicas, Restart(p) PROVE ListingInv'
  BY <1>2 DEF Restart, ListingInv
<1>3. CASE Publish
  BY <1>3, Histories DEF Publish, ListingInv
<1>4. CASE UNCHANGED vars
  BY <1>4 DEF vars, ListingInv
<1> QED BY <1>1, <1>2, <1>3, <1>4 DEF Next

\* Every listing is in good order: a client that walks was told all there is
\* to tell up to the tag its last page ended with.
THEOREM ListingInvariant == Spec => []ListingInv
<1> QED BY ListingInit, ListingStep, PTL DEF Spec

\* The state is of its type, for any page sizes and any number of clients.
THEOREM ListingTypes == Spec => []TypeOK
<1>1. ListingInv => TypeOK
  <2> SUFFICES ASSUME ListingInv PROVE TypeOK
    OBVIOUS
  <2>1. ASSUME NEW c \in Clients
        PROVE  /\ walk[c].at \in {"idle", "walking", "complete", "failed"}
               /\ walk[c].n \in PageSizes \cup {NoLimit}
               /\ walk[c].last \in Nat \cup {Start}
               /\ walk[c].listed \in SUBSET ValidTags
               /\ walk[c].page \in Seq(walk[c].listed)
               /\ walk[c].seen \in SUBSET DOMAIN History
    <3>1. walk[c] \in Walks /\ Range(walk[c].page) \subseteq walk[c].listed
      BY DEF ListingInv, WalkInv
    <3>2. walk[c].page \in Seq(ValidTags)
      BY <3>1 DEF Walks
    <3>3. walk[c].page \in Seq(walk[c].listed)
      <4> DEFINE page == walk[c].page
      <4>1. Len(page) \in Nat /\ page \in [1 .. Len(page) -> ValidTags]
        BY <3>2
      <4>2. \A k \in 1 .. Len(page) : page[k] \in walk[c].listed
        BY <3>1, <4>1 DEF Range
      <4> HIDE DEF page
      <4>3. page \in [1 .. Len(page) -> walk[c].listed]
        BY <4>1, <4>2
      <4>4. page \in Seq(walk[c].listed)
        BY <4>1, <4>3
      <4> QED BY <4>4 DEF page
    <3>4. /\ walk[c].at \in {"idle", "walking", "complete", "failed"}
          /\ walk[c].n \in PageSizes \cup {NoLimit}
          /\ walk[c].last \in Nat \cup {Start}
          /\ walk[c].listed \in SUBSET ValidTags
          /\ walk[c].seen \in SUBSET DOMAIN History
      BY <3>1 DEF Walks
    <3> QED BY <3>3, <3>4
  <2> QED BY <2>1 DEF ListingInv, TypeOK
<1> QED BY <1>1, ListingInvariant, PTL

\* Following the links passes no version by that was in every index the pages
\* were taken from, whatever else came and went between them.
THEOREM NoStableVersionIsMissed == Spec => []StableVersionsAreListed
<1>1. ListingInv => StableVersionsAreListed
  BY DEF ListingInv, WalkInv, Told, StableVersionsAreListed
<1> QED BY <1>1, ListingInvariant, PTL

\* Whatever is listed can be asked for: TagToVersion leads from the tag back to
\* a version of an index it was read from.
THEOREM TagsLeadBack == Spec => []ListedTagsResolve
<1>1. ListingInv => ListedTagsResolve
  BY DEF ListingInv, WalkInv, Resolves, ListedTagsResolve
<1> QED BY <1>1, ListingInvariant, PTL

\* A listing is in lexical order throughout, whatever the indexes that its pages
\* are taken from have become by then: each page begins after the last tag of the
\* one before, so no tag is on two pages.
THEOREM ListingsAreSorted == Spec => TagsComeInOrder
<1> DEFINE Ordered ==
      \A c \in Clients :
          /\ walk[c].at = "walking"
          /\ walk'[c].at # "failed" /\ walk'[c] # walk[c]
          => Continues(walk'[c].page, walk[c].listed)
<1>1. ListingInv /\ [Next]_vars => [Ordered]_vars
  <2> SUFFICES ASSUME ListingInv, Next, NEW d \in Clients,
                      walk[d].at = "walking", walk'[d].at # "failed",
                      walk'[d] # walk[d]
               PROVE  Continues(walk'[d].page, walk[d].listed)
    OBVIOUS
  <2>1. PICK c \in Clients :
           \/ \E n \in PageSizes : List(c, n)
           \/ NextPage(c) \/ Fail(c) \/ Finish(c)
    BY DEF Next, Restart, Publish
  <2>2. PICK w : Went(c, w)
    BY <2>1, ClientGoes
  <2>3. walk \in [Clients -> Walks]
    BY DEF ListingInv
  <2>4. c = d /\ walk'[d] = w
    BY <2>2, <2>3 DEF Went
  <2> QED BY <2>2, <2>4 DEF Went
<1>2. Spec => [][Ordered]_vars
  BY <1>1, ListingInvariant, PTL DEF Spec
<1> QED BY <1>2 DEF TagsComeInOrder
=============================================================================
