-------------------------- MODULE DerivedCacheProofs --------------------------
(***************************************************************************)
(* What follows from the promise of DerivedCache, for every set of names   *)
(* and artifacts; ArtifactCache implements that promise.                   *)
(***************************************************************************)
EXTENDS DerivedCache, TLAPS

\* What Learn and Forget leave under a key.
LEMMA Filed ==
    ASSUME NEW e \in Entries, NEW gone,
           found' = Forget(Learn(found, e), gone)
    PROVE  /\ DOMAIN found' = (DOMAIN found \cup Ids(e))
                                 \ UNION {Ids(g) : g \in gone}
           /\ \A k \in DOMAIN found' :
                 found'[k] = IF k \in Ids(e) THEN e ELSE found[k]
BY DEF Forget, Learn, Restrict

\* Keys of versions are not keys of digests, so that an entry has one of them.
LEMMA OneVersionKey ==
    ASSUME NEW x, NEW g, VersionKeyOf(x) \in Ids(g)
    PROVE  VersionKeyOf(x) = VersionKeyOf(g)
BY DEF Ids, VersionKeyOf, VersionKey, DigestKey

LEMMA OwnVersionKey == ASSUME NEW x PROVE VersionKeyOf(x) \in Ids(x)
BY DEF Ids

LookupInv == FoundCarriesKey /\ FoundByVersion

LEMMA LookupInvInit == Init => LookupInv
BY DEF Init, LookupInv, FoundCarriesKey, FoundByVersion, Range

LEMMA LookupInvStep == LookupInv /\ [Next]_found => LookupInv'
<1> SUFFICES ASSUME LookupInv, [Next]_found PROVE LookupInv'
  OBVIOUS
<1>1. CASE UNCHANGED found
  BY <1>1 DEF LookupInv, FoundCarriesKey, FoundByVersion, Range
<1>2. ASSUME NEW e \in Entries, File(e) PROVE LookupInv'
  <2>1. PICK gone \in SUBSET (Range(found) \ {e}) :
           found' = Forget(Learn(found, e), gone)
    BY <1>2 DEF File
  <2>2. /\ DOMAIN found' = (DOMAIN found \cup Ids(e))
                              \ UNION {Ids(g) : g \in gone}
        /\ \A k \in DOMAIN found' :
              found'[k] = IF k \in Ids(e) THEN e ELSE found[k]
    BY <2>1, Filed
  <2>3. FoundCarriesKey'
    BY <2>2 DEF LookupInv, FoundCarriesKey
  <2>4. ASSUME NEW k \in DOMAIN found'
        PROVE  /\ VersionKeyOf(found'[k]) \in DOMAIN found'
               /\ found'[VersionKeyOf(found'[k])] = found'[k]
    <3> DEFINE x == found'[k]
    <3>1. \A g \in gone : g \in Range(found) /\ g # e
      BY <2>1
    <3>2. \A g \in Range(found) :
             VersionKeyOf(g) \in DOMAIN found /\ found[VersionKeyOf(g)] = g
      BY DEF LookupInv, FoundByVersion
    <3>3. VersionKeyOf(e) \notin DOMAIN found
      BY <1>2 DEF File
    <3>4. CASE k \in Ids(e)
      <4>1. x = e
        BY <3>4, <2>2
      <4>2. ASSUME NEW g \in gone PROVE VersionKeyOf(e) \notin Ids(g)
        BY <3>1, <3>2, <3>3, OneVersionKey
      <4>3. VersionKeyOf(e) \in DOMAIN found'
        BY <4>2, <2>2, OwnVersionKey
      <4> QED BY <4>1, <4>3, <2>2, OwnVersionKey
    <3>5. CASE k \notin Ids(e)
      <4>1. x = found[k] /\ k \in DOMAIN found
        BY <3>5, <2>2
      <4>2. x \in Range(found) /\ k \in Ids(x)
        BY <4>1 DEF Range, LookupInv, FoundCarriesKey
      <4>3. VersionKeyOf(x) \in DOMAIN found /\ found[VersionKeyOf(x)] = x
        BY <4>2, <3>2
      <4>4. x \notin gone
        BY <4>2, <2>2
      <4>5. ASSUME NEW g \in gone PROVE VersionKeyOf(x) \notin Ids(g)
        BY <3>1, <3>2, <4>3, <4>4, OneVersionKey
      <4>6. VersionKeyOf(x) \notin Ids(e)
        BY <4>3, <3>3, OneVersionKey
      <4> QED BY <4>3, <4>5, <4>6, <2>2
    <3> QED BY <3>4, <3>5
  <2>5. FoundByVersion'
    BY <2>4 DEF FoundByVersion, Range
  <2> QED BY <2>3, <2>5 DEF LookupInv
<1> QED BY <1>1, <1>2 DEF Next

\* A key finds an entry that carries it: a lookup in cache.go:45 never returns
\* an artifact of another name, version or digest.
THEOREM LookupsAreRight == Spec => []FoundCarriesKey
<1>1. LookupInv => FoundCarriesKey
  BY DEF LookupInv
<1> QED BY <1>1, LookupInvInit, LookupInvStep, PTL DEF Spec

\* An entry that any key finds is found under its version too, so that the
\* first look of ByVersion (resolve.go:102) finds whatever is cached.
THEOREM VersionsFindEverything == Spec => []FoundByVersion
<1>1. LookupInv => FoundByVersion
  BY DEF LookupInv
<1> QED BY <1>1, LookupInvInit, LookupInvStep, PTL DEF Spec

\* While a version stays cached, it stays the same artifact (cache.go:75-80).
THEOREM VersionsStayTheSame == Spec => NeverReplaced
<1>1. LookupInv /\ [Next]_found => [VersionsStay]_found
  <2> SUFFICES ASSUME NEW e \in Entries, File(e), NEW x \in Entries,
                      VersionKeyOf(x) \in DOMAIN found,
                      VersionKeyOf(x) \in DOMAIN found'
               PROVE  found'[VersionKeyOf(x)] = found[VersionKeyOf(x)]
    BY DEF Next, VersionsStay
  <2>1. PICK gone : found' = Forget(Learn(found, e), gone)
    BY DEF File
  <2>2. \A k \in DOMAIN found' :
           found'[k] = IF k \in Ids(e) THEN e ELSE found[k]
    BY <2>1, Filed
  <2>3. VersionKeyOf(x) \notin Ids(e)
    BY OneVersionKey DEF File
  <2> QED BY <2>2, <2>3
<1> QED BY <1>1, LookupInvInit, LookupInvStep, PTL DEF Spec, NeverReplaced
=============================================================================
