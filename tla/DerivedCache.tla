----------------------------- MODULE DerivedCache -----------------------------
(***************************************************************************)
(* What the artifact cache promises its one client, the Resolver, and      *)
(* nothing more: a key finds an entry that was filed under it, an entry is *)
(* never replaced while its version is cached, and any other entry may be  *)
(* forgotten whenever one is filed.  Which one, and when, is the business  *)
(* of ArtifactCache, which implements this specification.                  *)
(***************************************************************************)
EXTENDS CacheKeys, Functions

VARIABLE found   \* the lookup index: a partial function from keys to entries

Learn(f, e) ==
    [k \in DOMAIN f \cup Ids(e) |-> IF k \in Ids(e) THEN e ELSE f[k]]

Forget(f, gone) ==
    Restrict(f, DOMAIN f \ UNION {Ids(e) : e \in gone})

Init == found = [k \in {} |-> k]

\* File e, which no entry of its version precludes, and forget others.
File(e) ==
    /\ VersionKeyOf(e) \notin DOMAIN found
    /\ \E gone \in SUBSET (Range(found) \ {e}) :
          found' = Forget(Learn(found, e), gone)

Next == \E e \in Entries : File(e)

Spec == Init /\ [][Next]_found
-----------------------------------------------------------------------------
\* A key finds an entry that carries it: the right name, and the version or
\* the digest that was asked for.
FoundCarriesKey == \A k \in DOMAIN found : k \in Ids(found[k])

\* An entry that any key finds is found under its version too.
FoundByVersion ==
    \A e \in Range(found) :
        VersionKeyOf(e) \in DOMAIN found /\ found[VersionKeyOf(e)] = e

\* While a version stays cached, it stays the same artifact.
VersionsStay ==
    \A e \in Entries :
        VersionKeyOf(e) \in DOMAIN found /\ VersionKeyOf(e) \in DOMAIN found' =>
            found'[VersionKeyOf(e)] = found[VersionKeyOf(e)]
NeverReplaced == [][VersionsStay]_found
=============================================================================
