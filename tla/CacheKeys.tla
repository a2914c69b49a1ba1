------------------------------ MODULE CacheKeys ------------------------------
(***************************************************************************)
(* The vocabulary the artifact cache and the resolver share: the artifact  *)
(* a build derives from one chart version (internal/oci/artifact.go), and  *)
(* the keys it can be looked up under (internal/registry/cache.go).        *)
(*                                                                         *)
(* A digest is a member of a set, equal exactly when the contents are; the *)
(* bytes themselves are left out except for their number.                  *)
(***************************************************************************)
EXTENDS Integers

CONSTANTS
    Names,      \* repository names, "<upstream repo>/<chart>"
    Versions,   \* chart versions, as Chart.yaml spells them
    Digests,    \* sha256 digests
    NoProv,     \* the digest field of an artifact without a .prov layer
    Artifacts   \* every artifact a build may derive

ASSUME NoProvAssumption == NoProv \notin Digests

\* A manifest is never empty, so an artifact takes at least one byte.
ASSUME ArtifactsAssumption ==
    Artifacts \subseteq [version : Versions, manifest : Digests,
                         config : Digests, chart : Digests,
                         prov : Digests \cup {NoProv}, bytes : Nat \ {0}]

\* The digests an artifact answers a blob request for.
BlobDigests(a) ==
    {a.config, a.chart} \cup (IF a.prov = NoProv THEN {} ELSE {a.prov})

VersionKey(n, v) == <<n, "v", v>>
DigestKey(n, d) == <<n, "d", d>>

\* What the cache holds: an artifact under the name it was resolved for.
Entries == [name : Names, art : Artifacts]

VersionKeyOf(e) == VersionKey(e.name, e.art.version)

\* Every key an entry is filed under.
Ids(e) ==
    {VersionKeyOf(e), DigestKey(e.name, e.art.manifest)}
        \cup {DigestKey(e.name, d) : d \in BlobDigests(e.art)}

Keys == UNION {Ids(e) : e \in Entries}
=============================================================================
