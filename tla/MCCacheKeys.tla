----------------------------- MODULE MCCacheKeys -----------------------------
(***************************************************************************)
(* Small sets of names and artifacts: two names; one version that the *)
(* upstream publishes a second time with other content; two versions whose *)
(* provenance files are the same bytes, so that they share a digest.       *)
(***************************************************************************)
EXTENDS CacheKeys

CONSTANTS n1, n2, v1, v2, v3,
          m1, c1, t1, m1b, c1b, t1b, m2, c2, t2, m3, c3, t3, p

MCNames == {n1, n2}
MCVersions == {v1, v2, v3}
MCDigests == {m1, c1, t1, m1b, c1b, t1b, m2, c2, t2, m3, c3, t3, p}

Art(v, m, c, t, prov, bytes) ==
    [version |-> v, manifest |-> m, config |-> c, chart |-> t,
     prov |-> prov, bytes |-> bytes]

First       == Art(v1, m1,  c1,  t1,  NoProv, 1)
Republished == Art(v1, m1b, c1b, t1b, NoProv, 3)
Second      == Art(v2, m2,  c2,  t2,  p, 2)
Third       == Art(v3, m3,  c3,  t3,  p, 7)

MCArtifacts == {First, Republished, Second, Third}
=============================================================================
