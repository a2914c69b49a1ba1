---------------------------- MODULE CacheRecency ----------------------------
(***************************************************************************)
(* ArtifactCache with a history variable: for each entry in the list, all  *)
(* those, evicted or not, that were used since it was.  A call uses the    *)
(* entry it finds or files.                                                *)
(***************************************************************************)
EXTENDS ArtifactCache

VARIABLE since

Use(e) ==
    since' = [x \in Range(ll') |->
                 IF x = e THEN {} ELSE since[x] \cup {e}]

\* A lookup of the key k uses the entry it comes upon.
UseFound(k) == IF k \in DOMAIN byID THEN Use(byID[k]) ELSE UNCHANGED since

RecencyInit == Init /\ since = [e \in {} |-> {}]

RecencyLookup(id) == Lookup(id) /\ UseFound(id)

RecencyInsert(e) ==
    /\ Insert(e)
    /\ IF VersionKeyOf(e) \in DOMAIN byID
       THEN UseFound(VersionKeyOf(e))
       ELSE Use(e)

RecencyNext == \/ \E id \in Keys : RecencyLookup(id)
               \/ \E e \in Entries : RecencyInsert(e)

RecencySpec == RecencyInit /\ [][RecencyNext]_<<cache, since>>
-----------------------------------------------------------------------------
\* The cache holds exactly the most recently used entries, as many as it has
\* room for: what was used since an entry of the list was stands before it.  A
\* hit, and an insertion that finds its version cached, both refresh the
\* recency, and only the least recently used entries are evicted.
HoldsMostRecentlyUsed ==
    \A i \in DOMAIN ll : since[ll[i]] = {ll[j] : j \in 1 .. i - 1}
=============================================================================
