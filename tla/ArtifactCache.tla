---------------------------- MODULE ArtifactCache ----------------------------
(***************************************************************************)
(* The byte-bounded LRU of derived artifacts, internal/registry/cache.go.  *)
(*                                                                         *)
(* Every method runs under the cache's mutex from its first read to its    *)
(* last write, so one call is one step.  A list element is represented by  *)
(* the entry it holds: no two elements of the list are the same entry      *)
(* (NoDuplicates), so an entry names its element.                          *)
(***************************************************************************)
EXTENDS CacheKeys, SequencesExt

CONSTANT MaxBytes

\* config.go refuses a CacheMaxBytes below 1.
ASSUME MaxBytesAssumption == MaxBytes \in Nat \ {0}

VARIABLE cache   \* [ll   : the entries, most recently used first,
                 \*  byID : a partial function from keys to entries,
                 \*  size : the running byte count]

EmptyCache == [ll |-> << >>, byID |-> [k \in {} |-> k], size |-> 0]

Position(s, e) == CHOOSE i \in DOMAIN s : s[i] = e

MoveToFront(s, e) ==
    LET at == Position(s, e)
    IN  [j \in DOMAIN s |->
            IF j = 1 THEN e ELSE IF j <= at THEN s[j - 1] ELSE s[j]]

\* Mutant: a hit leaves the recency list as it is.
TouchNothing(c, e) == c

Touch(c, e) == [c EXCEPT !.ll = MoveToFront(@, e)]

Get(c, id) == IF id \in DOMAIN c.byID THEN Touch(c, c.byID[id]) ELSE c

\* Mutants: an eviction leaves the keys in the index, deletes those of the
\* newest entry, deletes the version's only, does not deduct its bytes, or
\* deducts them twice.
EvictFromListOnly(c) ==
    [c EXCEPT !.ll = SubSeq(@, 1, Len(@) - 1),
              !.size = @ - c.ll[Len(c.ll)].art.bytes]

EvictKeysOfNewest(c) ==
    [EvictFromListOnly(c) EXCEPT !.byID = Restrict(@, DOMAIN @ \ Ids(c.ll[1]))]

EvictVersionKeyOnly(c) ==
    [EvictFromListOnly(c) EXCEPT
        !.byID = Restrict(@, DOMAIN @ \ {VersionKeyOf(c.ll[Len(c.ll)])})]

EvictUncounted(c) ==
    [c EXCEPT !.ll = SubSeq(@, 1, Len(@) - 1),
              !.byID = Restrict(@, DOMAIN @ \ Ids(c.ll[Len(c.ll)]))]

EvictCountedTwice(c) ==
    [EvictUncounted(c) EXCEPT !.size = @ - 2 * c.ll[Len(c.ll)].art.bytes]

EvictOldest(c) ==
    LET oldest == c.ll[Len(c.ll)]
    IN  [ll   |-> SubSeq(c.ll, 1, Len(c.ll) - 1),
         byID |-> Restrict(c.byID, DOMAIN c.byID \ Ids(oldest)),
         size |-> c.size - oldest.art.bytes]

\* Mutants: a full cache counts as too full; two entries always stay.
OverBudgetWhenFull(c) == c.size >= MaxBytes /\ Len(c.ll) > 1
OverBudgetKeepingTwo(c) == c.size > MaxBytes /\ Len(c.ll) > 2

OverBudget(c) == c.size > MaxBytes /\ Len(c.ll) > 1

\* The cache after each turn of the eviction loop, the zeroth being none.
Turns(c) ==
    LET after[k \in 0 .. Len(c.ll)] ==
            IF k = 0 THEN c ELSE EvictOldest(after[k - 1])
    IN  after

\* The loop stops after the first turn that leaves the cache within budget.
EvictWhileOverBudget(c) ==
    LET after == Turns(c)
    IN  after[CHOOSE k \in 0 .. Len(c.ll) :
                 /\ ~OverBudget(after[k])
                 /\ \A i \in 0 .. k - 1 : OverBudget(after[i])]

PushFront(c, e) ==
    [ll   |-> <<e>> \o c.ll,
     byID |-> [k \in DOMAIN c.byID \cup Ids(e) |->
                  IF k \in Ids(e) THEN e ELSE c.byID[k]],
     size |-> c.size + e.art.bytes]

\* Mutant: add does not ask whether the version is cached.
AddUnconditionally(c, e) == EvictWhileOverBudget(PushFront(c, e))

Add(c, e) ==
    IF VersionKeyOf(e) \in DOMAIN c.byID
    THEN Touch(c, c.byID[VersionKeyOf(e)])
    ELSE EvictWhileOverBudget(PushFront(c, e))
-----------------------------------------------------------------------------
Init == cache = EmptyCache

Lookup(id) == cache' = Get(cache, id)

Insert(e) == cache' = Add(cache, e)

Next == \/ \E id \in Keys : Lookup(id)
        \/ \E e \in Entries : Insert(e)

Spec == Init /\ [][Next]_cache
-----------------------------------------------------------------------------
ll == cache.ll
byID == cache.byID

\* The bytes of a sequence of entries.
Bytes(s) ==
    LET sum[i \in 0 .. Len(s)] ==
            IF i = 0 THEN 0 ELSE sum[i - 1] + s[i].art.bytes
    IN  sum[Len(s)]

\* The list holds entries, the index leads from keys to entries, and the
\* byte count never goes negative.
TypeOK ==
    /\ ll \in Seq(Entries)
    /\ DOMAIN byID \subseteq Keys
    /\ \A k \in DOMAIN byID : byID[k] \in Entries
    /\ cache.size \in Nat

\* Two elements of the list never hold the same version of a chart, although
\* an upstream may publish a version again with other content.  (add checks
\* the version key before it pushes, and the evictions remove it.)
NoDuplicates ==
    \A i, j \in DOMAIN ll : VersionKeyOf(ll[i]) = VersionKeyOf(ll[j]) => i = j

\* The index never dangles and never lies: whatever a key leads to is in the
\* list and was filed under that key, even after an eviction removed keys
\* that two entries share.
IndexCoherent ==
    \A k \in DOMAIN byID : byID[k] \in Range(ll) /\ k \in Ids(byID[k])

\* Every entry that occupies bytes can still be found by its version, so
\* none of the budget is spent on an entry that no lookup can reach.
Reachable ==
    \A i \in DOMAIN ll :
        /\ VersionKeyOf(ll[i]) \in DOMAIN byID
        /\ byID[VersionKeyOf(ll[i])] = ll[i]

\* The running count is the sum of what the list holds: nothing is counted
\* twice when a version is added again, and nothing leaks on eviction.
SizeExact == cache.size = Bytes(ll)

\* The budget holds between calls, but for a single artifact above it.
WithinBudget == cache.size <= MaxBytes \/ Len(ll) = 1

\* A call evicts the least recently used entries and no more of them than it
\* has to: what it evicts is a suffix of the list, and with the youngest
\* evicted entry back the cache would be over its budget.
EvictsOnlyTheOldest ==
    [][LET Evicted(i) == ll[i] \notin Range(ll')
       IN  \A i \in DOMAIN ll : Evicted(i) =>
              /\ \A j \in i .. Len(ll) : Evicted(j)
              /\ (\A j \in 1 .. i - 1 : ~Evicted(j))
                    => cache'.size + ll[i].art.bytes > MaxBytes]_cache

\* The detailed cache keeps the promise of DerivedCache.
Derived == INSTANCE DerivedCache WITH found <- byID
ImplementsDerivedCache == Derived!Spec
=============================================================================
