# A TLA+ model of ocharted

ocharted is a stateless OCI registry in front of classic Helm repositories. A
request names an upstream repository and a chart; the answer is derived from
the upstream's `index.yaml`, its tarballs and their `.prov` files, and kept in
two in-memory caches that exist only to save work. This directory holds a TLA+
model of that derivation, of the two caches, of what surrounds a request (the
configuration, authentication, routing, the listing of tags) and of the life of
the process, the TLC runs that check it on small instances, and TLAPS proofs.

Line numbers are those of the files under `src/`.

## The system

| Part | State | Operations | Talks to |
| --- | --- | --- | --- |
| artifact cache, `internal/registry/cache.go` | LRU list, index by three kinds of key, byte count, one mutex | `get`, `add` (with the eviction loop), `evictOldest` | called by the resolver |
| index client, `internal/upstream/upstream.go`, `index.go` | index cache with fetch times, one singleflight group, one mutex | `Index`, `staleFor`, `store`, `Chart`, `Prov`, `fetch` | the upstream over HTTPS |
| resolver, `internal/registry/resolve.go` | the artifact cache, a second singleflight group | `Tags`, `ByVersion`, `ByManifestDigest`, `Blob`, `Signature`, `SignatureBlob`, `scan`, `build` | index client, derivation, signing |
| derivation, `internal/oci` | none | `Build`, `RewriteDependencies`, tag mapping | pure functions |
| signing, `internal/sign` | a key | `Artifact`, `Blob` | pure function |
| HTTP API, `internal/registry/handler.go`, `errors.go` | none | `handleTags`, `handleManifest`, `handleSignatureManifest`, `handleBlob`, error mapping | resolver |
| middleware, `middleware.go` | a per-request outcome | basic auth with its bypass, recovery, access log | wraps the API |
| server, `registry.go`, `cmd/ocharted/main.go` | two listeners | `Run`, `serve`, `shutdown`, signals | everything |
| configuration, `internal/config` | none after start | `Load`, `validate` | everything |
| dial guard, `internal/upstream/guard.go` | none | address and host predicates | the HTTP transport |
| metrics, Helm chart, e2e tests, CI | - | - | - |

What is hard here: every request runs on its own goroutine, looks at a cache,
then joins or leads a *flight* (a singleflight call) whose outcome everyone in
it shares, so that cache reads, flights, exchanges with the upstream and
cancellations interleave freely; index, tarball and `.prov` file of one version
are read at three moments of an upstream that publishes between them; replicas
restart, and several serve the requests of one pull or the pages of one listing;
a request comes by gateways that append to headers a client may have forged;
and a signal or a failing listener may come at any moment of the boot, of a
request or of the drain.

What makes each part correct:

- artifact cache: list, index and byte count agree; the budget is kept by
  evicting the least recently used entries and no others; a version that is
  cached is not replaced.
- index client: callers of a repository see an index that never moves
  backward, that is no staler than the TTLs say, and never a stale one in the
  place of a 404; every call ends; the map is bounded.
- resolver: an answer is what was asked for, was published, and does not depend
  on the cache; concurrent requests share downloads; a request ends and does a
  bounded amount of work.
- tag listing: a client that follows the links is shown every version that
  stays, in lexical order and so no tag on two pages, only tags that lead back
  to a version, and comes to an end.
- middleware and configuration: without a password only those are served whose
  whole way lies in the bypass networks, all of those are, and the access log
  says what happened to this request and no other.
- server: a drain cuts no request off before its timeout, ends, and the exit
  status says why.

## Modules

| Module | What it is |
| --- | --- |
| `CacheKeys` | artifacts and the keys they are filed under, shared by the cache and the resolver |
| `DerivedCache` | the abstract cache: what the resolver relies on |
| `ArtifactCache` | `cache.go`, one step per call |
| `CacheRecency` | the same with a history of uses |
| `LeastElement` | a set of numbers has a least and, when bounded, a greatest element |
| `IndexRegister` | the abstract index: a register that only moves forward |
| `IndexClient` | `Client.Index`, `staleFor` and `store` |
| `IndexAuthority` | the same with a history of 404 answers |
| `Resolver` | `resolve.go` with the handlers that call it, over `DerivedCache` and the register |
| `Tags`, `Listing` | `tags.go`; `Resolver.Tags` and `handleTags` under clients that follow links |
| `Config` | `config.go`: what `Load` makes of an environment, and what it refuses |
| `Pipeline` | `handler.go`, `middleware.go`, `errors.go`: a request from its client to the access log |
| `Server` | `main.go`, `registry.go`: the process, its listeners, the drain |
| `ArtifactCacheProofs` (with `CacheRecency`), `DerivedCacheProofs`, `IndexClientProofs`, `ResolverProofs`, `ListingProofs`, `PipelineProofs`, `ServerProofs` | the proofs about those modules |
| `MCCacheKeys`, `MCCache`, `MCIndex`, `MCIndexAuthority`, `MCResolver`, `MCListing`, `MCConfig`, `MCPipeline`, `MCServer` | instances for TLC |

`ArtifactCache` implements `DerivedCache` and `IndexClient` implements
`IndexRegister` (both are checked by runs and proved), so `Resolver` is built on the two
abstract specifications and not on the detailed ones: its cache files an
artifact and forgets any others, its index reads return any revision between
the last one read and the present one. `Listing` reads the same register, one
per replica. `Pipeline` and `Server` extend `Config`: each starts from the
environments it accepts, or shows what becomes of the others. `Pipeline` takes
from `Resolver` only the errors a request may end with.

### ArtifactCache

`cache` is the struct of `cache.go:15`: `ll` the list, most recent first,
`byID` the index, `size` the byte count. An entry stands for its list element,
which is sound because no entry is in the list twice (`NoDuplicates`, proved).
`Get` and `Add` are the two methods, each atomic under the mutex. The eviction
loop is a function of the number of turns, `Turns`, of which
`EvictWhileOverBudget` takes the first that ends the loop: no recursion is
needed, and the proof can reason about each turn. Digests are members of a set.

### IndexClient

A caller goes `idle`, `called` (in `Index`, before the cache is read), `missed`
(cache read, flight not joined), `waiting` (in `sf.Do`), `failed` (the flight
returned an error, `staleFor` still to come), `done`. `flight[r]` is the
singleflight call of a repository with the caller that leads it: its context
governs the fetch, so `Cancel` is enabled when that one's client has gone.
`Respond` and `Land` are the two ends of an exchange, the upstream's and the
client's. `Land` is one step, while the code stores under the mutex and returns
from the flight afterwards: a caller that joins between the two gets the index
that was just stored, which it would get from the cache a moment later. `Kept` is the two
deletion loops of `store` with the random order of a Go map. An index is
represented by its revision, and time by ages that `Tick` advances and that are
capped where nothing tells them apart.

An exchange ends with an index, a 404, a fault, an address or host that is
refused (`Dialled`, `hostAllowed`), a timeout or a cancellation, or never:
`CheckRedirect` replaces the default policy of net/http and with it the limit
of ten redirects, so that a chain of them without end is an upstream that never
answers, and the client's timeout is all that ends it. Oversize bodies are
faults. Two of the real constants are scaled down: `maxIndexCacheEntries` to 1
or 2, the TTLs to 1 and 2 ticks; `IndexCap` has an `IndexStaleTTL` below
`IndexTTL`, which `validate` accepts.

### Resolver

One chart, all its versions. A caller goes through the steps of the method its
request runs: `cache` (the lookup by digest), `layer` (Blob's fast path),
`scan`, and for each version resolved `resolve` (ByVersion's lookup), `missed`,
`waiting`, `resumed`. A flight goes through `cache` (the second look), `index`,
`chart`, `prov`, `build`. The upstream is a sequence of states, `History`:
`Publish` moves to the next one, so that every exchange may see a later state
than the one before; an index of `Nothing` is a 404. Contents stand for their digests, which makes a digest
equal exactly when what was hashed is. `Restart` is a crash: everything but the
configuration is lost. As nothing else distinguishes replicas, it also stands
for asking another, cold one.

The exchanges' failures are one action (`FlightFails`, `IndexFails`) that may
happen at any point when `Faults` is on; the leader's context is not modelled a
second time.

### Listing

A step is one request for a page, `handleTags`, answered by any replica from
any revision its index may have (`ReadIndex`). A version is its place in the
lexical order and a mark for what tags make a difference of: build metadata, a
literal underscore, characters no tag may contain. `Tags` is the sorted slice
of `Resolver.Tags` with a tag for every entry: `slices.Sort` is not followed by
a `Compact`, so two versions with one tag (`1_x` and `1+x`) put it there twice,
and `handleTags` sends it twice. `Rest` drops what is no later than `last` and
`Page` cuts at the limit, both by position, so the cut may fall between two equal
tags. `walk` is what a client has been given so far, its last page as the
sequence it is, and the `last` its next link carries; `Publish`, and
`Restart`, which moves a replica's index forward, come between the pages.

### Config

Operators over a record with the fields of `Config`: `parseAuth`, `Normalize`
for the networks, and `validate` in its parts. An address or a network is its
notation and its block, so that the two notations of one IPv4 block are told
apart as `netip` tells them apart. A mapped prefix of fewer than 96 bits, which
`config.go:169` leaves alone and which then matches no IPv4 client, is left out.

### Pipeline

Requests share nothing but the configuration, so the module follows one after
the other: `Send` with whatever hops a client claims, `Forward` by gateways that
append the address they were called from, `Observe`, `Admit` (the mux and
`basicAuth`), `Route` (`handleV2` and `dispatch`), `Resolve` (a handler, mapped
errors, a recovered panic), `Log`. The holder of the outcome, `auth`, survives
between requests unless `Observe` makes a new one. Metrics, the log's wording
and `DisableRequestLogs` are left out.

### Server

Goroutines are `main`, `serving` (one ListenAndServe per server), `drain`, and
`Rearm`; `conn` is net/http's ConnState of each connection. `Start` and `Bind`
are the two looks ListenAndServe takes at whether the server was shut down, with
the bind between them; `Poll` is one turn of Shutdown's loop, which closes idle
connections and such new ones as have been silent for long. `Signal` kills
before `Arm` and after `Rearm` and cancels between the two; a signal between the
first one and `Rearm` is swallowed, so there is no step for it. `Break` is the
environment: a port that is taken or a socket that fails. `Exit` ends every
connection; the return of `Run`, the deferred `stop()` (`main.go:70`) and
`os.Exit` are this one step, so a first signal between the last two is not shown.
`Dial` stops with the shutdown, while net/http may accept for a moment longer,
until the listener is closed. `CHECK_DEADLOCK` is off for this module alone, since a process that
has exited stops.

## What the runs check

| Run | Instance | Shows |
| --- | --- | --- |
| `Cache` | two names, four artifacts, budget 6 | `NoDuplicates`, `IndexCoherent`, `Reachable`, `SizeExact`, `WithinBudget`, `EvictsOnlyTheOldest`, `HoldsMostRecentlyUsed`, and that the cache implements `DerivedCache` |
| `IndexOneRepo` | two callers, one repository, one publication | the index never moves backward (`CacheMovesForward`, `ReadsLikeARegister`), is recent (`AnswersAreRecent`), a 404 or a refusal is final for its callers (`AuthorityIsFinal`), nobody waits for a flight that is over, every call returns |
| `IndexCap` | two callers, three repositories and one refused, cap 2, stale TTL below the TTL | the map is bounded and drops one useful entry at most per store |
| `ResolverCold` | two callers, four requests, constant upstream, provenance, signing and faults on | answers do not depend on the cache, every request ends |
| `ResolverChanging` | two callers, five requests, four upstream states, rewriting and faults on | answers match their requests and were published; no download for a cached version; work is bounded by the scan limit |
| `Listing` | one client, two replicas, four revisions, six values of n | stable versions are listed, in order and on no two pages, listed tags lead back to a version, every listing ends |
| `Pipeline` | four environments, four clients, two gateways, three claims, three credentials, two hops | who is let in, who is asked for a password, what is logged |
| `Server` | five environments, three connections | graceful drain, exit status, the process ends when asked |
| `IndexCancel`, `IndexGone`, `ResolverRepublished`, `ResolverPoisoned` | minimal | disagreements, below |

Why the bounds are enough to be interesting:

- `Cache`: `First` and `Republished` are one version with two contents,
  `Second` and `Third` share the digest of their provenance file, and `Third`
  is larger than the budget, so that overwritten keys, insertions of a cached
  version, several evictions in one call and a lone artifact above the budget
  all occur. The history of `CacheRecency` needs no bound: it remembers of each
  entry in the list what was used since, and that is what the property compares
  with the list.
- `IndexOneRepo`: one caller may be between its cache read and its flight while
  the other's flight lands; a publication makes an old and a new revision; an
  age can be fresh, stale and past both TTLs. The allowlist is empty, so that
  every host may be asked and only the dialer refuses.
- `IndexCap`: the map reaches its cap with a mixture of useful and expired
  entries. Callers and repositories are symmetric.
- `ResolverCold`: the newest version mismatches its digest, the second has
  provenance, the oldest has no published digest. The scan limit covers the
  history, the index's versions are those of the tarballs, and all tarballs can
  be read: without any of the three, `AnswersIgnoreCache` does not hold (see
  below).
- `ResolverChanging`: in the first state one version cannot be read and one has
  no URL; then a tarball is replaced without a word in the index; then the
  index follows; then the repository is gone. Signing is off, which keeps the run
  small: the second scan of a blob request, for signatures, is run by
  `ResolverCold` only, whose scan limit covers the history, and its bound is
  proved (`ScansAreBounded`).
- `Listing`: versions with build metadata, with a literal underscore and with
  no tag; versions disappear in the middle and appear at both ends, the tag a
  page ended with among them; two versions come to share a tag, which then is on
  one page twice, or, with a limit of 2, is cut between its two appearances;
  page sizes from invalid over 0 to more than is left. Clients do not interact, so one is
  enough; two replicas let the index move backward between two pages.
- `Pipeline`: users without networks, networks with and without users, the same
  block in both notations, a user given twice; forged hops that are inside and
  that are junk. Two gateways are enough for one to be neither the first nor
  the last of a chain; the theorems hold for any number.
- `Server`: both ports equal with and without a metrics server, a bad key; three
  connections may be active, idle and silent at a time, on either server.

Every property of a passing run has a mutant, an operator such as
`EvictFromListOnly` or `SingleLook` next to the definition it would replace,
with which the property fails. They are listed in `PROJECT.json` and used by no
specification.

### Fairness

Safety runs assume none. `IndexOneRepo` assumes that a goroutine that can run
does, that time passes and that the HTTP client keeps its timeout
(`http.Client.Timeout`, `upstream.go:92`), and nothing of the upstream or of
clients. `ResolverCold` assumes the same of callers and that each exchange
ends, which the timeout ensures; it does not assume that an exchange succeeds or
that `Publish` or `Restart` happens. Callers may stop after an answer.
`Listing` assumes of a client only that it follows the links and is answered.
`Server` assumes that goroutines run and that the timer of `ShutdownTimeout`
fires, and nothing of clients, handlers, signals or the moment at which silent
connections are closed: a request may never end.

## Where the code and its comments differ

Each has a run with one property that quotes the sentence:

- `IndexCancel`: a flight runs under its leader's context (`upstream.go:123`),
  so a client that disconnects fails the request of everyone who joined.
- `IndexGone`: a 404 leaves the cached index in place (`upstream.go:151`), and a
  later network fault brings the index of the gone repository back.
- `ResolverRepublished`: after a version was published again, a replica with
  the old content answers 404 for the new layer that a cold one serves
  (`resolve.go:102`).
- `ResolverPoisoned`: a newest version without a readable Chart.yaml or a
  usable URL fails every cold lookup by digest (`resolve.go:260`).

Met while modelling, without a run of their own:

- the signature manifest of a cached version beyond the scan limit is served,
  its payload is not, since `SignatureBlob` does not look at the cache
  (`resolve.go:220`), although `config.go:113` promises signatures for every
  manifest; `ResolverRepublished` shows the same of layers;
- `OCHARTED_AUTH` with nothing but separators parses to a map that is empty and
  not nil (`config.go:191`): the registry is anonymous, `main.go:116` does not
  say so in the boot log, and `main.go:134` logs `auth=true`;
- an `IndexStaleTTL` below `IndexTTL` is accepted (`config.go:241`) and turns
  stale answers off, as 0 does, while entries are still kept for `IndexTTL`;
- a drain whose registry uses the whole `ShutdownTimeout` up leaves the metrics
  server none of it (`registry.go:77-78`);
- beyond the scan limit the cache decides whether a digest is answered
  (`resolve.go:253`), which `README.md:38` does not mention;
- an artifact is filed under the version of its Chart.yaml and looked up by the
  version of the index (`cache.go:63`), so when they differ a tag that the index
  does not list is answered while the artifact is cached;
- a deleted version is served by tag for as long as it is cached, although
  `README.md:363` says it is gone;
- `evictOldest` deletes keys that another entry has taken over (`cache.go:99`),
  so that an entry may not be found under a digest it has; the other direction,
  a key that leads to a wrong entry, is what `IndexCoherent` excludes;
- two versions with one tag put it into a listing twice (`resolve.go:93` sorts
  and does not compact), and only the one with the plus sign can be pulled by it;
- a caller that missed just before a flight landed fetches the fresh index once
  more, as the index's flight has no second look at the cache
  (`upstream.go:122`), unlike the resolver's.

## What is proved

Every invariant and action property of a passing run but one is also a theorem,
for every value of the constants; the exception and the liveness properties are
listed at the end. Each theorem comes from an inductive invariant of its module,
which the text below names, and the assumptions are the named `ASSUME`s of the
modules, which TLC evaluates for the instances.

**`ArtifactCacheProofs`**, for every set of names, versions, digests and
artifacts and every budget: `TypeCorrect`, `VersionsAreUnique`,
`IndexIsCoherent`, `EntriesStayReachable`, `SizeStaysExact`, `BudgetIsKept`,
`OnlyTheOldestAreEvicted`, `MostRecentlyUsedAreKept`, and that the cache
implements `DerivedCache` (`CacheKeepsItsPromise`). Assumed are that an artifact
has at least one byte (a manifest is never empty), that the budget is positive
(`config.go:249`), and that "no provenance" is not a digest.

None of the properties is inductive alone. An eviction removes the keys of the
oldest entry, shared or not, so `Reachable` needs that no other entry of the
list has its version key (`NoDuplicates`), which needs in turn that `add` finds
the version key of every entry in the list (`Reachable`). The inductive
invariant `Good /\ Within` states them together, with the byte count as the sum
of the list. `Good` alone is kept by every turn of the eviction loop
(`EvictOldestKeepsGood`, `TurnsKeepGood`), `Within` only by the whole loop
(`LoopKeepsGood`): the loop stops at the latest when one entry is left, and the
least such turn exists by `LeastElement`. The sum of the bytes of a list is a
recursive function; that it is what one expects when an entry is pushed, moved
or dropped is proved from the uniqueness of such functions
(`RunningSumUnique`), by a least counterexample and not by induction. What the
loop takes is a suffix of the list (`LoopTakesASuffix`), of which the pushed
entry is never part: this gives the eviction order, the recency and, step by
step, the refinement, in which a hit stutters and an insertion files one entry
and forgets others with all the keys they have.

**`DerivedCacheProofs`** proves what the resolver relies on, whatever cache it
gets: a key finds an artifact that carries it, whatever is found is found under
its version, and a version that stays cached stays the same artifact. That an
entry is found under its version needs that no two entries share one, which
`File`'s guard ensures, and that a key is always one of the entry it leads to.

**`IndexClientProofs`**, for any callers, repositories, TTLs, timeout, cap and
number of revisions: `IndexTypes`, `NobodyWaitsForNothing`,
`CacheStaysBounded`, `EvictionsAreMild`, `IndexMovesForward`,
`AnswersLagBoundedly`, `AuthorityIsNeverMasked`, and that the client implements
`IndexRegister` (`IndexIsARegister`). The invariant `IndexInv` orders, for each
repository, what callers were given, what the cache holds, what a flight brings
and what is published (`RevisionsInv`): nothing moves backward because a flight
begins its exchange after whatever it will replace was stored, although no lock
is held between the two (`upstream.go:122-126`). `AgesInv` bounds by the age of
an entry or of an exchange how long its revision has been superseded. The cap
needs that `Kept` leaves room for the entry to be stored, which is arithmetic
on cardinalities. In the refinement a call takes effect when it is answered.

**`ResolverProofs`**, for any callers, requests, options, scan limit and
history of the upstream: `TypesAreKept`, `NobodyIsLeftWaiting` and
`ScansAreBounded` from `ResolverInv`, which says of each place a caller can be
at what it is doing (`Stands`) and how many downloads it has left (`Affords`),
and of each flight that its entry and tarball are those of its version
(`Holds`). `AnswersAreRight`, `NothingElseIsServed` and `DownloadsAreMisses`
have a hypothesis, `VersionsAgree`: an index entry whose tarball can be read and
is what its digest says has the version of that tarball's Chart.yaml. The code
keys the cache by the one and looks up by the other (`cache.go:63`) and checks
nothing, and Helm generates indexes from the charts, so this is an assumption
about the upstream. It is needed: with an upstream that breaks it TLC refutes
all three and confirms `WorkIsBounded`. The histories of the runs satisfy it. From it
`AgreeInv` follows (`AgreementIsKept`): a key finds an artifact that carries it,
a caller is resumed with the version it waited for, and whatever is cached or
answered had been published. `NoDownloadWhileCached` is part of it because a
flight that files its artifact must find the version absent still. Of the
history it is assumed that the states speak of the same versions
(`HistoryAssumption`), of a tarball that it has the fields the code reads
(`TarballsAssumption`), and of a request that a tag is a version's name
(`RequestsAssumption`).

`CacheMakesNoDifference` proves `AnswersIgnoreCache` for every upstream that is
`Steady`: nothing is published any more, the index fits into the scan limit, and
every version is listed once, by a usable URL, with a tarball of that version
unless the digest refuses it. The history of `ResolverCold` is steady, and so
is any repository Helm has indexed, as long as nobody publishes. `Steady` implies
`VersionsAgree`, so that `AgreeInv` is at hand. `SteadyInv` adds that the cache
holds only what can be derived (`Derivables`); that a flight carries the entry,
tarball and `.prov` file of its version (`Carries`) and ends with what can be
derived of it or, unless with a fault, with an error that proves nothing can
(`Outcome`); and that all that could match is still ahead of a scan (`Seeking`),
which a mismatch or a 404 of a candidate lets go on. A scan that ends without a
match has then passed by every version, as a cold one would; that the versions
are listed once is what makes the artifact of a version unique (`DerivedFrom`),
and that the digests are of their versions is what makes the fast path of a layer
final (`LayerVersion`). TLC confirmed `SteadyInv` on the instance of
`ResolverCold`, and again with rewriting and without signing.

**`ListingProofs`**, for any histories of the index, page sizes, clients and
replicas: `ListingTypes`, `NoStableVersionIsMissed`, `TagsLeadBack` and
`ListingsAreSorted`. `ListingInv` says of a client that it was told every stable
tag up to the last of its last page and none beyond (`Told`). `Tags` sorts by
ranks, that is how many entries are before one; that these are the positions of
a sequence, each taken once, is a pigeonhole argument (`RanksArePositions`), and
`TagsAre` says what a sorted slice is. A page is then shown to begin beyond
`last` and to be in order, to have every tag up to the one that its link names,
and to have all that is left when there is no link (`PagesAreFair`). A limit that
cuts between two equal tags loses nothing, since a tag is known by its place
(`PlaceTellsTags`). Nothing is claimed of a tag that is twice on one page.

**`PipelineProofs`**, for every configuration, every set of addresses and any
number of gateways: `OutsidersNeedAPassword`, `InsidersGetIn`, `PipelineTypes`
and `LogsTellTheTruth`. `PipelineInv` says that the peer and the forwarded
entries together are exactly the client, the gateways and the client's claims
(`HopsInv`), whatever a claim is and however often it is appended to, and that a
request is let in or denied by `MayPass` alone (`DecisionInv`). The log needs
more: between `Observe` and `Log` the outcome is that of this request and agrees
with the status recorded, through each handler and a recovered panic
(`Attributed`, `LogInv`). Assumed are that addresses are addresses, that a block
belongs to one family (`FamiliesAssumption`) and that `MaxHops` is a number;
that networks parse comes from `Loads`.

**`ServerProofs`**, for every configuration and any number of connections:
`ServersStayDrained`, `DrainsAreGraceful`, `StatusIsTrue` and `ServerTypes`.
`ServerInv` says that only what is enabled is served, after the configuration
was accepted (`ListenersInv`); that what was shut down does not listen again
and, unless the timeout is up, nobody is connected to it (`DrainInv`), which is
what makes `Exit` harmless; and that a drain has its reason (`ReasonInv`). That
the two listeners do not make each other fail rests on `PortsValid`.

Only model-checked is what is out of the prover's reach, liveness
(`EveryCallReturns`, `EveryRequestEnds`, `EveryWalkEnds`, `EndsWhenAsked`). Every
invariant of a passing run is a theorem.

## Plan

Done: artifact cache, index client and resolver, in this order since the
resolver rests on the other two; then listing, configuration, pipeline and
server; then the proofs of their safety properties and of both refinements.

1. `Resolver`: the leader's context for a version's flight, as `IndexClient`
   has it, and the write timeout of a response against a long cold scan.

## Not modelled

Metrics (nothing reads them back), cryptography and file formats (contents stand
for their digests; tar, gzip and YAML are libraries), which addresses the dial
guard takes for private (a predicate, of which the model has the result), the
parsing of numbers, durations and log levels from the environment, the wording
of logs, the access log of the metrics listener, which attributes nothing, HEAD
against GET, the Helm chart of ocharted, the end-to-end tests and CI.

## Running it

    tlc -workers 2 -config Cache.cfg MCCache
    tlc -workers 2 -config ResolverCold.cfg MCResolver
    tlapm ArtifactCacheProofs.tla
    tlapm ResolverProofs.tla

The module of each run is in `PROJECT.json`. `ResolverChanging` is the longest,
with about 700,000 states.
