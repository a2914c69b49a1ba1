------------------------------- MODULE Resolver -------------------------------
(***************************************************************************)
(* The Resolver of internal/registry/resolve.go, for one chart: requests   *)
(* by tag, by manifest digest and by blob digest, answered from the        *)
(* artifact cache or derived from the upstream, with one flight per        *)
(* version for concurrent misses.                                          *)
(*                                                                         *)
(* The cache is the one DerivedCache promises, and the index the register  *)
(* IndexRegister promises: an index read returns a revision no older than  *)
(* the last one read.  A step is one critical section of the cache, one    *)
(* exchange with the upstream, or one event at a caller's side of a        *)
(* flight.  Contents stand for their digests: two digests are equal when   *)
(* what was hashed is.                                                     *)
(***************************************************************************)
EXTENDS Integers, SequencesExt

CONSTANTS
    Callers,      \* concurrent requests
    Requests,     \* what they may ask: [op, arg] records
    History,      \* the successive states of the upstream, see below
    Nothing,      \* an absent file, digest or artifact
    Name,         \* the name "<repo>/<chart>" all requests are for
    ScanLimit,
    Provenance, Signing, Rewrite,  \* the three options, each on or off
    Faults        \* whether exchanges with the upstream may fail

(***************************************************************************)
(* A tarball is [id, version, deps]: the version its Chart.yaml declares,  *)
(* Nothing if it cannot be read, and whether it has dependencies that      *)
(* rewriting changes.  A state of the upstream is [index, files, provs]:   *)
(* the chart's entries [version, digest, url], newest first, where digest  *)
(* is the tarball whose digest is published, or Nothing, and url tells     *)
(* whether the entry has a usable URL; and what the URLs of each version's *)
(* tarball and .prov file lead to.  Each may be Nothing, for a 404.        *)
(***************************************************************************)
ASSUME HistoryAssumption ==
    /\ History \in Seq(Range(History)) /\ History # << >>
    /\ \A i, j \in DOMAIN History :
          /\ DOMAIN History[i].files = DOMAIN History[j].files
          /\ DOMAIN History[i].provs = DOMAIN History[j].files
    /\ \A i \in DOMAIN History :
          History[i].index # Nothing =>
             /\ History[i].index \in Seq(Range(History[i].index))
             /\ \A e \in Range(History[i].index) :
                   e.version \in DOMAIN History[i].files
\* A tag is the name of a version, known to the upstream or not.
ASSUME RequestsAssumption ==
    \A r \in Requests :
       /\ r = [op |-> r.op, arg |-> r.arg]
       /\ r.op \in {"tag", "manifest", "signature", "blob"}
       /\ r.op = "tag" => r.arg \in UNION {DOMAIN History[i].files :
                                           i \in DOMAIN History}
ASSUME ScanLimitAssumption == ScanLimit \in Nat \ {0}
\* config.go refuses this combination.
ASSUME OptionsAssumption == ~ (Rewrite /\ Provenance)

VARIABLES
    published,  \* how far the upstream has got in its History
    served,     \* the newest revision of the index read so far
    found,      \* the artifact cache
    flight,     \* r.sf: partial function from versions to their flights
    pc, call    \* where each caller is, and what it is doing

vars == <<published, served, found, flight, pc, call>>

Versions == UNION {DOMAIN History[i].files : i \in DOMAIN History}
Tarballs == (UNION {Range(History[i].files) : i \in DOMAIN History}) \ {Nothing}
Provs == (UNION {Range(History[i].provs) : i \in DOMAIN History}) \cup {Nothing}
ASSUME TarballsAssumption ==
    \A t \in Tarballs : t = [id |-> t.id, version |-> t.version, deps |-> t.deps]

\* The tarball that is served: the upstream's own, or its rewritten form,
\* which has no dependency left to rewrite.
Content(t) == IF Rewrite THEN [t EXCEPT !.deps = FALSE] ELSE t

\* oci.Build: a pure function of the chart and the .prov file.
Build(t, p) ==
    [version  |-> t.version,
     manifest |-> <<"manifest", Content(t), p>>,
     config   |-> <<"config", Content(t)>>,
     chart    |-> <<"chart", Content(t)>>,
     prov     |-> IF p = Nothing THEN Nothing ELSE <<"prov", p>>,
     bytes    |-> 1]

Artifacts ==
    {Build(t, p) : t \in {u \in Tarballs : u.version # Nothing}, p \in Provs}

Digests ==
    (UNION {{a.manifest, a.config, a.chart, a.prov} : a \in Artifacts}) \ {Nothing}

Cache ==
    INSTANCE DerivedCache WITH Names <- {Name}, NoProv <- Nothing

Entry(a) == [name |-> Name, art |-> a]
VersionKey(v) == Cache!VersionKey(Name, v)
DigestKey(d) == Cache!DigestKey(Name, d)
Hit(k) == k \in DOMAIN found

\* The blobs of the cosign signature of a manifest.
SignatureBlobs(manifest) == {<<"payload", manifest>>, <<"sigconfig", manifest>>}

Ok(a) == [err |-> "none", art |-> a]
Err(kind) == [err |-> kind, art |-> Nothing]

\* Mutant: scan gives up when a tarball does not match its digest.
SkipNotFoundOnly == {"notFound"}

\* The errors scan passes over: ErrDigestMismatch and ErrNotFound.
Skippable == {"mismatch", "notFound"}

Idle == [req |-> Nothing, since |-> 0, want |-> Nothing, cont |-> Nothing,
         todo |-> << >>, reply |-> Nothing, led |-> 0]

Init ==
    /\ published = 1
    /\ served = 1
    /\ found = [k \in {} |-> k]
    /\ flight = [v \in {} |-> v]
    /\ pc = [c \in Callers |-> "idle"]
    /\ call = [c \in Callers |-> Idle]
-----------------------------------------------------------------------------
(* Reading the index: entries, and through it Client.Index. *)

\* A 404 is the upstream's, at the time of the exchange; of other failures,
\* the end of the flight's leader among them, any exchange may end.
IndexErrors ==
    {e \in {"notFound", "fault"} :
        IF e = "fault" THEN Faults
        ELSE \E rev \in served .. published : History[rev].index = Nothing}

ReadIndex(rev) ==
    /\ rev \in served .. published
    /\ History[rev].index # Nothing
    /\ served' = rev

EntriesAt(rev) ==
    IF History[rev].index = Nothing THEN << >> ELSE History[rev].index

\* FindVersion and FindLayerDigest return the first entry that matches.
First(entries, at) == entries[CHOOSE i \in at : \A j \in at : i <= j]
-----------------------------------------------------------------------------
(* The callers. *)

Goto(c, l) == pc' = [pc EXCEPT ![c] = l]

Done(c, reply) ==
    /\ Goto(c, "done")
    /\ call' = [call EXCEPT ![c].reply = reply]

\* Call ByVersion for the version v, and go on with cont afterwards.
Resolve(c, v, cont, todo) ==
    /\ Goto(c, "resolve")
    /\ call' = [call EXCEPT ![c].want = v, ![c].cont = cont, ![c].todo = todo]

\* handleManifest and handleBlob hand over to ByVersion, ByManifestDigest,
\* Signature or Blob.
Request(c, r) ==
    /\ pc[c] = "idle"
    /\ LET started == [Idle EXCEPT !.req = r, !.since = served]
       IN  IF r.op = "tag"
           THEN /\ Goto(c, "resolve")
                /\ call' = [call EXCEPT ![c] =
                               [started EXCEPT !.want = r.arg, !.cont = "tag"]]
           ELSE IF r.op = "signature" /\ ~Signing
           THEN /\ Goto(c, "done")
                /\ call' = [call EXCEPT ![c] =
                               [started EXCEPT !.reply = Err("versionUnknown")]]
           ELSE /\ Goto(c, "cache")
                /\ call' = [call EXCEPT ![c] = started]
    /\ UNCHANGED <<published, served, found, flight>>

\* Whether an artifact is what a request by digest asks for.
Matches(req, a) ==
    CASE req.op = "blob"     -> req.arg \in Cache!BlobDigests(a)
      [] req.op = "sigblob"  -> req.arg \in SignatureBlobs(a.manifest)
      [] OTHER               -> req.arg = a.manifest

\* The lookup by digest that ByManifestDigest and Blob begin with.
CacheGet(c) ==
    LET req == call[c].req
        k   == DigestKey(req.arg)
    IN  /\ pc[c] = "cache"
        /\ IF Hit(k) /\ Matches(req, found[k].art)
           THEN Done(c, Ok(found[k].art))
           ELSE /\ Goto(c, IF req.op = "blob" THEN "layer" ELSE "scan")
                /\ UNCHANGED call
        /\ UNCHANGED <<published, served, found, flight>>

IndexFails(c) ==
    /\ pc[c] \in {"layer", "scan"}
    /\ \E e \in IndexErrors : Done(c, Err(e))
    /\ UNCHANGED <<published, served, found, flight>>

\* Blob's fast path: the version whose published digest is the one asked for.
FindLayer(c, rev) ==
    LET entries == EntriesAt(rev)
        at == {i \in DOMAIN entries :
                  /\ entries[i].digest # Nothing
                  /\ call[c].req.arg = <<"chart", entries[i].digest>>}
    IN  /\ pc[c] = "layer"
        /\ ReadIndex(rev)
        /\ IF entries = << >> THEN Done(c, Err("chartUnknown"))
           ELSE IF at # {}
           THEN Resolve(c, First(entries, at).version, "layer", << >>)
           ELSE Goto(c, "scan") /\ UNCHANGED call
        /\ UNCHANGED <<published, found, flight>>

\* Mutant: the scan has no bound.
AllCandidates(entries) == [i \in DOMAIN entries |-> entries[i].version]

\* scan: the first ScanLimit versions of the index are the candidates.
Candidates(entries) ==
    [i \in 1 .. (IF Len(entries) < ScanLimit THEN Len(entries) ELSE ScanLimit)
        |-> entries[i].version]

StartScan(c, rev) ==
    LET entries == EntriesAt(rev)
        todo    == Candidates(entries)
    IN  /\ pc[c] = "scan"
        /\ ReadIndex(rev)
        /\ IF entries = << >> THEN Done(c, Err("chartUnknown"))
           ELSE Resolve(c, Head(todo), "scan", Tail(todo))
        /\ UNCHANGED <<published, found, flight>>

\* No candidate is left.  handleBlob then tries the blobs of signatures.
NoMatch(c) ==
    IF call[c].req.op = "blob" /\ Signing
    THEN /\ Goto(c, "scan")
         /\ call' = [call EXCEPT ![c].req.op = "sigblob"]
    ELSE Done(c, Err(IF call[c].req.op \in {"blob", "sigblob"}
                     THEN "blobUnknown" ELSE "versionUnknown"))

\* Mutant: Blob takes the version it finds in the index for the one asked for.
TrustLayer(c) ==
    LET req   == call[c].req
        reply == call[c].reply
        good  == reply.err = "none"
    IN  /\ pc[c] = "resumed"
        /\ IF \/ call[c].cont \in {"tag", "layer"}
              \/ good /\ Matches(req, reply.art)
              \/ ~good /\ reply.err \notin Skippable
           THEN Done(c, reply)
           ELSE IF call[c].todo = << >> THEN NoMatch(c)
           ELSE Resolve(c, Head(call[c].todo), "scan", Tail(call[c].todo))
        /\ UNCHANGED <<published, served, found, flight>>

\* ByVersion has returned.
Resume(c) ==
    LET req   == call[c].req
        reply == call[c].reply
        good  == reply.err = "none"
    IN  /\ pc[c] = "resumed"
        /\ CASE call[c].cont = "tag" -> Done(c, reply)
             [] call[c].cont = "layer" ->
                   IF ~good \/ Matches(req, reply.art) THEN Done(c, reply)
                   ELSE Goto(c, "scan") /\ UNCHANGED call
             [] call[c].cont = "scan" ->
                   IF \/ good /\ Matches(req, reply.art)
                      \/ ~good /\ reply.err \notin Skippable
                   THEN Done(c, reply)
                   ELSE IF call[c].todo = << >> THEN NoMatch(c)
                   ELSE Resolve(c, Head(call[c].todo), "scan",
                                Tail(call[c].todo))
        /\ UNCHANGED <<published, served, found, flight>>

Finish(c) ==
    /\ pc[c] = "done"
    /\ Goto(c, "idle")
    /\ call' = [call EXCEPT ![c] = Idle]
    /\ UNCHANGED <<published, served, found, flight>>
-----------------------------------------------------------------------------
(* ByVersion: a lookup, then the version's flight. *)

Lookup(c) ==
    LET k == VersionKey(call[c].want) IN
    /\ pc[c] = "resolve"
    /\ IF Hit(k)
       THEN /\ Goto(c, "resumed")
            /\ call' = [call EXCEPT ![c].reply = Ok(found[k].art)]
       ELSE Goto(c, "missed") /\ UNCHANGED call
    /\ UNCHANGED <<published, served, found, flight>>

Join(c) ==
    LET v == call[c].want IN
    /\ pc[c] = "missed"
    /\ Goto(c, "waiting")
    /\ IF v \in DOMAIN flight THEN UNCHANGED <<flight, call>>
       ELSE /\ flight' = [w \in DOMAIN flight \cup {v} |->
                            IF w = v
                            THEN [at |-> "cache", entry |-> Nothing,
                                  chart |-> Nothing, prov |-> Nothing]
                            ELSE flight[w]]
            /\ call' = [call EXCEPT ![c].led = @ + 1]
    /\ UNCHANGED <<published, served, found>>

\* Mutant: only one of those who wait for the flight hears of its end.
LandOne(v, reply) ==
    LET waiting == {c \in Callers : pc[c] = "waiting" /\ call[c].want = v}
        one     == CHOOSE c \in waiting : TRUE
    IN  /\ flight' = Restrict(flight, DOMAIN flight \ {v})
        /\ pc' = [pc EXCEPT ![one] = "resumed"]
        /\ call' = [call EXCEPT ![one].reply = reply]

\* The flight of v is over: everyone waiting gets its outcome.
Land(v, reply) ==
    LET waiting == {c \in Callers : pc[c] = "waiting" /\ call[c].want = v} IN
    /\ flight' = Restrict(flight, DOMAIN flight \ {v})
    /\ pc' = [c \in Callers |-> IF c \in waiting THEN "resumed" ELSE pc[c]]
    /\ call' = [c \in Callers |->
                  IF c \in waiting THEN [call[c] EXCEPT !.reply = reply]
                  ELSE call[c]]

Stage(v, at) == v \in DOMAIN flight /\ flight[v].at = at

\* Mutant: the flight does not look at the cache again.
SingleLook(v) ==
    /\ Stage(v, "cache")
    /\ flight' = [flight EXCEPT ![v].at = "index"]
    /\ UNCHANGED <<published, served, found, pc, call>>

\* The second look at the cache, inside the flight.
FlightGet(v) ==
    /\ Stage(v, "cache")
    /\ IF Hit(VersionKey(v))
       THEN Land(v, Ok(found[VersionKey(v)].art))
       ELSE flight' = [flight EXCEPT ![v].at = "index"] /\ UNCHANGED <<pc, call>>
    /\ UNCHANGED <<published, served, found>>

FlightFind(v, rev) ==
    LET entries == EntriesAt(rev)
        at == {i \in DOMAIN entries : entries[i].version = v}
    IN  /\ Stage(v, "index")
        /\ ReadIndex(rev)
        /\ IF entries = << >> THEN Land(v, Err("chartUnknown"))
           ELSE IF at # {}
           THEN /\ flight' = [flight EXCEPT ![v].at = "chart",
                                            ![v].entry = First(entries, at)]
                /\ UNCHANGED <<pc, call>>
           ELSE Land(v, Err("versionUnknown"))
        /\ UNCHANGED <<published, found>>

\* Mutant: a tarball is not checked against the digest of the index.
Unchecked(v) ==
    LET t == History[published].files[v]
    IN  /\ Stage(v, "chart")
        /\ IF ~flight[v].entry.url THEN Land(v, Err("badURL"))
           ELSE IF t = Nothing THEN Land(v, Err("notFound"))
           ELSE /\ flight' = [flight EXCEPT ![v].chart = t, ![v].at =
                                IF Provenance THEN "prov" ELSE "build"]
                /\ UNCHANGED <<pc, call>>
        /\ UNCHANGED <<published, served, found>>

\* Client.Chart: download the tarball and check it against the index.
FlightChart(v) ==
    LET e == flight[v].entry
        t == History[published].files[v]
    IN  /\ Stage(v, "chart")
        /\ IF ~e.url THEN Land(v, Err("badURL"))
           ELSE IF t = Nothing THEN Land(v, Err("notFound"))
           ELSE IF e.digest \notin {Nothing, t} THEN Land(v, Err("mismatch"))
           ELSE /\ flight' = [flight EXCEPT ![v].chart = t, ![v].at =
                                IF Provenance THEN "prov" ELSE "build"]
                /\ UNCHANGED <<pc, call>>
        /\ UNCHANGED <<published, served, found>>

\* Mutant: a missing .prov file becomes a layer without content.
EmptyProv(v) ==
    LET p == History[published].provs[v]
    IN  /\ Stage(v, "prov")
        /\ flight' = [flight EXCEPT ![v].prov = IF p = Nothing THEN "" ELSE p,
                                    ![v].at = "build"]
        /\ UNCHANGED <<published, served, found, pc, call>>

\* Client.Prov, at a later moment of the upstream; a 404 means there is none.
FlightProv(v) ==
    /\ Stage(v, "prov")
    /\ flight' = [flight EXCEPT ![v].prov = History[published].provs[v],
                                ![v].at = "build"]
    /\ UNCHANGED <<published, served, found, pc, call>>

\* An exchange of the flight fails, for everyone in it.
FlightFails(v) ==
    /\ \/ Stage(v, "index") /\ \E e \in IndexErrors : Land(v, Err(e))
       \/ /\ Stage(v, "chart") \/ Stage(v, "prov")
          /\ Faults /\ Land(v, Err("fault"))
    /\ UNCHANGED <<published, served, found>>

\* artifactCache.add: an artifact is filed under the version its Chart.yaml
\* declares, unless that version is cached.
AddToCache(a) ==
    \/ Hit(VersionKey(a.version)) /\ UNCHANGED found
    \/ Cache!File(Entry(a))

FlightBuild(v) ==
    LET t == flight[v].chart
        a == Build(t, flight[v].prov)
    IN  /\ Stage(v, "build")
        /\ IF t.version = Nothing
           THEN Land(v, Err("malformed")) /\ UNCHANGED found
           ELSE AddToCache(a) /\ Land(v, Ok(a))
        /\ UNCHANGED <<published, served>>
-----------------------------------------------------------------------------
(* The world around the resolver. *)

Publish ==
    /\ published < Len(History)
    /\ published' = published + 1
    /\ UNCHANGED <<served, found, flight, pc, call>>

\* A replica crashes and starts afresh, with nothing but its configuration.
Restart ==
    /\ served' = published
    /\ found' = [k \in {} |-> k]
    /\ flight' = [v \in {} |-> v]
    /\ pc' = [c \in Callers |-> "idle"]
    /\ call' = [c \in Callers |-> Idle]
    /\ UNCHANGED published

CallerStep(c) ==
    \/ CacheGet(c) \/ IndexFails(c) \/ Lookup(c) \/ Join(c) \/ Resume(c)
    \/ \E rev \in served .. published : FindLayer(c, rev) \/ StartScan(c, rev)

FlightStep(v) ==
    \/ FlightGet(v) \/ FlightChart(v) \/ FlightProv(v) \/ FlightBuild(v)
    \/ FlightFails(v)
    \/ \E rev \in served .. published : FlightFind(v, rev)

Next ==
    \/ \E c \in Callers : \/ \E r \in Requests : Request(c, r)
                          \/ CallerStep(c) \/ Finish(c)
    \/ \E v \in Versions : FlightStep(v)
    \/ Publish \/ Restart

Spec == Init /\ [][Next]_vars

\* Goroutines that can run do, and every exchange with the upstream ends, if
\* only by its timeout.
Fairness ==
    /\ \A c \in Callers : WF_vars(CallerStep(c))
    /\ \A v \in Versions : WF_vars(FlightStep(v))

FairSpec == Spec /\ Fairness
-----------------------------------------------------------------------------
Replied(c) == pc[c] = "done"
Answered(c) == Replied(c) /\ call[c].reply.err = "none"

Replies ==
    {Ok(a) : a \in Artifacts}
        \cup {Err(e) : e \in {"notFound", "fault", "mismatch", "malformed",
                            "badURL", "chartUnknown", "versionUnknown",
                            "blobUnknown"}}

TypeOK ==
    /\ published \in DOMAIN History /\ served \in 1 .. published
    /\ \A k \in DOMAIN found : found[k].name = Name /\ found[k].art \in Artifacts
    /\ DOMAIN flight \subseteq Versions
    /\ \A v \in DOMAIN flight :
          /\ flight[v].at \in {"cache", "index", "chart", "prov", "build"}
          /\ flight[v].chart \in Tarballs \cup {Nothing}
          /\ flight[v].prov \in Provs
    /\ pc \in [Callers -> {"idle", "cache", "layer", "scan", "resolve", "missed",
                           "waiting", "resumed", "done"}]
    /\ \A c \in Callers :
          /\ call[c].want \in Versions \cup {Nothing}
          /\ call[c].todo \in Seq(Versions)
          /\ call[c].reply \in Replies \cup {Nothing}

\* A caller waits only for a flight that is under way.
NobodyIsStranded ==
    \A c \in Callers : pc[c] = "waiting" => call[c].want \in DOMAIN flight

\* "Concurrent misses for the same version collapse into one upstream
\* download" (resolve.go:99): no flight goes to the upstream for a version
\* that is cached, although callers look at the cache before they join.
NoDownloadWhileCached ==
    \A v \in DOMAIN flight : flight[v].at # "cache" => ~Hit(VersionKey(v))

\* An answer is what was asked for: the version of the tag, or content with
\* the digest, whichever key of the cache or candidate of a scan it came by.
AnswersMatch ==
    \A c \in Callers : Answered(c) =>
        LET req == call[c].req
            a   == call[c].reply.art
        IN  IF req.op = "tag" THEN a.version = req.arg ELSE Matches(req, a)

\* The upstream has published this artifact's tarball, by its digest, or an
\* entry without a digest, under the artifact's version.
WasPublished(a) ==
    \E i \in 1 .. published :
        \E e \in ToSet(EntriesAt(i)) :
            /\ e.version = a.version
            /\ \/ e.digest = Nothing
               \/ e.digest # Nothing /\ a.chart = <<"chart", Content(e.digest)>>

\* "A mutated upstream is surfaced as an error rather than served under a
\* stale identity" (upstream.go:166): whatever the timing of index reads,
\* downloads and publications, only published content is cached or served.
OnlyPublishedIsServed ==
    /\ \A k \in DOMAIN found : WasPublished(found[k].art)
    /\ \A c \in Callers : Answered(c) => WasPublished(call[c].reply.art)

\* "The bound keeps its worst case proportional to scanLimit downloads"
\* (resolve.go:247): the downloads one request leads are one for a tag, those
\* of a scan for a digest, and for a blob those of the fast path and both scans.
WorkIsBounded ==
    \A c \in Callers : pc[c] # "idle" =>
        call[c].led <= CASE call[c].req.op = "tag" -> 1
                         [] call[c].req.op = "blob" -> 1 + ScanLimit
                         [] call[c].req.op = "sigblob" -> 1 + 2 * ScanLimit
                         [] OTHER -> ScanLimit

\* Every request is answered or fails.
EveryRequestEnds ==
    \A c \in Callers : pc[c] # "idle" ~> pc[c] \in {"done", "idle"}
-----------------------------------------------------------------------------
(* What a cold replica answers while the upstream stays as it is. *)

\* An entry from which an artifact can be derived.
Intact(e) ==
    LET t == History[published].files[e.version] IN
    e.url /\ t # Nothing /\ e.digest \in {Nothing, t} /\ t.version # Nothing

Derived(e) ==
    Build(History[published].files[e.version],
          IF Provenance THEN History[published].provs[e.version] ELSE Nothing)

\* The artifacts that answer a request, by its definition.
ColdAnswers(req) ==
    LET entries      == EntriesAt(published)
        IsVersion(e) == e.version = req.arg
        \* A request for the blob of a signature began as one for a blob.
        Wanted(a)    == \/ req.op = "tag" \/ Matches(req, a)
                        \/ req.op = "sigblob"
                              /\ Matches([req EXCEPT !.op = "blob"], a)
        Scanned      == SubSeq(entries, 1, Len(Candidates(entries)))
        Layers       == {e \in ToSet(entries) :
                            e.digest # Nothing /\ req.arg = <<"chart", e.digest>>}
        Eligible     == CASE req.op = "tag" ->
                               {e \in ToSet(entries) : IsVersion(e)}
                          [] req.op = "signature" /\ ~Signing -> {}
                          [] req.op \in {"blob", "sigblob"} ->
                               ToSet(Scanned) \cup Layers
                          [] OTHER -> ToSet(Scanned)
    IN  {a \in {Derived(e) : e \in {x \in Eligible : Intact(x)}} : Wanted(a)}

\* "Correctness never depends on cache state" (README.md:38): a request gets
\* what a cold replica would answer, and fails when a cold one would, however
\* the cache was filled, evicted, restarted and shared before.
AnswersIgnoreCache ==
    \A c \in Callers :
        Replied(c) /\ call[c].reply.err # "fault" =>
            LET cold == ColdAnswers(call[c].req)
            IN  IF Answered(c) THEN call[c].reply.art \in cold ELSE cold = {}

\* The request began when this replica had read the present index, and the
\* upstream, as it still is, has an artifact that answers it.
Derivable(c) == call[c].since = published /\ ColdAnswers(call[c].req) # {}

\* "Any replica resolves any reference - the cache only decides how much
\* upstream work that takes" (resolve.go:28): what can be derived is served,
\* also by a replica that has an earlier content of a version cached.
AnyReplicaAnswers ==
    \A c \in Callers :
        Replied(c) /\ call[c].reply.err # "fault" /\ Derivable(c) => Answered(c)

\* "Aborting would let one defective upstream version poison lookups for
\* healthy ones" (resolve.go:257): a defect of one version fails no lookup by
\* digest that another version answers.
DefectsAreContained ==
    \A c \in Callers :
        call[c].reply \in {Err("malformed"), Err("badURL")} => ~Derivable(c)
=============================================================================
