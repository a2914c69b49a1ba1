----------------------------- MODULE IndexClient -----------------------------
(***************************************************************************)
(* Client.Index of internal/upstream/upstream.go: a cache of upstream      *)
(* index.yaml files with a TTL, one flight per repository for concurrent   *)
(* misses (singleflight), stale answers when a re-fetch fails, and a cap   *)
(* on the number of repositories cached.                                   *)
(*                                                                         *)
(* A step is one critical section, or one event at a caller's side of a    *)
(* flight; calls interleave at every point between them.  An index is      *)
(* represented by its revision, the number of times the upstream had       *)
(* changed it.  Time is kept as ages that Tick advances, each capped at    *)
(* the first value past which nothing distinguishes it.                    *)
(***************************************************************************)
EXTENDS Integers, FiniteSetsExt, Functions

CONSTANTS
    Callers,              \* concurrent requests that need an index
    Repos,                \* upstream repositories
    AllowedRepos,         \* those whose host the allowlist names; empty: any
    NoRepo,               \* what an idle caller asks for
    IndexTTL, IndexStaleTTL, Timeout,
    maxIndexCacheEntries, \* 128 in the code
    MaxRev                \* bound: how often an upstream publishes

\* config.go: IndexTTL must be positive, IndexStaleTTL may be 0 (disabled).
ASSUME TimesAssumption ==
    /\ IndexTTL \in Nat \ {0}
    /\ IndexStaleTTL \in Nat
    /\ Timeout \in Nat \ {0}

ASSUME SizesAssumption ==
    /\ AllowedRepos \subseteq Repos /\ NoRepo \notin Repos
    /\ maxIndexCacheEntries \in Nat \ {0}
    /\ MaxRev \in Nat

VARIABLES
    published,  \* the upstream: the newest revision of each index
    superseded, \* [repo -> [revision -> age of the revision after it]]
    cache,      \* c.cache: partial function, repo -> [rev, age]
    flight,     \* c.sf: partial function, repo -> [leader, age, answer]
    pc,         \* where each caller is in Index
    asked,      \* the repository it asked for
    result,     \* what sf.Do returned to it, then what Index returns
    left,       \* whether its client has gone away (its context cancelled)
    served,     \* history: the newest revision any caller was given
    floor       \* history: served, when the caller's call began

vars == <<published, superseded, cache, flight, pc, asked, result, left,
          served, floor>>

upstream == <<published, superseded>>

maxAge == IF IndexTTL > IndexStaleTTL THEN IndexTTL ELSE IndexStaleTTL

\* No answer may lag behind the upstream by more.
MaxLag == maxAge + Timeout

\* Results: an index, or one of the errors the code tells apart.  "fault"
\* stands for a network error, a status other than 200, 404 and 410, a
\* redirect off HTTPS, an oversize body and one that does not parse.
Index(rev) == [kind |-> "index", rev |-> rev]
Error(kind) == [kind |-> kind, rev |-> -1]
Pending == Error("pending")

Errors == {"pending", "notFound", "fault", "canceled", "timeout", "denied"}
Results == {Index(rev) : rev \in 0 .. MaxRev} \cup {Error(k) : k \in Errors}

Older(age, cap) == IF age < cap THEN age + 1 ELSE cap

\* Mutant: an entry is fresh for one tick too long.
FreshTooLong(r) == r \in DOMAIN cache /\ cache[r].age <= IndexTTL

Fresh(r) == r \in DOMAIN cache /\ cache[r].age < IndexTTL

hostAllowed(r) == AllowedRepos = {} \/ r \in AllowedRepos

Waiters(r) == {c \in Callers : pc[c] = "waiting" /\ asked[c] = r}

Init ==
    /\ published = [r \in Repos |-> 0]
    /\ superseded = [r \in Repos |-> [rev \in 0 .. MaxRev |-> 0]]
    /\ cache = [r \in {} |-> 0]
    /\ flight = [r \in {} |-> 0]
    /\ pc = [c \in Callers |-> "idle"]
    /\ asked = [c \in Callers |-> NoRepo]
    /\ result = [c \in Callers |-> Pending]
    /\ left = [c \in Callers |-> FALSE]
    /\ served = [r \in Repos |-> 0]
    /\ floor = [c \in Callers |-> 0]

-----------------------------------------------------------------------------
(* A call of Index. *)

Call(c, r) ==
    /\ pc[c] = "idle"
    /\ asked' = [asked EXCEPT ![c] = r]
    /\ floor' = [floor EXCEPT ![c] = served[r]]
    /\ pc' = [pc EXCEPT ![c] = "called"]
    /\ UNCHANGED <<upstream, cache, flight, result, left, served>>

\* The callers of one repository return its index at this revision.
Return(cs, r, rev) ==
    /\ pc' = [c \in Callers |-> IF c \in cs THEN "done" ELSE pc[c]]
    /\ result' = [c \in Callers |-> IF c \in cs THEN Index(rev) ELSE result[c]]
    /\ served' = [served EXCEPT ![r] = IF rev > @ THEN rev ELSE @]

\* The allowlist, then the cache, read in one critical section.
Lookup(c) ==
    LET r == asked[c] IN
    /\ pc[c] = "called"
    /\ \/ /\ ~hostAllowed(r)
          /\ pc' = [pc EXCEPT ![c] = "done"]
          /\ result' = [result EXCEPT ![c] = Error("denied")]
          /\ UNCHANGED served
       \/ /\ hostAllowed(r) /\ Fresh(r)
          /\ Return({c}, r, cache[r].rev)
       \/ /\ hostAllowed(r) /\ ~Fresh(r)
          /\ pc' = [pc EXCEPT ![c] = "missed"]
          /\ UNCHANGED <<result, served>>
    /\ UNCHANGED <<upstream, cache, flight, asked, left, floor>>

\* sf.Do: wait for the repository's flight, or lead a new one.  The cache is
\* not looked at again.
Join(c) ==
    LET r == asked[c] IN
    /\ pc[c] = "missed"
    /\ pc' = [pc EXCEPT ![c] = "waiting"]
    /\ flight' = IF r \in DOMAIN flight THEN flight
                 ELSE [q \in DOMAIN flight \cup {r} |->
                         IF q = r
                         THEN [leader |-> c, age |-> 0, answer |-> Pending]
                         ELSE flight[q]]
    /\ UNCHANGED <<upstream, cache, asked, result, left, served, floor>>

\* newTransport: whatever address the host resolves to when it is dialled, for
\* the request or for a redirect, the dialer refuses it unless it is public.
Dialled == Error("denied")

\* The upstream answers the request of a flight, or is not reached; the answer
\* travels.  Redirects are followed until then, without a limit of their own.
Respond(r) ==
    /\ r \in DOMAIN flight /\ flight[r].answer = Pending
    /\ \E a \in {Index(published[r]), Error("notFound"), Error("fault"),
                 Dialled} :
          flight' = [flight EXCEPT ![r].answer = a]
    /\ UNCHANGED <<upstream, cache, pc, asked, result, left, served, floor>>

\* Mutants: the cap is off by one; a full map is emptied.
KeptOneTooMany ==
    IF Cardinality(DOMAIN cache) <= maxIndexCacheEntries THEN {DOMAIN cache}
    ELSE {keep \in SUBSET DOMAIN cache :
             Cardinality(keep) = maxIndexCacheEntries}

KeptNothing ==
    IF Cardinality(DOMAIN cache) < maxIndexCacheEntries THEN {DOMAIN cache}
    ELSE {{}}

\* What store keeps of the map: everything below the cap; otherwise what is
\* not past both TTLs, down to one below the cap, in the map's random order.
Kept ==
    IF Cardinality(DOMAIN cache) < maxIndexCacheEntries THEN {DOMAIN cache}
    ELSE LET young == {q \in DOMAIN cache : cache[q].age <= maxAge}
             room  == maxIndexCacheEntries - 1
         IN  {keep \in SUBSET young :
                 Cardinality(keep) = IF Cardinality(young) < room
                                     THEN Cardinality(young) ELSE room}

\* Mutant: an entry that is there is not replaced.
storeOnce(r, rev) ==
    \E keep \in Kept :
        cache' = IF r \in DOMAIN cache THEN cache
                 ELSE [q \in keep \cup {r} |->
                         IF q = r THEN [rev |-> rev, age |-> 0] ELSE cache[q]]

store(r, rev) ==
    \E keep \in Kept :
        cache' = [q \in keep \cup {r} |->
                    IF q = r THEN [rev |-> rev, age |-> 0] ELSE cache[q]]

\* Mutant: only the leader hears of an error.
FailLeader(r, kind) ==
    /\ pc' = [pc EXCEPT ![flight[r].leader] = "failed"]
    /\ result' = [result EXCEPT ![flight[r].leader] = Error(kind)]
    /\ flight' = Restrict(flight, DOMAIN flight \ {r})
    /\ UNCHANGED <<upstream, cache, asked, left, served, floor>>

\* The flight lands with an error, the same for every caller in it.
Fail(r, kind) ==
    /\ pc' = [c \in Callers |-> IF c \in Waiters(r) THEN "failed" ELSE pc[c]]
    /\ result' = [c \in Callers |->
                    IF c \in Waiters(r) THEN Error(kind) ELSE result[c]]
    /\ flight' = Restrict(flight, DOMAIN flight \ {r})
    /\ UNCHANGED <<upstream, cache, asked, left, served, floor>>

\* Mutants: an error is stored as if it were an index, or as one that has
\* nothing in it.
LandAs(r, rev) ==
    /\ r \in DOMAIN flight /\ flight[r].answer # Pending
    /\ store(r, rev)
    /\ Return(Waiters(r), r, rev)
    /\ flight' = Restrict(flight, DOMAIN flight \ {r})
    /\ UNCHANGED <<upstream, asked, left, floor>>

LandUnparsed(r) == r \in DOMAIN flight /\ LandAs(r, flight[r].answer.rev)

LandBlank(r) ==
    /\ r \in DOMAIN flight
    /\ LandAs(r, IF flight[r].answer.kind = "index"
                 THEN flight[r].answer.rev ELSE 0)

\* The answer arrives: an index is stored and returned to everyone waiting.
Land(r) ==
    /\ r \in DOMAIN flight
    /\ flight[r].answer # Pending
    /\ \/ /\ flight[r].answer.kind # "index"
          /\ Fail(r, flight[r].answer.kind)
       \/ /\ flight[r].answer.kind = "index"
          /\ store(r, flight[r].answer.rev)
          /\ Return(Waiters(r), r, flight[r].answer.rev)
          /\ flight' = Restrict(flight, DOMAIN flight \ {r})
          /\ UNCHANGED <<upstream, asked, left, floor>>

\* http.Client.Timeout ends the exchange.
Expire(r) ==
    /\ r \in DOMAIN flight /\ flight[r].age = Timeout
    /\ Fail(r, "timeout")

\* The flight runs under its leader's context: when the leader's client goes
\* away, everyone's fetch is cancelled.
Cancel(r) ==
    /\ r \in DOMAIN flight /\ left[flight[r].leader]
    /\ Fail(r, "canceled")

\* Mutant: the refusal of an address is masked like any other failure.
FallbackUnlessGone(c) ==
    LET r     == asked[c]
        stale == r \in DOMAIN cache /\ cache[r].age <= IndexStaleTTL
    IN  /\ pc[c] = "failed"
        /\ IF IndexStaleTTL > 0 /\ stale /\ result[c].kind # "notFound"
           THEN Return({c}, r, cache[r].rev)
           ELSE /\ pc' = [pc EXCEPT ![c] = "done"]
                /\ UNCHANGED <<result, served>>
        /\ UNCHANGED <<upstream, cache, flight, asked, left, floor>>

\* "Authoritative answers are never masked" (upstream.go:145).
Authoritative == {"notFound", "denied"}

\* staleFor.
Fallback(c) ==
    LET r == asked[c] IN
    /\ pc[c] = "failed"
    /\ \/ /\ \/ IndexStaleTTL = 0
             \/ result[c].kind \in Authoritative
             \/ r \notin DOMAIN cache
             \/ r \in DOMAIN cache /\ cache[r].age > IndexStaleTTL
          /\ pc' = [pc EXCEPT ![c] = "done"]
          /\ UNCHANGED <<result, served>>
       \/ /\ IndexStaleTTL > 0
          /\ result[c].kind \notin Authoritative
          /\ r \in DOMAIN cache /\ cache[r].age <= IndexStaleTTL
          /\ Return({c}, r, cache[r].rev)
    /\ UNCHANGED <<upstream, cache, flight, asked, left, floor>>

-----------------------------------------------------------------------------
(* The world around the calls. *)

\* The client of a call goes away; the call itself goes on.
Leave(c) ==
    /\ pc[c] \notin {"idle", "done"} /\ ~left[c]
    /\ left' = [left EXCEPT ![c] = TRUE]
    /\ UNCHANGED <<upstream, cache, flight, pc, asked, result, served, floor>>

\* The caller has its answer, and may call again.
Finish(c) ==
    /\ pc[c] = "done"
    /\ pc' = [pc EXCEPT ![c] = "idle"]
    /\ result' = [result EXCEPT ![c] = Pending]
    /\ left' = [left EXCEPT ![c] = FALSE]
    /\ asked' = [asked EXCEPT ![c] = NoRepo]
    /\ floor' = [floor EXCEPT ![c] = 0]
    /\ UNCHANGED <<upstream, cache, flight, served>>

Publish(r) ==
    /\ published[r] < MaxRev
    /\ published' = [published EXCEPT ![r] = @ + 1]
    /\ UNCHANGED <<superseded, cache, flight, pc, asked, result, left, served,
                   floor>>

\* Time passes, though not for an exchange that has reached its timeout.
Tick ==
    /\ \A r \in DOMAIN flight : flight[r].age < Timeout
    /\ flight' = [r \in DOMAIN flight |-> [flight[r] EXCEPT !.age = @ + 1]]
    /\ cache' = [r \in DOMAIN cache |->
                   [cache[r] EXCEPT !.age = Older(@, maxAge + 1)]]
    /\ superseded' = [r \in Repos |-> [rev \in 0 .. MaxRev |->
                        IF rev < published[r]
                        THEN Older(superseded[r][rev], MaxLag + 1) ELSE 0]]
    /\ UNCHANGED <<published, pc, asked, result, left, served, floor>>

Next ==
    \/ \E c \in Callers :
          \/ \E r \in Repos : Call(c, r)
          \/ Lookup(c) \/ Join(c) \/ Fallback(c) \/ Leave(c) \/ Finish(c)
    \/ \E r \in Repos :
          Respond(r) \/ Land(r) \/ Expire(r) \/ Cancel(r) \/ Publish(r)
    \/ Tick

Spec == Init /\ [][Next]_vars

\* Every goroutine that can run does, time passes and the HTTP client keeps
\* its timeout.  The upstream owes no answer and a client may stay or go.
Fairness ==
    /\ \A c \in Callers : WF_vars(Lookup(c) \/ Join(c) \/ Fallback(c))
    /\ \A r \in Repos : WF_vars(Land(r) \/ Expire(r))
    /\ WF_vars(Tick)

FairSpec == Spec /\ Fairness
-----------------------------------------------------------------------------
TypeOK ==
    /\ published \in [Repos -> 0 .. MaxRev]
    /\ superseded \in [Repos -> [0 .. MaxRev -> 0 .. MaxLag + 1]]
    /\ DOMAIN cache \subseteq Repos
    /\ \A r \in DOMAIN cache :
          cache[r] \in [rev : 0 .. MaxRev, age : 0 .. maxAge + 1]
    /\ DOMAIN flight \subseteq Repos
    /\ \A r \in DOMAIN flight :
          flight[r] \in [leader : Callers, age : 0 .. Timeout,
                         answer : Results]
    /\ pc \in [Callers -> {"idle", "called", "missed", "waiting", "failed",
                           "done"}]
    /\ asked \in [Callers -> Repos \cup {NoRepo}]
    /\ result \in [Callers -> Results]
    /\ left \in [Callers -> BOOLEAN]
    /\ served \in [Repos -> 0 .. MaxRev]
    /\ floor \in [Callers -> 0 .. MaxRev]

\* The cache never holds more repositories than its cap.
CacheBounded == Cardinality(DOMAIN cache) <= maxIndexCacheEntries

\* A stored index pushes out at most one entry that an upstream outage could
\* still need, and only when the map is at its cap: until then an entry stays.
YoungSurviveBelowTheCap ==
    [][LET gone == {r \in DOMAIN cache \ DOMAIN cache' : cache[r].age <= maxAge}
       IN  /\ Cardinality(gone) <= 1
           /\ gone # {} => Cardinality(DOMAIN cache) = maxIndexCacheEntries]_vars

\* A caller waits only for a flight that exists: nobody joins a flight that
\* has already landed, and none lands without telling everyone in it.
NobodyIsStranded ==
    \A c \in Callers : pc[c] = "waiting" => asked[c] \in DOMAIN flight

\* The cache never moves backward: what a flight brings is at least as new
\* as what the cache holds, whatever was evicted and re-fetched in between.
CacheMovesForward ==
    [][\A r \in DOMAIN cache \cap DOMAIN cache' :
          cache'[r].rev >= cache[r].rev]_vars

\* The TTLs and the timeout bound how far an answer lags behind the upstream.
\* A hit lags by less than IndexTTL and one exchange, the answer of a flight by
\* no more than its exchange, and only a call whose fetch failed may be given
\* an index that lags by as much as IndexStaleTTL and one exchange.
AnswersAreRecent ==
    [][\A c \in Callers :
          pc[c] # "done" /\ pc'[c] = "done" /\ result'[c].kind = "index" =>
             LET lag == superseded[asked[c]][result'[c].rev]
             IN  CASE pc[c] = "called"  -> lag < IndexTTL + Timeout
                   [] pc[c] = "waiting" -> lag <= Timeout
                   [] pc[c] = "failed"  -> lag <= IndexStaleTTL + Timeout]_vars

\* A 404 and the refusal of an address are the answer of every call that was
\* in the flight, however good a stale entry there is: "a 404 means the repo is
\* gone and an allowlist rejection is policy" (upstream.go:146).
AuthorityIsFinal ==
    [][\A c \in Callers :
          pc[c] = "failed" /\ result[c].kind \in {"notFound", "denied"} =>
             result'[c] \in {result[c], Pending}]_vars

\* Seen from the callers, the index is a register that only moves forward.
Register ==
    INSTANCE IndexRegister WITH
        status <- [c \in Callers |-> CASE pc[c] = "idle" -> "idle"
                                       [] pc[c] = "done" -> "done"
                                       [] OTHER -> "calling"],
        given  <- [c \in Callers |-> result[c].rev]
ReadsLikeARegister == Register!Spec

\* Every call is answered, although the upstream may never answer.
EveryCallReturns ==
    \A c \in Callers : pc[c] = "called" ~> pc[c] = "done"

\* "504 is the closest honest answer for the latter and harmless for the
\* former" (errors.go:49): a cancellation is reported only to the client that
\* went away.
CancellationIsHarmless ==
    \A c \in Callers :
        pc[c] = "done" /\ result[c].kind = "canceled" => left[c]
=============================================================================
