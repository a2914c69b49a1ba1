--------------------------- MODULE IndexClientProofs ---------------------------
(***************************************************************************)
(* The safety properties of IndexClient, for any callers, repositories,    *)
(* TTLs, timeout and cap, and that it implements IndexRegister.            *)
(***************************************************************************)
EXTENDS IndexClient, FiniteSetTheorems, TLAPS

\* Where a call is, and what it has been told: nothing before it is done.
CallInv(c) ==
    /\ pc[c] # "idle" => asked[c] \in Repos /\ floor[c] <= served[asked[c]]
    /\ pc[c] # "done" => result[c].rev = -1
    /\ pc[c] = "waiting" => asked[c] \in DOMAIN flight
CallsInv == \A c \in Callers : CallInv(c)

Brings(r) == r \in DOMAIN flight /\ flight[r].answer.kind = "index"

\* What callers were given is no newer than what the cache holds, that is no
\* newer than what a flight brings, and that no newer than what is published.
RevisionInv(r) ==
    /\ served[r] <= published[r]
    /\ r \in DOMAIN cache =>
          served[r] <= cache[r].rev /\ cache[r].rev <= published[r]
    /\ Brings(r) =>
          /\ served[r] <= flight[r].answer.rev
          /\ flight[r].answer.rev <= published[r]
          /\ r \in DOMAIN cache => cache[r].rev <= flight[r].answer.rev
RevisionsInv == \A r \in Repos : RevisionInv(r)

\* A revision lags by no more than the age of the entry, or of the exchange,
\* that brings it, and for an entry the exchange that brought it.
AgeInv(r) ==
    /\ \A rev \in published[r] .. MaxRev : superseded[r][rev] = 0
    /\ r \in DOMAIN cache =>
          superseded[r][cache[r].rev] <= cache[r].age + Timeout
    /\ Brings(r) => superseded[r][flight[r].answer.rev] <= flight[r].age
AgesInv == \A r \in Repos : AgeInv(r)

BoundInv == IsFiniteSet(DOMAIN cache) /\ CacheBounded

IndexInv == TypeOK /\ CallsInv /\ RevisionsInv /\ AgesInv /\ BoundInv

CallStep(c) ==
    (\E r \in Repos : Call(c, r)) \/ Lookup(c) \/ Join(c) \/ Fallback(c)
       \/ Leave(c) \/ Finish(c)
RepoStep(r) == Respond(r) \/ Land(r) \/ Expire(r) \/ Cancel(r) \/ Publish(r)
-----------------------------------------------------------------------------
LEMMA Times ==
    /\ maxAge \in Nat /\ MaxLag \in Nat /\ Timeout \in Nat /\ IndexTTL \in Nat
    /\ IndexStaleTTL \in Nat /\ IndexTTL <= maxAge /\ IndexStaleTTL <= maxAge
    /\ MaxLag = maxAge + Timeout
BY TimesAssumption DEF maxAge, MaxLag

LEMMA Older1 ==
    ASSUME NEW cap \in Nat, NEW age \in 0 .. cap
    PROVE  /\ Older(age, cap) \in 0 .. cap
           /\ Older(age, cap) = age + 1 \/ (age = cap /\ Older(age, cap) = cap)
BY DEF Older

LEMMA ResultKinds ==
    /\ \A rev \in 0 .. MaxRev :
          /\ Index(rev) \in Results
          /\ Index(rev).kind = "index" /\ Index(rev).rev = rev
    /\ \A kind \in Errors :
          /\ Error(kind) \in Results /\ Error(kind).kind = kind
          /\ Error(kind).rev = -1 /\ Error(kind).kind # "index"
    /\ \A a \in Results :
          \/ a.kind = "index" /\ a.rev \in 0 .. MaxRev /\ a = Index(a.rev)
          \/ a.kind \in Errors /\ a.rev = -1 /\ a = Error(a.kind)
             /\ a.kind # "index"
BY DEF Results, Index, Error, Errors

\* A stored index joins the entries that store keeps, which stay as they are.
LEMMA StoreEffect ==
    ASSUME NEW r, NEW rev, store(r, rev)
    PROVE  \E keep \in Kept :
              /\ keep \subseteq DOMAIN cache
              /\ DOMAIN cache' = keep \cup {r}
              /\ cache'[r] = [rev |-> rev, age |-> 0]
              /\ \A q \in keep \ {r} : cache'[q] = cache[q]
<1>1. PICK keep \in Kept :
         cache' = [q \in keep \cup {r} |->
                     IF q = r THEN [rev |-> rev, age |-> 0] ELSE cache[q]]
  BY DEF store
<1>2. keep \subseteq DOMAIN cache
  BY DEF Kept
<1> QED BY <1>1, <1>2

\* The end of a flight leaves the others as they are.
LEMMA RestrictEffect ==
    ASSUME NEW r, flight' = Restrict(flight, DOMAIN flight \ {r})
    PROVE  /\ DOMAIN flight' = DOMAIN flight \ {r}
           /\ \A q \in DOMAIN flight' : flight'[q] = flight[q]
BY DEF Restrict

\* A flight lands with an index, or with an error that everyone in it gets.
Lands(r) ==
    /\ store(r, flight[r].answer.rev)
    /\ Return(Waiters(r), r, flight[r].answer.rev)
    /\ flight' = Restrict(flight, DOMAIN flight \ {r})
    /\ UNCHANGED <<upstream, asked, left, floor>>

LEMMA RepoSteps ==
    ASSUME TypeOK, NEW r \in Repos, RepoStep(r)
    PROVE  \/ Respond(r)
           \/ /\ r \in DOMAIN flight /\ flight[r].answer.kind = "index"
              /\ Lands(r)
           \/ r \in DOMAIN flight /\ \E kind \in Errors : Fail(r, kind)
           \/ Publish(r)
<1>1. CASE Respond(r) \/ Publish(r)
  BY <1>1
<1>2. CASE Expire(r) \/ Cancel(r)
  BY <1>2 DEF Expire, Cancel, Errors
<1>3. CASE Land(r)
  <2>1. r \in DOMAIN flight /\ flight[r].answer \in Results
    BY <1>3 DEF Land, TypeOK
  <2> QED BY <1>3, <2>1, ResultKinds DEF Land, Lands
<1> QED BY <1>1, <1>2, <1>3 DEF RepoStep

\* Time makes every age greater, up to its cap, and changes nothing else.
LEMMA TickEffect ==
    ASSUME TypeOK, Tick
    PROVE  /\ DOMAIN flight' = DOMAIN flight
           /\ \A r \in DOMAIN flight :
                 /\ flight[r].age + 1 \in 0 .. Timeout
                 /\ flight'[r] = [leader |-> flight[r].leader,
                                  age |-> flight[r].age + 1,
                                  answer |-> flight[r].answer]
           /\ DOMAIN cache' = DOMAIN cache
           /\ \A r \in DOMAIN cache :
                 /\ Older(cache[r].age, maxAge + 1) \in 0 .. maxAge + 1
                 /\ cache'[r] = [rev |-> cache[r].rev,
                                 age |-> Older(cache[r].age, maxAge + 1)]
           /\ superseded' \in [Repos -> [0 .. MaxRev -> 0 .. MaxLag + 1]]
           /\ \A r \in Repos, rev \in 0 .. MaxRev :
                 superseded'[r][rev] =
                    IF rev < published[r]
                    THEN Older(superseded[r][rev], MaxLag + 1) ELSE 0
           /\ UNCHANGED <<published, pc, asked, result, left, served, floor>>
<1>1. ASSUME NEW r \in DOMAIN flight
      PROVE  /\ flight[r].age + 1 \in 0 .. Timeout
             /\ flight'[r] = [leader |-> flight[r].leader,
                              age |-> flight[r].age + 1,
                              answer |-> flight[r].answer]
  <2>1. flight[r] \in [leader : Callers, age : 0 .. Timeout, answer : Results]
    BY DEF TypeOK
  <2>2. flight[r].age < Timeout
    BY DEF Tick
  <2>3. flight'[r] = [flight[r] EXCEPT !.age = @ + 1]
    BY DEF Tick
  <2> QED BY <2>1, <2>2, <2>3, Times
<1>2. ASSUME NEW r \in DOMAIN cache
      PROVE  /\ Older(cache[r].age, maxAge + 1) \in 0 .. maxAge + 1
             /\ cache'[r] = [rev |-> cache[r].rev,
                             age |-> Older(cache[r].age, maxAge + 1)]
  <2>1. cache[r] \in [rev : 0 .. MaxRev, age : 0 .. maxAge + 1]
    BY DEF TypeOK
  <2>2. Older(cache[r].age, maxAge + 1) \in 0 .. maxAge + 1
    <3>1. maxAge + 1 \in Nat
      BY Times
    <3> QED BY <2>1, <3>1, Older1
  <2>3. cache'[r] = [cache[r] EXCEPT !.age = Older(@, maxAge + 1)]
    BY DEF Tick
  <2> QED BY <2>1, <2>2, <2>3
<1>3. ASSUME NEW r \in Repos, NEW rev \in 0 .. MaxRev
      PROVE  Older(superseded[r][rev], MaxLag + 1) \in 0 .. MaxLag + 1
  <2>1. superseded \in [Repos -> [0 .. MaxRev -> 0 .. MaxLag + 1]]
    BY DEF TypeOK
  <2>2. superseded[r][rev] \in 0 .. MaxLag + 1
    BY <2>1
  <2>3. MaxLag + 1 \in Nat
    BY Times
  <2> QED BY <2>2, <2>3, Older1
<1>4. superseded' = [r \in Repos |-> [rev \in 0 .. MaxRev |->
                        IF rev < published[r]
                        THEN Older(superseded[r][rev], MaxLag + 1) ELSE 0]]
  BY DEF Tick
<1>5. superseded' \in [Repos -> [0 .. MaxRev -> 0 .. MaxLag + 1]]
  BY <1>3, <1>4, Times
<1>6. \A r \in Repos, rev \in 0 .. MaxRev :
         superseded'[r][rev] =
            IF rev < published[r]
            THEN Older(superseded[r][rev], MaxLag + 1) ELSE 0
  BY <1>4
<1> QED BY <1>1, <1>2, <1>5, <1>6 DEF Tick

LEMMA TypeInit == Init => TypeOK
<1>1. Pending \in Results
  BY ResultKinds DEF Pending, Errors
<1> QED BY <1>1, Times, SizesAssumption DEF Init, TypeOK

LEMMA TypeStep == TypeOK /\ CallsInv /\ [Next]_vars => TypeOK'
<1> SUFFICES ASSUME TypeOK, CallsInv, [Next]_vars PROVE TypeOK'
  OBVIOUS
<1> USE DEF TypeOK
<1>0. MaxRev \in Nat /\ Pending \in Results
  BY SizesAssumption, ResultKinds DEF Pending, Errors
<1>1. ASSUME NEW cs, NEW r \in Repos, NEW rev \in 0 .. MaxRev, Return(cs, r, rev)
      PROVE  /\ result' \in [Callers -> Results]
             /\ pc' \in [Callers -> {"idle", "called", "missed", "waiting",
                                     "failed", "done"}]
             /\ served' \in [Repos -> 0 .. MaxRev]
  <2>1. Index(rev) \in Results
    BY ResultKinds
  <2> QED BY <1>1, <2>1 DEF Return
<1>2. ASSUME NEW c \in Callers, CallStep(c) PROVE TypeOK'
  <2>1. ASSUME NEW r \in Repos, Call(c, r) PROVE TypeOK'
    BY <2>1, <1>0 DEF Call, upstream
  <2>2. CASE Lookup(c)
    <3>1. asked[c] \in Repos
      BY <2>2 DEF Lookup, CallsInv, CallInv
    <3>2. Error("denied") \in Results
      BY ResultKinds DEF Errors
    <3>3. CASE Fresh(asked[c]) /\ Return({c}, asked[c], cache[asked[c]].rev)
      <4>1. cache[asked[c]].rev \in 0 .. MaxRev
        BY <3>3 DEF Fresh
      <4> QED BY <2>2, <3>1, <3>3, <4>1, <1>1 DEF Lookup, upstream
    <3>4. CASE UNCHANGED <<result, served>> /\ pc' = [pc EXCEPT ![c] = "missed"]
      BY <2>2, <3>4 DEF Lookup, upstream
    <3>5. CASE /\ pc' = [pc EXCEPT ![c] = "done"]
               /\ result' = [result EXCEPT ![c] = Error("denied")]
               /\ UNCHANGED served
      BY <2>2, <3>2, <3>5 DEF Lookup, upstream
    <3> QED BY <2>2, <3>3, <3>4, <3>5 DEF Lookup
  <2>3. CASE Join(c)
    <3>1. asked[c] \in Repos
      BY <2>3 DEF Join, CallsInv, CallInv
    <3>2. /\ DOMAIN flight' \subseteq Repos
          /\ \A r \in DOMAIN flight' :
                flight'[r] \in [leader : Callers, age : 0 .. Timeout,
                                answer : Results]
      <4> DEFINE new == [leader |-> c, age |-> 0, answer |-> Pending]
      <4>1. new \in [leader : Callers, age : 0 .. Timeout, answer : Results]
        BY <1>0, Times
      <4>2. CASE asked[c] \in DOMAIN flight
        BY <2>3, <4>2 DEF Join
      <4>3. CASE asked[c] \notin DOMAIN flight
        <5>1. flight' = [q \in DOMAIN flight \cup {asked[c]} |->
                           IF q = asked[c] THEN new ELSE flight[q]]
          BY <2>3, <4>3 DEF Join
        <5> HIDE DEF new
        <5> QED BY <3>1, <4>1, <5>1
      <4> QED BY <4>2, <4>3
    <3> HIDE DEF TypeOK
    <3>3. pc' = [pc EXCEPT ![c] = "waiting"]
      BY <2>3 DEF Join
    <3>4. UNCHANGED <<published, superseded, cache, asked, result, left,
                      served, floor>>
      BY <2>3 DEF Join, upstream
    <3>5. maxAge' = maxAge
      BY DEF maxAge
    <3> QED BY <3>2, <3>3, <3>4, <3>5 DEF TypeOK
  <2>4. CASE Fallback(c)
    <3>1. asked[c] \in Repos
      BY <2>4 DEF Fallback, CallsInv, CallInv
    <3>2. CASE /\ asked[c] \in DOMAIN cache
               /\ Return({c}, asked[c], cache[asked[c]].rev)
      BY <2>4, <3>1, <3>2, <1>1 DEF Fallback, upstream
    <3>3. CASE UNCHANGED <<result, served>> /\ pc' = [pc EXCEPT ![c] = "done"]
      BY <2>4, <3>3 DEF Fallback, upstream
    <3> QED BY <2>4, <3>2, <3>3 DEF Fallback
  <2>5. CASE Leave(c)
    BY <2>5 DEF Leave, upstream
  <2>6. CASE Finish(c)
    BY <2>6, <1>0 DEF Finish, upstream
  <2> QED BY <1>2, <2>1, <2>2, <2>3, <2>4, <2>5, <2>6 DEF CallStep
<1>3. ASSUME NEW r \in Repos, RepoStep(r) PROVE TypeOK'
  <2>1. CASE Respond(r)
    <3>1. {Index(published[r]), Error("notFound"), Error("fault"), Dialled}
             \subseteq Results
      BY ResultKinds DEF Errors, Dialled
    <3>2. PICK a \in Results : flight' = [flight EXCEPT ![r].answer = a]
      BY <2>1, <3>1 DEF Respond
    <3>3. flight[r] \in [leader : Callers, age : 0 .. Timeout,
                         answer : Results]
      BY <2>1 DEF Respond
    <3>4. flight'[r] \in [leader : Callers, age : 0 .. Timeout,
                          answer : Results]
      BY <3>2, <3>3, <2>1 DEF Respond
    <3>5. /\ DOMAIN flight' \subseteq Repos
          /\ \A q \in DOMAIN flight' :
                flight'[q] \in [leader : Callers, age : 0 .. Timeout,
                                answer : Results]
      BY <3>2, <3>4, <2>1 DEF Respond
    <3> QED BY <2>1, <3>5 DEF Respond, upstream
  <2>2. CASE Publish(r)
    <3>1. published' \in [Repos -> 0 .. MaxRev]
      <4>1. published[r] + 1 \in 0 .. MaxRev
        BY <2>2, <1>0 DEF Publish
      <4> QED BY <2>2, <4>1 DEF Publish
    <3>2. UNCHANGED <<superseded, cache, flight, pc, asked, result, left,
                      served, floor>>
      BY <2>2 DEF Publish
    <3> QED BY <3>1, <3>2
  <2>3. ASSUME NEW kind \in Errors, Fail(r, kind) PROVE TypeOK'
    <3>1. Error(kind) \in Results
      BY ResultKinds
    <3> QED BY <2>3, <3>1, RestrictEffect DEF Fail, upstream
  <2>4. CASE /\ r \in DOMAIN flight /\ flight[r].answer.kind = "index"
             /\ Lands(r)
    <3>1. flight[r].answer.rev \in 0 .. MaxRev
      BY <2>4, ResultKinds
    <3>2. /\ DOMAIN cache' \subseteq Repos
          /\ \A q \in DOMAIN cache' :
                cache'[q] \in [rev : 0 .. MaxRev, age : 0 .. maxAge + 1]
      <4>1. PICK keep \in Kept :
               /\ keep \subseteq DOMAIN cache
               /\ DOMAIN cache' = keep \cup {r}
               /\ cache'[r] = [rev |-> flight[r].answer.rev, age |-> 0]
               /\ \A q \in keep \ {r} : cache'[q] = cache[q]
        BY <2>4, StoreEffect DEF Lands
      <4>2. cache'[r] \in [rev : 0 .. MaxRev, age : 0 .. maxAge + 1]
        BY <4>1, <3>1, Times
      <4> QED BY <4>1, <4>2
    <3>3. /\ DOMAIN flight' \subseteq Repos
          /\ \A q \in DOMAIN flight' :
                flight'[q] \in [leader : Callers, age : 0 .. Timeout,
                                answer : Results]
      BY <2>4, RestrictEffect DEF Lands
    <3> QED BY <2>4, <3>1, <3>2, <3>3, <1>1 DEF Lands, upstream
  <2> QED BY <1>3, <2>1, <2>2, <2>3, <2>4, RepoSteps
<1>4. CASE Tick
  <2>1. ASSUME NEW r \in DOMAIN flight'
        PROVE  flight'[r] \in [leader : Callers, age : 0 .. Timeout,
                               answer : Results]
    <3>1. r \in DOMAIN flight
      BY <1>4, TickEffect
    <3>2. flight[r] \in [leader : Callers, age : 0 .. Timeout,
                         answer : Results]
      BY <3>1
    <3>3. /\ flight[r].age + 1 \in 0 .. Timeout
          /\ flight'[r] = [leader |-> flight[r].leader,
                           age |-> flight[r].age + 1,
                           answer |-> flight[r].answer]
      BY <1>4, <3>1, TickEffect
    <3> QED BY <3>2, <3>3
  <2>2. ASSUME NEW r \in DOMAIN cache'
        PROVE  cache'[r] \in [rev : 0 .. MaxRev, age : 0 .. maxAge + 1]
    <3>1. r \in DOMAIN cache
      BY <1>4, TickEffect
    <3>2. cache[r] \in [rev : 0 .. MaxRev, age : 0 .. maxAge + 1]
      BY <3>1
    <3>3. /\ Older(cache[r].age, maxAge + 1) \in 0 .. maxAge + 1
          /\ cache'[r] = [rev |-> cache[r].rev,
                          age |-> Older(cache[r].age, maxAge + 1)]
      BY <1>4, <3>1, TickEffect
    <3> QED BY <3>2, <3>3
  <2> QED BY <1>4, <2>1, <2>2, TickEffect
<1>5. CASE UNCHANGED vars
  BY <1>5 DEF vars, upstream
<1> QED BY <1>2, <1>3, <1>4, <1>5 DEF Next, CallStep, RepoStep
-----------------------------------------------------------------------------
\* Those who return are given the revision, and what was served only grows.
Given(cs, r, rev) ==
    /\ \A q \in Repos : served[q] <= served'[q]
    /\ \A q \in Repos : q # r => served'[q] = served[q]
    /\ served'[r] = IF rev > served[r] THEN rev ELSE served[r]
    /\ \A c \in Callers :
          IF c \in cs THEN pc'[c] = "done" /\ result'[c] = Index(rev)
          ELSE pc'[c] = pc[c] /\ result'[c] = result[c]

LEMMA ReturnEffect ==
    ASSUME TypeOK, NEW cs, NEW r \in Repos, NEW rev \in 0 .. MaxRev,
           Return(cs, r, rev)
    PROVE  Given(cs, r, rev)
<1>1. served \in [Repos -> 0 .. MaxRev]
  BY DEF TypeOK
<1>2. served' = [served EXCEPT ![r] = IF rev > @ THEN rev ELSE @]
  BY DEF Return
<1>3. MaxRev \in Nat
  BY SizesAssumption
<1>4. served'[r] = IF rev > served[r] THEN rev ELSE served[r]
  BY <1>1, <1>2
<1>5. \A q \in Repos : q # r => served'[q] = served[q]
  BY <1>1, <1>2
<1>6. \A q \in Repos : served[q] <= served'[q]
  BY <1>1, <1>3, <1>4, <1>5
<1> QED BY <1>4, <1>5, <1>6 DEF Return, Given

\* What a call takes a revision from is a revision.
LEMMA RevisionTypes ==
    ASSUME TypeOK
    PROVE  /\ \A r \in DOMAIN cache :
                 cache[r].rev \in 0 .. MaxRev /\ cache[r].age \in 0 .. maxAge + 1
           /\ \A r \in DOMAIN flight :
                 /\ flight[r].age \in 0 .. Timeout
                 /\ flight[r].answer \in Results
                 /\ flight[r].answer.kind = "index" =>
                       flight[r].answer.rev \in 0 .. MaxRev
<1>1. \A r \in DOMAIN cache :
         cache[r].rev \in 0 .. MaxRev /\ cache[r].age \in 0 .. maxAge + 1
  BY DEF TypeOK
<1>2. \A r \in DOMAIN flight :
         flight[r].age \in 0 .. Timeout /\ flight[r].answer \in Results
  BY DEF TypeOK
<1> QED BY <1>1, <1>2, ResultKinds

LEMMA CallsInit == Init => CallsInv
BY ResultKinds DEF Init, CallsInv, CallInv, Pending, Errors

\* A caller whom a step leaves alone.
LEMMA CallInvFrame ==
    ASSUME TypeOK, NEW c \in Callers, CallInv(c),
           pc'[c] = pc[c], result'[c] = result[c], asked'[c] = asked[c],
           floor'[c] = floor[c],
           served' \in [Repos -> 0 .. MaxRev],
           \A q \in Repos : served[q] <= served'[q],
           pc[c] = "waiting" /\ asked[c] \in DOMAIN flight =>
              asked[c] \in DOMAIN flight'
    PROVE  CallInv(c)'
<1>1. ASSUME pc[c] # "idle"
      PROVE  asked[c] \in Repos /\ floor[c] <= served'[asked[c]]
  <2>1. asked[c] \in Repos /\ floor[c] <= served[asked[c]]
    BY <1>1 DEF CallInv
  <2>2. /\ served[asked[c]] \in 0 .. MaxRev /\ served'[asked[c]] \in 0 .. MaxRev
        /\ floor[c] \in 0 .. MaxRev
    BY <2>1 DEF TypeOK
  <2>3. served[asked[c]] <= served'[asked[c]]
    BY <2>1
  <2> QED BY <2>1, <2>2, <2>3, SizesAssumption
<1> QED BY <1>1 DEF CallInv

LEMMA CallsStep ==
    TypeOK /\ TypeOK' /\ CallsInv /\ [Next]_vars => CallsInv'
<1> SUFFICES ASSUME TypeOK, TypeOK', CallsInv, [Next]_vars, NEW d \in Callers
             PROVE  CallInv(d)'
  BY DEF CallsInv
<1>1. /\ CallInv(d)
      /\ served \in [Repos -> 0 .. MaxRev] /\ served' \in [Repos -> 0 .. MaxRev]
      /\ pc \in [Callers -> {"idle", "called", "missed", "waiting", "failed",
                             "done"}]
      /\ result \in [Callers -> Results]
      /\ asked \in [Callers -> Repos \cup {NoRepo}]
      /\ floor \in [Callers -> 0 .. MaxRev]
  BY DEF CallsInv, TypeOK
<1>2. \A q \in Repos : served[q] \in 0 .. MaxRev /\ served[q] <= served[q]
  BY <1>1, SizesAssumption
\* A step that serves nothing and ends no flight, of another caller.
<1>3. ASSUME UNCHANGED served, DOMAIN flight \subseteq DOMAIN flight',
             pc'[d] = pc[d], result'[d] = result[d], asked'[d] = asked[d],
             floor'[d] = floor[d]
      PROVE  CallInv(d)'
  BY <1>1, <1>2, <1>3, CallInvFrame
<1>4. ASSUME NEW c \in Callers, CallStep(c) PROVE CallInv(d)'
  <2>1. ASSUME NEW r \in Repos, Call(c, r) PROVE CallInv(d)'
    <3>1. CASE d = c
      <4>1. /\ pc'[d] = "called" /\ asked'[d] = r /\ floor'[d] = served[r]
            /\ result'[d].rev = -1 /\ UNCHANGED served
        BY <1>1, <2>1, <3>1 DEF Call, CallInv
      <4> QED BY <4>1, <1>2 DEF CallInv
    <3>2. CASE d # c
      BY <1>1, <2>1, <3>2, <1>3 DEF Call
    <3> QED BY <3>1, <3>2
  <2>2. ASSUME c = d, pc'[d] \in {"failed", "missed", "done"}, pc[d] # "idle",
               pc'[d] # "done" => result'[d].rev = -1,
               \A q \in Repos : served[q] <= served'[q],
               UNCHANGED <<asked, floor>>
        PROVE  CallInv(d)'
    <3>1. asked[d] \in Repos /\ floor[d] <= served[asked[d]]
      BY <1>1, <2>2 DEF CallInv
    <3>2. /\ served[asked[d]] \in 0 .. MaxRev /\ served'[asked[d]] \in 0 .. MaxRev
          /\ floor[d] \in 0 .. MaxRev
      BY <3>1, <1>1
    <3>3. floor[d] <= served'[asked[d]]
      BY <3>1, <3>2, <2>2, SizesAssumption
    <3> QED BY <2>2, <3>1, <3>3 DEF CallInv
  <2>3. ASSUME asked[c] \in DOMAIN cache, pc[c] # "idle",
               Return({c}, asked[c], cache[asked[c]].rev),
               UNCHANGED <<asked, floor, flight>>
        PROVE  CallInv(d)'
    <3>1. cache[asked[c]].rev \in 0 .. MaxRev /\ asked[c] \in Repos
      BY <2>3, RevisionTypes DEF TypeOK
    <3>2. /\ \A q \in Repos : served[q] <= served'[q]
          /\ IF d = c THEN pc'[d] = "done"
             ELSE pc'[d] = pc[d] /\ result'[d] = result[d]
      <4>1. Given({c}, asked[c], cache[asked[c]].rev)
        BY <2>3, <3>1, ReturnEffect
      <4> QED BY <4>1 DEF Given
    <3>3. CASE d = c
      BY <2>2, <2>3, <3>2, <3>3
    <3>4. CASE d # c
      BY <1>1, <2>3, <3>2, <3>4, CallInvFrame
    <3> QED BY <3>3, <3>4
  <2>4. ASSUME c \in Callers, pc[c] # "idle",
               \/ pc' = [pc EXCEPT ![c] = "done"]
               \/ pc' = [pc EXCEPT ![c] = "missed"] /\ UNCHANGED result
                     /\ pc[c] # "done",
               \/ UNCHANGED result
               \/ result' = [result EXCEPT ![c] = Error("denied")],
               UNCHANGED <<asked, floor, flight, served>>
        PROVE  CallInv(d)'
    <3>1. CASE d = c
      <4>1. /\ pc'[d] \in {"missed", "done"}
            /\ pc'[d] # "done" => result'[d].rev = -1
        BY <1>1, <2>4, <3>1 DEF CallInv
      <4> QED BY <4>1, <2>2, <2>4, <3>1, <1>2
    <3>2. CASE d # c
      BY <1>1, <2>4, <3>2, <1>3
    <3> QED BY <3>1, <3>2
  <2>5. CASE Lookup(c)
    <3>1. pc[c] = "called" /\ UNCHANGED <<asked, floor, flight>>
      BY <2>5 DEF Lookup
    <3>2. CASE Fresh(asked[c]) /\ Return({c}, asked[c], cache[asked[c]].rev)
      BY <3>1, <3>2, <2>3 DEF Fresh
    <3>3. CASE UNCHANGED <<result, served>> /\ pc' = [pc EXCEPT ![c] = "missed"]
      BY <3>1, <3>3, <2>4
    <3>4. CASE /\ pc' = [pc EXCEPT ![c] = "done"]
               /\ result' = [result EXCEPT ![c] = Error("denied")]
               /\ UNCHANGED served
      BY <3>1, <3>4, <2>4
    <3> QED BY <2>5, <3>2, <3>3, <3>4 DEF Lookup
  <2>6. CASE Fallback(c)
    <3>1. pc[c] = "failed" /\ UNCHANGED <<asked, floor, flight>>
      BY <2>6 DEF Fallback
    <3>2. CASE /\ asked[c] \in DOMAIN cache
               /\ Return({c}, asked[c], cache[asked[c]].rev)
      BY <3>1, <3>2, <2>3
    <3>3. CASE UNCHANGED <<result, served>> /\ pc' = [pc EXCEPT ![c] = "done"]
      BY <3>1, <3>3, <2>4
    <3> QED BY <2>6, <3>2, <3>3 DEF Fallback
  <2>7. CASE Join(c)
    <3>1. /\ DOMAIN flight \cup {asked[c]} = DOMAIN flight'
          /\ pc[c] = "missed" /\ pc' = [pc EXCEPT ![c] = "waiting"]
          /\ UNCHANGED <<asked, result, served, floor>>
      BY <2>7 DEF Join
    <3>2. CASE d = c
      BY <1>1, <3>1, <3>2 DEF CallInv
    <3>3. CASE d # c
      BY <1>1, <3>1, <3>3, <1>3
    <3> QED BY <3>2, <3>3
  <2>8. CASE Leave(c)
    BY <2>8, <1>3 DEF Leave
  <2>9. CASE Finish(c)
    <3>1. CASE d = c
      BY <1>1, <2>9, <3>1, ResultKinds DEF Finish, CallInv, Pending, Errors
    <3>2. CASE d # c
      BY <1>1, <2>9, <3>2, <1>3 DEF Finish
    <3> QED BY <3>1, <3>2
  <2> QED BY <1>4, <2>1, <2>5, <2>6, <2>7, <2>8, <2>9 DEF CallStep
<1>5. ASSUME NEW r \in Repos, RepoStep(r) PROVE CallInv(d)'
  <2>1. CASE Respond(r)
    BY <2>1, <1>3 DEF Respond
  <2>2. CASE Publish(r)
    BY <2>2, <1>3 DEF Publish
  <2>3. ASSUME NEW kind \in Errors, Fail(r, kind) PROVE CallInv(d)'
    <3>1. /\ DOMAIN flight' = DOMAIN flight \ {r}
          /\ UNCHANGED <<asked, served, floor>>
      BY <2>3, RestrictEffect DEF Fail
    <3>2. CASE d \in Waiters(r)
      <4>1. pc[d] = "waiting" /\ pc'[d] = "failed" /\ result'[d] = Error(kind)
        BY <2>3, <3>2 DEF Fail, Waiters
      <4> QED BY <1>1, <3>1, <4>1, ResultKinds DEF CallInv
    <3>3. CASE d \notin Waiters(r)
      <4>1. pc'[d] = pc[d] /\ result'[d] = result[d]
        BY <2>3, <3>3 DEF Fail
      <4>2. pc[d] = "waiting" => asked[d] # r
        BY <3>3 DEF Waiters
      <4> QED BY <1>1, <1>2, <3>1, <4>1, <4>2, CallInvFrame
    <3> QED BY <3>2, <3>3
  <2>4. CASE r \in DOMAIN flight /\ flight[r].answer.kind = "index" /\ Lands(r)
    <3>1. /\ DOMAIN flight' = DOMAIN flight \ {r}
          /\ UNCHANGED <<asked, floor>>
          /\ flight[r].answer.rev \in 0 .. MaxRev
      BY <2>4, RestrictEffect, RevisionTypes DEF Lands
    <3>2. /\ \A q \in Repos : served[q] <= served'[q]
          /\ IF d \in Waiters(r) THEN pc'[d] = "done"
             ELSE pc'[d] = pc[d] /\ result'[d] = result[d]
      <4>1. Given(Waiters(r), r, flight[r].answer.rev)
        BY <2>4, <3>1, ReturnEffect DEF Lands
      <4> QED BY <4>1 DEF Given
    <3>3. CASE d \in Waiters(r)
      <4>1. asked[d] = r /\ floor[d] <= served[r] /\ pc'[d] = "done"
        BY <1>1, <3>2, <3>3 DEF Waiters, CallInv
      <4>2. /\ floor[d] \in 0 .. MaxRev /\ served[r] \in 0 .. MaxRev
            /\ served'[r] \in 0 .. MaxRev /\ served[r] <= served'[r]
        BY <1>1, <3>2
      <4>3. floor[d] <= served'[r]
        BY <4>1, <4>2, SizesAssumption
      <4> QED BY <4>1, <4>3, <3>1 DEF CallInv
    <3>4. CASE d \notin Waiters(r)
      <4>1. pc'[d] = pc[d] /\ result'[d] = result[d]
        BY <3>2, <3>4
      <4>2. pc[d] = "waiting" => asked[d] # r
        BY <3>4 DEF Waiters
      <4> QED BY <1>1, <3>1, <3>2, <4>1, <4>2, CallInvFrame
    <3> QED BY <3>3, <3>4
  <2> QED BY <1>5, <2>1, <2>2, <2>3, <2>4, RepoSteps
<1>6. CASE Tick
  BY <1>6, <1>3, TickEffect
<1>7. CASE UNCHANGED vars
  BY <1>7, <1>3 DEF vars
<1> QED BY <1>4, <1>5, <1>6, <1>7 DEF Next, CallStep, RepoStep
-----------------------------------------------------------------------------
LEMMA RevisionsInit == Init => RevisionsInv /\ AgesInv
BY Times DEF Init, RevisionsInv, AgesInv, RevisionInv, AgeInv, Brings

\* A repository whose entry and flight a step leaves alone, or drops, while
\* its upstream may move.
LEMMA RepoFrame ==
    ASSUME TypeOK, TypeOK', NEW q \in Repos, RevisionInv(q), AgeInv(q),
           served'[q] = served[q], superseded'[q] = superseded[q],
           published[q] <= published'[q],
           q \in DOMAIN cache' => q \in DOMAIN cache /\ cache'[q] = cache[q],
           Brings(q)' => Brings(q) /\ flight'[q] = flight[q]
    PROVE  RevisionInv(q)' /\ AgeInv(q)'
<1>1. /\ served[q] \in 0 .. MaxRev /\ published[q] \in 0 .. MaxRev
      /\ published'[q] \in 0 .. MaxRev
  BY DEF TypeOK
<1>2. q \in DOMAIN cache => cache[q].rev \in 0 .. MaxRev
  BY RevisionTypes
<1>3. Brings(q) => flight[q].answer.rev \in 0 .. MaxRev
  BY RevisionTypes DEF Brings
<1>4. MaxRev \in Nat
  BY SizesAssumption
<1>5. RevisionInv(q)'
  BY <1>1, <1>2, <1>3, <1>4 DEF RevisionInv
<1>6. \A rev \in published'[q] .. MaxRev : rev \in published[q] .. MaxRev
  BY <1>1, <1>4
<1>7. AgeInv(q)'
  BY <1>6 DEF AgeInv
<1> QED BY <1>5, <1>7

\* A caller is given what the cache has.
LEMMA RevisionHit ==
    ASSUME TypeOK, TypeOK', NEW c, NEW r \in DOMAIN cache, NEW q \in Repos,
           RevisionInv(q), AgeInv(q), Return({c}, r, cache[r].rev),
           UNCHANGED <<published, superseded, cache, flight>>
    PROVE  RevisionInv(q)' /\ AgeInv(q)'
<1>1. r \in Repos /\ cache[r].rev \in 0 .. MaxRev
  BY RevisionTypes DEF TypeOK
<1>2. /\ \A p \in Repos : p # r => served'[p] = served[p]
      /\ served'[r] = IF cache[r].rev > served[r] THEN cache[r].rev ELSE served[r]
  <2>1. Given({c}, r, cache[r].rev)
    BY <1>1, ReturnEffect
  <2> QED BY <2>1 DEF Given
<1>3. published[q] \in Nat
  BY DEF TypeOK
<1>4. CASE q # r
  BY <1>2, <1>3, <1>4, RepoFrame DEF Brings
<1>5. CASE q = r
  <2>1. served[r] \in 0 .. MaxRev /\ MaxRev \in Nat
    BY <1>1, SizesAssumption DEF TypeOK
  <2>2. served'[r] = cache[r].rev
    BY <1>1, <1>2, <1>5, <2>1 DEF RevisionInv
  <2>3. RevisionInv(q)'
    BY <1>1, <1>5, <2>1, <2>2 DEF RevisionInv, Brings
  <2> QED BY <2>3 DEF AgeInv, Brings
<1> QED BY <1>4, <1>5

LEMMA RevisionsStep ==
    TypeOK /\ TypeOK' /\ RevisionsInv /\ AgesInv /\ [Next]_vars
       => RevisionsInv' /\ AgesInv'
<1> SUFFICES ASSUME TypeOK, TypeOK', RevisionsInv, AgesInv, [Next]_vars,
                    NEW q \in Repos
             PROVE  RevisionInv(q)' /\ AgeInv(q)'
  BY DEF RevisionsInv, AgesInv
<1>1. RevisionInv(q) /\ AgeInv(q)
  BY DEF RevisionsInv, AgesInv
<1>2. /\ published[q] \in 0 .. MaxRev /\ published'[q] \in 0 .. MaxRev
      /\ served[q] \in 0 .. MaxRev /\ MaxRev \in Nat
      /\ published[q] <= published[q]
  BY SizesAssumption DEF TypeOK
<1>3. ASSUME UNCHANGED <<published, superseded, served, cache>>,
             q \in DOMAIN flight' =>
                q \in DOMAIN flight /\ flight'[q] = flight[q]
      PROVE  RevisionInv(q)' /\ AgeInv(q)'
  BY <1>1, <1>2, <1>3, RepoFrame DEF Brings
<1>4. ASSUME NEW c \in Callers, CallStep(c)
      PROVE  RevisionInv(q)' /\ AgeInv(q)'
  <2>1. CASE Join(c)
    <3>1. Brings(q)' => q \in DOMAIN flight /\ flight'[q] = flight[q]
      BY <2>1, ResultKinds DEF Join, Brings, Pending, Errors
    <3>2. Brings(q)' => Brings(q) /\ flight'[q] = flight[q]
      BY <3>1 DEF Brings
    <3> QED BY <1>1, <1>2, <2>1, <3>2, RepoFrame DEF Join, upstream
  <2>2. CASE Lookup(c)
    <3>1. CASE Fresh(asked[c]) /\ Return({c}, asked[c], cache[asked[c]].rev)
      BY <1>1, <2>2, <3>1, RevisionHit DEF Lookup, Fresh, upstream
    <3>2. CASE UNCHANGED served
      BY <2>2, <3>2, <1>3 DEF Lookup, upstream
    <3> QED BY <2>2, <3>1, <3>2 DEF Lookup
  <2>3. CASE Fallback(c)
    <3>1. CASE /\ asked[c] \in DOMAIN cache
               /\ Return({c}, asked[c], cache[asked[c]].rev)
      BY <1>1, <2>3, <3>1, RevisionHit DEF Fallback, upstream
    <3>2. CASE UNCHANGED served
      BY <2>3, <3>2, <1>3 DEF Fallback, upstream
    <3> QED BY <2>3, <3>1, <3>2 DEF Fallback
  <2>4. CASE (\E r \in Repos : Call(c, r)) \/ Leave(c) \/ Finish(c)
    BY <2>4, <1>3 DEF Call, Leave, Finish, upstream
  <2> QED BY <1>4, <2>1, <2>2, <2>3, <2>4 DEF CallStep
<1>5. ASSUME NEW r \in Repos, RepoStep(r)
      PROVE  RevisionInv(q)' /\ AgeInv(q)'
  <2>1. CASE Respond(r)
    <3>1. CASE q # r
      <4>1. q \in DOMAIN flight' => q \in DOMAIN flight /\ flight'[q] = flight[q]
        BY <2>1, <3>1 DEF Respond
      <4> QED BY <2>1, <4>1, <1>3 DEF Respond, upstream
    <3>2. CASE q = r
      <4>1. /\ flight[q] \in [leader : Callers, age : 0 .. Timeout,
                             answer : Results]
            /\ UNCHANGED <<published, superseded, served, cache>>
        BY <2>1, <3>2 DEF Respond, TypeOK, upstream
      <4>2. Brings(q)' => /\ flight'[q].age = flight[q].age
                          /\ flight'[q].answer.rev = published[q]
        BY <2>1, <3>2, <4>1, ResultKinds
           DEF Respond, Brings, Dialled, Errors, Index
      <4>3. RevisionInv(q)'
        BY <1>1, <1>2, <4>1, <4>2 DEF RevisionInv
      <4>4. superseded[q][published[q]] = 0
        BY <1>1, <1>2 DEF AgeInv
      <4>5. AgeInv(q)'
        BY <1>1, <4>1, <4>2, <4>4, Times DEF AgeInv
      <4> QED BY <4>3, <4>5
    <3> QED BY <3>1, <3>2
  <2>2. CASE Publish(r)
    <3>1. published[q] <= published'[q]
      BY <1>2, <2>2 DEF Publish, TypeOK
    <3> QED BY <1>1, <2>2, <3>1, RepoFrame DEF Publish, Brings
  <2>3. ASSUME NEW kind \in Errors, Fail(r, kind)
        PROVE  RevisionInv(q)' /\ AgeInv(q)'
    BY <2>3, <1>3, RestrictEffect DEF Fail, upstream
  <2>4. CASE r \in DOMAIN flight /\ flight[r].answer.kind = "index" /\ Lands(r)
    <3> DEFINE rev == flight[r].answer.rev
    <3>1. PICK keep \in Kept :
             /\ keep \subseteq DOMAIN cache
             /\ DOMAIN cache' = keep \cup {r}
             /\ cache'[r] = [rev |-> rev, age |-> 0]
             /\ \A p \in keep \ {r} : cache'[p] = cache[p]
      BY <2>4, StoreEffect DEF Lands
    <3>2. /\ DOMAIN flight' = DOMAIN flight \ {r}
          /\ \A p \in DOMAIN flight' : flight'[p] = flight[p]
          /\ UNCHANGED <<published, superseded>>
      BY <2>4, RestrictEffect DEF Lands, upstream
    <3>3. rev \in 0 .. MaxRev /\ flight[r].age \in 0 .. Timeout
      BY <2>4, RevisionTypes
    <3>4. /\ \A p \in Repos : p # r => served'[p] = served[p]
          /\ served'[r] = IF rev > served[r] THEN rev ELSE served[r]
      <4>1. Given(Waiters(r), r, rev)
        BY <2>4, <3>3, ReturnEffect DEF Lands
      <4> QED BY <4>1 DEF Given
    <3> HIDE DEF rev
    <3>5. CASE q # r
      <4>1. q \in DOMAIN cache' => q \in DOMAIN cache /\ cache'[q] = cache[q]
        BY <3>1, <3>5
      <4>2. Brings(q)' => Brings(q) /\ flight'[q] = flight[q]
        BY <3>2 DEF Brings
      <4> QED BY <1>1, <1>2, <3>2, <3>4, <3>5, <4>1, <4>2, RepoFrame
    <3>6. CASE q = r
      <4>1. served[r] <= rev /\ rev <= published[r]
        BY <1>1, <2>4, <3>6 DEF RevisionInv, Brings, rev
      <4>2. served'[r] = rev
        BY <1>2, <3>3, <3>4, <3>6, <4>1
      <4>3. q \notin DOMAIN flight'
        BY <3>2, <3>6
      <4>4. RevisionInv(q)'
        BY <1>2, <3>1, <3>2, <3>3, <3>6, <4>1, <4>2, <4>3
           DEF RevisionInv, Brings
      <4>5. superseded[q][rev] <= flight[r].age
        BY <1>1, <2>4, <3>6 DEF AgeInv, Brings, rev
      <4>6. superseded[q][rev] \in Nat
        <5>1. superseded \in [Repos -> [0 .. MaxRev -> 0 .. MaxLag + 1]]
          BY DEF TypeOK
        <5>2. superseded[q][rev] \in 0 .. MaxLag + 1
          BY <5>1, <3>3
        <5> QED BY <5>2, Times
      <4>7. superseded[q][rev] <= Timeout
        BY <3>3, <4>5, <4>6, Times
      <4>8. AgeInv(q)'
        BY <1>1, <3>1, <3>2, <3>6, <4>3, <4>7, Times DEF AgeInv, Brings
      <4> QED BY <4>4, <4>8
    <3> QED BY <3>5, <3>6
  <2> QED BY <1>5, <2>1, <2>2, <2>3, <2>4, RepoSteps
<1>6. CASE Tick
  <2>1. Brings(q)' => /\ Brings(q)
                      /\ flight'[q].answer = flight[q].answer
                      /\ flight'[q].age = flight[q].age + 1
    BY <1>6, TickEffect DEF Brings
  <2>2. q \in DOMAIN cache' => /\ q \in DOMAIN cache
                               /\ cache'[q].rev = cache[q].rev
                               /\ cache'[q].age = Older(cache[q].age, maxAge + 1)
    BY <1>6, TickEffect
  <2>3. UNCHANGED <<published, served>>
    BY <1>6, TickEffect
  <2>4. RevisionInv(q)'
    BY <1>1, <2>1, <2>2, <2>3 DEF RevisionInv
  <2>5. superseded \in [Repos -> [0 .. MaxRev -> 0 .. MaxLag + 1]]
    BY DEF TypeOK
  <2>6. ASSUME NEW rev \in 0 .. MaxRev
        PROVE  /\ superseded[q][rev] \in 0 .. MaxLag + 1
               /\ superseded'[q][rev] \in 0 .. MaxLag + 1
               /\ superseded'[q][rev] <= superseded[q][rev] + 1
               /\ rev >= published[q] => superseded'[q][rev] = 0
    <3>1. superseded[q][rev] \in 0 .. MaxLag + 1
      BY <2>5
    <3>2. superseded'[q][rev] = IF rev < published[q]
                                THEN Older(superseded[q][rev], MaxLag + 1) ELSE 0
      BY <1>6, TickEffect
    <3> QED BY <1>2, <3>1, <3>2, Times DEF Older
  <2>7. ASSUME q \in DOMAIN cache'
        PROVE  superseded'[q][cache[q].rev] <= cache'[q].age + Timeout
    <3>1. cache[q].rev \in 0 .. MaxRev /\ cache[q].age \in 0 .. maxAge + 1
      BY <2>2, <2>7, RevisionTypes
    <3>2. superseded[q][cache[q].rev] <= cache[q].age + Timeout
      BY <1>1, <2>2, <2>7 DEF AgeInv
    <3>3. /\ superseded[q][cache[q].rev] \in 0 .. MaxLag + 1
          /\ superseded'[q][cache[q].rev] \in 0 .. MaxLag + 1
          /\ superseded'[q][cache[q].rev] <= superseded[q][cache[q].rev] + 1
      BY <2>6, <3>1
    <3> QED BY <2>2, <2>7, <3>1, <3>2, <3>3, Times DEF Older
  <2>8. ASSUME Brings(q)'
        PROVE  superseded'[q][flight[q].answer.rev] <= flight[q].age + 1
    <3>1. flight[q].answer.rev \in 0 .. MaxRev /\ flight[q].age \in Nat
      BY <2>1, <2>8, RevisionTypes, Times DEF Brings
    <3>2. superseded[q][flight[q].answer.rev] <= flight[q].age
      BY <1>1, <2>1, <2>8 DEF AgeInv
    <3>3. /\ superseded[q][flight[q].answer.rev] \in 0 .. MaxLag + 1
          /\ superseded'[q][flight[q].answer.rev] \in 0 .. MaxLag + 1
          /\ superseded'[q][flight[q].answer.rev]
                <= superseded[q][flight[q].answer.rev] + 1
      BY <2>6, <3>1
    <3> QED BY <3>1, <3>2, <3>3, Times
  <2>9. \A rev \in published[q] .. MaxRev : superseded'[q][rev] = 0
    BY <1>2, <2>6
  <2>10. AgeInv(q)'
    BY <2>1, <2>2, <2>3, <2>7, <2>8, <2>9 DEF AgeInv
  <2> QED BY <2>4, <2>10
<1>7. CASE UNCHANGED vars
  BY <1>7, <1>3 DEF vars, upstream
<1> QED BY <1>4, <1>5, <1>6, <1>7 DEF Next, CallStep, RepoStep
-----------------------------------------------------------------------------
(* The size of the map. *)

LEMMA BoundInit == Init => BoundInv
BY FS_EmptySet, SizesAssumption DEF Init, BoundInv, CacheBounded

\* Entries come and go only when an index is stored.
LEMMA CacheChanges ==
    ASSUME TypeOK, [Next]_vars
    PROVE  \/ /\ DOMAIN cache' = DOMAIN cache
              /\ \A r \in DOMAIN cache : cache'[r].rev = cache[r].rev
           \/ \E r \in Repos : Brings(r) /\ Lands(r)
<1>1. CASE UNCHANGED cache
  BY <1>1
<1>2. ASSUME NEW c \in Callers, CallStep(c) PROVE UNCHANGED cache
  BY <1>2 DEF CallStep, Call, Lookup, Join, Fallback, Leave, Finish
<1>3. ASSUME NEW r \in Repos, RepoStep(r)
      PROVE  UNCHANGED cache \/ (Brings(r) /\ Lands(r))
  <2>1. CASE Respond(r) \/ Publish(r) \/ \E kind \in Errors : Fail(r, kind)
    BY <2>1 DEF Respond, Publish, Fail
  <2>2. CASE /\ r \in DOMAIN flight /\ flight[r].answer.kind = "index"
             /\ Lands(r)
    BY <2>2 DEF Brings
  <2> QED BY <1>3, <2>1, <2>2, RepoSteps
<1>4. CASE Tick
  BY <1>4, TickEffect
<1>5. CASE UNCHANGED vars
  BY <1>5 DEF vars
<1> QED BY <1>1, <1>2, <1>3, <1>4, <1>5 DEF Next, CallStep, RepoStep

\* What store keeps leaves room for the index to store.
LEMMA KeptLeavesRoom ==
    ASSUME IsFiniteSet(DOMAIN cache), NEW keep \in Kept
    PROVE  /\ IsFiniteSet(keep)
           /\ Cardinality(keep) + 1 <= maxIndexCacheEntries
<1>1. /\ keep \subseteq DOMAIN cache /\ IsFiniteSet(keep)
      /\ Cardinality(keep) \in Nat
  <2>1. keep \subseteq DOMAIN cache
    BY DEF Kept
  <2> QED BY <2>1, FS_Subset, FS_CardinalityType
<1>2. CASE Cardinality(DOMAIN cache) < maxIndexCacheEntries
  <2>1. keep = DOMAIN cache
    BY <1>2 DEF Kept
  <2> QED BY <1>1, <1>2, <2>1, SizesAssumption
<1>3. CASE ~ (Cardinality(DOMAIN cache) < maxIndexCacheEntries)
  <2> DEFINE young == {q \in DOMAIN cache : cache[q].age <= maxAge}
             room == maxIndexCacheEntries - 1
  <2>1. Cardinality(keep) = IF Cardinality(young) < room
                            THEN Cardinality(young) ELSE room
    BY <1>3 DEF Kept
  <2>2. Cardinality(young) \in Nat
    BY FS_Subset, FS_CardinalityType
  <2> HIDE DEF young
  <2> QED BY <1>1, <2>1, <2>2, SizesAssumption
<1> QED BY <1>2, <1>3

\* Of the entries that could still be served, store drops one at most, and
\* that one only to make room.
LEMMA KeptIsYoung ==
    ASSUME BoundInv, NEW keep \in Kept
    PROVE  LET gone == {q \in DOMAIN cache : cache[q].age <= maxAge} \ keep
           IN  /\ IsFiniteSet(gone) /\ Cardinality(gone) <= 1
               /\ gone # {} => Cardinality(DOMAIN cache) = maxIndexCacheEntries
<1> DEFINE young == {q \in DOMAIN cache : cache[q].age <= maxAge}
           gone == young \ keep
           room == maxIndexCacheEntries - 1
<1>1. /\ IsFiniteSet(DOMAIN cache) /\ Cardinality(DOMAIN cache) \in Nat
      /\ Cardinality(DOMAIN cache) <= maxIndexCacheEntries
  BY FS_CardinalityType DEF BoundInv, CacheBounded
<1>2. /\ IsFiniteSet(young) /\ Cardinality(young) \in Nat
      /\ Cardinality(young) <= Cardinality(DOMAIN cache)
  BY <1>1, FS_Subset, FS_CardinalityType
<1>3. CASE Cardinality(DOMAIN cache) < maxIndexCacheEntries
  <2>1. keep = DOMAIN cache
    BY <1>3 DEF Kept
  <2>2. gone = {}
    BY <2>1
  <2> QED BY <2>2, FS_EmptySet
<1>4. CASE ~ (Cardinality(DOMAIN cache) < maxIndexCacheEntries)
  <2>1. /\ keep \subseteq young
        /\ Cardinality(keep) = IF Cardinality(young) < room
                               THEN Cardinality(young) ELSE room
    BY <1>4 DEF Kept
  <2> HIDE DEF young
  <2>2. /\ IsFiniteSet(gone)
        /\ Cardinality(gone) = Cardinality(young) - Cardinality(young \cap keep)
    BY <1>2, FS_Difference
  <2>3. young \cap keep = keep
    BY <2>1
  <2>4. Cardinality(DOMAIN cache) = maxIndexCacheEntries
    BY <1>1, <1>4, SizesAssumption
  <2>5. Cardinality(gone) = Cardinality(young) - Cardinality(keep)
    BY <2>2, <2>3
  <2> HIDE DEF gone
  <2>6. Cardinality(gone) <= 1
    BY <1>2, <2>1, <2>4, <2>5, SizesAssumption
  <2> QED BY <2>2, <2>4, <2>6 DEF young, gone
<1> QED BY <1>3, <1>4

LEMMA BoundStep == TypeOK /\ BoundInv /\ [Next]_vars => BoundInv'
<1> SUFFICES ASSUME TypeOK, BoundInv, [Next]_vars PROVE BoundInv'
  OBVIOUS
<1>1. CASE DOMAIN cache' = DOMAIN cache
  BY <1>1 DEF BoundInv, CacheBounded
<1>2. ASSUME NEW r \in Repos, Lands(r) PROVE BoundInv'
  <2>1. PICK keep \in Kept : DOMAIN cache' = keep \cup {r}
    BY <1>2, StoreEffect DEF Lands
  <2>2. /\ IsFiniteSet(keep) /\ Cardinality(keep) \in Nat
        /\ Cardinality(keep) + 1 <= maxIndexCacheEntries
    BY KeptLeavesRoom, FS_CardinalityType DEF BoundInv
  <2>3. /\ IsFiniteSet(DOMAIN cache')
        /\ Cardinality(DOMAIN cache') = IF r \in keep THEN Cardinality(keep)
                                        ELSE Cardinality(keep) + 1
    BY <2>1, <2>2, FS_AddElement
  <2> QED BY <2>2, <2>3, SizesAssumption DEF BoundInv, CacheBounded
<1> QED BY <1>1, <1>2, CacheChanges

-----------------------------------------------------------------------------
LEMMA IndexInvInit == Init => IndexInv
BY TypeInit, CallsInit, RevisionsInit, BoundInit DEF IndexInv

LEMMA IndexInvStep == IndexInv /\ [Next]_vars => IndexInv'
BY TypeStep, CallsStep, RevisionsStep, BoundStep DEF IndexInv

\* The inductive invariant, from which everything below follows: calls, cache,
\* flights and the upstream agree on revisions and ages.
THEOREM IndexInvariant == Spec => []IndexInv
BY IndexInvInit, IndexInvStep, PTL DEF Spec

\* Index results, entries and flights always have their types.
THEOREM IndexTypes == Spec => []TypeOK
<1>1. IndexInv => TypeOK
  BY DEF IndexInv
<1> QED BY <1>1, IndexInvariant, PTL

\* Whoever waits in sf.Do waits for a flight that exists (upstream.go:118).
THEOREM NobodyWaitsForNothing == Spec => []NobodyIsStranded
<1>1. IndexInv => NobodyIsStranded
  BY DEF IndexInv, CallsInv, CallInv, NobodyIsStranded
<1> QED BY <1>1, IndexInvariant, PTL

\* store never lets the map grow beyond its cap, whatever it keeps.
THEOREM CacheStaysBounded == Spec => []CacheBounded
<1>1. IndexInv => CacheBounded
  BY DEF IndexInv, BoundInv
<1> QED BY <1>1, IndexInvariant, PTL

\* An eviction costs at most one entry that could still be served, and none
\* below the cap.
THEOREM EvictionsAreMild == Spec => YoungSurviveBelowTheCap
<1> DEFINE gone == {r \in DOMAIN cache \ DOMAIN cache' : cache[r].age <= maxAge}
           Mild == /\ Cardinality(gone) <= 1
                   /\ gone # {} => Cardinality(DOMAIN cache) = maxIndexCacheEntries
<1>1. IndexInv /\ [Next]_vars => [Mild]_vars
  <2> SUFFICES ASSUME IndexInv, [Next]_vars PROVE Mild
    OBVIOUS
  <2>1. CASE DOMAIN cache' = DOMAIN cache
    <3>1. gone = {}
      BY <2>1
    <3> QED BY <3>1, FS_EmptySet
  <2>2. ASSUME NEW r \in Repos, Lands(r) PROVE Mild
    <3>1. PICK keep \in Kept :
             keep \subseteq DOMAIN cache /\ DOMAIN cache' = keep \cup {r}
      BY <2>2, StoreEffect DEF Lands
    <3> DEFINE dropped == {q \in DOMAIN cache : cache[q].age <= maxAge} \ keep
    <3>2. /\ IsFiniteSet(dropped) /\ Cardinality(dropped) <= 1
          /\ dropped # {} => Cardinality(DOMAIN cache) = maxIndexCacheEntries
      BY KeptIsYoung DEF IndexInv
    <3>3. gone \subseteq dropped
      BY <3>1
    <3> HIDE DEF gone, dropped
    <3>4. /\ Cardinality(gone) <= Cardinality(dropped)
          /\ Cardinality(gone) \in Nat /\ Cardinality(dropped) \in Nat
      BY <3>2, <3>3, FS_Subset, FS_CardinalityType
    <3> QED BY <3>2, <3>3, <3>4
  <2> QED BY <2>1, <2>2, CacheChanges DEF IndexInv
<1> QED BY <1>1, IndexInvariant, PTL DEF Spec, YoungSurviveBelowTheCap

\* What a flight stores is at least as new as what it replaces, although it was
\* fetched before and there is no lock between (upstream.go:126).
THEOREM IndexMovesForward == Spec => CacheMovesForward
<1> DEFINE Forward == \A r \in DOMAIN cache \cap DOMAIN cache' :
                         cache'[r].rev >= cache[r].rev
<1>1. IndexInv /\ [Next]_vars => [Forward]_vars
  <2> SUFFICES ASSUME IndexInv, [Next]_vars,
                      NEW q \in DOMAIN cache \cap DOMAIN cache'
               PROVE  cache'[q].rev >= cache[q].rev
    OBVIOUS
  <2>1. TypeOK /\ q \in Repos /\ cache[q].rev \in Nat
    <3>1. TypeOK
      BY DEF IndexInv
    <3>2. q \in DOMAIN cache /\ DOMAIN cache \subseteq Repos
      BY <3>1 DEF TypeOK
    <3> QED BY <3>1, <3>2, RevisionTypes
  <2>2. CASE \A r \in DOMAIN cache : cache'[r].rev = cache[r].rev
    BY <2>1, <2>2
  <2>3. ASSUME NEW r \in Repos, Brings(r), Lands(r)
        PROVE  cache'[q].rev >= cache[q].rev
    <3>1. PICK keep \in Kept :
             /\ DOMAIN cache' = keep \cup {r}
             /\ cache'[r] = [rev |-> flight[r].answer.rev, age |-> 0]
             /\ \A p \in keep \ {r} : cache'[p] = cache[p]
      BY <2>3, StoreEffect DEF Lands
    <3>2. CASE q = r
      <4>1. cache[q].rev <= flight[q].answer.rev
        BY <2>1, <2>3, <3>2 DEF IndexInv, RevisionsInv, RevisionInv
      <4>2. flight[q].answer.rev \in Nat
        BY <2>1, <2>3, <3>2, RevisionTypes DEF Brings
      <4> QED BY <2>1, <3>1, <3>2, <4>1, <4>2
    <3>3. CASE q # r
      BY <2>1, <3>1, <3>3
    <3> QED BY <3>2, <3>3
  <2> QED BY <2>1, <2>2, <2>3, CacheChanges
<1> QED BY <1>1, IndexInvariant, PTL DEF Spec, CacheMovesForward

-----------------------------------------------------------------------------
\* How a caller comes by an index: a hit, a stale entry, or its flight.
LEMMA WhereAnIndexComesFrom ==
    ASSUME TypeOK, CallsInv, [Next]_vars, NEW d \in Callers,
           pc[d] # "done", pc'[d] = "done", result'[d].kind = "index"
    PROVE  \/ /\ pc[d] = "called" /\ Fresh(asked[d])
              /\ result'[d] = Index(cache[asked[d]].rev)
           \/ /\ pc[d] = "failed" /\ asked[d] \in DOMAIN cache
              /\ cache[asked[d]].age <= IndexStaleTTL
              /\ result'[d] = Index(cache[asked[d]].rev)
           \/ /\ pc[d] = "waiting" /\ Brings(asked[d])
              /\ result'[d] = Index(flight[asked[d]].answer.rev)
<1> DEFINE Comes ==
           \/ /\ pc[d] = "called" /\ Fresh(asked[d])
              /\ result'[d] = Index(cache[asked[d]].rev)
           \/ /\ pc[d] = "failed" /\ asked[d] \in DOMAIN cache
              /\ cache[asked[d]].age <= IndexStaleTTL
              /\ result'[d] = Index(cache[asked[d]].rev)
           \/ /\ pc[d] = "waiting" /\ Brings(asked[d])
              /\ result'[d] = Index(flight[asked[d]].answer.rev)
<1>1. /\ pc \in [Callers -> {"idle", "called", "missed", "waiting", "failed",
                             "done"}]
      /\ result[d].kind # "index"
  <2>1. result[d] \in Results /\ result[d].rev = -1
    BY DEF TypeOK, CallsInv, CallInv
  <2>2. result[d].kind # "index"
    BY <2>1, ResultKinds, SizesAssumption
  <2> QED BY <2>2 DEF TypeOK
<1>2. ASSUME NEW c \in Callers, CallStep(c) PROVE Comes
  <2>1. CASE (\E r \in Repos : Call(c, r)) \/ Join(c) \/ Leave(c) \/ Finish(c)
    BY <1>1, <2>1 DEF Call, Join, Leave, Finish
  <2>2. CASE Lookup(c)
    <3>1. CASE Fresh(asked[c]) /\ Return({c}, asked[c], cache[asked[c]].rev)
      BY <1>1, <2>2, <3>1 DEF Lookup, Return
    <3>2. CASE UNCHANGED <<result, served>> /\ pc' = [pc EXCEPT ![c] = "missed"]
      BY <1>1, <3>2
    <3>3. CASE result' = [result EXCEPT ![c] = Error("denied")]
      <4>1. Error("denied").kind # "index"
        BY ResultKinds DEF Errors
      <4> QED BY <1>1, <3>3, <4>1
    <3> QED BY <2>2, <3>1, <3>2, <3>3 DEF Lookup
  <2>3. CASE Fallback(c)
    <3>1. CASE UNCHANGED result
      BY <1>1, <3>1
    <3>2. CASE /\ asked[c] \in DOMAIN cache /\ cache[asked[c]].age <= IndexStaleTTL
               /\ Return({c}, asked[c], cache[asked[c]].rev)
      BY <1>1, <2>3, <3>2 DEF Fallback, Return
    <3> QED BY <2>3, <3>1, <3>2 DEF Fallback
  <2> QED BY <1>2, <2>1, <2>2, <2>3 DEF CallStep
<1>3. ASSUME NEW r \in Repos, RepoStep(r) PROVE Comes
  <2>1. CASE Respond(r) \/ Publish(r)
    BY <1>1, <2>1 DEF Respond, Publish
  <2>2. ASSUME NEW kind \in Errors, Fail(r, kind) PROVE Comes
    BY <1>1, <2>2, ResultKinds DEF Fail
  <2>3. CASE /\ r \in DOMAIN flight /\ flight[r].answer.kind = "index"
             /\ Lands(r)
    <3>1. d \in Waiters(r)
      BY <1>1, <2>3 DEF Lands, Return
    <3> QED BY <2>3, <3>1 DEF Lands, Return, Waiters, Brings
  <2> QED BY <1>3, <2>1, <2>2, <2>3, RepoSteps
<1>4. CASE Tick \/ UNCHANGED vars
  BY <1>1, <1>4 DEF Tick, vars
<1> QED BY <1>2, <1>3, <1>4 DEF Next, CallStep, RepoStep

\* How far an answer lags, by the way it came (upstream.go:103, :140, :145).
THEOREM AnswersLagBoundedly == Spec => AnswersAreRecent
<1> DEFINE Recent ==
      \A c \in Callers :
          pc[c] # "done" /\ pc'[c] = "done" /\ result'[c].kind = "index" =>
             LET lag == superseded[asked[c]][result'[c].rev]
             IN  CASE pc[c] = "called"  -> lag < IndexTTL + Timeout
                   [] pc[c] = "waiting" -> lag <= Timeout
                   [] pc[c] = "failed"  -> lag <= IndexStaleTTL + Timeout
<1>1. IndexInv /\ [Next]_vars => [Recent]_vars
  <2> SUFFICES ASSUME IndexInv, [Next]_vars, NEW c \in Callers,
                      pc[c] # "done", pc'[c] = "done", result'[c].kind = "index"
               PROVE  LET lag == superseded[asked[c]][result'[c].rev]
                      IN  CASE pc[c] = "called"  -> lag < IndexTTL + Timeout
                            [] pc[c] = "waiting" -> lag <= Timeout
                            [] pc[c] = "failed"  -> lag <= IndexStaleTTL + Timeout
    OBVIOUS
  <2> DEFINE r == asked[c]
             lag == superseded[r][result'[c].rev]
  <2>1. TypeOK /\ CallsInv /\ pc[c] \in {"called", "waiting", "failed"}
        /\ AgesInv
    BY WhereAnIndexComesFrom DEF IndexInv
  <2>2. r \in Repos /\ AgeInv(r)
    BY <2>1 DEF CallsInv, CallInv, AgesInv
  <2>3. superseded \in [Repos -> [0 .. MaxRev -> 0 .. MaxLag + 1]]
    BY <2>1 DEF TypeOK
  <2>4. CASE pc[c] # "waiting"
    <3>1. /\ r \in DOMAIN cache /\ result'[c] = Index(cache[r].rev)
          /\ IF pc[c] = "called" THEN cache[r].age < IndexTTL
             ELSE pc[c] = "failed" /\ cache[r].age <= IndexStaleTTL
      BY <2>1, <2>4, WhereAnIndexComesFrom DEF Fresh
    <3>2. cache[r].rev \in 0 .. MaxRev /\ cache[r].age \in 0 .. maxAge + 1
      BY <2>1, <3>1, RevisionTypes
    <3>3. result'[c].rev = cache[r].rev
      BY <3>1, <3>2, ResultKinds
    <3>4. lag <= cache[r].age + Timeout /\ lag \in 0 .. MaxLag + 1
      BY <2>2, <2>3, <3>1, <3>2, <3>3 DEF AgeInv
    <3>5. IF pc[c] = "called" THEN lag < IndexTTL + Timeout
          ELSE pc[c] = "failed" /\ lag <= IndexStaleTTL + Timeout
      <4> HIDE DEF lag, r
      <4> QED BY <3>1, <3>2, <3>4, Times
    <3>6. CASE pc[c] = "called"
      BY <3>5, <3>6
    <3>7. CASE pc[c] = "failed"
      BY <3>5, <3>7
    <3> QED BY <3>5, <3>6, <3>7
  <2>5. CASE pc[c] = "waiting"
    <3>1. Brings(r) /\ result'[c] = Index(flight[r].answer.rev)
      BY <2>1, <2>5, WhereAnIndexComesFrom
    <3>2. flight[r].answer.rev \in 0 .. MaxRev /\ flight[r].age \in 0 .. Timeout
      BY <2>1, <3>1, RevisionTypes DEF Brings
    <3>3. result'[c].rev = flight[r].answer.rev
      BY <3>1, <3>2, ResultKinds
    <3>4. lag <= flight[r].age /\ lag \in 0 .. MaxLag + 1
      BY <2>2, <2>3, <3>1, <3>2, <3>3 DEF AgeInv
    <3>5. lag <= Timeout
      <4> HIDE DEF lag, r
      <4> QED BY <3>2, <3>4, Times
    <3> QED BY <2>5, <3>5
  <2> QED BY <2>4, <2>5
<1> QED BY <1>1, IndexInvariant, PTL DEF Spec, AnswersAreRecent

\* A 404 and a refused address are passed on, whatever the cache holds
\* (upstream.go:146).
THEOREM AuthorityIsNeverMasked == Spec => AuthorityIsFinal
<1> DEFINE Final ==
      \A c \in Callers :
          pc[c] = "failed" /\ result[c].kind \in {"notFound", "denied"} =>
             result'[c] \in {result[c], Pending}
<1>1. IndexInv /\ [Next]_vars => [Final]_vars
  <2> SUFFICES ASSUME IndexInv, [Next]_vars, NEW d \in Callers,
                      pc[d] = "failed", result[d].kind \in {"notFound", "denied"}
               PROVE  result'[d] \in {result[d], Pending}
    OBVIOUS
  <2>1. TypeOK /\ result \in [Callers -> Results]
    BY DEF IndexInv, TypeOK
  <2>2. ASSUME NEW c \in Callers, CallStep(c)
        PROVE  result'[d] \in {result[d], Pending}
    <3>1. CASE (\E r \in Repos : Call(c, r)) \/ Join(c) \/ Leave(c) \/ Finish(c)
      BY <2>1, <3>1 DEF Call, Join, Leave, Finish
    <3>2. CASE Lookup(c)
      <4>1. d # c
        BY <3>2 DEF Lookup
      <4> QED BY <2>1, <3>2, <4>1 DEF Lookup, Return
    <3>3. CASE Fallback(c)
      <4>1. CASE d = c
        BY <3>3, <4>1 DEF Fallback, Authoritative
      <4>2. CASE d # c
        BY <2>1, <3>3, <4>2 DEF Fallback, Return
      <4> QED BY <4>1, <4>2
    <3> QED BY <2>2, <3>1, <3>2, <3>3 DEF CallStep
  <2>3. ASSUME NEW r \in Repos, RepoStep(r)
        PROVE  result'[d] \in {result[d], Pending}
    <3>1. d \notin Waiters(r)
      BY DEF Waiters
    <3>2. CASE Respond(r) \/ Publish(r)
      BY <3>2 DEF Respond, Publish
    <3>3. ASSUME NEW kind \in Errors, Fail(r, kind) PROVE result'[d] = result[d]
      BY <3>1, <3>3 DEF Fail
    <3>4. CASE Lands(r)
      BY <3>1, <3>4 DEF Lands, Return
    <3> QED BY <2>1, <2>3, <3>2, <3>3, <3>4, RepoSteps
  <2>4. CASE Tick \/ UNCHANGED vars
    BY <2>4 DEF Tick, vars
  <2> QED BY <2>2, <2>3, <2>4 DEF Next, CallStep, RepoStep
<1> QED BY <1>1, IndexInvariant, PTL DEF Spec, AuthorityIsFinal
-----------------------------------------------------------------------------
(* The calls implement IndexRegister. *)

\* A step that moves no call in or out of the register, nor its contents.
LEMMA RegisterStutters ==
    ASSUME UNCHANGED <<published, served, asked, floor>>,
           \A c \in Callers :
              /\ pc'[c] = "idle" <=> pc[c] = "idle"
              /\ pc'[c] = "done" <=> pc[c] = "done"
              /\ result'[c].rev = result[c].rev
    PROVE  UNCHANGED Register!vars
BY DEF Register!vars

\* Returning an index that is no older than what was served gives it.
LEMMA ReturnGives ==
    ASSUME TypeOK, CallsInv, NEW r \in Repos, NEW cs \in SUBSET Callers,
           NEW rev \in 0 .. MaxRev, served[r] <= rev, rev <= published[r],
           \A c \in cs : pc[c] \notin {"idle", "done"} /\ asked[c] = r,
           Return(cs, r, rev), UNCHANGED <<published, asked, floor>>
    PROVE  Register!Next
<1>1. /\ served[r] \in 0 .. MaxRev /\ published[r] \in 0 .. MaxRev
      /\ MaxRev \in Nat
  BY SizesAssumption DEF TypeOK
<1>2. rev \in 0 .. published[r]
  BY <1>1
<1>3. ASSUME NEW c \in cs PROVE rev >= floor[c]
  <2>1. floor[c] <= served[r] /\ floor[c] \in 0 .. MaxRev
    BY DEF CallsInv, CallInv, TypeOK
  <2> QED BY <1>1, <2>1
<1>4. Index(rev).rev = rev
  BY ResultKinds
<1>5. Register!Give(r, cs, rev)
  BY <1>2, <1>3, <1>4 DEF Register!Give, Return
<1> QED BY <1>2, <1>5 DEF Register!Next

LEMMA RegisterInit == Init => Register!Init
BY ResultKinds DEF Init, Register!Init, Register!Nothing, Pending, Errors

LEMMA RegisterStep ==
    IndexInv /\ [Next]_vars => [Register!Next]_(Register!vars)
<1> SUFFICES ASSUME IndexInv, [Next]_vars
             PROVE  Register!Next \/ UNCHANGED Register!vars
  OBVIOUS
<1>1. /\ TypeOK /\ CallsInv /\ RevisionsInv
      /\ pc \in [Callers -> {"idle", "called", "missed", "waiting", "failed",
                             "done"}]
      /\ result \in [Callers -> Results]
  BY DEF IndexInv, TypeOK
<1>2. /\ \A c \in Callers : pc[c] # "done" => result[c].rev = -1
      /\ \A kind \in Errors : Error(kind).rev = -1
  BY <1>1, ResultKinds DEF CallsInv, CallInv
\* A call that is on is given what the cache holds.
<1>3. ASSUME NEW c \in Callers, pc[c] \in {"called", "failed"},
             asked[c] \in DOMAIN cache,
             Return({c}, asked[c], cache[asked[c]].rev),
             UNCHANGED <<published, asked, floor>>
      PROVE  Register!Next
  <2>1. asked[c] \in Repos /\ cache[asked[c]].rev \in 0 .. MaxRev
    BY <1>1, <1>3, RevisionTypes DEF TypeOK
  <2>2. /\ served[asked[c]] <= cache[asked[c]].rev
        /\ cache[asked[c]].rev <= published[asked[c]]
    BY <1>1, <1>3, <2>1 DEF RevisionsInv, RevisionInv
  <2> QED BY <1>1, <1>3, <2>1, <2>2, ReturnGives
\* A call that is on ends with an error.
<1>4. ASSUME NEW c \in Callers, pc[c] \in {"called", "failed"},
             pc' = [pc EXCEPT ![c] = "done"],
             result' = result \/ result' = [result EXCEPT ![c] = Error("denied")],
             UNCHANGED <<published, served, asked, floor>>
      PROVE  Register!Next
  <2>1. \A d \in Callers : result'[d].rev = result[d].rev
    BY <1>1, <1>2, <1>4 DEF Errors
  <2>2. Register!Refuse(c)
    BY <1>1, <1>4, <2>1 DEF Register!Refuse
  <2> QED BY <2>2 DEF Register!Next
<1>5. ASSUME NEW c \in Callers, CallStep(c)
      PROVE  Register!Next \/ UNCHANGED Register!vars
  <2>1. ASSUME NEW r \in Repos, Call(c, r) PROVE Register!Next
    <3>1. Register!Begin(c, r)
      BY <1>1, <2>1 DEF Call, Register!Begin, upstream
    <3> QED BY <3>1 DEF Register!Next
  <2>2. CASE Lookup(c)
    <3>1. CASE Fresh(asked[c]) /\ Return({c}, asked[c], cache[asked[c]].rev)
      BY <1>3, <2>2, <3>1 DEF Lookup, Fresh, upstream
    <3>2. CASE UNCHANGED <<result, served>> /\ pc' = [pc EXCEPT ![c] = "missed"]
      BY <1>1, <2>2, <3>2, RegisterStutters DEF Lookup, upstream
    <3>3. CASE /\ pc' = [pc EXCEPT ![c] = "done"]
               /\ result' = [result EXCEPT ![c] = Error("denied")]
               /\ UNCHANGED served
      BY <1>4, <2>2, <3>3 DEF Lookup, upstream
    <3> QED BY <2>2, <3>1, <3>2, <3>3 DEF Lookup
  <2>3. CASE Fallback(c)
    <3>1. CASE /\ asked[c] \in DOMAIN cache
               /\ Return({c}, asked[c], cache[asked[c]].rev)
      BY <1>3, <2>3, <3>1 DEF Fallback, upstream
    <3>2. CASE UNCHANGED <<result, served>> /\ pc' = [pc EXCEPT ![c] = "done"]
      BY <1>4, <2>3, <3>2 DEF Fallback, upstream
    <3> QED BY <2>3, <3>1, <3>2 DEF Fallback
  <2>4. CASE Join(c)
    BY <1>1, <2>4, RegisterStutters DEF Join, upstream
  <2>5. CASE Leave(c)
    BY <2>5, RegisterStutters DEF Leave, upstream
  <2>6. CASE Finish(c)
    <3>1. Register!Finish(c)
      BY <1>1, <1>2, <2>6
         DEF Finish, Register!Finish, Register!Nothing, Pending, Errors, upstream
    <3> QED BY <3>1 DEF Register!Next
  <2> QED BY <1>5, <2>1, <2>2, <2>3, <2>4, <2>5, <2>6 DEF CallStep
<1>6. ASSUME NEW r \in Repos, RepoStep(r)
      PROVE  Register!Next \/ UNCHANGED Register!vars
  <2>1. CASE Respond(r)
    BY <2>1, RegisterStutters DEF Respond, upstream
  <2>2. CASE Publish(r)
    <3>1. Register!Publish(r)
      BY <2>2 DEF Publish, Register!Publish
    <3> QED BY <3>1 DEF Register!Next
  <2>3. ASSUME NEW kind \in Errors, Fail(r, kind)
        PROVE  UNCHANGED Register!vars
    BY <1>1, <1>2, <2>3, RegisterStutters DEF Fail, Waiters, upstream
  <2>4. CASE /\ r \in DOMAIN flight /\ flight[r].answer.kind = "index"
             /\ Lands(r)
    <3>1. flight[r].answer.rev \in 0 .. MaxRev
      BY <1>1, <2>4, RevisionTypes
    <3>2. /\ served[r] <= flight[r].answer.rev
          /\ flight[r].answer.rev <= published[r]
      BY <1>1, <2>4 DEF RevisionsInv, RevisionInv, Brings
    <3>3. /\ Waiters(r) \in SUBSET Callers
          /\ \A c \in Waiters(r) : pc[c] \notin {"idle", "done"} /\ asked[c] = r
      BY DEF Waiters
    <3>4. Register!Next
      <4>1. Return(Waiters(r), r, flight[r].answer.rev)
            /\ UNCHANGED <<published, asked, floor>>
        BY <2>4 DEF Lands, upstream
      <4> QED BY <1>1, <3>1, <3>2, <3>3, <4>1, ReturnGives
    <3> QED BY <3>4
  <2> QED BY <1>1, <1>6, <2>1, <2>2, <2>3, <2>4, RepoSteps
<1>7. CASE Tick
  BY <1>7, RegisterStutters DEF Tick
<1>8. CASE UNCHANGED vars
  BY <1>8, RegisterStutters DEF vars, upstream
<1> QED BY <1>5, <1>6, <1>7, <1>8 DEF Next, CallStep, RepoStep

\* Caching, shared fetches, stale answers and evictions do not show in the
\* order of the answers: a repository reads like one register.
THEOREM IndexIsARegister == Spec => ReadsLikeARegister
BY RegisterInit, RegisterStep, IndexInvariant, PTL
   DEF Spec, ReadsLikeARegister, Register!Spec
=============================================================================
