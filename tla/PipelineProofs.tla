---------------------------- MODULE PipelineProofs ----------------------------
(***************************************************************************)
(* Who passes basicAuth, for every configuration, every set of addresses   *)
(* and any number of gateways.                                             *)
(***************************************************************************)
EXTENDS Pipeline, TLAPS

\* Everyone a request has to do with, and everyone the server sees of it.
Hops == {origin} \cup Range(path) \cup Range(claims)
Seen == {request.peer} \cup Range(request.forwarded)

\* What basicAuth decided by.
MayPass ==
    \/ Known(request.creds)
    \/ AuthBypassNets(cfg) # {} /\ chainWithin(request, AuthBypassNets(cfg))

\* The server sees exactly the hops, whatever was claimed and however many
\* gateways appended to it.
HopsInv ==
    at # "idle" =>
        /\ origin \in Clients /\ path \in Seq(Gateways) /\ claims \in Claims
        /\ request.forwarded \in Seq(Given)
        /\ Seen = Hops

\* A request is past basicAuth, or was denied, by MayPass alone.
DecisionInv ==
    /\ PastAuth /\ DOMAIN Users(cfg) # {} => MayPass
    /\ at \in {"replied", "done"} /\ recorder = 401 => ~MayPass
    /\ at \in {"observed", "admitted", "resolving"} => recorder = Ok
    /\ at \in {"admitted", "resolving"} =>
          request.target \notin DOMAIN Elsewhere

ConfigInv == cfg \in Configurations /\ NetworksParse(cfg)

PipelineInv == ConfigInv /\ HopsInv /\ DecisionInv
-----------------------------------------------------------------------------
LEMMA RangeOfAppend ==
    ASSUME NEW S, NEW s \in Seq(S), NEW x \in S
    PROVE  Range(Append(s, x)) = Range(s) \cup {x}
<1>1. DOMAIN Append(s, x) = DOMAIN s \cup {Len(s) + 1}
  OBVIOUS
<1>2. /\ \A i \in DOMAIN s : Append(s, x)[i] = s[i]
      /\ Append(s, x)[Len(s) + 1] = x
  OBVIOUS
<1> QED BY <1>1, <1>2, Zenon DEF Range

LEMMA RangeIsWithin ==
    ASSUME NEW S, NEW s \in Seq(S) PROVE Range(s) \subseteq S
BY DEF Range

\* Being within the parsed networks is being inside the configured ones.
LEMMA WithinIsInside ==
    ASSUME ConfigInv, NEW addr \in Given
    PROVE  addrWithin(addr, AuthBypassNets(cfg)) <=> Inside(addr)
<1>1. addr \in Addresses
  BY AddressesAssumption DEF Given, Range
<1>2. /\ cfg.AuthBypassNetworks \in Seq(Addresses)
      /\ \A i \in DOMAIN cfg.AuthBypassNetworks :
            /\ cfg.AuthBypassNetworks[i] \in Networks
            /\ cfg.AuthBypassNetworks[i].family # "junk"
  BY AddressesAssumption DEF ConfigInv, Networks, Range, NetworksParse
<1>3. ASSUME NEW i \in DOMAIN cfg.AuthBypassNetworks, addr.family # "junk"
      PROVE  Unmap(addr) = Normalize(cfg.AuthBypassNetworks[i])
                <=> addr.block = cfg.AuthBypassNetworks[i].block
  <2> DEFINE net == cfg.AuthBypassNetworks[i]
  <2>1. net \in Addresses /\ net \in Networks /\ net.family # "junk"
    BY <1>2
  <2>2. Unmap(addr).block = addr.block /\ Normalize(net).block = net.block
    BY <1>1, <2>1 DEF Unmap, Normalize, Addresses
  <2>3. addr.block = net.block => Unmap(addr) = Normalize(net)
    <3>1. SUFFICES ASSUME addr.block = net.block
                   PROVE  Unmap(addr) = Normalize(net)
      OBVIOUS
    <3>2. addr.family = "v6" <=> net.family = "v6"
      BY <1>3, <2>1, <3>1, FamiliesAssumption
    <3>3. Unmap(addr).family = Normalize(net).family
      BY <1>1, <1>3, <2>1, <3>2 DEF Unmap, Normalize, Addresses, Families
    <3>4. Unmap(addr) \in Addresses /\ Normalize(net) \in Addresses
      BY <1>1, <2>1 DEF Unmap, Normalize, Addresses, Families
    <3> QED BY <3>1, <3>3, <3>4, <2>2 DEF Addresses
  <2> QED BY <2>2, <2>3
<1> QED BY <1>3 DEF addrWithin, Inside, AuthBypassNets

\* A chain is within the networks when everyone on the way is inside.
LEMMA ChainIsWithin ==
    ASSUME ConfigInv, HopsInv, at # "idle"
    PROVE  /\ chainWithin(request, AuthBypassNets(cfg))
                 <=> \A hop \in Hops : Inside(hop)
           /\ \A hop \in Hops : hop \in Given
<1>1. \A hop \in Hops : hop \in Given
  BY DEF HopsInv, Hops, Given, Range
<1>2. chainWithin(request, AuthBypassNets(cfg))
         <=> \A hop \in Seen : addrWithin(hop, AuthBypassNets(cfg))
  BY DEF chainWithin, Seen, Range
<1> QED BY <1>1, <1>2, WithinIsInside DEF HopsInv
-----------------------------------------------------------------------------
LEMMA PipelineInvInit == Init => PipelineInv
BY DEF Init, PipelineInv, ConfigInv, HopsInv, DecisionInv, PastAuth, Loads

LEMMA HopsInvStep == HopsInv /\ [Next]_vars => HopsInv'
<1> SUFFICES ASSUME HopsInv, [Next]_vars PROVE HopsInv'
  OBVIOUS
<1>1. ASSUME NEW a \in Clients, NEW xff \in Claims, NEW creds \in Credentials,
             NEW t \in Routes, Send(a, xff, creds, t)
      PROVE  HopsInv'
  <2>1. xff \in Seq(Given)
    BY AddressesAssumption DEF Given, Range
  <2>2. /\ origin' = a /\ path' = << >> /\ claims' = xff
        /\ request'.peer = a /\ request'.forwarded = xff
    BY <1>1 DEF Send
  <2>3. Range(<< >>) = {}
    BY DEF Range
  <2>4. (Seen = Hops)'
    BY <2>2, <2>3 DEF Seen, Hops, Range
  <2> QED BY <2>1, <2>2, <2>4 DEF HopsInv
<1>2. ASSUME NEW g \in Gateways, Forward(g) PROVE HopsInv'
  <2>1. /\ origin \in Clients /\ path \in Seq(Gateways) /\ claims \in Claims
        /\ request.forwarded \in Seq(Given) /\ Seen = Hops
    BY <1>2 DEF Forward, HopsInv
  <2>2. request.peer \in Given
    <3>1. Range(path) \subseteq Gateways
      BY <2>1, RangeIsWithin
    <3>2. Range(claims) \subseteq Given
      BY <2>1 DEF Given
    <3> QED BY <2>1, <3>1, <3>2 DEF Seen, Hops, Given
  <2>3. /\ origin' = origin /\ claims' = claims /\ path' = Append(path, g)
        /\ request'.forwarded = Append(request.forwarded, request.peer)
        /\ request'.peer = g
    BY <1>2 DEF Forward
  <2>4. Range(path') = Range(path) \cup {g}
    BY <2>1, <2>3, RangeOfAppend
  <2>5. Range(request'.forwarded) = Range(request.forwarded) \cup {request.peer}
    BY <2>1, <2>2, <2>3, RangeOfAppend
  <2>6. (Seen = Hops)'
    BY <2>1, <2>3, <2>4, <2>5 DEF Seen, Hops
  <2> QED BY <2>1, <2>2, <2>3, <2>6 DEF HopsInv
<1>3. CASE /\ UNCHANGED <<origin, path, claims, request>>
           /\ at' # "idle" => at # "idle"
  BY <1>3 DEF HopsInv, Seen, Hops
<1>4. CASE Finish
  BY <1>4 DEF Finish, HopsInv
<1>5. CASE Observe \/ Admit \/ Route \/ Resolve \/ Log \/ UNCHANGED vars
  BY <1>5, <1>3 DEF Observe, Admit, Route, Resolve, Log, vars, travel
<1> QED BY <1>1, <1>2, <1>4, <1>5 DEF Next
-----------------------------------------------------------------------------
LEMMA DecisionInvStep == DecisionInv /\ [Next]_vars => DecisionInv'
<1> SUFFICES ASSUME DecisionInv, [Next]_vars PROVE DecisionInv'
  OBVIOUS
<1> USE DEF DecisionInv, PastAuth
<1>1. ASSUME NEW a \in Clients, NEW xff \in Claims, NEW creds \in Credentials,
             NEW t \in Routes, Send(a, xff, creds, t)
      PROVE  DecisionInv'
  BY <1>1 DEF Send
<1>2. ASSUME NEW g \in Gateways, Forward(g) PROVE DecisionInv'
  BY <1>2 DEF Forward
<1>3. CASE Observe
  BY <1>3 DEF Observe
<1>4. CASE Finish
  BY <1>4 DEF Finish
<1>5. ASSUME UNCHANGED <<cfg, request>> PROVE MayPass' <=> MayPass
  BY <1>5 DEF MayPass, Known, chainWithin, addrWithin, Users, AuthBypassNets
<1>6. CASE Admit
  <2>1. at = "observed" /\ recorder = Ok /\ UNCHANGED <<cfg, request>>
    BY <1>6 DEF Admit, travel
  <2>2. CASE request.target \in DOMAIN Elsewhere
    <3>1. at' = "replied" /\ recorder' = Elsewhere[request.target]
      BY <1>6, <2>2 DEF Admit, Reply
    <3>2. recorder' # 401
      BY <2>2, <3>1 DEF Elsewhere, Ok
    <3> QED BY <2>1, <2>2, <3>1, <3>2
  <2>3. CASE request.target \notin DOMAIN Elsewhere
    <3>1. CASE DOMAIN Users(cfg) = {} \/ MayPass
      <4>1. at' = "admitted" /\ recorder' = recorder
        BY <1>6, <2>3, <3>1 DEF Admit, MayPass
      <4> QED BY <2>1, <2>3, <3>1, <4>1, <1>5 DEF Users
    <3>2. CASE DOMAIN Users(cfg) # {} /\ ~MayPass
      <4>1. at' = "replied" /\ recorder' = 401
        BY <1>6, <2>3, <3>2 DEF Admit, MayPass, Reply
      <4> QED BY <2>1, <3>2, <4>1, <1>5
    <3> QED BY <3>1, <3>2
  <2> QED BY <2>2, <2>3
<1>7. CASE Route \/ Resolve
  <2>1. /\ at \in {"admitted", "resolving"} /\ recorder = Ok
        /\ request.target \notin DOMAIN Elsewhere
        /\ UNCHANGED <<cfg, request>>
    BY <1>7 DEF Route, Resolve, travel
  <2>2. DOMAIN Users(cfg) # {} => MayPass
    BY <2>1 DEF Ok
  <2>3. \/ at' = "resolving" /\ recorder' = Ok
        \/ at' = "replied" /\ recorder' # 401
    <3>1. CASE Route
      BY <3>1, <2>1 DEF Route, Reply, Refusals, Ok
    <3>2. CASE Resolve
      BY <3>2 DEF Resolve, Reply, StatusOf, Ok
    <3> QED BY <1>7, <3>1, <3>2
  <2> QED BY <2>1, <2>2, <2>3, <1>5
<1>8. CASE Log
  <2>1. at = "replied" /\ at' = "done" /\ UNCHANGED <<cfg, request, recorder>>
    BY <1>8 DEF Log, travel
  <2> QED BY <2>1, <1>5
<1>9. CASE UNCHANGED vars
  BY <1>9, <1>5 DEF vars
<1> QED BY <1>1, <1>2, <1>3, <1>4, <1>6, <1>7, <1>8, <1>9 DEF Next

LEMMA ConfigInvStep == ConfigInv /\ [Next]_vars => ConfigInv'
<1> SUFFICES ASSUME [Next]_vars PROVE cfg' = cfg
  BY DEF ConfigInv, NetworksParse
<1> QED BY DEF Next, Send, Forward, Observe, Admit, Route, Resolve, Log, Finish,
               vars, travel

THEOREM PipelineInvariant == Spec => []PipelineInv
<1>1. PipelineInv /\ [Next]_vars => PipelineInv'
  BY ConfigInvStep, HopsInvStep, DecisionInvStep DEF PipelineInv
<1> QED BY <1>1, PipelineInvInit, PTL DEF Spec

\* Whatever is configured, claimed and forwarded: without a password only those
\* get in whose whole way lies inside (middleware.go:95-101).
THEOREM OutsidersNeedAPassword == Spec => []AnonymousOnlyFromWithin
<1>1. PipelineInv => AnonymousOnlyFromWithin
  <2> SUFFICES ASSUME PipelineInv, PastAuth, DOMAIN Users(cfg) # {},
                      ~Known(request.creds)
               PROVE  Inside(origin) /\ \A i \in DOMAIN path : Inside(path[i])
    BY DEF AnonymousOnlyFromWithin
  <2>1. at # "idle" /\ chainWithin(request, AuthBypassNets(cfg))
    BY DEF PipelineInv, DecisionInv, MayPass, PastAuth
  <2>2. \A hop \in Hops : Inside(hop)
    BY <2>1, ChainIsWithin DEF PipelineInv
  <2> QED BY <2>2 DEF Hops, Range
<1> QED BY <1>1, PipelineInvariant, PTL

\* And nobody whose whole way lies inside is ever asked for one, in either
\* notation of an IPv4 address and of a network of such (config.go:165-168).
THEOREM InsidersGetIn == Spec => []InsidersNeedNoPassword
<1>1. PipelineInv => InsidersNeedNoPassword
  <2> SUFFICES ASSUME PipelineInv, recorder = 401, at \in {"replied", "done"}
               PROVE  /\ ~Known(request.creds)
                      /\ ~(/\ Inside(origin)
                           /\ \A i \in DOMAIN path : Inside(path[i])
                           /\ \A i \in DOMAIN claims : Inside(claims[i]))
    BY DEF InsidersNeedNoPassword
  <2>1. ~MayPass
    BY DEF PipelineInv, DecisionInv
  <2>2. ASSUME Inside(origin), \A i \in DOMAIN path : Inside(path[i]),
               \A i \in DOMAIN claims : Inside(claims[i])
        PROVE  FALSE
    <3>1. \A hop \in Hops : Inside(hop)
      BY <2>2 DEF Hops, Range
    <3>2. chainWithin(request, AuthBypassNets(cfg))
      BY <3>1, ChainIsWithin DEF PipelineInv
    <3>3. AuthBypassNets(cfg) # {}
      BY <2>2 DEF Inside, AuthBypassNets
    <3> QED BY <2>1, <3>2, <3>3 DEF MayPass
  <2> QED BY <2>1, <2>2 DEF MayPass
<1> QED BY <1>1, PipelineInvariant, PTL

\* The state is of its type, and the server runs with what Load accepted.
TypesInv ==
    /\ cfg \in Configurations /\ Loads(cfg)
    /\ at \in Places /\ auth \in Outcomes /\ recorder \in Statuses
    /\ DOMAIN Users(cfg) = {} => auth = NoOutcome
    /\ logged \in Seq([status : Statuses, auth : Outcomes])
    /\ path \in Seq(Gateways) /\ Len(path) <= MaxHops

\* The outcome is that of this request, and of its reply.
Attributed ==
    /\ auth.outcome = "denied" <=> recorder = 401
    /\ auth.user # "" => Known(request.creds) /\ auth.user = request.creds.user
    /\ (request.target \in DOMAIN Elsewhere \/ DOMAIN Users(cfg) = {})
          <=> auth = NoOutcome

\* Between observe and its defer nothing is logged; then this request is.
LogInv ==
    /\ at = "observed" => auth = NoOutcome
    /\ at \in {"observed", "admitted", "resolving", "replied"} => logged = << >>
    /\ at \in {"admitted", "resolving", "replied", "done"} => Attributed
    /\ at = "done" => logged = << [status |-> recorder, auth |-> auth] >>
-----------------------------------------------------------------------------
LEMMA TypesInvInit == Init => TypesInv
<1> SUFFICES ASSUME Init PROVE TypesInv
  OBVIOUS
<1>1. << >> \in Seq([status : Statuses, auth : Outcomes])
      /\ << >> \in Seq(Gateways) /\ Len(<< >>) <= MaxHops
  BY MaxHopsAssumption
<1>2. NoOutcome \in Outcomes /\ Ok \in Statuses
  BY DEF Outcomes, Statuses, Ok
<1> QED BY <1>1, <1>2 DEF Init, TypesInv, Places

LEMMA TypesInvStep == TypesInv /\ [Next]_vars => TypesInv'
<1> SUFFICES ASSUME TypesInv, [Next]_vars PROVE TypesInv'
  OBVIOUS
<1>1. ASSUME UNCHANGED cfg
      PROVE  /\ Outcomes' = Outcomes /\ Users(cfg)' = Users(cfg)
             /\ Loads(cfg') = Loads(cfg)
  BY <1>1 DEF Outcomes, Users
\* What a step leaves to be shown.
<1>2. ASSUME UNCHANGED cfg, at' \in Places, auth' \in Outcomes,
             recorder' \in Statuses, DOMAIN Users(cfg) = {} => auth' = NoOutcome,
             logged' \in Seq([status : Statuses, auth : Outcomes]),
             path' \in Seq(Gateways), Len(path') <= MaxHops
      PROVE  TypesInv'
  BY <1>1, <1>2 DEF TypesInv
<1>3. ASSUME NEW a \in Clients, NEW xff \in Claims, NEW creds \in Credentials,
             NEW t \in Routes, Send(a, xff, creds, t)
      PROVE  TypesInv'
  <2>1. path' = << >> /\ << >> \in Seq(Gateways) /\ Len(<< >>) <= MaxHops
    BY <1>3, MaxHopsAssumption DEF Send
  <2> QED BY <1>2, <1>3, <2>1 DEF Send, TypesInv, Places
<1>4. ASSUME NEW g \in Gateways, Forward(g) PROVE TypesInv'
  <2>1. /\ path' = Append(path, g) /\ path \in Seq(Gateways)
        /\ Len(path) < MaxHops
    BY <1>4 DEF Forward, TypesInv
  <2>2. path' \in Seq(Gateways) /\ Len(path') <= MaxHops
    BY <2>1, MaxHopsAssumption
  <2> QED BY <1>2, <1>4, <2>2 DEF Forward, TypesInv
<1>5. CASE Observe
  <2>1. /\ NoOutcome \in Outcomes /\ Ok \in Statuses
        /\ << >> \in Seq([status : Statuses, auth : Outcomes])
    BY DEF Outcomes, Statuses, Ok
  <2> QED BY <1>2, <1>5, <2>1 DEF Observe, travel, TypesInv, Places
<1>6. CASE Admit
  <2>1. /\ UNCHANGED <<cfg, path, logged>> /\ at' \in {"admitted", "replied"}
        /\ recorder' \in {recorder, 401} \cup
              {Elsewhere[x] : x \in DOMAIN Elsewhere}
    <3> DEFINE Others == {Elsewhere[x] : x \in DOMAIN Elsewhere}
    <3>1. request.target \in DOMAIN Elsewhere =>
             Elsewhere[request.target] \in Others
      OBVIOUS
    <3>2. UNCHANGED <<cfg, path, logged>>
      BY <1>6 DEF Admit, travel
    <3> HIDE DEF Others
    <3>3. CASE /\ request.target \in DOMAIN Elsewhere
               /\ Reply(Elsewhere[request.target])
      <4>1. at' = "replied" /\ recorder' = Elsewhere[request.target]
        BY <3>3 DEF Reply
      <4> QED BY <3>1, <3>2, <3>3, <4>1 DEF Others
    <3>4. CASE at' = "admitted" /\ UNCHANGED recorder
      BY <3>2, <3>4 DEF Others
    <3>5. CASE Reply(401)
      BY <3>2, <3>5 DEF Reply, Others
    <3> QED BY <1>6, <3>3, <3>4, <3>5 DEF Admit
  <2>2. recorder' \in Statuses
    BY <2>1 DEF TypesInv, Elsewhere, Statuses, Ok
  <2>3. \/ auth' = auth
        \/ DOMAIN Users(cfg) # {} /\ auth' \in {[outcome |-> "bypassed", user |-> ""],
                                               [outcome |-> "denied", user |-> ""]}
        \/ /\ Known(request.creds)
           /\ auth' = [outcome |-> "authenticated", user |-> request.creds.user]
    BY <1>6 DEF Admit
  <2>4. auth' \in Outcomes /\ (DOMAIN Users(cfg) = {} => auth' = NoOutcome)
    <3>1. CASE auth' = auth
      BY <3>1 DEF TypesInv
    <3>2. CASE /\ DOMAIN Users(cfg) # {}
               /\ auth' \in {[outcome |-> "bypassed", user |-> ""],
                            [outcome |-> "denied", user |-> ""]}
      <4>1. auth' \in [outcome : {"bypassed", "denied"}, user : {""}]
        <5>1. CASE auth' = [outcome |-> "bypassed", user |-> ""]
          BY <5>1
        <5>2. CASE auth' = [outcome |-> "denied", user |-> ""]
          BY <5>2
        <5> QED BY <3>2, <5>1, <5>2
      <4>2. auth' \in Outcomes
        BY <4>1 DEF Outcomes
      <4> QED BY <3>2, <4>2
    <3>3. CASE /\ Known(request.creds)
               /\ auth' = [outcome |-> "authenticated", user |-> request.creds.user]
      <4>1. request.creds.user \in DOMAIN Users(cfg)
        BY <3>3 DEF Known
      <4> QED BY <3>3, <4>1 DEF Outcomes
    <3> QED BY <2>3, <3>1, <3>2, <3>3
  <2> QED BY <1>2, <2>1, <2>2, <2>4 DEF TypesInv, Places
<1>7. CASE Route
  <2>1. /\ UNCHANGED <<cfg, path, logged, auth>> /\ at' \in {"replied", "resolving"}
        /\ recorder' \in {recorder, Ok} \cup {Refusals[x] : x \in DOMAIN Refusals}
    BY <1>7 DEF Route, Reply, travel
  <2>2. recorder' \in Statuses
    BY <2>1 DEF TypesInv, Refusals, Statuses, Ok
  <2> QED BY <1>2, <2>1, <2>2 DEF TypesInv, Places
<1>8. CASE Resolve
  <2>1. /\ UNCHANGED <<cfg, path, logged, auth>> /\ at' = "replied"
        /\ recorder' \in {Ok, 400, 500} \cup {StatusOf[x] : x \in DOMAIN StatusOf}
    BY <1>8 DEF Resolve, Reply, travel
  <2>2. recorder' \in Statuses
    BY <2>1 DEF StatusOf, Statuses, Ok
  <2> QED BY <1>2, <2>1, <2>2 DEF TypesInv, Places
<1>9. CASE Log
  <2> DEFINE line == [status |-> recorder, auth |-> auth]
  <2>1. line \in [status : Statuses, auth : Outcomes]
    BY DEF TypesInv
  <2>2. /\ logged' = Append(logged, line) /\ at' = "done"
        /\ UNCHANGED <<cfg, path, auth, recorder>>
    BY <1>9 DEF Log, travel
  <2> HIDE DEF line
  <2>3. logged' \in Seq([status : Statuses, auth : Outcomes])
    BY <2>1, <2>2 DEF TypesInv
  <2> QED BY <1>2, <2>2, <2>3 DEF TypesInv, Places
<1>10. CASE Finish
  <2>1. path' = << >> /\ << >> \in Seq(Gateways) /\ Len(<< >>) <= MaxHops
    BY <1>10, MaxHopsAssumption DEF Finish
  <2> QED BY <1>2, <1>10, <2>1 DEF Finish, TypesInv, Places
<1>11. CASE UNCHANGED vars
  BY <1>2, <1>11 DEF vars, TypesInv
<1> QED BY <1>3, <1>4, <1>5, <1>6, <1>7, <1>8, <1>9, <1>10, <1>11 DEF Next
-----------------------------------------------------------------------------
LEMMA LogInvStep == DecisionInv /\ LogInv /\ [Next]_vars => LogInv'
<1> SUFFICES ASSUME DecisionInv, LogInv, [Next]_vars PROVE LogInv'
  OBVIOUS
<1> USE DEF LogInv
<1>1. ASSUME UNCHANGED <<cfg, request, auth>>,
             recorder' = recorder \/ (recorder # 401 /\ recorder' # 401)
      PROVE  Attributed' <=> Attributed
  <2>1. recorder' = 401 <=> recorder = 401
    BY <1>1
  <2>2. Known(request.creds)' <=> Known(request.creds)
    BY <1>1 DEF Known, Users
  <2>3. /\ auth' = auth /\ request'.target = request.target
        /\ request'.creds = request.creds /\ cfg' = cfg
    BY <1>1
  <2>4. /\ auth'.outcome = "denied" <=> auth.outcome = "denied"
        /\ auth'.user # "" <=> auth.user # ""
        /\ auth' = NoOutcome <=> auth = NoOutcome
        /\ auth'.user = request'.creds.user <=> auth.user = request.creds.user
    BY <2>3
  <2>5. /\ request'.target \in DOMAIN Elsewhere <=> request.target \in DOMAIN Elsewhere
        /\ DOMAIN Users(cfg') = {} <=> DOMAIN Users(cfg) = {}
    BY <2>3
  <2>6. (auth'.outcome = "denied" <=> recorder' = 401)
           <=> (auth.outcome = "denied" <=> recorder = 401)
    BY <2>1, <2>4
  <2>7. (auth'.user # "" => (Known(request.creds)' /\ auth'.user = request'.creds.user))
           <=> (auth.user # "" => (Known(request.creds) /\ auth.user = request.creds.user))
    BY <2>2, <2>4
  <2>8. ((request'.target \in DOMAIN Elsewhere \/ DOMAIN Users(cfg') = {})
              <=> auth' = NoOutcome)
           <=> ((request.target \in DOMAIN Elsewhere \/ DOMAIN Users(cfg) = {})
                   <=> auth = NoOutcome)
    BY <2>4, <2>5
  <2> QED BY <2>6, <2>7, <2>8 DEF Attributed
<1>2. CASE \/ \E a \in Clients, xff \in Claims, creds \in Credentials,
                 t \in Routes : Send(a, xff, creds, t)
           \/ \E g \in Gateways : Forward(g)
  <2>1. at' = "sent"
    BY <1>2 DEF Send, Forward
  <2> QED BY <2>1
<1>3. CASE Observe
  BY <1>3 DEF Observe
<1>4. CASE Admit
  <2>1. /\ at = "observed" /\ auth = NoOutcome /\ recorder = Ok /\ logged = << >>
        /\ UNCHANGED <<cfg, request, logged>>
    BY <1>4 DEF Admit, travel, DecisionInv
  <2>2. Known(request.creds)' <=> Known(request.creds)
    BY <2>1 DEF Known, Users
  <2>3. Users(cfg)' = Users(cfg)
    BY <2>1
  <2>4. Attributed'
    <3>1. CASE /\ request.target \in DOMAIN Elsewhere
               /\ recorder' = Elsewhere[request.target] /\ UNCHANGED auth
      <4>1. recorder' # 401
        BY <3>1 DEF Elsewhere, Ok
      <4> QED BY <2>1, <3>1, <4>1 DEF Attributed, NoOutcome
    <3>2. CASE /\ request.target \notin DOMAIN Elsewhere
               /\ DOMAIN Users(cfg) = {} /\ UNCHANGED <<auth, recorder>>
      <4>1. auth' = NoOutcome /\ auth'.outcome = "" /\ auth'.user = ""
        BY <2>1, <3>2 DEF NoOutcome
      <4>2. recorder' = 200
        BY <2>1, <3>2 DEF Ok
      <4>3. recorder' # 401
        BY <4>2
      <4>4. DOMAIN Users(cfg') = {}
        BY <2>1, <3>2
      <4> QED BY <4>1, <4>3, <4>4 DEF Attributed
    <3>3. CASE /\ request.target \notin DOMAIN Elsewhere
               /\ DOMAIN Users(cfg) # {} /\ UNCHANGED recorder
               /\ auth' = [outcome |-> "bypassed", user |-> ""]
      <4>1. auth'.outcome # "denied"
        BY <3>3
      <4>2. recorder' = 200
        BY <2>1, <3>3 DEF Ok
      <4>3. recorder' # 401
        BY <4>2
      <4>4. auth'.user = ""
        BY <3>3
      <4>5. auth' # NoOutcome
        BY <3>3 DEF NoOutcome
      <4>6. ~ (request'.target \in DOMAIN Elsewhere \/ DOMAIN Users(cfg') = {})
        BY <2>1, <3>3
      <4> QED BY <4>1, <4>3, <4>4, <4>5, <4>6 DEF Attributed
    <3>4. CASE /\ request.target \notin DOMAIN Elsewhere
               /\ DOMAIN Users(cfg) # {} /\ UNCHANGED recorder
               /\ Known(request.creds)
               /\ auth' = [outcome |-> "authenticated", user |-> request.creds.user]
      <4>1. auth'.outcome # "denied"
        BY <3>4
      <4>2. recorder' = 200
        BY <2>1, <3>4 DEF Ok
      <4>3. recorder' # 401
        BY <4>2
      <4>4. auth'.user = request'.creds.user /\ Known(request.creds)'
        BY <2>1, <2>2, <3>4
      <4>5. auth' # NoOutcome
        BY <3>4 DEF NoOutcome
      <4>6. ~ (request'.target \in DOMAIN Elsewhere \/ DOMAIN Users(cfg') = {})
        BY <2>1, <3>4
      <4> QED BY <4>1, <4>3, <4>4, <4>5, <4>6 DEF Attributed
    <3>5. CASE /\ request.target \notin DOMAIN Elsewhere
               /\ DOMAIN Users(cfg) # {} /\ recorder' = 401
               /\ auth' = [outcome |-> "denied", user |-> ""]
      BY <2>1, <2>3, <3>5 DEF Attributed, NoOutcome
    <3> QED BY <1>4, <3>1, <3>2, <3>3, <3>4, <3>5 DEF Admit, Reply
  <2>5. at' \in {"admitted", "replied"}
    BY <1>4 DEF Admit, Reply
  <2> QED BY <2>1, <2>4, <2>5
<1>5. CASE Route \/ Resolve
  <2>1. /\ at \in {"admitted", "resolving"} /\ recorder = Ok
        /\ UNCHANGED <<cfg, request, auth, logged>>
    BY <1>5 DEF Route, Resolve, travel, DecisionInv
  <2>2. at' \in {"resolving", "replied"} /\ recorder' # 401
    <3>1. CASE Route
      BY <3>1, <2>1 DEF Route, Reply, Refusals, Ok
    <3>2. CASE Resolve
      BY <3>2 DEF Resolve, Reply, StatusOf, Ok
    <3> QED BY <1>5, <3>1, <3>2
  <2>3. Attributed'
    BY <2>1, <2>2, <1>1 DEF Ok
  <2> QED BY <2>1, <2>2, <2>3
<1>6. CASE Log
  <2>1. /\ at = "replied" /\ at' = "done" /\ UNCHANGED <<cfg, request, auth, recorder>>
        /\ logged' = Append(<< >>, [status |-> recorder, auth |-> auth])
    BY <1>6 DEF Log, travel
  <2>2. logged' = << [status |-> recorder, auth |-> auth] >>
    BY <2>1
  <2> QED BY <2>1, <2>2, <1>1
<1>7. CASE Finish
  BY <1>7 DEF Finish
<1>8. CASE UNCHANGED vars
  BY <1>8, <1>1 DEF vars
<1> QED BY <1>2, <1>3, <1>4, <1>5, <1>6, <1>7, <1>8 DEF Next

\* The state is of its type; an outcome names a user of the configuration that
\* Load accepted, and only when it is "authenticated" (middleware.go:81).
THEOREM PipelineTypes == Spec => []TypeOK
<1>1. TypesInv => TypeOK
  BY DEF TypesInv, TypeOK, Loads, validate, OptionsValid
<1> QED BY <1>1, TypesInvInit, TypesInvStep, PTL DEF Spec

\* Whatever becomes of a request, the one line that is logged of it has the
\* status of its reply and the outcome of its own authentication.
THEOREM LogsTellTheTruth == Spec => []LoggedAsAnswered
<1>1. Init => LogInv
  BY DEF Init, LogInv
<1>2. LogInv => LoggedAsAnswered
  <2> SUFFICES ASSUME LogInv, at = "done" PROVE LoggedAsAnswered
    BY DEF LoggedAsAnswered
  <2>1. Attributed /\ logged = << [status |-> recorder, auth |-> auth] >>
    BY DEF LogInv
  <2>2. /\ Len(logged) = 1 /\ logged[1].status = recorder
        /\ logged[1].auth = auth
    BY <2>1
  <2> QED BY <2>1, <2>2 DEF Attributed, LoggedAsAnswered
<1>3. PipelineInv => DecisionInv
  BY DEF PipelineInv
<1> QED BY <1>1, <1>2, <1>3, LogInvStep, PipelineInvariant, PTL DEF Spec
=============================================================================
