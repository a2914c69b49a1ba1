------------------------------- MODULE Pipeline -------------------------------
(***************************************************************************)
(* A request on its way through the handler chain of                       *)
(* internal/registry/handler.go and middleware.go: observe, recoverer,     *)
(* basicAuth, handleV2 and dispatch, a handler, and back to the access     *)
(* log.  Requests share nothing but the configuration, so the module       *)
(* follows those of one connection, one after the other.                   *)
(*                                                                         *)
(* A client sends a request from its true address, with any forwarded      *)
(* hops it may claim; each gateway on the way appends the address it       *)
(* received the request from and is the peer of the next one.              *)
(***************************************************************************)
EXTENDS Config

CONSTANTS
    Configurations,   \* environments the server may have been started with
    Clients,          \* addresses requests come from
    Gateways,         \* addresses of gateways on the way
    Claims,           \* X-Forwarded-For entries a client may send
    Credentials,      \* [user, pass] records; a user "" stands for none sent
    MaxHops           \* bound: gateways on the way

Addresses == [family : Families, block : STRING]

ASSUME MaxHopsAssumption == MaxHops \in Nat

ASSUME AddressesAssumption ==
    /\ Clients \cup Gateways \subseteq Addresses
    /\ Claims \subseteq Seq(Addresses)
    /\ \A c \in Configurations : c.AuthBypassNetworks \in Seq(Addresses)

\* The addresses a request may carry, and those of the networks.
Given == Clients \cup Gateways \cup UNION {Range(xff) : xff \in Claims}
Networks == UNION {Range(c.AuthBypassNetworks) : c \in Configurations}

\* A block is of IPv6 or of IPv4 addresses; one of the latter may be written in
\* two ways.
ASSUME FamiliesAssumption ==
    \A addr \in Given, net \in Networks :
        addr.family # "junk" /\ addr.block = net.block =>
            (addr.family = "v6" <=> net.family = "v6")

VARIABLES
    cfg,      \* the configuration
    at,       \* where the request is
    origin,   \* the true address of its client
    path,     \* the gateways it came by
    claims,   \* what the client put in X-Forwarded-For
    request,  \* what the server sees: peer, forwarded, credentials, target
    auth,     \* the authOutcome observe has put in the request's context
    recorder, \* the status in the statusRecorder
    logged    \* the access log lines of the request: [status, auth]

vars == <<cfg, at, origin, path, claims, request, auth, recorder, logged>>

travel == <<cfg, origin, path, claims, request>>

NoOutcome == [outcome |-> "", user |-> ""]
Ok == 200
NoRequest == [peer |-> [family |-> "junk", block |-> ""], forwarded |-> << >>,
              creds |-> [user |-> "", pass |-> ""], target |-> ""]

Init ==
    /\ cfg \in {c \in Configurations : Loads(c)}
    /\ at = "idle"
    /\ origin = NoRequest.peer /\ path = << >> /\ claims = << >>
    /\ request = NoRequest
    /\ auth = NoOutcome /\ recorder = Ok /\ logged = << >>
-----------------------------------------------------------------------------
(* On the way to the server. *)

\* What handler's mux and handleV2 tell apart: probes, paths the mux moves to
\* their clean form, other paths, then under /v2/ the API root, requests that
\* are refused, and references.
Routes == {"probe", "moved", "other", "root", "readOnly", "unsupported", "badName",
           "badReference", "tags", "tag", "signature", "digest", "blob"}

Send(a, xff, creds, target) ==
    /\ at = "idle"
    /\ at' = "sent"
    /\ origin' = a /\ path' = << >> /\ claims' = xff
    /\ request' = [peer |-> a, forwarded |-> xff, creds |-> creds,
                   target |-> target]
    /\ UNCHANGED <<cfg, auth, recorder, logged>>

Forward(g) ==
    /\ at = "sent" /\ Len(path) < MaxHops
    /\ path' = Append(path, g)
    /\ request' = [request EXCEPT !.forwarded = Append(@, request.peer),
                                  !.peer = g]
    /\ UNCHANGED <<cfg, at, origin, claims, auth, recorder, logged>>

\* Mutant: the holder of the outcome is shared by all requests.
ObserveShared ==
    /\ at = "sent"
    /\ at' = "observed"
    /\ recorder' = Ok /\ logged' = << >>
    /\ UNCHANGED <<travel, auth>>

\* observe seeds the holder of the outcome and a recorder of its own.
Observe ==
    /\ at = "sent"
    /\ at' = "observed"
    /\ auth' = NoOutcome /\ recorder' = Ok /\ logged' = << >>
    /\ UNCHANGED travel
-----------------------------------------------------------------------------
(* basicAuth *)

addrWithin(addr, nets) == addr.family # "junk" /\ Unmap(addr) \in nets

\* Mutant: the peer is trusted to have checked who it forwards for.
PeerWithin(r, nets) == addrWithin(r.peer, nets)

chainWithin(r, nets) ==
    /\ addrWithin(r.peer, nets)
    /\ \A i \in DOMAIN r.forwarded : addrWithin(r.forwarded[i], nets)

\* The credentials are those of a user.
Known(creds) ==
    creds.user \in DOMAIN Users(cfg) /\ Users(cfg)[creds.user] = creds.pass

\* What the mux answers without the API.
Elsewhere == [probe |-> Ok, other |-> 404, moved |-> 301]

Reply(status) == at' = "replied" /\ recorder' = status

\* The mux, and basicAuth in front of /v2/.
Admit ==
    /\ at = "observed"
    /\ \/ /\ request.target \in DOMAIN Elsewhere
          /\ Reply(Elsewhere[request.target])
          /\ UNCHANGED auth
       \/ /\ request.target \notin DOMAIN Elsewhere
          /\ IF DOMAIN Users(cfg) = {}
             THEN at' = "admitted" /\ UNCHANGED <<auth, recorder>>
             ELSE IF /\ AuthBypassNets(cfg) # {}
                     /\ chainWithin(request, AuthBypassNets(cfg))
             THEN /\ at' = "admitted"
                  /\ auth' = [outcome |-> "bypassed", user |-> ""]
                  /\ UNCHANGED recorder
             ELSE IF Known(request.creds)
             THEN /\ at' = "admitted"
                  /\ auth' = [outcome |-> "authenticated",
                              user |-> request.creds.user]
                  /\ UNCHANGED recorder
             ELSE /\ auth' = [outcome |-> "denied", user |-> ""]
                  /\ Reply(401)
    /\ UNCHANGED <<travel, logged>>
-----------------------------------------------------------------------------
(* handleV2, dispatch and the handlers. *)

Refusals == [readOnly |-> 405, unsupported |-> 404, badName |-> 400,
             badReference |-> 400]

\* handleV2 and dispatch answer what needs no resolver.
Route ==
    /\ at = "admitted"
    /\ \/ request.target = "root" /\ Reply(Ok)
       \/ request.target \in DOMAIN Refusals /\ Reply(Refusals[request.target])
       \/ /\ request.target \notin {"root"} \cup DOMAIN Refusals
          /\ at' = "resolving" /\ UNCHANGED recorder
    /\ UNCHANGED <<travel, auth, logged>>

\* writeResolveError, over the errors of Resolver and IndexClient.
StatusOf ==
    [notFound |-> 404, chartUnknown |-> 404, versionUnknown |-> 404,
     blobUnknown |-> 404, mismatch |-> 404, denied |-> 403, canceled |-> 504,
     timeout |-> 504, fault |-> 502, malformed |-> 502, badURL |-> 502]

\* The handler writes what was resolved, or maps the error; tags/list may yet
\* refuse its n.  A panic before the first byte is turned into a reply by
\* recoverer.
Resolve ==
    /\ at = "resolving"
    /\ \/ Reply(Ok)
       \/ \E err \in DOMAIN StatusOf : Reply(StatusOf[err])
       \/ request.target = "tags" /\ Reply(400)
       \/ Reply(500)
    /\ UNCHANGED <<travel, auth, logged>>

\* observe, in a defer: the access log, unless DisableRequestLogs, and the
\* request counters.
Log ==
    /\ at = "replied"
    /\ at' = "done"
    /\ logged' = Append(logged, [status |-> recorder, auth |-> auth])
    /\ UNCHANGED <<travel, auth, recorder>>

Finish ==
    /\ at = "done"
    /\ at' = "idle"
    /\ origin' = NoRequest.peer /\ path' = << >> /\ claims' = << >>
    /\ request' = NoRequest
    /\ UNCHANGED <<cfg, auth, recorder, logged>>

Next ==
    \/ \E a \in Clients, xff \in Claims, creds \in Credentials, t \in Routes :
          Send(a, xff, creds, t)
    \/ \E g \in Gateways : Forward(g)
    \/ Observe \/ Admit \/ Route \/ Resolve \/ Log \/ Finish

Spec == Init /\ [][Next]_vars
-----------------------------------------------------------------------------
(* Properties *)

Places == {"idle", "sent", "observed", "admitted", "resolving", "replied",
           "done"}

Outcomes ==
    {NoOutcome} \cup [outcome : {"bypassed", "denied"}, user : {""}]
    \cup [outcome : {"authenticated"}, user : DOMAIN Users(cfg)]

Statuses == {200, 301} \cup 400 .. 504

\* The server runs with a configuration that Load accepts, which has bypass
\* networks only where it has users; an outcome names a user of that
\* configuration only when it is "authenticated" (middleware.go:81).
TypeOK ==
    /\ cfg \in Configurations
    /\ AuthBypassNets(cfg) # {} => DOMAIN Users(cfg) # {}
    /\ at \in Places
    /\ auth \in Outcomes
    /\ DOMAIN Users(cfg) = {} => auth = NoOutcome
    /\ recorder \in Statuses
    /\ logged \in Seq([status : Statuses, auth : Outcomes])
    /\ Len(path) <= MaxHops

\* An address is inside when a configured network has its block, in either
\* notation of an IPv4 block.
Inside(addr) ==
    /\ addr.family # "junk"
    /\ \E i \in DOMAIN cfg.AuthBypassNetworks :
          cfg.AuthBypassNetworks[i].block = addr.block

\* The request has passed basicAuth.
PastAuth ==
    /\ at \in {"admitted", "resolving", "replied", "done"}
    /\ request.target \notin DOMAIN Elsewhere
    /\ recorder # 401

\* With users configured, a request is served without the password of one only
\* when its client and every gateway it came by lie inside, whatever hops the
\* client claims (middleware.go:95-101).
AnonymousOnlyFromWithin ==
    PastAuth /\ DOMAIN Users(cfg) # {} =>
        \/ Known(request.creds)
        \/ /\ Inside(origin)
           /\ \A i \in DOMAIN path : Inside(path[i])

\* A request whose client, gateways and claimed hops are all inside is never
\* asked for a password, in either notation of an IPv4 address and of a
\* network of such (config.go:165-168), nor one that brings the password.
InsidersNeedNoPassword ==
    recorder = 401 /\ at \in {"replied", "done"} =>
        /\ ~Known(request.creds)
        /\ ~(/\ Inside(origin)
             /\ \A i \in DOMAIN path : Inside(path[i])
             /\ \A i \in DOMAIN claims : Inside(claims[i]))

\* Every request, one that panicked too, is logged once, with the status of
\* its reply and with what basicAuth made of this request: denied exactly when
\* it is answered 401, a user exactly when the request came with the user's
\* password and not by the bypass, nothing when it never met basicAuth
\* (middleware.go:76-80, 169-177).
LoggedAsAnswered ==
    at = "done" =>
        /\ Len(logged) = 1
        /\ logged[1].status = recorder
        /\ logged[1].auth.outcome = "denied" <=> recorder = 401
        /\ logged[1].auth.user # "" =>
              Known(request.creds) /\ logged[1].auth.user = request.creds.user
        /\ request.target \in DOMAIN Elsewhere \/ DOMAIN Users(cfg) = {}
              <=> logged[1].auth = NoOutcome
=============================================================================
