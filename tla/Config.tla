-------------------------------- MODULE Config --------------------------------
(***************************************************************************)
(* internal/config/config.go: what Load makes of the environment, and what *)
(* it refuses.  A configuration is a record with the fields of Config.     *)
(*                                                                         *)
(* Auth is the sequence of its comma-separated entries, each cut at its    *)
(* first colon; AuthBypassNetworks the sequence of its prefixes.  An       *)
(* address or a prefix is its notation and its block of addresses; an IPv4 *)
(* block may be written "mapped", as IPv6.  "junk" does not parse.         *)
(***************************************************************************)
EXTENDS Integers, SequencesExt

Families == {"v4", "mapped", "v6", "junk"}

\* Entries that are blank are passed over.
Pairs(auth) == SelectSeq(auth, LAMBDA e : e.colon \/ e.user # "")

AuthParses(auth) ==
    \A i \in DOMAIN Pairs(auth) :
        LET e == Pairs(auth)[i] IN e.colon /\ e.user # "" /\ e.pass # ""

\* The passwords of the users; of two for one user the last one counts.
parseAuth(auth) ==
    LET pairs == Pairs(auth) IN
    [u \in {pairs[i].user : i \in DOMAIN pairs} |->
        pairs[Max({i \in DOMAIN pairs : pairs[i].user = u})].pass]

Unmap(addr) ==
    IF addr.family = "mapped" THEN [addr EXCEPT !.family = "v4"] ELSE addr

\* Mutant: a prefix is taken as it is written.
AsWritten(prefix) == prefix

\* A mapped prefix, of 96 bits or more, becomes the IPv4 prefix it stands for.
Normalize(prefix) == Unmap(prefix)

NetworksParse(c) ==
    \A i \in DOMAIN c.AuthBypassNetworks : c.AuthBypassNetworks[i].family # "junk"

Users(c) == parseAuth(c.Auth)

AuthBypassNets(c) ==
    {Normalize(c.AuthBypassNetworks[i]) : i \in DOMAIN c.AuthBypassNetworks}

Ports == 1 .. 65535

\* Mutant: the two ports may be one.
PortsInRange(c) == c.Port \in Ports /\ c.MetricsPort \in Ports

PortsValid(c) ==
    /\ c.Port \in Ports /\ c.MetricsPort \in Ports
    /\ c.MetricsEnabled => c.Port # c.MetricsPort

LimitsValid(c) ==
    /\ c.IndexTTL > 0 /\ c.UpstreamTimeout > 0 /\ c.ShutdownTimeout > 0
    /\ c.IndexStaleTTL >= 0
    /\ c.CacheMaxBytes >= 1 /\ c.MaxIndexBytes >= 1 /\ c.MaxChartBytes >= 1
    /\ c.ResolveScanLimit >= 1

\* Mutant: bypass networks are accepted without users.
OptionsUnguarded(c) ==
    /\ c.RewriteDependencies => c.ExternalHost # "" /\ ~c.ProvenanceEnabled
    /\ c.ExternalHost \in {"", "bare"}

\* ExternalHost is "", a "bare" host, or anything with a "/" in it.
OptionsValid(c) ==
    /\ c.RewriteDependencies => c.ExternalHost # "" /\ ~c.ProvenanceEnabled
    /\ c.ExternalHost \in {"", "bare"}
    /\ AuthBypassNets(c) # {} => DOMAIN Users(c) # {}

validate(c) ==
    /\ PortsValid(c) /\ LimitsValid(c) /\ OptionsValid(c)
    /\ c.LogFormat \in {"json", "text"}

\* Load returns a configuration, and no error.
Loads(c) == AuthParses(c.Auth) /\ NetworksParse(c) /\ validate(c)
=============================================================================
