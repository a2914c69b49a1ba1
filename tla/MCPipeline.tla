------------------------------ MODULE MCPipeline ------------------------------
(***************************************************************************)
(* Environments a server may be started with, and the addresses around it. *)
(***************************************************************************)
EXTENDS Pipeline, MCConfig

Addr(family, block) == [family |-> family, block |-> block]

User(user, pass) == [user |-> user, pass |-> pass, colon |-> TRUE]

\* One user of two entries, the second of which counts, and a blank one.
Guarded ==
    [Default EXCEPT !.Auth = <<User("flux", "old"), User("flux", "pw"),
                               [user |-> "", pass |-> "", colon |-> FALSE]>>]

\* Two networks, one of them IPv4 written as IPv6.
Bypassing ==
    [Guarded EXCEPT !.AuthBypassNetworks =
        <<Addr("mapped", "pods"), Addr("v6", "lan6")>>]

\* Bypass networks without users, which Load refuses.
Misconfigured == [Bypassing EXCEPT !.Auth = << >>]

SomeConfigurations == {Default, Guarded, Bypassing, Misconfigured}

SomeClients == {Addr("v4", "pods"), Addr("mapped", "pods"), Addr("v6", "lan6"),
                Addr("v4", "wan")}

SomeGateways == {Addr("v4", "pods"), Addr("v4", "wan")}

SomeClaims == {<< >>, <<Addr("v4", "pods")>>, <<Addr("junk", "")>>}

SomeCredentials ==
    {[user |-> "", pass |-> ""], [user |-> "flux", pass |-> "pw"],
     [user |-> "flux", pass |-> "old"]}
=============================================================================
