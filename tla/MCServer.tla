------------------------------- MODULE MCServer -------------------------------
(***************************************************************************)
(* Environments a process may be started with.                             *)
(***************************************************************************)
EXTENDS Server, MCConfig

\* Both listeners on one port is refused when there are two.
OnePort == [Default EXCEPT !.MetricsPort = 8080]

NoMetrics == [OnePort EXCEPT !.MetricsEnabled = FALSE]

Signing == [NoMetrics EXCEPT !.SigningKey = "good"]

BadKey == [Default EXCEPT !.SigningKey = "bad"]

SomeConfigurations == {Default, OnePort, NoMetrics, Signing, BadKey}
=============================================================================
