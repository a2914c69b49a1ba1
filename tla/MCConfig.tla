------------------------------- MODULE MCConfig -------------------------------
(***************************************************************************)
(* The environment the instances of Pipeline and Server start from.        *)
(***************************************************************************)

\* The defaults of Config, without a signing key.
Default ==
    [Port |-> 8080, MetricsPort |-> 8081, MetricsEnabled |-> TRUE,
     Auth |-> << >>, AuthBypassNetworks |-> << >>,
     IndexTTL |-> 5, IndexStaleTTL |-> 1440, UpstreamTimeout |-> 1,
     ShutdownTimeout |-> 1, CacheMaxBytes |-> 256, MaxIndexBytes |-> 64,
     MaxChartBytes |-> 32, ResolveScanLimit |-> 25,
     RewriteDependencies |-> FALSE, ProvenanceEnabled |-> FALSE,
     ExternalHost |-> "", LogFormat |-> "json", SigningKey |-> "none"]
=============================================================================
