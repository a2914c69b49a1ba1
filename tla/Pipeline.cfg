SPECIFICATION Spec

CONSTANTS
    Configurations <- SomeConfigurations
    Clients <- SomeClients
    Gateways <- SomeGateways
    Claims <- SomeClaims
    Credentials <- SomeCredentials
    MaxHops = 2

INVARIANTS
    TypeOK
    AnonymousOnlyFromWithin
    InsidersNeedNoPassword
    LoggedAsAnswered
