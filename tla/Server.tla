-------------------------------- MODULE Server --------------------------------
(***************************************************************************)
(* The life of the process: cmd/ocharted/main.go run, internal/registry/   *)
(* registry.go Run, serve and shutdown, and of net/http's Server what they *)
(* rely on.  Goroutines: the main one, one per listener, the one that      *)
(* drains, and one that re-arms the default signal handler.                *)
(***************************************************************************)
EXTENDS Config

CONSTANTS
    Configurations,   \* environments the process may be started with
    Connections       \* bound: connections clients may open

Servers == {"registry", "metrics"}

ASSUME ConfigurationsHaveKeys ==
    \A c \in Configurations : c.SigningKey \in {"none", "good", "bad"}

VARIABLES
    cfg,       \* the configuration; SigningKey is what its file holds
    main,      \* the main goroutine: "boot", "load", "run", "exited"
    signals,   \* what a signal does: "default" kills, "notify" cancels
    cancelled, \* the context of NotifyContext is cancelled
    status,    \* how the process ended: "none", "0", "1", "killed"
    broken,    \* listeners whose port is taken or whose socket fails
    serving,   \* ListenAndServe of each server
    down,      \* servers whose Shutdown was called
    drain,     \* the draining goroutine: the server it is at
    expired,   \* ShutdownTimeout has passed since the drain began
    conn       \* connections: the server and net/http's ConnState

process == <<cfg, main, signals, cancelled, status>>
listeners == <<broken, serving>>
draining == <<down, drain, expired>>
vars == <<process, listeners, draining, conn>>

Closed == [to |-> "registry", at |-> "closed"]

Enabled == IF cfg.MetricsEnabled THEN Servers ELSE {"registry"}

PortOf(s) == IF s = "registry" THEN cfg.Port ELSE cfg.MetricsPort

Init ==
    /\ cfg \in Configurations
    /\ main = "boot" /\ signals = "default" /\ cancelled = FALSE
    /\ status = "none"
    /\ broken = {} /\ serving = [s \in Servers |-> "off"]
    /\ down = {} /\ drain = "off" /\ expired = FALSE
    /\ conn = [c \in Connections |-> Closed]

Running == main # "exited"

\* The process is gone, and with it its sockets.
End(how) ==
    /\ main' = "exited" /\ status' = how
    /\ conn' = [c \in Connections |-> Closed]
-----------------------------------------------------------------------------
(* main.go *)

\* signal.NotifyContext
Arm ==
    /\ main = "boot"
    /\ main' = "load" /\ signals' = "notify"
    /\ UNCHANGED <<cfg, cancelled, status, listeners, draining, conn>>

\* SIGINT or SIGTERM.  Of further signals before Rearm nothing is seen.
Signal ==
    /\ Running
    /\ \/ /\ signals = "notify" /\ ~cancelled
          /\ cancelled' = TRUE
          /\ UNCHANGED <<main, status, conn>>
       \/ /\ signals = "default"
          /\ End("killed")
          /\ UNCHANGED cancelled
    /\ UNCHANGED <<cfg, signals, listeners, draining>>

Rearm ==
    /\ Running /\ signals = "notify" /\ cancelled
    /\ signals' = "default"
    /\ UNCHANGED <<cfg, main, cancelled, status, listeners, draining, conn>>

Starts == Loads(cfg) /\ cfg.SigningKey # "bad"

\* run up to Server.Run, which starts the goroutines.
LoadConfig ==
    /\ main = "load"
    /\ \/ /\ Starts
          /\ main' = "run" /\ drain' = "waiting"
          /\ serving' = [s \in Servers |->
                           IF s \in Enabled THEN "new" ELSE "off"]
          /\ UNCHANGED <<status, conn>>
       \/ /\ ~Starts
          /\ End("1")
          /\ UNCHANGED <<drain, serving>>
    /\ UNCHANGED <<cfg, signals, cancelled, broken, down, expired>>
-----------------------------------------------------------------------------
(* serve: http.Server.ListenAndServe *)

Break(s) ==
    /\ Running /\ s \notin broken
    /\ broken' = broken \cup {s}
    /\ UNCHANGED <<process, serving, draining, conn>>

Listen(s, how) ==
    /\ serving' = [serving EXCEPT ![s] = how]
    /\ UNCHANGED <<process, broken, draining, conn>>

\* A server that is shut down does not bind.
Start(s) ==
    /\ Running /\ serving[s] = "new"
    /\ Listen(s, IF s \in down THEN "returned" ELSE "binding")

\* The port may be taken, by another process or by the other listener; the
\* server may have been shut down meanwhile.
Bind(s) ==
    /\ Running /\ serving[s] = "binding"
    /\ Listen(s, IF \/ s \in broken
                    \/ \E o \in Servers \ {s} :
                          serving[o] = "open" /\ PortOf(o) = PortOf(s)
                 THEN "failed"
                 ELSE IF s \in down THEN "returned" ELSE "open")

\* Accept ends, with ErrServerClosed or with a failure.
Accept(s) ==
    /\ Running /\ serving[s] = "open"
    /\ s \in down \cup broken
    /\ Listen(s, IF s \in down THEN "returned" ELSE "failed")
-----------------------------------------------------------------------------
(* The goroutine that drains, and g.Wait. *)

BeginDrain ==
    /\ Running /\ drain = "waiting"
    /\ cancelled \/ \E s \in Servers : serving[s] = "failed"
    /\ drain' = "registry" /\ down' = {"registry"}
    /\ UNCHANGED <<process, listeners, expired, conn>>

Deadline ==
    /\ Running /\ drain \in Servers /\ ~expired
    /\ expired' = TRUE
    /\ UNCHANGED <<process, listeners, down, drain, conn>>

To(s) == {c \in Connections : conn[c].to = s /\ conn[c].at # "closed"}

\* closeIdleConns: idle connections, and new ones that have been silent for
\* some seconds.
CloseIdle(s, silent) ==
    conn' = [c \in Connections |->
               IF c \in To(s) /\ (conn[c].at = "idle" \/ c \in silent)
               THEN Closed ELSE conn[c]]

\* Mutant: connections that never sent a request are not waited for.
BusyOnly(s, silent) == {c \in To(s) : conn[c].at = "active"}

\* The connections that Shutdown waits for.
Busy(s, silent) == {c \in To(s) : conn[c].at # "idle"} \ silent

\* Mutant: the drain has no deadline.
GivesUpNever == FALSE

\* Shutdown returns the context's error.
GivesUp == expired

\* Mutant: a metrics server that was not started is drained all the same.
AfterUnchecked(s) == IF s = "registry" THEN "metrics" ELSE "done"

\* What comes after server s; without metrics there is no server to drain.
After(s) == IF s = "registry" /\ "metrics" \in Enabled THEN "metrics" ELSE "done"

\* One turn of Shutdown's loop, after the listener has returned.
Poll(s, silent) ==
    /\ Running /\ drain = s
    /\ serving[s] # "open"
    /\ CloseIdle(s, silent)
    /\ IF Busy(s, silent) # {} /\ ~GivesUp
       THEN UNCHANGED <<drain, down>>
       ELSE drain' = After(s) /\ down' = down \cup ({After(s)} \cap Servers)
    /\ UNCHANGED <<process, listeners, expired>>

\* Mutant: the process ends without waiting for the drain.
ExitUndrained ==
    /\ main = "run" /\ drain # "waiting"
    /\ \A s \in Enabled : serving[s] \in {"returned", "failed"}
    /\ End(IF \E s \in Enabled : serving[s] = "failed" THEN "1" ELSE "0")
    /\ UNCHANGED <<cfg, signals, cancelled, listeners, draining>>

\* g.Wait returns, with the failure of a listener, if any.
Exit ==
    /\ main = "run" /\ drain = "done"
    /\ \A s \in Enabled : serving[s] \in {"returned", "failed"}
    /\ End(IF \E s \in Enabled : serving[s] = "failed" THEN "1" ELSE "0")
    /\ UNCHANGED <<cfg, signals, cancelled, listeners, draining>>
-----------------------------------------------------------------------------
(* Connections *)

Move(c, at) ==
    /\ conn' = [conn EXCEPT ![c].at = at]
    /\ UNCHANGED <<process, listeners, draining>>

Dial(c, s) ==
    /\ serving[s] = "open" /\ s \notin down
    /\ Running /\ conn[c].at = "closed"
    /\ conn' = [conn EXCEPT ![c] = [to |-> s, at |-> "new"]]
    /\ UNCHANGED <<process, listeners, draining>>

Request(c) == conn[c].at \in {"new", "idle"} /\ Move(c, "active")

\* A connection is not kept alive once its server is shut down.
Respond(c) ==
    /\ conn[c].at = "active"
    /\ Move(c, IF conn[c].to \in down THEN "closed" ELSE "idle")

\* The client leaves, or a read, write or idle timeout is up.
Hangup(c) == conn[c].at # "closed" /\ Move(c, "closed")

GoroutineStep ==
    \/ Arm \/ LoadConfig \/ BeginDrain \/ Exit
    \/ \E s \in Servers : Start(s) \/ Bind(s) \/ Accept(s)
    \/ \E s \in Servers :
          \E silent \in SUBSET {c \in To(s) : conn[c].at = "new"} : Poll(s, silent)

Next ==
    \/ GoroutineStep \/ Rearm \/ Deadline
    \/ Signal
    \/ \E s \in Servers : Break(s)
    \/ \E c \in Connections :
          \/ \E s \in Servers : Dial(c, s)
          \/ Request(c) \/ Respond(c) \/ Hangup(c)

Spec == Init /\ [][Next]_vars

\* Goroutines run and the timer of the drain fires; nothing is assumed of
\* clients, handlers or signals.
FairSpec ==
    /\ Spec
    /\ WF_vars(Arm) /\ WF_vars(LoadConfig) /\ WF_vars(Rearm)
    /\ WF_vars(BeginDrain) /\ WF_vars(Deadline) /\ WF_vars(Exit)
    /\ \A s \in Servers : /\ WF_vars(Start(s)) /\ WF_vars(Bind(s))
                          /\ WF_vars(Accept(s)) /\ WF_vars(Poll(s, {}))
-----------------------------------------------------------------------------
(* Properties *)

\* A shut-down server has no listener that would still be bound; nothing is
\* served before the configuration was accepted.
TypeOK ==
    /\ cfg \in Configurations
    /\ main \in {"boot", "load", "run", "exited"}
    /\ signals \in {"default", "notify"}
    /\ cancelled \in BOOLEAN /\ expired \in BOOLEAN
    /\ status \in {"none", "0", "1", "killed"}
    /\ status = "none" <=> main # "exited"
    /\ broken \subseteq Servers /\ down \subseteq Enabled
    /\ serving \in [Servers -> {"off", "new", "binding", "open", "returned",
                                "failed"}]
    /\ (\E s \in Servers : serving[s] # "off") => Starts
    /\ drain \in {"off", "waiting", "done"} \cup Enabled
    /\ conn \in [Connections -> [to : Servers,
                                 at : {"closed", "new", "active", "idle"}]]

\* A drain cuts no request off: one in progress loses its connection to the
\* process only when ShutdownTimeout is up or a signal kills it, whichever
\* server it is at and however many connections are idle (registry.go:58-59,
\* config.go:126).
NoRequestIsCut ==
    \A c \in Connections :
        conn[c].at = "active" /\ conn'[c].at = "closed" =>
            \/ Respond(c) \/ Hangup(c)
            \/ main' = "exited" /\ (expired \/ status' = "killed")
DrainIsGraceful == [][NoRequestIsCut]_vars

\* A server that was drained in time stays drained: nobody is connected to it
\* while the next one is drained and after.
DrainedStaysDrained ==
    ~expired =>
        /\ drain \in {"metrics", "done"} => To("registry") = {}
        /\ drain = "done" => To("metrics") = {}

\* The exit status tells why: 0 after a signal with no listener failed, 1 for a
\* refused configuration, an unusable key or a failure from outside, so never
\* because the two listeners are in each other's way (config.go:224); and the
\* first signal does not kill a process that has begun to serve
\* (main.go:67-68).
StatusTellsTheTruth ==
    /\ status = "0" => cancelled /\ \A s \in Servers : serving[s] # "failed"
    /\ status = "1" => ~Starts \/ broken # {}
    /\ status = "killed" => cancelled \/ \A s \in Servers : serving[s] = "off"

\* After a signal, or when a listener fails, the process ends, whatever
\* requests are in progress and however clients behave.
EndsWhenAsked ==
    (cancelled \/ \E s \in Servers : serving[s] = "failed") ~> (main = "exited")
=============================================================================
