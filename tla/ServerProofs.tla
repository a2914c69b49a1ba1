----------------------------- MODULE ServerProofs -----------------------------
(***************************************************************************)
(* The drain and the exit status, for every configuration and any number   *)
(* of connections.                                                         *)
(***************************************************************************)
EXTENDS Server, TLAPS

Statuses == {"off", "new", "binding", "open", "returned", "failed"}

Shapes ==
    /\ serving \in [Servers -> Statuses]
    /\ conn \in [Connections -> [to : Servers,
                                 at : {"closed", "new", "active", "idle"}]]

\* What the listeners have to do with the configuration: only what is enabled
\* is served, and two listeners that are enabled have two ports.
ListenersInv ==
    /\ \A s \in Servers : serving[s] # "off" =>
          s \in Enabled /\ Starts /\ main # "boot" /\ main # "load"
    /\ (\E s \in Servers : serving[s] = "failed") => broken # {}

\* What the drain has shut down stays shut: no listener comes back, and who
\* was waited for is gone.
DrainInv ==
    /\ down \subseteq Servers
    /\ drain = "registry" => "registry" \in down
    /\ drain \in {"metrics", "done"} =>
          /\ "registry" \in down /\ serving["registry"] # "open"
          /\ ~expired => To("registry") = {}
    /\ drain = "done" =>
          /\ "metrics" \in Enabled => "metrics" \in down
          /\ serving["metrics"] # "open"
          /\ ~expired => To("metrics") = {}
    /\ drain = "metrics" => "metrics" \in down
    /\ drain \in {"off", "waiting"} => down = {}
    /\ \A s \in Servers : To(s) # {} => serving[s] # "off"

\* Why the process drains, and why it ended.
ReasonInv ==
    /\ main \in {"boot", "load"} => drain = "off"
    /\ drain \notin {"off", "waiting"} =>
          cancelled \/ \E s \in Servers : serving[s] = "failed"
    /\ main = "boot" \/ signals = "notify" \/ cancelled
          \/ (status = "killed" /\ \A s \in Servers : serving[s] = "off")
    /\ StatusTellsTheTruth
    /\ main # "exited" => status = "none"

ServerInv == Shapes /\ ListenersInv /\ DrainInv /\ ReasonInv

StartStep(s) == Start(s) \/ Bind(s) \/ Accept(s)
ConnStep(c) == (\E s \in Servers : Dial(c, s)) \/ Request(c) \/ Respond(c) \/ Hangup(c)
-----------------------------------------------------------------------------
LEMMA ServerInvInit == Init => ServerInv
BY DEF Init, ServerInv, Shapes, ListenersInv, DrainInv, ReasonInv, Closed,
       Servers, Statuses, StatusTellsTheTruth, To, Starts

LEMMA ShapesStep == Shapes /\ [Next]_vars => Shapes'
<1> SUFFICES ASSUME Shapes, [Next]_vars PROVE Shapes'
  OBVIOUS
<1> USE DEF Shapes, Servers, Statuses, Closed
<1>1. ASSUME NEW how, End(how) PROVE (conn \in [Connections -> [to : Servers,
                                 at : {"closed", "new", "active", "idle"}]])'
  BY <1>1 DEF End
<1>2. CASE Arm \/ BeginDrain \/ Rearm \/ Deadline \/ \E s \in Servers : Break(s)
  BY <1>2 DEF Arm, BeginDrain, Rearm, Deadline, Break, process, listeners, draining
<1>3. CASE LoadConfig
  BY <1>3, <1>1 DEF LoadConfig
<1>4. CASE Signal \/ Exit
  BY <1>4, <1>1 DEF Signal, Exit, listeners
<1>5. ASSUME NEW s \in Servers, StartStep(s) PROVE Shapes'
  BY <1>5 DEF StartStep, Start, Bind, Accept, Listen
<1>6. ASSUME NEW s \in Servers, NEW silent, Poll(s, silent) PROVE Shapes'
  BY <1>6 DEF Poll, CloseIdle, listeners
<1>7. ASSUME NEW c \in Connections, ConnStep(c) PROVE Shapes'
  BY <1>7 DEF ConnStep, Dial, Request, Respond, Hangup, Move, listeners
<1>8. CASE UNCHANGED vars
  BY <1>8 DEF vars, listeners
<1> QED BY <1>2, <1>3, <1>4, <1>5, <1>6, <1>7, <1>8
        DEF Next, GoroutineStep, StartStep, ConnStep

LEMMA TwoPorts ==
    ASSUME NEW c, PortsValid(c), c.MetricsEnabled
    PROVE  c.Port # c.MetricsPort
BY DEF PortsValid

LEMMA ListenersStep ==
    Shapes /\ ListenersInv /\ [Next]_vars => ListenersInv'
<1> SUFFICES ASSUME Shapes, ListenersInv, [Next]_vars PROVE ListenersInv'
  OBVIOUS
<1> USE DEF Shapes, ListenersInv
<1>1. ASSUME UNCHANGED <<cfg, serving>>, broken \subseteq broken',
             main' \in {main, "exited"} \/ main \in {"boot", "load"}
      PROVE  ListenersInv'
  BY <1>1 DEF Enabled, Starts
<1>2. CASE Arm \/ BeginDrain \/ Rearm \/ Deadline \/ Signal \/ Exit
           \/ \E s \in Servers : Break(s)
  <2>1. UNCHANGED <<cfg, serving>> /\ broken \subseteq broken'
    BY <1>2 DEF Arm, BeginDrain, Rearm, Deadline, Signal, Exit, Break, process,
                listeners
  <2>2. main' \in {main, "exited"} \/ main \in {"boot", "load"}
    BY <1>2 DEF Arm, BeginDrain, Rearm, Deadline, Signal, Exit, Break, End,
                process
  <2> QED BY <2>1, <2>2, <1>1
<1>3. CASE LoadConfig
  <2>1. UNCHANGED <<cfg, broken>> /\ main = "load"
    BY <1>3 DEF LoadConfig
  <2>2. CASE Starts /\ main' = "run"
              /\ serving' = [s \in Servers |->
                               IF s \in Enabled THEN "new" ELSE "off"]
    BY <2>1, <2>2 DEF Enabled, Starts
  <2>3. CASE main' = "exited" /\ UNCHANGED serving
    BY <2>1, <2>3, <1>1
  <2> QED BY <1>3, <2>2, <2>3 DEF LoadConfig, End
<1>4. ASSUME NEW s \in Servers, StartStep(s) PROVE ListenersInv'
  <2>1. /\ serving[s] # "off" /\ UNCHANGED <<cfg, main, broken>>
        /\ \A o \in Servers \ {s} : serving'[o] = serving[o]
    BY <1>4 DEF StartStep, Start, Bind, Accept, Listen, process
  <2>2. ASSUME serving'[s] = "failed", serving[s] # "failed" PROVE broken # {}
    <3>1. CASE Bind(s)
      <4>1. s \in broken \/ \E o \in Servers \ {s} :
                               serving[o] = "open" /\ PortOf(o) = PortOf(s)
        BY <3>1, <2>2 DEF Bind, Listen
      <4>2. \A o \in Servers \ {s} : serving[o] = "open" => PortOf(o) # PortOf(s)
        <5>1. SUFFICES ASSUME NEW o \in Servers \ {s}, serving[o] = "open"
                       PROVE  PortOf(o) # PortOf(s)
          OBVIOUS
        <5>2. o \in Enabled /\ s \in Enabled /\ Loads(cfg)
          BY <2>1, <5>1 DEF Starts
        <5>3. cfg.Port # cfg.MetricsPort
          <6>1. "metrics" \in Enabled
            BY <5>2 DEF Servers
          <6>2. cfg.MetricsEnabled
            BY <6>1 DEF Enabled
          <6>3. PortsValid(cfg)
            BY <5>2 DEF Loads, validate
          <6> QED BY <6>2, <6>3, TwoPorts
        <5> QED BY <5>3 DEF PortOf, Servers
      <4> QED BY <4>1, <4>2
    <3>2. CASE Accept(s)
      BY <3>2, <2>2 DEF Accept, Listen
    <3>3. CASE Start(s)
      BY <3>3, <2>2 DEF Start, Listen
    <3> QED BY <1>4, <3>1, <3>2, <3>3 DEF StartStep
  <2> QED BY <2>1, <2>2 DEF Enabled, Starts
<1>5. ASSUME NEW s \in Servers, NEW silent, Poll(s, silent) PROVE ListenersInv'
  BY <1>5, <1>1 DEF Poll, process, listeners
<1>6. ASSUME NEW c \in Connections, ConnStep(c) PROVE ListenersInv'
  BY <1>6, <1>1 DEF ConnStep, Dial, Request, Respond, Hangup, Move, process,
                    listeners
<1>7. CASE UNCHANGED vars
  BY <1>7, <1>1 DEF vars, process, listeners
<1> QED BY <1>2, <1>3, <1>4, <1>5, <1>6, <1>7
        DEF Next, GoroutineStep, StartStep, ConnStep

LEMMA DrainStep ==
    Shapes /\ ListenersInv /\ DrainInv /\ ReasonInv /\ [Next]_vars => DrainInv'
<1> SUFFICES ASSUME Shapes, ListenersInv, DrainInv, ReasonInv, [Next]_vars
             PROVE  DrainInv'
  OBVIOUS
<1> USE DEF DrainInv
\* Fewer connections, and a deadline that has passed, leave it as it is.
<1>1. ASSUME UNCHANGED <<cfg, serving, down, drain>>,
             expired => expired',
             \A s \in Servers : To(s)' \subseteq To(s)
      PROVE  DrainInv'
  BY <1>1 DEF Enabled, Servers
<1>2. ASSUME NEW how, End(how), NEW s \in Servers PROVE To(s)' = {}
  BY <1>2 DEF End, To, Closed
<1>3. ASSUME UNCHANGED conn, NEW s \in Servers PROVE To(s)' = To(s)
  BY <1>3 DEF To
<1>4. CASE Arm \/ Rearm \/ Deadline \/ \E s \in Servers : Break(s)
  BY <1>4, <1>1, <1>3 DEF Arm, Rearm, Deadline, Break, process, listeners, draining
<1>5. CASE Signal \/ Exit
  <2>1. UNCHANGED <<cfg, serving, down, drain, expired>>
    BY <1>5 DEF Signal, Exit, listeners, draining
  <2>2. \A s \in Servers : To(s)' \subseteq To(s)
    BY <1>5, <1>2, <1>3 DEF Signal, Exit
  <2> QED BY <2>1, <2>2, <1>1
<1>6. CASE LoadConfig
  <2>1. UNCHANGED <<cfg, down, expired>> /\ main = "load"
    BY <1>6 DEF LoadConfig
  <2>2. CASE drain' = "waiting" /\ UNCHANGED conn
    <3>1. \A s \in Servers : serving[s] = "off" /\ To(s) = {}
      BY <2>1 DEF ListenersInv
    <3>2. drain = "off"
      BY <2>1 DEF ReasonInv
    <3> QED BY <2>1, <2>2, <3>1, <3>2, <1>3 DEF Enabled, Servers
  <2>3. CASE UNCHANGED <<drain, serving>> /\ End("1")
    BY <2>1, <2>3, <1>1, <1>2
  <2> QED BY <1>6, <2>2, <2>3 DEF LoadConfig
<1>7. CASE BeginDrain
  BY <1>7, <1>3 DEF BeginDrain, process, listeners, Enabled, Servers
<1>8. ASSUME NEW s \in Servers, StartStep(s) PROVE DrainInv'
  <2>1. /\ UNCHANGED <<cfg, down, drain, expired, conn>>
        /\ \A o \in Servers \ {s} : serving'[o] = serving[o]
        /\ s \in down => serving'[s] # "open"
        /\ serving[s] # "off" /\ serving'[s] # "off"
    BY <1>8 DEF StartStep, Start, Bind, Accept, Listen, process, draining, Shapes
  <2>2. s \in Enabled
    BY <2>1 DEF ListenersInv
  <2> QED BY <2>1, <2>2, <1>3 DEF Enabled, Servers
<1>9. ASSUME NEW s \in Servers, NEW silent, Poll(s, silent) PROVE DrainInv'
  <2>1. /\ UNCHANGED <<cfg, serving, expired>>
        /\ drain = s /\ serving[s] # "open"
    BY <1>9 DEF Poll, process, listeners
  <2>2. /\ \A o \in Servers : To(o)' \subseteq To(o)
        /\ To(s)' \subseteq Busy(s, silent)
    BY <1>9 DEF Poll, CloseIdle, To, Busy, Closed
  <2>3. CASE UNCHANGED <<drain, down>>
    BY <2>1, <2>2, <2>3, <1>1
  <2>4. CASE /\ Busy(s, silent) = {} \/ expired
             /\ drain' = After(s) /\ down' = down \cup ({After(s)} \cap Servers)
    <3>1. ~expired' => To(s)' = {}
      BY <2>1, <2>2, <2>4
    <3>2. CASE s = "registry" /\ "metrics" \in Enabled
      BY <2>1, <2>2, <2>4, <3>1, <3>2 DEF After, Servers, Enabled
    <3>3. CASE s = "registry" /\ "metrics" \notin Enabled
      <4>1. serving["metrics"] = "off" /\ To("metrics") = {}
        BY <3>3 DEF ListenersInv, Servers
      <4> QED BY <2>1, <2>2, <2>4, <3>1, <3>3, <4>1 DEF After, Servers, Enabled
    <3>4. CASE s = "metrics"
      BY <2>1, <2>2, <2>4, <3>1, <3>4 DEF After, Servers, Enabled
    <3> QED BY <3>2, <3>3, <3>4 DEF Servers
  <2> QED BY <1>9, <2>3, <2>4 DEF Poll, GivesUp
<1>10. ASSUME NEW c \in Connections, ConnStep(c) PROVE DrainInv'
  <2>1. UNCHANGED <<cfg, serving, down, drain, expired>>
    BY <1>10 DEF ConnStep, Dial, Request, Respond, Hangup, Move, process,
                 listeners, draining
  <2>2. CASE Request(c) \/ Respond(c) \/ Hangup(c)
    <3>1. \A s \in Servers : To(s)' \subseteq To(s)
      BY <2>2 DEF Request, Respond, Hangup, Move, To, Shapes
    <3> QED BY <2>1, <3>1, <1>1
  <2>3. ASSUME NEW s \in Servers, Dial(c, s) PROVE DrainInv'
    <3>1. /\ \A o \in Servers \ {s} : To(o)' \subseteq To(o)
          /\ serving[s] = "open"
      BY <2>3 DEF Dial, To, Shapes
    <3>2. s \in Enabled
      BY <3>1 DEF ListenersInv
    <3> QED BY <2>1, <3>1, <3>2 DEF Servers, Enabled
  <2> QED BY <1>10, <2>2, <2>3 DEF ConnStep
<1>11. CASE UNCHANGED vars
  BY <1>11, <1>1, <1>3 DEF vars, process, listeners, draining
<1> QED BY <1>4, <1>5, <1>6, <1>7, <1>8, <1>9, <1>10, <1>11
        DEF Next, GoroutineStep, StartStep, ConnStep

LEMMA ReasonStep ==
    Shapes /\ ListenersInv /\ DrainInv /\ ReasonInv /\ [Next]_vars => ReasonInv'
<1> SUFFICES ASSUME Shapes, ListenersInv, DrainInv, ReasonInv, [Next]_vars
             PROVE  ReasonInv'
  OBVIOUS
<1> USE DEF ReasonInv, StatusTellsTheTruth
\* While the process goes on, only a failed listener or a signal matters.
<1>1. ASSUME UNCHANGED <<cfg, main, signals, status>>,
             cancelled => cancelled', broken \subseteq broken',
             drain' = drain \/ drain # "off" \/ main \notin {"boot", "load"},
             drain' \in {"off", "waiting"} \/ drain \notin {"off", "waiting"}
                \/ cancelled \/ \E s \in Servers : serving[s] = "failed",
             \A s \in Servers : serving[s] = "failed" => serving'[s] = "failed",
             main = "exited" => UNCHANGED serving
      PROVE  ReasonInv'
  BY <1>1 DEF Starts
<1>2. CASE Arm
  BY <1>2 DEF Arm, listeners, draining, ListenersInv
<1>3. CASE Signal
  <2>1. UNCHANGED <<cfg, signals, broken, serving, drain>> /\ main # "exited"
    BY <1>3 DEF Signal, Running, listeners, draining
  <2>2. CASE UNCHANGED <<main, status>> /\ cancelled'
    BY <2>1, <2>2 DEF Starts
  <2>3. CASE signals = "default" /\ End("killed") /\ UNCHANGED cancelled
    BY <2>1, <2>3 DEF End, ListenersInv
  <2> QED BY <1>3, <2>2, <2>3 DEF Signal
<1>4. CASE Rearm
  BY <1>4 DEF Rearm, Running, listeners, draining
<1>5. CASE LoadConfig
  <2>1. /\ UNCHANGED <<cfg, signals, cancelled, broken>> /\ main = "load"
        /\ \A s \in Servers : serving[s] = "off"
    BY <1>5 DEF LoadConfig, ListenersInv
  <2>2. CASE /\ main' = "run" /\ drain' = "waiting" /\ UNCHANGED status
    BY <2>1, <2>2
  <2>3. CASE ~Starts /\ End("1") /\ UNCHANGED <<drain, serving>>
    BY <2>1, <2>3 DEF End, Starts
  <2> QED BY <1>5, <2>2, <2>3 DEF LoadConfig
<1>6. CASE BeginDrain \/ Deadline \/ \E s \in Servers : Break(s)
  <2>1. UNCHANGED <<cfg, main, signals, status, cancelled, serving>>
        /\ broken \subseteq broken'
    BY <1>6 DEF BeginDrain, Deadline, Break, process, listeners
  <2>2. \/ drain' = drain
        \/ /\ drain = "waiting"
           /\ cancelled \/ \E s \in Servers : serving[s] = "failed"
    BY <1>6 DEF BeginDrain, Deadline, Break, draining
  <2> QED BY <2>1, <2>2, <1>1
<1>7. CASE Exit
  <2>1. /\ main = "run" /\ drain = "done"
        /\ UNCHANGED <<cfg, signals, cancelled, broken, serving, drain>>
    BY <1>7 DEF Exit, listeners, draining
  <2>2. main' = "exited"
    BY <1>7 DEF Exit, End
  <2>3. CASE status' = "1" /\ \E s \in Enabled : serving[s] = "failed"
    <3>1. broken # {}
      BY <2>3 DEF ListenersInv, Enabled, Servers
    <3> QED BY <2>1, <2>2, <2>3, <3>1
  <2>4. CASE status' = "0" /\ \A s \in Enabled : serving[s] # "failed"
    <3>1. \A s \in Servers : serving[s] # "failed"
      BY <2>4 DEF ListenersInv
    <3> QED BY <2>1, <2>2, <2>4, <3>1
  <2> QED BY <1>7, <2>3, <2>4 DEF Exit, End
<1>8. ASSUME NEW s \in Servers, StartStep(s) PROVE ReasonInv'
  <2>1. main # "exited" /\ serving[s] # "failed" /\ \E how : Listen(s, how)
    BY <1>8 DEF StartStep, Start, Bind, Accept, Running
  <2>2. /\ UNCHANGED <<cfg, main, signals, status, cancelled, broken, drain>>
        /\ \A o \in Servers \ {s} : serving'[o] = serving[o]
    BY <2>1 DEF Listen, process, draining, Shapes
  <2> QED BY <2>1, <2>2, <1>1
<1>9. ASSUME NEW s \in Servers, NEW silent, Poll(s, silent) PROVE ReasonInv'
  <2>1. UNCHANGED <<cfg, main, signals, status, cancelled, broken, serving>>
        /\ drain \in {"registry", "metrics"}
    BY <1>9 DEF Poll, process, listeners, Servers
  <2> QED BY <2>1, <1>1
<1>10. CASE (\E c \in Connections : ConnStep(c)) \/ UNCHANGED vars
  <2>1. UNCHANGED <<cfg, main, signals, status, cancelled, broken, serving, drain>>
    BY <1>10 DEF ConnStep, Dial, Request, Respond, Hangup, Move, vars, process,
                 listeners, draining
  <2> QED BY <2>1, <1>1
<1> QED BY <1>2, <1>3, <1>4, <1>5, <1>6, <1>7, <1>8, <1>9, <1>10
        DEF Next, GoroutineStep, StartStep, ConnStep

THEOREM ServerInvariant == Spec => []ServerInv
<1>1. ServerInv /\ [Next]_vars => ServerInv'
  BY ShapesStep, ListenersStep, DrainStep, ReasonStep DEF ServerInv
<1> QED BY <1>1, ServerInvInit, PTL DEF Spec

\* A server that was drained in time is left by everyone and reached by nobody
\* (registry.go:77-78).
THEOREM ServersStayDrained == Spec => []DrainedStaysDrained
<1>1. ServerInv => DrainedStaysDrained
  BY DEF ServerInv, DrainInv, DrainedStaysDrained
<1> QED BY <1>1, ServerInvariant, PTL

\* The exit status tells why the process ended; the two listeners never make
\* each other fail, and the first signal kills nothing that serves.
THEOREM StatusIsTrue == Spec => []StatusTellsTheTruth
<1>1. ServerInv => StatusTellsTheTruth
  BY DEF ServerInv, ReasonInv
<1> QED BY <1>1, ServerInvariant, PTL

LEMMA NothingIsCut == ServerInv /\ [Next]_vars => [NoRequestIsCut]_vars
<1> SUFFICES ASSUME ServerInv, Next, NEW c \in Connections,
                    conn[c].at = "active", conn'[c].at = "closed"
             PROVE  \/ Respond(c) \/ Hangup(c)
                    \/ main' = "exited" /\ (expired \/ status' = "killed")
  BY DEF NoRequestIsCut
<1>1. PICK s \in Servers : c \in To(s) /\ serving[s] # "off"
  BY DEF ServerInv, Shapes, DrainInv, To
<1>2. CASE Arm \/ BeginDrain \/ Rearm \/ Deadline
           \/ (\E o \in Servers : Break(o) \/ StartStep(o))
  BY <1>2 DEF Arm, BeginDrain, Rearm, Deadline, Break, StartStep, Start, Bind,
              Accept, Listen
<1>3. CASE LoadConfig
  BY <1>3, <1>1 DEF LoadConfig, ServerInv, ListenersInv
<1>4. CASE Signal
  BY <1>4 DEF Signal, End
<1>5. CASE Exit
  <2>1. drain = "done" /\ main' = "exited"
    BY <1>5 DEF Exit, End
  <2>2. ~expired => To(s) = {}
    BY <1>1, <2>1 DEF ServerInv, DrainInv, Servers
  <2> QED BY <1>1, <2>1, <2>2
<1>6. ASSUME NEW o \in Servers,
             NEW silent \in SUBSET {d \in To(o) : conn[d].at = "new"},
             Poll(o, silent)
      PROVE  FALSE
  BY <1>6 DEF Poll, CloseIdle
<1>7. ASSUME NEW d \in Connections, ConnStep(d) PROVE Respond(c) \/ Hangup(c)
  <2>1. c = d
    BY <1>7 DEF ConnStep, Dial, Request, Respond, Hangup, Move, ServerInv, Shapes
  <2>2. ~(\E o \in Servers : Dial(d, o)) /\ ~Request(d)
    BY <2>1 DEF Dial, Request, Move, ServerInv, Shapes
  <2> QED BY <1>7, <2>1, <2>2 DEF ConnStep
<1> QED BY <1>2, <1>3, <1>4, <1>5, <1>6, <1>7
        DEF Next, GoroutineStep, StartStep, ConnStep

\* A request in progress is cut off only when ShutdownTimeout is up or a signal
\* kills the process (registry.go:58-59).
THEOREM DrainsAreGraceful == Spec => DrainIsGraceful
BY ServerInvariant, NothingIsCut, PTL DEF Spec, DrainIsGraceful
-----------------------------------------------------------------------------
\* What the drain has shut down, or is at, is served.
TypesInv ==
    /\ cfg \in Configurations
    /\ main \in {"boot", "load", "run", "exited"}
    /\ signals \in {"default", "notify"}
    /\ cancelled \in BOOLEAN /\ expired \in BOOLEAN
    /\ status \in {"none", "0", "1", "killed"}
    /\ status = "none" <=> main # "exited"
    /\ broken \subseteq Servers /\ down \subseteq Enabled
    /\ drain \in {"off", "waiting", "done"} \cup Enabled

LEMMA TypesInvStep == TypesInv /\ [Next]_vars => TypesInv'
<1> SUFFICES ASSUME TypesInv, [Next]_vars PROVE TypesInv'
  OBVIOUS
<1> USE DEF TypesInv
<1>1. cfg' = cfg /\ Enabled' = Enabled
  <2>1. cfg' = cfg
    BY DEF Next, GoroutineStep, Arm, LoadConfig, BeginDrain, Exit, Start, Bind,
           Accept, Listen, Poll, Rearm, Deadline, Signal, Break, Dial, Request,
           Respond, Hangup, Move, process, vars
  <2> QED BY <2>1 DEF Enabled
<1>2. CASE Arm \/ Rearm \/ Signal
  BY <1>1, <1>2 DEF Arm, Rearm, Signal, End, Running, listeners, draining
<1>3. CASE LoadConfig
  BY <1>1, <1>3 DEF LoadConfig, End
<1>4. CASE BeginDrain
  <2>1. "registry" \in Enabled
    BY DEF Enabled, Servers
  <2> QED BY <1>1, <1>4, <2>1 DEF BeginDrain, process, listeners
<1>5. CASE Exit
  BY <1>1, <1>5 DEF Exit, End, listeners, draining
<1>6. CASE Deadline \/ \E s \in Servers : Break(s)
  BY <1>1, <1>6 DEF Deadline, Break, process, listeners, draining
<1>7. ASSUME NEW s \in Servers, StartStep(s) PROVE TypesInv'
  BY <1>1, <1>7 DEF StartStep, Start, Bind, Accept, Listen, process, draining
<1>8. ASSUME NEW s \in Servers, NEW silent, Poll(s, silent) PROVE TypesInv'
  <2>1. After(s) \in {"done"} \cup Enabled
    BY DEF After
  <2>2. ({After(s)} \cap Servers) \subseteq Enabled
    BY <2>1 DEF Servers
  <2> QED BY <1>1, <1>8, <2>1, <2>2 DEF Poll, process, listeners
<1>9. ASSUME NEW c \in Connections, ConnStep(c) PROVE TypesInv'
  BY <1>1, <1>9 DEF ConnStep, Dial, Request, Respond, Hangup, Move, process,
                    listeners, draining
<1>10. CASE UNCHANGED vars
  BY <1>1, <1>10 DEF vars, process, listeners, draining
<1> QED BY <1>2, <1>3, <1>4, <1>5, <1>6, <1>7, <1>8, <1>9, <1>10
        DEF Next, GoroutineStep, StartStep, ConnStep

\* The state is of its type: a server that is not enabled is never served, shut
\* down or waited for (registry.go:78), nothing is served before the
\* configuration was accepted, and a process that has not ended has no status.
THEOREM ServerTypes == Spec => []TypeOK
<1>1. Init => TypesInv
  BY DEF Init, TypesInv
<1>2. ServerInv /\ TypesInv => TypeOK
  BY DEF ServerInv, Shapes, ListenersInv, Statuses, TypesInv, TypeOK
<1> QED BY <1>1, <1>2, TypesInvStep, ServerInvariant, PTL DEF Spec
=============================================================================
