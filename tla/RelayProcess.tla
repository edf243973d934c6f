---------------------------- MODULE RelayProcess ----------------------------
(***************************************************************************)
(* run_relay (lightcycle-cli/src/main.rs): the start of the relay process  *)
(* step by step, the tasks it spawns and what each of them waits for, the  *)
(* gRPC server's graceful shutdown (lightcycle-firehose/src/lib.rs), the   *)
(* health server (health.rs), and the way down after an interrupt.  What   *)
(* the tasks do while they run is in the modules of each.                  *)
(***************************************************************************)
EXTENDS Process

CONSTANTS SolidReport,    \* solidified heads the node reports
          Probe,          \* connections to the health server
          MaxStreams      \* bound of the model: open Stream.Blocks calls

VARIABLES args,        \* the flags that decide what is wired
          up,          \* the tasks that run
          bound,       \* the servers that have bound their address
          signalled,   \* the servers told to shut down
          streams,     \* open calls of the gRPC server
          head,        \* the solidified-head watch
          probe        \* per connection, [path, pc, answer, floor]

relayVars == <<args, up, bound, signalled, streams, head, probe>>

NoProbe == [path |-> "", pc |-> "free", answer |-> 0, floor |-> FALSE]

-----------------------------------------------------------------------------
(* Start-up.  A stage that fails ends the process, whatever runs already. *)

\* The stages of run_relay in their order.
Stages == <<"relay", "sr_set", "refresh", "spawn", "archive", "oracle", "serve", "serving">>
After(stage) == Stages[1 + CHOOSE i \in DOMAIN Stages : Stages[i] = stage]

\* The exporter or the connection; the SR set; the refresh task's connection; the
\* archive file; the oracle's connection.
MayFail(stage) ==
    CASE stage = "relay"   -> TRUE
      [] stage = "sr_set"  -> args.verify
      [] stage = "refresh" -> args.refresh
      [] stage = "archive" -> args.archive
      [] stage = "oracle"  -> args.firehose
      [] OTHER             -> FALSE

\* The tasks a stage spawns.  In log-only mode a drain takes the pump's place; the
\* retention task, which waits for nobody and nobody waits for, is left out.
Spawns(stage) ==
    CASE stage = "refresh" -> IF args.refresh THEN {"refresh"} ELSE {}
      [] stage = "spawn"   -> {"service", "pump"} \cup IF args.health THEN {"health"} ELSE {}
      [] stage = "serve"   -> IF ~ args.firehose THEN {}
                              ELSE {"server", "composite"} \cup
                                   IF args.archive THEN {"archiver"} ELSE {}
      [] OTHER             -> {}

StartStage ==
    /\ main \in {Stages[i] : i \in 1 .. Len(Stages) - 1}
    /\ \/ /\ MayFail(main)
          /\ Exits("err")
          /\ UNCHANGED up
       \/ /\ main' = After(main)
          /\ up' = up \cup Spawns(main)
          /\ UNCHANGED exit
    /\ UNCHANGED <<interrupted, args, bound, signalled, streams, head, probe>>

-----------------------------------------------------------------------------
(* Tasks *)

\* A server binds its address, or logs that it cannot and ends.
Bind(t) ==
    /\ Alive /\ t \in (up \cap {"server", "health"}) \ bound
    /\ \/ bound' = bound \cup {t} /\ UNCHANGED up
       \/ up' = up \ {t} /\ UNCHANGED bound
    /\ UNCHANGED <<processVars, args, signalled, streams, head, probe>>

\* The pump ends with the gRPC server.
CanEnd_WithServer(t) ==
    CASE t = "service"   -> "pump" \notin up
      [] t = "refresh"   -> "service" \notin up
      [] t = "pump"      -> args.firehose /\ main = "serving" /\ "server" \notin up
      [] t = "composite" -> "pump" \notin up
      [] t = "archiver"  -> up \cap {"pump", "server"} = {}
      [] t = "server"    -> t \in bound \cap signalled /\ streams = 0
      [] t = "health"    -> t \in bound \cap signalled

\* What each task waits for.  The service runs until the receiver of its channel is
\* gone, the refresh task until the service's watch is; the pump until the service's
\* sender is gone; the composite handle until the pump has ended; the archiver until
\* no sender of the broadcast is left; tonic until no call is open.
CanEnd(t) ==
    CASE t = "service"   -> "pump" \notin up
      [] t = "refresh"   -> "service" \notin up
      [] t = "pump"      -> "service" \notin up
      [] t = "composite" -> "pump" \notin up
      [] t = "archiver"  -> up \cap {"pump", "server"} = {}
      [] t = "server"    -> t \in bound \cap signalled /\ streams = 0
      [] t = "health"    -> t \in bound \cap signalled

\* The composite handle aborts the archiver.
TaskEnds(t) ==
    /\ Alive /\ t \in up /\ CanEnd(t)
    /\ up' = up \ IF t = "composite" THEN {t, "archiver"} ELSE {t}
    /\ UNCHANGED <<processVars, args, bound, signalled, streams, head, probe>>

\* Clients come while the server listens, and stay as long as they like.
ClientConnects ==
    /\ Alive /\ "server" \in (up \cap bound) \ signalled /\ streams < MaxStreams
    /\ streams' = streams + 1
    /\ UNCHANGED <<processVars, args, up, bound, signalled, head, probe>>
ClientLeaves ==
    /\ Alive /\ streams > 0
    /\ streams' = streams - 1
    /\ UNCHANGED <<processVars, args, up, bound, signalled, head, probe>>

\* Forgets the head when the node does not report one.
HeadAfter_Reset(report) == report
\* tick_once: the watch is written only with a head.
HeadAfter(report) == IF report = None THEN head ELSE report

\* The service's fetch of the solidified head.
ServiceTick(report) ==
    /\ Alive /\ "service" \in up
    /\ head' = HeadAfter(report)
    /\ UNCHANGED <<processVars, args, up, bound, signalled, streams, probe>>

-----------------------------------------------------------------------------
(* The health server: a task per connection *)

\* accept; `floor` is history: a probe whose connection is still open has been told
\* that we are ready.  (An earlier one only matters if readiness was taken back since,
\* which that connection, had it stayed open, would have shown as well.)
Accept(c, path) ==
    /\ Alive /\ "health" \in (up \cap bound) \ signalled /\ probe[c].pc = "free"
    /\ probe' = [probe EXCEPT ![c] =
          [NoProbe EXCEPT !.path = path, !.pc = "accepted",
                          !.floor = \E d \in Probe : probe[d].path = "readyz"
                                                     /\ probe[d].answer = 200]]
    /\ UNCHANGED <<processVars, args, up, bound, signalled, streams, head>>

\* handle: the answer for a path; anything it cannot parse is 404.
Answer(path) ==
    CASE path = "healthz" -> 200
      [] path = "readyz"  -> IF head # None THEN 200 ELSE 503
      [] OTHER            -> 404

Handle(c) ==
    /\ Alive /\ probe[c].pc = "accepted"
    /\ probe' = [probe EXCEPT ![c].pc = "answered", ![c].answer = Answer(probe[c].path)]
    /\ UNCHANGED <<processVars, args, up, bound, signalled, streams, head>>

\* Closed, with its answer or without one (nothing read within 500 ms).
CloseProbe(c) ==
    /\ Alive /\ probe[c].pc \in {"accepted", "answered"}
    /\ probe' = [probe EXCEPT ![c] = NoProbe]
    /\ UNCHANGED <<processVars, args, up, bound, signalled, streams, head>>

-----------------------------------------------------------------------------
(* Shutdown *)

\* The join points after the interrupt, in order, and the task each waits for.  In
\* log-only mode the drain is joined in the server's place.
Joins == <<"join_server", "join_pump", "join_health", "join_service">>
Joined(stage) ==
    CASE stage = "join_server"  -> IF args.firehose THEN "server" ELSE "pump"
      [] stage = "join_pump"    -> "composite"
      [] stage = "join_health"  -> "health"
      [] stage = "join_service" -> "service"

Signals(stage) ==
    CASE stage = "join_server" /\ args.firehose -> {"server"}
      [] stage = "join_health" -> {"health"}
      [] OTHER -> {}

\* Waits for the service as long as it takes.
TimesOut_NotService(stage) == stage # "join_service"
\* Every join is wrapped in a timeout (3, 1, 2 and 2 seconds).
TimesOut(stage) == TRUE

\* ctrl_c() returns: the server's shutdown is sent, then its handle joined.
BeginShutdown ==
    /\ main = "serving" /\ interrupted
    /\ main' = Joins[1]
    /\ signalled' = signalled \cup Signals(Joins[1])
    /\ UNCHANGED <<exit, interrupted, args, up, bound, streams, head, probe>>

\* A join ends with its task or its timeout; after the health server's the refresh
\* task is aborted, after the last one the process exits.
Join ==
    \E i \in DOMAIN Joins :
        /\ main = Joins[i]
        /\ Joined(main) \notin up \/ TimesOut(main)
        /\ IF i = Len(Joins) THEN Exits("ok") /\ UNCHANGED signalled
           ELSE /\ main' = Joins[i + 1]
                /\ signalled' = signalled \cup Signals(Joins[i + 1])
                /\ UNCHANGED exit
        /\ up' = up \ IF main = "join_health" THEN {"refresh"} ELSE {}
        /\ UNCHANGED <<interrupted, args, bound, streams, head, probe>>

RelayInit ==
    /\ args \in [firehose : BOOLEAN, archive : BOOLEAN, health : BOOLEAN, verify : BOOLEAN,
                 refresh : BOOLEAN]
    /\ args.archive => args.firehose
    /\ args.refresh => args.verify
    /\ up = {} /\ bound = {} /\ signalled = {} /\ streams = 0 /\ head = None
    /\ probe = [c \in Probe |-> NoProbe]

RelayMain == StartStage \/ BeginShutdown \/ Join

RelayNext ==
    \/ RelayMain
    \/ \E t \in up : Bind(t) \/ TaskEnds(t)
    \/ ClientConnects
    \/ ClientLeaves
    \/ \E h \in SolidReport \cup {None} : ServiceTick(h)
    \/ \E c \in Probe :
          \/ \E path \in {"healthz", "readyz", "other"} : Accept(c, path)
          \/ Handle(c)
          \/ CloseProbe(c)

(* The main task is polled by tokio, and its timers fire.  Nothing is assumed of clients,
   of the node or of the other tasks. *)
RelayFairness == WF_<<processVars, relayVars>>(RelayMain)

-----------------------------------------------------------------------------
(* Properties *)

\* The pipeline is up for as long as the process serves: neither a server that could
\* not bind, nor clients, nor probes, nor an exit of any other task stops the service
\* or the pump, which keep each other alive; and after start-up the process ends only
\* when it is told to.
PipelineUp ==
    /\ main = "serving" => {"service", "pump"} \subseteq up
    /\ exit \in {"ok", "killed"} => interrupted
    /\ exit = "err" => "server" \notin up

\* Readiness does not flap: a /readyz probe that is accepted after another was told
\* 200 is told 200, although handlers run concurrently and the node may fail to
\* report a head at any time.
ReadyStays ==
    \A c \in Probe :
        probe[c].pc = "answered" /\ probe[c].path = "readyz" /\ probe[c].floor =>
            probe[c].answer = 200
=============================================================================
