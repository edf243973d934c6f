----------------------------- MODULE CliProofs -----------------------------
(***************************************************************************)
(* The process, for every subcommand, every set of flags and any number of *)
(* connections to the health server: what start-up has wired stays wired,  *)
(* the process ends only when told to, and readiness does not flap.        *)
(***************************************************************************)
EXTENDS Cli, TLAPS

-----------------------------------------------------------------------------
(* The stages of the main task *)

\* Before the pipeline is spawned, and while the gRPC server is not; the other
\* subcommands have neither.
BeforeSpawn ==
    {"stream", "streaming", "inspect", "fetch", "dump", "decode",
     "relay", "sr_set", "refresh", "spawn"}
BeforeServe == BeforeSpawn \cup {"archive", "oracle", "serve"}
Shutdown == {"join_server", "join_pump", "join_health", "join_service"}
WithPipeline == {"archive", "oracle", "serve", "serving"} \cup Shutdown

\* The inductive invariant of the process.  PipelineUp speaks of the serving process
\* only; that it holds there rests on the order of the stages, and on service and pump
\* waiting for each other from the stage that spawns them on.
ProcessInv ==
    /\ main \in BeforeSpawn \cup WithPipeline \cup {"exited"}
    /\ exit = "none" <=> main # "exited"
    /\ main \in BeforeSpawn => "service" \notin up /\ "pump" \notin up
    /\ main \in BeforeServe => "server" \notin up
    /\ main \in WithPipeline => "service" \in up /\ "pump" \in up
    /\ main \in Shutdown => interrupted
    /\ exit \in {"ok", "killed"} => interrupted
    /\ exit = "err" => "server" \notin up

\* run_relay's stages in their order.
LEMMA StageOrder ==
    /\ {Stages[i] : i \in 1 .. Len(Stages) - 1}
          = {"relay", "sr_set", "refresh", "spawn", "archive", "oracle", "serve"}
    /\ After("relay") = "sr_set" /\ After("sr_set") = "refresh"
    /\ After("refresh") = "spawn" /\ After("spawn") = "archive"
    /\ After("archive") = "oracle" /\ After("oracle") = "serve"
    /\ After("serve") = "serving"
<1>1. /\ Len(Stages) = 8 /\ DOMAIN Stages = 1 .. 8
      /\ Stages[1] = "relay" /\ Stages[2] = "sr_set" /\ Stages[3] = "refresh"
      /\ Stages[4] = "spawn" /\ Stages[5] = "archive" /\ Stages[6] = "oracle"
      /\ Stages[7] = "serve" /\ Stages[8] = "serving"
  BY DEF Stages
<1>2. \A i \in 1 .. 8 : i = 1 \/ i = 2 \/ i = 3 \/ i = 4 \/ i = 5 \/ i = 6 \/ i = 7 \/ i = 8
  OBVIOUS
<1>3. ASSUME NEW k \in 1 .. 7 PROVE After(Stages[k]) = Stages[1 + k]
  <2> DEFINE j == CHOOSE i \in DOMAIN Stages : Stages[i] = Stages[k]
  <2>1. k \in DOMAIN Stages /\ j \in DOMAIN Stages /\ Stages[j] = Stages[k]
    BY <1>1
  <2> HIDE DEF j
  <2>2. j = k
    BY <1>1, <1>2, <2>1
  <2> QED
    BY <2>2 DEF After, j
<1>4. /\ 1 \in 1 .. 7 /\ 2 \in 1 .. 7 /\ 3 \in 1 .. 7 /\ 4 \in 1 .. 7 /\ 5 \in 1 .. 7
      /\ 6 \in 1 .. 7 /\ 7 \in 1 .. 7
      /\ 1 + 1 = 2 /\ 1 + 2 = 3 /\ 1 + 3 = 4 /\ 1 + 4 = 5 /\ 1 + 5 = 6 /\ 1 + 6 = 7 /\ 1 + 7 = 8
  OBVIOUS
<1>5. /\ After("relay") = "sr_set" /\ After("sr_set") = "refresh"
      /\ After("refresh") = "spawn" /\ After("spawn") = "archive"
      /\ After("archive") = "oracle" /\ After("oracle") = "serve"
      /\ After("serve") = "serving"
  BY <1>1, <1>3, <1>4
<1>6. {Stages[i] : i \in 1 .. Len(Stages) - 1}
          = {"relay", "sr_set", "refresh", "spawn", "archive", "oracle", "serve"}
  <2>1. Len(Stages) - 1 = 7 /\ \A i \in 1 .. 7 : i \in 1 .. 8 /\ i # 8
    BY <1>1
  <2> QED
    BY <1>1, <1>2, <1>4, <2>1
<1> QED
  BY <1>5, <1>6

\* Its join points in their order.
LEMMA JoinOrder ==
    /\ DOMAIN Joins = 1 .. 4 /\ Len(Joins) = 4
    /\ Joins[1] = "join_server" /\ Joins[2] = "join_pump" /\ Joins[3] = "join_health"
    /\ Joins[4] = "join_service"
    /\ \A i \in 1 .. 4 : i = 1 \/ i = 2 \/ i = 3 \/ i = 4
  BY DEF Joins

\* The start of the relay keeps the invariant.
LEMMA StartKeeps ==
    ASSUME ProcessInv, StartStage
    PROVE  ProcessInv'
<1>1. main \in {"relay", "sr_set", "refresh", "spawn", "archive", "oracle", "serve"}
  BY StageOrder DEF StartStage
<1>2. CASE MayFail(main) /\ Exits("err") /\ UNCHANGED up
  BY <1>1, <1>2 DEF ProcessInv, Exits, BeforeSpawn, BeforeServe, WithPipeline, Shutdown, StartStage
<1>3. CASE main' = After(main) /\ up' = up \cup Spawns(main) /\ UNCHANGED exit
  <2>1. UNCHANGED <<exit, interrupted>>
    BY <1>3 DEF StartStage
  <2>2. CASE main \in {"relay", "sr_set", "refresh"}
    <3>1. Spawns(main) \subseteq {"refresh"}
      BY <2>2 DEF Spawns
    <3>2. main' \in {"sr_set", "refresh", "spawn"}
      BY <1>3, <2>2, StageOrder
    <3> QED
      BY <1>1, <1>3, <2>1, <2>2, <3>1, <3>2
         DEF ProcessInv, BeforeSpawn, BeforeServe, WithPipeline, Shutdown
  <2>3. CASE main = "spawn"
    <3>1. /\ "service" \in Spawns(main) /\ "pump" \in Spawns(main)
          /\ "server" \notin Spawns(main)
      BY <2>3 DEF Spawns
    <3>2. main' = "archive"
      BY <1>3, <2>3, StageOrder
    <3> QED
      BY <1>1, <1>3, <2>1, <2>3, <3>1, <3>2
         DEF ProcessInv, BeforeSpawn, BeforeServe, WithPipeline, Shutdown
  <2>4. CASE main \in {"archive", "oracle"}
    <3>1. Spawns(main) = {}
      BY <2>4 DEF Spawns
    <3>2. main' \in {"oracle", "serve"}
      BY <1>3, <2>4, StageOrder
    <3> QED
      BY <1>1, <1>3, <2>1, <2>4, <3>1, <3>2
         DEF ProcessInv, BeforeSpawn, BeforeServe, WithPipeline, Shutdown
  <2>5. CASE main = "serve"
    <3>1. main' = "serving"
      BY <1>3, <2>5, StageOrder
    <3> QED
      BY <1>1, <1>3, <2>1, <2>5, <3>1
         DEF ProcessInv, BeforeSpawn, BeforeServe, WithPipeline, Shutdown
  <2> QED
    BY <1>1, <2>2, <2>3, <2>4, <2>5
<1> QED
  BY <1>2, <1>3 DEF StartStage

\* So does its end.
LEMMA ShutdownKeeps ==
    ASSUME ProcessInv, BeginShutdown \/ Join
    PROVE  ProcessInv'
<1>1. CASE BeginShutdown
  BY <1>1, JoinOrder
     DEF BeginShutdown, ProcessInv, BeforeSpawn, BeforeServe, WithPipeline, Shutdown
<1>2. CASE Join
  <2>1. PICK i \in 1 .. 4 :
            /\ main = Joins[i]
            /\ IF i = 4 THEN Exits("ok") ELSE main' = Joins[i + 1] /\ UNCHANGED exit
    BY <1>2, JoinOrder DEF Join
  <2>2. /\ interrupted' = interrupted
        /\ "service" \in up' <=> "service" \in up
        /\ "pump" \in up' <=> "pump" \in up
    BY <1>2 DEF Join
  <2>3. main \in Shutdown /\ interrupted
    BY <2>1, JoinOrder DEF ProcessInv, Shutdown
  <2>4. \/ main' \in Shutdown /\ exit' = exit
        \/ main' = "exited" /\ exit' = "ok"
    BY <2>1, JoinOrder DEF Shutdown, Exits
  <2> QED
    BY <2>2, <2>3, <2>4 DEF ProcessInv, BeforeSpawn, BeforeServe, WithPipeline, Shutdown
<1> QED
  BY <1>1, <1>2

\* The tasks end in an order that never reaches service and pump.
LEMMA TasksKeep ==
    ASSUME ProcessInv, NEW t \in up, Bind(t) \/ TaskEnds(t)
    PROVE  ProcessInv'
<1>1. UNCHANGED processVars /\ Alive /\ up' \subseteq up
  BY DEF Bind, TaskEnds
<1>2. ASSUME main \in WithPipeline PROVE "service" \in up' /\ "pump" \in up'
  <2>1. "service" \in up /\ "pump" \in up
    BY <1>2 DEF ProcessInv
  <2>2. CASE Bind(t)
    BY <2>1, <2>2 DEF Bind
  <2>3. CASE TaskEnds(t)
    <3>1. t # "service" /\ t # "pump"
      BY <2>1, <2>3 DEF TaskEnds, CanEnd
    <3> QED
      BY <2>1, <2>3, <3>1 DEF TaskEnds
  <2> QED
    BY <2>2, <2>3
<1> QED
  BY <1>1, <1>2 DEF ProcessInv, processVars

\* Every step of the process keeps the invariant.
LEMMA ProcessStep ==
    ASSUME ProcessInv, [CliNext]_cliVars
    PROVE  ProcessInv'
<1>1. ASSUME UNCHANGED <<processVars, up>> PROVE ProcessInv'
  BY <1>1 DEF ProcessInv, processVars
<1>2. ASSUME PollerNext, UNCHANGED relayVars PROVE ProcessInv'
  <2>1. up' = up
    BY <1>2 DEF relayVars
  <2>2. CASE StreamStarts
    BY <2>1, <2>2 DEF StreamStarts, ProcessInv, Exits, BeforeSpawn, BeforeServe, WithPipeline,
                      Shutdown
  <2>3. CASE StreamStops
    BY <2>1, <2>3 DEF StreamStops, ProcessInv, Exits, BeforeSpawn, BeforeServe, WithPipeline,
                      Shutdown
  <2>4. \/ StreamNotified \/ PollTick \/ PollEnds \/ (\E n \in NodeNumber : NodeChanges(n))
        => UNCHANGED processVars
    BY DEF StreamNotified, PollTick, PollEnds, PollOk, PollFails, NodeChanges
  <2> QED
    BY <1>1, <1>2, <2>1, <2>2, <2>3, <2>4 DEF PollerNext, StreamMain
<1>3. ASSUME RelayNext PROVE ProcessInv'
  <2>1. \/ ClientConnects \/ ClientLeaves \/ (\E h \in SolidReport \cup {None} : ServiceTick(h))
        \/ (\E c \in Probe : \/ \E path \in {"healthz", "readyz", "other"} : Accept(c, path)
                             \/ Handle(c)
                             \/ CloseProbe(c))
        => UNCHANGED <<processVars, up>>
    BY DEF ClientConnects, ClientLeaves, ServiceTick, Accept, Handle, CloseProbe
  <2> QED
    BY <1>1, <1>3, <2>1, StartKeeps, ShutdownKeeps, TasksKeep DEF RelayNext, RelayMain
<1>4. ASSUME InspectStep PROVE ProcessInv'
  <2>1. /\ DOMAIN InspectStages = 1 .. 4 /\ Len(InspectStages) = 4
        /\ InspectStages[1] = "inspect" /\ InspectStages[2] = "fetch"
        /\ InspectStages[3] = "dump" /\ InspectStages[4] = "decode"
        /\ \A i \in 1 .. 4 : i = 1 \/ i = 2 \/ i = 3 \/ i = 4
    BY DEF InspectStages
  <2>2. /\ main \in {"inspect", "fetch", "dump", "decode"}
        /\ UNCHANGED <<interrupted, up>>
        /\ \/ main' = "exited" /\ exit' \in {"err", "done"}
           \/ main' \in {"inspect", "fetch", "dump", "decode"} /\ exit' = exit
    BY <1>4, <2>1 DEF InspectStep, Exits, relayVars
  <2> QED
    BY <2>2 DEF ProcessInv, BeforeSpawn, BeforeServe, WithPipeline, Shutdown
<1>5. ASSUME Interrupt, UNCHANGED relayVars PROVE ProcessInv'
  <2>1. /\ up' = up /\ interrupted' = TRUE
        /\ UNCHANGED <<main, exit>> \/ (main' = "exited" /\ exit' = "killed")
    BY <1>5 DEF Interrupt, Exits, relayVars
  <2> QED
    BY <2>1 DEF ProcessInv, BeforeSpawn, BeforeServe, WithPipeline, Shutdown
<1>6. ASSUME UNCHANGED cliVars PROVE ProcessInv'
  BY <1>1, <1>6 DEF cliVars, relayVars
<1> QED
  BY <1>2, <1>3, <1>4, <1>5, <1>6 DEF CliNext

\* Service and pump are up for as long as the process serves, whatever servers fail
\* to bind, clients stay and tasks end; after start-up the process ends only when it
\* is interrupted, and a failed start leaves no gRPC server behind.
THEOREM PipelineStaysUp == CliSpec => []PipelineUp
<1>1. CliInit => ProcessInv
  BY DEF CliInit, RelayInit, ProcessInv, BeforeSpawn, BeforeServe, WithPipeline, Shutdown
<1>2. ProcessInv => PipelineUp
  BY DEF ProcessInv, PipelineUp, WithPipeline
<1>3. CliSpec => []ProcessInv
  BY <1>1, ProcessStep, PTL DEF CliSpec
<1> QED
  BY <1>2, <1>3, PTL

-----------------------------------------------------------------------------
(* Readiness *)

\* A connection p of the health server: who was told 200, or came after one who was,
\* has seen a head.
ProbeInv(p, h) ==
    /\ p = [path |-> p.path, pc |-> p.pc, answer |-> p.answer, floor |-> p.floor]
    /\ p.path = "readyz" /\ p.answer = 200 => h # None
    /\ p.floor => h # None
    /\ p.pc = "answered" /\ p.path = "readyz" /\ p.floor => p.answer = 200

\* The inductive invariant of readiness: ReadyStays relates one probe to another that
\* may be gone by now, so the head must be known to have been there since.
ReadyInv ==
    /\ DOMAIN probe = Probe
    /\ \A c \in Probe : ProbeInv(probe[c], head)

\* Updates of a connection, field by field.
LEMMA ProbeUpdate ==
    ASSUME NEW q, NEW a, NEW b, NEW c, NEW d,
           q = [path |-> a, pc |-> b, answer |-> c, floor |-> d],
           NEW w, NEW x, NEW y, NEW z, NEW u,
           \/ w = [q EXCEPT !.path = x, !.pc = y, !.floor = u] /\ z = c
           \/ w = [q EXCEPT !.pc = y, !.answer = z] /\ x = a /\ u = d
    PROVE  w = [path |-> x, pc |-> y, answer |-> z, floor |-> u]
<1>1. DOMAIN q = {"path", "pc", "answer", "floor"} /\ DOMAIN w = DOMAIN q
  OBVIOUS
<1>2. w.path = x /\ w.pc = y /\ w.answer = z /\ w.floor = u
  OBVIOUS
<1>3. w = [k \in DOMAIN w |-> w[k]]
  OBVIOUS
<1> QED
  BY <1>1, <1>2, <1>3

\* Every step keeps it.
LEMMA ReadyStep ==
    ASSUME ReadyInv, [CliNext]_cliVars
    PROVE  ReadyInv'
<1>1. ASSUME UNCHANGED probe, head' = head \/ head' # None PROVE ReadyInv'
  BY <1>1 DEF ReadyInv, ProbeInv
<1>2. ASSUME UNCHANGED head, NEW c \in Probe, NEW p, ProbeInv(p, head),
             probe' = [probe EXCEPT ![c] = p]
      PROVE  ReadyInv'
  <2>1. DOMAIN probe' = Probe /\ \A d \in Probe : probe'[d] = IF d = c THEN p ELSE probe[d]
    BY <1>2 DEF ReadyInv
  <2> QED
    BY <1>2, <2>1 DEF ReadyInv
<1>3. ProbeInv(NoProbe, head)
  BY DEF ProbeInv, NoProbe
<1>4. ASSUME NEW c \in Probe, NEW path, Accept(c, path) PROVE ReadyInv'
  <2> DEFINE told == \E d \in Probe : probe[d].path = "readyz" /\ probe[d].answer = 200
             p == [NoProbe EXCEPT !.path = path, !.pc = "accepted", !.floor = told]
  <2>1. head' = head /\ probe' = [probe EXCEPT ![c] = p]
    BY <1>4 DEF Accept
  <2>2. told => head # None
    BY DEF ReadyInv, ProbeInv
  <2> HIDE DEF told
  <2>3. p = [path |-> path, pc |-> "accepted", answer |-> 0, floor |-> told]
    <3>1. NoProbe = [path |-> "", pc |-> "free", answer |-> 0, floor |-> FALSE]
      BY DEF NoProbe
    <3>2. p = [NoProbe EXCEPT !.path = path, !.pc = "accepted", !.floor = told]
      OBVIOUS
    <3> HIDE DEF p
    <3> QED
      BY <3>1, <3>2, ProbeUpdate, Zenon
  <2> HIDE DEF p
  <2>4. ProbeInv(p, head)
    BY <2>2, <2>3 DEF ProbeInv
  <2> QED
    BY <1>2, <2>1, <2>4
<1>5. ASSUME NEW c \in Probe, Handle(c) PROVE ReadyInv'
  <2> DEFINE q == probe[c]
             a == Answer(q.path)
             p == [path |-> q.path, pc |-> "answered", answer |-> a, floor |-> q.floor]
  <2>1. ProbeInv(q, head)
    BY DEF ReadyInv
  <2>2. /\ q.path = "readyz" /\ a = 200 => head # None
        /\ q.path = "readyz" /\ head # None => a = 200
    BY DEF Answer
  <2>3. head' = head /\ probe' = [probe EXCEPT ![c] = p]
    <3>1. probe' = [probe EXCEPT ![c] = [probe[c] EXCEPT !.pc = "answered", !.answer = a]]
      BY <1>5 DEF Handle
    <3>2. [q EXCEPT !.pc = "answered", !.answer = a] = p
      <4>1. q = [path |-> q.path, pc |-> q.pc, answer |-> q.answer, floor |-> q.floor]
        BY <2>1 DEF ProbeInv
      <4>2. PICK w : w = [q EXCEPT !.pc = "answered", !.answer = a]
        OBVIOUS
      <4> HIDE DEF q, a
      <4>3. w = [path |-> q.path, pc |-> "answered", answer |-> a, floor |-> q.floor]
        BY <4>1, <4>2, ProbeUpdate, Zenon
      <4> QED
        BY <4>2, <4>3
    <3> QED
      BY <1>5, <3>1, <3>2 DEF Handle
  <2> HIDE DEF a
  <2>4. ProbeInv(p, head)
    BY <2>1, <2>2 DEF ProbeInv
  <2> QED
    BY <1>2, <2>3, <2>4
<1>6. ASSUME NEW c \in Probe, CloseProbe(c) PROVE ReadyInv'
  BY <1>2, <1>3, <1>6 DEF CloseProbe
<1>7. ASSUME NEW h \in SolidReport \cup {None}, ServiceTick(h) PROVE ReadyInv'
  BY <1>1, <1>7 DEF ServiceTick, HeadAfter
<1>8. ASSUME \/ RelayMain \/ (\E t \in up : Bind(t) \/ TaskEnds(t))
             \/ ClientConnects \/ ClientLeaves
      PROVE  ReadyInv'
  BY <1>1, <1>8 DEF RelayMain, StartStage, BeginShutdown, Join, Bind, TaskEnds, ClientConnects,
                    ClientLeaves
<1>9. ASSUME UNCHANGED relayVars PROVE ReadyInv'
  BY <1>1, <1>9 DEF relayVars
<1>10. InspectStep => UNCHANGED relayVars
  BY DEF InspectStep
<1>11. RelayNext => ReadyInv'
  BY <1>4, <1>5, <1>6, <1>7, <1>8 DEF RelayNext
<1> QED
  BY <1>9, <1>10, <1>11 DEF CliNext, cliVars

\* A /readyz probe that is accepted after another was told 200 is told 200, with any
\* number of concurrent handlers and whatever the node fails to report: nothing takes
\* a head back out of the watch.
THEOREM ReadinessStays == CliSpec => []ReadyStays
<1>1. CliInit => ReadyInv
  <2>1. \A h : ProbeInv(NoProbe, h)
    BY DEF ProbeInv, NoProbe
  <2> QED
    BY <2>1 DEF CliInit, RelayInit, ReadyInv
<1>2. ReadyInv => ReadyStays
  BY DEF ReadyInv, ProbeInv, ReadyStays
<1>3. CliSpec => []ReadyInv
  BY <1>1, ReadyStep, PTL DEF CliSpec
<1> QED
  BY <1>2, <1>3, PTL
=============================================================================
