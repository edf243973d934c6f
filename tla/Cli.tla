-------------------------------- MODULE Cli --------------------------------
(***************************************************************************)
(* lightcycle-cli/src/main.rs: the subcommands of the process.  stream is  *)
(* HeadPoller, relay is RelayProcess; inspect is a chain of calls here.    *)
(***************************************************************************)
EXTENDS HeadPoller, RelayProcess

cliVars == <<processVars, pollerVars, relayVars>>

\* run_inspect: connect, fetch, dump when asked to, decode and print.
InspectStages == <<"inspect", "fetch", "dump", "decode">>

InspectStep ==
    \E i \in DOMAIN InspectStages :
        /\ main = InspectStages[i]
        /\ \/ Exits("err")
           \/ IF i = Len(InspectStages) THEN Exits("done")
              ELSE main' = InspectStages[i + 1] /\ UNCHANGED exit
        /\ UNCHANGED <<interrupted, pollerVars, relayVars>>

CliInit ==
    /\ main \in {"stream", "relay", "inspect"} /\ exit = "none" /\ interrupted = FALSE
    /\ PollerInit /\ RelayInit

CliNext ==
    \/ PollerNext /\ UNCHANGED relayVars
    \/ RelayNext /\ UNCHANGED pollerVars
    \/ InspectStep
    \/ Interrupt /\ UNCHANGED <<pollerVars, relayVars>>

CliSpec ==
    /\ CliInit /\ [][CliNext]_cliVars
    /\ PollerFairness /\ RelayFairness /\ WF_cliVars(InspectStep)

-----------------------------------------------------------------------------
(* Properties *)

\* An interrupt ends the process, of every subcommand and at every moment, also while
\* clients hold their streams open, the node is silent, and service and pump wait for
\* each other to end.
InterruptStops == interrupted ~> ~ Alive
=============================================================================
