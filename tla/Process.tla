------------------------------ MODULE Process ------------------------------
(***************************************************************************)
(* lightcycle-cli/src/main.rs: what the subcommands have in common, the    *)
(* place of the main task, the exit of the process and the interrupt.      *)
(***************************************************************************)
EXTENDS Integers, Sequences, FiniteSets

CONSTANT None    \* a watch channel without a value

VARIABLES main,          \* where the main task is
          exit,          \* none, ok, err or killed: how the process has ended
          interrupted    \* SIGINT was delivered

processVars == <<main, exit, interrupted>>

Alive == main # "exited"
Exits(how) == main' = "exited" /\ exit' = how

\* The main task awaits tokio::signal::ctrl_c() there.
AwaitsInterrupt == {"streaming", "serving"}

\* SIGINT: until the handler is installed it kills the process, later ones do
\* nothing.
Interrupt ==
    /\ Alive /\ ~ interrupted
    /\ interrupted' = TRUE
    /\ IF main \in AwaitsInterrupt THEN UNCHANGED <<main, exit>> ELSE Exits("killed")
=============================================================================
