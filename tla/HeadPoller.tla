----------------------------- MODULE HeadPoller -----------------------------
(***************************************************************************)
(* lightcycle-source/src/rpc.rs, the poller of /wallet/getnowblock, and    *)
(* run_stream (lightcycle-cli/src/main.rs), the main loop beside it.       *)
(***************************************************************************)
EXTENDS Process

CONSTANT NodeNumber    \* the block numbers the node's JSON holds; None if it has none

VARIABLES poll,           \* off, waiting (for the ticker) or posted
          head_info,      \* the watch: height of the last HeadInfo, or None
          unseen,         \* the watch has changed since rx.changed() last returned
          node_number     \* external: number in the node's head block

pollerVars == <<poll, head_info, unseen, node_number>>

\* unwrap_or(0), then u64::try_from(..).unwrap_or(0).
HeightOfJson(n) == IF n = None \/ n < 0 THEN 0 ELSE n

\* run_stream: the exporter is installed, the poller spawned, the heartbeat armed.
StreamStarts ==
    /\ main = "stream"
    /\ \/ Exits("err") /\ UNCHANGED poll
       \/ main' = "streaming" /\ poll' = "waiting" /\ UNCHANGED exit
    /\ UNCHANGED <<interrupted, head_info, unseen, node_number>>

\* run: the ticker fires, missed ticks are skipped, and the request is sent.
PollTick ==
    /\ Alive /\ poll = "waiting"
    /\ poll' = "posted"
    /\ UNCHANGED <<processVars, head_info, unseen, node_number>>

\* Sets the watch only once.
Publish_First(info) == IF head_info = None THEN info ELSE head_info
\* tx.send: the watch holds the latest head.
Publish(info) == info

\* poll_once succeeded: status, body and JSON are as expected.
PollOk ==
    /\ Alive /\ poll = "posted"
    /\ head_info' = Publish(HeightOfJson(node_number))
    /\ unseen' = TRUE /\ poll' = "waiting"
    /\ UNCHANGED <<processVars, node_number>>

\* It failed, or ten seconds have passed: the watch keeps its value.
PollFails ==
    /\ Alive /\ poll = "posted"
    /\ poll' = "waiting"
    /\ UNCHANGED <<processVars, head_info, unseen, node_number>>

\* The request comes to an end, at the latest by its timeout.
PollEnds == PollOk \/ PollFails

\* run_stream's select: rx.changed() and the heartbeat only read the watch.
StreamNotified ==
    /\ main = "streaming" /\ unseen
    /\ unseen' = FALSE
    /\ UNCHANGED <<processVars, poll, head_info, node_number>>

\* Its third arm: the interrupt ends the loop, and the runtime with all its tasks.
StreamStops ==
    /\ main = "streaming" /\ interrupted
    /\ Exits("ok")
    /\ UNCHANGED <<interrupted, pollerVars>>

\* External: the node's head changes.
NodeChanges(n) ==
    /\ main = "streaming" /\ node_number' = n
    /\ UNCHANGED <<processVars, poll, head_info, unseen>>

PollerInit ==
    /\ poll = "off" /\ head_info = None /\ unseen = FALSE /\ node_number \in NodeNumber

StreamMain == StreamStarts \/ StreamNotified \/ StreamStops

PollerNext ==
    \/ StreamMain
    \/ PollTick
    \/ PollEnds
    \/ \E n \in NodeNumber : NodeChanges(n)

(* The main task and the poller are polled by tokio; the node answers again and again. *)
PollerFairness ==
    /\ WF_<<processVars, pollerVars>>(StreamStarts \/ StreamStops)
    /\ WF_<<processVars, pollerVars>>(PollTick)
    /\ WF_<<processVars, pollerVars>>(PollEnds)
    /\ SF_<<processVars, pollerVars>>(PollOk)

-----------------------------------------------------------------------------
(* Properties *)

\* The watch follows the node: if the node's head stays at one number, falling back
\* included, the watch comes to show its height and keeps it, through failed and
\* slow polls.
WatchConverges ==
    \A n \in NodeNumber :
        <>[](main = "streaming" /\ node_number = n) => <>[](head_info = HeightOfJson(n))
=============================================================================
