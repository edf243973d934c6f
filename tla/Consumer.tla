------------------------------ MODULE Consumer ------------------------------
(***************************************************************************)
(* A consumer of the stream, as ARCHITECTURE.md describes it: it keeps a   *)
(* materialized chain, appends on New, retracts on Undo, and marks a prefix *)
(* final on Irreversible.  External to the repository: it is what the      *)
(* outputs are for, and the yardstick their order is measured with.        *)
(***************************************************************************)
EXTENDS Chain, SequencesExt

\* A consumer that has received nothing.  ok turns FALSE, for good, when an
\* output makes no sense to it.
FreshView == [chain |-> <<>>, final |-> 0, ok |-> TRUE]

\* Where an entry sits in the materialized chain, 0 if it does not.
IndexIn(chain, e) ==
    IF \E i \in DOMAIN chain : chain[i] = e
    THEN CHOOSE i \in DOMAIN chain : chain[i] = e
    ELSE 0

\* The effect of one output on the materialized chain.
Apply(v, o) ==
    LET c == v.chain
    IN  CASE o.step = "New" ->
               [v EXCEPT !.chain = Append(c, o.block),
                         !.ok = @ /\ (c # <<>> => Parent[o.block.id] = Last(c).id)]
          [] o.step = "Undo" ->
               IF c # <<>> /\ Last(c) = o.block
               THEN [v EXCEPT !.chain = Front(c), !.ok = @ /\ Len(c) > v.final]
               ELSE [v EXCEPT !.ok = FALSE]
          [] o.step = "Irreversible" ->
               [v EXCEPT !.final = IndexIn(c, o.block),
                         !.ok = @ /\ IndexIn(c, o.block) > v.final]
          [] OTHER -> v

\* The effect of a run of outputs, in their order.
Replay(v, outs) ==
    LET after[k \in 0 .. Len(outs)] ==
            IF k = 0 THEN v ELSE Apply(after[k - 1], outs[k])
    IN  after[Len(outs)]
=============================================================================
