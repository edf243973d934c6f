---------------------------- MODULE ReorgEngine ----------------------------
(***************************************************************************)
(* lightcycle-relayer/src/engine.rs: the buffer of canonical blocks that   *)
(* turns the blocks the service fetched into New / Undo / Irreversible     *)
(* outputs and into the fork ledger.  One action per outcome of `accept`   *)
(* and of `set_solidified_head`; `ret` is what the call returned.          *)
(***************************************************************************)
EXTENDS Chain

CONSTANTS BufferWindow,    \* ReorgConfig.buffer_window
          FinalityDepth,   \* ReorgConfig.finality_depth
          ForkIdModulus,   \* 2^32 in the code: fork ids are u32 and wrap
          SolidHead,       \* the solidified heads the node may report
          MaxForkHistory   \* bound of the model: the code never caps fork_history

\* The assert of ReorgEngine::new, and the types of the parameters.
ASSUME EngineAssumption ==
    /\ BufferWindow \in Nat /\ FinalityDepth \in Nat
    /\ BufferWindow > FinalityDepth
    /\ ForkIdModulus \in Nat \ {0}
    /\ SolidHead \subseteq Nat
    /\ MaxForkHistory \in Nat

VARIABLES canonical,                 \* VecDeque<BufferedBlock>, oldest first
          canonical_ids,             \* HashSet<BlockId> beside it
          last_irreversible_height,
          solidified_head,
          fork_history,              \* VecDeque<ForkObservation>
          next_fork_id,
          ret                        \* the Result of the last call

engineVars == <<canonical, canonical_ids, last_irreversible_height,
                solidified_head, fork_history, next_fork_id, ret>>

-----------------------------------------------------------------------------
(* Data *)

\* BufferedBlock; the decoded payload and tx_infos ride along unread.
Entry == [id : Block, fork_id : 0 .. ForkIdModulus - 1]

\* ForkObservation.
Observation == [observed_at_height : Nat, kept_tip : Block,
                orphaned_tips : Seq(Block)]

\* Output: the three steps, with the finality envelope, and the ledger entries.
Streamable(step, e, tier, head) ==
    [step |-> step, block |-> e, tier |-> tier, head |-> head]
ForkObserved(obs) == [step |-> "ForkObserved", obs |-> obs]
ForkResolved(obs, head) ==
    [step |-> "ForkResolved", obs |-> obs, finalized_head |-> head,
     finalized_tip |-> obs.kept_tip]

Output ==
    [step : {"New", "Undo", "Irreversible"}, block : Entry,
     tier : {"Seen", "Finalized"}, head : OptHeight]
    \cup [step : {"ForkObserved"}, obs : Observation]
    \cup [step : {"ForkResolved"}, obs : Observation, finalized_head : OptHeight,
          finalized_tip : Block]

Errors == {"DuplicateBlock", "ParentNotInBuffer", "ReorgBelowFinality"}
Ok(out) == [err |-> "none", out |-> out]
Err(e) == [err |-> e, out |-> <<>>]

Ht(e) == Height[e.id]
Ids(c) == {c[i].id : i \in DOMAIN c}
Tip == canonical[Len(canonical)]

-----------------------------------------------------------------------------
(* The tail every accepted block goes through *)

\* How far the front-to-back walk of maybe_emit_irreversible gets before it
\* breaks: the leading entries at or below h.
WalkLen(c, h) ==
    CHOOSE n \in 0 .. Len(c) :
        /\ \A i \in 1 .. n : Ht(c[i]) <= h
        /\ n < Len(c) => Ht(c[n + 1]) > h

\* A walk that forgets to skip what has fired already.
FreshlyFinal_NoSkip(c, head, last) == SubSeq(c, 1, WalkLen(c, head))
\* A walk that stops one block early.
FreshlyFinal_Short(c, head, last) ==
    SubSeq(c, WalkLen(c, last) + 1, WalkLen(c, head) - 1)

\* The entries maybe_emit_irreversible fires for: those the walk reaches and
\* that are above the last height fired (`continue` skips a prefix, because
\* heights rise along the buffer).
FreshlyFinal(c, head, last) ==
    SubSeq(c, WalkLen(c, last) + 1, WalkLen(c, head))

IrreversibleOutputs(c, head, last) ==
    LET fresh == FreshlyFinal(c, head, last)
    IN  [i \in 1 .. Len(fresh) |->
            Streamable("Irreversible", fresh[i], "Finalized", head)]

\* last_irreversible_height after the walk.
LastFired(c, head, last) ==
    LET fresh == FreshlyFinal(c, head, last)
    IN  IF fresh = <<>> THEN last ELSE Ht(fresh[Len(fresh)])

\* maybe_resolve_forks pops from the front while the front observation is at
\* or below the head: the number of observations it pops.
ResolvedLen(fh, head) ==
    Cardinality({i \in DOMAIN fh :
                    \A j \in 1 .. i : fh[j].observed_at_height <= head})

\* A resolution that does not wait for the solidified head.
Resolved_Eager(fh, head) == fh

Resolved(fh, head) == SubSeq(fh, 1, ResolvedLen(fh, head))

ForkOutputs(fh, head) ==
    LET done == Resolved(fh, head)
    IN  [i \in 1 .. Len(done) |-> ForkResolved(done[i], head)]

\* A prune that compares with >=.
PruneLen_Early(c) == IF Len(c) >= BufferWindow THEN Len(c) - BufferWindow + 1 ELSE 0

\* maybe_prune_buffer drops this many entries from the front.
PruneLen(c) == IF Len(c) > BufferWindow THEN Len(c) - BufferWindow ELSE 0

Pruned(c) == SubSeq(c, PruneLen(c) + 1, Len(c))
PrunedIds(c) == {c[i].id : i \in 1 .. PruneLen(c)}

\* Forgets to drop pruned ids from the index.
IdsAfter_Leaky(ids, c) == ids
IdsAfter(ids, c) == ids \ PrunedIds(c)

\* maybe_emit_irreversible, then maybe_resolve_forks, on buffer c and ledger fh
\* under solidified head `head`, after the outputs `out`.
Settle(c, fh, head, out) ==
    /\ last_irreversible_height' = LastFired(c, head, last_irreversible_height)
    /\ fork_history' = SubSeq(fh, Len(Resolved(fh, head)) + 1, Len(fh))
    /\ ret' = Ok(out \o IrreversibleOutputs(c, head, last_irreversible_height)
                     \o ForkOutputs(fh, head))

\* A fork id counter that does not wrap.
NextForkId_NoWrap(n) == n + 1

\* alloc_fork_id: the counter is a u32 and wraps.
NextForkId(n) == (n + 1) % ForkIdModulus

\* Push b behind `base`, then settle and prune: the shared end of
\* push_canonical_first, extend_canonical and handle_reorg.
Push(base, ids, b, fh, out) ==
    LET c == Append(base, [id |-> b, fork_id |-> next_fork_id])
    IN  /\ canonical' = Pruned(c)
        /\ canonical_ids' = IdsAfter(ids \cup {b}, c)
        /\ next_fork_id' = NextForkId(next_fork_id)
        /\ Settle(c, fh, solidified_head, out)
        /\ UNCHANGED solidified_head

\* The New output of a block being pushed (derive_finality_for_tip).
NewOutput(b) ==
    Streamable("New", [id |-> b, fork_id |-> next_fork_id],
               Tier(Height[b], solidified_head), solidified_head)

-----------------------------------------------------------------------------
(* accept *)

\* accept: the block is in the buffer already.
RejectDuplicate(b) ==
    /\ b \in canonical_ids
    /\ ret' = Err("DuplicateBlock")
    /\ UNCHANGED <<canonical, canonical_ids, last_irreversible_height,
                   solidified_head, fork_history, next_fork_id>>

\* accept -> push_canonical_first: an empty buffer trusts the block.
PushCanonicalFirst(b) ==
    /\ b \notin canonical_ids
    /\ canonical = <<>>
    /\ Push(<<>>, canonical_ids, b, fork_history, <<NewOutput(b)>>)

\* accept -> extend_canonical: the parent is the tip.
ExtendCanonical(b) ==
    /\ b \notin canonical_ids
    /\ canonical # <<>>
    /\ Parent[b] = Tip.id
    /\ Push(canonical, canonical_ids, b, fork_history, <<NewOutput(b)>>)

\* The parent is in the buffer, below the tip.
ReorgCandidate(b) ==
    /\ b \notin canonical_ids
    /\ canonical # <<>>
    /\ Parent[b] # Tip.id
    /\ Parent[b] \in canonical_ids

\* handle_reorg: ancestor_idx, found from the back (rposition).
AncestorIdx(b) ==
    CHOOSE i \in DOMAIN canonical :
        /\ canonical[i].id = Parent[b]
        /\ \A j \in DOMAIN canonical : canonical[j].id = Parent[b] => j <= i

\* No finality guard at all; a guard that only protects the orphaned tip.
CrossesFinality_Never(b) == FALSE
CrossesFinality_TipOnly(b) == Ht(Tip) <= last_irreversible_height

\* handle_reorg: the earliest orphan is at or below the last irreversible height.
CrossesFinality(b) ==
    Ht(canonical[AncestorIdx(b) + 1]) <= last_irreversible_height

\* handle_reorg: ReorgBelowFinality, nothing changes.
RefuseReorg(b) ==
    /\ ReorgCandidate(b)
    /\ CrossesFinality(b)
    /\ ret' = Err("ReorgBelowFinality")
    /\ UNCHANGED <<canonical, canonical_ids, last_irreversible_height,
                   solidified_head, fork_history, next_fork_id>>

\* Orphans in buffer order instead of tip first.
Orphans_Forward(a) ==
    [k \in 1 .. Len(canonical) - a |-> canonical[a + k]]

\* The orphaned entries above index a, tip first.
Orphans(a) ==
    [k \in 1 .. Len(canonical) - a |-> canonical[Len(canonical) + 1 - k]]

\* The Undo outputs of the orphans and the ledger entry of the switch to b.
UndoOutputs(orphans) ==
    [k \in DOMAIN orphans |->
        Streamable("Undo", orphans[k], Tier(Ht(orphans[k]), solidified_head),
                   solidified_head)]
Switch(b, orphans) ==
    [observed_at_height |-> Height[b], kept_tip |-> b,
     orphaned_tips |-> [k \in DOMAIN orphans |-> orphans[k].id]]

\* handle_reorg: undo every orphan, push the block, record the observation.
HandleReorg(b) ==
    /\ ReorgCandidate(b)
    /\ ~ CrossesFinality(b)
    /\ LET a       == AncestorIdx(b)
           orphans == Orphans(a)
           obs     == Switch(b, orphans)
       IN  Push(SubSeq(canonical, 1, a),
                canonical_ids \ {orphans[k].id : k \in DOMAIN orphans},
                b,
                Append(fork_history, obs),
                UndoOutputs(orphans) \o <<NewOutput(b), ForkObserved(obs)>>)

\* accept: a gap, or a parent older than the buffer; nothing changes.
RejectUnknownParent(b) ==
    /\ b \notin canonical_ids
    /\ canonical # <<>>
    /\ Parent[b] # Tip.id
    /\ Parent[b] \notin canonical_ids
    /\ ret' = Err("ParentNotInBuffer")
    /\ UNCHANGED <<canonical, canonical_ids, last_irreversible_height,
                   solidified_head, fork_history, next_fork_id>>

Accept(b) ==
    \/ RejectDuplicate(b)
    \/ PushCanonicalFirst(b)
    \/ ExtendCanonical(b)
    \/ RefuseReorg(b)
    \/ HandleReorg(b)
    \/ RejectUnknownParent(b)

-----------------------------------------------------------------------------
(* set_solidified_head *)

\* A head that has not advanced is ignored.
IgnoreHead(h) ==
    /\ h <= solidified_head
    /\ ret' = Ok(<<>>)
    /\ UNCHANGED <<canonical, canonical_ids, last_irreversible_height,
                   solidified_head, fork_history, next_fork_id>>

\* A head that advances fires what it finalises and resolves forks.  The buffer
\* is not pruned here.
AdvanceHead(h) ==
    /\ h > solidified_head
    /\ solidified_head' = h
    /\ Settle(canonical, fork_history, h, <<>>)
    /\ UNCHANGED <<canonical, canonical_ids, next_fork_id>>

SetSolidifiedHead(h) == IgnoreHead(h) \/ AdvanceHead(h)

-----------------------------------------------------------------------------
EngineInit ==
    /\ canonical = <<>>
    /\ canonical_ids = {}
    /\ last_irreversible_height = None
    /\ solidified_head = None
    /\ fork_history = <<>>
    /\ next_fork_id = 0
    /\ ret = Ok(<<>>)

EngineNext ==
    \/ \E b \in Block : Accept(b) /\ Len(fork_history') <= MaxForkHistory
    \/ \E h \in SolidHead : SetSolidifiedHead(h)

EngineSpec == EngineInit /\ [][EngineNext]_engineVars

-----------------------------------------------------------------------------
(* Properties *)

\* Types of the engine's fields and of what it returns.
TypeOK ==
    /\ canonical \in Seq(Entry)
    /\ canonical_ids \subseteq Block
    /\ last_irreversible_height \in OptHeight
    /\ solidified_head \in OptHeight
    /\ fork_history \in Seq(Observation)
    /\ next_fork_id \in 0 .. ForkIdModulus - 1
    /\ ret \in [err : Errors \cup {"none"}, out : Seq(Output)]

\* The buffer is one branch of the block tree, no longer than buffer_window,
\* and canonical_ids indexes exactly the blocks in it: `accept` decides every
\* case by the index and acts on the buffer, so the two may never drift apart
\* through pushes, reorg drops and prunes.
CanonicalIsABranch ==
    /\ \A i \in 2 .. Len(canonical) : Parent[canonical[i].id] = canonical[i - 1].id
    /\ canonical_ids = Ids(canonical)
    /\ Len(canonical) <= BufferWindow

\* Finality is only ever read from the chain (fired at or below the solidified
\* head) and never missed: a buffered block at or below the solidified head has
\* been fired, whichever of head and block came first.
FinalityComplete ==
    /\ last_irreversible_height <= solidified_head
    /\ \A i \in DOMAIN canonical :
          Ht(canonical[i]) <= solidified_head =>
              Ht(canonical[i]) <= last_irreversible_height

\* handle_reorg's comment on orphans, "by construction they're above the
\* solidified head": no call ever undoes a block that is Finalized, although
\* the guard compares with last_irreversible_height and not with the head.
UndoNeverFinalized ==
    [][\A i \in DOMAIN ret'.out :
          ret'.out[i].step = "Undo" =>
              /\ ret'.out[i].tier = "Seen"
              /\ Ht(ret'.out[i].block) > last_irreversible_height]_engineVars

\* Irreversible fires once per height and in rising order, across calls and
\* within one call, and only for a block that is at or below the head.
IrreversibleRises ==
    [][\A i \in DOMAIN ret'.out :
          ret'.out[i].step = "Irreversible" =>
              /\ Ht(ret'.out[i].block) > last_irreversible_height
              /\ Ht(ret'.out[i].block) <= solidified_head'
              /\ \A j \in 1 .. i - 1 :
                    ret'.out[j].step = "Irreversible" =>
                        Ht(ret'.out[j].block) < Ht(ret'.out[i].block)]_engineVars

\* The assert of ReorgEngine::new, "buffer_window must exceed finality_depth so
\* finality emission has the block": as long as the solidified head trails the
\* tip by no more than the window, no block leaves the front of the buffer
\* before it was fired as Irreversible.
PruneOnlyFinal ==
    [][\A i \in DOMAIN canonical :
          /\ Ht(canonical[i]) < Ht(canonical'[1])
          /\ Ht(canonical'[Len(canonical')]) - solidified_head <= BufferWindow
          => Ht(canonical[i]) <= last_irreversible_height']_engineVars

\* The observations that the outputs of a kind carry, in their order.
Gather(seen, o, step) == IF o.step = step THEN Append(seen, o.obs) ELSE seen
Carried(out, step) ==
    LET upTo[i \in 0 .. Len(out)] ==
            IF i = 0 THEN <<>> ELSE Gather(upTo[i - 1], out[i], step)
    IN  upTo[Len(out)]

\* The observations that buffer c still covers: those made at or above its front.
CoveredBy(c, obs) ==
    SelectSeq(obs, LAMBDA o : o.observed_at_height >= Ht(c[1]))

\* The fork ledger loses no fork that the buffer still covers and invents none:
\* of these, what a call of accept or set_solidified_head resolves followed by
\* what stays pending is what was pending followed by what the call observed; and
\* a fork is resolved only once the solidified head has reached the height it was
\* observed at.  What becomes of older forks is left open (see LedgerBounded).
LedgerConserved ==
    [][LET resolved == Carried(ret'.out, "ForkResolved")
           before   == fork_history \o Carried(ret'.out, "ForkObserved")
           after    == resolved \o fork_history'
       IN  /\ CoveredBy(canonical', after) = CoveredBy(canonical', before)
           /\ \A i \in DOMAIN after : \E j \in DOMAIN before : after[i] = before[j]
           /\ \A i \in DOMAIN resolved :
                 resolved[i].observed_at_height <= solidified_head'
      ]_engineVars

\* The comment on fork_history, "Bounded by buffer_window + a small slack -
\* observations older than the buffer can no longer be resolved against canonical
\* state and are dropped silently": no pending observation is older than the front
\* of the buffer, with one height of slack.  handle_reorg pushes and only the
\* solidified head drains, so an observation stays however old it gets.
LedgerBounded ==
    \A i \in DOMAIN fork_history :
        fork_history[i].observed_at_height + 1 >= Ht(canonical[1])
=============================================================================
