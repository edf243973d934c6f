---------------------- MODULE ReorgEngineStreamProofs ----------------------
(***************************************************************************)
(* ReorgEngine implements ReorgStream, for every block tree, window, fork  *)
(* id modulus and stream of solidified heads: a consumer that replays the  *)
(* outputs of accept and set_solidified_head holds one branch of the tree, *)
(* whose final part never changes, although the engine itself remembers    *)
(* only buffer_window blocks.                                              *)
(***************************************************************************)
EXTENDS ReorgEngineStream, ReorgEngineProofs

\* The inductive invariant: the engine's own, and the consumer in step with it.
\* ConsumerInStep alone is not inductive: a reorg retracts what it does because the
\* consumer's chain is a branch, and its final mark is where the engine's guard
\* believes it is.
StreamInv == IInv /\ InStep(view, canonical, last_irreversible_height)

-----------------------------------------------------------------------------
\* The consumer of a new engine is in step with it.
LEMMA StreamInitHolds == StreamEngineInit => StreamInv
<1> SUFFICES ASSUME StreamEngineInit PROVE StreamInv
  OBVIOUS
<1>1. canonical = <<>> /\ last_irreversible_height = None /\ view = FreshView
  BY DEF StreamEngineInit, EngineInit
<1> QED
  BY <1>1, FreshInStep, InitHolds DEF StreamInv, StreamEngineInit

\* A step of the engine and its consumer keeps the invariant, and moves the consumer
\* as the stream allows.
LEMMA StreamStep ==
    ASSUME StreamInv, StreamEngineNext
    PROVE  StreamInv' /\ Moves(view, view')
<1>1. EngineNext /\ view' = Replay(view, ret'.out)
  BY DEF StreamEngineNext
<1>2. IInv /\ InStep(view, canonical, last_irreversible_height)
  BY DEF StreamInv
<1>3. IInv'
  BY <1>1, <1>2, StepPreserves
<1>4. \/ \E b \in Block : Accept(b)
      \/ \E h \in SolidHead : SetSolidifiedHead(h)
  BY <1>1 DEF EngineNext
<1>5. /\ InStep(Replay(view, ret'.out), canonical', last_irreversible_height')
      /\ Moves(view, Replay(view, ret'.out))
  BY <1>2, <1>4, CallKeepsInStep
<1>6. InStep(view', canonical', last_irreversible_height') /\ Moves(view, view')
  BY <1>1, <1>5
<1> QED
  BY <1>3, <1>6 DEF StreamInv

\* The invariant holds in every state.
LEMMA StreamInvariance == StreamEngineSpec => []StreamInv
<1>1. StreamInv /\ UNCHANGED <<engineVars, view>> => StreamInv'
  <2> SUFFICES ASSUME StreamInv, UNCHANGED <<engineVars, view>> PROVE StreamInv'
    OBVIOUS
  <2>1. IInv'
    BY StepPreserves DEF StreamInv
  <2>2. /\ view' = view /\ canonical' = canonical
        /\ last_irreversible_height' = last_irreversible_height
    BY DEF engineVars
  <2>3. InStep(view', canonical', last_irreversible_height')
    BY <2>2 DEF StreamInv
  <2> QED
    BY <2>1, <2>3 DEF StreamInv
<1>2. StreamInv /\ [StreamEngineNext]_<<engineVars, view>> => StreamInv'
  BY <1>1, StreamStep
<1> QED
  BY <1>2, StreamInitHolds, PTL DEF StreamEngineSpec

-----------------------------------------------------------------------------
\* Every New follows the consumer's tip, every Undo retracts exactly it, every
\* Irreversible names a block above the final mark, and the engine's buffer is the
\* end of the consumer's chain.
THEOREM ConsumerStaysInStep == StreamEngineSpec => []ConsumerInStep
<1>1. StreamInv => ConsumerInStep
  <2> SUFFICES ASSUME StreamInv PROVE ConsumerInStep
    OBVIOUS
  <2>1. InStep(view, canonical, last_irreversible_height) /\ IInv
    BY DEF StreamInv
  <2>2. canonical \in Seq(Entry) /\ view.chain \in Seq(Entry)
    BY <2>1, BufferFacts DEF InStep, View
  <2>3. IsSuffix(canonical, view.chain)
    BY <2>1, <2>2, SuffixMeaning DEF InStep
  <2> QED
    BY <2>1, <2>3 DEF InStep, ConsumerInStep
<1> QED
  BY <1>1, StreamInvariance, PTL

\* The engine implements the stream contract: across accept and set_solidified_head
\* in any order, with any pruning, a consumer's chain only grows by one block after
\* retracting non-final ones, or has its final mark moved up.
THEOREM EngineImplementsStream == StreamEngineSpec => ImplementsStream
<1>1. StreamEngineInit => S!StreamInit
  BY DEF StreamEngineInit, FreshView, S!StreamInit
<1>2. StreamInv /\ [StreamEngineNext]_<<engineVars, view>>
         => [S!StreamNext]_(S!streamVars)
  <2> SUFFICES ASSUME StreamInv, [StreamEngineNext]_<<engineVars, view>>
               PROVE  [S!StreamNext]_(S!streamVars)
    OBVIOUS
  <2>1. CASE UNCHANGED <<engineVars, view>>
    BY <2>1 DEF S!streamVars
  <2>2. CASE StreamEngineNext
    <3>1. Moves(view, view')
      BY <2>2, StreamStep
    <3>2. S!FinalRises
      BY <3>1 DEF Moves, S!FinalRises
    <3>3. CASE view'.chain = view.chain
      <4>1. view.final \in Nat /\ view'.final \in Nat
        BY <2>2, StreamStep DEF StreamInv, InStep, View
      <4>2. view'.final > view.final \/ view'.final = view.final
        BY <3>1, <4>1 DEF Moves
      <4> QED
        BY <3>2, <3>3, <4>2 DEF S!StreamNext, S!Finalize, S!streamVars
    <3>4. ASSUME NEW n \in 0 .. Len(view.chain), Keeps(view, view', n)
          PROVE  S!StreamNext
      BY <3>2, <3>4 DEF Keeps, S!StreamNext, S!Grow
    <3> QED
      BY <3>1, <3>3, <3>4 DEF Moves
  <2> QED
    BY <2>1, <2>2
<1> QED
  BY <1>1, <1>2, StreamInvariance, PTL
     DEF StreamEngineSpec, ImplementsStream, S!StreamSpec

-----------------------------------------------------------------------------
(* The fork ledger *)

\* g lists what the outputs of a kind carry, up to each output.
Collects(g, out, step) ==
    /\ g[0] = <<>>
    /\ \A k \in 1 .. Len(out) :
          g[k] = Gather(g[k - 1], out[k], step)

\* The equation that defines the recursive function of Carried, up to n.
CollectsUpTo(g, n, out, step) ==
    g = [k \in 0 .. n |-> IF k = 0 THEN <<>> ELSE Gather(g[k - 1], out[k], step)]

\* The recursion of Carried is well defined.
LEMMA CollectsExists ==
    ASSUME NEW out, NEW step, NEW n \in Nat
    PROVE  \E g : CollectsUpTo(g, n, out, step)
<1> DEFINE Good == {m \in Nat : \E g : CollectsUpTo(g, m, out, step)}
<1>1. 0 \in Good
  <2>1. CollectsUpTo([k \in 0 .. 0 |-> <<>>], 0, out, step)
    BY DEF CollectsUpTo
  <2> QED
    BY <2>1
<1>2. ASSUME NEW m \in Nat, m \in Good PROVE m + 1 \in Good
  <2>1. PICK g : CollectsUpTo(g, m, out, step)
    BY <1>2
  <2> DEFINE f == [k \in 0 .. m + 1 |->
                      IF k = 0 THEN <<>> ELSE Gather(g[k - 1], out[k], step)]
  <2>2. \A k \in 0 .. m : f[k] = g[k]
    BY <2>1 DEF CollectsUpTo
  <2>3. \A k \in 0 .. m + 1 : k # 0 => k - 1 \in 0 .. m
    OBVIOUS
  <2>4. CollectsUpTo(f, m + 1, out, step)
    BY <2>2, <2>3 DEF CollectsUpTo
  <2> QED
    BY <2>4
<1> HIDE DEF Good
<1>3. Nat \subseteq Good
  BY <1>1, <1>2, SetInduction
<1> QED
  BY <1>3 DEF Good

\* Carried is where the list ends.
LEMMA CarriedCollects ==
    ASSUME NEW out, NEW step, Len(out) \in Nat
    PROVE  \E g : Collects(g, out, step) /\ Carried(out, step) = g[Len(out)]
<1> DEFINE g == CHOOSE upTo : upTo = [i \in 0 .. Len(out) |->
                    IF i = 0 THEN <<>> ELSE Gather(upTo[i - 1], out[i], step)]
<1>1. \E upTo : upTo = [i \in 0 .. Len(out) |->
                    IF i = 0 THEN <<>> ELSE Gather(upTo[i - 1], out[i], step)]
  <2>1. \E upTo : CollectsUpTo(upTo, Len(out), out, step)
    BY CollectsExists
  <2> QED
    BY <2>1 DEF CollectsUpTo
<1>2. g = [i \in 0 .. Len(out) |-> IF i = 0 THEN <<>> ELSE Gather(g[i - 1], out[i], step)]
  BY <1>1
<1>3. Carried(out, step) = g[Len(out)]
  BY DEF Carried
<1> HIDE DEF g
<1>4. Collects(g, out, step)
  <2>1. 0 \in 0 .. Len(out) /\ \A k \in 1 .. Len(out) : k \in 0 .. Len(out) /\ k # 0
    OBVIOUS
  <2> QED
    BY <1>2, <2>1 DEF Collects
<1> QED
  BY <1>3, <1>4

\* The outputs of a kind are those at the places a + 1 to b, and they carry members
\* of T.
StandAt(out, step, a, b, T) ==
    /\ Len(out) \in Nat /\ b \in 0 .. Len(out) /\ a \in 0 .. b
    /\ \A k \in 1 .. Len(out) : out[k].step = step <=> k \in a + 1 .. b
    /\ \A k \in a + 1 .. b : out[k].obs \in T

\* When the outputs of a kind are those at the places a + 1 to b, they carry what
\* stands there.
LEMMA CarriedSpec ==
    ASSUME NEW out, NEW step, NEW a \in Nat, NEW b \in Nat, NEW T,
           StandAt(out, step, a, b, T)
    PROVE  /\ Carried(out, step) \in Seq(T)
           /\ Len(Carried(out, step)) = b - a
           /\ \A k \in 1 .. b - a : Carried(out, step)[k] = out[a + k].obs
<1>0. /\ Len(out) \in Nat /\ b \in 0 .. Len(out) /\ a \in 0 .. b
      /\ \A k \in 1 .. Len(out) : out[k].step = step <=> k \in a + 1 .. b
      /\ \A k \in a + 1 .. b : out[k].obs \in T
  BY DEF StandAt
<1> USE <1>0
<1>1. PICK g : Collects(g, out, step) /\ Carried(out, step) = g[Len(out)]
  BY CarriedCollects
<1> DEFINE W(m) == IF m <= a THEN 0 ELSE IF m <= b THEN m - a ELSE b - a
           P(m) == /\ g[m] \in Seq(T) /\ Len(g[m]) = W(m)
                   /\ \A k \in 1 .. W(m) : g[m][k] = out[a + k].obs
           Good == {m \in Nat : m <= Len(out) => P(m)}
<1>2. 0 \in Good
  <2>1. g[0] = <<>> /\ W(0) = 0
    BY <1>1 DEF Collects
  <2>2. <<>> \in Seq(T) /\ Len(<<>>) = 0
    OBVIOUS
  <2>3. P(0)
    BY <2>1, <2>2
  <2> QED
    BY <2>3
<1>3. ASSUME NEW m \in Nat, m \in Good PROVE m + 1 \in Good
  <2> HIDE DEF P
  <2> SUFFICES ASSUME m + 1 <= Len(out) PROVE P(m + 1)
    OBVIOUS
  <2>1. P(m)
    BY <1>3
  <2> USE DEF P
  <2>2. m + 1 \in 1 .. Len(out) /\ (m + 1) - 1 = m
    OBVIOUS
  <2>3. g[m + 1] = IF out[m + 1].step = step THEN Append(g[m], out[m + 1].obs) ELSE g[m]
    BY <1>1, <2>2 DEF Collects, Gather
  <2>4. CASE m + 1 \in a + 1 .. b
    <3>1. W(m) = m - a /\ W(m + 1) = (m - a) + 1 /\ m - a \in Nat /\ a + ((m - a) + 1) = m + 1
      BY <2>4
    <3>2. g[m + 1] = Append(g[m], out[m + 1].obs) /\ out[m + 1].obs \in T
      BY <2>2, <2>3, <2>4
    <3> HIDE DEF W
    <3>a. g[m] \in Seq(T) /\ Len(g[m]) = m - a
      BY <2>1, <3>1
    <3>3. /\ g[m + 1] \in Seq(T) /\ Len(g[m + 1]) = (m - a) + 1
          /\ \A k \in 1 .. Len(g[m]) : g[m + 1][k] = g[m][k]
          /\ g[m + 1][Len(g[m]) + 1] = out[m + 1].obs
      BY <3>a, <3>2, AppendProperties
    <3>4. ASSUME NEW k \in 1 .. W(m + 1) PROVE g[m + 1][k] = out[a + k].obs
      <4>1. CASE k = (m - a) + 1
        BY <2>1, <3>1, <3>3, <4>1
      <4>2. CASE k # (m - a) + 1
        <5>1. k \in 1 .. W(m)
          BY <3>1, <4>2
        <5> QED
          BY <2>1, <3>3, <5>1
      <4> QED
        BY <4>1, <4>2
    <3> QED
      BY <3>1, <3>3, <3>4
  <2>5. CASE m + 1 \notin a + 1 .. b
    <3>1. W(m + 1) = W(m)
      BY <2>5
    <3>2. g[m + 1] = g[m]
      BY <2>2, <2>3, <2>5
    <3> HIDE DEF W
    <3> QED
      BY <2>1, <3>1, <3>2
  <2> QED
    BY <2>4, <2>5
<1> HIDE DEF Good
<1>4. Len(out) \in Good
  BY <1>2, <1>3, SetInduction
<1>5. P(Len(out)) /\ W(Len(out)) = b - a
  <2>1. W(Len(out)) = b - a
    OBVIOUS
  <2> HIDE DEF P
  <2>2. P(Len(out))
    BY <1>4 DEF Good
  <2> QED
    BY <2>1, <2>2
<1> QED
  BY <1>1, <1>5

\* maybe_resolve_forks pops the front of the ledger, and only observations at or
\* below the head.
LEMMA ResolvedPrefix ==
    ASSUME NEW fh \in Seq(Observation), NEW head \in OptHeight
    PROVE  \A i \in 1 .. Len(Resolved(fh, head)) :
              /\ Resolved(fh, head)[i] = fh[i]
              /\ fh[i].observed_at_height <= head
<1> DEFINE I == {i \in DOMAIN fh : \A j \in 1 .. i : fh[j].observed_at_height <= head}
           n == ResolvedLen(fh, head)
           r == Resolved(fh, head)
<1>1. /\ Len(fh) \in Nat /\ DOMAIN fh = 1 .. Len(fh)
      /\ \A i \in 1 .. Len(fh) : fh[i] \in Observation
  BY LenProperties
<1>2. n = Cardinality(I) /\ r = SubSeq(fh, 1, n)
  BY DEF ResolvedLen, Resolved
<1>3. I \subseteq 1 .. Len(fh)
  BY <1>1
<1>4. \A i, j \in 1 .. Len(fh) : i \in I /\ j <= i => j \in I
  BY <1>1
<1>5. \A i \in I : i >= 1 /\ fh[i].observed_at_height <= head
  BY <1>1
<1> HIDE DEF I, n
<1>6. /\ IsFiniteSet(1 .. Len(fh)) /\ Cardinality(1 .. Len(fh)) = Len(fh)
      /\ n \in 0 .. Len(fh)
  <2>1. /\ IsFiniteSet(1 .. Len(fh))
        /\ Cardinality(1 .. Len(fh)) = IF 1 > Len(fh) THEN 0 ELSE Len(fh) - 1 + 1
    BY <1>1, FS_Interval
  <2>2. Cardinality(1 .. Len(fh)) = Len(fh)
    BY <1>1, <2>1
  <2>3. IsFiniteSet(I) /\ Cardinality(I) <= Cardinality(1 .. Len(fh))
    BY <1>3, <2>1, FS_Subset
  <2>4. Cardinality(I) \in Nat
    BY <2>3, FS_CardinalityType
  <2> QED
    BY <1>1, <1>2, <2>1, <2>2, <2>3, <2>4
<1>7. r \in Seq(Observation) /\ Len(r) = n /\ \A i \in 1 .. n : r[i] = fh[i]
  <2>1. /\ SubSeq(fh, 1, n) \in Seq(Observation)
        /\ Len(SubSeq(fh, 1, n)) = IF 1 <= n THEN n - 1 + 1 ELSE 0
        /\ \A i \in 1 .. n - 1 + 1 : SubSeq(fh, 1, n)[i] = fh[1 + i - 1]
    <3>1. n \in Int /\ 1 \in Int /\ \A i \in 1 .. n : fh[i] \in Observation
      BY <1>1, <1>6
    <3> QED
      BY <3>1, SubSeqProperties
  <2> QED
    BY <1>2, <1>6, <2>1
<1>8. ASSUME NEW i \in 1 .. n, i \notin I PROVE FALSE
  <2>1. i \in 1 .. Len(fh) /\ i - 1 \in Nat
    BY <1>1, <1>6
  <2>2. I \subseteq 1 .. i - 1
    <3> SUFFICES ASSUME NEW k \in I PROVE k \in 1 .. i - 1
      OBVIOUS
    <3>1. k \in 1 .. Len(fh) /\ ~ (i <= k)
      BY <1>3, <1>4, <1>8, <2>1
    <3> QED
      BY <2>1, <3>1
  <2>3. /\ IsFiniteSet(1 .. i - 1)
        /\ Cardinality(1 .. i - 1) = IF 1 > i - 1 THEN 0 ELSE (i - 1) - 1 + 1
    BY <2>1, FS_Interval
  <2>4. Cardinality(1 .. i - 1) = i - 1
    BY <2>1, <2>3
  <2>5. Cardinality(I) <= Cardinality(1 .. i - 1)
    BY <2>2, <2>3, FS_Subset
  <2> QED
    BY <1>2, <1>6, <2>1, <2>4, <2>5
<1> QED
  BY <1>5, <1>7, <1>8

\* Settling an unchanged set of outputs: what is resolved and what stays make up the
\* ledger; what was observed is what the call put in front.
LEMMA SettleLedger ==
    ASSUME last_irreversible_height \in OptHeight,
           NEW c \in Seq(Entry), Contiguous(c), NEW fh \in Seq(Observation),
           NEW head \in OptHeight, NEW out \in Seq(Output), Settle(c, fh, head, out),
           NEW a \in Nat, NEW b \in Nat,
           StandAt(out, "ForkObserved", a, b, Observation),
           \A k \in 1 .. Len(out) : out[k].step # "ForkResolved"
    PROVE  LET resolved == Carried(ret'.out, "ForkResolved")
               observed == Carried(ret'.out, "ForkObserved")
           IN  /\ resolved \o fork_history' = fh
               /\ \A i \in DOMAIN resolved : resolved[i].observed_at_height <= head
               /\ observed \in Seq(Observation) /\ Len(observed) = b - a
               /\ \A k \in 1 .. b - a : observed[k] = out[a + k].obs
<1> DEFINE fresh == FreshlyFinal(c, head, last_irreversible_height)
           irr == IrreversibleOutputs(c, head, last_irreversible_height)
           res == ForkOutputs(fh, head)
           done == Resolved(fh, head)
           resolved == Carried(ret'.out, "ForkResolved")
           observed == Carried(ret'.out, "ForkObserved")
<1>0. /\ Len(out) \in Nat /\ b \in 0 .. Len(out) /\ a \in 0 .. b
      /\ \A k \in 1 .. Len(out) : out[k].step = "ForkObserved" <=> k \in a + 1 .. b
      /\ \A k \in a + 1 .. b : out[k].obs \in Observation
  BY DEF StandAt
<1> USE <1>0
<1>1. /\ ret'.out = (out \o irr) \o res
      /\ fork_history' = SubSeq(fh, Len(done) + 1, Len(fh))
  BY DEF Settle, Ok
<1>2. /\ irr \in Seq(Output) /\ Len(irr) = Len(fresh)
      /\ \A k \in 1 .. Len(irr) : irr[k].step = "Irreversible" /\ irr[k].block = fresh[k]
  BY IrreversibleOutputsSpec
<1>3. /\ done \in Seq(Observation) /\ Len(done) \in 0 .. Len(fh) /\ Len(fh) \in Nat
      /\ \A k \in 1 .. Len(done) : done[k] = fh[k] /\ fh[k].observed_at_height <= head
  <2>1. done \in Seq(Observation) /\ Len(done) \in 0 .. Len(fh) /\ Len(fh) \in Nat
    BY ResolvedSpec
  <2>2. \A k \in 1 .. Len(done) : done[k] = fh[k] /\ fh[k].observed_at_height <= head
    BY ResolvedPrefix
  <2> QED
    BY <2>1, <2>2
<1>4. /\ res \in Seq(Output) /\ Len(res) = Len(done)
      /\ \A k \in 1 .. Len(res) : res[k].step = "ForkResolved" /\ res[k].obs = done[k]
  <2>1. res = [k \in 1 .. Len(done) |-> ForkResolved(done[k], head)]
    BY DEF ForkOutputs
  <2>2. res \in Seq(Output) /\ \A k \in 1 .. Len(res) : res[k].step = "ForkResolved"
    BY ForkOutputsSpec
  <2> HIDE DEF res, done
  <2>3. DOMAIN res = 1 .. Len(done) /\ Len(done) \in Nat
    BY <1>3, <2>1
  <2>4. Len(res) = Len(done)
    BY <2>2, <2>3, LenProperties
  <2>5. \A k \in 1 .. Len(done) : res[k].obs = done[k]
    BY <2>1 DEF ForkResolved
  <2> QED
    BY <2>2, <2>4, <2>5
<1> HIDE DEF irr, res, done, fresh
<1>q. PICK q : q = ret'.out
  OBVIOUS
<1> DEFINE m == Len(out) + Len(irr)
<1>5. Len(out) \in Nat /\ Len(irr) \in Nat /\ Len(res) \in Nat /\ m \in Nat
  BY <1>2, <1>4
<1>6. /\ q \in Seq(Output) /\ Len(q) = m + Len(res)
      /\ \A k \in 1 .. m + Len(res) :
            q[k] = IF k <= Len(out) THEN out[k]
                   ELSE IF k <= m THEN irr[k - Len(out)]
                   ELSE res[k - m]
  <2>1. LET p == (out \o irr) \o res
        IN  /\ p \in Seq(Output)
            /\ Len(p) = Len(out) + Len(irr) + Len(res)
            /\ \A k \in 1 .. Len(out) + Len(irr) + Len(res) :
                  p[k] = IF k <= Len(out) THEN out[k]
                         ELSE IF k <= Len(out) + Len(irr) THEN irr[k - Len(out)]
                         ELSE res[k - (Len(out) + Len(irr))]
    <3>1. irr \in Seq(Output) /\ res \in Seq(Output)
      BY <1>2, <1>4
    <3> QED
      BY <3>1, ConcatThree
  <2> QED
    BY <1>1, <1>q, <2>1
<1> HIDE DEF m
<1>7. ASSUME NEW k \in 1 .. Len(q)
      PROVE  /\ q[k].step = "ForkResolved" <=> k \in m + 1 .. m + Len(res)
             /\ q[k].step = "ForkObserved" <=> k \in a + 1 .. b
  <2>1. CASE k <= Len(out)
    <3>1. k \in 1 .. Len(out) /\ k \notin m + 1 .. m + Len(res) /\ q[k] = out[k]
      BY <1>5, <1>6, <2>1 DEF m
    <3> QED
      BY <3>1
  <2>2. CASE k > Len(out) /\ k <= m
    <3>1. /\ k - Len(out) \in 1 .. Len(irr) /\ k \notin m + 1 .. m + Len(res)
          /\ k \notin a + 1 .. b /\ q[k] = irr[k - Len(out)]
      BY <1>5, <1>6, <2>2 DEF m
    <3>2. q[k].step = "Irreversible"
      BY <1>2, <3>1
    <3> QED
      BY <3>1, <3>2
  <2>3. CASE k > m
    <3>1. /\ k - m \in 1 .. Len(res) /\ k \in m + 1 .. m + Len(res)
          /\ k \notin a + 1 .. b /\ q[k] = res[k - m]
      BY <1>5, <1>6, <2>3 DEF m
    <3>2. q[k].step = "ForkResolved"
      BY <1>4, <3>1
    <3> QED
      BY <3>1, <3>2
  <2> QED
    BY <1>5, <1>6, <2>1, <2>2, <2>3 DEF m
<1>8. \A k \in 1 .. Len(res) : q[m + k].obs = done[k] /\ q[m + k].obs \in Observation
  <2> SUFFICES ASSUME NEW k \in 1 .. Len(res)
               PROVE  q[m + k].obs = done[k] /\ q[m + k].obs \in Observation
    OBVIOUS
  <2>1. m + k \in 1 .. m + Len(res) /\ ~ (m + k <= Len(out)) /\ ~ (m + k <= m) /\ (m + k) - m = k
    BY <1>5 DEF m
  <2>2. q[m + k] = res[k]
    BY <1>6, <2>1
  <2> QED
    BY <1>3, <1>4, <2>2
<1>9. /\ resolved \in Seq(Observation) /\ Len(resolved) = Len(done)
      /\ \A k \in 1 .. Len(done) : resolved[k] = done[k]
  <2> DEFINE e == m + Len(res)
  <2>1. e \in 0 .. Len(q) /\ m \in 0 .. e /\ Len(q) \in Nat /\ e - m = Len(res)
    BY <1>5, <1>6
  <2>2. \A k \in m + 1 .. e : q[k].obs \in Observation
    <3> SUFFICES ASSUME NEW k \in m + 1 .. e PROVE q[k].obs \in Observation
      OBVIOUS
    <3>1. k - m \in 1 .. Len(res) /\ m + (k - m) = k
      BY <1>5
    <3> QED
      BY <1>8, <3>1
  <2>3. \A k \in 1 .. Len(q) : q[k].step = "ForkResolved" <=> k \in m + 1 .. e
    BY <1>7
  <2> HIDE DEF e
  <2>4. /\ Carried(q, "ForkResolved") \in Seq(Observation)
        /\ Len(Carried(q, "ForkResolved")) = e - m
        /\ \A k \in 1 .. e - m : Carried(q, "ForkResolved")[k] = q[m + k].obs
    <3>1. StandAt(q, "ForkResolved", m, e, Observation)
      BY <2>1, <2>2, <2>3 DEF StandAt
    <3>2. m \in Nat /\ e \in Nat
      BY <1>5, <2>1
    <3> QED
      BY <3>1, <3>2, CarriedSpec
  <2> QED
    BY <1>4, <1>8, <1>q, <2>1, <2>4
<1>10. /\ observed \in Seq(Observation) /\ Len(observed) = b - a
       /\ \A k \in 1 .. b - a : observed[k] = out[a + k].obs
  <2>1. b \in 0 .. Len(q) /\ Len(q) \in Nat
    BY <1>5, <1>6 DEF m
  <2>2. \A k \in a + 1 .. b : q[k] = out[k]
    BY <1>5, <1>6 DEF m
  <2>3. \A k \in a + 1 .. b : q[k].obs \in Observation
    BY <2>2
  <2>4. /\ Carried(q, "ForkObserved") \in Seq(Observation)
        /\ Len(Carried(q, "ForkObserved")) = b - a
        /\ \A k \in 1 .. b - a : Carried(q, "ForkObserved")[k] = q[a + k].obs
    <3>1. StandAt(q, "ForkObserved", a, b, Observation)
      BY <1>7, <2>1, <2>3 DEF StandAt
    <3>2. a \in Nat /\ b \in Nat
      OBVIOUS
    <3> QED
      BY <3>1, <3>2, CarriedSpec
  <2>5. \A k \in 1 .. b - a : a + k \in a + 1 .. b
    OBVIOUS
  <2> QED
    BY <1>q, <2>2, <2>4, <2>5
<1> HIDE DEF resolved, observed
<1>11. resolved \o fork_history' = fh
  <2> DEFINE n == Len(done)
             rest == SubSeq(fh, n + 1, Len(fh))
  <2>1. /\ rest \in Seq(Observation) /\ Len(rest) = Len(fh) - n
        /\ \A k \in 1 .. Len(fh) - n : rest[k] = fh[n + k]
    <3>1. /\ rest \in Seq(Observation)
          /\ Len(rest) = IF n + 1 <= Len(fh) THEN Len(fh) - (n + 1) + 1 ELSE 0
          /\ \A k \in 1 .. Len(fh) - (n + 1) + 1 : rest[k] = fh[(n + 1) + k - 1]
      <4>1. n + 1 \in Int /\ Len(fh) \in Int /\ \A k \in n + 1 .. Len(fh) : fh[k] \in Observation
        BY <1>3
      <4> QED
        BY <4>1, SubSeqProperties
    <3>2. Len(rest) = Len(fh) - n /\ Len(fh) - (n + 1) + 1 = Len(fh) - n
      BY <1>3, <3>1
    <3>3. \A k \in 1 .. Len(fh) - n : (n + 1) + k - 1 = n + k
      BY <1>3
    <3> QED
      BY <3>1, <3>2, <3>3
  <2> HIDE DEF rest
  <2>2. /\ resolved \o rest \in Seq(Observation)
        /\ Len(resolved \o rest) = Len(resolved) + Len(rest)
        /\ \A k \in 1 .. Len(resolved) + Len(rest) :
              (resolved \o rest)[k] = IF k <= Len(resolved) THEN resolved[k]
                                      ELSE rest[k - Len(resolved)]
    BY <1>9, <2>1, ConcatProperties
  <2>3. Len(resolved \o rest) = Len(fh)
    BY <1>3, <1>9, <2>1, <2>2
  <2>4. ASSUME NEW k \in 1 .. Len(fh) PROVE (resolved \o rest)[k] = fh[k]
    <3>1. CASE k <= n
      <4>1. k \in 1 .. n /\ k \in 1 .. Len(resolved) + Len(rest) /\ k <= Len(resolved)
        BY <1>3, <1>9, <2>1, <3>1
      <4> QED
        BY <1>3, <1>9, <2>2, <4>1
    <3>2. CASE ~ (k <= n)
      <4>1. /\ k \in 1 .. Len(resolved) + Len(rest) /\ ~ (k <= Len(resolved))
            /\ k - n \in 1 .. Len(fh) - n /\ n + (k - n) = k
        BY <1>3, <1>9, <2>1, <3>2
      <4> QED
        BY <1>9, <2>1, <2>2, <4>1
    <3> QED
      BY <3>1, <3>2
  <2>5. resolved \o rest = fh
    BY <2>2, <2>3, <2>4, SeqEqual
  <2> QED
    BY <1>1, <2>5 DEF rest
<1>12. \A i \in DOMAIN resolved : resolved[i].observed_at_height <= head
  <2>1. DOMAIN resolved = 1 .. Len(done)
    BY <1>9, LenProperties
  <2> QED
    BY <1>3, <1>9, <2>1
<1> QED
  BY <1>10, <1>11, <1>12 DEF resolved, observed

\* The ledger as the code keeps it, which is more than LedgerConserved asks: nothing
\* is dropped, however old it is.
LedgerBody ==
    LET resolved == Carried(ret'.out, "ForkResolved")
        observed == Carried(ret'.out, "ForkObserved")
    IN  /\ resolved \o fork_history' = fork_history \o observed
        /\ \A i \in DOMAIN resolved :
              resolved[i].observed_at_height <= solidified_head'

\* The outputs a call starts from report exactly what it adds to the ledger: nothing,
\* or, behind the Undos and the New of a reorg, its observation.
Reports(fh, out) ==
    \/ /\ fh = fork_history
       /\ \A k \in 1 .. Len(out) : out[k].step \in {"New", "Undo"}
    \/ /\ \A k \in 1 .. Len(out) - 1 : out[k].step \in {"New", "Undo"}
       /\ \E obs \in Observation :
             /\ fh = Append(fork_history, obs)
             /\ Len(out) > 0 /\ out[Len(out)] = ForkObserved(obs)

\* A call that settles such outputs conserves the ledger.
LEMMA SettleConserves ==
    ASSUME IInv, NEW c \in Seq(Entry), Contiguous(c), NEW fh \in Seq(Observation),
           NEW head \in OptHeight, head = solidified_head', NEW out \in Seq(Output),
           Settle(c, fh, head, out), Reports(fh, out)
    PROVE  LedgerBody
<1>1. last_irreversible_height \in OptHeight /\ fork_history \in Seq(Observation)
  BY DEF IInv, TypeOK
<1>2. Len(out) \in Nat
  OBVIOUS
<1>3. PICK resolved : resolved = Carried(ret'.out, "ForkResolved")
  OBVIOUS
<1>4. PICK observed : observed = Carried(ret'.out, "ForkObserved")
  OBVIOUS
<1>5. ASSUME fh = fork_history, \A k \in 1 .. Len(out) : out[k].step \in {"New", "Undo"}
      PROVE  LedgerBody
  <2>1. StandAt(out, "ForkObserved", 0, 0, Observation)
    BY <1>2, <1>5 DEF StandAt
  <2>a. \A k \in 1 .. Len(out) : out[k].step # "ForkResolved"
    BY <1>5
  <2>2. /\ resolved \o fork_history' = fh
        /\ \A i \in DOMAIN resolved : resolved[i].observed_at_height <= head
        /\ observed \in Seq(Observation) /\ Len(observed) = 0 - 0
    BY <1>1, <1>3, <1>4, <2>1, <2>a, SettleLedger
  <2>3. Len(observed) = 0
    BY <2>2
  <2>4. observed = <<>>
    BY <2>2, <2>3, EmptySeq
  <2>5. fork_history \o observed = fork_history
    BY <1>1, <2>4, ConcatEmptySeq
  <2> QED
    BY <1>3, <1>4, <1>5, <2>2, <2>5 DEF LedgerBody
<1>6. ASSUME \A k \in 1 .. Len(out) - 1 : out[k].step \in {"New", "Undo"},
             NEW obs \in Observation, fh = Append(fork_history, obs),
             Len(out) > 0, out[Len(out)] = ForkObserved(obs)
      PROVE  LedgerBody
  <2> DEFINE b == Len(out)
             a == Len(out) - 1
  <2>1. out[Len(out)].step = "ForkObserved" /\ out[Len(out)].obs = obs
    BY <1>6 DEF ForkObserved
  <2>2. /\ StandAt(out, "ForkObserved", a, b, Observation)
        /\ \A k \in 1 .. Len(out) : out[k].step # "ForkResolved"
    <3>1. b \in 0 .. Len(out) /\ a \in 0 .. b /\ a + 1 .. b = {Len(out)}
      BY <1>2, <1>6
    <3>2. \A k \in 1 .. Len(out) : k = Len(out) \/ k \in 1 .. Len(out) - 1
      BY <1>2
    <3>3. \A k \in 1 .. Len(out) - 1 : k # Len(out)
      BY <1>2
    <3> HIDE DEF a, b
    <3> QED
      BY <1>2, <1>6, <2>1, <3>1, <3>2, <3>3 DEF StandAt
  <2>a. a \in Nat /\ b \in Nat /\ b - a = 1 /\ a + 1 = Len(out) /\ 1 \in 1 .. b - a
    BY <1>2, <1>6
  <2> HIDE DEF a, b
  <2>3. /\ resolved \o fork_history' = fh
        /\ \A i \in DOMAIN resolved : resolved[i].observed_at_height <= head
        /\ observed \in Seq(Observation) /\ Len(observed) = b - a
        /\ \A k \in 1 .. b - a : observed[k] = out[a + k].obs
    BY <1>1, <1>3, <1>4, <2>2, <2>a, SettleLedger
  <2>4. Len(observed) = 1 /\ observed[1] = obs
    BY <2>1, <2>3, <2>a
  <2>5. observed = <<obs>>
    <3>1. <<obs>> \in Seq(Observation) /\ Len(<<obs>>) = 1 /\ <<obs>>[1] = obs
      OBVIOUS
    <3>2. \A i \in 1 .. Len(observed) : observed[i] = <<obs>>[i]
      BY <2>4, <3>1
    <3> QED
      BY <2>3, <2>4, <3>1, <3>2, SeqEqual
  <2>6. fork_history \o observed = fh
    BY <1>1, <1>6, <2>5, AppendIsConcat
  <2> QED
    BY <1>3, <1>4, <2>3, <2>6 DEF LedgerBody
<1> QED
  BY <1>5, <1>6 DEF Reports

\* A call that returns nothing leaves the ledger as it was.
LEMMA SilentConserves ==
    ASSUME IInv, ret'.out = <<>>, fork_history' = fork_history
    PROVE  LedgerBody
<1>1. fork_history \in Seq(Observation)
  BY DEF IInv, TypeOK
<1>2. ASSUME NEW step PROVE Carried(<<>>, step) = <<>>
  <2>1. PICK g : Collects(g, <<>>, step) /\ Carried(<<>>, step) = g[Len(<<>>)]
    BY CarriedCollects
  <2> QED
    BY <2>1 DEF Collects
<1>3. /\ Carried(ret'.out, "ForkResolved") = <<>>
      /\ Carried(ret'.out, "ForkObserved") = <<>>
  BY <1>2
<1>4. <<>> \o fork_history = fork_history /\ fork_history \o <<>> = fork_history
  BY <1>1, ConcatEmptySeq
<1>5. DOMAIN <<>> = {}
  OBVIOUS
<1> QED
  BY <1>3, <1>4, <1>5 DEF LedgerBody

\* Every call conserves the ledger.
LEMMA StepConserves ==
    ASSUME IInv, EngineNext
    PROVE  LedgerBody
<1>1. /\ TypeOK
      /\ solidified_head \in OptHeight
      /\ fork_history \in Seq(Observation)
  BY DEF IInv, TypeOK
<1>2. ASSUME NEW b \in Block, RejectDuplicate(b) \/ RefuseReorg(b) \/ RejectUnknownParent(b)
      PROVE  LedgerBody
  BY <1>2, SilentConserves DEF RejectDuplicate, RefuseReorg, RejectUnknownParent, Err
<1>3. ASSUME NEW h \in SolidHead, IgnoreHead(h) PROVE LedgerBody
  BY <1>3, SilentConserves DEF IgnoreHead, Ok
<1>4. ASSUME NEW h \in SolidHead, AdvanceHead(h) PROVE LedgerBody
  <2>1. Settle(canonical, fork_history, h, <<>>) /\ h = solidified_head'
    BY <1>4 DEF AdvanceHead
  <2>2. h \in OptHeight /\ <<>> \in Seq(Output)
    BY EngineAssumption DEF OptHeight
  <2>3. Reports(fork_history, <<>>)
    BY DEF Reports
  <2> QED
    BY <1>1, <2>1, <2>2, <2>3, BufferFacts, SettleConserves
<1>5. ASSUME NEW base \in Seq(Entry), Linked(base), Contiguous(base), NEW ids,
             NEW b \in Block, base # <<>> => Parent[b] = base[Len(base)].id,
             NEW fh \in Seq(Observation), NEW out \in Seq(Output),
             Push(base, ids, b, fh, out), Reports(fh, out)
      PROVE  LedgerBody
  <2> DEFINE e == [id |-> b, fork_id |-> next_fork_id]
             c == Append(base, e)
  <2>1. e \in Entry /\ e.id = b
    BY <1>1 DEF Entry, TypeOK
  <2>2. c \in Seq(Entry) /\ Contiguous(c)
    BY <1>5, <2>1, AppendBranch
  <2>3. Settle(c, fh, solidified_head, out) /\ solidified_head = solidified_head'
    BY <1>5 DEF Push
  <2> HIDE DEF c, e
  <2> QED
    BY <1>1, <1>5, <2>2, <2>3, SettleConserves
<1>6. ASSUME NEW b \in Block, PushCanonicalFirst(b) \/ ExtendCanonical(b)
      PROVE  LedgerBody
  <2>1. <<NewOutput(b)>> \in Seq(Output) /\ NewOutput(b).step = "New"
    BY <1>1, NewOutputType
  <2>2. Reports(fork_history, <<NewOutput(b)>>)
    BY <2>1 DEF Reports
  <2>3. <<>> \in Seq(Entry) /\ Linked(<<>>) /\ Contiguous(<<>>)
    BY DEF Linked, Contiguous
  <2>4. CASE PushCanonicalFirst(b)
    <3>1. Push(<<>>, canonical_ids, b, fork_history, <<NewOutput(b)>>)
      BY <2>4 DEF PushCanonicalFirst
    <3> QED
      BY <3>1, <2>1, <2>2, <2>3, <1>1, <1>5
  <2>5. CASE ExtendCanonical(b)
    <3>1. /\ Push(canonical, canonical_ids, b, fork_history, <<NewOutput(b)>>)
          /\ Parent[b] = canonical[Len(canonical)].id
      BY <2>5 DEF ExtendCanonical, Tip
    <3>2. canonical \in Seq(Entry) /\ Linked(canonical) /\ Contiguous(canonical)
      BY BufferFacts
    <3> QED
      BY <3>1, <3>2, <2>1, <2>2, <1>1, <1>5
  <2> QED
    BY <1>6, <2>4, <2>5
<1>7. ASSUME NEW b \in Block, HandleReorg(b) PROVE LedgerBody
  <2> DEFINE a == AncestorIdx(b)
             o == Orphans(a)
             u == UndoOutputs(o)
             t == <<NewOutput(b), ForkObserved(Switch(b, o))>>
             base == SubSeq(canonical, 1, a)
             ids == canonical_ids \ {o[k].id : k \in DOMAIN o}
             fh == Append(fork_history, Switch(b, o))
             out == u \o t
  <2>1. ReorgCandidate(b) /\ Push(base, ids, b, fh, out)
    BY <1>7 DEF HandleReorg
  <2>2. a \in 1 .. Len(canonical) - 1 /\ canonical[a].id = Parent[b]
    BY <2>1, AncestorSpec
  <2> HIDE DEF a
  <2>3. /\ Switch(b, o) \in Observation
        /\ u \in Seq(Output) /\ Len(u) = Len(o)
        /\ \A k \in 1 .. Len(o) : u[k].step = "Undo"
        /\ t \in Seq(Output) /\ out \in Seq(Output)
    BY <2>2, ReorgOutputsType
  <2>4. fh \in Seq(Observation)
    BY <1>1, <2>3
  <2>5. 1 \in 1 .. Len(canonical) + 1 /\ a \in 0 .. Len(canonical) /\ 1 <= a + 1
    BY <2>2, BufferFacts
  <2>6. /\ base \in Seq(Entry) /\ Len(base) = a - 1 + 1
        /\ \A i \in 1 .. Len(base) : base[i] = canonical[1 + i - 1]
        /\ Linked(base) /\ Contiguous(base)
    BY <2>5, BufferFacts, SubBranch
  <2>7. base[Len(base)] = canonical[a]
    <3>1. Len(base) = a
      BY <2>2, <2>6
    <3>2. a \in 1 .. Len(base) /\ 1 + a - 1 = a
      BY <2>2, <3>1
    <3> QED
      BY <3>1, <3>2, <2>6
  <2>8. /\ Len(t) = 2 /\ t[1].step = "New"
        /\ t[2] = ForkObserved(Switch(b, o))
    BY <1>1, NewOutputType
  <2> HIDE DEF base, ids, u, t, o
  <2>9. Reports(fh, out)
    <3>1. /\ Len(u) \in Nat /\ Len(out) = Len(u) + 2
          /\ \A k \in 1 .. Len(u) + 2 : out[k] = IF k <= Len(u) THEN u[k] ELSE t[k - Len(u)]
      <4>1. Len(u) \in Nat
        BY <2>3
      <4>2. /\ Len(u \o t) = Len(u) + Len(t)
            /\ \A k \in 1 .. Len(u) + Len(t) :
                  (u \o t)[k] = IF k <= Len(u) THEN u[k] ELSE t[k - Len(u)]
        BY <2>3, ConcatProperties
      <4> QED
        BY <2>8, <4>1, <4>2
    <3> HIDE DEF out
    <3>2. ASSUME NEW k \in 1 .. Len(out) - 1 PROVE out[k].step \in {"New", "Undo"}
      <4>1. CASE k <= Len(u)
        BY <2>3, <3>1, <4>1
      <4>2. CASE ~ (k <= Len(u))
        <5>1. k - Len(u) = 1 /\ k \in 1 .. Len(u) + 2
          BY <3>1, <4>2
        <5> QED
          BY <2>8, <3>1, <4>2, <5>1
      <4> QED
        BY <4>1, <4>2
    <3>3. Len(out) > 0 /\ out[Len(out)] = ForkObserved(Switch(b, o))
      <4>1. /\ Len(u) + 2 \in 1 .. Len(u) + 2 /\ ~ (Len(u) + 2 <= Len(u))
            /\ (Len(u) + 2) - Len(u) = 2 /\ Len(out) > 0
        BY <3>1
      <4> QED
        BY <2>8, <3>1, <4>1
    <3> QED
      BY <2>3, <3>2, <3>3 DEF Reports
  <2> HIDE DEF fh, out
  <2> QED
    BY <2>1, <2>2, <2>3, <2>4, <2>6, <2>7, <2>9, <1>5
<1> QED
  BY <1>2, <1>3, <1>4, <1>6, <1>7 DEF EngineNext, Accept, SetSolidifiedHead

\* The body of LedgerConserved.
ConservedBody ==
    LET resolved == Carried(ret'.out, "ForkResolved")
        before   == fork_history \o Carried(ret'.out, "ForkObserved")
        after    == resolved \o fork_history'
    IN  /\ CoveredBy(canonical', after) = CoveredBy(canonical', before)
        /\ \A i \in DOMAIN after : \E j \in DOMAIN before : after[i] = before[j]
        /\ \A i \in DOMAIN resolved :
              resolved[i].observed_at_height <= solidified_head'

\* A ledger that drops nothing keeps the part the buffer covers.
LEMMA KeptIsConserved == LedgerBody => ConservedBody
<1> DEFINE resolved == Carried(ret'.out, "ForkResolved")
           before   == fork_history \o Carried(ret'.out, "ForkObserved")
           after    == resolved \o fork_history'
<1> SUFFICES ASSUME LedgerBody PROVE ConservedBody
  OBVIOUS
<1>1. /\ after = before
      /\ \A i \in DOMAIN resolved : resolved[i].observed_at_height <= solidified_head'
  BY DEF LedgerBody
<1> HIDE DEF before, after, resolved
<1>2. CoveredBy(canonical', after) = CoveredBy(canonical', before)
  BY <1>1
<1>3. \A i \in DOMAIN after : \E j \in DOMAIN before : after[i] = before[j]
  BY <1>1
<1> QED
  BY <1>1, <1>2, <1>3 DEF ConservedBody, before, after, resolved

\* The fork ledger loses no fork the buffer covers and invents none, for every window,
\* tree and order of calls, and resolves a fork only when the solidified head has
\* reached it: what maybe_resolve_forks pops is what handle_reorg pushed, in that
\* order.
THEOREM LedgerIsConserved == EngineSpec => LedgerConserved
<1>1. IInv /\ [EngineNext]_engineVars => [ConservedBody]_engineVars
  BY StepConserves, KeptIsConserved
<1>2. EngineSpec => [][ConservedBody]_engineVars
  BY <1>1, Invariance, PTL DEF EngineSpec
<1> QED
  BY <1>2 DEF LedgerConserved, ConservedBody
=============================================================================
