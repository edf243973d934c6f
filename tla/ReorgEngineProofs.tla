------------------------- MODULE ReorgEngineProofs -------------------------
(***************************************************************************)
(* Proofs about ReorgEngine for every block tree, window and sequence of   *)
(* calls, and about what a consumer holds after replaying the outputs of   *)
(* one call.  The modules that put a consumer behind the engine, or behind *)
(* the service's channel, rest on lemma CallKeepsInStep.                   *)
(***************************************************************************)
EXTENDS ReorgEngine, Consumer, SequenceTheorems, FiniteSetTheorems,
        WellFoundedInduction, TLAPS

-----------------------------------------------------------------------------
(* The inductive invariant *)

\* Consecutive entries are parent and child.
Linked(c) == \A i \in 2 .. Len(c) : Parent[c[i].id] = c[i - 1].id

\* Heights count up by one along the buffer.  It follows from Linked by
\* induction on the index; as a conjunct of the invariant it needs none.
Contiguous(c) == \A i \in 1 .. Len(c) : Ht(c[i]) = Ht(c[1]) + i - 1

\* Every entry of c at or below the head has been fired.
Fired(c, head, last) ==
    \A i \in 1 .. Len(c) : Ht(c[i]) <= head => Ht(c[i]) <= last

IInv ==
    /\ TypeOK
    /\ CanonicalIsABranch
    /\ Contiguous(canonical)
    /\ FinalityComplete

-----------------------------------------------------------------------------
(* Facts about the operators *)

\* A function on 1..n is a sequence of length n.
LEMMA FunctionIsSeq ==
    ASSUME NEW S, NEW n \in Nat, NEW f \in [1 .. n -> S]
    PROVE  f \in Seq(S) /\ Len(f) = n
<1>1. f \in Seq(S)
  BY SeqDef, Zenon
<1>2. DOMAIN f = 1 .. Len(f) /\ Len(f) \in Nat
  BY <1>1, LenProperties
<1> QED
  BY <1>1, <1>2

\* Heights of entries are natural numbers.
LEMMA HtType ==
    ASSUME NEW e \in Entry
    PROVE  Ht(e) \in Nat
BY ChainAssumption DEF Entry, Ht

\* Where the walk of maybe_emit_irreversible stops on a buffer whose heights
\* count up: it covers exactly the entries at or below h.
LEMMA WalkLenSpec ==
    ASSUME NEW c \in Seq(Entry), Contiguous(c), NEW h \in OptHeight
    PROVE  /\ WalkLen(c, h) \in 0 .. Len(c)
           /\ \A i \in 1 .. Len(c) : i <= WalkLen(c, h) <=> Ht(c[i]) <= h
<1> DEFINE P(n) == /\ \A i \in 1 .. n : Ht(c[i]) <= h
                   /\ n < Len(c) => Ht(c[n + 1]) > h
<1>1. Len(c) \in Nat /\ \A i \in 1 .. Len(c) : c[i] \in Entry /\ Ht(c[i]) \in Nat
  BY HtType
<1>2. h \in Int /\ h >= -1
  BY DEF OptHeight, None
<1>3. \E n \in 0 .. Len(c) : P(n)
  <2>1. CASE Len(c) = 0
    BY <2>1, <1>1
  <2>2. CASE Len(c) > 0 /\ h < Ht(c[1])
    BY <2>2, <1>1, <1>2
  <2>3. CASE Len(c) > 0 /\ h >= Ht(c[Len(c)])
    <3>1. Ht(c[Len(c)]) = Ht(c[1]) + Len(c) - 1
      BY <2>3, <1>1 DEF Contiguous
    <3>2. \A i \in 1 .. Len(c) : Ht(c[i]) <= h
      BY <2>3, <3>1, <1>1, <1>2 DEF Contiguous
    <3> QED
      BY <3>2, <1>1
  <2>4. CASE Len(c) > 0 /\ h >= Ht(c[1]) /\ h < Ht(c[Len(c)])
    <3>1. PICK n \in Int : n = h - Ht(c[1]) + 1
      BY <2>4, <1>1, <1>2
    <3>2. Ht(c[Len(c)]) = Ht(c[1]) + Len(c) - 1
      BY <2>4, <1>1 DEF Contiguous
    <3>3. n \in 1 .. Len(c) - 1
      BY <2>4, <3>1, <3>2, <1>1, <1>2
    <3>4. ASSUME NEW i \in 1 .. n PROVE Ht(c[i]) <= h
      <4>1. i \in 1 .. Len(c) /\ 1 \in 1 .. Len(c)
        BY <3>3, <1>1
      <4>2. Ht(c[i]) = Ht(c[1]) + i - 1 /\ Ht(c[1]) \in Nat
        BY <4>1, <1>1 DEF Contiguous
      <4> QED
        BY <4>2, <3>1, <1>2
    <3>5. Ht(c[n + 1]) > h
      <4>1. n + 1 \in 1 .. Len(c)
        BY <3>3, <1>1
      <4>2. Ht(c[n + 1]) = Ht(c[1]) + (n + 1) - 1
        BY <4>1, <1>1 DEF Contiguous
      <4> QED
        BY <4>2, <2>4, <3>1, <1>1, <1>2
    <3>6. P(n)
      BY <3>4, <3>5
    <3>7. n \in 0 .. Len(c)
      BY <3>3, <1>1
    <3> QED
      BY <3>6, <3>7
  <2> QED
    BY <2>1, <2>2, <2>3, <2>4, <1>1, <1>2
<1>4. WalkLen(c, h) \in 0 .. Len(c) /\ P(WalkLen(c, h))
  BY <1>3 DEF WalkLen
<1>5. ASSUME NEW i \in 1 .. Len(c)
      PROVE  i <= WalkLen(c, h) <=> Ht(c[i]) <= h
  <2>1. CASE i <= WalkLen(c, h)
    BY <2>1, <1>1, <1>4
  <2>2. CASE i > WalkLen(c, h)
    <3>1. WalkLen(c, h) + 1 \in 1 .. Len(c) /\ Ht(c[WalkLen(c, h) + 1]) > h
      BY <2>2, <1>1, <1>4
    <3>2. /\ Ht(c[i]) = Ht(c[1]) + i - 1
          /\ Ht(c[WalkLen(c, h) + 1]) = Ht(c[1]) + (WalkLen(c, h) + 1) - 1
      BY <3>1, <1>1 DEF Contiguous
    <3> QED
      BY <2>2, <3>1, <3>2, <1>1, <1>2, <1>4
  <2> QED
    BY <2>1, <2>2, <1>1, <1>4
<1> QED
  BY <1>4, <1>5

\* What maybe_emit_irreversible fires for: a run of the buffer, all of it above
\* the last height fired and at or below the head.
LEMMA FreshlyFinalSpec ==
    ASSUME NEW c \in Seq(Entry), Contiguous(c),
           NEW head \in OptHeight, NEW last \in OptHeight
    PROVE  LET fresh == FreshlyFinal(c, head, last)
               w     == WalkLen(c, last)
           IN  /\ fresh \in Seq(Entry)
               /\ w \in 0 .. Len(c)
               /\ Len(fresh) = IF w + 1 <= WalkLen(c, head) THEN WalkLen(c, head) - w ELSE 0
               /\ \A k \in 1 .. Len(fresh) :
                     /\ w + k \in 1 .. Len(c)
                     /\ fresh[k] = c[w + k]
                     /\ Ht(fresh[k]) > last
                     /\ Ht(fresh[k]) <= head
<1> DEFINE fresh == FreshlyFinal(c, head, last)
           w == WalkLen(c, last)
           n == WalkLen(c, head)
<1>1. /\ Len(c) \in Nat
      /\ w \in 0 .. Len(c) /\ n \in 0 .. Len(c)
      /\ \A i \in 1 .. Len(c) : c[i] \in Entry /\ Ht(c[i]) \in Nat
      /\ \A i \in 1 .. Len(c) : (i <= w <=> Ht(c[i]) <= last) /\ (i <= n <=> Ht(c[i]) <= head)
  BY WalkLenSpec, HtType
<1>2. last \in Int /\ head \in Int
  BY DEF OptHeight, None
<1>3. \A i \in w + 1 .. n : c[i] \in Entry
  BY <1>1
<1>4. /\ fresh \in Seq(Entry)
      /\ Len(fresh) = IF w + 1 <= n THEN n - (w + 1) + 1 ELSE 0
      /\ \A i \in 1 .. n - (w + 1) + 1 : fresh[i] = c[(w + 1) + i - 1]
  <2> HIDE DEF w, n
  <2> QED
    BY <1>1, <1>3, SubSeqProperties DEF FreshlyFinal, w, n
<1>5. ASSUME NEW k \in 1 .. Len(fresh)
      PROVE  /\ w + k \in 1 .. Len(c)
             /\ fresh[k] = c[w + k]
             /\ Ht(fresh[k]) > last
             /\ Ht(fresh[k]) <= head
  <2> HIDE DEF w, n, fresh
  <2>1. k \in 1 .. n - w /\ k \in 1 .. n - (w + 1) + 1 /\ (w + 1) + k - 1 = w + k
    BY <1>1, <1>4
  <2>2. w + k \in 1 .. Len(c) /\ ~ (w + k <= w) /\ w + k <= n
    BY <2>1, <1>1
  <2>3. fresh[k] = c[w + k]
    BY <2>1, <1>4
  <2>4. Ht(c[w + k]) \in Nat /\ ~ (Ht(c[w + k]) <= last) /\ Ht(c[w + k]) <= head
    BY <2>2, <1>1
  <2> QED
    BY <2>2, <2>3, <2>4, <1>2
<1>6. Len(fresh) = IF w + 1 <= n THEN n - w ELSE 0
  <2> HIDE DEF w, n, fresh
  <2> QED BY <1>1, <1>4
<1> QED
  BY <1>1, <1>4, <1>5, <1>6

\* The height last_irreversible_height moves to: it never falls, stays at or below
\* the head, and leaves no entry at or below the head unfired.
LEMMA LastFiredSpec ==
    ASSUME NEW c \in Seq(Entry), Contiguous(c),
           NEW head \in OptHeight, NEW last \in OptHeight, last <= head
    PROVE  LET lf == LastFired(c, head, last)
           IN  /\ lf \in OptHeight
               /\ last <= lf
               /\ lf <= head
               /\ Fired(c, head, lf)
<1> DEFINE fresh == FreshlyFinal(c, head, last)
           w == WalkLen(c, last)
           n == WalkLen(c, head)
<1>1. /\ Len(c) \in Nat
      /\ w \in 0 .. Len(c) /\ n \in 0 .. Len(c)
      /\ \A i \in 1 .. Len(c) : c[i] \in Entry /\ Ht(c[i]) \in Nat
      /\ \A i \in 1 .. Len(c) : (i <= w <=> Ht(c[i]) <= last) /\ (i <= n <=> Ht(c[i]) <= head)
  BY WalkLenSpec, HtType
<1>2. last \in Int /\ head \in Int
  BY DEF OptHeight, None
<1>3. /\ fresh \in Seq(Entry)
      /\ Len(fresh) = IF w + 1 <= n THEN n - w ELSE 0
      /\ \A k \in 1 .. Len(fresh) :
            /\ w + k \in 1 .. Len(c)
            /\ fresh[k] = c[w + k]
            /\ Ht(fresh[k]) > last
            /\ Ht(fresh[k]) <= head
  BY FreshlyFinalSpec
<1>4. LastFired(c, head, last) = IF fresh = <<>> THEN last ELSE Ht(fresh[Len(fresh)])
  BY DEF LastFired
<1> HIDE DEF fresh, w, n
<1>5. CASE fresh = <<>>
  <2>1. Len(fresh) = 0
    BY <1>5
  <2>2. ~ (w + 1 <= n)
    BY <2>1, <1>3, <1>1
  <2>3. \A i \in 1 .. Len(c) : Ht(c[i]) <= head => Ht(c[i]) <= last
    BY <2>2, <1>1
  <2> QED
    BY <1>5, <1>4, <2>3, <1>2 DEF Fired
<1>6. CASE fresh # <<>>
  <2>1. Len(fresh) \in Nat /\ Len(fresh) > 0
    BY <1>6, <1>3, EmptySeq
  <2>2. Len(fresh) = n - w /\ Len(fresh) \in 1 .. Len(fresh) /\ w + Len(fresh) = n
    BY <2>1, <1>3, <1>1
  <2>3. /\ n \in 1 .. Len(c)
        /\ fresh[Len(fresh)] = c[n]
        /\ Ht(fresh[Len(fresh)]) > last
        /\ Ht(fresh[Len(fresh)]) <= head
    BY <2>2, <1>3
  <2>4. LastFired(c, head, last) = Ht(c[n])
    BY <1>4, <1>6, <2>3
  <2>5. Ht(c[n]) = Ht(c[1]) + n - 1 /\ Ht(c[n]) \in Nat /\ Ht(c[1]) \in Nat
    BY <2>3, <1>1 DEF Contiguous
  <2>6. ASSUME NEW i \in 1 .. Len(c), Ht(c[i]) <= head
        PROVE  Ht(c[i]) <= Ht(c[n])
    <3>1. i <= n
      BY <2>6, <1>1
    <3>2. Ht(c[i]) = Ht(c[1]) + i - 1
      BY DEF Contiguous
    <3> QED
      BY <3>1, <3>2, <2>5, <2>3, <1>1
  <2> QED
    BY <2>3, <2>4, <2>5, <2>6, <1>2 DEF Fired, OptHeight
<1> QED
  BY <1>5, <1>6
\* A streamable output is an output.
LEMMA StreamableType ==
    ASSUME NEW step \in {"New", "Undo", "Irreversible"}, NEW e \in Entry,
           NEW tier \in {"Seen", "Finalized"}, NEW head \in OptHeight
    PROVE  /\ Streamable(step, e, tier, head) \in Output
           /\ Streamable(step, e, tier, head).step = step
           /\ Streamable(step, e, tier, head).block = e
           /\ Streamable(step, e, tier, head).tier = tier
BY DEF Streamable, Output

\* The Irreversible outputs are outputs, one per freshly final entry.
LEMMA IrreversibleOutputsSpec ==
    ASSUME NEW c \in Seq(Entry), Contiguous(c),
           NEW head \in OptHeight, NEW last \in OptHeight
    PROVE  LET outs  == IrreversibleOutputs(c, head, last)
               fresh == FreshlyFinal(c, head, last)
           IN  /\ outs \in Seq(Output)
               /\ Len(outs) = Len(fresh)
               /\ \A k \in 1 .. Len(outs) :
                     outs[k].step = "Irreversible" /\ outs[k].block = fresh[k]
<1> DEFINE fresh == FreshlyFinal(c, head, last)
           outs == IrreversibleOutputs(c, head, last)
<1>1. fresh \in Seq(Entry) /\ Len(fresh) \in Nat /\ \A k \in 1 .. Len(fresh) : fresh[k] \in Entry
  BY FreshlyFinalSpec
<1>2. outs = [k \in 1 .. Len(fresh) |-> Streamable("Irreversible", fresh[k], "Finalized", head)]
  BY DEF IrreversibleOutputs
<1> HIDE DEF fresh, outs
<1>3. \A k \in 1 .. Len(fresh) :
          /\ Streamable("Irreversible", fresh[k], "Finalized", head) \in Output
          /\ Streamable("Irreversible", fresh[k], "Finalized", head).step = "Irreversible"
          /\ Streamable("Irreversible", fresh[k], "Finalized", head).block = fresh[k]
  BY <1>1, StreamableType
<1>4. outs \in [1 .. Len(fresh) -> Output]
  BY <1>2, <1>3
<1>5. outs \in Seq(Output) /\ Len(outs) = Len(fresh)
  BY <1>1, <1>4, FunctionIsSeq
<1> QED
  BY <1>2, <1>3, <1>5 DEF fresh, outs

\* The resolved observations are a prefix of the ledger.
LEMMA ResolvedSpec ==
    ASSUME NEW fh \in Seq(Observation), NEW head \in OptHeight
    PROVE  /\ Resolved(fh, head) \in Seq(Observation)
           /\ Len(Resolved(fh, head)) \in 0 .. Len(fh)
           /\ SubSeq(fh, Len(Resolved(fh, head)) + 1, Len(fh)) \in Seq(Observation)
<1> DEFINE I == {i \in DOMAIN fh : \A j \in 1 .. i : fh[j].observed_at_height <= head}
           n == ResolvedLen(fh, head)
<1>1. Len(fh) \in Nat /\ DOMAIN fh = 1 .. Len(fh) /\ \A i \in 1 .. Len(fh) : fh[i] \in Observation
  BY LenProperties
<1>2. IsFiniteSet(1 .. Len(fh)) /\ Cardinality(1 .. Len(fh)) = Len(fh)
  <2>1. 1 \in Int /\ Len(fh) \in Int
    BY <1>1
  <2>2. /\ IsFiniteSet(1 .. Len(fh))
        /\ Cardinality(1 .. Len(fh)) = IF 1 > Len(fh) THEN 0 ELSE Len(fh) - 1 + 1
    BY <2>1, FS_Interval
  <2> QED
    BY <2>2, <1>1
<1>3. I \in SUBSET (1 .. Len(fh))
  BY <1>1
<1>4. n = Cardinality(I)
  BY DEF ResolvedLen
<1> HIDE DEF I, n
<1>5. n \in 0 .. Len(fh)
  <2>1. IsFiniteSet(I) /\ Cardinality(I) <= Cardinality(1 .. Len(fh))
    BY <1>2, <1>3, FS_Subset
  <2>2. Cardinality(I) \in Nat
    BY <2>1, FS_CardinalityType
  <2> QED
    BY <2>1, <2>2, <1>1, <1>2, <1>4
<1>6. Resolved(fh, head) = SubSeq(fh, 1, n)
  BY DEF Resolved, n
<1>7. \A i \in 1 .. n : fh[i] \in Observation
  BY <1>1, <1>5
<1>8. Resolved(fh, head) \in Seq(Observation) /\ Len(Resolved(fh, head)) = n
  <2>1. n \in Int /\ 1 \in Int /\ n >= 0
    BY <1>1, <1>5
  <2>2. /\ SubSeq(fh, 1, n) \in Seq(Observation)
        /\ Len(SubSeq(fh, 1, n)) = IF 1 <= n THEN n - 1 + 1 ELSE 0
    BY <2>1, <1>7, SubSeqProperties
  <2> QED
    BY <2>1, <2>2, <1>6
<1>9. \A i \in n + 1 .. Len(fh) : fh[i] \in Observation
  BY <1>1, <1>5
<1>10. SubSeq(fh, n + 1, Len(fh)) \in Seq(Observation)
  BY <1>1, <1>5, <1>9, SubSeqProperties
<1> QED
  BY <1>5, <1>8, <1>10

\* The ForkResolved outputs are outputs.
LEMMA ForkOutputsSpec ==
    ASSUME NEW fh \in Seq(Observation), NEW head \in OptHeight
    PROVE  /\ ForkOutputs(fh, head) \in Seq(Output)
           /\ \A k \in 1 .. Len(ForkOutputs(fh, head)) :
                 ForkOutputs(fh, head)[k].step = "ForkResolved"
<1> DEFINE done == Resolved(fh, head)
           outs == ForkOutputs(fh, head)
<1>1. done \in Seq(Observation) /\ Len(done) \in Nat /\ \A k \in 1 .. Len(done) : done[k] \in Observation
  BY ResolvedSpec
<1>2. outs = [k \in 1 .. Len(done) |-> ForkResolved(done[k], head)]
  BY DEF ForkOutputs
<1> HIDE DEF done, outs
<1>3. ASSUME NEW o \in Observation
      PROVE  ForkResolved(o, head) \in Output /\ ForkResolved(o, head).step = "ForkResolved"
  BY DEF ForkResolved, Output, Observation
<1>4. outs \in [1 .. Len(done) -> Output]
  BY <1>1, <1>2, <1>3
<1>5. outs \in Seq(Output) /\ Len(outs) = Len(done)
  BY <1>1, <1>4, FunctionIsSeq
<1> QED
  BY <1>1, <1>2, <1>3, <1>5 DEF done, outs
\* Pushing a child of the last entry keeps the buffer a branch.
LEMMA AppendBranch ==
    ASSUME NEW c \in Seq(Entry), Linked(c), Contiguous(c), NEW e \in Entry,
           c # <<>> => Parent[e.id] = c[Len(c)].id
    PROVE  LET d == Append(c, e)
           IN  /\ d \in Seq(Entry)
               /\ Len(d) = Len(c) + 1
               /\ \A i \in 1 .. Len(c) : d[i] = c[i]
               /\ d[Len(c) + 1] = e
               /\ Linked(d)
               /\ Contiguous(d)
               /\ Ids(d) = Ids(c) \cup {e.id}
<1> DEFINE d == Append(c, e)
<1>1. Len(c) \in Nat /\ \A i \in 1 .. Len(c) : c[i] \in Entry /\ Ht(c[i]) \in Nat
  BY HtType
<1>2. /\ d \in Seq(Entry)
      /\ Len(d) = Len(c) + 1
      /\ \A i \in 1 .. Len(c) : d[i] = c[i]
      /\ d[Len(c) + 1] = e
  BY <1>1
<1>3. Ht(e) \in Nat
  BY HtType
<1> HIDE DEF d
<1>4. CASE c = <<>>
  <2>1. Len(c) = 0 /\ Len(d) = 1
    BY <1>4, <1>2
  <2> QED
    BY <2>1, <1>2, <1>3 DEF Linked, Contiguous, Ids, d
<1>5. CASE c # <<>>
  <2>1. Len(c) > 0 /\ Len(c) \in 1 .. Len(c) /\ 1 \in 1 .. Len(c)
    BY <1>5, <1>1, EmptySeq
  <2>2. Linked(d)
    <3> SUFFICES ASSUME NEW i \in 2 .. Len(d) PROVE Parent[d[i].id] = d[i - 1].id
      BY DEF Linked
    <3>1. CASE i <= Len(c)
      <4>1. i \in 2 .. Len(c) /\ i \in 1 .. Len(c) /\ i - 1 \in 1 .. Len(c)
        BY <3>1, <1>1, <1>2
      <4> QED
        BY <4>1, <1>2 DEF Linked
    <3>2. CASE i = Len(c) + 1
      <4>1. i - 1 = Len(c)
        BY <3>2, <1>1
      <4> QED
        BY <3>2, <4>1, <2>1, <1>2, <1>5
    <3> QED
      BY <3>1, <3>2, <1>1, <1>2
  <2>3. Ht(e) = Ht(c[1]) + (Len(c) + 1) - 1
    <3>1. Ht(c[Len(c)]) = Ht(c[1]) + Len(c) - 1
      BY <2>1 DEF Contiguous
    <3>2. Ht(e) = Ht(c[Len(c)]) + 1
      <4>1. e.id \in Block /\ c[Len(c)].id \in Block
        BY <2>1, <1>1 DEF Entry
      <4> QED
        BY <4>1, <1>5, ChainAssumption DEF Ht
    <3> QED
      BY <3>1, <3>2, <2>1, <1>1
  <2>4. Contiguous(d)
    <3> SUFFICES ASSUME NEW i \in 1 .. Len(d) PROVE Ht(d[i]) = Ht(d[1]) + i - 1
      BY DEF Contiguous
    <3>1. d[1] = c[1]
      BY <2>1, <1>2
    <3>2. CASE i <= Len(c)
      BY <3>1, <3>2, <1>1, <1>2 DEF Contiguous
    <3>3. CASE i = Len(c) + 1
      BY <3>1, <3>3, <2>3, <1>2
    <3> QED
      BY <3>2, <3>3, <1>1, <1>2
  <2>5. Ids(d) = Ids(c) \cup {e.id}
    <3>1. DOMAIN d = 1 .. Len(c) + 1 /\ DOMAIN c = 1 .. Len(c)
      BY <1>2, LenProperties
    <3>2. \A i \in 1 .. Len(c) + 1 : i \in 1 .. Len(c) \/ i = Len(c) + 1
      BY <1>1
    <3>3. Len(c) + 1 \in 1 .. Len(c) + 1 /\ \A i \in 1 .. Len(c) : i \in 1 .. Len(c) + 1
      BY <1>1
    <3> QED
      BY <3>1, <3>2, <3>3, <1>2 DEF Ids
  <2> QED
    BY <2>2, <2>4, <2>5, <1>2 DEF d
<1> QED
  BY <1>4, <1>5

\* A run of a branch is a branch.
LEMMA SubBranch ==
    ASSUME NEW c \in Seq(Entry), Linked(c), Contiguous(c),
           NEW m \in 1 .. Len(c) + 1, NEW n \in 0 .. Len(c), m <= n + 1
    PROVE  LET d == SubSeq(c, m, n)
           IN  /\ d \in Seq(Entry)
               /\ Len(d) = n - m + 1
               /\ \A i \in 1 .. Len(d) : m + i - 1 \in m .. n /\ d[i] = c[m + i - 1]
               /\ Linked(d)
               /\ Contiguous(d)
               /\ Ids(d) = {c[i].id : i \in m .. n}
<1> DEFINE d == SubSeq(c, m, n)
<1>1. Len(c) \in Nat /\ m \in Int /\ n \in Int /\ \A i \in 1 .. Len(c) : c[i] \in Entry /\ Ht(c[i]) \in Nat
  BY HtType
<1>2. \A i \in m .. n : c[i] \in Entry
  BY <1>1
<1>3. /\ d \in Seq(Entry)
      /\ Len(d) = IF m <= n THEN n - m + 1 ELSE 0
      /\ \A i \in 1 .. n - m + 1 : d[i] = c[m + i - 1]
  BY <1>1, <1>2, SubSeqProperties
<1> HIDE DEF d
<1>4. Len(d) = n - m + 1
  BY <1>1, <1>3
<1>5. \A i \in 1 .. Len(d) : m + i - 1 \in m .. n /\ m + i - 1 \in 1 .. Len(c) /\ d[i] = c[m + i - 1]
  BY <1>1, <1>3, <1>4
<1>6. Linked(d)
  <2> SUFFICES ASSUME NEW i \in 2 .. Len(d) PROVE Parent[d[i].id] = d[i - 1].id
    BY DEF Linked
  <2>1. i \in 1 .. Len(d) /\ i - 1 \in 1 .. Len(d) /\ m + i - 1 \in 2 .. Len(c)
        /\ m + (i - 1) - 1 = (m + i - 1) - 1
    BY <1>1, <1>4
  <2>2. d[i] = c[m + i - 1] /\ d[i - 1] = c[(m + i - 1) - 1]
    BY <2>1, <1>5
  <2> QED
    BY <2>1, <2>2 DEF Linked
<1>7. Contiguous(d)
  <2> SUFFICES ASSUME NEW i \in 1 .. Len(d) PROVE Ht(d[i]) = Ht(d[1]) + i - 1
    BY DEF Contiguous
  <2>1. 1 \in 1 .. Len(d) /\ m + 1 - 1 = m /\ m \in 1 .. Len(c) /\ m + i - 1 \in 1 .. Len(c) /\ 1 \in 1 .. Len(c)
    BY <1>1, <1>4
  <2>2. d[i] = c[m + i - 1] /\ d[1] = c[m]
    BY <2>1, <1>5
  <2>3. Ht(c[m + i - 1]) = Ht(c[1]) + (m + i - 1) - 1 /\ Ht(c[m]) = Ht(c[1]) + m - 1 /\ Ht(c[1]) \in Nat
    BY <2>1, <1>1 DEF Contiguous
  <2> QED
    BY <2>2, <2>3, <1>1
<1>8. Ids(d) = {c[i].id : i \in m .. n}
  <2>1. DOMAIN d = 1 .. Len(d)
    BY <1>3, LenProperties
  <2>2. ASSUME NEW i \in m .. n
        PROVE  \E k \in 1 .. Len(d) : d[k] = c[i]
    <3>1. i - m + 1 \in 1 .. Len(d) /\ m + (i - m + 1) - 1 = i
      BY <1>1, <1>4
    <3> QED
      BY <3>1, <1>5
  <2>3. Ids(d) = {d[k].id : k \in 1 .. Len(d)}
    BY <2>1 DEF Ids
  <2>4. \A k \in 1 .. Len(d) : \E i \in m .. n : d[k] = c[i]
    BY <1>5
  <2>5. ASSUME NEW x \in {d[k].id : k \in 1 .. Len(d)}
        PROVE  x \in {c[i].id : i \in m .. n}
    BY <2>4
  <2>6. ASSUME NEW x \in {c[i].id : i \in m .. n}
        PROVE  x \in {d[k].id : k \in 1 .. Len(d)}
    BY <2>2
  <2> QED
    BY <2>3, <2>5, <2>6
<1> QED
  BY <1>3, <1>4, <1>5, <1>6, <1>7, <1>8 DEF d

\* No block occurs twice on a branch.
LEMMA DistinctIds ==
    ASSUME NEW c \in Seq(Entry), Contiguous(c),
           NEW i \in 1 .. Len(c), NEW j \in 1 .. Len(c), c[i].id = c[j].id
    PROVE  i = j
<1>1. Ht(c[i]) = Ht(c[j])
  BY DEF Ht
<1>3. Len(c) \in Nat /\ 1 \in 1 .. Len(c)
  OBVIOUS
<1>4. Ht(c[1]) \in Nat
  BY <1>3, HtType
<1>2. Ht(c[i]) = Ht(c[1]) + i - 1 /\ Ht(c[j]) = Ht(c[1]) + j - 1
  BY DEF Contiguous
<1>5. PICK x \in Nat : x = Ht(c[1])
  BY <1>4
<1>6. x + i - 1 = x + j - 1
  BY <1>1, <1>2, <1>5
<1>7. i \in Int /\ j \in Int
  BY <1>3
<1> QED
  BY <1>6, <1>7

-----------------------------------------------------------------------------
(* Steps preserve the invariant *)

\* maybe_emit_irreversible and maybe_resolve_forks keep their fields typed, move
\* the fired height up to the head and no further, and leave nothing unfired.
LEMMA SettleSpec ==
    ASSUME last_irreversible_height \in OptHeight,
           NEW c \in Seq(Entry), Contiguous(c), NEW fh \in Seq(Observation),
           NEW head \in OptHeight, last_irreversible_height <= head,
           NEW out \in Seq(Output), Settle(c, fh, head, out)
    PROVE  /\ last_irreversible_height' \in OptHeight
           /\ last_irreversible_height <= last_irreversible_height'
           /\ last_irreversible_height' <= head
           /\ Fired(c, head, last_irreversible_height')
           /\ fork_history' \in Seq(Observation)
           /\ ret' \in [err : Errors \cup {"none"}, out : Seq(Output)]
<1>1. last_irreversible_height' = LastFired(c, head, last_irreversible_height)
  BY DEF Settle
<1>2. fork_history' = SubSeq(fh, Len(Resolved(fh, head)) + 1, Len(fh))
  BY DEF Settle
<1>3. ret' = Ok(out \o IrreversibleOutputs(c, head, last_irreversible_height)
                    \o ForkOutputs(fh, head))
  BY DEF Settle
<1>4. /\ IrreversibleOutputs(c, head, last_irreversible_height) \in Seq(Output)
      /\ ForkOutputs(fh, head) \in Seq(Output)
  BY IrreversibleOutputsSpec, ForkOutputsSpec
<1>5. out \o IrreversibleOutputs(c, head, last_irreversible_height)
          \o ForkOutputs(fh, head) \in Seq(Output)
  BY <1>4, ConcatProperties
<1>6. ret' \in [err : Errors \cup {"none"}, out : Seq(Output)]
  BY <1>3, <1>5 DEF Ok
<1> QED
  BY <1>1, <1>2, <1>6, LastFiredSpec, ResolvedSpec

\* What maybe_prune_buffer leaves.
LEMMA PrunedSpec ==
    ASSUME NEW c \in Seq(Entry), Linked(c), Contiguous(c)
    PROVE  /\ PruneLen(c) \in 0 .. Len(c)
           /\ Pruned(c) \in Seq(Entry)
           /\ Len(Pruned(c)) = Len(c) - PruneLen(c)
           /\ Len(Pruned(c)) <= BufferWindow
           /\ \A i \in 1 .. Len(Pruned(c)) :
                 PruneLen(c) + i \in 1 .. Len(c) /\ Pruned(c)[i] = c[PruneLen(c) + i]
           /\ Linked(Pruned(c))
           /\ Contiguous(Pruned(c))
           /\ Ids(Pruned(c)) = Ids(c) \ PrunedIds(c)
<1> DEFINE p == PruneLen(c)
           d == Pruned(c)
<1>1. Len(c) \in Nat /\ BufferWindow \in Nat
  BY EngineAssumption
<1>2. p \in 0 .. Len(c) /\ Len(c) - p <= BufferWindow
  BY <1>1 DEF PruneLen
<1>3. d = SubSeq(c, p + 1, Len(c))
  BY DEF Pruned
<1> HIDE DEF p, d
<1>4. p + 1 \in 1 .. Len(c) + 1 /\ Len(c) \in 0 .. Len(c) /\ p + 1 <= Len(c) + 1
  BY <1>1, <1>2
<1>5. /\ d \in Seq(Entry)
      /\ Len(d) = Len(c) - (p + 1) + 1
      /\ \A i \in 1 .. Len(d) : (p + 1) + i - 1 \in p + 1 .. Len(c) /\ d[i] = c[(p + 1) + i - 1]
      /\ Linked(d)
      /\ Contiguous(d)
      /\ Ids(d) = {c[i].id : i \in p + 1 .. Len(c)}
  BY <1>3, <1>4, SubBranch
<1>6. Len(d) = Len(c) - p
  BY <1>1, <1>2, <1>5
<1>7. ASSUME NEW i \in 1 .. Len(d)
      PROVE  p + i \in 1 .. Len(c) /\ d[i] = c[p + i]
  <2>1. (p + 1) + i - 1 = p + i /\ p + i \in 1 .. Len(c)
    BY <1>1, <1>2, <1>6
  <2> QED
    BY <2>1, <1>5
<1>8. Ids(d) = Ids(c) \ PrunedIds(c)
  <2>1. Ids(c) = {c[i].id : i \in 1 .. Len(c)} /\ PrunedIds(c) = {c[i].id : i \in 1 .. p}
    BY LenProperties DEF Ids, PrunedIds, p
  <2>2. ASSUME NEW x \in {c[i].id : i \in p + 1 .. Len(c)}
        PROVE  x \in Ids(c) \ PrunedIds(c)
    <3>1. PICK i \in p + 1 .. Len(c) : x = c[i].id
      OBVIOUS
    <3>2. i \in 1 .. Len(c)
      BY <1>1, <1>2
    <3>3. ASSUME NEW j \in 1 .. p PROVE c[j].id # c[i].id
      <4>1. j \in 1 .. Len(c) /\ j # i
        BY <1>1, <1>2
      <4> QED
        BY <4>1, <3>2, DistinctIds
    <3> QED
      BY <3>1, <3>2, <3>3, <2>1
  <2>3. ASSUME NEW x \in Ids(c) \ PrunedIds(c)
        PROVE  x \in {c[i].id : i \in p + 1 .. Len(c)}
    <3>1. PICK i \in 1 .. Len(c) : x = c[i].id
      BY <2>1
    <3>2. i \notin 1 .. p
      BY <3>1, <2>1
    <3>3. i \in p + 1 .. Len(c)
      BY <3>2, <1>1, <1>2
    <3> QED
      BY <3>1, <3>3
  <2> QED
    BY <2>2, <2>3, <1>5
<1> QED
  BY <1>2, <1>5, <1>6, <1>7, <1>8 DEF p, d

\* The shared end of the three pushing operations re-establishes the invariant
\* for any branch it pushes on.
LEMMA PushPreserves ==
    ASSUME TypeOK, last_irreversible_height <= solidified_head,
           NEW base \in Seq(Entry), Linked(base), Contiguous(base),
           NEW b \in Block,
           base # <<>> => Parent[b] = base[Len(base)].id,
           NEW ids, ids = Ids(base),
           NEW fh \in Seq(Observation), NEW out \in Seq(Output),
           Push(base, ids, b, fh, out)
    PROVE  IInv'
<1> DEFINE e == [id |-> b, fork_id |-> next_fork_id]
           c == Append(base, e)
<1>1. e \in Entry /\ e.id = b
  BY DEF Entry, TypeOK
<1>2. /\ c \in Seq(Entry)
      /\ Linked(c)
      /\ Contiguous(c)
      /\ Ids(c) = ids \cup {b}
  BY <1>1, AppendBranch
<1>3. /\ canonical' = Pruned(c)
      /\ canonical_ids' = IdsAfter(ids \cup {b}, c)
      /\ next_fork_id' = NextForkId(next_fork_id)
      /\ Settle(c, fh, solidified_head, out)
      /\ solidified_head' = solidified_head
  BY DEF Push
<1> HIDE DEF c, e
<1>4. /\ last_irreversible_height' \in OptHeight
      /\ last_irreversible_height' <= solidified_head
      /\ Fired(c, solidified_head, last_irreversible_height')
      /\ fork_history' \in Seq(Observation)
      /\ ret' \in [err : Errors \cup {"none"}, out : Seq(Output)]
  BY <1>2, <1>3, SettleSpec DEF TypeOK
<1>5. /\ canonical' \in Seq(Entry)
      /\ Len(canonical') <= BufferWindow
      /\ \A i \in 1 .. Len(canonical') :
            PruneLen(c) + i \in 1 .. Len(c) /\ canonical'[i] = c[PruneLen(c) + i]
      /\ Linked(canonical')
      /\ Contiguous(canonical')
      /\ Ids(canonical') = Ids(c) \ PrunedIds(c)
  BY <1>2, <1>3, PrunedSpec
<1>6. canonical_ids' = Ids(canonical')
  BY <1>2, <1>3, <1>5 DEF IdsAfter
<1>7. Ids(canonical') \subseteq Block
  <2>1. \A i \in DOMAIN canonical' : canonical'[i] \in Entry
    BY <1>5
  <2> QED
    BY <2>1 DEF Ids, Entry
<1>8. next_fork_id' \in 0 .. ForkIdModulus - 1
  BY <1>3, EngineAssumption DEF TypeOK, NextForkId
<1>9. TypeOK'
  BY <1>3, <1>4, <1>5, <1>6, <1>7, <1>8 DEF TypeOK
<1>10. CanonicalIsABranch'
  BY <1>5, <1>6 DEF CanonicalIsABranch, Linked, Ids
<1>11. FinalityComplete'
  <2>1. DOMAIN canonical' = 1 .. Len(canonical')
    BY <1>5, LenProperties
  <2>2. ASSUME NEW i \in 1 .. Len(canonical'), Ht(canonical'[i]) <= solidified_head
        PROVE  Ht(canonical'[i]) <= last_irreversible_height'
    BY <2>2, <1>4, <1>5 DEF Fired
  <2> QED
    BY <2>1, <2>2, <1>3, <1>4 DEF FinalityComplete, Ht
<1>12. Contiguous(canonical)'
  BY <1>5 DEF Contiguous, Ht
<1> QED
  BY <1>9, <1>10, <1>11, <1>12 DEF IInv
\* The invariant's buffer, unfolded.
LEMMA BufferFacts ==
    ASSUME IInv
    PROVE  /\ canonical \in Seq(Entry)
           /\ Len(canonical) \in Nat
           /\ DOMAIN canonical = 1 .. Len(canonical)
           /\ \A i \in 1 .. Len(canonical) : canonical[i] \in Entry /\ Ht(canonical[i]) \in Nat
           /\ Linked(canonical)
           /\ Contiguous(canonical)
           /\ canonical_ids = Ids(canonical)
           /\ canonical_ids = {canonical[i].id : i \in 1 .. Len(canonical)}
<1>1. canonical \in Seq(Entry) /\ Len(canonical) \in Nat /\ DOMAIN canonical = 1 .. Len(canonical)
  BY LenProperties DEF IInv, TypeOK
<1>2. Linked(canonical)
  BY DEF IInv, CanonicalIsABranch, Linked
<1>3. \A i \in 1 .. Len(canonical) : canonical[i] \in Entry /\ Ht(canonical[i]) \in Nat
  BY <1>1, HtType
<1> QED
  BY <1>1, <1>2, <1>3 DEF IInv, CanonicalIsABranch, Ids

\* handle_reorg finds the ancestor strictly below the tip, so something is orphaned.
LEMMA AncestorSpec ==
    ASSUME IInv, NEW b \in Block, ReorgCandidate(b)
    PROVE  /\ AncestorIdx(b) \in 1 .. Len(canonical) - 1
           /\ canonical[AncestorIdx(b)].id = Parent[b]
<1> DEFINE Q(i) == /\ canonical[i].id = Parent[b]
                   /\ \A j \in DOMAIN canonical : canonical[j].id = Parent[b] => j <= i
<1>1. PICK i \in 1 .. Len(canonical) : canonical[i].id = Parent[b]
  BY BufferFacts DEF ReorgCandidate
<1>2. \A j \in 1 .. Len(canonical) : canonical[j].id = Parent[b] => j = i
  BY <1>1, BufferFacts, DistinctIds
<1>3. i \in DOMAIN canonical /\ Q(i)
  BY <1>1, <1>2, BufferFacts
<1>4. AncestorIdx(b) \in DOMAIN canonical /\ Q(AncestorIdx(b))
  <2>1. AncestorIdx(b) = CHOOSE k \in DOMAIN canonical : Q(k)
    BY DEF AncestorIdx
  <2> QED
    BY <2>1, <1>3
<1>5. AncestorIdx(b) # Len(canonical)
  BY <1>4 DEF ReorgCandidate, Tip
<1> QED
  BY <1>4, <1>5, BufferFacts

\* The orphans above the ancestor a: each is a buffered entry above a, and what
\* their removal leaves of the index is the index of the kept prefix.
LEMMA OrphansSpec ==
    ASSUME IInv, NEW a \in 1 .. Len(canonical) - 1
    PROVE  /\ Orphans(a) \in Seq(Entry)
           /\ Len(Orphans(a)) = Len(canonical) - a
           /\ DOMAIN Orphans(a) = 1 .. Len(canonical) - a
           /\ \A k \in 1 .. Len(Orphans(a)) :
                 \E i \in a + 1 .. Len(canonical) : Orphans(a)[k] = canonical[i]
           /\ canonical_ids \ {Orphans(a)[k].id : k \in DOMAIN Orphans(a)}
                 = {canonical[i].id : i \in 1 .. a}
<1> DEFINE n == Len(canonical)
           o == Orphans(a)
<1>1. n \in Nat /\ n - a \in Nat /\ a \in Int
  BY BufferFacts
<1>2. o = [k \in 1 .. n - a |-> canonical[n + 1 - k]]
  BY DEF Orphans
<1>3. \A k \in 1 .. n - a : n + 1 - k \in a + 1 .. n /\ n + 1 - k \in 1 .. n
  BY <1>1
<1>4. \A i \in a + 1 .. n : n + 1 - i \in 1 .. n - a /\ n + 1 - (n + 1 - i) = i
  BY <1>1
<1>5. o \in [1 .. n - a -> Entry]
  BY <1>2, <1>3, BufferFacts
<1> HIDE DEF n, o
<1>6. o \in Seq(Entry) /\ Len(o) = n - a /\ DOMAIN o = 1 .. n - a
  BY <1>1, <1>5, FunctionIsSeq
<1>7. \A k \in 1 .. n - a : \E i \in a + 1 .. n : o[k] = canonical[i]
  BY <1>2, <1>3
<1>8. \A i \in a + 1 .. n : \E k \in 1 .. n - a : o[k] = canonical[i]
  BY <1>2, <1>4
<1>9. canonical_ids \ {o[k].id : k \in DOMAIN o} = {canonical[i].id : i \in 1 .. a}
  <2>1. canonical_ids = {canonical[i].id : i \in 1 .. n}
    BY BufferFacts DEF n
  <2>2. ASSUME NEW x \in canonical_ids \ {o[k].id : k \in DOMAIN o}
        PROVE  x \in {canonical[i].id : i \in 1 .. a}
    <3>1. PICK i \in 1 .. n : x = canonical[i].id
      BY <2>1
    <3>2. i \notin a + 1 .. n
      BY <3>1, <1>6, <1>8
    <3>3. i \in 1 .. a
      BY <3>2, <1>1
    <3> QED
      BY <3>1, <3>3
  <2>3. ASSUME NEW x \in {canonical[i].id : i \in 1 .. a}
        PROVE  x \in canonical_ids \ {o[k].id : k \in DOMAIN o}
    <3>1. PICK i \in 1 .. a : x = canonical[i].id
      OBVIOUS
    <3>2. i \in 1 .. n
      BY <1>1
    <3>3. ASSUME NEW k \in 1 .. n - a PROVE o[k].id # x
      <4>1. PICK j \in a + 1 .. n : o[k] = canonical[j]
        BY <1>7
      <4>2. j \in 1 .. n /\ j # i
        BY <1>1
      <4> QED
        BY <3>1, <3>2, <4>1, <4>2, BufferFacts, DistinctIds DEF n
    <3> QED
      BY <3>1, <3>2, <3>3, <2>1, <1>6
  <2> QED
    BY <2>2, <2>3
<1> QED
  BY <1>6, <1>7, <1>9 DEF n, o

\* The outputs a push starts from are outputs.
LEMMA NewOutputType ==
    ASSUME TypeOK, NEW b \in Block
    PROVE  /\ NewOutput(b) \in Output /\ NewOutput(b).step = "New"
           /\ <<NewOutput(b)>> \in Seq(Output)
<1>1. [id |-> b, fork_id |-> next_fork_id] \in Entry
  BY DEF Entry, TypeOK
<1>2. Tier(Height[b], solidified_head) \in {"Seen", "Finalized"}
  BY DEF Tier
<1>3. NewOutput(b) \in Output /\ NewOutput(b).step = "New"
  BY <1>1, <1>2, StreamableType DEF NewOutput, TypeOK
<1> QED
  BY <1>3

\* What handle_reorg puts in front of the settled outputs is typed.
LEMMA ReorgOutputsType ==
    ASSUME IInv, NEW b \in Block, NEW a \in 1 .. Len(canonical) - 1
    PROVE  LET o == Orphans(a)
               u == UndoOutputs(o)
           IN  /\ Switch(b, o) \in Observation
               /\ u \in Seq(Output)
               /\ Len(u) = Len(o)
               /\ \A k \in 1 .. Len(o) :
                     /\ u[k].step = "Undo"
                     /\ u[k].block = o[k]
                     /\ u[k].tier = Tier(Ht(o[k]), solidified_head)
               /\ <<NewOutput(b), ForkObserved(Switch(b, o))>> \in Seq(Output)
               /\ u \o <<NewOutput(b), ForkObserved(Switch(b, o))>> \in Seq(Output)
<1> DEFINE o == Orphans(a)
           u == UndoOutputs(o)
<1>1. /\ o \in Seq(Entry) /\ Len(o) \in Nat /\ DOMAIN o = 1 .. Len(o)
      /\ \A k \in 1 .. Len(o) : o[k] \in Entry
  BY OrphansSpec, LenProperties
<1>2. solidified_head \in OptHeight
  BY DEF IInv, TypeOK
<1>3. u = [k \in 1 .. Len(o) |-> Streamable("Undo", o[k], Tier(Ht(o[k]), solidified_head), solidified_head)]
  BY <1>1 DEF UndoOutputs
<1>4. Switch(b, o) = [observed_at_height |-> Height[b], kept_tip |-> b,
                      orphaned_tips |-> [k \in 1 .. Len(o) |-> o[k].id]]
  BY <1>1 DEF Switch
<1> HIDE DEF o, u
<1>5. Switch(b, o) \in Observation
  <2>1. [k \in 1 .. Len(o) |-> o[k].id] \in [1 .. Len(o) -> Block]
    BY <1>1 DEF Entry
  <2>2. [k \in 1 .. Len(o) |-> o[k].id] \in Seq(Block)
    BY <2>1, <1>1, FunctionIsSeq
  <2>3. Height[b] \in Nat
    BY ChainAssumption
  <2> QED
    BY <2>2, <2>3, <1>4 DEF Observation
<1>6. ASSUME NEW k \in 1 .. Len(o)
      PROVE  LET s == Streamable("Undo", o[k], Tier(Ht(o[k]), solidified_head), solidified_head)
             IN  /\ s \in Output
                 /\ s.step = "Undo" /\ s.block = o[k]
                 /\ s.tier = Tier(Ht(o[k]), solidified_head)
  <2>1. Tier(Ht(o[k]), solidified_head) \in {"Seen", "Finalized"}
    BY DEF Tier
  <2> QED
    BY <2>1, <1>1, <1>2, StreamableType
<1>7. u \in [1 .. Len(o) -> Output]
  BY <1>3, <1>6
<1>8. u \in Seq(Output) /\ Len(u) = Len(o)
  BY <1>7, <1>1, FunctionIsSeq
<1>9. ForkObserved(Switch(b, o)) \in Output
  BY <1>5 DEF ForkObserved, Output
<1>10. <<NewOutput(b), ForkObserved(Switch(b, o))>> \in Seq(Output)
  BY <1>9, NewOutputType DEF IInv
<1>11. u \o <<NewOutput(b), ForkObserved(Switch(b, o))>> \in Seq(Output)
  BY <1>8, <1>10, ConcatProperties
<1> QED
  BY <1>3, <1>5, <1>6, <1>8, <1>10, <1>11 DEF o, u

\* Every step of the engine preserves the invariant.
LEMMA StepPreserves ==
    IInv /\ [EngineNext]_engineVars => IInv'
<1> SUFFICES ASSUME IInv, [EngineNext]_engineVars
             PROVE  IInv'
  OBVIOUS
<1>1. TypeOK /\ last_irreversible_height <= solidified_head
  BY DEF IInv, FinalityComplete
<1>2. ASSUME UNCHANGED <<canonical, canonical_ids, last_irreversible_height,
                         solidified_head, fork_history, next_fork_id>>,
             ret' \in [err : Errors \cup {"none"}, out : Seq(Output)]
      PROVE  IInv'
  BY <1>2 DEF IInv, TypeOK, CanonicalIsABranch, FinalityComplete, Contiguous, Ids, Ht
<1>3. \A x \in Errors : Err(x) \in [err : Errors \cup {"none"}, out : Seq(Output)]
  BY DEF Err
<1>4. ASSUME NEW b \in Block, RejectDuplicate(b) PROVE IInv'
  BY <1>4, <1>2, <1>3 DEF RejectDuplicate, Errors
<1>5. ASSUME NEW b \in Block, PushCanonicalFirst(b) PROVE IInv'
  <2>1. Push(<<>>, canonical_ids, b, fork_history, <<NewOutput(b)>>)
    BY <1>5 DEF PushCanonicalFirst
  <2>2. <<>> \in Seq(Entry) /\ Len(<<>>) = 0
    OBVIOUS
  <2>3. Linked(<<>>) /\ Contiguous(<<>>)
    BY <2>2 DEF Linked, Contiguous
  <2>4. canonical_ids = Ids(<<>>)
    BY <1>5, BufferFacts DEF PushCanonicalFirst
  <2>5. <<NewOutput(b)>> \in Seq(Output) /\ fork_history \in Seq(Observation)
    BY <1>1, NewOutputType DEF TypeOK
  <2> QED
    BY <2>1, <2>2, <2>3, <2>4, <2>5, <1>1, PushPreserves
<1>6. ASSUME NEW b \in Block, ExtendCanonical(b) PROVE IInv'
  <2>1. /\ Push(canonical, canonical_ids, b, fork_history, <<NewOutput(b)>>)
        /\ Parent[b] = canonical[Len(canonical)].id
    BY <1>6 DEF ExtendCanonical, Tip
  <2>2. <<NewOutput(b)>> \in Seq(Output) /\ fork_history \in Seq(Observation)
    BY <1>1, NewOutputType DEF TypeOK
  <2> QED
    BY <2>1, <2>2, <1>1, BufferFacts, PushPreserves
<1>7. ASSUME NEW b \in Block, RefuseReorg(b) PROVE IInv'
  BY <1>7, <1>2, <1>3 DEF RefuseReorg, Errors
<1>8. ASSUME NEW b \in Block, HandleReorg(b) PROVE IInv'
  <2> DEFINE a == AncestorIdx(b)
             o == Orphans(a)
             base == SubSeq(canonical, 1, a)
             ids == canonical_ids \ {o[k].id : k \in DOMAIN o}
             fh == Append(fork_history, Switch(b, o))
             out == UndoOutputs(o) \o <<NewOutput(b), ForkObserved(Switch(b, o))>>
  <2>1. ReorgCandidate(b) /\ Push(base, ids, b, fh, out)
    BY <1>8 DEF HandleReorg
  <2>2. a \in 1 .. Len(canonical) - 1 /\ canonical[a].id = Parent[b]
    BY <2>1, AncestorSpec
  <2> HIDE DEF a
  <2>3. out \in Seq(Output) /\ Switch(b, o) \in Observation
    BY <2>2, ReorgOutputsType
  <2>4. fh \in Seq(Observation)
    BY <2>3, <1>1 DEF TypeOK
  <2>5. 1 \in 1 .. Len(canonical) + 1 /\ a \in 0 .. Len(canonical) /\ 1 <= a + 1
    BY <2>2, BufferFacts
  <2>6. /\ base \in Seq(Entry) /\ Len(base) = a - 1 + 1
        /\ \A i \in 1 .. Len(base) : base[i] = canonical[1 + i - 1]
        /\ Linked(base) /\ Contiguous(base)
        /\ Ids(base) = {canonical[i].id : i \in 1 .. a}
    BY <2>5, BufferFacts, SubBranch
  <2>7. Len(base) = a /\ base[Len(base)] = canonical[a]
    <3>1. Len(base) = a
      BY <2>2, <2>6
    <3>2. a \in 1 .. Len(base) /\ 1 + a - 1 = a
      BY <2>2, <3>1
    <3> QED
      BY <3>1, <3>2, <2>6
  <2>8. ids = Ids(base)
    BY <2>2, <2>6, OrphansSpec
  <2> HIDE DEF base, ids, fh, out, o
  <2>9. base # <<>> => Parent[b] = base[Len(base)].id
    BY <2>2, <2>7
  <2> QED
    BY <2>1, <2>3, <2>4, <2>6, <2>8, <2>9, <1>1, PushPreserves
<1>9. ASSUME NEW b \in Block, RejectUnknownParent(b) PROVE IInv'
  BY <1>9, <1>2, <1>3 DEF RejectUnknownParent, Errors
<1>10. ASSUME NEW h \in SolidHead, IgnoreHead(h) PROVE IInv'
  <2>1. Ok(<<>>) \in [err : Errors \cup {"none"}, out : Seq(Output)]
    BY DEF Ok
  <2> QED
    BY <2>1, <1>10, <1>2 DEF IgnoreHead
<1>11. ASSUME NEW h \in SolidHead, AdvanceHead(h) PROVE IInv'
  <2>1. /\ h > solidified_head
        /\ solidified_head' = h
        /\ Settle(canonical, fork_history, h, <<>>)
        /\ canonical' = canonical
        /\ canonical_ids' = canonical_ids
        /\ next_fork_id' = next_fork_id
    BY <1>11 DEF AdvanceHead
  <2>2. h \in OptHeight /\ last_irreversible_height <= h
    BY <2>1, <1>1, EngineAssumption DEF TypeOK, OptHeight, None
  <2>3. /\ last_irreversible_height' \in OptHeight
        /\ last_irreversible_height' <= h
        /\ Fired(canonical, h, last_irreversible_height')
        /\ fork_history' \in Seq(Observation)
        /\ ret' \in [err : Errors \cup {"none"}, out : Seq(Output)]
    <3>1. /\ last_irreversible_height \in OptHeight
          /\ fork_history \in Seq(Observation)
          /\ <<>> \in Seq(Output)
      BY <1>1 DEF TypeOK
    <3> QED
      BY <3>1, <2>1, <2>2, BufferFacts, SettleSpec
  <2>4. TypeOK'
    BY <2>1, <2>2, <2>3, <1>1 DEF TypeOK
  <2>5. CanonicalIsABranch' /\ Contiguous(canonical)'
    BY <2>1 DEF IInv, CanonicalIsABranch, Contiguous, Ids, Ht
  <2>6. FinalityComplete'
    BY <2>1, <2>3, BufferFacts DEF FinalityComplete, Fired, Ht
  <2> QED
    BY <2>4, <2>5, <2>6 DEF IInv
<1>12. CASE UNCHANGED engineVars
  BY <1>12, <1>2 DEF engineVars, IInv, TypeOK
<1> QED
  BY <1>4, <1>5, <1>6, <1>7, <1>8, <1>9, <1>10, <1>11, <1>12
     DEF EngineNext, Accept, SetSolidifiedHead

\* A new engine satisfies the inductive invariant.
LEMMA InitHolds == EngineInit => IInv
<1> SUFFICES ASSUME EngineInit PROVE IInv
  OBVIOUS
<1>1. TypeOK
  BY EngineAssumption DEF EngineInit, TypeOK, Ok, OptHeight, None, Errors
<1>2. CanonicalIsABranch
  BY EngineAssumption DEF EngineInit, CanonicalIsABranch, Ids
<1>3. Contiguous(canonical) /\ FinalityComplete
  BY DEF EngineInit, Contiguous, FinalityComplete, None
<1> QED
  BY <1>1, <1>2, <1>3 DEF IInv

\* The inductive invariant holds for ever, over every order of accept and
\* set_solidified_head calls.
LEMMA Invariance == EngineSpec => []IInv
BY InitHolds, StepPreserves, PTL DEF EngineSpec

-----------------------------------------------------------------------------
(* Theorems *)

\* The engine's fields and results keep their types.
THEOREM TypeCorrect == EngineSpec => []TypeOK
<1>1. IInv => TypeOK
  BY DEF IInv
<1> QED
  BY <1>1, Invariance, PTL

\* The buffer is always one branch of the tree, indexed exactly by canonical_ids
\* and no longer than the window.
THEOREM BufferIsABranch == EngineSpec => []CanonicalIsABranch
<1>1. IInv => CanonicalIsABranch
  BY DEF IInv
<1> QED
  BY <1>1, Invariance, PTL

\* Finality is read from the chain and never missed for a buffered block.
THEOREM FinalityIsComplete == EngineSpec => []FinalityComplete
<1>1. IInv => FinalityComplete
  BY DEF IInv
<1> QED
  BY <1>1, Invariance, PTL

-----------------------------------------------------------------------------
(* Action properties *)

\* The entries of three sequences put together.
LEMMA ConcatThree ==
    ASSUME NEW S, NEW r \in Seq(S), NEW t \in Seq(S), NEW u \in Seq(S)
    PROVE  LET q == (r \o t) \o u
           IN  /\ q \in Seq(S)
               /\ Len(q) = Len(r) + Len(t) + Len(u)
               /\ \A k \in 1 .. Len(r) + Len(t) + Len(u) :
                     q[k] = IF k <= Len(r) THEN r[k]
                            ELSE IF k <= Len(r) + Len(t) THEN t[k - Len(r)]
                            ELSE u[k - (Len(r) + Len(t))]
<1> DEFINE p == r \o t
<1>1. Len(r) \in Nat /\ Len(t) \in Nat /\ Len(u) \in Nat
  BY LenProperties
<1>2. /\ p \in Seq(S) /\ Len(p) = Len(r) + Len(t)
      /\ \A k \in 1 .. Len(r) + Len(t) : p[k] = IF k <= Len(r) THEN r[k] ELSE t[k - Len(r)]
  BY ConcatProperties
<1> HIDE DEF p
<1>3. /\ p \o u \in Seq(S) /\ Len(p \o u) = Len(p) + Len(u)
      /\ \A k \in 1 .. Len(p) + Len(u) : (p \o u)[k] = IF k <= Len(p) THEN p[k] ELSE u[k - Len(p)]
  <2>1. p \in Seq(S)
    BY <1>2
  <2> QED
    BY <2>1, ConcatProperties
<1>4. ASSUME NEW k \in 1 .. Len(r) + Len(t) + Len(u)
      PROVE  (p \o u)[k] = IF k <= Len(r) THEN r[k]
                           ELSE IF k <= Len(r) + Len(t) THEN t[k - Len(r)]
                           ELSE u[k - (Len(r) + Len(t))]
  <2>1. CASE k <= Len(r) + Len(t)
    <3>1. k \in 1 .. Len(r) + Len(t) /\ k \in 1 .. Len(p) + Len(u) /\ k <= Len(p)
      BY <2>1, <1>1, <1>2
    <3> QED
      BY <3>1, <2>1, <1>1, <1>2, <1>3
  <2>2. CASE ~ (k <= Len(r) + Len(t))
    <3>1. k \in 1 .. Len(p) + Len(u) /\ ~ (k <= Len(p)) /\ ~ (k <= Len(r))
      BY <2>2, <1>1, <1>2
    <3> QED
      BY <3>1, <2>2, <1>1, <1>2, <1>3
  <2> QED
    BY <2>1, <2>2
<1> QED
  BY <1>1, <1>2, <1>3, <1>4 DEF p

\* Where an output of a settled call comes from: the outputs the call started
\* with, the freshly final entries in buffer order, or the resolved forks.
LEMMA SettleOutputs ==
    ASSUME last_irreversible_height \in OptHeight,
           NEW c \in Seq(Entry), Contiguous(c), NEW fh \in Seq(Observation),
           NEW head \in OptHeight, NEW out \in Seq(Output),
           Settle(c, fh, head, out), NEW i \in DOMAIN ret'.out
    PROVE  \/ i \in 1 .. Len(out) /\ ret'.out[i] = out[i]
           \/ LET fresh == FreshlyFinal(c, head, last_irreversible_height)
              IN  \E k \in 1 .. Len(fresh) : /\ i = Len(out) + k
                                             /\ ret'.out[i].step = "Irreversible"
                                             /\ ret'.out[i].block = fresh[k]
           \/ ret'.out[i].step = "ForkResolved"
<1> DEFINE fresh == FreshlyFinal(c, head, last_irreversible_height)
           irr == IrreversibleOutputs(c, head, last_irreversible_height)
           res == ForkOutputs(fh, head)
<1>1. ret'.out = (out \o irr) \o res
  BY DEF Settle, Ok
<1>2. /\ irr \in Seq(Output) /\ Len(irr) = Len(fresh)
      /\ \A k \in 1 .. Len(irr) : irr[k].step = "Irreversible" /\ irr[k].block = fresh[k]
  BY IrreversibleOutputsSpec
<1>3. res \in Seq(Output) /\ \A k \in 1 .. Len(res) : res[k].step = "ForkResolved"
  BY ForkOutputsSpec
<1> HIDE DEF irr, res, fresh
<1>5. /\ ret'.out \in Seq(Output)
      /\ Len(ret'.out) = Len(out) + Len(irr) + Len(res)
      /\ \A k \in 1 .. Len(out) + Len(irr) + Len(res) :
            ret'.out[k] = IF k <= Len(out) THEN out[k]
                          ELSE IF k <= Len(out) + Len(irr) THEN irr[k - Len(out)]
                          ELSE res[k - (Len(out) + Len(irr))]
  <2>1. irr \in Seq(Output) /\ res \in Seq(Output)
    BY <1>2, <1>3
  <2>2. LET q == (out \o irr) \o res
        IN  /\ q \in Seq(Output)
            /\ Len(q) = Len(out) + Len(irr) + Len(res)
            /\ \A k \in 1 .. Len(out) + Len(irr) + Len(res) :
                  q[k] = IF k <= Len(out) THEN out[k]
                         ELSE IF k <= Len(out) + Len(irr) THEN irr[k - Len(out)]
                         ELSE res[k - (Len(out) + Len(irr))]
    BY <2>1, ConcatThree
  <2> QED
    BY <2>2, <1>1
<1>6. i \in 1 .. Len(out) + Len(irr) + Len(res) /\ Len(out) \in Nat /\ Len(irr) \in Nat /\ Len(res) \in Nat
  BY <1>2, <1>3, <1>5, LenProperties
<1>7. CASE i <= Len(out)
  BY <1>7, <1>5, <1>6
<1>8. CASE i > Len(out) /\ i <= Len(out) + Len(irr)
  <2>1. i - Len(out) \in 1 .. Len(irr) /\ i = Len(out) + (i - Len(out))
    BY <1>8, <1>6
  <2>2. ret'.out[i] = irr[i - Len(out)]
    BY <1>8, <1>5, <1>6
  <2> QED
    BY <2>1, <2>2, <1>2 DEF fresh
<1>9. CASE i > Len(out) + Len(irr)
  <2>1. i - (Len(out) + Len(irr)) \in 1 .. Len(res)
    BY <1>9, <1>6
  <2>2. ret'.out[i] = res[i - (Len(out) + Len(irr))]
    BY <1>9, <1>5, <1>6
  <2> QED
    BY <2>1, <2>2, <1>3
<1> QED
  BY <1>6, <1>7, <1>8, <1>9

\* The body of UndoNeverFinalized.
UndoBody ==
    \A i \in DOMAIN ret'.out :
        ret'.out[i].step = "Undo" =>
            /\ ret'.out[i].tier = "Seen"
            /\ Ht(ret'.out[i].block) > last_irreversible_height

\* The body of IrreversibleRises, with the head it is measured against.
RisesBody(head) ==
    \A i \in DOMAIN ret'.out :
        ret'.out[i].step = "Irreversible" =>
            /\ Ht(ret'.out[i].block) > last_irreversible_height
            /\ Ht(ret'.out[i].block) <= head
            /\ \A j \in 1 .. i - 1 :
                  ret'.out[j].step = "Irreversible" =>
                      Ht(ret'.out[j].block) < Ht(ret'.out[i].block)

\* A settled call fires in rising order, provided it starts from outputs of which
\* none is Irreversible.
LEMMA SettleRises ==
    ASSUME last_irreversible_height \in OptHeight,
           NEW c \in Seq(Entry), Contiguous(c), NEW fh \in Seq(Observation),
           NEW head \in OptHeight, NEW out \in Seq(Output),
           \A k \in 1 .. Len(out) : out[k].step # "Irreversible",
           Settle(c, fh, head, out)
    PROVE  RisesBody(head)
<1> DEFINE fresh == FreshlyFinal(c, head, last_irreversible_height)
           w == WalkLen(c, last_irreversible_height)
<1>1. ASSUME NEW i \in DOMAIN ret'.out, ret'.out[i].step = "Irreversible"
      PROVE  \E k \in 1 .. Len(fresh) : i = Len(out) + k /\ ret'.out[i].block = fresh[k]
  BY <1>1, SettleOutputs
<1>2. /\ w \in 0 .. Len(c) /\ Len(c) \in Nat /\ Len(out) \in Nat
      /\ fresh \in Seq(Entry) /\ Len(fresh) \in Nat
      /\ \A k \in 1 .. Len(fresh) :
            /\ w + k \in 1 .. Len(c)
            /\ fresh[k] = c[w + k]
            /\ Ht(fresh[k]) > last_irreversible_height
            /\ Ht(fresh[k]) <= head
  BY FreshlyFinalSpec
<1> HIDE DEF fresh, w
<1>3. ASSUME NEW k \in 1 .. Len(fresh), NEW l \in 1 .. Len(fresh), l < k
      PROVE  Ht(fresh[l]) < Ht(fresh[k])
  <2>1. w + k \in 1 .. Len(c) /\ w + l \in 1 .. Len(c) /\ 1 \in 1 .. Len(c)
    BY <1>2
  <2>2. Ht(c[w + k]) = Ht(c[1]) + (w + k) - 1 /\ Ht(c[w + l]) = Ht(c[1]) + (w + l) - 1
    BY <2>1 DEF Contiguous
  <2>3. Ht(c[1]) \in Nat
    BY <2>1, HtType
  <2> QED
    BY <1>2, <1>3, <2>2, <2>3
<1>4. ASSUME NEW i \in DOMAIN ret'.out, ret'.out[i].step = "Irreversible",
             NEW j \in 1 .. i - 1, ret'.out[j].step = "Irreversible"
      PROVE  Ht(ret'.out[j].block) < Ht(ret'.out[i].block)
  <2>1. PICK k \in 1 .. Len(fresh) : i = Len(out) + k /\ ret'.out[i].block = fresh[k]
    BY <1>1, <1>4
  <2>2. j \in DOMAIN ret'.out
    <3>1. ret' \in [err : {"none"}, out : Seq(Output)]
      <4>1. ret' = Ok(out \o IrreversibleOutputs(c, head, last_irreversible_height)
                      \o ForkOutputs(fh, head))
        BY DEF Settle
      <4>2. /\ IrreversibleOutputs(c, head, last_irreversible_height) \in Seq(Output)
            /\ ForkOutputs(fh, head) \in Seq(Output)
        BY IrreversibleOutputsSpec, ForkOutputsSpec
      <4> QED
        BY <4>1, <4>2, ConcatProperties DEF Ok
    <3>2. DOMAIN ret'.out = 1 .. Len(ret'.out) /\ Len(ret'.out) \in Nat
      BY <3>1, LenProperties
    <3> QED
      BY <3>2, <2>1, <1>2
  <2>3. PICK l \in 1 .. Len(fresh) : j = Len(out) + l /\ ret'.out[j].block = fresh[l]
    BY <2>2, <1>1, <1>4
  <2>4. l < k
    BY <2>1, <2>3, <1>2
  <2> QED
    BY <2>1, <2>3, <2>4, <1>3
<1>5. ASSUME NEW i \in DOMAIN ret'.out, ret'.out[i].step = "Irreversible"
      PROVE  /\ Ht(ret'.out[i].block) > last_irreversible_height
             /\ Ht(ret'.out[i].block) <= head
  BY <1>1, <1>2, <1>5
<1> QED
  BY <1>4, <1>5 DEF RisesBody

\* What a refused reorg guard leaves: every orphan is above the last fired height,
\* and so, finality being complete, above the solidified head.
LEMMA OrphansAboveFinality ==
    ASSUME IInv, NEW b \in Block, ReorgCandidate(b), ~ CrossesFinality(b),
           NEW i \in AncestorIdx(b) + 1 .. Len(canonical)
    PROVE  /\ Ht(canonical[i]) > last_irreversible_height
           /\ Tier(Ht(canonical[i]), solidified_head) = "Seen"
<1> DEFINE a == AncestorIdx(b)
<1>1. a \in 1 .. Len(canonical) - 1
  BY AncestorSpec
<1>2. ~ (Ht(canonical[a + 1]) <= last_irreversible_height)
  BY DEF CrossesFinality
<1> HIDE DEF a
<1>3. i \in a + 1 .. Len(canonical)
  BY DEF a
<1>4. /\ Len(canonical) \in Nat
      /\ a + 1 \in 1 .. Len(canonical)
      /\ i \in 1 .. Len(canonical)
      /\ 1 \in 1 .. Len(canonical)
      /\ a + 1 <= i
  BY <1>1, <1>3, BufferFacts
<1>5. /\ Ht(canonical[1]) \in Nat
      /\ Ht(canonical[i]) = Ht(canonical[1]) + i - 1
      /\ Ht(canonical[a + 1]) = Ht(canonical[1]) + (a + 1) - 1
  BY <1>4, BufferFacts DEF Contiguous
<1>6. last_irreversible_height \in Int /\ solidified_head \in Int
  BY DEF IInv, TypeOK, OptHeight, None
<1>7. Ht(canonical[i]) > last_irreversible_height
  BY <1>1, <1>2, <1>3, <1>4, <1>5, <1>6
<1>8. ~ (Ht(canonical[i]) <= solidified_head)
  <2>1. Ht(canonical[i]) <= solidified_head => Ht(canonical[i]) <= last_irreversible_height
    BY <1>4, BufferFacts DEF IInv, FinalityComplete
  <2> QED
    BY <2>1, <1>4, <1>5, <1>6, <1>7
<1> QED
  BY <1>7, <1>8 DEF Tier

\* The outputs handle_reorg starts from, by position.
LEMMA ReorgOutputsSteps ==
    ASSUME IInv, NEW b \in Block, ReorgCandidate(b), ~ CrossesFinality(b)
    PROVE  LET o   == Orphans(AncestorIdx(b))
               out == UndoOutputs(o) \o <<NewOutput(b), ForkObserved(Switch(b, o))>>
           IN  /\ out \in Seq(Output)
               /\ \A k \in 1 .. Len(out) :
                     /\ out[k].step # "Irreversible"
                     /\ out[k].step = "Undo" =>
                           /\ out[k].tier = "Seen"
                           /\ Ht(out[k].block) > last_irreversible_height
<1> DEFINE a == AncestorIdx(b)
           o == Orphans(a)
           u == UndoOutputs(o)
           t == <<NewOutput(b), ForkObserved(Switch(b, o))>>
<1>1. a \in 1 .. Len(canonical) - 1
  BY AncestorSpec
<1>2. /\ u \in Seq(Output)
      /\ Len(u) = Len(o)
      /\ t \in Seq(Output)
      /\ \A k \in 1 .. Len(o) :
            /\ u[k].step = "Undo"
            /\ u[k].block = o[k]
            /\ u[k].tier = Tier(Ht(o[k]), solidified_head)
  <2> HIDE DEF a
  <2> QED
    BY <1>1, ReorgOutputsType
<1>3. \A k \in 1 .. Len(o) : \E i \in a + 1 .. Len(canonical) : o[k] = canonical[i]
  <2> HIDE DEF a
  <2> QED
    BY <1>1, OrphansSpec
<1>4. Len(t) = 2 /\ t[1].step = "New" /\ t[2].step = "ForkObserved"
  BY NewOutputType DEF IInv, ForkObserved
<1> HIDE DEF o, u, t
<1>5. ASSUME NEW k \in 1 .. Len(u)
      PROVE  /\ u[k].step = "Undo"
             /\ u[k].tier = "Seen"
             /\ Ht(u[k].block) > last_irreversible_height
  <2>1. PICK i \in a + 1 .. Len(canonical) : o[k] = canonical[i]
    BY <1>2, <1>3
  <2>2. Ht(canonical[i]) > last_irreversible_height /\ Tier(Ht(canonical[i]), solidified_head) = "Seen"
    BY OrphansAboveFinality
  <2>3. u[k].block = canonical[i] /\ u[k].tier = Tier(Ht(canonical[i]), solidified_head)
    BY <2>1, <1>2
  <2> QED
    BY <2>2, <2>3, <1>2
<1>6. /\ u \o t \in Seq(Output)
      /\ Len(u \o t) = Len(u) + Len(t)
      /\ \A k \in 1 .. Len(u) + Len(t) :
            (u \o t)[k] = IF k <= Len(u) THEN u[k] ELSE t[k - Len(u)]
  <2>1. u \in Seq(Output) /\ t \in Seq(Output)
    BY <1>2
  <2> QED
    BY <2>1, ConcatProperties
<1>7. ASSUME NEW k \in 1 .. Len(u \o t)
      PROVE  /\ (u \o t)[k].step # "Irreversible"
             /\ (u \o t)[k].step = "Undo" =>
                   /\ (u \o t)[k].tier = "Seen"
                   /\ Ht((u \o t)[k].block) > last_irreversible_height
  <2>1. Len(u) \in Nat
    BY <1>2
  <2>2. CASE k \in 1 .. Len(u)
    <3>1. (u \o t)[k] = u[k]
      BY <2>1, <2>2, <1>4, <1>6
    <3> QED
      BY <3>1, <2>2, <1>5
  <2>3. CASE k \notin 1 .. Len(u)
    <3>1. k - Len(u) \in {1, 2} /\ (u \o t)[k] = t[k - Len(u)]
      BY <2>1, <2>3, <1>4, <1>6
    <3> QED
      BY <3>1, <1>4
  <2> QED
    BY <2>2, <2>3
<1> QED
  BY <1>6, <1>7 DEF u, t, o, a

\* Both bodies hold of every step.
LEMMA StepOutputs ==
    ASSUME IInv, EngineNext
    PROVE  UndoBody /\ RisesBody(solidified_head')
<1>1. /\ TypeOK
      /\ last_irreversible_height \in OptHeight
      /\ solidified_head \in OptHeight
      /\ fork_history \in Seq(Observation)
  BY DEF IInv, TypeOK
<1>2. ASSUME ret'.out = <<>>
      PROVE  UndoBody /\ RisesBody(solidified_head')
  BY <1>2 DEF UndoBody, RisesBody
<1>3. ASSUME NEW c \in Seq(Entry), Contiguous(c), NEW fh \in Seq(Observation),
             NEW head \in OptHeight, NEW out \in Seq(Output),
             Settle(c, fh, head, out), head = solidified_head',
             \A k \in 1 .. Len(out) :
                /\ out[k].step # "Irreversible"
                /\ out[k].step = "Undo" =>
                      /\ out[k].tier = "Seen"
                      /\ Ht(out[k].block) > last_irreversible_height
      PROVE  UndoBody /\ RisesBody(solidified_head')
  <2>1. RisesBody(head)
    BY <1>1, <1>3, SettleRises
  <2>2. ASSUME NEW i \in DOMAIN ret'.out, ret'.out[i].step = "Undo"
        PROVE  /\ ret'.out[i].tier = "Seen"
               /\ Ht(ret'.out[i].block) > last_irreversible_height
    <3>1. i \in 1 .. Len(out) /\ ret'.out[i] = out[i]
      BY <1>1, <1>3, <2>2, SettleOutputs
    <3> QED
      BY <3>1, <2>2, <1>3
  <2> QED
    BY <2>1, <2>2, <1>3 DEF UndoBody
<1>4. ASSUME NEW b \in Block, RejectDuplicate(b) \/ RefuseReorg(b) \/ RejectUnknownParent(b)
      PROVE  UndoBody /\ RisesBody(solidified_head')
  BY <1>4, <1>2 DEF RejectDuplicate, RefuseReorg, RejectUnknownParent, Err
<1>5. ASSUME NEW h \in SolidHead, IgnoreHead(h)
      PROVE  UndoBody /\ RisesBody(solidified_head')
  BY <1>5, <1>2 DEF IgnoreHead, Ok
<1>6. ASSUME NEW h \in SolidHead, AdvanceHead(h)
      PROVE  UndoBody /\ RisesBody(solidified_head')
  <2>1. Settle(canonical, fork_history, h, <<>>) /\ h = solidified_head'
    BY <1>6 DEF AdvanceHead
  <2>2. h \in OptHeight /\ <<>> \in Seq(Output) /\ Len(<<>>) = 0
    BY EngineAssumption DEF OptHeight
  <2>3. canonical \in Seq(Entry) /\ Contiguous(canonical)
    BY BufferFacts
  <2>4. \A k \in 1 .. Len(<<>>) :
            /\ <<>>[k].step # "Irreversible"
            /\ <<>>[k].step = "Undo" =>
                  /\ <<>>[k].tier = "Seen"
                  /\ Ht(<<>>[k].block) > last_irreversible_height
    BY <2>2
  <2> QED
    BY <2>1, <2>2, <2>3, <2>4, <1>1, <1>3, Zenon
<1>7. ASSUME NEW base \in Seq(Entry), Linked(base), Contiguous(base), NEW ids, NEW b \in Block,
             base # <<>> => Parent[b] = base[Len(base)].id,
             NEW fh \in Seq(Observation), NEW out \in Seq(Output),
             Push(base, ids, b, fh, out),
             \A k \in 1 .. Len(out) :
                /\ out[k].step # "Irreversible"
                /\ out[k].step = "Undo" =>
                      /\ out[k].tier = "Seen"
                      /\ Ht(out[k].block) > last_irreversible_height
      PROVE  UndoBody /\ RisesBody(solidified_head')
  <2> DEFINE e == [id |-> b, fork_id |-> next_fork_id]
             c == Append(base, e)
  <2>1. e \in Entry /\ e.id = b
    BY <1>1 DEF Entry, TypeOK
  <2>2. c \in Seq(Entry) /\ Contiguous(c)
    BY <1>7, <2>1, AppendBranch
  <2>3. Settle(c, fh, solidified_head, out) /\ solidified_head = solidified_head'
    BY <1>7 DEF Push
  <2> HIDE DEF c, e
  <2> QED
    BY <1>1, <1>3, <1>7, <2>2, <2>3
<1>8. ASSUME NEW b \in Block, PushCanonicalFirst(b) \/ ExtendCanonical(b)
      PROVE  UndoBody /\ RisesBody(solidified_head')
  <2>1. <<NewOutput(b)>> \in Seq(Output) /\ NewOutput(b).step = "New"
    BY <1>1, NewOutputType
  <2>2. \A k \in 1 .. Len(<<NewOutput(b)>>) : <<NewOutput(b)>>[k].step = "New"
    BY <2>1
  <2>3. <<>> \in Seq(Entry) /\ Linked(<<>>) /\ Contiguous(<<>>)
    BY DEF Linked, Contiguous
  <2>4. CASE PushCanonicalFirst(b)
    <3>1. Push(<<>>, canonical_ids, b, fork_history, <<NewOutput(b)>>)
      BY <2>4 DEF PushCanonicalFirst
    <3> QED
      BY <3>1, <2>1, <2>2, <2>3, <1>1, <1>7
  <2>5. CASE ExtendCanonical(b)
    <3>1. /\ Push(canonical, canonical_ids, b, fork_history, <<NewOutput(b)>>)
          /\ Parent[b] = canonical[Len(canonical)].id
      BY <2>5 DEF ExtendCanonical, Tip
    <3>2. canonical \in Seq(Entry) /\ Linked(canonical) /\ Contiguous(canonical)
      BY BufferFacts
    <3> QED
      BY <3>1, <3>2, <2>1, <2>2, <1>1, <1>7
  <2> QED
    BY <1>8, <2>4, <2>5
<1>9. ASSUME NEW b \in Block, HandleReorg(b)
      PROVE  UndoBody /\ RisesBody(solidified_head')
  <2> DEFINE a == AncestorIdx(b)
             o == Orphans(a)
             base == SubSeq(canonical, 1, a)
             ids == canonical_ids \ {o[k].id : k \in DOMAIN o}
             fh == Append(fork_history, Switch(b, o))
             out == UndoOutputs(o) \o <<NewOutput(b), ForkObserved(Switch(b, o))>>
  <2>1. ReorgCandidate(b) /\ ~ CrossesFinality(b) /\ Push(base, ids, b, fh, out)
    BY <1>9 DEF HandleReorg
  <2>2. a \in 1 .. Len(canonical) - 1 /\ canonical[a].id = Parent[b]
    BY <2>1, AncestorSpec
  <2>3. /\ out \in Seq(Output)
        /\ \A k \in 1 .. Len(out) :
              /\ out[k].step # "Irreversible"
              /\ out[k].step = "Undo" =>
                    /\ out[k].tier = "Seen"
                    /\ Ht(out[k].block) > last_irreversible_height
    BY <2>1, ReorgOutputsSteps
  <2> HIDE DEF a
  <2>4. fh \in Seq(Observation)
    <3>1. Switch(b, o) \in Observation
      BY <2>2, ReorgOutputsType
    <3> QED
      BY <3>1, <1>1
  <2>5. 1 \in 1 .. Len(canonical) + 1 /\ a \in 0 .. Len(canonical) /\ 1 <= a + 1
    BY <2>2, BufferFacts
  <2>6. /\ base \in Seq(Entry) /\ Len(base) = a - 1 + 1
        /\ \A i \in 1 .. Len(base) : base[i] = canonical[1 + i - 1]
        /\ Linked(base) /\ Contiguous(base)
    BY <2>5, BufferFacts, SubBranch
  <2>7. base[Len(base)] = canonical[a]
    <3>1. Len(base) = a
      BY <2>2, <2>6
    <3>2. a \in 1 .. Len(base) /\ 1 + a - 1 = a
      BY <2>2, <3>1
    <3> QED
      BY <3>1, <3>2, <2>6
  <2> HIDE DEF base, ids, fh, out, o
  <2> QED
    BY <2>1, <2>2, <2>3, <2>4, <2>6, <2>7, <1>7
<1> QED
  BY <1>4, <1>5, <1>6, <1>8, <1>9 DEF EngineNext, Accept, SetSolidifiedHead

\* No call ever undoes a block that is Finalized or was fired as Irreversible.
THEOREM UndoIsAboveFinality == EngineSpec => UndoNeverFinalized
<1>1. IInv /\ [EngineNext]_engineVars => [UndoBody]_engineVars
  BY StepOutputs
<1> QED
  BY <1>1, Invariance, PTL DEF EngineSpec, UndoNeverFinalized, UndoBody

\* Irreversible fires once per height, in rising order, at or below the head.
THEOREM IrreversibleInOrder == EngineSpec => IrreversibleRises
<1>1. IInv /\ [EngineNext]_engineVars => [RisesBody(solidified_head')]_engineVars
  BY StepOutputs
<1> QED
  BY <1>1, Invariance, PTL DEF EngineSpec, IrreversibleRises, RisesBody

\* After a push on a prefix of the buffer, either the front is where it was or the
\* buffer is full; the fired height has not fallen.
LEMMA PushFront ==
    ASSUME IInv, NEW base \in Seq(Entry), Linked(base), Contiguous(base), base # <<>>,
           base[1] = canonical[1], NEW ids, NEW b \in Block,
           Parent[b] = base[Len(base)].id,
           NEW fh \in Seq(Observation), NEW out \in Seq(Output),
           Push(base, ids, b, fh, out)
    PROVE  /\ canonical' \in Seq(Entry)
           /\ Contiguous(canonical')
           /\ \/ canonical'[1] = canonical[1]
              \/ Len(canonical') = BufferWindow
           /\ last_irreversible_height <= last_irreversible_height'
<1> DEFINE e == [id |-> b, fork_id |-> next_fork_id]
           c == Append(base, e)
<1>1. e \in Entry /\ e.id = b
  BY DEF Entry, IInv, TypeOK
<1>2. /\ c \in Seq(Entry) /\ Linked(c) /\ Contiguous(c)
      /\ Len(c) = Len(base) + 1
      /\ \A i \in 1 .. Len(base) : c[i] = base[i]
  BY <1>1, AppendBranch
<1>3. Len(base) \in Nat /\ Len(base) > 0 /\ 1 \in 1 .. Len(base) /\ BufferWindow \in Nat
  BY EmptySeq, EngineAssumption
<1>4. canonical' = Pruned(c) /\ Settle(c, fh, solidified_head, out)
  BY DEF Push
<1> HIDE DEF c, e
<1>5. /\ canonical' \in Seq(Entry)
      /\ Contiguous(canonical')
      /\ PruneLen(c) \in 0 .. Len(c)
      /\ Len(canonical') = Len(c) - PruneLen(c)
      /\ \A i \in 1 .. Len(canonical') : canonical'[i] = c[PruneLen(c) + i]
  BY <1>2, <1>4, PrunedSpec
<1>6. CASE PruneLen(c) = 0
  <2>1. 1 \in 1 .. Len(canonical') /\ PruneLen(c) + 1 = 1
    BY <1>2, <1>3, <1>5, <1>6
  <2> QED
    BY <2>1, <1>2, <1>3, <1>5, <1>4, SettleSpec DEF IInv, TypeOK, FinalityComplete
<1>7. CASE PruneLen(c) # 0
  <2>1. PruneLen(c) = Len(c) - BufferWindow
    BY <1>7 DEF PruneLen
  <2>2. Len(canonical') = BufferWindow
    <3>1. Len(c) \in Nat /\ Len(canonical') = Len(c) - PruneLen(c)
      BY <1>2, <1>5
    <3> QED
      BY <2>1, <3>1, <1>3
  <2> QED
    BY <2>2, <1>2, <1>5, <1>4, SettleSpec DEF IInv, TypeOK, FinalityComplete
<1> QED
  BY <1>6, <1>7

\* The body of PruneOnlyFinal.
PruneBody ==
    \A i \in DOMAIN canonical :
        /\ Ht(canonical[i]) < Ht(canonical'[1])
        /\ Ht(canonical'[Len(canonical')]) - solidified_head <= BufferWindow
        => Ht(canonical[i]) <= last_irreversible_height'

\* A front that stays put, or a full buffer, is all PruneBody needs.
LEMMA PruneBodyHolds ==
    ASSUME IInv, canonical' \in Seq(Entry), Contiguous(canonical'),
           canonical'[1] = canonical[1] \/ Len(canonical') = BufferWindow,
           last_irreversible_height' \in OptHeight,
           last_irreversible_height <= last_irreversible_height'
    PROVE  PruneBody
<1> SUFFICES ASSUME NEW i \in DOMAIN canonical,
                    Ht(canonical[i]) < Ht(canonical'[1]),
                    Ht(canonical'[Len(canonical')]) - solidified_head <= BufferWindow
             PROVE  Ht(canonical[i]) <= last_irreversible_height'
  BY DEF PruneBody
<1>1. /\ Len(canonical) \in Nat /\ i \in 1 .. Len(canonical) /\ 1 \in 1 .. Len(canonical)
      /\ Ht(canonical[i]) \in Nat /\ Ht(canonical[1]) \in Nat
      /\ Ht(canonical[i]) = Ht(canonical[1]) + i - 1
  <2>1. Len(canonical) \in Nat /\ i \in 1 .. Len(canonical)
    BY BufferFacts
  <2>2. 1 \in 1 .. Len(canonical)
    BY <2>1
  <2> QED
    BY <2>1, <2>2, BufferFacts DEF Contiguous
<1>2. canonical'[1] # canonical[1]
  BY <1>1
<1>3. Len(canonical') = BufferWindow /\ BufferWindow \in Nat /\ BufferWindow > 0
  BY <1>2, EngineAssumption
<1>4. 1 \in 1 .. Len(canonical') /\ Len(canonical') \in 1 .. Len(canonical')
  BY <1>3
<1>5. Ht(canonical'[1]) \in Nat
  BY <1>4, HtType
<1>6. Ht(canonical'[Len(canonical')]) = Ht(canonical'[1]) + Len(canonical') - 1
  BY <1>4 DEF Contiguous
<1>7. solidified_head \in Int /\ last_irreversible_height \in Int /\ last_irreversible_height' \in Int
  BY DEF IInv, TypeOK, OptHeight, None
<1>8. Ht(canonical[i]) <= solidified_head
  BY <1>1, <1>3, <1>5, <1>6, <1>7
<1>9. Ht(canonical[i]) <= last_irreversible_height
  BY <1>8 DEF IInv, FinalityComplete
<1> QED
  BY <1>1, <1>7, <1>9

\* As long as the solidified head trails the tip by no more than the window, a
\* block leaves the buffer only after it was fired as Irreversible.
THEOREM PrunedIsFinal == EngineSpec => PruneOnlyFinal
<1>1. ASSUME IInv, IInv', EngineNext
      PROVE  PruneBody
  <2>1. last_irreversible_height' \in OptHeight
    BY <1>1 DEF IInv, TypeOK
  <2>2. /\ canonical \in Seq(Entry) /\ Linked(canonical) /\ Contiguous(canonical)
        /\ Len(canonical) \in Nat
        /\ last_irreversible_height \in OptHeight /\ fork_history \in Seq(Observation)
        /\ last_irreversible_height <= solidified_head
    BY <1>1, BufferFacts DEF IInv, TypeOK, FinalityComplete
  <2>3. CASE canonical' = canonical /\ last_irreversible_height <= last_irreversible_height'
    BY <1>1, <2>1, <2>2, <2>3, PruneBodyHolds
  <2>4. ASSUME NEW base \in Seq(Entry), Linked(base), Contiguous(base), base # <<>>,
               base[1] = canonical[1], NEW ids, NEW b \in Block,
               Parent[b] = base[Len(base)].id,
               NEW fh \in Seq(Observation), NEW out \in Seq(Output),
               Push(base, ids, b, fh, out)
        PROVE  PruneBody
    <3>1. /\ canonical' \in Seq(Entry)
          /\ Contiguous(canonical')
          /\ canonical'[1] = canonical[1] \/ Len(canonical') = BufferWindow
          /\ last_irreversible_height <= last_irreversible_height'
      BY <1>1, <2>4, PushFront
    <3> QED
      BY <3>1, <1>1, <2>1, PruneBodyHolds
  <2>5. ASSUME NEW b \in Block,
               RejectDuplicate(b) \/ RefuseReorg(b) \/ RejectUnknownParent(b)
        PROVE  PruneBody
    <3>1. canonical' = canonical /\ last_irreversible_height' = last_irreversible_height
      BY <2>5 DEF RejectDuplicate, RefuseReorg, RejectUnknownParent
    <3>2. last_irreversible_height <= last_irreversible_height'
      BY <3>1, <2>2 DEF OptHeight, None
    <3> QED
      BY <3>1, <3>2, <2>3
  <2>6. ASSUME NEW b \in Block, PushCanonicalFirst(b)
        PROVE  PruneBody
    BY <2>6 DEF PushCanonicalFirst, PruneBody
  <2>7. ASSUME NEW b \in Block, ExtendCanonical(b)
        PROVE  PruneBody
    <3>1. /\ canonical # <<>>
          /\ Push(canonical, canonical_ids, b, fork_history, <<NewOutput(b)>>)
          /\ Parent[b] = canonical[Len(canonical)].id
      BY <2>7 DEF ExtendCanonical, Tip
    <3>2. <<NewOutput(b)>> \in Seq(Output)
      BY <1>1, NewOutputType DEF IInv
    <3> QED
      BY <3>1, <3>2, <2>2, <2>4
  <2>8. ASSUME NEW b \in Block, HandleReorg(b)
        PROVE  PruneBody
    <3> DEFINE a == AncestorIdx(b)
               o == Orphans(a)
               base == SubSeq(canonical, 1, a)
               ids == canonical_ids \ {o[k].id : k \in DOMAIN o}
               fh == Append(fork_history, Switch(b, o))
               out == UndoOutputs(o) \o <<NewOutput(b), ForkObserved(Switch(b, o))>>
    <3>1. ReorgCandidate(b) /\ Push(base, ids, b, fh, out)
      BY <2>8 DEF HandleReorg
    <3>2. a \in 1 .. Len(canonical) - 1 /\ canonical[a].id = Parent[b]
      BY <1>1, <3>1, AncestorSpec
    <3> HIDE DEF a
    <3>3. out \in Seq(Output) /\ Switch(b, o) \in Observation
      BY <1>1, <3>2, ReorgOutputsType
    <3>4. fh \in Seq(Observation)
      BY <3>3, <2>2
    <3>5. 1 \in 1 .. Len(canonical) + 1 /\ a \in 0 .. Len(canonical) /\ 1 <= a + 1
      BY <3>2, <2>2
    <3>6. /\ base \in Seq(Entry) /\ Len(base) = a - 1 + 1
          /\ \A i \in 1 .. Len(base) : base[i] = canonical[1 + i - 1]
          /\ Linked(base) /\ Contiguous(base)
      BY <3>5, <2>2, SubBranch
    <3>7. Len(base) = a /\ a \in 1 .. Len(base) /\ 1 + a - 1 = a /\ 1 \in 1 .. Len(base) /\ 1 + 1 - 1 = 1
      BY <3>2, <3>6
    <3>8. base[Len(base)] = canonical[a] /\ base[1] = canonical[1]
      BY <3>6, <3>7
    <3> HIDE DEF base, ids, fh, out, o
    <3>9. base # <<>>
      BY <3>7
    <3> QED
      BY <3>1, <3>2, <3>3, <3>4, <3>6, <3>8, <3>9, <2>4
  <2>9. ASSUME NEW h \in SolidHead, IgnoreHead(h)
        PROVE  PruneBody
    <3>1. canonical' = canonical /\ last_irreversible_height' = last_irreversible_height
      BY <2>9 DEF IgnoreHead
    <3>2. last_irreversible_height <= last_irreversible_height'
      BY <3>1, <2>2 DEF OptHeight, None
    <3> QED
      BY <3>1, <3>2, <2>3
  <2>10. ASSUME NEW h \in SolidHead, AdvanceHead(h)
         PROVE  PruneBody
    <3>1. canonical' = canonical /\ h > solidified_head /\ Settle(canonical, fork_history, h, <<>>)
      BY <2>10 DEF AdvanceHead
    <3>2. h \in OptHeight /\ last_irreversible_height <= h /\ <<>> \in Seq(Output)
      BY <1>1, <2>2, <3>1, EngineAssumption DEF OptHeight, None, IInv, TypeOK
    <3>3. last_irreversible_height <= last_irreversible_height'
      BY <3>1, <3>2, <2>2, SettleSpec
    <3> QED
      BY <3>1, <3>3, <2>3
  <2> QED
    BY <1>1, <2>5, <2>6, <2>7, <2>8, <2>9, <2>10 DEF EngineNext, Accept, SetSolidifiedHead
<1>2. IInv /\ IInv' /\ [EngineNext]_engineVars => [PruneBody]_engineVars
  BY <1>1
<1> QED
  BY <1>2, Invariance, PTL DEF EngineSpec, PruneOnlyFinal, PruneBody

-----------------------------------------------------------------------------
(* Induction on the natural numbers, with the property as a set *)

\* A set of natural numbers that is not empty has a least element.
LEMMA LeastNat ==
    ASSUME NEW T, T \subseteq Nat, T # {}
    PROVE  \E x \in T : \A y \in T : x <= y
<1>1. PICK x \in T : \A y \in T : ~ (<<y, x>> \in OpToRel(<, Nat))
  BY NatLessThanWellFounded, WFMin
<1>2. \A y \in T : ~ (y < x)
  BY <1>1 DEF OpToRel
<1> QED
  BY <1>2

\* A set with 0 that is closed under successor has every natural number.
LEMMA SetInduction ==
    ASSUME NEW S, 0 \in S, \A n \in Nat : n \in S => n + 1 \in S
    PROVE  Nat \subseteq S
<1> SUFFICES ASSUME Nat \ S # {} PROVE FALSE
  OBVIOUS
<1>1. PICK x \in Nat \ S : \A y \in Nat \ S : x <= y
  BY LeastNat
<1>2. x # 0 /\ x - 1 \in Nat
  BY <1>1
<1>3. x - 1 \in S
  BY <1>1, <1>2
<1> QED
  BY <1>1, <1>2, <1>3

-----------------------------------------------------------------------------
(* Replaying a sequence of outputs *)

\* g lists the views of a consumer that starts from v and applies outs one by one.
Steps(g, v, outs) ==
    /\ g[0] = v
    /\ \A k \in 1 .. Len(outs) : g[k] = Apply(g[k - 1], outs[k])

\* The equation that defines the recursive function of Replay, up to n.
Unfolds(g, n, v, outs) ==
    g = [k \in 0 .. n |-> IF k = 0 THEN v ELSE Apply(g[k - 1], outs[k])]

\* The recursion of Replay is well defined.
LEMMA UnfoldsExists ==
    ASSUME NEW v, NEW outs, NEW n \in Nat
    PROVE  \E g : Unfolds(g, n, v, outs)
<1> DEFINE S == {m \in Nat : \E g : Unfolds(g, m, v, outs)}
<1>1. 0 \in S
  <2>1. Unfolds([k \in 0 .. 0 |-> v], 0, v, outs)
    BY DEF Unfolds
  <2> QED
    BY <2>1
<1>2. ASSUME NEW m \in Nat, m \in S PROVE m + 1 \in S
  <2>1. PICK g : Unfolds(g, m, v, outs)
    BY <1>2
  <2> DEFINE f == [k \in 0 .. m + 1 |-> IF k = 0 THEN v ELSE Apply(g[k - 1], outs[k])]
  <2>2. \A k \in 0 .. m : f[k] = g[k]
    BY <2>1 DEF Unfolds
  <2>3. \A k \in 0 .. m + 1 : k # 0 => k - 1 \in 0 .. m
    OBVIOUS
  <2>4. Unfolds(f, m + 1, v, outs)
    BY <2>2, <2>3 DEF Unfolds
  <2> QED
    BY <2>4
<1> HIDE DEF S
<1>3. Nat \subseteq S
  BY <1>1, <1>2, SetInduction
<1> QED
  BY <1>3 DEF S

\* Replay ends where the list of views ends.
LEMMA ReplaySteps ==
    ASSUME NEW v, NEW outs, Len(outs) \in Nat
    PROVE  \E g : Steps(g, v, outs) /\ Replay(v, outs) = g[Len(outs)]
<1> DEFINE g == CHOOSE after : after = [k \in 0 .. Len(outs) |->
                    IF k = 0 THEN v ELSE Apply(after[k - 1], outs[k])]
<1>1. \E after : after = [k \in 0 .. Len(outs) |->
                    IF k = 0 THEN v ELSE Apply(after[k - 1], outs[k])]
  <2>1. \E after : Unfolds(after, Len(outs), v, outs)
    BY UnfoldsExists
  <2> QED
    BY <2>1 DEF Unfolds
<1>2. g = [k \in 0 .. Len(outs) |-> IF k = 0 THEN v ELSE Apply(g[k - 1], outs[k])]
  BY <1>1
<1>3. Replay(v, outs) = g[Len(outs)]
  BY DEF Replay
<1> HIDE DEF g
<1>4. Steps(g, v, outs)
  <2>1. 0 \in 0 .. Len(outs) /\ \A k \in 1 .. Len(outs) : k \in 0 .. Len(outs) /\ k # 0
    OBVIOUS
  <2> QED
    BY <1>2, <2>1 DEF Steps
<1> QED
  BY <1>3, <1>4

\* Any list of the views of the consumer ends in what Replay computes.
LEMMA ReplayIs ==
    ASSUME NEW v, NEW outs, Len(outs) \in Nat, NEW g, Steps(g, v, outs)
    PROVE  Replay(v, outs) = g[Len(outs)]
<1>1. PICK h : Steps(h, v, outs) /\ Replay(v, outs) = h[Len(outs)]
  BY ReplaySteps
<1> DEFINE S == {m \in Nat : m <= Len(outs) => g[m] = h[m]}
<1>2. 0 \in S
  BY <1>1 DEF Steps
<1>3. ASSUME NEW m \in Nat, m \in S PROVE m + 1 \in S
  <2>1. CASE m + 1 <= Len(outs)
    <3>1. m + 1 \in 1 .. Len(outs) /\ (m + 1) - 1 = m /\ g[m] = h[m]
      BY <1>3, <2>1
    <3>2. g[m + 1] = Apply(g[m], outs[m + 1]) /\ h[m + 1] = Apply(h[m], outs[m + 1])
      BY <1>1, <3>1 DEF Steps
    <3> QED
      BY <3>1, <3>2
  <2> QED
    BY <2>1
<1> HIDE DEF S
<1>4. Nat \subseteq S
  BY <1>2, <1>3, SetInduction
<1>5. Len(outs) \in S
  BY <1>4
<1> QED
  BY <1>1, <1>5 DEF S

\* Replaying nothing, and one output.
LEMMA ReplayShort ==
    ASSUME NEW v, NEW o
    PROVE  Replay(v, <<>>) = v /\ Replay(v, <<o>>) = Apply(v, o)
<1>1. Replay(v, <<>>) = v
  <2>1. Len(<<>>) = 0
    OBVIOUS
  <2>2. PICK g : Steps(g, v, <<>>) /\ Replay(v, <<>>) = g[0]
    BY <2>1, ReplaySteps
  <2> QED
    BY <2>2 DEF Steps
<1>2. Replay(v, <<o>>) = Apply(v, o)
  <2>1. Len(<<o>>) = 1 /\ <<o>>[1] = o
    OBVIOUS
  <2>2. PICK g : Steps(g, v, <<o>>) /\ Replay(v, <<o>>) = g[1]
    BY <2>1, ReplaySteps
  <2>3. g[1] = Apply(g[1 - 1], <<o>>[1]) /\ g[0] = v
    BY <2>1, <2>2 DEF Steps
  <2> QED
    BY <2>1, <2>2, <2>3
<1> QED
  BY <1>1, <1>2

\* Replaying one sequence and then another is replaying both.
LEMMA ReplayConcat ==
    ASSUME NEW v, NEW T, NEW s \in Seq(T), NEW t \in Seq(T)
    PROVE  Replay(v, s \o t) = Replay(Replay(v, s), t)
<1> DEFINE q == s \o t
<1>1. /\ Len(s) \in Nat /\ Len(t) \in Nat /\ Len(q) = Len(s) + Len(t)
      /\ \A k \in 1 .. Len(q) : q[k] = IF k <= Len(s) THEN s[k] ELSE t[k - Len(s)]
  BY ConcatProperties
<1> HIDE DEF q
<1>2. PICK g : Steps(g, v, q) /\ Replay(v, q) = g[Len(q)]
  <2>1. Len(q) \in Nat
    BY <1>1
  <2> QED
    BY <2>1, ReplaySteps
<1>3. Replay(v, s) = g[Len(s)]
  <2>1. \A k \in 1 .. Len(s) : k \in 1 .. Len(q) /\ q[k] = s[k]
    BY <1>1
  <2>2. Steps(g, v, s)
    BY <1>2, <2>1 DEF Steps
  <2> QED
    BY <1>1, <2>2, ReplayIs
<1> DEFINE f == [k \in 0 .. Len(t) |-> g[Len(s) + k]]
<1>4. Steps(f, g[Len(s)], t)
  <2>1. f[0] = g[Len(s)]
    BY <1>1
  <2>2. ASSUME NEW k \in 1 .. Len(t) PROVE f[k] = Apply(f[k - 1], t[k])
    <3>1. /\ k \in 0 .. Len(t) /\ k - 1 \in 0 .. Len(t)
          /\ Len(s) + k \in 1 .. Len(q) /\ ~ (Len(s) + k <= Len(s))
          /\ (Len(s) + k) - 1 = Len(s) + (k - 1) /\ (Len(s) + k) - Len(s) = k
      BY <1>1
    <3>2. g[Len(s) + k] = Apply(g[(Len(s) + k) - 1], q[Len(s) + k])
      BY <1>2, <3>1 DEF Steps
    <3>3. q[Len(s) + k] = t[(Len(s) + k) - Len(s)]
      BY <1>1, <3>1
    <3> QED
      BY <3>1, <3>2, <3>3
  <2> HIDE DEF f
  <2> QED
    BY <2>1, <2>2 DEF Steps
<1>5. f[Len(t)] = g[Len(q)]
  BY <1>1
<1> HIDE DEF f
<1>6. Replay(g[Len(s)], t) = f[Len(t)]
  BY <1>1, <1>4, ReplayIs
<1> QED
  BY <1>2, <1>3, <1>5, <1>6 DEF q

-----------------------------------------------------------------------------
(* A consumer in step with the engine *)

View == [chain : Seq(Entry), final : Nat, ok : BOOLEAN]

\* c is the end of chain.
EndsWith(chain, c) ==
    /\ Len(c) <= Len(chain)
    /\ \A i \in 1 .. Len(c) : c[i] = chain[Len(chain) - Len(c) + i]

\* The consumer's state v against a buffer c and the last height fired: its chain is
\* a branch that ends in the buffer, and its final mark stands at that height.
InStep(v, c, last) ==
    /\ v \in View
    /\ v.ok
    /\ Linked(v.chain) /\ Contiguous(v.chain)
    /\ EndsWith(v.chain, c)
    /\ c = <<>> => v.chain = <<>>
    /\ v.final <= Len(v.chain)
    /\ IF v.final = 0 THEN last = None ELSE Ht(v.chain[v.final]) = last

\* What a step of the engine may do to the consumer: add nothing, or keep the first
\* n blocks, all the final ones among them, and add one.
Keeps(v, w, n) ==
    /\ n >= v.final
    /\ n = 0 => v.chain = <<>>
    /\ Len(w.chain) = n + 1
    /\ SubSeq(w.chain, 1, n) = SubSeq(v.chain, 1, n)
    /\ n > 0 => Parent[w.chain[n + 1].id] = v.chain[n].id
\* The part of the chain the buffer d no longer reaches is no shorter than the part
\* c did not reach.
FrontRises(v, c, w, d) == Len(w.chain) - Len(d) >= Len(v.chain) - Len(c)
Moves(v, w) ==
    /\ w.final >= v.final
    /\ w.final <= Len(w.chain)
    /\ w.chain = v.chain \/ \E n \in 0 .. Len(v.chain) : Keeps(v, w, n)

\* EndsWith is the library's IsSuffix.
LEMMA SuffixMeaning ==
    ASSUME NEW S, NEW c \in Seq(S), NEW chain \in Seq(S)
    PROVE  IsSuffix(c, chain) <=> EndsWith(chain, c)
<1> DEFINE m == Len(c)
           n == Len(chain)
           rc == Reverse(c)
           rt == Reverse(chain)
<1>1. m \in Nat /\ n \in Nat
  OBVIOUS
<1>2. /\ rc = [i \in 1 .. m |-> c[(m - i) + 1]]
      /\ rt = [i \in 1 .. n |-> chain[(n - i) + 1]]
  BY DEF Reverse
<1>3. rc \in [1 .. m -> S] /\ rt \in [1 .. n -> S]
  <2>1. /\ \A i \in 1 .. m : (m - i) + 1 \in 1 .. m
        /\ \A i \in 1 .. n : (n - i) + 1 \in 1 .. n
    BY <1>1
  <2>2. (\A i \in 1 .. m : c[i] \in S) /\ (\A i \in 1 .. n : chain[i] \in S)
    OBVIOUS
  <2> QED
    BY <1>2, <2>1, <2>2
<1> HIDE DEF rc, rt
<1>4. rc \in Seq(S) /\ Len(rc) = m /\ rt \in Seq(S) /\ Len(rt) = n
  BY <1>1, <1>3, FunctionIsSeq
<1>5. IsSuffix(c, chain) <=> m <= n /\ SubSeq(rc, 1, m) = SubSeq(rt, 1, m)
  BY <1>4 DEF IsSuffix, IsPrefix, rc, rt
<1> HIDE DEF m, n
<1>6. ASSUME m <= n
      PROVE  (SubSeq(rc, 1, m) = SubSeq(rt, 1, m)) <=> \A i \in 1 .. m : rc[i] = rt[i]
  <2>1. /\ \A i \in 1 .. m : rc[i] \in S
        /\ \A i \in 1 .. m : rt[i] \in S
    BY <1>1, <1>3, <1>6
  <2>2. /\ SubSeq(rc, 1, m) \in Seq(S) /\ Len(SubSeq(rc, 1, m)) = m
        /\ SubSeq(rt, 1, m) \in Seq(S) /\ Len(SubSeq(rt, 1, m)) = m
        /\ \A i \in 1 .. m : SubSeq(rc, 1, m)[i] = rc[i] /\ SubSeq(rt, 1, m)[i] = rt[i]
    <3>1. /\ SubSeq(rc, 1, m) \in Seq(S)
          /\ Len(SubSeq(rc, 1, m)) = IF 1 <= m THEN m - 1 + 1 ELSE 0
          /\ \A i \in 1 .. m - 1 + 1 : SubSeq(rc, 1, m)[i] = rc[1 + i - 1]
      BY <1>1, <2>1, SubSeqProperties
    <3>2. /\ SubSeq(rt, 1, m) \in Seq(S)
          /\ Len(SubSeq(rt, 1, m)) = IF 1 <= m THEN m - 1 + 1 ELSE 0
          /\ \A i \in 1 .. m - 1 + 1 : SubSeq(rt, 1, m)[i] = rt[1 + i - 1]
      BY <1>1, <2>1, SubSeqProperties
    <3> QED
      BY <1>1, <3>1, <3>2
  <2>3. SubSeq(rc, 1, m) = SubSeq(rt, 1, m)
           <=> \A i \in 1 .. m : SubSeq(rc, 1, m)[i] = SubSeq(rt, 1, m)[i]
    BY <1>1, <2>2, SeqEqual
  <2> QED
    BY <2>2, <2>3
<1>7. ASSUME m <= n
      PROVE  (\A i \in 1 .. m : rc[i] = rt[i]) <=> \A i \in 1 .. m : c[i] = chain[n - m + i]
  <2>1. \A i \in 1 .. m : rc[i] = c[(m - i) + 1] /\ rt[i] = chain[(n - i) + 1]
    BY <1>1, <1>2, <1>7
  <2>2. \A i \in 1 .. m : /\ (m - i) + 1 \in 1 .. m
                          /\ (m - ((m - i) + 1)) + 1 = i
                          /\ (n - ((m - i) + 1)) + 1 = n - m + i
                          /\ n - m + ((m - i) + 1) = (n - i) + 1
    BY <1>1, <1>7
  <2>3. ASSUME \A i \in 1 .. m : rc[i] = rt[i], NEW i \in 1 .. m
        PROVE  c[i] = chain[n - m + i]
    <3>1. rc[(m - i) + 1] = rt[(m - i) + 1]
      BY <2>2, <2>3
    <3>2. /\ rc[(m - i) + 1] = c[(m - ((m - i) + 1)) + 1]
          /\ rt[(m - i) + 1] = chain[(n - ((m - i) + 1)) + 1]
      BY <2>1, <2>2
    <3> QED
      BY <2>2, <3>1, <3>2
  <2>4. ASSUME \A i \in 1 .. m : c[i] = chain[n - m + i], NEW i \in 1 .. m
        PROVE  rc[i] = rt[i]
    <3>1. c[(m - i) + 1] = chain[n - m + ((m - i) + 1)]
      BY <2>2, <2>4
    <3> QED
      BY <2>1, <2>2, <3>1
  <2> QED
    BY <2>3, <2>4
<1> QED
  BY <1>5, <1>6, <1>7 DEF EndsWith, m, n

\* The facts about a consumer in step that every case needs.
LEMMA InStepFacts ==
    ASSUME NEW v, NEW c \in Seq(Entry), NEW last \in OptHeight, InStep(v, c, last)
    PROVE  /\ v = [chain |-> v.chain, final |-> v.final, ok |-> TRUE]
           /\ v.chain \in Seq(Entry) /\ v.final \in Nat /\ v.ok = TRUE
           /\ Len(v.chain) \in Nat /\ Len(c) \in Nat
           /\ \A i \in 1 .. Len(v.chain) : v.chain[i] \in Entry /\ Ht(v.chain[i]) \in Nat
           /\ \A i \in 1 .. Len(v.chain) : Ht(v.chain[i]) > last => i > v.final
<1>1. v \in View /\ v.ok /\ v.final <= Len(v.chain)
  BY DEF InStep
<1>2. v.chain \in Seq(Entry) /\ v.final \in Nat /\ v.ok \in BOOLEAN
  BY <1>1 DEF View
<1>3. v.ok = TRUE
  BY <1>1, <1>2
<1>4. v = [chain |-> v.chain, final |-> v.final, ok |-> TRUE]
  BY <1>1, <1>3 DEF View
<1>5. \A i \in 1 .. Len(v.chain) : v.chain[i] \in Entry /\ Ht(v.chain[i]) \in Nat
  BY <1>2, HtType
<1>6. ASSUME NEW i \in 1 .. Len(v.chain), Ht(v.chain[i]) > last
      PROVE  i > v.final
  <2>1. CASE v.final = 0
    BY <2>1
  <2>2. CASE v.final # 0
    <3>1. v.final \in 1 .. Len(v.chain) /\ 1 \in 1 .. Len(v.chain)
      BY <1>1, <1>2, <2>2
    <3>2. Ht(v.chain[v.final]) = last
      BY <2>2 DEF InStep
    <3>3. /\ Ht(v.chain[i]) = Ht(v.chain[1]) + i - 1
          /\ Ht(v.chain[v.final]) = Ht(v.chain[1]) + v.final - 1
      BY <3>1 DEF InStep, Contiguous
    <3>4. PICK x \in Nat : x = Ht(v.chain[1])
      BY <3>1, <1>5
    <3>5. x + i - 1 > x + v.final - 1
      BY <1>6, <3>2, <3>3, <3>4
    <3> QED
      BY <3>4, <3>5, <1>2
  <2> QED
    BY <2>1, <2>2
<1> QED
  BY <1>2, <1>3, <1>4, <1>5, <1>6

\* A consumer that has received nothing is in step with an empty buffer.
LEMMA FreshInStep == InStep(FreshView, <<>>, None)
<1>1. FreshView = [chain |-> <<>>, final |-> 0, ok |-> TRUE]
  BY DEF FreshView
<1>2. <<>> \in Seq(Entry) /\ Len(<<>>) = 0
  OBVIOUS
<1>3. /\ FreshView \in View /\ FreshView.chain = <<>> /\ FreshView.final = 0
      /\ FreshView.ok
  BY <1>1, <1>2 DEF View
<1>4. Linked(<<>>) /\ Contiguous(<<>>) /\ EndsWith(<<>>, <<>>)
  BY <1>2 DEF Linked, Contiguous, EndsWith
<1> QED
  BY <1>2, <1>3, <1>4 DEF InStep

\* Updates of a view, field by field.
LEMMA ViewUpdate ==
    ASSUME NEW v, NEW c, NEW f, NEW t, v = [chain |-> c, final |-> f, ok |-> t],
           NEW w, NEW d, NEW x, NEW u,
           \/ w = [v EXCEPT !.chain = d, !.ok = u] /\ x = f
           \/ w = [v EXCEPT !.final = x, !.ok = u] /\ d = c
    PROVE  w = [chain |-> d, final |-> x, ok |-> u]
<1>1. DOMAIN v = {"chain", "final", "ok"} /\ DOMAIN w = DOMAIN v
  OBVIOUS
<1>2. w.chain = d /\ w.ok = u /\ w.final = x
  OBVIOUS
<1>3. w = [k \in DOMAIN w |-> w[k]]
  OBVIOUS
<1> QED
  BY <1>1, <1>2, <1>3

\* Outputs of the ledger leave the consumer alone.
LEMMA ReplayLedger ==
    ASSUME NEW v, NEW outs \in Seq(Output),
           \A k \in 1 .. Len(outs) : outs[k].step \in {"ForkObserved", "ForkResolved"}
    PROVE  Replay(v, outs) = v
<1> DEFINE g == [k \in 0 .. Len(outs) |-> v]
<1>1. Len(outs) \in Nat
  OBVIOUS
<1>2. ASSUME NEW o, o.step \in {"ForkObserved", "ForkResolved"}
      PROVE  Apply(v, o) = v
  BY <1>2 DEF Apply
<1>3. Steps(g, v, outs)
  <2>1. \A k \in 1 .. Len(outs) : g[k] = Apply(g[k - 1], outs[k])
    BY <1>1, <1>2
  <2>2. g[0] = v
    BY <1>1
  <2> QED
    BY <2>1, <2>2 DEF Steps
<1>4. g[Len(outs)] = v
  BY <1>1
<1> HIDE DEF g
<1> QED
  BY <1>1, <1>3, <1>4, ReplayIs

\* New: a block that follows the buffer follows the consumer's chain.
LEMMA ApplyNew ==
    ASSUME NEW v, NEW c \in Seq(Entry), NEW last \in OptHeight, InStep(v, c, last),
           NEW e \in Entry, c # <<>> => Parent[e.id] = c[Len(c)].id,
           NEW o, o.step = "New", o.block = e
    PROVE  /\ Apply(v, o) = [chain |-> Append(v.chain, e), final |-> v.final, ok |-> TRUE]
           /\ InStep(Apply(v, o), Append(c, e), last)
           /\ v.chain # <<>> => Parent[e.id] = v.chain[Len(v.chain)].id
<1> DEFINE ch == v.chain
           w == [chain |-> Append(ch, e), final |-> v.final, ok |-> TRUE]
<1>1. /\ v = [chain |-> ch, final |-> v.final, ok |-> TRUE]
      /\ ch \in Seq(Entry) /\ v.final \in Nat /\ v.ok = TRUE
      /\ Len(ch) \in Nat /\ Len(c) \in Nat
  BY InStepFacts
<1>2. ASSUME ch # <<>> PROVE Parent[e.id] = ch[Len(ch)].id
  <2>1. c # <<>>
    BY <1>2 DEF InStep
  <2>2. Len(c) \in 1 .. Len(c) /\ Len(ch) - Len(c) + Len(c) = Len(ch)
    BY <2>1, <1>1, EmptySeq
  <2>3. c[Len(c)] = ch[Len(ch)]
    BY <2>2 DEF InStep, EndsWith
  <2> QED
    BY <2>1, <2>3
<1>3. Apply(v, o) = w
  <2>1. Apply(v, o) = [v EXCEPT !.chain = Append(ch, e),
                                !.ok = v.ok /\ (ch # <<>> => Parent[e.id] = Last(ch).id)]
    BY DEF Apply
  <2>2. (v.ok /\ (ch # <<>> => Parent[e.id] = Last(ch).id)) = TRUE
    BY <1>1, <1>2 DEF Last
  <2>3. Apply(v, o) = [v EXCEPT !.chain = Append(ch, e), !.ok = TRUE]
    BY <2>1, <2>2
  <2> QED
    BY <1>1, <2>3, ViewUpdate
<1>4. InStep(w, Append(c, e), last)
  <2>1. /\ Append(ch, e) \in Seq(Entry) /\ Len(Append(ch, e)) = Len(ch) + 1
        /\ \A i \in 1 .. Len(ch) : Append(ch, e)[i] = ch[i]
        /\ Append(ch, e)[Len(ch) + 1] = e
        /\ Linked(Append(ch, e)) /\ Contiguous(Append(ch, e))
    BY <1>1, <1>2, AppendBranch DEF InStep
  <2>2. /\ Append(c, e) \in Seq(Entry) /\ Len(Append(c, e)) = Len(c) + 1
        /\ \A i \in 1 .. Len(c) : Append(c, e)[i] = c[i]
        /\ Append(c, e)[Len(c) + 1] = e
    BY <1>1, AppendProperties
  <2>3. EndsWith(Append(ch, e), Append(c, e))
    <3>1. Len(c) <= Len(ch) /\ \A i \in 1 .. Len(c) : c[i] = ch[Len(ch) - Len(c) + i]
      BY DEF InStep, EndsWith
    <3>2. ASSUME NEW i \in 1 .. Len(c) + 1
          PROVE  Append(c, e)[i] = Append(ch, e)[(Len(ch) + 1) - (Len(c) + 1) + i]
      <4>1. CASE i \in 1 .. Len(c)
        <5>1. /\ (Len(ch) + 1) - (Len(c) + 1) + i = Len(ch) - Len(c) + i
              /\ Len(ch) - Len(c) + i \in 1 .. Len(ch)
          BY <1>1, <3>1, <4>1
        <5> QED
          BY <5>1, <4>1, <2>1, <2>2, <3>1
      <4>2. CASE i = Len(c) + 1
        <5>1. (Len(ch) + 1) - (Len(c) + 1) + i = Len(ch) + 1
          BY <1>1, <4>2
        <5> QED
          BY <5>1, <4>2, <2>1, <2>2
      <4>3. i \in 1 .. Len(c) \/ i = Len(c) + 1
        BY <1>1
      <4> QED
        BY <4>1, <4>2, <4>3
    <3>3. Len(c) + 1 <= Len(ch) + 1
      BY <1>1, <3>1
    <3> QED
      BY <2>1, <2>2, <3>2, <3>3 DEF EndsWith
  <2>4. w \in View /\ w.ok
    BY <1>1, <2>1 DEF View
  <2>5. v.final <= Len(ch) + 1
    BY <1>1 DEF InStep
  <2>6. IF v.final = 0 THEN last = None ELSE Ht(Append(ch, e)[v.final]) = last
    <3>1. CASE v.final # 0
      <4>1. v.final \in 1 .. Len(ch)
        BY <1>1, <3>1 DEF InStep
      <4> QED
        BY <3>1, <4>1, <2>1 DEF InStep
    <3> QED
      BY <3>1 DEF InStep
  <2>7. Append(c, e) # <<>>
    BY <2>2, <1>1
  <2> QED
    BY <2>1, <2>3, <2>4, <2>5, <2>6, <2>7 DEF InStep
<1> QED
  BY <1>2, <1>3, <1>4

\* Undo: retracting the orphans tip first takes the consumer back to the ancestor,
\* each Undo naming its tip and none reaching the final mark.
LEMMA ReplayUndo ==
    ASSUME NEW v, NEW c \in Seq(Entry), NEW last \in OptHeight, InStep(v, c, last),
           NEW a \in 1 .. Len(c), \A i \in a + 1 .. Len(c) : Ht(c[i]) > last,
           NEW outs \in Seq(Output), Len(outs) = Len(c) - a,
           \A k \in 1 .. Len(outs) :
              outs[k].step = "Undo" /\ outs[k].block = c[Len(c) + 1 - k]
    PROVE  LET n == Len(v.chain) - (Len(c) - a)
           IN  /\ n \in 1 .. Len(v.chain) /\ n >= v.final
               /\ Replay(v, outs)
                     = [chain |-> SubSeq(v.chain, 1, n), final |-> v.final, ok |-> TRUE]
               /\ InStep(Replay(v, outs), SubSeq(c, 1, a), last)
<1> DEFINE ch == v.chain
           L == Len(ch)
           m == Len(c) - a
           n == L - m
           g == [k \in 0 .. m |->
                    [chain |-> SubSeq(ch, 1, L - k), final |-> v.final, ok |-> TRUE]]
<1> HIDE DEF g
<1>1. /\ v = [chain |-> ch, final |-> v.final, ok |-> TRUE]
      /\ ch \in Seq(Entry) /\ v.final \in Nat
      /\ L \in Nat /\ Len(c) \in Nat
      /\ \A i \in 1 .. L : Ht(ch[i]) > last => i > v.final
  BY InStepFacts
<1>2. Len(c) <= L /\ \A i \in 1 .. Len(c) : c[i] = ch[L - Len(c) + i]
  BY DEF InStep, EndsWith
<1>3. Linked(ch) /\ Contiguous(ch) /\ v.final <= L
  BY DEF InStep
<1>4. /\ L \in Nat /\ Len(c) \in Nat /\ Len(c) <= L
      /\ a \in Nat /\ m \in Nat /\ n \in Nat
      /\ n \in 1 .. L /\ a = Len(c) - m /\ n = L - m /\ a >= 1 /\ a <= n
  <2> HIDE DEF L
  <2>1. L \in Nat /\ Len(c) \in Nat /\ Len(c) <= L
    BY <1>1, <1>2
  <2> QED
    BY <2>1
<1> HIDE DEF ch, L, m, n
<1>5. ASSUME NEW k \in 0 .. m
      PROVE  /\ SubSeq(ch, 1, L - k) \in Seq(Entry)
             /\ Len(SubSeq(ch, 1, L - k)) = L - k
             /\ \A i \in 1 .. L - k : SubSeq(ch, 1, L - k)[i] = ch[i]
             /\ Linked(SubSeq(ch, 1, L - k)) /\ Contiguous(SubSeq(ch, 1, L - k))
  <2>1. 1 \in 1 .. L + 1 /\ L - k \in 0 .. L /\ 1 <= (L - k) + 1
    BY <1>1, <1>4
  <2>2. LET d == SubSeq(ch, 1, L - k)
        IN  /\ d \in Seq(Entry) /\ Len(d) = (L - k) - 1 + 1
            /\ \A i \in 1 .. Len(d) : 1 + i - 1 \in 1 .. L - k /\ d[i] = ch[1 + i - 1]
            /\ Linked(d) /\ Contiguous(d)
    BY <1>1, <1>3, <2>1, SubBranch DEF L
  <2>3. Len(SubSeq(ch, 1, L - k)) = L - k
    BY <1>1, <2>1, <2>2
  <2>4. \A i \in 1 .. L - k : 1 + i - 1 = i
    BY <1>1
  <2> QED
    BY <2>2, <2>3, <2>4
<1>6. ASSUME NEW k \in 1 .. m
      PROVE  /\ L - (k - 1) \in 1 .. L
             /\ ch[L - (k - 1)] = outs[k].block
             /\ L - (k - 1) > v.final
  <2>1. /\ Len(c) + 1 - k \in a + 1 .. Len(c) /\ Len(c) + 1 - k \in 1 .. Len(c)
        /\ L - Len(c) + (Len(c) + 1 - k) = L - (k - 1) /\ L - (k - 1) \in 1 .. L
    BY <1>4
  <2>2. c[Len(c) + 1 - k] = ch[L - (k - 1)] /\ Ht(c[Len(c) + 1 - k]) > last
    BY <1>2, <2>1
  <2>3. outs[k].block = c[Len(c) + 1 - k]
    BY DEF m
  <2> QED
    BY <1>1, <2>1, <2>2, <2>3
<1>7. ASSUME NEW k \in 1 .. m
      PROVE  g[k] = Apply(g[k - 1], outs[k])
  <2> DEFINE d == SubSeq(ch, 1, L - (k - 1))
  <2>1. k - 1 \in 0 .. m /\ k \in 0 .. m /\ L - (k - 1) \in Nat /\ L - (k - 1) >= 1
        /\ L - k \in Nat /\ L - k = L - (k - 1) - 1
    <3>1. m \in Nat /\ L \in Nat /\ k \in Nat
      BY <1>1, <1>4
    <3>2. k - 1 \in 0 .. m /\ k \in 0 .. m
      BY <3>1
    <3>3. L - (k - 1) \in 1 .. L
      BY <1>6
    <3> QED
      BY <3>1, <3>2, <3>3
  <2>2. g[k - 1] = [chain |-> d, final |-> v.final, ok |-> TRUE]
    BY <2>1 DEF g
  <2>3. d \in Seq(Entry) /\ Len(d) = L - (k - 1) /\ \A i \in 1 .. L - (k - 1) : d[i] = ch[i]
    BY <1>5, <2>1
  <2> HIDE DEF d
  <2>4. d # <<>> /\ Last(d) = outs[k].block /\ Len(d) > v.final
    <3>1. d[L - (k - 1)] = ch[L - (k - 1)]
      BY <2>1, <2>3
    <3>2. d # <<>>
      BY <2>1, <2>3
    <3> QED
      BY <1>6, <2>3, <3>1, <3>2 DEF Last
  <2>5. Front(d) = SubSeq(ch, 1, L - k)
    <3>1. Front(d) = SubSeq(d, 1, L - k)
      BY <1>1, <2>3 DEF Front
    <3>2. /\ SubSeq(d, 1, L - k) \in Seq(Entry)
          /\ Len(SubSeq(d, 1, L - k)) = L - k
          /\ \A i \in 1 .. L - k : SubSeq(d, 1, L - k)[i] = d[i]
      <4>1. L - k \in 0 .. L - (k - 1) /\ \A i \in 1 .. L - k : d[i] \in Entry
        <5>1. \A i \in 1 .. L - k : i \in 1 .. Len(d)
          BY <2>1, <2>3
        <5> QED
          BY <2>1, <2>3, <5>1
      <4>2. /\ SubSeq(d, 1, L - k) \in Seq(Entry)
            /\ Len(SubSeq(d, 1, L - k)) = IF 1 <= L - k THEN (L - k) - 1 + 1 ELSE 0
            /\ \A i \in 1 .. (L - k) - 1 + 1 : SubSeq(d, 1, L - k)[i] = d[1 + i - 1]
        BY <2>1, <2>3, <4>1, SubSeqProperties
      <4>3. \A i \in 1 .. L - k : i \in 1 .. (L - k) - 1 + 1 /\ 1 + i - 1 = i
        BY <2>1
      <4>4. Len(SubSeq(d, 1, L - k)) = L - k
        BY <2>1, <4>2
      <4> QED
        BY <4>2, <4>3, <4>4
    <3>3. \A i \in 1 .. L - k : SubSeq(d, 1, L - k)[i] = SubSeq(ch, 1, L - k)[i]
      <4>1. \A i \in 1 .. L - k : i \in 1 .. L - (k - 1)
        BY <1>1
      <4> QED
        BY <2>1, <2>3, <3>2, <1>5, <4>1
    <3>4. SubSeq(ch, 1, L - k) \in Seq(Entry) /\ Len(SubSeq(ch, 1, L - k)) = L - k
      BY <1>5, <2>1
    <3> QED
      BY <3>1, <3>2, <3>3, <3>4, SeqEqual
  <2> DEFINE u == g[k - 1]
             w == Apply(u, outs[k])
  <2>6. outs[k].step = "Undo"
    BY DEF m
  <2>7. u.chain = d /\ u.final = v.final /\ u.ok = TRUE
    BY <2>2 DEF u
  <2> HIDE DEF u
  <2>8. w = [u EXCEPT !.chain = Front(d), !.ok = u.ok /\ Len(d) > v.final]
    BY <2>4, <2>6, <2>7 DEF Apply
  <2>9. (u.ok /\ Len(d) > v.final) = TRUE
    BY <2>4, <2>7
  <2>10. w = [u EXCEPT !.chain = Front(d), !.ok = TRUE]
    BY <2>8, <2>9
  <2>11. u = [chain |-> d, final |-> v.final, ok |-> TRUE]
    BY <2>2 DEF u
  <2>12. w = [chain |-> Front(d), final |-> v.final, ok |-> TRUE]
    <3> HIDE DEF w
    <3> QED
      BY <2>10, <2>11, ViewUpdate
  <2>13. g[k] = [chain |-> SubSeq(ch, 1, L - k), final |-> v.final, ok |-> TRUE]
    BY <2>1 DEF g
  <2> QED
    BY <2>5, <2>12, <2>13 DEF u
<1>8. g[0] = v
  <2>1. L - 0 = L /\ SubSeq(ch, 1, L) = ch /\ 0 \in 0 .. m
    BY <1>1, <1>4, SubSeqFull DEF L
  <2> QED
    BY <1>1, <2>1 DEF g
<1>9. Len(outs) = m
  BY DEF m
<1>10. g[m] = [chain |-> SubSeq(ch, 1, n), final |-> v.final, ok |-> TRUE]
  <2>1. m \in 0 .. m /\ L - m = n
    BY <1>4
  <2> QED
    BY <2>1 DEF g
<1>11. Replay(v, outs) = g[m]
  <2>1. Steps(g, v, outs)
    BY <1>7, <1>8, <1>9 DEF Steps
  <2> QED
    BY <1>4, <1>9, <2>1, ReplayIs
<1>12. n >= v.final
  <2>1. CASE m = 0
    BY <1>1, <1>3, <1>4, <2>1
  <2>2. CASE m > 0
    <3>1. m \in 1 .. m /\ L - (m - 1) = n + 1
      BY <1>1, <1>4, <2>2
    <3>2. n + 1 > v.final
      BY <1>6, <3>1
    <3> QED
      BY <1>1, <1>4, <3>2
  <2> QED
    BY <1>4, <2>1, <2>2
<1>13. InStep(Replay(v, outs), SubSeq(c, 1, a), last)
  <2> DEFINE d == SubSeq(ch, 1, n)
             b == SubSeq(c, 1, a)
  <2>1. m \in 0 .. m /\ L - m = n
    BY <1>1, <1>4
  <2>2. /\ d \in Seq(Entry) /\ Len(d) = n /\ (\A i \in 1 .. n : d[i] = ch[i])
        /\ Linked(d) /\ Contiguous(d)
    BY <1>5, <2>1
  <2>3. b \in Seq(Entry) /\ Len(b) = a /\ \A i \in 1 .. a : b[i] = c[i]
    <3>1. a \in Int /\ 1 <= a /\ \A i \in 1 .. a : c[i] \in Entry
      BY <1>1, <1>4
    <3>2. /\ b \in Seq(Entry)
          /\ Len(b) = IF 1 <= a THEN a - 1 + 1 ELSE 0
          /\ \A i \in 1 .. a - 1 + 1 : b[i] = c[1 + i - 1]
      BY <3>1, SubSeqProperties
    <3> QED
      BY <3>1, <3>2
  <2> HIDE DEF d, b
  <2>4. EndsWith(d, b)
    <3>1. a <= n
      BY <1>1, <1>2, <1>4
    <3>2. ASSUME NEW i \in 1 .. a PROVE b[i] = d[n - a + i]
      <4>1. n - a + i \in 1 .. n /\ i \in 1 .. Len(c) /\ L - Len(c) + i = n - a + i
        BY <1>4
      <4> QED
        BY <4>1, <1>2, <2>2, <2>3
    <3> QED
      BY <2>2, <2>3, <3>1, <3>2 DEF EndsWith
  <2>5. IF v.final = 0 THEN last = None ELSE Ht(d[v.final]) = last
    <3>1. CASE v.final # 0
      <4>1. v.final \in 1 .. n
        BY <1>1, <1>12, <1>4, <3>1
      <4>2. Ht(ch[v.final]) = last
        BY <3>1 DEF InStep, ch
      <4> QED
        BY <3>1, <4>1, <4>2, <2>2
    <3> QED
      BY <3>1 DEF InStep
  <2>6. b # <<>>
    BY <1>1, <2>3
  <2>7. Replay(v, outs) = [chain |-> d, final |-> v.final, ok |-> TRUE]
    BY <1>10, <1>11 DEF d
  <2>8. [chain |-> d, final |-> v.final, ok |-> TRUE] \in View
    BY <1>1, <2>2 DEF View
  <2>9. InStep([chain |-> d, final |-> v.final, ok |-> TRUE], b, last)
    BY <1>12, <2>2, <2>4, <2>5, <2>6, <2>8 DEF InStep
  <2> QED
    BY <2>7, <2>9 DEF b
<1> QED
  BY <1>4, <1>10, <1>11, <1>12, <1>13 DEF ch, L, m, n

\* A block of the consumer's chain is found at its own index.
LEMMA IndexInSpec ==
    ASSUME NEW ch \in Seq(Entry), Contiguous(ch), NEW i \in 1 .. Len(ch)
    PROVE  IndexIn(ch, ch[i]) = i
<1>1. DOMAIN ch = 1 .. Len(ch)
  BY LenProperties
<1>2. \A j \in DOMAIN ch : ch[j] = ch[i] => j = i
  BY <1>1, DistinctIds
<1>3. \E j \in DOMAIN ch : ch[j] = ch[i]
  BY <1>1
<1>4. IndexIn(ch, ch[i]) = CHOOSE j \in DOMAIN ch : ch[j] = ch[i]
  BY <1>3 DEF IndexIn
<1> QED
  BY <1>2, <1>3, <1>4

\* Irreversible: the final mark climbs the chain to the last height fired.
LEMMA ReplayIrreversible ==
    ASSUME NEW v, NEW c \in Seq(Entry), Contiguous(c),
           NEW last \in OptHeight, InStep(v, c, last),
           NEW head \in OptHeight
    PROVE  LET w == Replay(v, IrreversibleOutputs(c, head, last))
           IN  /\ w.chain = v.chain
               /\ w.final >= v.final
               /\ InStep(w, c, LastFired(c, head, last))
<1> DEFINE ch == v.chain
           L == Len(ch)
           fresh == FreshlyFinal(c, head, last)
           f == Len(fresh)
           outs == IrreversibleOutputs(c, head, last)
           base == L - Len(c) + WalkLen(c, last)
           g == [k \in 0 .. f |-> [chain |-> ch, final |-> IF k = 0 THEN v.final ELSE base + k,
                                   ok |-> TRUE]]
<1> HIDE DEF g
<1>1. /\ v = [chain |-> ch, final |-> v.final, ok |-> TRUE]
      /\ ch \in Seq(Entry) /\ v.final \in Nat
      /\ L \in Nat /\ Len(c) \in Nat
      /\ \A i \in 1 .. L : ch[i] \in Entry /\ Ht(ch[i]) \in Nat
      /\ \A i \in 1 .. L : Ht(ch[i]) > last => i > v.final
  BY InStepFacts
<1>2. Len(c) <= L /\ \A i \in 1 .. Len(c) : c[i] = ch[L - Len(c) + i]
  BY DEF InStep, EndsWith
<1>3. Linked(ch) /\ Contiguous(ch) /\ v.final <= L
  BY DEF InStep
<1>4. /\ fresh \in Seq(Entry) /\ f \in Nat
      /\ WalkLen(c, last) \in 0 .. Len(c)
      /\ \A k \in 1 .. f : /\ WalkLen(c, last) + k \in 1 .. Len(c)
                           /\ fresh[k] = c[WalkLen(c, last) + k]
                           /\ Ht(fresh[k]) > last
  BY FreshlyFinalSpec
<1>5. /\ outs \in Seq(Output) /\ Len(outs) = f
      /\ \A k \in 1 .. f : outs[k].step = "Irreversible" /\ outs[k].block = fresh[k]
  BY IrreversibleOutputsSpec
<1> HIDE DEF ch, L, f, fresh, outs
<1>6. base \in Nat
  BY <1>1, <1>2, <1>4
<1>7. ASSUME NEW k \in 1 .. f
      PROVE  /\ base + k \in 1 .. L
             /\ fresh[k] = ch[base + k]
             /\ base + k > v.final
  <2> DEFINE wl == WalkLen(c, last)
  <2>1. wl \in Nat /\ wl + k \in 1 .. Len(c) /\ Len(c) \in Nat /\ L \in Nat /\ Len(c) <= L
    BY <1>1, <1>2, <1>4
  <2> HIDE DEF wl
  <2>2. L - Len(c) + (wl + k) = base + k /\ base + k \in 1 .. L
    BY <2>1 DEF wl
  <2>3. fresh[k] = c[wl + k] /\ Ht(fresh[k]) > last
    BY <1>4 DEF wl
  <2>4. c[wl + k] = ch[base + k]
    BY <1>2, <2>1, <2>2
  <2> QED
    BY <1>1, <2>2, <2>3, <2>4
<1> HIDE DEF base
<1>8. ASSUME NEW k \in 1 .. f
      PROVE  g[k] = Apply(g[k - 1], outs[k])
  <2> DEFINE u == g[k - 1]
             w == Apply(u, outs[k])
             was == IF k - 1 = 0 THEN v.final ELSE base + (k - 1)
  <2>1. k - 1 \in 0 .. f /\ k \in 0 .. f /\ k # 0
    BY <1>4
  <2>2. u = [chain |-> ch, final |-> was, ok |-> TRUE]
    BY <2>1 DEF g
  <2>3. IndexIn(ch, outs[k].block) = base + k
    BY <1>1, <1>3, <1>5, <1>7, IndexInSpec DEF L
  <2>4. base + k > was
    BY <1>1, <1>6, <1>7, <2>1
  <2>5. u.chain = ch /\ u.final = was /\ u.ok = TRUE
    BY <2>2
  <2> HIDE DEF u, was
  <2>6. w = [u EXCEPT !.final = base + k, !.ok = u.ok /\ base + k > was]
    BY <1>5, <2>3, <2>5 DEF Apply
  <2>7. (u.ok /\ base + k > was) = TRUE
    BY <2>4, <2>5
  <2>8. w = [u EXCEPT !.final = base + k, !.ok = TRUE]
    BY <2>6, <2>7
  <2>9. w = [chain |-> ch, final |-> base + k, ok |-> TRUE]
    <3> HIDE DEF w
    <3> QED
      BY <2>2, <2>8, ViewUpdate
  <2>10. g[k] = [chain |-> ch, final |-> base + k, ok |-> TRUE]
    BY <2>1 DEF g
  <2> QED
    BY <2>9, <2>10 DEF u
<1>9. g[0] = v
  BY <1>1, <1>4 DEF g
<1> DEFINE w == Replay(v, outs)
           fin == IF f = 0 THEN v.final ELSE base + f
<1>10. w = [chain |-> ch, final |-> fin, ok |-> TRUE]
  <2>1. Steps(g, v, outs)
    BY <1>5, <1>8, <1>9 DEF Steps
  <2>2. w = g[f]
    BY <1>4, <1>5, <2>1, ReplayIs
  <2>3. f \in 0 .. f
    BY <1>4
  <2> QED
    BY <2>2, <2>3 DEF g
<1>11. w.chain = ch /\ w.final = fin /\ w.ok = TRUE
  BY <1>10
<1>12. fin \in Nat /\ fin >= v.final /\ fin <= L
  <2>1. CASE f = 0
    BY <1>1, <1>3, <2>1
  <2>2. CASE f # 0
    <3>1. f \in 1 .. f
      BY <1>4, <2>2
    <3>2. base + f \in 1 .. L /\ base + f > v.final
      BY <1>7, <3>1
    <3> QED
      BY <1>1, <2>2, <3>2
  <2> QED
    BY <2>1, <2>2
<1>13. IF fin = 0 THEN LastFired(c, head, last) = None
       ELSE Ht(ch[fin]) = LastFired(c, head, last)
  <2>1. LastFired(c, head, last) = IF fresh = <<>> THEN last ELSE Ht(fresh[f])
    BY DEF LastFired, fresh, f
  <2>2. CASE f = 0
    <3>1. fresh = <<>> /\ fin = v.final
      BY <1>4, <2>2, EmptySeq DEF f
    <3> QED
      BY <2>1, <3>1 DEF InStep, ch
  <2>3. CASE f # 0
    <3>1. f \in 1 .. f /\ fresh # <<>> /\ fin = base + f
      BY <1>4, <2>3 DEF f
    <3>2. fresh[f] = ch[base + f] /\ base + f \in 1 .. L
      BY <1>7, <3>1
    <3>3. fin # 0
      BY <3>1, <3>2, <1>1
    <3> QED
      BY <2>1, <3>1, <3>2, <3>3
  <2> QED
    BY <2>2, <2>3
<1> HIDE DEF w, fin
<1>14. w \in View
  BY <1>1, <1>10, <1>12 DEF View
<1>15. InStep(w, c, LastFired(c, head, last))
  BY <1>3, <1>11, <1>12, <1>13, <1>14 DEF InStep, ch, L
<1> QED
  BY <1>11, <1>12, <1>15 DEF w, outs, ch

\* Pruning the buffer's front does not concern the consumer.
LEMMA PruneKeepsInStep ==
    ASSUME NEW v, NEW c \in Seq(Entry), Linked(c), Contiguous(c), c # <<>>,
           NEW last \in OptHeight, InStep(v, c, last)
    PROVE  InStep(v, Pruned(c), last)
<1> DEFINE d == Pruned(c)
           p == PruneLen(c)
           L == Len(v.chain)
<1>1. /\ p \in 0 .. Len(c) /\ d \in Seq(Entry) /\ Len(d) = Len(c) - p
      /\ \A i \in 1 .. Len(d) : p + i \in 1 .. Len(c) /\ d[i] = c[p + i]
  BY PrunedSpec
<1>2. L \in Nat /\ Len(c) \in Nat /\ Len(c) > 0 /\ Len(d) \in Nat
  BY <1>1, InStepFacts, EmptySeq
<1>3. Len(c) <= L /\ \A i \in 1 .. Len(c) : c[i] = v.chain[L - Len(c) + i]
  BY DEF InStep, EndsWith
<1>4. d # <<>>
  <2>1. p < Len(c)
    BY <1>2, EngineAssumption DEF PruneLen
  <2> HIDE DEF d, p
  <2> QED
    BY <1>1, <1>2, <2>1
<1> HIDE DEF d, p, L
<1>5. EndsWith(v.chain, d)
  <2>1. Len(d) <= L
    BY <1>1, <1>2, <1>3
  <2>2. ASSUME NEW i \in 1 .. Len(d) PROVE d[i] = v.chain[L - Len(d) + i]
    <3>1. p + i \in 1 .. Len(c) /\ d[i] = c[p + i]
      BY <1>1
    <3>2. p \in Nat /\ Len(d) = Len(c) - p
      BY <1>1, <1>2
    <3>3. L - Len(c) + (p + i) = L - Len(d) + i
      BY <1>2, <3>2
    <3> QED
      BY <1>3, <3>1, <3>3
  <2> QED
    BY <2>1, <2>2 DEF EndsWith, L
<1> QED
  BY <1>4, <1>5 DEF InStep, d

-----------------------------------------------------------------------------
(* One call of the engine *)

\* Two outputs, one after the other.
LEMMA PairIsConcat ==
    ASSUME NEW T, NEW x \in T, NEW y \in T
    PROVE  <<x, y>> = <<x>> \o <<y>> /\ <<x>> \in Seq(T) /\ <<y>> \in Seq(T)
<1>1. /\ <<x>> \in Seq(T) /\ <<y>> \in Seq(T) /\ <<x, y>> \in Seq(T)
      /\ Len(<<x>>) = 1 /\ Len(<<y>>) = 1 /\ Len(<<x, y>>) = 2
      /\ <<x>>[1] = x /\ <<y>>[1] = y /\ <<x, y>>[1] = x /\ <<x, y>>[2] = y
  OBVIOUS
<1>2. /\ <<x>> \o <<y>> \in Seq(T) /\ Len(<<x>> \o <<y>>) = 2
      /\ (<<x>> \o <<y>>)[1] = x /\ (<<x>> \o <<y>>)[2] = y
  BY <1>1, ConcatProperties
<1>3. \A i \in 1 .. 2 : <<x, y>>[i] = (<<x>> \o <<y>>)[i]
  BY <1>1, <1>2
<1> QED
  BY <1>1, <1>2, <1>3, SeqEqual

\* Concatenation again, for the engine's outputs.
LEMMA ReplayOutputs ==
    \A v : \A s \in Seq(Output), t \in Seq(Output) :
        Replay(v, s \o t) = Replay(Replay(v, s), t)
BY ReplayConcat

\* maybe_emit_irreversible and maybe_resolve_forks, behind the outputs `out`.
LEMMA SettleInStep ==
    ASSUME last_irreversible_height \in OptHeight,
           NEW c \in Seq(Entry), Contiguous(c), NEW fh \in Seq(Observation),
           NEW head \in OptHeight, NEW out \in Seq(Output),
           Settle(c, fh, head, out),
           NEW v, InStep(Replay(v, out), c, last_irreversible_height)
    PROVE  LET u == Replay(v, out)
               w == Replay(v, ret'.out)
           IN  /\ w.chain = u.chain
               /\ w.final >= u.final
               /\ InStep(w, c, last_irreversible_height')
<1> DEFINE last == last_irreversible_height
           irr == IrreversibleOutputs(c, head, last)
           res == ForkOutputs(fh, head)
           u == Replay(v, out)
           x == Replay(u, irr)
<1>1. irr \in Seq(Output) /\ res \in Seq(Output) /\ out \o irr \in Seq(Output)
  BY IrreversibleOutputsSpec, ForkOutputsSpec, ConcatProperties
<1>2. ret'.out = (out \o irr) \o res /\ last_irreversible_height' = LastFired(c, head, last)
  BY DEF Settle, Ok
<1>3. x.chain = u.chain /\ x.final >= u.final /\ InStep(x, c, LastFired(c, head, last))
  BY ReplayIrreversible
<1>4. Replay(x, res) = x
  BY <1>1, ForkOutputsSpec, ReplayLedger
<1> HIDE DEF irr, res
<1>5. Replay(v, (out \o irr) \o res) = Replay(Replay(v, out \o irr), res)
  BY <1>1, ReplayOutputs, Zenon
<1>6. Replay(v, out \o irr) = x
  BY <1>1, ReplayOutputs, Zenon
<1>7. Replay(v, ret'.out) = x
  BY <1>2, <1>4, <1>5, <1>6
<1> QED
  BY <1>2, <1>3, <1>7

\* The shared end of the accepting paths: the consumer of `out` holds the pushed
\* buffer, so the consumer of the whole result holds the pruned one.
LEMMA PushInStep ==
    ASSUME TypeOK, last_irreversible_height <= solidified_head,
           NEW base \in Seq(Entry), Linked(base), Contiguous(base), NEW b \in Block,
           base # <<>> => Parent[b] = base[Len(base)].id,
           NEW ids, NEW fh \in Seq(Observation), NEW out \in Seq(Output),
           Push(base, ids, b, fh, out), NEW v,
           InStep(Replay(v, out), Append(base, [id |-> b, fork_id |-> next_fork_id]),
                  last_irreversible_height)
    PROVE  LET u == Replay(v, out)
               w == Replay(v, ret'.out)
           IN  /\ w.chain = u.chain
               /\ w.final >= u.final
               /\ InStep(w, canonical', last_irreversible_height')
               /\ Len(canonical') <= Len(base) + 1
<1> DEFINE e == [id |-> b, fork_id |-> next_fork_id]
           c == Append(base, e)
           w == Replay(v, ret'.out)
<1>1. e \in Entry /\ e.id = b
  BY DEF TypeOK, Entry
<1> HIDE DEF e
<1>2. c \in Seq(Entry) /\ Linked(c) /\ Contiguous(c) /\ Len(c) = Len(base) + 1
  BY <1>1, AppendBranch
<1>3. c # <<>>
  <2> HIDE DEF c
  <2>1. Len(base) \in Nat
    OBVIOUS
  <2> QED
    BY <1>2, <2>1
<1>4. canonical' = Pruned(c) /\ Settle(c, fh, solidified_head, out)
  BY DEF Push, e
<1>5. InStep(Replay(v, out), c, last_irreversible_height)
  BY DEF e
<1>6. last_irreversible_height \in OptHeight /\ solidified_head \in OptHeight
  BY DEF TypeOK
<1> HIDE DEF c
<1>7. /\ w.chain = Replay(v, out).chain
      /\ w.final >= Replay(v, out).final
      /\ InStep(w, c, last_irreversible_height')
  BY <1>2, <1>4, <1>5, <1>6, SettleInStep
<1>8. last_irreversible_height' \in OptHeight
  <2>1. last_irreversible_height' = LastFired(c, solidified_head, last_irreversible_height)
    BY <1>4 DEF Settle
  <2> QED
    BY <2>1, <1>2, <1>6, LastFiredSpec
<1>9. InStep(w, Pruned(c), last_irreversible_height')
  BY <1>2, <1>3, <1>7, <1>8, PruneKeepsInStep
<1>10. Len(canonical') <= Len(base) + 1
  <2>1. PruneLen(c) \in 0 .. Len(c) /\ Len(Pruned(c)) = Len(c) - PruneLen(c)
    BY <1>2, PrunedSpec
  <2>2. Len(base) \in Nat
    OBVIOUS
  <2> QED
    BY <1>2, <1>4, <2>1, <2>2
<1> QED
  BY <1>4, <1>7, <1>9, <1>10

\* The outputs of a reorg, before settling: the consumer retracts to the ancestor
\* and takes the new block.
LEMMA ReorgInStep ==
    ASSUME IInv, NEW b \in Block, ReorgCandidate(b), ~ CrossesFinality(b),
           NEW v, InStep(v, canonical, last_irreversible_height)
    PROVE  LET a    == AncestorIdx(b)
               o    == Orphans(a)
               base == SubSeq(canonical, 1, a)
               e    == [id |-> b, fork_id |-> next_fork_id]
               u    == Replay(v, UndoOutputs(o) \o <<NewOutput(b), ForkObserved(Switch(b, o))>>)
               n    == Len(v.chain) - (Len(canonical) - a)
           IN  /\ n \in 1 .. Len(v.chain) /\ n >= v.final
               /\ u = [chain |-> Append(SubSeq(v.chain, 1, n), e), final |-> v.final, ok |-> TRUE]
               /\ InStep(u, Append(base, e), last_irreversible_height)
               /\ Parent[b] = v.chain[n].id
<1> DEFINE a == AncestorIdx(b)
           o == Orphans(a)
           base == SubSeq(canonical, 1, a)
           e == [id |-> b, fork_id |-> next_fork_id]
           last == last_irreversible_height
           undos == UndoOutputs(o)
           new == NewOutput(b)
           seen == ForkObserved(Switch(b, o))
           n == Len(v.chain) - (Len(canonical) - a)
           x == Replay(v, undos)
           y == Apply(x, new)
<1>1. a \in 1 .. Len(canonical) - 1 /\ canonical[a].id = Parent[b]
  BY AncestorSpec
<1>2. /\ canonical \in Seq(Entry) /\ Len(canonical) \in Nat
      /\ last \in OptHeight /\ next_fork_id \in 0 .. ForkIdModulus - 1
  BY BufferFacts DEF IInv, TypeOK
<1>3. \A i \in a + 1 .. Len(canonical) : Ht(canonical[i]) > last
  BY OrphansAboveFinality
<1> HIDE DEF a
<1>4. /\ o \in Seq(Entry) /\ Len(o) = Len(canonical) - a
      /\ \A k \in 1 .. Len(o) : o[k] = canonical[Len(canonical) + 1 - k]
  <2>1. o \in Seq(Entry) /\ Len(o) = Len(canonical) - a
    BY <1>1, OrphansSpec
  <2> QED
    BY <2>1 DEF Orphans
<1>5. /\ undos \in Seq(Output) /\ Len(undos) = Len(o)
      /\ \A k \in 1 .. Len(o) : undos[k].step = "Undo" /\ undos[k].block = o[k]
      /\ <<new, seen>> \in Seq(Output) /\ Switch(b, o) \in Observation
  BY <1>1, ReorgOutputsType
<1>6. /\ new.step = "New" /\ new.block = e /\ new \in Output
      /\ seen.step = "ForkObserved" /\ seen \in Output
  BY <1>5, NewOutputType DEF NewOutput, Streamable, ForkObserved, Output, IInv
<1>7. e \in Entry /\ e.id = b
  BY <1>2 DEF Entry
<1> HIDE DEF o, e, undos, new, seen
<1>8. /\ n \in 1 .. Len(v.chain) /\ n >= v.final
      /\ x = [chain |-> SubSeq(v.chain, 1, n), final |-> v.final, ok |-> TRUE]
      /\ InStep(x, base, last)
  <2>1. a \in 1 .. Len(canonical)
    BY <1>1, <1>2
  <2>2. \A k \in 1 .. Len(undos) :
           undos[k].step = "Undo" /\ undos[k].block = canonical[Len(canonical) + 1 - k]
    BY <1>4, <1>5
  <2> QED
    BY <1>2, <1>3, <1>4, <1>5, <2>1, <2>2, ReplayUndo
<1>9. base \in Seq(Entry) /\ Len(base) = a /\ base[Len(base)] = canonical[a]
  <2>1. 1 \in 1 .. Len(canonical) + 1 /\ a \in 0 .. Len(canonical) /\ 1 <= a + 1
    BY <1>1, <1>2
  <2>2. /\ base \in Seq(Entry) /\ Len(base) = a - 1 + 1
        /\ \A i \in 1 .. Len(base) : base[i] = canonical[1 + i - 1]
    BY <2>1, BufferFacts, SubBranch
  <2>3. Len(base) = a
    BY <1>1, <2>2
  <2>4. a \in 1 .. Len(base) /\ 1 + a - 1 = a
    BY <1>1, <2>3
  <2> QED
    BY <2>2, <2>3, <2>4
<1> HIDE DEF base
<1>10. /\ y = [chain |-> Append(x.chain, e), final |-> x.final, ok |-> TRUE]
       /\ InStep(y, Append(base, e), last)
       /\ x.chain # <<>> => Parent[b] = x.chain[Len(x.chain)].id
  <2>1. base # <<>> => Parent[e.id] = base[Len(base)].id
    BY <1>1, <1>7, <1>9
  <2>2. InStep(x, base, last) /\ base \in Seq(Entry) /\ last \in OptHeight
    BY <1>2, <1>8, <1>9
  <2>3. new.step = "New" /\ new.block = e
    BY <1>6
  <2> HIDE DEF x, last
  <2> QED
    BY <1>7, <2>1, <2>2, <2>3, ApplyNew
<1>11. Replay(v, undos \o <<new, seen>>) = y
  <2>1. Replay(v, undos \o <<new, seen>>) = Replay(x, <<new, seen>>)
    BY <1>5, ReplayOutputs, Zenon
  <2>2. <<new, seen>> = <<new>> \o <<seen>> /\ <<new>> \in Seq(Output) /\ <<seen>> \in Seq(Output)
    BY <1>6, PairIsConcat
  <2>3. Replay(x, <<new>> \o <<seen>>) = Replay(Replay(x, <<new>>), <<seen>>)
    BY <2>2, ReplayOutputs, Zenon
  <2>4. Replay(x, <<new>>) = y
    BY ReplayShort
  <2>5. Replay(y, <<seen>>) = y
    <3>1. Len(<<seen>>) = 1 /\ <<seen>>[1] = seen
      OBVIOUS
    <3>2. \A k \in 1 .. Len(<<seen>>) : <<seen>>[k].step \in {"ForkObserved", "ForkResolved"}
      BY <1>6, <3>1
    <3> QED
      BY <2>2, <3>2, ReplayLedger
  <2> QED
    BY <2>1, <2>2, <2>3, <2>4, <2>5
<1>12. v.chain \in Seq(Entry) /\ Len(v.chain) \in Nat
  BY <1>2, InStepFacts
<1>13. Parent[b] = v.chain[n].id
  <2>1. x.chain = SubSeq(v.chain, 1, n)
    BY <1>8
  <2>2. n \in Nat /\ n >= 1 /\ n <= Len(v.chain)
    BY <1>8, <1>12
  <2> HIDE DEF n
  <2>3. Len(SubSeq(v.chain, 1, n)) = n /\ SubSeq(v.chain, 1, n)[n] = v.chain[n]
    <3>1. \A i \in 1 .. n : v.chain[i] \in Entry
      BY <1>12, <2>2
    <3>2. /\ Len(SubSeq(v.chain, 1, n)) = IF 1 <= n THEN n - 1 + 1 ELSE 0
          /\ \A i \in 1 .. n - 1 + 1 : SubSeq(v.chain, 1, n)[i] = v.chain[1 + i - 1]
      BY <2>2, <3>1, SubSeqProperties
    <3> QED
      BY <2>2, <3>2
  <2>4. x.chain # <<>>
    BY <2>1, <2>2, <2>3
  <2> QED
    BY <1>10, <2>1, <2>3, <2>4
<1>14. x.chain = SubSeq(v.chain, 1, n) /\ x.final = v.final
  BY <1>8
<1> QED
  BY <1>8, <1>10, <1>11, <1>13, <1>14 DEF a, o, base, e, undos, new, seen

\* The consumer after an accepting call moved as the stream promises.
LEMMA GrowMoves ==
    ASSUME NEW v, v.chain \in Seq(Entry), v.final \in Nat, NEW e \in Entry,
           NEW n \in 0 .. Len(v.chain), n >= v.final, n = 0 => v.chain = <<>>,
           n > 0 => Parent[e.id] = v.chain[n].id,
           NEW w, w.chain = Append(SubSeq(v.chain, 1, n), e), w.final >= v.final,
           w.final <= Len(w.chain)
    PROVE  Moves(v, w)
<1> DEFINE d == SubSeq(v.chain, 1, n)
<1>1. n \in Nat /\ Len(v.chain) \in Nat /\ \A i \in 1 .. n : v.chain[i] \in Entry
  OBVIOUS
<1>2. d \in Seq(Entry) /\ Len(d) = n
  <2>1. d \in Seq(Entry) /\ Len(d) = IF 1 <= n THEN n - 1 + 1 ELSE 0
    BY <1>1, SubSeqProperties
  <2> QED
    BY <1>1, <2>1
<1> HIDE DEF d
<1>3. /\ Append(d, e) \in Seq(Entry) /\ Len(Append(d, e)) = n + 1
      /\ Append(d, e)[n + 1] = e /\ \A i \in 1 .. n : Append(d, e)[i] = d[i]
  BY <1>2, AppendProperties
<1>4. SubSeq(Append(d, e), 1, n) = d
  <2> DEFINE q == Append(d, e)
  <2> HIDE DEF q
  <2>1. \A i \in 1 .. n : q[i] \in Entry
    BY <1>2, <1>3 DEF q
  <2>2. /\ SubSeq(q, 1, n) \in Seq(Entry)
        /\ Len(SubSeq(q, 1, n)) = IF 1 <= n THEN n - 1 + 1 ELSE 0
        /\ \A i \in 1 .. n - 1 + 1 : SubSeq(q, 1, n)[i] = q[1 + i - 1]
    BY <1>1, <2>1, SubSeqProperties
  <2>3. Len(SubSeq(q, 1, n)) = n
    BY <1>1, <2>2
  <2>4. \A i \in 1 .. n : i \in 1 .. n - 1 + 1 /\ 1 + i - 1 = i
    BY <1>1
  <2>5. \A i \in 1 .. n : SubSeq(q, 1, n)[i] = d[i]
    BY <1>3, <2>2, <2>4 DEF q
  <2>6. SubSeq(q, 1, n) = d
    BY <1>2, <2>2, <2>3, <2>5, SeqEqual
  <2> QED
    BY <2>6 DEF q
<1>5. Keeps(v, w, n)
  BY <1>3, <1>4 DEF Keeps, d
<1> QED
  BY <1>5 DEF Moves

\* A call of accept or set_solidified_head, as the caller sees it, takes a consumer
\* in step with the engine before the call to one in step with it after.
LEMMA CallKeepsInStep ==
    ASSUME IInv,
           \/ \E b \in Block : Accept(b)
           \/ \E h \in SolidHead : SetSolidifiedHead(h),
           NEW v, InStep(v, canonical, last_irreversible_height)
    PROVE  /\ InStep(Replay(v, ret'.out), canonical', last_irreversible_height')
           /\ Moves(v, Replay(v, ret'.out))
           /\ FrontRises(v, canonical, Replay(v, ret'.out), canonical')
<1> DEFINE last == last_irreversible_height
           w == Replay(v, ret'.out)
           Goal == /\ InStep(w, canonical', last_irreversible_height')
                   /\ Moves(v, w)
                   /\ FrontRises(v, canonical, w, canonical')
<1>1. /\ TypeOK /\ last <= solidified_head /\ last \in OptHeight
      /\ solidified_head \in OptHeight /\ fork_history \in Seq(Observation)
      /\ next_fork_id \in 0 .. ForkIdModulus - 1
  BY DEF IInv, FinalityComplete, TypeOK
<1>2. /\ canonical \in Seq(Entry) /\ Len(canonical) \in Nat
      /\ Linked(canonical) /\ Contiguous(canonical)
  BY BufferFacts
<1>3. /\ v.chain \in Seq(Entry) /\ v.final \in Nat /\ Len(v.chain) \in Nat
      /\ v.final <= Len(v.chain)
  BY <1>1, <1>2, InStepFacts DEF InStep
<1>4. ASSUME UNCHANGED <<canonical, last_irreversible_height>>, ret'.out = <<>>
      PROVE  Goal
  <2>1. w = v
    BY <1>4, ReplayShort
  <2> QED
    BY <1>2, <1>3, <1>4, <2>1 DEF Moves, FrontRises
<1>5. ASSUME NEW b \in Block, PushCanonicalFirst(b) \/ ExtendCanonical(b) PROVE Goal
  <2> DEFINE e == [id |-> b, fork_id |-> next_fork_id]
             u == Replay(v, <<NewOutput(b)>>)
             L == Len(v.chain)
  <2>1. /\ Push(canonical, canonical_ids, b, fork_history, <<NewOutput(b)>>)
        /\ canonical # <<>> => Parent[b] = canonical[Len(canonical)].id
    BY <1>5 DEF PushCanonicalFirst, ExtendCanonical, Tip
  <2>2. /\ <<NewOutput(b)>> \in Seq(Output)
        /\ NewOutput(b).step = "New" /\ NewOutput(b).block = e
    BY <1>1, NewOutputType DEF NewOutput, Streamable
  <2>3. e \in Entry /\ e.id = b
    BY <1>1 DEF Entry
  <2> HIDE DEF e
  <2>4. /\ u = [chain |-> Append(v.chain, e), final |-> v.final, ok |-> TRUE]
        /\ InStep(u, Append(canonical, e), last)
        /\ v.chain # <<>> => Parent[b] = v.chain[L].id
    <3>1. u = Apply(v, NewOutput(b))
      BY ReplayShort
    <3> HIDE DEF u
    <3> QED
      BY <1>1, <1>2, <2>1, <2>2, <2>3, <3>1, ApplyNew
  <2>5. w.chain = u.chain /\ w.final >= u.final
        /\ InStep(w, canonical', last_irreversible_height')
        /\ Len(canonical') <= Len(canonical) + 1
    <3>1. InStep(Replay(v, <<NewOutput(b)>>), Append(canonical, [id |-> b, fork_id |-> next_fork_id]),
                 last_irreversible_height)
      BY <2>4 DEF e
    <3> QED
      BY <1>1, <1>2, <2>1, <2>2, <3>1, PushInStep
  <2>6. w.chain = Append(SubSeq(v.chain, 1, L), e) /\ w.final >= v.final
        /\ w.final <= Len(w.chain)
    <3>1. SubSeq(v.chain, 1, L) = v.chain
      BY <1>3, SubSeqFull
    <3> QED
      BY <2>4, <2>5, <3>1 DEF InStep
  <2>7. /\ L \in 0 .. L /\ L >= v.final /\ (L = 0 => v.chain = <<>>)
        /\ L > 0 => Parent[e.id] = v.chain[L].id
    BY <1>3, <2>3, <2>4, EmptySeq
  <2> HIDE DEF w
  <2>8. Moves(v, w)
    BY <1>3, <2>3, <2>6, <2>7, GrowMoves
  <2>9. FrontRises(v, canonical, w, canonical')
    <3>1. Len(w.chain) = L + 1
      BY <1>3, <2>3, <2>4, <2>5
    <3>2. Len(canonical') \in Nat
      BY <2>5, <3>1 DEF InStep, EndsWith
    <3> QED
      BY <1>2, <1>3, <2>5, <3>1, <3>2 DEF FrontRises
  <2> QED
    BY <2>5, <2>8, <2>9
<1>6. ASSUME NEW b \in Block, HandleReorg(b) PROVE Goal
  <2> DEFINE a == AncestorIdx(b)
             o == Orphans(a)
             base == SubSeq(canonical, 1, a)
             ids == canonical_ids \ {o[k].id : k \in DOMAIN o}
             fh == Append(fork_history, Switch(b, o))
             out == UndoOutputs(o) \o <<NewOutput(b), ForkObserved(Switch(b, o))>>
             e == [id |-> b, fork_id |-> next_fork_id]
             u == Replay(v, out)
             n == Len(v.chain) - (Len(canonical) - a)
  <2>1. ReorgCandidate(b) /\ ~ CrossesFinality(b) /\ Push(base, ids, b, fh, out)
    BY <1>6 DEF HandleReorg
  <2>2. a \in 1 .. Len(canonical) - 1 /\ canonical[a].id = Parent[b]
    BY <2>1, AncestorSpec
  <2>3. e \in Entry /\ e.id = b
    BY <1>1 DEF Entry
  <2>4. /\ n \in 1 .. Len(v.chain) /\ n >= v.final
        /\ u = [chain |-> Append(SubSeq(v.chain, 1, n), e), final |-> v.final, ok |-> TRUE]
        /\ InStep(u, Append(base, e), last)
        /\ Parent[b] = v.chain[n].id
    BY <2>1, ReorgInStep
  <2> HIDE DEF a
  <2>5. out \in Seq(Output) /\ Switch(b, o) \in Observation
    BY <2>2, ReorgOutputsType
  <2>6. fh \in Seq(Observation)
    BY <2>5, <1>1
  <2>7. 1 \in 1 .. Len(canonical) + 1 /\ a \in 0 .. Len(canonical) /\ 1 <= a + 1
    BY <2>2, <1>2
  <2>8. /\ base \in Seq(Entry) /\ Len(base) = a - 1 + 1
        /\ \A i \in 1 .. Len(base) : base[i] = canonical[1 + i - 1]
        /\ Linked(base) /\ Contiguous(base)
    BY <2>7, <1>2, SubBranch
  <2>9. base[Len(base)] = canonical[a]
    <3>1. Len(base) = a
      BY <2>2, <2>8
    <3>2. a \in 1 .. Len(base) /\ 1 + a - 1 = a
      BY <2>2, <3>1
    <3> QED
      BY <3>1, <3>2, <2>8
  <2> HIDE DEF base, ids, fh, out, o
  <2>10. base # <<>> => Parent[b] = base[Len(base)].id
    BY <2>2, <2>9
  <2>11. w.chain = u.chain /\ w.final >= u.final
         /\ InStep(w, canonical', last_irreversible_height')
         /\ Len(canonical') <= Len(base) + 1
    BY <1>1, <2>1, <2>4, <2>5, <2>6, <2>8, <2>10, PushInStep
  <2>12. u.chain = Append(SubSeq(v.chain, 1, n), e) /\ u.final = v.final
    BY <2>4
  <2>13. w.final <= Len(w.chain)
    BY <2>11 DEF InStep
  <2>14. n \in 0 .. Len(v.chain) /\ n # 0 /\ Parent[e.id] = v.chain[n].id /\ n >= v.final
    BY <1>3, <2>3, <2>4
  <2> HIDE DEF w, u, e, n
  <2>15. Moves(v, w)
    BY <1>3, <2>3, <2>11, <2>12, <2>13, <2>14, GrowMoves
  <2>16. FrontRises(v, canonical, w, canonical')
    <3>1. Len(w.chain) = n + 1
      <4>1. n \in Nat /\ 1 <= n /\ \A i \in 1 .. n : v.chain[i] \in Entry
        BY <1>3, <2>14
      <4>2. /\ SubSeq(v.chain, 1, n) \in Seq(Entry)
            /\ Len(SubSeq(v.chain, 1, n)) = IF 1 <= n THEN n - 1 + 1 ELSE 0
        BY <4>1, SubSeqProperties
      <4>3. SubSeq(v.chain, 1, n) \in Seq(Entry) /\ Len(SubSeq(v.chain, 1, n)) = n
        BY <4>1, <4>2
      <4> QED
        BY <2>3, <2>11, <2>12, <4>3, AppendProperties
    <3>2. Len(base) = a /\ a \in Nat
      BY <2>2, <2>8
    <3>3. Len(canonical') \in Nat
      BY <2>11 DEF InStep, EndsWith
    <3>4. n = Len(v.chain) - (Len(canonical) - a)
      BY DEF n
    <3>5. n \in Nat
      BY <1>3, <2>14
    <3> QED
      BY <1>2, <1>3, <2>11, <3>1, <3>2, <3>3, <3>4, <3>5 DEF FrontRises
  <2> QED
    BY <2>11, <2>15, <2>16
<1>7. ASSUME NEW h \in SolidHead, AdvanceHead(h) PROVE Goal
  <2>1. /\ Settle(canonical, fork_history, h, <<>>) /\ canonical' = canonical
        /\ h \in OptHeight /\ <<>> \in Seq(Output)
    BY <1>7, EngineAssumption DEF AdvanceHead, OptHeight
  <2>2. Replay(v, <<>>) = v
    BY ReplayShort
  <2>3. w.chain = v.chain /\ w.final >= v.final
        /\ InStep(w, canonical, last_irreversible_height')
    <3> DEFINE u == Replay(v, <<>>)
    <3>1. InStep(u, canonical, last_irreversible_height)
      BY <2>2
    <3> HIDE DEF u
    <3>2. w.chain = u.chain /\ w.final >= u.final
          /\ InStep(w, canonical, last_irreversible_height')
      BY <1>1, <1>2, <2>1, <3>1, SettleInStep DEF u
    <3> QED
      BY <2>2, <3>2 DEF u
  <2>4. w.final <= Len(w.chain)
    BY <2>3 DEF InStep
  <2> HIDE DEF w
  <2>5. Moves(v, w)
    BY <2>3, <2>4 DEF Moves
  <2>6. FrontRises(v, canonical, w, canonical')
    BY <1>2, <1>3, <2>1, <2>3 DEF FrontRises
  <2> QED
    BY <2>1, <2>3, <2>5, <2>6
<1>8. ASSUME NEW b \in Block, RejectDuplicate(b) \/ RefuseReorg(b) \/ RejectUnknownParent(b)
      PROVE  Goal
  <2>1. UNCHANGED <<canonical, last_irreversible_height>> /\ ret'.out = <<>>
    BY <1>8 DEF RejectDuplicate, RefuseReorg, RejectUnknownParent, Err
  <2> QED
    BY <1>4, <2>1
<1>9. ASSUME NEW h \in SolidHead, IgnoreHead(h) PROVE Goal
  <2>1. UNCHANGED <<canonical, last_irreversible_height>> /\ ret'.out = <<>>
    BY <1>9 DEF IgnoreHead, Ok
  <2> QED
    BY <1>4, <2>1
<1> HIDE DEF Goal
<1>10. Goal
  BY <1>5, <1>6, <1>7, <1>8, <1>9 DEF Accept, SetSolidifiedHead
<1> QED
  BY <1>10 DEF Goal

-----------------------------------------------------------------------------
(* Any consumer *)

\* An output leaves the consumer well typed, and cannot mend its `ok`.
LEMMA ApplyView ==
    ASSUME NEW v \in View, NEW o \in Output
    PROVE  /\ Apply(v, o) \in View
           /\ Apply(v, o).ok => v.ok
           /\ o.step \notin {"New", "Undo"} => Apply(v, o).chain = v.chain
<1> DEFINE c == v.chain
           w == Apply(v, o)
<1>1. /\ c \in Seq(Entry) /\ v.final \in Nat /\ v.ok \in BOOLEAN
      /\ v = [chain |-> c, final |-> v.final, ok |-> v.ok]
  BY DEF View
<1>2. ASSUME o.step \in {"New", "Undo", "Irreversible"} PROVE o.block \in Entry
  BY <1>2 DEF Output
<1>3. ASSUME NEW d \in Seq(Entry), NEW f \in Nat, NEW u \in BOOLEAN, NEW x,
             x = [chain |-> d, final |-> f, ok |-> u]
      PROVE  x \in View /\ x.chain = d /\ x.ok = u
  BY <1>3 DEF View
<1>4. CASE o.step = "New"
  <2> DEFINE u == v.ok /\ (c # <<>> => Parent[o.block.id] = Last(c).id)
  <2>1. w = [v EXCEPT !.chain = Append(c, o.block), !.ok = u]
    BY <1>4 DEF Apply
  <2>2. u \in BOOLEAN /\ (u => v.ok)
    OBVIOUS
  <2>3. Append(c, o.block) \in Seq(Entry)
    BY <1>1, <1>2, <1>4
  <2> HIDE DEF u, w
  <2>4. w = [chain |-> Append(c, o.block), final |-> v.final, ok |-> u]
    BY <1>1, <2>1, ViewUpdate
  <2> DEFINE d == Append(c, o.block)
  <2> HIDE DEF d, c
  <2>5. d \in Seq(Entry) /\ v.final \in Nat /\ u \in BOOLEAN
        /\ w = [chain |-> d, final |-> v.final, ok |-> u]
    BY <1>1, <2>2, <2>3, <2>4 DEF d
  <2>6. w \in View /\ w.ok = u
    BY <1>3, <2>5
  <2> QED
    BY <1>4, <2>2, <2>6 DEF w
<1>5. CASE o.step = "Undo" /\ c # <<>> /\ Last(c) = o.block
  <2> DEFINE u == v.ok /\ Len(c) > v.final
  <2>1. w = [v EXCEPT !.chain = Front(c), !.ok = u]
    BY <1>5 DEF Apply
  <2>2. u \in BOOLEAN /\ (u => v.ok)
    OBVIOUS
  <2>3. Front(c) \in Seq(Entry)
    <3>1. Len(c) \in Nat /\ Len(c) - 1 \in Int /\ \A i \in 1 .. Len(c) - 1 : c[i] \in Entry
      BY <1>1
    <3> QED
      BY <3>1, SubSeqProperties DEF Front
  <2> HIDE DEF u, w
  <2>4. w = [chain |-> Front(c), final |-> v.final, ok |-> u]
    BY <1>1, <2>1, ViewUpdate
  <2>5. w \in View /\ w.ok = u
    BY <1>1, <1>3, <2>2, <2>3, <2>4
  <2> QED
    BY <1>5, <2>2, <2>5 DEF w
<1>6. CASE o.step = "Undo" /\ ~ (c # <<>> /\ Last(c) = o.block)
  <2>1. w = [v EXCEPT !.ok = FALSE]
    BY <1>6 DEF Apply
  <2>2. w \in View /\ w.ok = FALSE
    BY <1>1, <2>1 DEF View
  <2> QED
    BY <1>6, <2>2
<1>7. CASE o.step = "Irreversible"
  <2> DEFINE u == v.ok /\ IndexIn(c, o.block) > v.final
             f == IndexIn(c, o.block)
  <2>1. w = [v EXCEPT !.final = f, !.ok = u]
    BY <1>7 DEF Apply
  <2>2. u \in BOOLEAN /\ (u => v.ok)
    OBVIOUS
  <2>3. f \in Nat
    <3>1. DOMAIN c \subseteq Nat
      BY <1>1, LenProperties
    <3> QED
      BY <3>1 DEF IndexIn
  <2> HIDE DEF u, f, w
  <2>4. w = [chain |-> c, final |-> f, ok |-> u]
    BY <1>1, <2>1, ViewUpdate
  <2>5. w \in View /\ w.ok = u /\ w.chain = c
    BY <1>1, <1>3, <2>2, <2>3, <2>4
  <2> QED
    BY <1>7, <2>2, <2>5 DEF w
<1>8. CASE o.step \notin {"New", "Undo", "Irreversible"}
  <2>1. w = v
    BY <1>8 DEF Apply
  <2> QED
    BY <2>1
<1> QED
  BY <1>4, <1>5, <1>6, <1>7, <1>8

\* So does a run of outputs; without New and Undo it leaves the chain alone.
LEMMA ReplayView ==
    ASSUME NEW v \in View, NEW outs \in Seq(Output)
    PROVE  /\ Replay(v, outs) \in View
           /\ Replay(v, outs).ok => v.ok
           /\ (\A k \in 1 .. Len(outs) : outs[k].step \notin {"New", "Undo"})
                 => Replay(v, outs).chain = v.chain
<1> DEFINE Quiet == \A k \in 1 .. Len(outs) : outs[k].step \notin {"New", "Undo"}
           n == Len(outs)
<1>1. n \in Nat /\ \A k \in 1 .. n : outs[k] \in Output
  OBVIOUS
<1>2. PICK g : Steps(g, v, outs) /\ Replay(v, outs) = g[n]
  BY <1>1, ReplaySteps
<1> DEFINE Good(x) == x \in View /\ (x.ok => v.ok) /\ (Quiet => x.chain = v.chain)
           S == {m \in Nat : m <= n => Good(g[m])}
<1> HIDE DEF n, Quiet, Good
<1>3. 0 \in S
  <2>1. Good(v)
    BY DEF Good
  <2> QED
    BY <1>2, <2>1 DEF Steps
<1>4. ASSUME NEW m \in Nat, m \in S PROVE m + 1 \in S
  <2>1. SUFFICES ASSUME m + 1 <= n PROVE Good(g[m + 1])
    OBVIOUS
  <2>2. m + 1 \in 1 .. n /\ (m + 1) - 1 = m /\ m <= n
    BY <1>1, <2>1
  <2>3. Good(g[m])
    BY <1>4, <2>2
  <2>4. g[m + 1] = Apply(g[m], outs[m + 1])
    BY <1>2, <2>2 DEF Steps, n
  <2>5. outs[m + 1] \in Output /\ (Quiet => outs[m + 1].step \notin {"New", "Undo"})
    BY <1>1, <2>2 DEF n, Quiet
  <2>6. g[m] \in View
    BY <2>3 DEF Good
  <2>7. /\ Apply(g[m], outs[m + 1]) \in View
        /\ Apply(g[m], outs[m + 1]).ok => g[m].ok
        /\ outs[m + 1].step \notin {"New", "Undo"}
              => Apply(g[m], outs[m + 1]).chain = g[m].chain
    BY <2>5, <2>6, ApplyView
  <2> QED
    BY <2>3, <2>4, <2>5, <2>7 DEF Good
<1> HIDE DEF S
<1>5. Nat \subseteq S
  BY <1>3, <1>4, SetInduction
<1>6. n \in S /\ n <= n
  BY <1>1, <1>5
<1>7. Good(g[n])
  BY <1>6 DEF S
<1> QED
  BY <1>2, <1>7 DEF Good, Quiet, n

\* What an output that made sense did to the chain.
LEMMA ApplyMeans ==
    ASSUME NEW v \in View, NEW o \in Output, Apply(v, o).ok
    PROVE  /\ o.step = "New" =>
                 /\ o.block \in Entry
                 /\ Apply(v, o).chain = Append(v.chain, o.block)
                 /\ v.chain # <<>> => Parent[o.block.id] = v.chain[Len(v.chain)].id
           /\ o.step = "Undo" =>
                 /\ v.chain # <<>> /\ v.chain[Len(v.chain)] = o.block
                 /\ Apply(v, o).chain = SubSeq(v.chain, 1, Len(v.chain) - 1)
<1> DEFINE c == v.chain
           w == Apply(v, o)
<1>1. /\ c \in Seq(Entry) /\ v.final \in Nat /\ v.ok \in BOOLEAN
      /\ v = [chain |-> c, final |-> v.final, ok |-> v.ok]
  BY DEF View
<1>2. ASSUME o.step = "New"
      PROVE  /\ o.block \in Entry
             /\ w.chain = Append(c, o.block)
             /\ c # <<>> => Parent[o.block.id] = c[Len(c)].id
  <2> DEFINE u == v.ok /\ (c # <<>> => Parent[o.block.id] = Last(c).id)
             d == Append(c, o.block)
  <2>1. w = [v EXCEPT !.chain = d, !.ok = u]
    BY <1>2 DEF Apply
  <2>2. o.block \in Entry
    BY <1>2 DEF Output
  <2> HIDE DEF u, w, d
  <2>3. w = [chain |-> d, final |-> v.final, ok |-> u]
    BY <1>1, <2>1, ViewUpdate
  <2>4. w.chain = d /\ w.ok = u
    BY <2>3
  <2>5. u
    BY <2>4 DEF w
  <2> QED
    BY <2>2, <2>4, <2>5 DEF u, d, Last
<1>3. ASSUME o.step = "Undo"
      PROVE  /\ c # <<>> /\ c[Len(c)] = o.block
             /\ w.chain = SubSeq(c, 1, Len(c) - 1)
  <2>1. CASE c # <<>> /\ Last(c) = o.block
    <3> DEFINE u == v.ok /\ Len(c) > v.final
               d == Front(c)
    <3>1. w = [v EXCEPT !.chain = d, !.ok = u]
      BY <1>3, <2>1 DEF Apply
    <3> HIDE DEF u, w, d
    <3>2. w = [chain |-> d, final |-> v.final, ok |-> u]
      BY <1>1, <3>1, ViewUpdate
    <3>3. w.chain = d
      BY <3>2
    <3> QED
      BY <2>1, <3>3 DEF d, Front, Last
  <2>2. CASE ~ (c # <<>> /\ Last(c) = o.block)
    <3>1. w = [v EXCEPT !.ok = FALSE]
      BY <1>3, <2>2 DEF Apply
    <3>2. w.ok = FALSE
      BY <1>1, <3>1
    <3> QED
      BY <3>2
  <2> QED
    BY <2>1, <2>2
<1> QED
  BY <1>2, <1>3

-----------------------------------------------------------------------------
(* The final part of the chain *)

\* The entry is in the final part of the consumer's chain.
IsFinal(w, e) == \E i \in 1 .. w.final : w.chain[i] = e

\* w has the final part of v, and maybe more.
Extends(v, w) ==
    /\ v.final <= w.final /\ w.final <= Len(w.chain)
    /\ \A i \in 1 .. v.final : w.chain[i] = v.chain[i]

\* An output that made sense leaves the final part alone; an Irreversible adds its
\* block to it.
LEMMA ApplyFinal ==
    ASSUME NEW v \in View, v.final <= Len(v.chain), NEW o \in Output, Apply(v, o).ok
    PROVE  /\ Extends(v, Apply(v, o))
           /\ o.step = "Irreversible" => IsFinal(Apply(v, o), o.block)
<1> DEFINE c == v.chain
           w == Apply(v, o)
           L == Len(c)
<1>1. /\ c \in Seq(Entry) /\ v.final \in Nat /\ v.ok \in BOOLEAN
      /\ v = [chain |-> c, final |-> v.final, ok |-> v.ok] /\ L \in Nat
  <2>1. v.chain \in Seq(Entry)
    BY DEF View
  <2> QED
    BY <2>1 DEF View
<1>2. ASSUME o.step = "New" PROVE Extends(v, w)
  <2> DEFINE u == v.ok /\ (c # <<>> => Parent[o.block.id] = Last(c).id)
             d == Append(c, o.block)
  <2>1. w = [v EXCEPT !.chain = d, !.ok = u]
    BY <1>2 DEF Apply
  <2>2. o.block \in Entry
    BY <1>2 DEF Output
  <2>3. Len(d) = L + 1 /\ \A i \in 1 .. L : d[i] = c[i]
    BY <1>1, <2>2, AppendProperties
  <2> HIDE DEF u, w, d
  <2>4. w = [chain |-> d, final |-> v.final, ok |-> u]
    BY <1>1, <2>1, ViewUpdate
  <2>5. w.chain = d /\ w.final = v.final
    BY <2>4
  <2>6. v.final <= L + 1 /\ \A i \in 1 .. v.final : i \in 1 .. L
    BY <1>1
  <2> QED
    BY <1>1, <2>3, <2>5, <2>6 DEF Extends
<1>3. ASSUME o.step = "Undo" PROVE Extends(v, w)
  <2>1. c # <<>> /\ c[L] = o.block
    BY <1>3, ApplyMeans
  <2> DEFINE u == v.ok /\ L > v.final
             d == Front(c)
  <2>2. w = [v EXCEPT !.chain = d, !.ok = u]
    BY <1>3, <2>1 DEF Apply, Last
  <2>3. d = SubSeq(c, 1, L - 1)
    BY DEF Front
  <2>4. L \in Nat /\ L >= 1 /\ \A i \in 1 .. L - 1 : c[i] \in Entry
    BY <1>1, <2>1, EmptySeq
  <2>5. Len(d) = (IF 1 <= L - 1 THEN (L - 1) - 1 + 1 ELSE 0)
        /\ \A i \in 1 .. (L - 1) - 1 + 1 : d[i] = c[1 + i - 1]
    BY <2>3, <2>4, SubSeqProperties
  <2> HIDE DEF u, w, d, L
  <2>6. Len(d) = L - 1 /\ \A i \in 1 .. L - 1 : i \in 1 .. (L - 1) - 1 + 1 /\ 1 + i - 1 = i
    BY <2>4, <2>5
  <2>7. w = [chain |-> d, final |-> v.final, ok |-> u]
    BY <1>1, <2>2, ViewUpdate
  <2>8. w.chain = d /\ w.final = v.final /\ w.ok = u
    BY <2>7
  <2>9. L > v.final
    BY <2>8 DEF u, w
  <2>10. v.final <= L - 1 /\ \A i \in 1 .. v.final : i \in 1 .. L - 1
    BY <1>1, <2>4, <2>9
  <2> QED
    BY <1>1, <2>5, <2>6, <2>8, <2>10 DEF Extends
<1>4. ASSUME o.step = "Irreversible" PROVE Extends(v, w) /\ IsFinal(w, o.block)
  <2> DEFINE f == IndexIn(c, o.block)
             u == v.ok /\ f > v.final
  <2>1. w = [v EXCEPT !.final = f, !.ok = u]
    BY <1>4 DEF Apply
  <2>2. DOMAIN c = 1 .. L
    BY <1>1, LenProperties
  <2>3. f = 0 \/ (f \in 1 .. L /\ c[f] = o.block)
    BY <2>2 DEF IndexIn
  <2> HIDE DEF u, w, f
  <2>4. w = [chain |-> c, final |-> f, ok |-> u]
    BY <1>1, <2>1, ViewUpdate
  <2>5. w.chain = c /\ w.final = f /\ w.ok = u
    BY <2>4
  <2>6. f > v.final
    BY <2>5 DEF u, w
  <2>7. f \in 1 .. L /\ c[f] = o.block
    BY <1>1, <2>3, <2>6
  <2>8. v.final <= f /\ f <= L /\ f \in 1 .. f
    BY <1>1, <2>6, <2>7
  <2> QED
    BY <2>5, <2>7, <2>8 DEF Extends, IsFinal
<1>5. ASSUME o.step \notin {"New", "Undo", "Irreversible"} PROVE Extends(v, w)
  <2>1. w = v
    BY <1>5 DEF Apply
  <2> QED
    BY <1>1, <2>1 DEF Extends
<1> QED
  BY <1>2, <1>3, <1>4, <1>5

\* Extending a final part twice.
LEMMA ExtendsTrans ==
    ASSUME NEW v, NEW w, NEW x, v.final \in Nat, w.final \in Nat, x.final \in Nat,
           Extends(v, w), Extends(w, x)
    PROVE  Extends(v, x)
<1>1. v.final <= w.final /\ w.final <= x.final /\ x.final <= Len(x.chain)
  BY DEF Extends
<1>2. v.final <= x.final /\ \A i \in 1 .. v.final : i \in 1 .. w.final
  BY <1>1
<1> QED
  BY <1>1, <1>2 DEF Extends

\* What was final stays final.
LEMMA StaysFinal ==
    ASSUME NEW w, NEW x, w.final \in Nat, x.final \in Nat, Extends(w, x), NEW e, IsFinal(w, e)
    PROVE  IsFinal(x, e)
<1>1. PICK i \in 1 .. w.final : w.chain[i] = e
  BY DEF IsFinal
<1>2. i \in 1 .. x.final /\ x.chain[i] = e
  BY <1>1 DEF Extends
<1> QED
  BY <1>2 DEF IsFinal

\* A run of outputs that made sense leaves the final part alone and adds the blocks
\* of its Irreversibles.
LEMMA ReplayFinal ==
    ASSUME NEW v \in View, v.final <= Len(v.chain), NEW outs \in Seq(Output),
           Replay(v, outs).ok
    PROVE  /\ Extends(v, Replay(v, outs))
           /\ \A k \in 1 .. Len(outs) :
                 outs[k].step = "Irreversible" => IsFinal(Replay(v, outs), outs[k].block)
<1> DEFINE n == Len(outs)
<1>1. n \in Nat /\ \A k \in 1 .. n : outs[k] \in Output
  OBVIOUS
<1>2. PICK g : Steps(g, v, outs) /\ Replay(v, outs) = g[n]
  BY <1>1, ReplaySteps
<1> DEFINE Shown(m) == \A k \in 1 .. m :
                          outs[k].step = "Irreversible" => IsFinal(g[m], outs[k].block)
           Good(m) == g[m] \in View /\ (g[m].ok => Extends(v, g[m]) /\ Shown(m))
           S == {m \in Nat : m <= n => Good(m)}
<1> HIDE DEF n, Good, Shown
<1>3. 0 \in S
  <2>1. v.final \in Nat
    BY DEF View
  <2>2. Extends(v, v) /\ g[0] = v /\ \A k : k \notin 1 .. 0
    BY <1>2, <2>1 DEF Extends, Steps
  <2>3. Shown(0)
    BY <2>2 DEF Shown
  <2>4. Good(0)
    BY <2>2, <2>3 DEF Good
  <2> QED
    BY <2>4
<1>4. ASSUME NEW m \in Nat, m \in S PROVE m + 1 \in S
  <2>1. SUFFICES ASSUME m + 1 <= n PROVE Good(m + 1)
    OBVIOUS
  <2>2. m + 1 \in 1 .. n /\ (m + 1) - 1 = m /\ m <= n
    BY <1>1, <2>1
  <2>3. Good(m)
    BY <1>4, <2>2
  <2> DEFINE x == g[m]
             o == outs[m + 1]
             y == g[m + 1]
  <2>4. y = Apply(x, o)
    BY <1>2, <2>2 DEF Steps, n
  <2>5. o \in Output
    BY <1>1, <2>2
  <2>6. x \in View
    BY <2>3 DEF Good
  <2> HIDE DEF x, o, y
  <2>7. y \in View /\ (y.ok => x.ok)
    BY <2>4, <2>5, <2>6, ApplyView
  <2>8. ASSUME y.ok PROVE Extends(v, y) /\ Shown(m + 1)
    <3>1. Extends(v, x) /\ Shown(m)
      BY <2>3, <2>7, <2>8 DEF Good, x
    <3>2. x.final <= Len(x.chain)
      BY <3>1 DEF Extends
    <3>3. Extends(x, y) /\ (o.step = "Irreversible" => IsFinal(y, o.block))
      BY <2>4, <2>5, <2>6, <2>8, <3>2, ApplyFinal
    <3>4. v.final \in Nat /\ x.final \in Nat /\ y.final \in Nat
      BY <2>6, <2>7 DEF View
    <3>5. Extends(v, y)
      BY <3>1, <3>3, <3>4, ExtendsTrans
    <3>6. ASSUME NEW k \in 1 .. m + 1, outs[k].step = "Irreversible"
          PROVE  IsFinal(y, outs[k].block)
      <4>1. k \in 1 .. m \/ k = m + 1
        OBVIOUS
      <4>2. CASE k = m + 1
        BY <3>3, <3>6, <4>2 DEF o
      <4>3. CASE k \in 1 .. m
        <5>1. IsFinal(x, outs[k].block)
          BY <3>1, <3>6, <4>3 DEF Shown, x
        <5> QED
          BY <3>3, <3>4, <5>1, StaysFinal
      <4> QED
        BY <4>1, <4>2, <4>3
    <3> QED
      BY <3>5, <3>6 DEF Shown, y
  <2> QED
    BY <2>7, <2>8 DEF Good, y
<1> HIDE DEF S
<1>5. Nat \subseteq S
  BY <1>3, <1>4, SetInduction
<1>6. n \in S /\ n <= n
  BY <1>1, <1>5
<1>7. Good(n)
  BY <1>6 DEF S
<1> QED
  BY <1>2, <1>7 DEF Good, Shown, n
=============================================================================
