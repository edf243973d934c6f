------------------------- MODULE CursorStoreProofs -------------------------
(***************************************************************************)
(* The cursor store, for any number of tasks, consumers and commits: what  *)
(* a read returns is the table of one moment, through concurrent writes,   *)
(* failing calls and crashes, whatever the blobs are.                      *)
(***************************************************************************)
EXTENDS CursorStore, FiniteSetTheorems, SequenceTheorems, WellFoundedInduction, TLAPS

-----------------------------------------------------------------------------
(* Natural numbers *)

\* A set of natural numbers that is not empty has a least element, which is its Min.
LEMMA MinSpec ==
    ASSUME NEW T, T \subseteq Nat, T # {}
    PROVE  Min(T) \in T /\ \A y \in T : Min(T) <= y
<1>1. PICK x \in T : \A y \in T : ~ (<<y, x>> \in OpToRel(<, Nat))
  BY NatLessThanWellFounded, WFMin
<1>2. \A y \in T : ~ (y < x)
  BY <1>1 DEF OpToRel
<1>3. \E z \in T : \A y \in T : z <= y
  BY <1>2
<1> QED
  BY <1>3 DEF Min

\* A set with 0 that is closed under successor has every natural number.
LEMMA SetInduction ==
    ASSUME NEW S, 0 \in S, \A n \in Nat : n \in S => n + 1 \in S
    PROVE  Nat \subseteq S
<1> SUFFICES ASSUME Nat \ S # {} PROVE FALSE
  OBVIOUS
<1>1. PICK x \in Nat \ S : \A y \in Nat \ S : x <= y
  <2>1. Min(Nat \ S) \in Nat \ S /\ \A y \in Nat \ S : Min(Nat \ S) <= y
    BY MinSpec
  <2> QED
    BY <2>1
<1>2. x # 0 /\ x - 1 \in Nat /\ ~ (x <= x - 1) /\ (x - 1) + 1 = x
  BY <1>1
<1> QED
  BY <1>1, <1>2

-----------------------------------------------------------------------------
(* The store's invariant *)

\* The tables there can be.
Tables == UNION {[D -> Blob] : D \in SUBSET Consumer}

\* The entries a read call c copies.
WantedBy(c) ==
    CASE c.op = "get"  -> {c.key}
      [] c.op = "list" -> Consumer
      [] c.op = "len"  -> {}

\* What the read c has copied of its table: all it wants up to some id.
Copying(c) ==
    /\ DOMAIN c.out \subseteq WantedBy(c) \cap DOMAIN c.view
    /\ \A k \in DOMAIN c.out : c.out[k] = c.view[k]
    /\ \A k \in (WantedBy(c) \cap DOMAIN c.view) \ DOMAIN c.out :
          \A x \in DOMAIN c.out : x < k

\* What the read c will answer.
Copied(c) ==
    /\ DOMAIN c.out = WantedBy(c) \cap DOMAIN c.view
    /\ c.op = "len" => c.key = Cardinality(DOMAIN c.view)

\* Nothing of another call is left in c.
Clean(c) == DOMAIN c.out = {} /\ c.out = <<>>

\* One call c of a task, against the committed tables H.
CallInv(c, H) ==
    /\ c = [op |-> c.op, key |-> c.key, view |-> c.view, out |-> c.out, floor |-> c.floor,
            pc |-> c.pc]
    /\ c.floor \in Nat /\ c.floor <= Len(H) /\ (c.pc # "idle" => c.floor >= 1)
    /\ c.op = "get" => c.key \in Consumer
    /\ c.op \in {"put", "delete"} => c.key \in Consumer
    /\ c.pc = "open" => c.view \in Tables
    /\ c.pc \notin {"reading", "done"} => Clean(c)
    /\ c.pc \in {"reading", "done"} =>
          /\ c.op \in Reads
          /\ \E i \in c.floor .. Len(H) : c.view = H[i]
          /\ Copying(c)
    /\ c.pc = "done" => Copied(c)

\* The inductive invariant.  ReadsAreSnapshots speaks of finished reads; a read in
\* progress must be known to work on one of the tables committed since its call.
StoreInv ==
    /\ hist \in Seq(Tables) /\ Len(hist) >= 1
    /\ hist[Len(hist)] = table
    /\ acked \in Nat /\ acked >= 1 /\ acked <= Len(hist)
    /\ DOMAIN call = Task
    /\ \A t \in Task : CallInv(call[t], hist)

\* Updates of a call, field by field.
LEMMA CallUpdate ==
    ASSUME NEW c, NEW op, NEW key, NEW view, NEW out, NEW floor, NEW pc,
           c = [op |-> op, key |-> key, view |-> view, out |-> out, floor |-> floor, pc |-> pc],
           NEW w, NEW o, NEW k, NEW v, NEW u, NEW f, NEW p,
           \/ /\ w = [c EXCEPT !.op = o, !.key = k, !.floor = f, !.pc = p]
              /\ v = view /\ u = out
           \/ /\ w = [c EXCEPT !.view = v, !.pc = p]
              /\ o = op /\ k = key /\ u = out /\ f = floor
           \/ /\ w = [c EXCEPT !.pc = p, !.floor = f]
              /\ o = op /\ k = key /\ v = view /\ u = out
           \/ /\ w = [c EXCEPT !.out = u]
              /\ o = op /\ k = key /\ v = view /\ f = floor /\ p = pc
           \/ /\ w = [c EXCEPT !.pc = p, !.key = k]
              /\ o = op /\ v = view /\ u = out /\ f = floor
    PROVE  w = [op |-> o, key |-> k, view |-> v, out |-> u, floor |-> f, pc |-> p]
<1>1. DOMAIN c = {"op", "key", "view", "out", "floor", "pc"} /\ DOMAIN w = DOMAIN c
  OBVIOUS
<1>2. w.op = o /\ w.key = k /\ w.view = v /\ w.out = u /\ w.floor = f /\ w.pc = p
  OBVIOUS
<1>3. w = [x \in DOMAIN w |-> w[x]]
  OBVIOUS
<1> QED
  BY <1>1, <1>2, <1>3

\* Tables stay tables.
LEMMA TableUpdates ==
    ASSUME NEW a \in Tables, NEW k \in Consumer, NEW x \in Blob
    PROVE  Put(a, k, x) \in Tables /\ Drop(a, k) \in Tables /\ DOMAIN a \subseteq Consumer
<1>1. PICK D \in SUBSET Consumer : a \in [D -> Blob]
  BY DEF Tables
<1>2. Put(a, k, x) \in [D \cup {k} -> Blob]
  BY <1>1 DEF Put
<1>3. Drop(a, k) \in [D \ {k} -> Blob]
  BY <1>1 DEF Drop
<1> QED
  BY <1>1, <1>2, <1>3 DEF Tables

\* A commit takes nothing away from the other calls.
LEMMA MoreHistory ==
    ASSUME NEW c, NEW H \in Seq(Tables), CallInv(c, H), NEW a \in Tables
    PROVE  CallInv(c, Append(H, a))
<1>1. /\ Len(H) \in Nat /\ Len(Append(H, a)) = Len(H) + 1
      /\ \A i \in 1 .. Len(H) : Append(H, a)[i] = H[i]
  BY AppendProperties
<1>2. c.floor \in Nat /\ c.floor <= Len(H) /\ c.floor <= Len(Append(H, a))
  BY <1>1 DEF CallInv
<1>3. ASSUME c.pc \in {"reading", "done"}
      PROVE  \E j \in c.floor .. Len(Append(H, a)) : c.view = Append(H, a)[j]
  <2>1. PICK i \in c.floor .. Len(H) : c.view = H[i]
    BY <1>3 DEF CallInv
  <2>2. c.floor >= 1
    BY <1>3 DEF CallInv
  <2>3. i \in 1 .. Len(H) /\ i \in c.floor .. Len(Append(H, a))
    BY <1>1, <1>2, <2>2
  <2> QED
    BY <1>1, <2>1, <2>3
<1> QED
  BY <1>2, <1>3 DEF CallInv

\* The idle call, and a step of one task with the others as they were.
LEMMA OneCallMoves ==
    ASSUME StoreInv, NEW t \in Task, NEW w, CallInv(w, hist),
           call' = [call EXCEPT ![t] = w], UNCHANGED <<hist, table>>,
           acked' \in Nat, acked' >= 1, acked' <= Len(hist)
    PROVE  StoreInv'
<1>1. DOMAIN call' = Task /\ \A s \in Task : call'[s] = IF s = t THEN w ELSE call[s]
  BY DEF StoreInv
<1> QED
  BY <1>1 DEF StoreInv

\* No call is a good call.
LEMMA NoCallInv ==
    ASSUME NEW H \in Seq(Tables)
    PROVE  CallInv(NoCall, H)
<1>1. NoCall = [op |-> "none", key |-> 0, view |-> <<>>, out |-> <<>>, floor |-> 0, pc |-> "idle"]
  BY DEF NoCall
<1>2. DOMAIN <<>> = {} /\ Len(H) \in Nat
  OBVIOUS
<1> QED
  BY <1>1, <1>2 DEF CallInv, Clean

\* A task calls a method.
LEMMA CallKeeps ==
    ASSUME StoreInv, NEW t \in Task, NEW op, NEW k, Call(t, op, k),
           op \in {"put", "delete", "get"} => k \in Consumer
    PROVE  StoreInv'
<1> DEFINE w == [NoCall EXCEPT !.op = op, !.key = k, !.floor = acked, !.pc = "begin"]
<1>1. call' = [call EXCEPT ![t] = w] /\ UNCHANGED <<hist, table, acked>>
  BY DEF Call
<1>2. NoCall = [op |-> "none", key |-> 0, view |-> <<>>, out |-> <<>>, floor |-> 0, pc |-> "idle"]
  BY DEF NoCall
<1>3. w = [NoCall EXCEPT !.op = op, !.key = k, !.floor = acked, !.pc = "begin"]
  OBVIOUS
<1> HIDE DEF w
<1>4. w = [op |-> op, key |-> k, view |-> <<>>, out |-> <<>>, floor |-> acked, pc |-> "begin"]
  BY <1>2, <1>3, CallUpdate, Zenon
<1>5. CallInv(w, hist)
  BY <1>4 DEF CallInv, Clean, StoreInv
<1> QED
  BY <1>1, <1>5, OneCallMoves DEF StoreInv

\* The call of a task, and the table.
LEMMA CallFacts ==
    ASSUME StoreInv, NEW t \in Task
    PROVE  /\ CallInv(call[t], hist)
           /\ call[t] = [op |-> call[t].op, key |-> call[t].key, view |-> call[t].view,
                         out |-> call[t].out, floor |-> call[t].floor, pc |-> call[t].pc]
           /\ hist \in Seq(Tables) /\ Len(hist) \in Nat /\ Len(hist) \in 1 .. Len(hist)
           /\ table = hist[Len(hist)] /\ table \in Tables
<1>1. CallInv(call[t], hist) /\ hist \in Seq(Tables) /\ Len(hist) >= 1 /\ table = hist[Len(hist)]
  BY DEF StoreInv
<1>2. Len(hist) \in Nat /\ Len(hist) \in 1 .. Len(hist)
  BY <1>1
<1> QED
  BY <1>1, <1>2 DEF CallInv

\* put and delete prepare their table.
LEMMA WriteBeginKeeps ==
    ASSUME StoreInv, NEW t \in Task, (\E x \in Blob : PutBegin(t, x)) \/ DeleteBegin(t)
    PROVE  StoreInv'
<1> DEFINE c == call[t]
<1>1. /\ CallInv(c, hist) /\ table \in Tables
      /\ c = [op |-> c.op, key |-> c.key, view |-> c.view, out |-> c.out, floor |-> c.floor,
              pc |-> c.pc]
  BY CallFacts
<1>2. ASSUME NEW a \in Tables, c.pc = "begin", UNCHANGED <<hist, table, acked>>,
             call' = [call EXCEPT ![t] = [c EXCEPT !.view = a, !.pc = "open"]]
      PROVE  StoreInv'
  <2>1. PICK w : w = [c EXCEPT !.view = a, !.pc = "open"]
    OBVIOUS
  <2> HIDE DEF c
  <2>2. w = [op |-> c.op, key |-> c.key, view |-> a, out |-> c.out, floor |-> c.floor,
             pc |-> "open"]
    BY <1>1, <2>1, CallUpdate, Zenon
  <2>3. CallInv(w, hist)
    BY <1>1, <1>2, <2>2 DEF CallInv, Clean
  <2> QED
    BY <1>2, <2>1, <2>3, OneCallMoves DEF StoreInv
<1>3. ASSUME NEW x \in Blob, PutBegin(t, x) PROVE StoreInv'
  <2> DEFINE a == Put(table, c.key, x)
  <2>1. /\ c.pc = "begin" /\ c.op = "put" /\ UNCHANGED <<hist, table, acked>>
        /\ call' = [call EXCEPT ![t] = [c EXCEPT !.view = a, !.pc = "open"]]
    BY <1>3 DEF PutBegin
  <2>2. c.key \in Consumer /\ x \in Blob
    BY <1>1, <2>1 DEF CallInv
  <2>3. a \in Tables
    BY <1>1, <2>2, TableUpdates
  <2> QED
    BY <1>2, <2>1, <2>3
<1>4. ASSUME DeleteBegin(t) PROVE StoreInv'
  <2> DEFINE a == Drop(table, c.key)
  <2>1. /\ c.pc = "begin" /\ c.op = "delete" /\ UNCHANGED <<hist, table, acked>>
        /\ call' = [call EXCEPT ![t] = [c EXCEPT !.view = a, !.pc = "open"]]
    BY <1>4 DEF DeleteBegin
  <2>2. c.key \in Consumer
    BY <1>1, <2>1 DEF CallInv
  <2>3. a \in Tables
    <3>1. PICK D \in SUBSET Consumer : table \in [D -> Blob]
      BY <1>1 DEF Tables
    <3>2. a \in [D \ {c.key} -> Blob]
      BY <3>1 DEF Drop
    <3> QED
      BY <3>2 DEF Tables
  <2> QED
    BY <1>2, <2>1, <2>3
<1> QED
  BY <1>3, <1>4

\* A commit adds a table.
LEMMA CommitKeeps ==
    ASSUME StoreInv, NEW t \in Task, Commit(t)
    PROVE  StoreInv'
<1> DEFINE c == call[t]
           a == c.view
           H == Append(hist, a)
           f == Len(hist) + 1
<1>1. /\ CallInv(c, hist) /\ hist \in Seq(Tables) /\ Len(hist) \in Nat
      /\ c = [op |-> c.op, key |-> c.key, view |-> c.view, out |-> c.out, floor |-> c.floor,
              pc |-> c.pc]
  BY CallFacts
<1>2. /\ c.pc = "open" /\ table' = a /\ hist' = H /\ acked' = acked
      /\ call' = [call EXCEPT ![t] = [c EXCEPT !.pc = "committed", !.floor = f]]
  BY DEF Commit
<1>3. a \in Tables
  BY <1>1, <1>2 DEF CallInv
<1>4. H \in Seq(Tables) /\ Len(H) = f /\ H[f] = a
  BY <1>1, <1>3, AppendProperties
<1>5. PICK w : w = [c EXCEPT !.pc = "committed", !.floor = f]
  OBVIOUS
<1> HIDE DEF c, H, f
<1>6. w = [op |-> c.op, key |-> c.key, view |-> c.view, out |-> c.out, floor |-> f,
           pc |-> "committed"]
  BY <1>1, <1>5, CallUpdate, Zenon
<1>7. f \in Nat /\ f >= 1 /\ f <= Len(H)
  BY <1>1, <1>4 DEF f
<1>8. CallInv(w, H)
  BY <1>1, <1>2, <1>6, <1>7 DEF CallInv, Clean
<1>9. \A s \in Task : CallInv(call[s], H)
  <2> SUFFICES ASSUME NEW s \in Task PROVE CallInv(call[s], H)
    OBVIOUS
  <2>1. CallInv(call[s], hist)
    BY DEF StoreInv
  <2> QED
    BY <1>1, <1>3, <2>1, MoreHistory DEF H
<1>10. DOMAIN call' = Task /\ \A s \in Task : call'[s] = IF s = t THEN w ELSE call[s]
  BY <1>2, <1>5 DEF StoreInv
<1>11. \A s \in Task : CallInv(call'[s], hist')
  BY <1>2, <1>8, <1>9, <1>10
<1>12. acked \in Nat /\ acked >= 1 /\ acked <= Len(H) /\ Len(H) >= 1
  BY <1>1, <1>4, <1>7 DEF StoreInv, f
<1> QED
  BY <1>2, <1>4, <1>10, <1>11, <1>12 DEF StoreInv

\* A write or a read is over.
LEMMA ReturnsKeep ==
    ASSUME StoreInv, NEW t \in Task, WriteFails(t) \/ WriteReturns(t) \/ ReadReturns(t)
    PROVE  StoreInv'
<1>1. /\ CallInv(call[t], hist) /\ hist \in Seq(Tables) /\ Len(hist) \in Nat
      /\ acked \in Nat /\ acked >= 1 /\ acked <= Len(hist)
  BY CallFacts DEF StoreInv
<1>2. UNCHANGED <<hist, table>> /\ call' = [call EXCEPT ![t] = NoCall]
  BY DEF WriteFails, WriteReturns, ReadReturns
<1>3. acked' \in Nat /\ acked' >= 1 /\ acked' <= Len(hist)
  <2>1. CASE WriteReturns(t)
    <3> DEFINE f == call[t].floor
    <3>1. f \in Nat /\ f <= Len(hist) /\ acked' = Max({acked, f})
      BY <1>1, <2>1 DEF CallInv, WriteReturns
    <3> HIDE DEF f
    <3>2. \E x \in {acked, f} : \A y \in {acked, f} : x >= y
      BY <1>1, <3>1
    <3>3. Max({acked, f}) \in {acked, f} /\ \A y \in {acked, f} : Max({acked, f}) >= y
      BY <3>2 DEF Max
    <3> QED
      BY <1>1, <3>1, <3>3
  <2>2. CASE WriteFails(t) \/ ReadReturns(t)
    BY <1>1, <2>2 DEF WriteFails, ReadReturns
  <2> QED
    BY <2>1, <2>2
<1> QED
  BY <1>1, <1>2, <1>3, NoCallInv, OneCallMoves

\* A read begins on the table of that moment.
LEMMA ReadBeginKeeps ==
    ASSUME StoreInv, NEW t \in Task, ReadBegin(t)
    PROVE  StoreInv'
<1> DEFINE c == call[t]
<1>1. /\ CallInv(c, hist) /\ Len(hist) \in Nat /\ table = hist[Len(hist)]
      /\ c = [op |-> c.op, key |-> c.key, view |-> c.view, out |-> c.out, floor |-> c.floor,
              pc |-> c.pc]
  BY CallFacts
<1>2. /\ c.pc = "begin" /\ c.op \in Reads /\ UNCHANGED <<hist, table, acked>>
      /\ call' = [call EXCEPT ![t] = [c EXCEPT !.view = table, !.pc = "reading"]]
  BY DEF ReadBegin
<1>3. PICK w : w = [c EXCEPT !.view = table, !.pc = "reading"]
  OBVIOUS
<1> HIDE DEF c
<1>4. w = [op |-> c.op, key |-> c.key, view |-> table, out |-> c.out, floor |-> c.floor,
           pc |-> "reading"]
  BY <1>1, <1>3, CallUpdate, Zenon
<1>5. c.floor \in Nat /\ c.floor <= Len(hist) /\ DOMAIN c.out = {}
  BY <1>1, <1>2 DEF CallInv, Clean
<1>6. Len(hist) \in c.floor .. Len(hist)
  BY <1>1, <1>5
<1>7. Copying(w)
  BY <1>4, <1>5 DEF Copying
<1>8. CallInv(w, hist)
  BY <1>1, <1>2, <1>4, <1>6, <1>7 DEF CallInv
<1> QED
  BY <1>2, <1>3, <1>8, OneCallMoves DEF StoreInv

\* What a read still has to copy.
LEMMA LeftSpec ==
    ASSUME StoreInv, NEW t \in Task, call[t].pc = "reading"
    PROVE  /\ Wanted(t) = WantedBy(call[t])
           /\ Left(t) = (WantedBy(call[t]) \cap DOMAIN call[t].view) \ DOMAIN call[t].out
           /\ Left(t) \subseteq Nat
<1> DEFINE c == call[t]
           M == (WantedBy(c) \cap DOMAIN c.view) \ DOMAIN c.out
<1>1. c.op \in Reads /\ Copying(c) /\ (c.op = "get" => c.key \in Consumer)
  BY CallFacts DEF CallInv
<1>2. Wanted(t) = WantedBy(c)
  BY DEF Wanted, WantedBy
<1>3. WantedBy(c) \subseteq Nat
  BY <1>1, CursorStoreAssumption DEF WantedBy, Reads
<1>4. \A k \in M : \A x \in DOMAIN c.out : x < k
  BY <1>1 DEF Copying
<1>5. \A k \in WantedBy(c) \cap DOMAIN c.view :
          (\A x \in DOMAIN c.out : x < k) => k \notin DOMAIN c.out
  <2>1. \A k \in Nat : ~ (k < k)
    OBVIOUS
  <2> QED
    BY <1>3, <2>1
<1>6. Left(t) = {k \in WantedBy(c) \cap DOMAIN c.view : \A x \in DOMAIN c.out : x < k}
  BY <1>2 DEF Left, ViewOf
<1>7. Left(t) = M
  BY <1>4, <1>5, <1>6
<1> QED
  BY <1>2, <1>3, <1>7

\* A read copies its next entry.
LEMMA ReadEntryKeeps ==
    ASSUME StoreInv, NEW t \in Task, ReadEntry(t)
    PROVE  StoreInv'
<1> DEFINE c == call[t]
           k == Min(Left(t))
           u == Put(c.out, k, c.view[k])
<1>1. /\ CallInv(c, hist) /\ c.pc = "reading" /\ Left(t) # {}
      /\ c = [op |-> c.op, key |-> c.key, view |-> c.view, out |-> c.out, floor |-> c.floor,
              pc |-> c.pc]
      /\ UNCHANGED <<hist, table, acked>>
  BY CallFacts DEF ReadEntry
<1>2. call' = [call EXCEPT ![t] = [c EXCEPT !.out = u]]
  BY DEF ReadEntry, ViewOf
<1>3. Left(t) = (WantedBy(c) \cap DOMAIN c.view) \ DOMAIN c.out /\ Left(t) \subseteq Nat
  BY <1>1, LeftSpec
<1>4. k \in Left(t) /\ \A j \in Left(t) : k <= j
  BY <1>1, <1>3, MinSpec
<1> HIDE DEF k
<1>5. /\ DOMAIN u = DOMAIN c.out \cup {k} /\ u[k] = c.view[k]
      /\ \A j \in DOMAIN c.out : j # k => u[j] = c.out[j]
  BY DEF Put
<1>6. PICK w : w = [c EXCEPT !.out = u]
  OBVIOUS
<1> HIDE DEF c, u
<1>7. w = [op |-> c.op, key |-> c.key, view |-> c.view, out |-> u, floor |-> c.floor,
           pc |-> c.pc]
  BY <1>1, <1>6, CallUpdate, Zenon
<1>8. Copying(c)
  BY <1>1 DEF CallInv
<1>9. WantedBy(w) = WantedBy(c)
  BY <1>7 DEF WantedBy
<1>10. DOMAIN u \subseteq WantedBy(c) \cap DOMAIN c.view /\ \A j \in DOMAIN u : u[j] = c.view[j]
  BY <1>3, <1>4, <1>5, <1>8 DEF Copying
<1>11. ASSUME NEW j \in (WantedBy(c) \cap DOMAIN c.view) \ DOMAIN u, NEW x \in DOMAIN u
       PROVE  x < j
  <2>1. j \in Left(t) /\ j # k /\ j \in Nat /\ k \in Nat
    BY <1>3, <1>4, <1>5, <1>11
  <2>2. CASE x = k
    <3>1. k <= j
      BY <1>4, <2>1
    <3> QED
      BY <2>1, <2>2, <3>1
  <2>3. CASE x \in DOMAIN c.out
    BY <1>3, <1>8, <2>1, <2>3 DEF Copying
  <2> QED
    BY <1>5, <2>2, <2>3
<1>12. Copying(w)
  BY <1>7, <1>9, <1>10, <1>11 DEF Copying
<1>13. CallInv(w, hist)
  BY <1>1, <1>7, <1>12 DEF CallInv
<1> QED
  BY <1>1, <1>2, <1>6, <1>13, OneCallMoves DEF StoreInv

\* A read is complete.
LEMMA ReadDoneKeeps ==
    ASSUME StoreInv, NEW t \in Task, ReadDone(t)
    PROVE  StoreInv'
<1> DEFINE c == call[t]
           k == IF c.op = "len" THEN Cardinality(DOMAIN c.view) ELSE c.key
<1>1. /\ CallInv(c, hist) /\ c.pc = "reading" /\ Left(t) = {}
      /\ c = [op |-> c.op, key |-> c.key, view |-> c.view, out |-> c.out, floor |-> c.floor,
              pc |-> c.pc]
      /\ UNCHANGED <<hist, table, acked>>
  BY CallFacts DEF ReadDone
<1>2. call' = [call EXCEPT ![t] = [c EXCEPT !.pc = "done", !.key = k]]
  BY DEF ReadDone, ViewOf
<1>3. (WantedBy(c) \cap DOMAIN c.view) \ DOMAIN c.out = {}
  BY <1>1, LeftSpec
<1>4. PICK w : w = [c EXCEPT !.pc = "done", !.key = k]
  OBVIOUS
<1>5. c.op = "len" => k = Cardinality(DOMAIN c.view)
  OBVIOUS
<1>6. c.op # "len" => k = c.key
  OBVIOUS
<1> HIDE DEF c, k
<1>7. w = [op |-> c.op, key |-> k, view |-> c.view, out |-> c.out, floor |-> c.floor,
           pc |-> "done"]
  BY <1>1, <1>4, CallUpdate, Zenon
<1>8. Copying(c) /\ c.op \in Reads
  BY <1>1 DEF CallInv
<1>9. WantedBy(w) = WantedBy(c)
  BY <1>6, <1>7, <1>8 DEF WantedBy, Reads
<1>10. Copying(w)
  BY <1>7, <1>8, <1>9 DEF Copying
<1>11. DOMAIN c.out = WantedBy(c) \cap DOMAIN c.view
  BY <1>3, <1>8 DEF Copying
<1>12. Copied(w)
  BY <1>5, <1>7, <1>9, <1>11 DEF Copied
<1>13. w.op \notin {"put", "delete"} /\ (w.op = "get" => w.key \in Consumer)
  BY <1>1, <1>6, <1>7, <1>8 DEF CallInv, Reads
<1>14. CallInv(w, hist)
  BY <1>1, <1>7, <1>8, <1>10, <1>12, <1>13 DEF CallInv
<1> QED
  BY <1>1, <1>2, <1>4, <1>14, OneCallMoves DEF StoreInv

-----------------------------------------------------------------------------
\* Every step keeps the invariant.
LEMMA StoreStep ==
    ASSUME StoreInv, [CursorStoreNext]_storeVars
    PROVE  StoreInv'
<1>1. ASSUME UNCHANGED <<table, call, hist, acked>> PROVE StoreInv'
  BY <1>1 DEF StoreInv
<1>2. ASSUME Crash PROVE StoreInv'
  <2>1. UNCHANGED <<table, hist, acked>> /\ call' = [t \in Task |-> NoCall]
    BY <1>2 DEF Crash
  <2> QED
    BY <2>1, NoCallInv DEF StoreInv
<1>3. ASSUME NEW t \in Task,
             \/ \E k \in Consumer : Call(t, "put", k) \/ Call(t, "delete", k) \/ Call(t, "get", k)
             \/ Call(t, "list", 0) \/ Call(t, "len", 0)
      PROVE  StoreInv'
  BY <1>3, CallKeeps
<1>4. ASSUME NEW t \in Task, (\E x \in Blob : PutBegin(t, x)) \/ DeleteBegin(t)
      PROVE  StoreInv'
  BY <1>4, WriteBeginKeeps
<1>5. ASSUME NEW t \in Task, WriteFails(t) \/ WriteReturns(t) \/ ReadReturns(t) PROVE StoreInv'
  BY <1>5, ReturnsKeep
<1>6. ASSUME NEW t \in Task, Commit(t) \/ ReadBegin(t) \/ ReadEntry(t) \/ ReadDone(t)
      PROVE  StoreInv'
  BY <1>6, CommitKeeps, ReadBeginKeeps, ReadEntryKeeps, ReadDoneKeeps
<1>7. CASE CursorStoreNext
  BY <1>1, <1>2, <1>3, <1>4, <1>5, <1>6, <1>7 DEF CursorStoreNext, Open
<1>8. CASE UNCHANGED storeVars
  BY <1>1, <1>8 DEF storeVars
<1> QED
  BY <1>7, <1>8

\* Every state of the store satisfies it.
LEMMA StoreInvariance == CursorStoreSpec => []StoreInv
<1>1. CursorStoreInit => StoreInv
  <2> SUFFICES ASSUME CursorStoreInit PROVE StoreInv
    OBVIOUS
  <2>1. table = <<>> /\ hist = <<table>> /\ acked = 1 /\ call = [t \in Task |-> NoCall]
    BY DEF CursorStoreInit
  <2>2. <<>> \in Tables
    <3>1. <<>> \in [{} -> Blob] /\ {} \in SUBSET Consumer
      OBVIOUS
    <3> QED
      BY <3>1 DEF Tables
  <2>3. hist \in Seq(Tables) /\ Len(hist) = 1 /\ hist[1] = table
    BY <2>1, <2>2
  <2>4. CallInv(NoCall, hist)
    BY <2>3, NoCallInv
  <2>5. DOMAIN call = Task /\ \A t \in Task : CallInv(call[t], hist)
    BY <2>1, <2>4
  <2>6. acked \in Nat /\ acked >= 1 /\ acked <= Len(hist) /\ Len(hist) >= 1
    BY <2>1, <2>3
  <2> QED
    BY <2>3, <2>5, <2>6 DEF StoreInv
<1> QED
  BY <1>1, StoreStep, PTL DEF CursorStoreSpec

\* get, list and len answer with the table as it was at one moment, no earlier than
\* the last put or delete that had returned when they were called: for any number of
\* tasks writing between two entries of a list, failing calls and crashes.
THEOREM ReadsSeeOneMoment == CursorStoreSpec => []ReadsAreSnapshots
<1>1. StoreInv => ReadsAreSnapshots
  <2> SUFFICES ASSUME StoreInv, NEW t \in Task, call[t].pc = "done"
               PROVE  \E i \in call[t].floor .. Len(hist) :
                         /\ DOMAIN call[t].out = Wanted(t) \cap DOMAIN hist[i]
                         /\ \A k \in DOMAIN call[t].out : call[t].out[k] = hist[i][k]
                         /\ call[t].op = "len" => call[t].key = Cardinality(DOMAIN hist[i])
    BY DEF ReadsAreSnapshots
  <2>1. Copying(call[t]) /\ Copied(call[t])
    BY CallFacts DEF CallInv
  <2>2. PICK i \in call[t].floor .. Len(hist) : call[t].view = hist[i]
    BY CallFacts DEF CallInv
  <2>3. Wanted(t) = WantedBy(call[t])
    BY DEF Wanted, WantedBy
  <2> QED
    BY <2>1, <2>2, <2>3 DEF Copying, Copied
<1> QED
  BY <1>1, StoreInvariance, PTL
=============================================================================
