------------------------------- MODULE MCTree -------------------------------
(* Block trees of the TLC instances. *)
EXTENDS Integers

\* A main branch a1..a5 with a fork off a2 (b3, b4) and one off a1 (c2, c3), and
\* g5, whose parent never reaches the relayer.
WideHeight == [a1 |-> 1, a2 |-> 2, a3 |-> 3, a4 |-> 4, a5 |-> 5,
               b3 |-> 3, b4 |-> 4, c2 |-> 2, c3 |-> 3, g5 |-> 5]
WideParent == [a1 |-> "none", a2 |-> "a1", a3 |-> "a2", a4 |-> "a3", a5 |-> "a4",
               b3 |-> "a2", b4 |-> "b3", c2 |-> "a1", c3 |-> "c2", g5 |-> "none"]
WideBlock == DOMAIN WideHeight
WideSolidHead == 0 .. 4

\* Four heights, a fork, and an orphan: for the composed models.
SmallHeight == [a1 |-> 1, a2 |-> 2, a3 |-> 3, a4 |-> 4, b2 |-> 2, g3 |-> 3]
SmallParent == [a1 |-> "none", a2 |-> "a1", a3 |-> "a2", a4 |-> "a3", b2 |-> "a1",
                g3 |-> "none"]
SmallBlock == DOMAIN SmallHeight
SmallSolidHead == 1 .. 2

\* A chain without forks: for the liveness runs.
LineHeight == [a1 |-> 1, a2 |-> 2, a3 |-> 3]
LineParent == [a1 |-> "none", a2 |-> "a1", a3 |-> "a2"]
LineBlock == DOMAIN LineHeight
LineSolidHead == 1 .. 2

\* A longer one, to see a gap behind the first live block.
LongHeight == [a1 |-> 1, a2 |-> 2, a3 |-> 3, a4 |-> 4]
LongParent == [a1 |-> "none", a2 |-> "a1", a3 |-> "a2", a4 |-> "a3"]
LongBlock == DOMAIN LongHeight
LongId == [a1 |-> <<0, 1>>, a2 |-> <<0, 2>>, a3 |-> <<1, 0>>, a4 |-> <<1, 1>>]

\* One fork, two blocks deep, and no finality: for the client's side of a reorg.
ForkHeight == [a1 |-> 1, a2 |-> 2, b2 |-> 2, b3 |-> 3]
ForkParent == [a1 |-> "none", a2 |-> "a1", b2 |-> "a1", b3 |-> "b2"]
ForkBlock == DOMAIN ForkHeight
ForkId == [a1 |-> <<0, 1>>, a2 |-> <<0, 2>>, b2 |-> <<1, 0>>, b3 |-> <<1, 1>>]
ForkSolidHead == {}
=============================================================================
