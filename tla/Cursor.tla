------------------------------- MODULE Cursor -------------------------------
(***************************************************************************)
(* lightcycle-relayer/src/cursor.rs: the resumption cursor, a position     *)
(* [height, block_id] as a blob: the height in big-endian digits, then the *)
(* id.                                                                     *)
(***************************************************************************)
EXTENDS Integers, Sequences

CONSTANTS HeightBytes,    \* digits of the height (8)
          IdBytes,        \* length of an id (32)
          Radix           \* 256

ASSUME CursorAssumption ==
    HeightBytes \in Nat \ {0} /\ IdBytes \in Nat \ {0} /\ Radix \in Nat \ {0, 1}

\* A height after its last i digits are cut off, for i from 0 to HeightBytes.
HeightRest(h) ==
    LET rest[i \in 0 .. HeightBytes] == IF i = 0 THEN h ELSE rest[i - 1] \div Radix
    IN  rest

\* The heights there are: u64, HeightBytes digits are enough.
IsHeight(h) == h \in Nat /\ HeightRest(h)[HeightBytes] = 0

\* The positions there are: such a height, an id of IdBytes bytes.
IsCursor(c) ==
    /\ c = [height |-> c.height, block_id |-> c.block_id]
    /\ IsHeight(c.height)
    /\ c.block_id \in [1 .. IdBytes -> 0 .. Radix - 1]

\* The digits of a height, least significant first.
HeightDigits_Little(h) == [i \in 1 .. HeightBytes |-> HeightRest(h)[i - 1] % Radix]

\* height.to_be_bytes().
HeightDigits(h) == [i \in 1 .. HeightBytes |-> HeightRest(h)[HeightBytes - i] % Radix]

\* Cursor::to_bytes.
ToBytes(c) == HeightDigits(c.height) \o c.block_id

\* from_be_bytes of the first digits.
HeightOf(bytes) ==
    LET upTo[i \in 0 .. HeightBytes] ==
            IF i = 0 THEN 0 ELSE upTo[i - 1] * Radix + bytes[i]
    IN  upTo[HeightBytes]

\* Cursor::from_bytes, as the set of what it returns: only the length is checked.
FromBytes(bytes) ==
    IF Len(bytes) # HeightBytes + IdBytes THEN {}
    ELSE {[height   |-> HeightOf(bytes),
           block_id |-> SubSeq(bytes, HeightBytes + 1, HeightBytes + IdBytes)]}
=============================================================================
