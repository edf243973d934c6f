------------------------------ MODULE MCIngest ------------------------------
(* Words of three bytes, addresses of three, heights of one.  Heads a and b are
   siblings that share a transaction; c and d have contracts of every type; e has no
   transaction; f and g do not decode. *)
EXTENDS IngestEvents

Addr(x) == <<65, 0, x>>
Id(x) == <<0, 0, x>>

\* The log java-tron makes of an emission: topics lose their leading zeros when cut.
Cut(w) == IF w[1] # 0 THEN w ELSE IF w[2] # 0 THEN Tail(w) ELSE <<w[3]>>
Concat(ss) == LET f[i \in 0 .. Len(ss)] == IF i = 0 THEN <<>> ELSE f[i - 1] \o ss[i]
              IN  f[Len(ss)]
Words(e, indexed) ==
    LET where == SelectSeq([i \in DOMAIN e.types |-> i], LAMBDA i : e.indexed[i] = indexed)
    IN  [i \in DOMAIN where |-> WordFor(e.values[where[i]])]
LogOf(e, cut) ==
    LET args == Words(e, TRUE)
    IN  [address |-> Addr(9), emission |-> e, data |-> Concat(Words(e, FALSE)),
         topics |-> <<Keccak[<<e.name, e.types>>]>>
                    \o [i \in DOMAIN args |-> IF cut THEN Cut(args[i]) ELSE args[i]]]

MixedTypes == << <<"bool">>, <<"address">>, <<"bytes", 2>>, <<"int", 8>> >>
MCKeccak == <<"Transfer", Standard>> :> <<7, 0, 1>> @@ <<"Approval", Standard>> :> <<7, 0, 2>>
            @@ <<"Mixed", MixedTypes>> :> <<7, 0, 3>> @@ <<"Ping", <<>> >> :> <<7, 0, 4>>

Event(name, types, indexed, values) ==
    [name |-> name, types |-> types, indexed |-> indexed, values |-> values]
Party(x) == <<"Address", Addr(x)>>
Trc20 == Event("Transfer", Standard, <<TRUE, TRUE, FALSE>>,
               <<Party(1), Party(2), <<"Word", <<0, 1, 0>> >> >>)
Trc721 == Event("Transfer", Standard, <<TRUE, TRUE, TRUE>>,
                <<Party(2), Party(1), <<"Word", <<0, 0, 5>> >> >>)
Approve == Event("Approval", Standard, <<TRUE, TRUE, FALSE>>,
                 <<Party(1), Party(3), <<"Word", <<9, 9, 9>> >> >>)
\* The signature of a transfer, other topics: the sender and the amount, and the sender only.
Lopsided == [Trc20 EXCEPT !.indexed = <<TRUE, FALSE, TRUE>>]
Sparse == [Trc20 EXCEPT !.indexed = <<TRUE, FALSE, FALSE>>]
Mixed == Event("Mixed", MixedTypes, <<FALSE, TRUE, FALSE, TRUE>>,
               << <<"Bool", TRUE>>, Party(4), <<"Word", <<8, 8, 0>> >>, <<"Word", <<255, 255, 254>> >> >>)

Type(base, width) == [base |-> base, width |-> width, array |-> FALSE]
Text(name, params) == [parens |-> "()", name |-> name, params |-> params]
Address == Type("address", None)
MCSignatureText ==
    {Text("Transfer", << <<Address, "indexed", "from">>, <<Address, "indexed", "to">>,
                         <<Type("uint", None), "value">> >>),
     Text("Transfer", << <<Address, "indexed">>, <<Address, "indexed">>,
                         <<Type("uint", 256), "indexed", "tokenId">> >>),
     Text("Transfer", << <<Address, "indexed">>, <<Address>>, <<Type("uint", 256), "indexed">> >>),
     Text("Mixed", << <<Type("bool", None)>>, <<Address, "indexed", "who">>,
                      <<Type("bytes", 2), "b">>, <<Type("int", 8), "indexed">> >>),
     Text("Ping", <<>>),
     Text("", <<>>), [Text("Ping", <<>>) EXCEPT !.parens = "("],
     Text("Mixed", << <<Address, "a", "b">>, <<>> >>),
     Text("Mixed", << <<[Address EXCEPT !.array = TRUE]>> >>),
     Text("Mixed", << <<Type("uint", 12)>> >>), Text("Mixed", << <<Type("bytes", 33)>> >>),
     Text("Mixed", << <<Type("bytes", None)>> >>), Text("Mixed", << <<Type("string", None)>> >>)}

-----------------------------------------------------------------------------
Param(x) == [parses |-> TRUE, owner |-> Addr(x), other |-> Addr(x + 1), rest |-> x]
Contract(type, parameter) == [type |-> type, parameter |-> parameter]
Tx(x, contracts) ==
    [raw_data |-> [sha256 |-> Id(x), contract |-> contracts], signature |-> <<x>>]
Block(number, x, ms, txs) ==
    [block_header |-> [raw_data |->
        [number |-> number, sha256 |-> Id(x), parent_hash |-> Id(x), tx_trie_root |-> Id(x),
         witness_address |-> Addr(x), timestamp |-> ms]],
     transactions |-> txs]

\* Every tag of the vendored enum, the holes in it and what lies outside.
AllTags == [i \in 1 .. 64 |-> Contract(i - 3, Param(i))]

MCNodeBlock == {"a", "b", "c", "d", "e", "f", "g"}
MCWireBlock ==
    [a |-> Block(1, 11, 1999, <<Tx(1, <<Contract(1, Param(1))>>), Tx(2, <<Contract(31, Param(3))>>)>>),
     b |-> Block(1, 12, 2000, <<Tx(3, <<Contract(77, None)>>), Tx(1, <<Contract(1, Param(1))>>)>>),
     c |-> Block(2, 13, 0, <<Tx(4, AllTags)>>),
     d |-> Block(-1, 14, -1, <<Tx(5, <<Contract(30, [Param(5) EXCEPT !.other = <<>>]),
                                       Contract(4, [Param(6) EXCEPT !.parses = FALSE])>>)>>),
     e |-> Block(2, 15, 3001, <<>>),
     f |-> Block(2, 16, 1, <<Tx(6, <<Contract(31, None)>>)>>),
     g |-> [Block(2, 17, 1, <<>>) EXCEPT !.block_header = None]]
MCBranch == [a |-> {"a"}, b |-> {"b"}, c |-> {"a", "c"}, d |-> {"d"}, e |-> {"b", "e"},
             f |-> {"a"}, g |-> {"a"}]

Info(x, result, log) ==
    [id |-> Id(x), block_number |-> 1, result |-> result, contract_address |-> <<>>,
     receipt |-> None, log |-> log, internal_transactions |-> <<>>]
MCReceipt ==
    [a |-> {Info(1, 0, <<>>), Info(2, 0, <<LogOf(Trc20, FALSE), LogOf(Mixed, TRUE)>>)},
     b |-> {Info(1, 1, <<>>), Info(3, 0, <<LogOf(Trc721, TRUE), LogOf(Approve, FALSE)>>)},
     c |-> {Info(4, 0, <<LogOf(Lopsided, FALSE), LogOf(Sparse, TRUE), LogOf(Mixed, FALSE)>>)}, d |-> {Info(5, 0, <<>>)},
     e |-> {}, f |-> {Info(6, 0, <<>>)}, g |-> {}]
\* An info with a call inside, and two that do not decode.
Call == [hash |-> Id(8), caller |-> Addr(1), transfer_to |-> Addr(2), rejected |-> TRUE]
Odd == {[Info(1, 2, <<>>) EXCEPT !.internal_transactions = <<Call>>, !.receipt = "used",
                                 !.contract_address = Addr(9)],
        [Info(1, 0, <<>>) EXCEPT !.internal_transactions = <<[Call EXCEPT !.caller = <<>>]>>],
        [Info(2, 0, <<>>) EXCEPT !.log = <<[LogOf(Trc20, FALSE) EXCEPT !.address = <<1>>]>>]}
Lists(S) == {<<>>} \cup {<<x>> : x \in S} \cup {<<x, y>> : x \in S, y \in S}
MCAnswer == [b \in MCNodeBlock |-> Lists(MCReceipt[b] \cup Odd)]
=============================================================================
