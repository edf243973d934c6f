---------------------------- MODULE IngestProofs ----------------------------
(***************************************************************************)
(* The way of a block from the node to the client, and of an event from    *)
(* the contract that emitted it, for every set of heads, messages, answers *)
(* and signatures: the infos never cost a block and are joined to their    *)
(* own transactions, nothing is lost on the wire, and a client decodes     *)
(* what was emitted.                                                       *)
(***************************************************************************)
EXTENDS IngestEvents, FiniteSetTheorems, SequenceTheorems, WellFoundedInduction, TLAPS

-----------------------------------------------------------------------------
(* Natural numbers and lists *)

\* A set of natural numbers that is not empty has a least element, which is its Min.
LEMMA MinIsLeast ==
    ASSUME NEW T, T \subseteq Nat, T # {}
    PROVE  Min(T) \in T /\ \A y \in T : Min(T) <= y
<1>1. PICK x \in T : \A y \in T : ~ (<<y, x>> \in OpToRel(<, Nat))
  BY NatLessThanWellFounded, WFMin
<1>2. \A y \in T : ~ (y < x)
  BY <1>1 DEF OpToRel
<1>3. \E z \in T : \A y \in T : z <= y
  BY <1>2
<1> QED
  BY <1>3 DEF Min

\* The greatest of the positions of a list that satisfy something is one of them.
LEMMA MaxIsGreatest ==
    ASSUME NEW n \in Nat, NEW T, T \subseteq 1 .. n, T # {}
    PROVE  Max(T) \in T /\ \A y \in T : y <= Max(T)
<1> DEFINE U == {m \in Nat : \A y \in T : y <= m}
<1>1. U \subseteq Nat /\ n \in U
  OBVIOUS
<1>2. Min(U) \in U /\ \A m \in U : Min(U) <= m
  BY <1>1, MinIsLeast
<1>3. PICK m \in U : \A k \in U : m <= k
  BY <1>2
<1>4. m \in T
  <2> SUFFICES ASSUME m \notin T PROVE FALSE
    OBVIOUS
  <2>1. PICK y \in T : TRUE
    OBVIOUS
  <2>2. y \in Nat /\ y <= m /\ y # m /\ y >= 1
    BY <1>3, <2>1
  <2>3. m - 1 \in Nat
    BY <1>3, <2>2
  <2>4. \A z \in T : z <= m - 1
    BY <1>3, <2>3
  <2> QED
    BY <1>3, <2>3, <2>4
<1>5. \E z \in T : \A y \in T : z >= y
  BY <1>3, <1>4
<1> QED
  BY <1>5 DEF Max

\* The positions of a list.
LEMMA ListPositions ==
    ASSUME NEW s, IsList(s)
    PROVE  /\ Len(s) \in Nat /\ DOMAIN s = 1 .. Len(s)
           /\ \A T \in SUBSET DOMAIN s : T \subseteq Nat
BY DEF IsList

-----------------------------------------------------------------------------
(* Decoding *)

\* `?` over several results succeeds when each of them has.
LEMMA TryOk ==
    ASSUME NEW results, NEW v, DOMAIN results \subseteq Nat
    PROVE  /\ Try(results, v).ok <=> \A i \in DOMAIN results : results[i].ok
           /\ Try(results, v).ok => Try(results, v) = Ok(v)
<1> DEFINE bad == {i \in DOMAIN results : ~ results[i].ok}
<1>1. CASE bad = {}
  BY <1>1 DEF Try, Ok
<1>2. CASE bad # {}
  <2>1. Min(bad) \in bad
    BY <1>2, MinIsLeast
  <2>2. Try(results, v) = results[Min(bad)]
    BY <1>2 DEF Try
  <2> QED
    BY <2>1, <2>2
<1> QED
  BY <1>1, <1>2

\* A contract that decodes keeps its kind and what it carries.
LEMMA ContractDecodes ==
    ASSUME NEW c, DecodeContract(c).ok
    PROVE  LET kind == FromWire(c.type)
               m == IF c.parameter = None THEN EmptyParameter ELSE c.parameter
               v == DecodeContract(c).value
           IN  /\ kind \notin TypedKinds => v = [kind |-> kind, raw |-> m]
               /\ kind \in TypedKinds =>
                     v = [kind |-> kind, owner |-> m.owner, rest |-> m.rest,
                          other |-> IF m.other = <<>> THEN None ELSE m.other]
<1> DEFINE kind == FromWire(c.type)
           m == IF c.parameter = None THEN EmptyParameter ELSE c.parameter
           made == [kind |-> kind, owner |-> m.owner, rest |-> m.rest,
                    other |-> IF m.other = <<>> THEN None ELSE m.other]
           checks == ContractAddresses(kind, m)
<1>1. CASE kind \notin TypedKinds
  BY <1>1 DEF DecodeContract, Ok
<1>2. CASE kind \in TypedKinds
  <2>1. m.parses /\ DecodeContract(c) = Try(checks, made)
    BY <1>2 DEF DecodeContract, Err
  <2>2. DOMAIN checks \subseteq Nat
    BY DEF ContractAddresses
  <2>3. Try(checks, made) = Ok(made)
    BY <2>1, <2>2, TryOk
  <2> QED
    BY <1>2, <2>1, <2>3 DEF Ok
<1> QED
  BY <1>1, <1>2

\* A transaction that decodes has raw data; its contracts decode, one by one.
LEMMA TransactionDecodes ==
    ASSUME NEW tx, tx.raw_data # None => IsList(tx.raw_data.contract),
           DecodeTransaction(tx).ok
    PROVE  LET wire == tx.raw_data.contract
           IN  /\ tx.raw_data # None
               /\ \A c \in DOMAIN wire : DecodeContract(wire[c]).ok
               /\ DecodeTransaction(tx).value =
                     [hash |-> tx.raw_data.sha256,
                      contracts |-> [c \in DOMAIN wire |-> DecodeContract(wire[c]).value],
                      signatures |-> tx.signature]
<1> DEFINE wire == tx.raw_data.contract
           each == [c \in DOMAIN wire |-> DecodeContract(wire[c])]
           values == [c \in DOMAIN wire |-> DecodeContract(wire[c]).value]
           contracts == Try(each, values)
           made == [hash |-> tx.raw_data.sha256, contracts |-> contracts.value,
                    signatures |-> tx.signature]
<1>1. tx.raw_data # None
  BY DEF DecodeTransaction, Err
<1>2. DecodeTransaction(tx) = Try(<<contracts>>, made)
  BY <1>1 DEF DecodeTransaction, Collect
<1>3. contracts.ok /\ Try(<<contracts>>, made) = Ok(made)
  <2> HIDE DEF contracts, made
  <2>1. DOMAIN <<contracts>> \subseteq Nat /\ 1 \in DOMAIN <<contracts>>
        /\ <<contracts>>[1] = contracts
    OBVIOUS
  <2> QED
    BY <1>2, <2>1, TryOk
<1>4. DOMAIN each \subseteq Nat
  BY <1>1, ListPositions
<1>5. /\ \A c \in DOMAIN each : each[c].ok
      /\ contracts = Ok(values)
  <2> HIDE DEF each, values
  <2> QED
    BY <1>3, <1>4, TryOk
<1>6. DecodeTransaction(tx).value = made /\ contracts.value = values
  <2> HIDE DEF contracts, made, values
  <2> QED
    BY <1>2, <1>3, <1>5 DEF Ok
<1>7. made = [hash |-> tx.raw_data.sha256, contracts |-> values,
              signatures |-> tx.signature]
  <2> HIDE DEF contracts, values
  <2> QED
    BY <1>6
<1>8. \A c \in DOMAIN wire : DecodeContract(wire[c]).ok
  <2> HIDE DEF contracts
  <2> QED
    BY <1>5
<1> QED
  BY <1>1, <1>6, <1>7, <1>8

\* A block that decodes has a header with its raw data; its transactions decode, one
\* by one and in order.
LEMMA BlockDecodes ==
    ASSUME NEW b \in NodeBlock, Decoded(b).ok
    PROVE  LET raw == WireBlock[b].block_header.raw_data
               wire == WireBlock[b].transactions
               v == Decoded(b).value
           IN  /\ WireBlock[b].block_header # None /\ raw # None
               /\ v.header =
                     [height |-> ToU64(raw.number), block_id |-> BlockIdOf(raw),
                      parent_id |-> raw.parent_hash, raw_data_hash |-> raw.sha256,
                      timestamp_ms |-> raw.timestamp, witness |-> raw.witness_address]
               /\ \A k \in DOMAIN wire : DecodeTransaction(wire[k]).ok
               /\ v.transactions = [k \in DOMAIN wire |-> DecodeTransaction(wire[k]).value]
<1> DEFINE h == WireBlock[b].block_header
           raw == h.raw_data
           wire == WireBlock[b].transactions
           header == DecodeHeader(h)
           each == [k \in DOMAIN wire |-> DecodeTransaction(wire[k])]
           values == [k \in DOMAIN wire |-> DecodeTransaction(wire[k]).value]
           txs == Try(each, values)
           made == [header |-> header.value, transactions |-> txs.value]
           checks == <<BytesToBlockId(raw.parent_hash, "parent_hash"),
                       BytesToHash32(raw.tx_trie_root, "tx_trie_root"),
                       BytesToAddress(raw.witness_address, "witness_address")>>
           head == [height |-> ToU64(raw.number), block_id |-> BlockIdOf(raw),
                    parent_id |-> raw.parent_hash, raw_data_hash |-> raw.sha256,
                    timestamp_ms |-> raw.timestamp, witness |-> raw.witness_address]
<1>1. h # None
  BY DEF Decoded, DecodeBlockMessage, Err
<1>2. Decoded(b) = Try(<<header, txs>>, made)
  BY <1>1 DEF Decoded, DecodeBlockMessage, Collect
<1>3. header.ok /\ txs.ok /\ Try(<<header, txs>>, made) = Ok(made)
  <2> HIDE DEF header, txs, made
  <2> DEFINE two == <<header, txs>>
  <2>1. DOMAIN two \subseteq Nat /\ 1 \in DOMAIN two /\ 2 \in DOMAIN two
        /\ two[1] = header /\ two[2] = txs
    OBVIOUS
  <2>2. Try(two, made).ok
    BY <1>2
  <2> HIDE DEF two
  <2>3. (\A i \in DOMAIN two : two[i].ok) /\ Try(two, made) = Ok(made)
    BY <2>1, <2>2, TryOk
  <2> QED
    BY <2>1, <2>3 DEF two
<1>4. raw # None
  BY <1>3 DEF DecodeHeader, Err
<1>5. header = Try(checks, head)
  BY <1>4 DEF DecodeHeader
<1>6. header = Ok(head)
  <2>1. DOMAIN checks \subseteq Nat
    OBVIOUS
  <2> HIDE DEF header, checks, head
  <2> QED
    BY <1>3, <1>5, <2>1, TryOk
<1>7. DOMAIN each \subseteq Nat
  BY ListPositions, IngestAssumption
<1>8. (\A k \in DOMAIN each : each[k].ok) /\ txs = Ok(values)
  <2> HIDE DEF each, values
  <2> QED
    BY <1>3, <1>7, TryOk
<1>9. Decoded(b).value = made /\ header.value = head /\ txs.value = values
  <2> HIDE DEF header, head, txs, values, made
  <2> QED
    BY <1>2, <1>3, <1>6, <1>8 DEF Ok
<1>10. Decoded(b).value.header = head /\ Decoded(b).value.transactions = values
  <2> HIDE DEF header, head, txs, values
  <2> QED
    BY <1>9
<1>11. \A k \in DOMAIN wire : DecodeTransaction(wire[k]).ok
  <2> HIDE DEF txs
  <2> QED
    BY <1>8
<1> QED
  BY <1>1, <1>4, <1>10, <1>11

\* An info that decodes keeps its id, its outcome and all its logs.
LEMMA InfoDecodes ==
    ASSUME NEW r, IsList(r.log), DecodeTransactionInfo(r).ok
    PROVE  LET v == DecodeTransactionInfo(r).value
           IN  /\ v.tx_hash = r.id /\ v.success = (r.result = 0)
               /\ \A j \in DOMAIN r.log : DecodeLog(r.log[j]).ok
               /\ v.logs = [j \in DOMAIN r.log |-> DecodeLog(r.log[j]).value]
               /\ Len(v.logs) = Len(r.log)
<1> DEFINE each == [j \in DOMAIN r.log |-> DecodeLog(r.log[j])]
           values == [j \in DOMAIN r.log |-> DecodeLog(r.log[j]).value]
           logs == Try(each, values)
           internal == Collect(DecodeInternal, r.internal_transactions)
           contract == OptionalAddress(r.contract_address, "contract_address")
           id == BytesToTxHash(r.id, "id")
           checks == <<id, contract, logs, internal>>
           made == [tx_hash |-> r.id, block_height |-> ToU64(r.block_number),
                    success |-> r.result = 0, contract_address |-> contract.value,
                    resource |-> DecodeResource(r.receipt),
                    logs |-> logs.value, internal_transactions |-> internal.value]
<1>1. DecodeTransactionInfo(r) = Try(checks, made)
  BY DEF DecodeTransactionInfo, Collect
<1>2. logs.ok /\ DecodeTransactionInfo(r) = Ok(made)
  <2> HIDE DEF id, contract, logs, internal, made
  <2>1. DOMAIN checks \subseteq Nat /\ 3 \in DOMAIN checks /\ checks[3] = logs
    OBVIOUS
  <2> HIDE DEF checks
  <2> QED
    BY <1>1, <2>1, TryOk
<1>3. DOMAIN each \subseteq Nat /\ DOMAIN values = 1 .. Len(r.log) /\ Len(r.log) \in Nat
  BY ListPositions
<1>4. (\A j \in DOMAIN each : each[j].ok) /\ logs = Ok(values)
  <2> HIDE DEF each, values
  <2> QED
    BY <1>2, <1>3, TryOk
<1>5. Len(values) = Len(r.log)
  BY <1>3
<1>6. DecodeTransactionInfo(r).value = made /\ logs.value = values
  <2> HIDE DEF logs, values, made
  <2> QED
    BY <1>2, <1>4 DEF Ok
<1>7. made.tx_hash = r.id /\ made.success = (r.result = 0) /\ made.logs = values
  <2> HIDE DEF id, contract, logs, internal, values
  <2> QED
    BY <1>6
<1>8. \A j \in DOMAIN r.log : DecodeLog(r.log[j]).ok
  <2> HIDE DEF logs
  <2> QED
    BY <1>4
<1> QED
  <2> HIDE DEF made
  <2> QED
    BY <1>5, <1>6, <1>7, <1>8

\* What fetch_now_block makes of an answer to the second RPC.
InfosOf(list) == InfosOrEmpty(DecodeTransactionInfoList(list)).value

\* Every info of the list decodes.
Whole(list) == \A i \in DOMAIN list : DecodeTransactionInfo(list[i]).ok

\* All infos of a list, or none.
LEMMA InfosAllOrNothing ==
    ASSUME NEW list, IsList(list)
    PROVE  /\ InfosOrEmpty(DecodeTransactionInfoList(list)).ok
           /\ Whole(list) =>
                InfosOf(list) = [i \in DOMAIN list |-> DecodeTransactionInfo(list[i]).value]
           /\ ~ Whole(list) => InfosOf(list) = <<>>
<1> DEFINE each == [i \in DOMAIN list |-> DecodeTransactionInfo(list[i])]
           values == [i \in DOMAIN list |-> DecodeTransactionInfo(list[i]).value]
<1>1. DecodeTransactionInfoList(list) = Try(each, values)
  BY DEF DecodeTransactionInfoList, Collect
<1>2. DOMAIN each \subseteq Nat
  BY ListPositions
<1>3. Whole(list) <=> \A i \in DOMAIN each : each[i].ok
  BY DEF Whole
<1> HIDE DEF each, values
<1>4. /\ Try(each, values).ok <=> Whole(list)
      /\ Try(each, values).ok => Try(each, values) = Ok(values)
  BY <1>2, <1>3, TryOk
<1>5. /\ InfosOrEmpty(DecodeTransactionInfoList(list)).ok
      /\ Whole(list) => InfosOf(list) = values
      /\ ~ Whole(list) => InfosOf(list) = <<>>
  BY <1>1, <1>4 DEF InfosOrEmpty, InfosOf, Ok
<1> QED
  BY <1>5 DEF values

-----------------------------------------------------------------------------
(* Encoding *)

\* The infos with a given hash.
With(infos, hash) == {i \in DOMAIN infos : infos[i].tx_hash = hash}

\* The k-th transaction that is shipped: the one of the message, with its contracts
\* and the last info of its hash.
ShippedTx(b, infos, tx, k) ==
    LET raw == WireBlock[b].transactions[k].raw_data
        mine == With(infos, raw.sha256)
        info == infos[Max(mine)]
    IN  /\ raw # None
        /\ tx.id = raw.sha256
        /\ \A c \in DOMAIN raw.contract : DecodeContract(raw.contract[c]).ok
        /\ tx.contracts = [c \in DOMAIN raw.contract |->
                              EncodeContract(DecodeContract(raw.contract[c]).value)]
        /\ tx.info = IF mine = {} \/ info = None THEN None ELSE EncodeTxInfo(info)

\* A shipped block has the transactions of the message in their order.
LEMMA ShippedTransactions ==
    ASSUME NEW b \in NodeBlock, Decoded(b).ok, NEW infos, NEW s
    PROVE  LET txs == Shipped(b, infos, s).transactions
           IN  /\ DOMAIN txs = DOMAIN WireBlock[b].transactions
               /\ \A k \in DOMAIN txs : ShippedTx(b, infos, txs[k], k)
<1> DEFINE wire == WireBlock[b].transactions
           from == Decoded(b).value.transactions
           txs == Shipped(b, infos, s).transactions
<1>1. /\ \A k \in DOMAIN wire : DecodeTransaction(wire[k]).ok
      /\ from = [k \in DOMAIN wire |-> DecodeTransaction(wire[k]).value]
  BY BlockDecodes
<1>2. txs = [k \in DOMAIN from |-> EncodeTransaction(from[k], InfoFor(infos, from, k))]
  BY DEF Shipped, EncodeBlock
<1> HIDE DEF txs, from
<1>3. DOMAIN txs = DOMAIN wire
  BY <1>1, <1>2
<1>4. ASSUME NEW k \in DOMAIN wire
      PROVE  ShippedTx(b, infos, txs[k], k)
  <2> DEFINE raw == wire[k].raw_data
             mine == With(infos, raw.sha256)
             info == infos[Max(mine)]
             values == [c \in DOMAIN raw.contract |-> DecodeContract(raw.contract[c]).value]
  <2>1. raw # None => IsList(raw.contract)
    BY IngestAssumption
  <2>2. /\ raw # None
        /\ \A c \in DOMAIN raw.contract : DecodeContract(raw.contract[c]).ok
        /\ from[k] = [hash |-> raw.sha256, contracts |-> values, signatures |-> wire[k].signature]
    BY <1>1, <2>1, TransactionDecodes
  <2>3. from[k].hash = raw.sha256 /\ from[k].contracts = values
    <3> HIDE DEF values
    <3> QED
      BY <2>2
  <2>4. InfoFor(infos, from, k) = IF mine = {} THEN None ELSE info
    <3> HIDE DEF values
    <3> QED
      BY <2>3 DEF InfoFor, With
  <2>5. txs[k] = EncodeTransaction(from[k], IF mine = {} THEN None ELSE info)
    BY <1>1, <1>2, <2>4
  <2> HIDE DEF info, values, mine
  <2>6. /\ txs[k].id = raw.sha256
        /\ txs[k].contracts = [c \in DOMAIN values |-> EncodeContract(values[c])]
        /\ txs[k].info = IF mine = {} \/ info = None THEN None
                                         ELSE EncodeTxInfo(info)
    BY <2>3, <2>5 DEF EncodeTransaction
  <2>7. [c \in DOMAIN values |-> EncodeContract(values[c])] =
        [c \in DOMAIN raw.contract |-> EncodeContract(DecodeContract(raw.contract[c]).value)]
    BY DEF values
  <2> QED
    BY <2>2, <2>6, <2>7 DEF info, mine, ShippedTx
<1> QED
  BY <1>3, <1>4 DEF txs
-----------------------------------------------------------------------------
(* The invariant: the call that has returned is one of four *)

\* No block came.
NoBlock == last.head = None /\ last.list = None /\ last.result = Err("Rpc", "get_now_block")

\* No call has just returned.
Idle == last = NoCall

\* The block of head b does not decode, and that is the result.
Undecoded(b) ==
    /\ ~ Decoded(b).ok
    /\ last.head = b /\ last.list = None /\ last.result = Decoded(b)

\* The block was shipped, without infos or with those of an answer.
WithoutInfos(b, s) ==
    /\ Decoded(b).ok
    /\ last.head = b /\ last.list = None /\ last.result = Ok(Shipped(b, <<>>, s))

WithInfos(b, a, list, s) ==
    /\ Decoded(b).ok
    /\ last.head = b /\ last.answerer = a /\ last.list = list
    /\ last.result = Ok(Shipped(b, InfosOf(list), s))

\* What the last call may have returned.
Returned ==
    \/ Idle
    \/ NoBlock
    \/ \E b \in NodeBlock : Undecoded(b)
    \/ \E b \in NodeBlock : \E s \in SolidAtEmit : WithoutInfos(b, s)
    \/ \E b \in NodeBlock : \E s \in SolidAtEmit :
          \E a \in NodeBlock : \E list \in Answer[a] : WithInfos(b, a, list, s)

\* The inductive invariant: infos are only asked for a block that has been decoded.
CallInv ==
    /\ node \in NodeBlock
    /\ got # None => got \in NodeBlock /\ Decoded(got).ok
    /\ Returned

\* It holds before the first call.
LEMMA CallStart == IngestInit => CallInv
BY DEF IngestInit, CallInv, Returned, Idle

\* A block is decoded before its infos are asked for, and what is shipped is made
\* from it and from one answer.
LEMMA CallStep ==
    ASSUME CallInv, IngestNext
    PROVE  CallInv'
<1>1. ASSUME NEW b \in NodeBlock, NodeMoves(b) PROVE CallInv'
  BY <1>1 DEF NodeMoves, CallInv, Returned, Idle
<1>2. CASE BlockFails
  <2>1. node' \in NodeBlock /\ got' = None
    BY <1>2 DEF BlockFails, CallInv
  <2>2. CASE last' = [NoCall EXCEPT !.result = Err("Rpc", "get_now_block")]
    <3>1. NoBlock'
      BY <2>2 DEF NoBlock, NoCall
    <3> QED
      BY <2>1, <3>1 DEF CallInv, Returned
  <2>3. CASE /\ ~ Decoded(node).ok
             /\ last' = [NoCall EXCEPT !.head = node, !.result = Decoded(node)]
    <3>1. Undecoded(node)'
      BY <2>3, <1>2 DEF Undecoded, NoCall, BlockFails, Decoded
    <3> QED
      BY <2>1, <3>1 DEF CallInv, Returned
  <2> QED
    BY <1>2, <2>2, <2>3 DEF BlockFails
<1>3. CASE BlockOnly
  <2>1. PICK s \in SolidAtEmit :
           last' = [NoCall EXCEPT !.head = node, !.result = Ok(Shipped(node, <<>>, s))]
    BY <1>3 DEF BlockOnly
  <2>2. node \in NodeBlock /\ node' = node /\ got' = None /\ Decoded(node).ok
    BY <1>3 DEF BlockOnly, CallInv
  <2>3. WithoutInfos(node, s)'
    BY <2>1, <2>2 DEF WithoutInfos, NoCall
  <2> QED
    BY <2>2, <2>3 DEF CallInv, Returned
<1>4. CASE BlockFetched
  BY <1>4 DEF BlockFetched, CallInv, Returned, Idle
<1>5. ASSUME NEW b \in Branch[node], NEW list \in Answer[b], InfosAnswered(b, list)
      PROVE  CallInv'
  <2>1. b \in NodeBlock /\ IsList(list)
    BY <1>5, IngestAssumption DEF CallInv
  <2>2. InfosOrEmpty(DecodeTransactionInfoList(list)).ok
    BY <2>1, InfosAllOrNothing
  <2>3. PICK s \in SolidAtEmit :
           last' = [head |-> got, answerer |-> b, list |-> list,
                    result |-> Ok(Shipped(got, InfosOf(list), s))]
    BY <1>5, <2>2 DEF InfosAnswered, InfosOf
  <2>4. node \in NodeBlock /\ node' = node /\ got' = None
        /\ got \in NodeBlock /\ Decoded(got).ok
    BY <1>5 DEF InfosAnswered, CallInv
  <2>5. PICK g \in NodeBlock : g = got
    BY <2>4
  <2>6. WithInfos(g, b, list, s)'
    BY <2>3, <2>4, <2>5 DEF WithInfos
  <2> QED
    BY <2>1, <2>4, <2>6 DEF CallInv, Returned
<1>6. CASE InfosFail
  <2>1. PICK s \in SolidAtEmit :
           last' = [NoCall EXCEPT !.head = got, !.result = Ok(Shipped(got, <<>>, s))]
    BY <1>6 DEF InfosFail
  <2>2. node \in NodeBlock /\ node' = node /\ got' = None
        /\ got \in NodeBlock /\ Decoded(got).ok
    BY <1>6 DEF InfosFail, CallInv
  <2>3. PICK g \in NodeBlock : g = got
    BY <2>2
  <2>4. WithoutInfos(g, s)'
    BY <2>1, <2>2, <2>3 DEF WithoutInfos, NoCall
  <2> QED
    BY <2>2, <2>4 DEF CallInv, Returned
<1> QED
  BY <1>1, <1>2, <1>3, <1>4, <1>5, <1>6 DEF IngestNext

\* It holds in every state; registering signatures does not touch the call.
LEMMA CallInvariance == IngestEventsSpec => []CallInv
<1>1. IngestEventsInit => CallInv
  BY CallStart DEF IngestEventsInit
<1>2. CallInv /\ [IngestEventsNext]_allVars => CallInv'
  <2> SUFFICES ASSUME CallInv, [IngestEventsNext]_allVars PROVE CallInv'
    OBVIOUS
  <2>1. CASE IngestNext
    BY <2>1, CallStep
  <2>2. CASE UNCHANGED ingestVars
    BY <2>2 DEF ingestVars, CallInv, Returned, Idle, NoBlock, Undecoded, WithoutInfos,
                WithInfos
  <2> QED
    BY <2>1, <2>2 DEF IngestEventsNext, allVars
<1> QED
  BY <1>1, <1>2, PTL DEF IngestEventsSpec
-----------------------------------------------------------------------------
(* What is shipped *)

\* The block that was shipped, from which head and with which infos.
Ships(b, infos, s) ==
    /\ Decoded(b).ok /\ last.head = b
    /\ last.result.ok /\ Sent = Shipped(b, infos, s)

\* A call that returned a block shipped one, with the infos of its answer or none.
LEMMA ReturnedShips ==
    ASSUME CallInv
    PROVE  /\ last.head # None /\ last.result.ok =>
                \E b \in NodeBlock : \E s \in SolidAtEmit : \E infos : Ships(b, infos, s)
           /\ last.list # None /\ last.result.ok =>
                \E b \in NodeBlock : \E s \in SolidAtEmit :
                   \E a \in NodeBlock : /\ last.answerer = a /\ last.list \in Answer[a]
                                        /\ Ships(b, InfosOf(last.list), s)
<1>1. CASE Idle
  BY <1>1 DEF Idle, NoCall
<1>2. CASE NoBlock
  BY <1>2 DEF NoBlock
<1>3. CASE \E b \in NodeBlock : Undecoded(b)
  BY <1>3 DEF Undecoded
<1>4. ASSUME NEW b \in NodeBlock, NEW s \in SolidAtEmit, WithoutInfos(b, s)
      PROVE  last.list = None /\ Ships(b, <<>>, s)
  BY <1>4 DEF WithoutInfos, Ships, Sent, Ok
<1>5. ASSUME NEW b \in NodeBlock, NEW s \in SolidAtEmit, NEW a \in NodeBlock,
             NEW list \in Answer[a], WithInfos(b, a, list, s)
      PROVE  last.answerer = a /\ last.list = list /\ Ships(b, InfosOf(list), s)
  BY <1>5 DEF WithInfos, Ships, Sent, Ok
<1> QED
  BY <1>1, <1>2, <1>3, <1>4, <1>5 DEF CallInv, Returned

\* A block is shipped exactly when it decodes, whatever became of its infos.
LEMMA NeverHalts == CallInv => InfosNeverHaltStream
<1> SUFFICES ASSUME CallInv, last.head # None PROVE InfosNeverHaltStream
  BY DEF InfosNeverHaltStream
<1>1. last.result.ok <=> Decoded(last.head).ok
  <2>1. CASE Idle
    BY <2>1 DEF Idle, NoCall
  <2>2. CASE NoBlock
    BY <2>2 DEF NoBlock
  <2>3. CASE \E b \in NodeBlock : Undecoded(b)
    BY <2>3 DEF Undecoded
  <2>4. CASE \E b \in NodeBlock : \E s \in SolidAtEmit : WithoutInfos(b, s)
    BY <2>4 DEF WithoutInfos, Ok
  <2>5. CASE \E b \in NodeBlock : \E s \in SolidAtEmit :
                \E a \in NodeBlock : \E list \in Answer[a] : WithInfos(b, a, list, s)
    BY <2>5 DEF WithInfos, Ok
  <2> QED
    BY <2>1, <2>2, <2>3, <2>4, <2>5 DEF CallInv, Returned
<1>2. ASSUME last.result.ok
      PROVE  [k \in SentTxs |-> Sent.transactions[k].id] =
             [k \in DOMAIN WireBlock[last.head].transactions |->
                 WireBlock[last.head].transactions[k].raw_data.sha256]
  <2>1. PICK b \in NodeBlock, s \in SolidAtEmit : \E infos : Ships(b, infos, s)
    BY <1>2, ReturnedShips
  <2>0. PICK infos : Ships(b, infos, s)
    BY <2>1
  <2> DEFINE wire == WireBlock[b].transactions
             txs == Shipped(b, infos, s).transactions
  <2>2. /\ DOMAIN txs = DOMAIN wire
        /\ \A k \in DOMAIN wire : txs[k].id = wire[k].raw_data.sha256
    <3>1. DOMAIN txs = DOMAIN wire /\ \A k \in DOMAIN txs : ShippedTx(b, infos, txs[k], k)
      BY <2>0, ShippedTransactions DEF Ships
    <3> QED
      BY <3>1 DEF ShippedTx
  <2>3. last.head = b /\ Sent.transactions = txs /\ SentTxs = DOMAIN txs
    BY <2>0 DEF Ships, SentTxs
  <2> QED
    BY <2>2, <2>3
<1> QED
  BY <1>1, <1>2 DEF InfosNeverHaltStream

\* The infos of a transaction in an answer are the positions with its id, when all
\* of the answer decodes, and none otherwise; the chosen one is encoded from what
\* stands there.
LEMMA InfoOfAnswer ==
    ASSUME NEW a \in NodeBlock, NEW list \in Answer[a], NEW hash
    PROVE  LET mine == {i \in DOMAIN list : list[i].id = hash}
               those == With(InfosOf(list), hash)
           IN  /\ Whole(list) => those = mine
               /\ ~ Whole(list) => those = {}
               /\ those # {} =>
                    LET m == Max(those)
                    IN  /\ m \in mine /\ DecodeTransactionInfo(list[m]).ok
                        /\ InfosOf(list)[m] = DecodeTransactionInfo(list[m]).value
                        /\ \A i \in mine : i <= m
<1> DEFINE mine == {i \in DOMAIN list : list[i].id = hash}
           those == With(InfosOf(list), hash)
           values == [i \in DOMAIN list |-> DecodeTransactionInfo(list[i]).value]
<1>1. IsList(list) /\ \A i \in DOMAIN list : IsList(list[i].log)
  BY IngestAssumption
<1>2. /\ Whole(list) => InfosOf(list) = values
      /\ ~ Whole(list) => InfosOf(list) = <<>>
  BY <1>1, InfosAllOrNothing
<1>3. ASSUME Whole(list), NEW i \in DOMAIN list
      PROVE  /\ DecodeTransactionInfo(list[i]).ok
             /\ DecodeTransactionInfo(list[i]).value.tx_hash = list[i].id
  <2>1. DecodeTransactionInfo(list[i]).ok
    BY <1>3 DEF Whole
  <2> QED
    BY <1>1, <2>1, InfoDecodes
<1>4. Whole(list) => those = mine
  BY <1>2, <1>3 DEF With
<1>5. ~ Whole(list) => those = {}
  BY <1>2 DEF With
<1>6. ASSUME those # {}
      PROVE  /\ Max(those) \in mine /\ DecodeTransactionInfo(list[Max(those)]).ok
             /\ InfosOf(list)[Max(those)] = DecodeTransactionInfo(list[Max(those)]).value
             /\ \A i \in mine : i <= Max(those)
  <2>1. Whole(list) /\ those = mine
    BY <1>4, <1>5, <1>6
  <2>2. Len(list) \in Nat /\ mine \subseteq 1 .. Len(list)
    BY <1>1, ListPositions
  <2>3. Max(mine) \in mine /\ \A i \in mine : i <= Max(mine)
    <3> HIDE DEF mine, those
    <3> QED
      BY <1>6, <2>1, <2>2, MaxIsGreatest
  <2> QED
    BY <1>2, <1>3, <2>1, <2>3
<1> QED
  BY <1>4, <1>5, <1>6

\* Each transaction has what was answered for its id, all of them or none.
LEMMA Joined == CallInv => ReceiptsJoined
<1> SUFFICES ASSUME CallInv, last.list # None, last.result.ok PROVE ReceiptsJoined
  BY DEF ReceiptsJoined
<1>1. PICK b \in NodeBlock, s \in SolidAtEmit, a \in NodeBlock :
         last.list \in Answer[a] /\ Ships(b, InfosOf(last.list), s)
  BY ReturnedShips
<1>2. PICK list \in Answer[a] : list = last.list
  BY <1>1
<1> DEFINE txs == Shipped(b, InfosOf(list), s).transactions
           wire == WireBlock[b].transactions
<1>3. Sent.transactions = txs /\ SentTxs = DOMAIN wire
  BY <1>1, <1>2, ShippedTransactions DEF Ships, SentTxs
<1>4. ASSUME NEW k \in DOMAIN wire
      PROVE  LET mine == {i \in DOMAIN list : list[i].id = txs[k].id}
             IN  /\ txs[k].info # None <=> Whole(list) /\ mine # {}
                 /\ txs[k].info # None => \E i \in mine :
                       /\ txs[k].info.success <=> list[i].result = 0
                       /\ Len(txs[k].info.logs) = Len(list[i].log)
  <2> DEFINE hash == wire[k].raw_data.sha256
             mine == {i \in DOMAIN list : list[i].id = hash}
             those == With(InfosOf(list), hash)
             m == Max(those)
             info == InfosOf(list)[m]
  <2>1. /\ txs[k].id = hash
        /\ txs[k].info = IF those = {} \/ info = None THEN None ELSE EncodeTxInfo(info)
    <3>1. ShippedTx(b, InfosOf(list), txs[k], k)
      BY <1>1, <1>2, ShippedTransactions DEF Ships
    <3> QED
      BY <3>1 DEF ShippedTx
  <2>2. /\ Whole(list) => those = mine
        /\ ~ Whole(list) => those = {}
        /\ those # {} => /\ m \in mine /\ DecodeTransactionInfo(list[m]).ok
                         /\ info = DecodeTransactionInfo(list[m]).value
    BY InfoOfAnswer
  <2> HIDE DEF txs, those, m, info, hash
  <2>3. those # {} => /\ info # None /\ EncodeTxInfo(info) # None
                      /\ IsList(list[m].log)
    BY <2>2, IngestAssumption
  <2>4. those # {} => /\ info.success = (list[m].result = 0)
                      /\ Len(info.logs) = Len(list[m].log)
    BY <2>2, <2>3, InfoDecodes
  <2>5. EncodeTxInfo(info).success = info.success /\ EncodeTxInfo(info).logs = info.logs
    BY DEF EncodeTxInfo
  <2>6. txs[k].info # None <=> Whole(list) /\ mine # {}
    BY <2>1, <2>2, <2>3
  <2>7. txs[k].info # None => \E i \in mine :
                       /\ txs[k].info.success <=> list[i].result = 0
                       /\ Len(txs[k].info.logs) = Len(list[i].log)
    BY <2>1, <2>2, <2>3, <2>4, <2>5
  <2> QED
    BY <2>1, <2>6, <2>7
<1> QED
  BY <1>2, <1>3, <1>4 DEF ReceiptsJoined, Whole

\* The receipts of the block itself reach the transactions they belong to.
LEMMA Own == CallInv => OwnReceipts
<1> SUFFICES ASSUME CallInv, last.list # None, last.result.ok, last.answerer = last.head,
                    {last.list[i] : i \in DOMAIN last.list} = Receipt[last.head],
                    \A r \in Receipt[last.head] : DecodeTransactionInfo(r).ok
             PROVE  \A k \in SentTxs :
                      \E r \in Receipt[last.head] :
                        /\ r.id = Sent.transactions[k].id
                        /\ Sent.transactions[k].info = EncodeTxInfo(DecodeTransactionInfo(r).value)
  BY DEF OwnReceipts
<1>1. PICK b \in NodeBlock, s \in SolidAtEmit, a \in NodeBlock :
         last.list \in Answer[a] /\ Ships(b, InfosOf(last.list), s)
  BY ReturnedShips
<1>2. PICK list \in Answer[a] : list = last.list
  BY <1>1
<1> DEFINE txs == Shipped(b, InfosOf(list), s).transactions
           wire == WireBlock[b].transactions
<1>3. last.head = b /\ Sent.transactions = txs /\ SentTxs = DOMAIN wire
  BY <1>1, <1>2, ShippedTransactions DEF Ships, SentTxs
<1>4. Whole(list) /\ \A i \in DOMAIN list : list[i] \in Receipt[b]
  BY <1>2, <1>3 DEF Whole
<1>5. ASSUME NEW k \in DOMAIN wire
      PROVE  \E r \in Receipt[b] :
                /\ r.id = txs[k].id
                /\ txs[k].info = EncodeTxInfo(DecodeTransactionInfo(r).value)
  <2> DEFINE hash == wire[k].raw_data.sha256
             mine == {i \in DOMAIN list : list[i].id = hash}
             those == With(InfosOf(list), hash)
             m == Max(those)
             info == InfosOf(list)[m]
  <2>1. /\ wire[k].raw_data # None
        /\ txs[k].id = hash
        /\ txs[k].info = IF those = {} \/ info = None THEN None ELSE EncodeTxInfo(info)
    <3>1. ShippedTx(b, InfosOf(list), txs[k], k)
      BY <1>1, <1>2, ShippedTransactions DEF Ships
    <3> QED
      BY <3>1 DEF ShippedTx
  <2>2. PICK r \in Receipt[b] : r.id = hash
    BY <2>1, IngestAssumption
  <2>3. PICK i \in DOMAIN list : list[i] = r
    BY <1>2, <1>3
  <2>4. mine # {}
    BY <2>2, <2>3
  <2>5. those # {} /\ m \in mine /\ DecodeTransactionInfo(list[m]).ok
        /\ info = DecodeTransactionInfo(list[m]).value
    BY <1>4, <2>4, InfoOfAnswer
  <2> HIDE DEF txs, those, m, info, hash
  <2>6. info # None
    BY <2>5, IngestAssumption
  <2>7. list[m] \in Receipt[b] /\ list[m].id = hash
    BY <1>4, <2>5
  <2> QED
    BY <2>1, <2>5, <2>6, <2>7
<1> QED
  BY <1>3, <1>5
-----------------------------------------------------------------------------
(* From the wire to the client *)

\* from_wire_enum and to_wire_tag are inverse: the code writes the table out twice.
LEMMA KindsRoundTrip ==
    ASSUME NEW tag \in WireEnum
    PROVE  WireTags[FromWireEnum[tag]] = tag /\ FromWireEnum[tag] # "Other"
<1>1. tag \in {0, 1, 2, 3, 4, 5, 6, 8, 9, 10, 11, 12, 13, 14, 15, 16, 17, 18, 19, 20,
              30, 31, 32, 33, 41, 42, 43, 44, 45, 46, 48, 49, 51, 52, 53, 54, 55, 56, 57, 58, 59}
  BY DEF WireEnum
<1>2. FromWireEnum[0] = "AccountCreate" /\ FromWireEnum[1] = "Transfer"
      /\ FromWireEnum[2] = "TransferAsset" /\ FromWireEnum[3] = "VoteAsset"
      /\ FromWireEnum[4] = "VoteWitness" /\ FromWireEnum[5] = "WitnessCreate"
      /\ FromWireEnum[6] = "AssetIssue" /\ FromWireEnum[8] = "WitnessUpdate"
      /\ FromWireEnum[9] = "ParticipateAssetIssue" /\ FromWireEnum[10] = "AccountUpdate"
      /\ FromWireEnum[11] = "FreezeBalance" /\ FromWireEnum[12] = "UnfreezeBalance"
      /\ FromWireEnum[13] = "WithdrawBalance" /\ FromWireEnum[14] = "UnfreezeAsset"
      /\ FromWireEnum[15] = "UpdateAsset" /\ FromWireEnum[16] = "ProposalCreate"
      /\ FromWireEnum[17] = "ProposalApprove" /\ FromWireEnum[18] = "ProposalDelete"
      /\ FromWireEnum[19] = "SetAccountId" /\ FromWireEnum[20] = "Custom"
      /\ FromWireEnum[30] = "CreateSmartContract"
      /\ FromWireEnum[31] = "TriggerSmartContract" /\ FromWireEnum[32] = "GetContract"
      /\ FromWireEnum[33] = "UpdateSetting" /\ FromWireEnum[41] = "ExchangeCreate"
      /\ FromWireEnum[42] = "ExchangeInject" /\ FromWireEnum[43] = "ExchangeWithdraw"
      /\ FromWireEnum[44] = "ExchangeTransaction" /\ FromWireEnum[45] = "UpdateEnergyLimit"
      /\ FromWireEnum[46] = "AccountPermissionUpdate" /\ FromWireEnum[48] = "ClearAbi"
      /\ FromWireEnum[49] = "UpdateBrokerage" /\ FromWireEnum[51] = "ShieldedTransfer"
      /\ FromWireEnum[52] = "MarketSellAsset" /\ FromWireEnum[53] = "MarketCancelOrder"
      /\ FromWireEnum[54] = "FreezeBalanceV2" /\ FromWireEnum[55] = "UnfreezeBalanceV2"
      /\ FromWireEnum[56] = "WithdrawExpireUnfreeze"
      /\ FromWireEnum[57] = "DelegateResource" /\ FromWireEnum[58] = "UnDelegateResource"
      /\ FromWireEnum[59] = "CancelAllUnfreezeV2"
  BY DEF FromWireEnum, WireEnum
<1>3. WireTags["AccountCreate"] = 0 /\ WireTags["Transfer"] = 1
      /\ WireTags["TransferAsset"] = 2 /\ WireTags["VoteAsset"] = 3
      /\ WireTags["VoteWitness"] = 4 /\ WireTags["WitnessCreate"] = 5
      /\ WireTags["AssetIssue"] = 6 /\ WireTags["WitnessUpdate"] = 8
      /\ WireTags["ParticipateAssetIssue"] = 9 /\ WireTags["AccountUpdate"] = 10
      /\ WireTags["FreezeBalance"] = 11 /\ WireTags["UnfreezeBalance"] = 12
      /\ WireTags["WithdrawBalance"] = 13 /\ WireTags["UnfreezeAsset"] = 14
      /\ WireTags["UpdateAsset"] = 15 /\ WireTags["ProposalCreate"] = 16
      /\ WireTags["ProposalApprove"] = 17 /\ WireTags["ProposalDelete"] = 18
      /\ WireTags["SetAccountId"] = 19 /\ WireTags["Custom"] = 20
      /\ WireTags["CreateSmartContract"] = 30 /\ WireTags["TriggerSmartContract"] = 31
      /\ WireTags["GetContract"] = 32 /\ WireTags["UpdateSetting"] = 33
      /\ WireTags["ExchangeCreate"] = 41 /\ WireTags["ExchangeInject"] = 42
      /\ WireTags["ExchangeWithdraw"] = 43 /\ WireTags["ExchangeTransaction"] = 44
      /\ WireTags["UpdateEnergyLimit"] = 45 /\ WireTags["AccountPermissionUpdate"] = 46
      /\ WireTags["ClearAbi"] = 48 /\ WireTags["UpdateBrokerage"] = 49
      /\ WireTags["ShieldedTransfer"] = 51 /\ WireTags["MarketSellAsset"] = 52
      /\ WireTags["MarketCancelOrder"] = 53 /\ WireTags["FreezeBalanceV2"] = 54
      /\ WireTags["UnfreezeBalanceV2"] = 55 /\ WireTags["WithdrawExpireUnfreeze"] = 56
      /\ WireTags["DelegateResource"] = 57 /\ WireTags["UnDelegateResource"] = 58
      /\ WireTags["CancelAllUnfreezeV2"] = 59
  BY DEF WireTags
<1> QED
  BY <1>1, <1>2, <1>3

\* A client recovers the contract type, whether the vendored enum knows it or not, and
\* the payload.
LEMMA ContractSurvives ==
    ASSUME NEW c, c.type \in Int, DecodeContract(c).ok
    PROVE  LET pb == EncodeContract(DecodeContract(c).value)
           IN  /\ TagOf(pb) = c.type
               /\ c.parameter # None => pb.payload.rest = c.parameter.rest
<1> DEFINE kind == FromWire(c.type)
           m == IF c.parameter = None THEN EmptyParameter ELSE c.parameter
           v == DecodeContract(c).value
           pb == EncodeContract(v)
<1>1. /\ kind \notin TypedKinds => v = [kind |-> kind, raw |-> m]
      /\ kind \in TypedKinds =>
            v = [kind |-> kind, owner |-> m.owner, rest |-> m.rest,
                 other |-> IF m.other = <<>> THEN None ELSE m.other]
  BY ContractDecodes
<1>2. CASE kind \notin TypedKinds
  <2>1. v.kind = kind /\ v.raw = m
    <3> HIDE DEF kind, m, v
    <3> QED
      BY <1>1, <1>2
  <2>2. pb.kind = 99 /\ pb.unknown_kind = ToWireTag(kind) /\ pb.payload = m
    <3> HIDE DEF kind, m, v
    <3> QED
      BY <1>2, <2>1 DEF EncodeContract
  <2>3. ToWireTag(kind) = c.type
    <3>1. CASE c.type \in WireEnum
      <4>1. kind[1] = FromWireEnum[c.type]
        BY <3>1 DEF FromWire
      <4>2. WireTags[FromWireEnum[c.type]] = c.type /\ FromWireEnum[c.type] # "Other"
        BY <3>1, KindsRoundTrip
      <4> QED
        BY <4>1, <4>2 DEF ToWireTag
    <3>2. CASE c.type \notin WireEnum
      BY <3>2 DEF FromWire, ToWireTag
    <3> QED
      BY <3>1, <3>2
  <2>4. TagOf(pb) = c.type
    <3> HIDE DEF pb, kind
    <3> QED
      BY <2>2, <2>3 DEF TagOf
  <2> QED
    BY <2>2, <2>4
<1>3. CASE kind \in TypedKinds
  <2>1. PICK name \in {"Transfer", "TransferAsset", "TriggerSmartContract",
                       "CreateSmartContract"} : kind = <<name>>
    BY <1>3 DEF TypedKinds
  <2>2. v.kind = kind /\ v.rest = m.rest
    <3> HIDE DEF kind, m, v
    <3> QED
      BY <1>1, <1>3
  <2>3. pb.kind = PbKinds[name] /\ pb.payload.rest = m.rest
    <3>1. v.kind \in TypedKinds /\ v.kind[1] = name
      BY <1>3, <2>1, <2>2
    <3> HIDE DEF kind, m, v
    <3> QED
      BY <2>2, <3>1 DEF EncodeContract
  <2>4. c.type \in WireEnum /\ FromWireEnum[c.type] = name
    BY <2>1 DEF FromWire
  <2>5. c.type = WireTags[name]
    BY <2>4, KindsRoundTrip
  <2>6. /\ FromWireEnum[1] = "Transfer" /\ FromWireEnum[2] = "TransferAsset"
        /\ FromWireEnum[31] = "TriggerSmartContract" /\ FromWireEnum[30] = "CreateSmartContract"
    BY DEF FromWireEnum, WireEnum
  <2>7. /\ WireTags["Transfer"] = 1 /\ WireTags["TransferAsset"] = 2
        /\ WireTags["TriggerSmartContract"] = 31 /\ WireTags["CreateSmartContract"] = 30
    BY DEF WireTags
  <2>8. /\ PbKinds["Transfer"] = 1 /\ PbKinds["TransferAsset"] = 2
        /\ PbKinds["TriggerSmartContract"] = 3 /\ PbKinds["CreateSmartContract"] = 4
    BY DEF PbKinds
  <2>9. /\ c.type \in {1, 2, 31, 30} /\ PbKinds[FromWireEnum[c.type]] = PbKinds[name]
        /\ \A t \in {1, 2, 31, 30} : PbKinds[FromWireEnum[t]] = PbKinds[name] => t = c.type
        /\ PbKinds[name] # 99
    BY <2>5, <2>6, <2>7, <2>8
  <2>10. (CHOOSE t \in {1, 2, 31, 30} : PbKinds[FromWireEnum[t]] = PbKinds[name]) = c.type
    BY <2>9
  <2>11. TagOf(pb) = c.type
    <3> HIDE DEF pb
    <3> QED
      BY <2>3, <2>9, <2>10 DEF TagOf
  <2> QED
    BY <2>3, <2>11
<1> QED
  BY <1>2, <1>3

\* The timestamp is the same instant, before and after 1970.
LEMMA SameInstant ==
    ASSUME NEW ms \in Int
    PROVE  LET t == TimestampFromMs(ms)
           IN  t.seconds * 1000 + t.nanos \div 1000000 = ms
<1>1. CASE ms >= 0
  <2>1. TimestampFromMs(ms).seconds = ms \div 1000
        /\ TimestampFromMs(ms).nanos = (ms % 1000) * 1000000
    BY <1>1 DEF TimestampFromMs
  <2> QED
    BY <1>1, <2>1
<1>2. CASE ms < 0
  <2>1. TimestampFromMs(ms).seconds = - ((- ms) \div 1000)
        /\ TimestampFromMs(ms).nanos = - (((- ms) % 1000) * 1000000)
    BY <1>2 DEF TimestampFromMs
  <2> QED
    BY <1>2, <2>1
<1> QED
  BY <1>1, <1>2

\* The id of a block that decodes begins with its number.
LEMMA IdBeginsWithNumber ==
    ASSUME NEW raw, raw.number \in Nat, IsList(raw.sha256), Len(raw.sha256) = WordLen
    PROVE  SubSeq(BlockIdOf(raw), 1, HeightLen) = BeBytes(raw.number)
<1> DEFINE T == {raw.sha256[i] : i \in DOMAIN raw.sha256}
           U == T \cup {BeBytes(raw.number)[i] : i \in 1 .. HeightLen}
           front == BeBytes(raw.number)
           back == SubSeq(raw.sha256, HeightLen + 1, WordLen)
<1>1. HeightLen \in Nat /\ WordLen \in Nat /\ HeightLen + 1 \in 1 .. WordLen
  BY CodecAssumption
<1>2. front \in Seq(U) /\ Len(front) = HeightLen
  <2>1. front = [i \in 1 .. HeightLen |-> front[i]]
    BY DEF BeBytes
  <2>2. \A i \in 1 .. HeightLen : front[i] \in U
    OBVIOUS
  <2> HIDE DEF front, U
  <2> QED
    BY <1>1, <2>1, <2>2
<1>3. back \in Seq(U)
  <2>1. raw.sha256 \in Seq(U)
    BY DEF IsList
  <2> QED
    BY <1>1, <2>1, SubSeqProperties
<1> HIDE DEF front, back, U
<1>4. SubSeq(front \o back, 1, HeightLen) = front
  <2>1. front \o back \in Seq(U) /\ Len(front \o back) >= HeightLen
        /\ \A i \in 1 .. HeightLen : (front \o back)[i] = front[i]
    BY <1>1, <1>2, <1>3
  <2>2. SubSeq(front \o back, 1, HeightLen) \in Seq(U)
        /\ Len(SubSeq(front \o back, 1, HeightLen)) = HeightLen
        /\ \A i \in 1 .. HeightLen : SubSeq(front \o back, 1, HeightLen)[i] = front[i]
    BY <1>1, <2>1
  <2> QED
    BY <1>1, <1>2, <2>2
<1> QED
  BY <1>4 DEF BlockIdOf, front, back

\* Number, id, time and finality of a shipped block.
LEMMA ShippedHeader ==
    ASSUME NEW b \in NodeBlock, Decoded(b).ok, NEW infos, NEW s \in SolidAtEmit
    PROVE  LET raw == WireBlock[b].block_header.raw_data
               sent == Shipped(b, infos, s)
           IN  /\ raw.number \in Int /\ raw.timestamp \in Int
               /\ IsList(raw.sha256) /\ Len(raw.sha256) = WordLen
               /\ sent.number = ToU64(raw.number) /\ sent.id = BlockIdOf(raw)
               /\ sent.time = TimestampFromMs(raw.timestamp)
               /\ sent.finality = EncodeFinality(FinalityAt(ToU64(raw.number), s))
<1> DEFINE raw == WireBlock[b].block_header.raw_data
           h == Decoded(b).value.header
           sent == Shipped(b, infos, s)
<1>1. /\ WireBlock[b].block_header # None /\ raw # None
      /\ h = [height |-> ToU64(raw.number), block_id |-> BlockIdOf(raw),
              parent_id |-> raw.parent_hash, raw_data_hash |-> raw.sha256,
              timestamp_ms |-> raw.timestamp, witness |-> raw.witness_address]
  BY BlockDecodes
<1>2. raw.number \in Int /\ raw.timestamp \in Int
      /\ IsList(raw.sha256) /\ Len(raw.sha256) = WordLen
  BY <1>1, IngestAssumption
<1>3. h.height = ToU64(raw.number) /\ h.block_id = BlockIdOf(raw)
      /\ h.timestamp_ms = raw.timestamp
  <2> HIDE DEF h
  <2> QED
    BY <1>1
<1>4. sent.number = h.height /\ sent.id = h.block_id
      /\ sent.time = TimestampFromMs(h.timestamp_ms)
      /\ sent.finality = EncodeFinality(FinalityAt(h.height, s))
  BY DEF Shipped, EncodeBlock
<1> QED
  <2> HIDE DEF h, sent
  <2> QED
    BY <1>2, <1>3, <1>4 DEF sent

\* FINALIZED is only said with a head at or above the block.
LEMMA FinalizedHasHead ==
    ASSUME NEW height \in Nat, NEW s \in SolidAtEmit
    PROVE  LET f == EncodeFinality(FinalityAt(height, s))
           IN  f.tier = 3 => f.solidified_head_number >= height
<1>1. s = None \/ s \in Nat
  BY IngestAssumption
<1> DEFINE f == FinalityAt(height, s)
<1>2. /\ f.solidified_head = s
      /\ f.tier = IF s # None /\ height <= s THEN "Finalized" ELSE "Seen"
  BY DEF FinalityAt
<1>3. EncodeFinalityTier("Seen") = 1
  BY DEF EncodeFinalityTier
<1>4. /\ EncodeFinality(f).tier = EncodeFinalityTier(f.tier)
      /\ EncodeFinality(f).solidified_head_number =
            IF f.solidified_head = None THEN 0 ELSE f.solidified_head
  BY DEF EncodeFinality
<1> QED
  <2> HIDE DEF f
  <2> QED
    BY <1>1, <1>2, <1>3, <1>4 DEF f

\* Contracts, id, time and finality of what is shipped are those of the message.
LEMMA Faithful == CallInv => WireFaithful
<1> SUFFICES ASSUME CallInv, last.head # None, last.result.ok PROVE WireFaithful
  BY DEF WireFaithful
<1>1. PICK b \in NodeBlock, s \in SolidAtEmit : \E infos : Ships(b, infos, s)
  BY ReturnedShips
<1>2. PICK infos : Ships(b, infos, s)
  BY <1>1
<1> DEFINE wire == WireBlock[b].transactions
           raw == WireBlock[b].block_header.raw_data
           sent == Shipped(b, infos, s)
<1>3. Decoded(b).ok /\ last.head = b /\ Sent = sent
  BY <1>2 DEF Ships
<1>4. ASSUME NEW k \in DOMAIN sent.transactions,
             NEW c \in DOMAIN sent.transactions[k].contracts
      PROVE  LET pb == sent.transactions[k].contracts[c]
                 w == wire[k].raw_data.contract[c]
             IN  /\ TagOf(pb) = w.type
                 /\ w.parameter # None => pb.payload.rest = w.parameter.rest
  <2> DEFINE tx == sent.transactions[k]
             contract == wire[k].raw_data.contract
  <2>1. ShippedTx(b, infos, tx, k) /\ k \in DOMAIN wire
    BY <1>3, ShippedTransactions
  <2>2. /\ wire[k].raw_data # None
        /\ tx.contracts = [i \in DOMAIN contract |-> EncodeContract(DecodeContract(contract[i]).value)]
        /\ \A i \in DOMAIN contract : DecodeContract(contract[i]).ok
    BY <2>1 DEF ShippedTx
  <2>3. c \in DOMAIN contract
        /\ tx.contracts[c] = EncodeContract(DecodeContract(contract[c]).value)
    <3> HIDE DEF tx
    <3> QED
      BY <1>4, <2>2 DEF tx
  <2>4. contract[c].type \in Int /\ DecodeContract(contract[c]).ok
    BY <2>1, <2>2, <2>3, IngestAssumption
  <2> QED
    BY <2>3, <2>4, ContractSurvives
<1>5. /\ raw.number \in Int /\ raw.timestamp \in Int
      /\ IsList(raw.sha256) /\ Len(raw.sha256) = WordLen
      /\ sent.number = ToU64(raw.number) /\ sent.id = BlockIdOf(raw)
      /\ sent.time = TimestampFromMs(raw.timestamp)
      /\ sent.finality = EncodeFinality(FinalityAt(ToU64(raw.number), s))
  BY <1>3, ShippedHeader
<1> HIDE DEF sent
<1>6. ToU64(raw.number) \in Nat /\ (raw.number >= 0 => ToU64(raw.number) = raw.number)
  BY <1>5 DEF ToU64
<1>7. raw.number >= 0 => SubSeq(sent.id, 1, HeightLen) = BeBytes(sent.number)
  BY <1>5, <1>6, IdBeginsWithNumber
<1>8. sent.time.seconds * 1000 + sent.time.nanos \div 1000000 = raw.timestamp
  BY <1>5, SameInstant
<1>9. sent.finality.tier = 3 => sent.finality.solidified_head_number >= sent.number
  BY <1>5, <1>6, FinalizedHasHead
<1>10. sent.number >= 0
  BY <1>5, <1>6
<1> QED
  BY <1>3, <1>4, <1>7, <1>8, <1>9, <1>10 DEF WireFaithful, SentTxs
-----------------------------------------------------------------------------
(* Events: from the log of a contract to the log a client gets *)

\* A word whose leading zeros were cut is put together again.
LEMMA PadRestores ==
    ASSUME NEW w \in Bytes, Len(w) = WordLen, NEW t, IsTopic(t, w)
    PROVE  PadTopic(t) = w
<1>1. WordLen \in Nat /\ w \in Seq(0 .. 255)
  BY CodecAssumption DEF Bytes
<1>2. PICK n \in 0 .. WordLen : (\A i \in 1 .. n : w[i] = 0) /\ t = SubSeq(w, n + 1, WordLen)
  BY DEF IsTopic
<1>3. Len(t) = WordLen - n /\ \A i \in 1 .. WordLen - n : t[i] = w[i + n]
  BY <1>1, <1>2
<1>4. Min({Len(t), WordLen}) = WordLen - n
  <2>1. {Len(t), WordLen} \subseteq Nat /\ {Len(t), WordLen} # {}
    BY <1>1, <1>2, <1>3
  <2>2. /\ Min({Len(t), WordLen}) \in {Len(t), WordLen}
        /\ \A y \in {Len(t), WordLen} : Min({Len(t), WordLen}) <= y
    BY <2>1, MinIsLeast
  <2>3. PICK m \in {Len(t), WordLen} : m = Min({Len(t), WordLen})
    BY <2>2
  <2>4. m <= Len(t) /\ m <= WordLen /\ (m = Len(t) \/ m = WordLen)
    BY <2>2, <2>3
  <2>5. Len(t) <= WordLen
    BY <1>1, <1>2, <1>3
  <2>6. m = Len(t)
    BY <1>1, <1>2, <1>3, <2>4, <2>5
  <2> QED
    BY <1>3, <2>3, <2>6
<1>5. PadTopic(t) = [i \in 1 .. WordLen |-> IF i <= n THEN 0 ELSE t[i - n]]
  BY <1>1, <1>2, <1>4 DEF PadTopic
<1>6. \A i \in 1 .. WordLen : (IF i <= n THEN 0 ELSE t[i - n]) = w[i]
  BY <1>1, <1>2, <1>3
<1>7. w = [i \in 1 .. WordLen |-> w[i]]
  BY <1>1
<1> QED
  BY <1>5, <1>6, <1>7

\* Bytes are a list.
LEMMA BytesAreAList == ASSUME NEW s \in Bytes PROVE IsList(s)
<1> DEFINE T == {s[i] : i \in DOMAIN s}
<1>1. s \in Seq(0 .. 255)
  BY DEF Bytes
<1>2. Len(s) \in Nat /\ DOMAIN s = 1 .. Len(s) /\ s = [i \in 1 .. Len(s) |-> s[i]]
  BY <1>1
<1>3. \A i \in 1 .. Len(s) : s[i] \in T
  BY <1>2
<1> HIDE DEF T
<1>4. s \in Seq(T)
  BY <1>2, <1>3
<1> QED
  BY <1>4 DEF IsList, T

\* A word is the whole of itself.
LEMMA WordIsTopic ==
    ASSUME NEW w \in Bytes, Len(w) = WordLen
    PROVE  IsTopic(w, w)
<1>1. WordLen \in Nat /\ w \in Seq(0 .. 255)
  BY CodecAssumption DEF Bytes
<1>2. w = SubSeq(w, 0 + 1, WordLen)
  BY <1>1
<1>3. 0 \in 0 .. WordLen /\ \A i \in 1 .. 0 : w[i] = 0
  BY <1>1
<1> QED
  BY <1>2, <1>3 DEF IsTopic

\* The word of a value is a word, and gives the value back.
LEMMA WordOfValue ==
    ASSUME NEW ty, NEW v, IsValue(ty, v)
    PROVE  /\ WordFor(v) \in Bytes /\ Len(WordFor(v)) = WordLen
           /\ ValueOf(ty, WordFor(v)) = v
<1>1. WordLen \in Nat /\ AddressLen \in 2 .. WordLen + 1 /\ WordLen >= 1
  BY CodecAssumption
<1>2. ASSUME NEW f, f = [i \in 1 .. WordLen |-> f[i]],
             \A i \in 1 .. WordLen : f[i] \in 0 .. 255
      PROVE  f \in Bytes /\ Len(f) = WordLen
  <2>1. PICK T : T = 0 .. 255
    OBVIOUS
  <2>2. \A i \in 1 .. WordLen : f[i] \in T
    BY <1>2, <2>1
  <2>3. f \in Seq(T) /\ Len(f) = WordLen
    BY <1>1, <1>2, <2>2
  <2> QED
    BY <2>1, <2>3 DEF Bytes
<1>3. CASE ty[1] = "address"
  <2>1. /\ v = <<v[1], v[2]>> /\ v[1] = "Address" /\ v[2] \in Bytes
        /\ Len(v[2]) = AddressLen /\ v[2][1] = NetworkByte
    BY <1>3 DEF IsValue
  <2>2. PICK a \in Seq(0 .. 255) : a = v[2]
    BY <2>1 DEF Bytes
  <2> DEFINE w == [i \in 1 .. WordLen |->
                     IF i <= WordLen - AddressLen + 1 THEN 0 ELSE a[i - (WordLen - AddressLen)]]
             T == 0 .. 255
             tail == SubSeq(w, WordLen - AddressLen + 2, WordLen)
  <2>3. WordFor(v) = w
    BY <2>1, <2>2 DEF WordFor
  <2>4. w = [i \in 1 .. WordLen |-> w[i]] /\ \A i \in 1 .. WordLen : w[i] \in T
    <3>1. \A i \in 1 .. AddressLen : a[i] \in T
      BY <2>1, <2>2, ElementOfSeq
    <3>2. \A i \in 1 .. WordLen :
             i > WordLen - AddressLen + 1 => i - (WordLen - AddressLen) \in 1 .. AddressLen
      BY <1>1
    <3> HIDE DEF T
    <3>3. 0 \in T
      BY DEF T
    <3> QED
      BY <1>1, <3>1, <3>2, <3>3
  <2>5. w \in Seq(T) /\ Len(w) = WordLen
    <3> HIDE DEF w
    <3> QED
      BY <1>2, <2>4 DEF Bytes
  <2>6. a \in Seq(T) /\ w \in Seq(T)
    BY <2>2, <2>5
  <2>7. NetworkByte = a[1] /\ \A i \in 1 .. AddressLen - 1 : w[WordLen - AddressLen + 1 + i] = a[i + 1]
    BY <1>1, <2>1, <2>2
  <2>8. Len(a) = AddressLen
    BY <2>1, <2>2
  <2> HIDE DEF T, w
  <2>9. /\ tail \in Seq(T) /\ Len(tail) = AddressLen - 1
        /\ \A i \in 1 .. AddressLen - 1 : tail[i] = w[WordLen - AddressLen + 1 + i]
    BY <1>1, <2>5, <2>6, SubSeqProperties
  <2> HIDE DEF tail
  <2>10. a[1] \in T
    BY <1>1, <2>6, <2>8
  <2>11. /\ <<a[1]>> \o tail \in Seq(T) /\ Len(<<a[1]>> \o tail) = AddressLen
         /\ \A i \in 1 .. AddressLen : (<<a[1]>> \o tail)[i] = a[i]
    <3>1. <<a[1]>> \in Seq(T) /\ Len(<<a[1]>>) = 1 /\ <<a[1]>>[1] = a[1]
      BY <2>10
    <3>2. PICK one \in Seq(T) : one = <<a[1]>> /\ Len(one) = 1 /\ one[1] = a[1]
      BY <3>1
    <3>3. one \o tail \in Seq(T) /\ Len(one \o tail) = AddressLen
      BY <1>1, <2>9, <3>2
    <3>4. ASSUME NEW i \in 1 .. AddressLen PROVE (one \o tail)[i] = a[i]
      <4>1. CASE i = 1
        BY <1>1, <2>9, <3>2, <4>1
      <4>2. CASE i # 1
        <5>1. i - 1 \in 1 .. AddressLen - 1 /\ (one \o tail)[i] = tail[i - 1]
          BY <1>1, <2>9, <3>2, <4>2
        <5>2. w[WordLen - AddressLen + 1 + (i - 1)] = a[(i - 1) + 1]
          BY <2>7, <5>1
        <5> QED
          BY <1>1, <2>9, <5>1, <5>2
      <4> QED
        BY <4>1, <4>2
    <3> QED
      BY <3>2, <3>3, <3>4
  <2>12. <<a[1]>> \o tail = a
    BY <1>1, <2>6, <2>8, <2>11
  <2>13. WordToAddress(w) = a
    BY <2>7, <2>12 DEF WordToAddress, tail
  <2>14. ValueOf(ty, w) = <<"Address", a>>
    BY <1>3, <2>13 DEF ValueOf
  <2> QED
    BY <2>1, <2>2, <2>3, <2>5, <2>14 DEF Bytes, T
<1>4. CASE ty[1] = "bool"
  <2>1. v = <<v[1], v[2]>> /\ v[1] = "Bool" /\ v[2] \in BOOLEAN
    BY <1>4 DEF IsValue
  <2> DEFINE w == [i \in 1 .. WordLen |-> IF i = WordLen /\ v[2] THEN 1 ELSE 0]
  <2>2. WordFor(v) = w
    BY <2>1 DEF WordFor
  <2>3. w = [i \in 1 .. WordLen |-> w[i]] /\ \A i \in 1 .. WordLen : w[i] \in 0 .. 255
    OBVIOUS
  <2>4. w \in Bytes /\ Len(w) = WordLen
    <3> HIDE DEF w
    <3> QED
      BY <1>2, <2>3
  <2>5. (w[WordLen] # 0) = v[2]
    BY <1>1, <2>1
  <2>6. ValueOf(ty, w) = <<"Bool", v[2]>>
    BY <1>4, <2>5 DEF ValueOf, WordToBool
  <2> QED
    BY <2>1, <2>2, <2>4, <2>6
<1>5. CASE ty[1] # "address" /\ ty[1] # "bool"
  <2>1. v = <<v[1], v[2]>> /\ v[1] = "Word" /\ v[2] \in Bytes /\ Len(v[2]) = WordLen
    BY <1>5 DEF IsValue
  <2>2. WordFor(v) = v[2]
    BY <2>1 DEF WordFor
  <2>3. ValueOf(ty, v[2]) = <<"Word", v[2]>>
    BY <1>5 DEF ValueOf
  <2> QED
    BY <2>1, <2>2, <2>3
<1> QED
  BY <1>3, <1>4, <1>5
\* What a client can rely on in the log of an emission.
Carries(log, e) ==
    /\ DOMAIN log.topics = 1 .. 1 + Cardinality(Indexed(e))
    /\ Len(log.topics) = 1 + Cardinality(Indexed(e)) /\ Cardinality(Indexed(e)) \in Nat
    /\ log.address \in Bytes /\ log.data \in Bytes
    /\ Len(log.data) = WordLen * (Len(e.types) - Cardinality(Indexed(e)))
    /\ log.topics[1] = Keccak[<<e.name, e.types>>]
    /\ \A i \in DOMAIN e.types :
          WordFor(e.values[i]) =
             IF e.indexed[i] THEN log.topics[2 + EmittedBefore(e, i)]
             ELSE SubSeq(log.data, WordLen * EmittedBefore(e, i) + 1,
                                   WordLen * (EmittedBefore(e, i) + 1))

\* The indexed values of an event are finitely many, and fewer than all of them stand
\* before one of them.
LEMMA IndexedCount ==
    ASSUME NEW e, IsEmission(e)
    PROVE  /\ Cardinality(Indexed(e)) \in Nat
           /\ \A i \in Indexed(e) : EmittedBefore(e, i) \in 0 .. Cardinality(Indexed(e)) - 1
<1>1. Len(e.types) \in Nat /\ DOMAIN e.types = 1 .. Len(e.types)
      /\ \A i \in 1 .. Len(e.types) : e.indexed[i] \in BOOLEAN
  <2>1. IsList(e.types) /\ e.indexed \in Seq(BOOLEAN) /\ Len(e.indexed) = Len(e.types)
    BY DEF IsEmission
  <2>2. Len(e.types) \in Nat /\ DOMAIN e.types = 1 .. Len(e.types)
    BY <2>1, ListPositions
  <2>3. \A i \in 1 .. Len(e.indexed) : e.indexed[i] \in BOOLEAN
    BY <2>1, ElementOfSeq
  <2> QED
    BY <2>1, <2>2, <2>3
<1>2. IsFiniteSet(1 .. Len(e.types)) /\ Indexed(e) \subseteq 1 .. Len(e.types)
  BY <1>1, FS_Interval DEF Indexed
<1>3. IsFiniteSet(Indexed(e)) /\ Cardinality(Indexed(e)) \in Nat
  BY <1>2, FS_Subset, FS_CardinalityType
<1>4. ASSUME NEW i \in Indexed(e)
      PROVE  EmittedBefore(e, i) \in 0 .. Cardinality(Indexed(e)) - 1
  <2> DEFINE B == {j \in 1 .. i - 1 : e.indexed[j] = e.indexed[i]}
             R == Indexed(e) \ {i}
  <2>1. i \in 1 .. Len(e.types) /\ e.indexed[i] = TRUE
    BY <1>1 DEF Indexed
  <2>2. B \subseteq R
    BY <1>1, <2>1 DEF Indexed
  <2>3. IsFiniteSet(R) /\ Cardinality(R) = Cardinality(Indexed(e)) - 1
    BY <1>3, FS_RemoveElement
  <2>4. IsFiniteSet(B) /\ Cardinality(B) <= Cardinality(R) /\ Cardinality(B) \in Nat
    BY <2>2, <2>3, FS_Subset, FS_CardinalityType
  <2>5. EmittedBefore(e, i) = Cardinality(B)
    BY DEF EmittedBefore
  <2> HIDE DEF B, R
  <2> QED
    BY <1>3, <2>3, <2>4, <2>5
<1> QED
  BY <1>3, <1>4

\* A log that decodes carries what was emitted, whatever zeros the node cut.
LEMMA DecodedLogCarries ==
    ASSUME NEW l, IsEmission(l.emission), IsLogOf(l, l.emission), DecodeLog(l).ok
    PROVE  Carries(DecodeLog(l).value, l.emission)
<1> DEFINE padded == [i \in DOMAIN l.topics |-> PadTopic(l.topics[i])]
           made == [address |-> l.address, topics |-> padded, data |-> l.data]
           check == BytesToAddress(l.address, "Log.address")
           log == DecodeLog(l).value
<1>1. DecodeLog(l) = Try(<<check>>, made)
  BY DEF DecodeLog
<1>2. DecodeLog(l) = Ok(made)
  <2> HIDE DEF made, check
  <2>1. DOMAIN <<check>> \subseteq Nat
    OBVIOUS
  <2> QED
    BY <1>1, <2>1, TryOk
<1>3. log.topics = padded /\ log.data = l.data /\ log.address = l.address
  <2>1. log = made
    <3> HIDE DEF made
    <3> QED
      BY <1>2 DEF Ok
  <2> HIDE DEF log, padded
  <2> QED
    BY <2>1
<1>4. PICK e : e = l.emission
  OBVIOUS
<1>5. IsEmission(e) /\ IsLogOf(l, e)
  BY <1>4
<1>6. PICK count \in Nat : count = Cardinality(Indexed(e))
  BY <1>5, IndexedCount
<1>7. DOMAIN l.topics = 1 .. 1 + count /\ Len(l.topics) = 1 + count
  BY <1>5, <1>6, ListPositions DEF IsLogOf
<1>8. DOMAIN padded = 1 .. 1 + count /\ Len(padded) = 1 + count
  BY <1>6, <1>7
<1>9. padded[1] = Keccak[<<e.name, e.types>>]
  <2>1. l.topics[1] = Keccak[<<e.name, e.types>>] /\ 1 \in DOMAIN l.topics
    BY <1>5, <1>6, <1>7 DEF IsLogOf
  <2>2. l.topics[1] \in Bytes /\ Len(l.topics[1]) = WordLen
    BY <1>5, <2>1, EventAssumption DEF IsEmission
  <2> QED
    BY <2>1, <2>2, WordIsTopic, PadRestores
<1>10. ASSUME NEW i \in DOMAIN e.types
       PROVE  WordFor(e.values[i]) =
                IF e.indexed[i] THEN padded[2 + EmittedBefore(e, i)]
                ELSE SubSeq(l.data, WordLen * EmittedBefore(e, i) + 1,
                                    WordLen * (EmittedBefore(e, i) + 1))
  <2>1. CASE e.indexed[i]
    <3>1. EmittedBefore(e, i) \in 0 .. count - 1
      BY <1>5, <1>6, <2>1, IndexedCount DEF Indexed
    <3>2. 2 + EmittedBefore(e, i) \in DOMAIN l.topics
      BY <1>6, <1>7, <3>1
    <3>3. IsTopic(l.topics[2 + EmittedBefore(e, i)], WordFor(e.values[i]))
      BY <1>5, <2>1 DEF IsLogOf
    <3>4. WordFor(e.values[i]) \in Bytes /\ Len(WordFor(e.values[i])) = WordLen
      BY <1>5, WordOfValue DEF IsEmission
    <3>5. PadTopic(l.topics[2 + EmittedBefore(e, i)]) = WordFor(e.values[i])
      BY <3>3, <3>4, PadRestores
    <3> QED
      BY <2>1, <3>2, <3>5
  <2>2. CASE ~ e.indexed[i]
    BY <1>5, <2>2 DEF IsLogOf
  <2> QED
    BY <2>1, <2>2
<1>11. l.address \in Bytes /\ l.data \in Bytes
       /\ Len(l.data) = WordLen * (Len(e.types) - Cardinality(Indexed(e)))
  BY <1>5 DEF IsLogOf
<1>12. Carries(log, e)
  <2> HIDE DEF log, padded
  <2> QED
    BY <1>3, <1>6, <1>8, <1>9, <1>10, <1>11 DEF Carries
<1> QED
  BY <1>4, <1>12

\* Every log a client is sent carries its emission.
LEMMA SentLogsCarry ==
    ASSUME CallInv, NEW s \in SentLogs
    PROVE  IsEmission(s.emission) /\ Carries(s.log, s.emission)
<1>1. last.list # None /\ last.result.ok
  BY DEF SentLogs
<1>2. PICK b \in NodeBlock, solid \in SolidAtEmit, a \in NodeBlock :
         last.list \in Answer[a] /\ Ships(b, InfosOf(last.list), solid)
  BY <1>1, ReturnedShips
<1>3. PICK list \in Answer[a] : list = last.list
  BY <1>2
<1> DEFINE wire == WireBlock[b].transactions
           txs == Shipped(b, InfosOf(list), solid).transactions
           at(k) == Max({i \in DOMAIN list : list[i].id = txs[k].id})
<1>4. Sent.transactions = txs /\ SentTxs = DOMAIN wire
  BY <1>2, <1>3, ShippedTransactions DEF Ships, SentTxs
<1>5. PICK k \in DOMAIN wire :
         /\ txs[k].info # None
         /\ \E j \in DOMAIN txs[k].info.logs :
               s = [log |-> txs[k].info.logs[j], emission |-> list[at(k)].log[j].emission]
  <2> DEFINE logs(k) ==
               {[log |-> Sent.transactions[k].info.logs[j],
                 emission |-> last.list[Max({i \in DOMAIN last.list :
                                  last.list[i].id = Sent.transactions[k].id})].log[j].emission]
                : j \in DOMAIN Sent.transactions[k].info.logs}
  <2>1. \E k \in {k \in SentTxs : Sent.transactions[k].info # None} : s \in logs(k)
    BY <1>1, Zenon DEF SentLogs
  <2>2. PICK k \in SentTxs : Sent.transactions[k].info # None /\ s \in logs(k)
    BY <2>1
  <2>3. \E j \in DOMAIN Sent.transactions[k].info.logs :
           s = [log |-> Sent.transactions[k].info.logs[j],
                emission |-> last.list[Max({i \in DOMAIN last.list :
                                last.list[i].id = Sent.transactions[k].id})].log[j].emission]
    BY <2>2
  <2> HIDE DEF txs, wire, logs
  <2> QED
    BY <1>3, <1>4, <2>2, <2>3
<1>6. PICK j \in DOMAIN txs[k].info.logs :
         s = [log |-> txs[k].info.logs[j], emission |-> list[at(k)].log[j].emission]
  BY <1>5
<1> DEFINE hash == wire[k].raw_data.sha256
           mine == {i \in DOMAIN list : list[i].id = hash}
           those == With(InfosOf(list), hash)
           info == InfosOf(list)[Max(those)]
<1>7. /\ txs[k].id = hash
      /\ txs[k].info = IF those = {} \/ info = None THEN None ELSE EncodeTxInfo(info)
  <2>1. ShippedTx(b, InfosOf(list), txs[k], k)
    BY <1>2, <1>3, ShippedTransactions DEF Ships
  <2> QED
    BY <2>1 DEF ShippedTx
<1>8. those # {} /\ txs[k].info = EncodeTxInfo(info)
  <2> HIDE DEF txs, those, info, hash
  <2> QED
    BY <1>5, <1>7
<1>9. /\ Whole(list) /\ those = mine
      /\ Max(those) \in mine /\ DecodeTransactionInfo(list[Max(those)]).ok
      /\ info = DecodeTransactionInfo(list[Max(those)]).value
  BY <1>8, InfoOfAnswer
<1>10. PICK m \in DOMAIN list : m = Max(those)
  BY <1>9
<1>11. at(k) = m
  <2> HIDE DEF txs, hash
  <2> QED
    BY <1>7, <1>9, <1>10
<1>12. IsList(list[m].log)
  BY IngestAssumption
<1> HIDE DEF txs, those, hash, mine, info
<1>13. /\ \A i \in DOMAIN list[m].log : DecodeLog(list[m].log[i]).ok
       /\ info.logs = [i \in DOMAIN list[m].log |-> DecodeLog(list[m].log[i]).value]
  BY <1>9, <1>10, <1>12, InfoDecodes
<1>14. txs[k].info.logs = info.logs
  BY <1>8 DEF EncodeTxInfo
<1>15. PICK l : l = list[m].log[j]
  OBVIOUS
<1>16. j \in DOMAIN list[m].log /\ DecodeLog(l).ok /\ txs[k].info.logs[j] = DecodeLog(l).value
  BY <1>6, <1>13, <1>14, <1>15
<1>17. s.log = DecodeLog(l).value /\ s.emission = l.emission
  <2> HIDE DEF at
  <2> QED
    BY <1>6, <1>11, <1>15, <1>16
<1>18. IsEmission(l.emission) /\ IsLogOf(l, l.emission)
  BY <1>15, <1>16, EventAssumption
<1> QED
  BY <1>16, <1>17, <1>18, DecodedLogCarries
-----------------------------------------------------------------------------
(* Events: the registry *)

\* A text that register_signature accepts, and the topic it is kept under.
Good(text) == ParseSignature(text).ok
Topic(text) == ParseSignature(text).value.topic0

\* A signature parses when its text is well formed and every parameter parses.
LEMMA SignatureParses ==
    ASSUME NEW text
    PROVE  LET params == ParseParamList(text.params)
           IN  /\ Good(text) <=> text.parens = "()" /\ text.name # "" /\ params.ok
               /\ Good(text) =>
                    /\ ParseSignature(text).value.name = text.name
                    /\ ParseSignature(text).value.params = params.value
                    /\ Topic(text) = Keccak[CanonicalSignature(text.name, params.value)]
<1> DEFINE params == ParseParamList(text.params)
           made == [name |-> text.name, params |-> params.value,
                    topic0 |-> Keccak[CanonicalSignature(text.name, params.value)]]
<1>1. CASE text.parens = "()" /\ text.name # ""
  <2>1. ParseSignature(text) = Try(<<params>>, made)
    BY <1>1 DEF ParseSignature
  <2>2. made.name = text.name /\ made.params = params.value
        /\ made.topic0 = Keccak[CanonicalSignature(text.name, params.value)]
    <3> HIDE DEF params
    <3> QED
      OBVIOUS
  <2> HIDE DEF params, made
  <2>3. DOMAIN <<params>> \subseteq Nat /\ DOMAIN <<params>> = {1} /\ <<params>>[1] = params
    OBVIOUS
  <2>4. /\ Try(<<params>>, made).ok <=> params.ok
        /\ Try(<<params>>, made).ok => Try(<<params>>, made) = Ok(made)
    BY <2>3, TryOk
  <2>5. Good(text) <=> params.ok
    BY <2>1, <2>4 DEF Good
  <2>6. Good(text) => ParseSignature(text).value = made
    BY <2>1, <2>4 DEF Good, Ok
  <2> QED
    BY <1>1, <2>2, <2>5, <2>6 DEF Topic, params
<1>2. CASE ~ (text.parens = "()" /\ text.name # "")
  <2>1. ~ Good(text)
    BY <1>2 DEF Good, ParseSignature, Err
  <2> QED
    BY <1>2, <2>1
<1> QED
  BY <1>1, <1>2

\* A text declares an event exactly when its signature has the event's topic.
LEMMA DeclaresByTopic ==
    ASSUME NEW text \in SignatureText, NEW e, IsEmission(e)
    PROVE  Declares(text, e) <=> Good(text) /\ Topic(text) = Keccak[<<e.name, e.types>>]
<1> DEFINE params == ParseParamList(text.params)
           types == [i \in DOMAIN params.value |-> params.value[i].ty]
<1>1. e.name # "" /\ <<e.name, e.types>> \in DOMAIN Keccak
  BY DEF IsEmission
<1>2. /\ Good(text) <=> text.parens = "()" /\ text.name # "" /\ params.ok
      /\ Good(text) => Topic(text) = Keccak[CanonicalSignature(text.name, params.value)]
  BY SignatureParses
<1>3. CanonicalSignature(text.name, params.value) = <<text.name, types>>
  BY DEF CanonicalSignature
<1>4. Good(text) => <<text.name, types>> \in DOMAIN Keccak
  <2>1. text.parens = "()" /\ text.name # "" /\ params.ok =>
           CanonicalSignature(text.name, params.value) \in DOMAIN Keccak
    BY EventAssumption
  <2> HIDE DEF params, types
  <2> QED
    BY <1>2, <1>3, <2>1
<1>5. Declares(text, e) <=>
         text.parens = "()" /\ text.name = e.name /\ params.ok /\ types = e.types
  BY DEF Declares
<1> HIDE DEF params, types
<1>6. Good(text) /\ Topic(text) = Keccak[<<e.name, e.types>>]
         => <<text.name, types>> = <<e.name, e.types>>
  BY <1>1, <1>2, <1>3, <1>4, EventAssumption
<1> QED
  BY <1>1, <1>2, <1>3, <1>5, <1>6

\* The registry holds, for every topic, the last signature registered for it.
RegistryOf(reg, texts) ==
    /\ \A t : t \in DOMAIN reg <=>
          \E n \in DOMAIN texts : Good(texts[n]) /\ Topic(texts[n]) = t
    /\ \A n \in DOMAIN texts :
          /\ Good(texts[n])
          /\ \A m \in DOMAIN texts :
                m > n => ~ (Good(texts[m]) /\ Topic(texts[m]) = Topic(texts[n]))
          => reg[Topic(texts[n])] = ParseSignature(texts[n]).value

\* The inductive invariant of the registry.
RegInv == registered \in Seq(SignatureText) /\ RegistryOf(registry, registered)

\* Registering a text replaces what was kept under its topic and nothing else; a text
\* that does not parse changes nothing.
LEMMA RegisterKeepsLast ==
    ASSUME NEW texts \in Seq(SignatureText), NEW reg, RegistryOf(reg, texts),
           NEW text \in SignatureText,
           NEW new, new = IF Good(text) THEN Register(reg, ParseSignature(text).value) ELSE reg
    PROVE  RegistryOf(new, Append(texts, text))
<1> DEFINE more == Append(texts, text)
           last_n == Len(texts) + 1
<1>1. /\ Len(texts) \in Nat /\ DOMAIN texts = 1 .. Len(texts) /\ DOMAIN more = 1 .. last_n
      /\ \A n \in DOMAIN texts : more[n] = texts[n] /\ n # last_n /\ n \in DOMAIN more /\ last_n > n
      /\ more[last_n] = text /\ last_n \in DOMAIN more
      /\ \A n \in DOMAIN more : n = last_n \/ n \in DOMAIN texts
      /\ \A n \in DOMAIN more : ~ (n > last_n)
  OBVIOUS
<1>2. PICK sig : sig = ParseSignature(text).value
  OBVIOUS
<1>3. Topic(text) = sig.topic0
  BY <1>2 DEF Topic
<1>4. Good(text) =>
         /\ DOMAIN new = DOMAIN reg \cup {Topic(text)} /\ new[Topic(text)] = sig
         /\ \A t \in DOMAIN reg : t # Topic(text) => new[t] = reg[t]
  BY <1>2, <1>3 DEF Register
<1> HIDE DEF more, last_n
<1>5. ASSUME NEW t
      PROVE  t \in DOMAIN new <=> \E n \in DOMAIN more : Good(more[n]) /\ Topic(more[n]) = t
  <2>1. t \in DOMAIN reg <=> \E n \in DOMAIN texts : Good(texts[n]) /\ Topic(texts[n]) = t
    BY DEF RegistryOf
  <2>2. (\E n \in DOMAIN more : Good(more[n]) /\ Topic(more[n]) = t) <=>
           \/ \E n \in DOMAIN texts : Good(texts[n]) /\ Topic(texts[n]) = t
           \/ Good(text) /\ Topic(text) = t
    BY <1>1
  <2> QED
    BY <1>4, <2>1, <2>2
<1>6. ASSUME NEW n \in DOMAIN more, Good(more[n]),
             \A m \in DOMAIN more :
                m > n => ~ (Good(more[m]) /\ Topic(more[m]) = Topic(more[n]))
      PROVE  new[Topic(more[n])] = ParseSignature(more[n]).value
  <2>1. CASE n = last_n
    BY <1>1, <1>2, <1>4, <1>6, <2>1
  <2>2. CASE n \in DOMAIN texts
    <3>1. more[n] = texts[n] /\ Good(texts[n])
      BY <1>1, <1>6, <2>2
    <3>2. \A m \in DOMAIN texts :
             m > n => ~ (Good(texts[m]) /\ Topic(texts[m]) = Topic(texts[n]))
      BY <1>1, <1>6, <3>1
    <3>3. reg[Topic(texts[n])] = ParseSignature(texts[n]).value
      BY <2>2, <3>1, <3>2 DEF RegistryOf
    <3>4. Good(text) => Topic(text) # Topic(texts[n])
      BY <1>1, <1>6, <2>2, <3>1
    <3>5. Topic(texts[n]) \in DOMAIN reg
      BY <2>2, <3>1 DEF RegistryOf
    <3> QED
      BY <1>4, <3>1, <3>3, <3>4, <3>5
  <2> QED
    BY <1>1, <2>1, <2>2
<1>7. RegistryOf(new, more)
  BY <1>5, <1>6 DEF RegistryOf
<1> QED
  BY <1>7 DEF more

\* The registry is that of the texts registered so far.
LEMMA RegistryInvariance == IngestEventsSpec => []RegInv
<1>1. IngestEventsInit => RegInv
  BY DEF IngestEventsInit, EventInit, RegInv, RegistryOf
<1>2. RegInv /\ [IngestEventsNext]_allVars => RegInv'
  <2> SUFFICES ASSUME RegInv, [IngestEventsNext]_allVars PROVE RegInv'
    OBVIOUS
  <2>1. CASE UNCHANGED <<registry, registered>>
    BY <2>1 DEF RegInv, RegistryOf
  <2>2. ASSUME NEW text \in SignatureText, RegisterSignature(text)
        PROVE  RegInv'
    <3>1. /\ registered' = Append(registered, text)
          /\ registry' = IF Good(text) THEN Register(registry, ParseSignature(text).value)
                         ELSE registry
      BY <2>2 DEF RegisterSignature, Good
    <3>2. registered \in Seq(SignatureText) /\ RegistryOf(registry, registered)
      BY DEF RegInv
    <3>3. PICK texts \in Seq(SignatureText) : texts = registered
      BY <3>2
    <3>4. PICK reg : reg = registry
      OBVIOUS
    <3>5. RegistryOf(reg, texts)
      BY <3>2, <3>3, <3>4
    <3>6. RegistryOf(registry', Append(texts, text))
      BY <3>1, <3>3, <3>4, <3>5, RegisterKeepsLast
    <3>7. Append(texts, text) \in Seq(SignatureText)
      OBVIOUS
    <3> QED
      BY <3>1, <3>3, <3>6, <3>7 DEF RegInv
  <2> QED
    BY <2>1, <2>2 DEF IngestEventsNext, allVars
<1> QED
  BY <1>1, <1>2, PTL DEF IngestEventsSpec
-----------------------------------------------------------------------------
(* Events: decoding with a signature *)

\* A parameter list that parses is a list of as many parameters.
LEMMA ParamsParse ==
    ASSUME NEW text, IsList(text.params), ParseParamList(text.params).ok
    PROVE  LET p == ParseParamList(text.params).value
           IN  Len(p) \in Nat /\ DOMAIN p = 1 .. Len(p)
<1> DEFINE each == [i \in DOMAIN text.params |-> ParseOneParam(text.params[i])]
           values == [i \in DOMAIN text.params |-> ParseOneParam(text.params[i]).value]
<1>1. ParseParamList(text.params) = Try(each, values)
  BY DEF ParseParamList, Collect
<1>2. DOMAIN each \subseteq Nat /\ DOMAIN values = 1 .. Len(text.params)
      /\ Len(text.params) \in Nat
  BY ListPositions
<1>3. Len(values) = Len(text.params)
  BY <1>2
<1> HIDE DEF each, values
<1>4. Try(each, values) = Ok(values)
  BY <1>1, <1>2, TryOk
<1> QED
  BY <1>1, <1>2, <1>3, <1>4 DEF Ok

\* A signature with the types and the flags of an event gives back its values.
LEMMA SignatureDecodes ==
    ASSUME NEW sig, NEW log, NEW e, IsEmission(e), Carries(log, e),
           Len(sig.params) \in Nat, DOMAIN sig.params = 1 .. Len(sig.params),
           sig.name = e.name,
           [i \in DOMAIN sig.params |-> sig.params[i].ty] = e.types,
           [i \in DOMAIN sig.params |-> sig.params[i].indexed] = e.indexed
    PROVE  DecodeWithSignature(sig, log) = Ok([name |-> e.name, values |-> e.values])
<1> DEFINE p == sig.params
           values == [i \in DOMAIN p |-> ValueOf(p[i].ty, WordOf(sig, log, i))]
<1>1. /\ DOMAIN p = DOMAIN e.types /\ \A i \in DOMAIN p : p[i].ty = e.types[i]
      /\ \A i \in DOMAIN p : p[i].indexed = e.indexed[i]
  OBVIOUS
<1>2. /\ IsList(e.types) /\ IsList(e.values) /\ Len(e.values) = Len(e.types)
      /\ \A i \in DOMAIN e.types : IsValue(e.types[i], e.values[i])
  BY DEF IsEmission
<1>3. /\ Len(e.types) \in Nat /\ DOMAIN e.types = 1 .. Len(e.types)
      /\ DOMAIN e.values = 1 .. Len(e.types)
  BY <1>2, ListPositions
<1>4. Len(p) = Len(e.types)
  BY <1>1, <1>3
<1>5. IndexedParams(sig) = Indexed(e)
  BY <1>1 DEF IndexedParams, Indexed
<1>6. ASSUME NEW i \in DOMAIN p PROVE Before(sig, i) = EmittedBefore(e, i)
  <2>1. \A j \in 1 .. i - 1 : j \in DOMAIN p
    BY <1>6
  <2>2. {j \in 1 .. i - 1 : p[j].indexed = p[i].indexed}
        = {j \in 1 .. i - 1 : e.indexed[j] = e.indexed[i]}
    BY <1>1, <2>1
  <2> QED
    BY <2>2 DEF Before, EmittedBefore
<1>7. ASSUME NEW i \in DOMAIN p PROVE WordOf(sig, log, i) = WordFor(e.values[i])
  <2>1. WordFor(e.values[i]) =
           IF e.indexed[i] THEN log.topics[2 + EmittedBefore(e, i)]
           ELSE SubSeq(log.data, WordLen * EmittedBefore(e, i) + 1,
                                 WordLen * (EmittedBefore(e, i) + 1))
    BY <1>1 DEF Carries
  <2>2. p[i].indexed = e.indexed[i] /\ Before(sig, i) = EmittedBefore(e, i)
    BY <1>1, <1>6
  <2> QED
    BY <2>1, <2>2 DEF WordOf
<1>8. ASSUME NEW i \in DOMAIN p PROVE ValueOf(p[i].ty, WordOf(sig, log, i)) = e.values[i]
  <2>1. IsValue(e.types[i], e.values[i])
    BY <1>1, <1>2
  <2>2. ValueOf(e.types[i], WordFor(e.values[i])) = e.values[i]
    BY <2>1, WordOfValue
  <2> QED
    BY <1>1, <1>7, <2>2
<1>9. values = e.values
  <2>1. \A i \in DOMAIN p : values[i] = e.values[i]
    BY <1>8
  <2>2. e.values = [i \in DOMAIN p |-> e.values[i]]
    <3>1. \A T : \A f \in Seq(T) : f = [i \in DOMAIN f |-> f[i]]
      OBVIOUS
    <3>2. e.values = [i \in DOMAIN e.values |-> e.values[i]]
      BY <1>2, <3>1 DEF IsList
    <3> QED
      BY <1>1, <1>3, <3>2
  <2> QED
    BY <1>8, <2>2
<1>10. /\ Len(log.topics) = 1 + Cardinality(Indexed(e)) /\ Cardinality(Indexed(e)) \in Nat
       /\ Len(log.data) = WordLen * (Len(e.types) - Cardinality(Indexed(e)))
  BY DEF Carries
<1>11. Len(log.topics) - 1 = Cardinality(Indexed(e))
  BY <1>10
<1>12. DecodeWithSignature(sig, log) = Ok([name |-> sig.name, values |-> values])
  <2> HIDE DEF values
  <2> QED
    BY <1>4, <1>5, <1>10, <1>11 DEF DecodeWithSignature, values
<1> QED
  <2> HIDE DEF values
  <2> QED
    BY <1>9, <1>12

\* What a client decodes with the registry is what was emitted.
LEMMA EndToEnd == CallInv /\ RegInv => EventsEndToEnd
<1> SUFFICES ASSUME CallInv, RegInv, NEW s \in SentLogs
             PROVE  LET e == s.emission
                        decls == {n \in DOMAIN registered : Declares(registered[n], e)}
                        got_event == DecodeEvent(registry, s.log)
                    IN  /\ decls = {} => got_event = Ok(None)
                        /\ decls # {} /\ Flags(registered[Max(decls)]) = e.indexed =>
                              got_event = Ok([name |-> e.name, values |-> e.values])
  BY DEF EventsEndToEnd
<1>1. PICK e : e = s.emission
  OBVIOUS
<1>2. PICK log : log = s.log
  OBVIOUS
<1>3. IsEmission(e) /\ Carries(log, e)
  BY <1>1, <1>2, SentLogsCarry
<1> DEFINE decls == {n \in DOMAIN registered : Declares(registered[n], e)}
           topic == Keccak[<<e.name, e.types>>]
<1>4. /\ registered \in Seq(SignatureText) /\ RegistryOf(registry, registered)
      /\ Len(registered) \in Nat /\ DOMAIN registered = 1 .. Len(registered)
  BY DEF RegInv
<1>5. \A n \in DOMAIN registered : registered[n] \in SignatureText
  BY <1>4
<1>6. \A n \in DOMAIN registered :
         n \in decls <=> Good(registered[n]) /\ Topic(registered[n]) = topic
  BY <1>3, <1>5, DeclaresByTopic
<1>7. log.topics # <<>> /\ log.topics[1] = topic
  BY <1>3 DEF Carries
<1>8. topic \in DOMAIN registry <=> decls # {}
  <2>1. topic \in DOMAIN registry <=>
          \E n \in DOMAIN registered : Good(registered[n]) /\ Topic(registered[n]) = topic
    BY <1>4 DEF RegistryOf
  <2>2. decls # {} <=> \E n \in DOMAIN registered : n \in decls
    OBVIOUS
  <2> HIDE DEF decls, topic
  <2> QED
    BY <1>6, <2>1, <2>2
<1>9. decls = {} => DecodeEvent(registry, log) = Ok(None)
  <2> HIDE DEF decls, topic
  <2> QED
    BY <1>7, <1>8 DEF DecodeEvent
<1>10. ASSUME decls # {}, Flags(registered[Max(decls)]) = e.indexed
       PROVE  DecodeEvent(registry, log) = Ok([name |-> e.name, values |-> e.values])
  <2>1. decls \subseteq 1 .. Len(registered)
    BY <1>4
  <2>2. Max(decls) \in decls /\ \A n \in decls : n <= Max(decls)
    <3> HIDE DEF decls
    <3> QED
      BY <1>4, <1>10, <2>1, MaxIsGreatest
  <2>3. PICK m \in DOMAIN registered : m = Max(decls)
    BY <2>2
  <2>4. PICK text \in SignatureText : text = registered[m]
    BY <1>5, <2>3
  <2>5. m \in decls /\ Declares(text, e) /\ Good(text) /\ Topic(text) = topic
    <3>1. m \in decls
      BY <2>2, <2>3
    <3>2. Declares(text, e)
      BY <2>4, <3>1
    <3> HIDE DEF decls, topic
    <3> QED
      BY <1>6, <2>4, <3>1, <3>2
  <2>6. \A n \in DOMAIN registered :
           n > m => ~ (Good(registered[n]) /\ Topic(registered[n]) = topic)
    <3> HIDE DEF decls, topic
    <3>1. ASSUME NEW n \in DOMAIN registered, n > m, n \in decls PROVE FALSE
      BY <1>4, <2>2, <2>3, <3>1
    <3> QED
      BY <1>6, <3>1
  <2>7. PICK sig : sig = ParseSignature(text).value
    OBVIOUS
  <2>8. registry[topic] = sig
    <3> HIDE DEF decls, topic
    <3> QED
      BY <1>4, <2>4, <2>5, <2>6, <2>7 DEF RegistryOf
  <2> DEFINE params == ParseParamList(text.params)
  <2>9. sig.name = text.name /\ sig.params = params.value /\ params.ok
    BY <2>5, <2>7, SignatureParses
  <2>10. text.name = e.name /\ [i \in DOMAIN params.value |-> params.value[i].ty] = e.types
    BY <2>5 DEF Declares
  <2>11. [i \in DOMAIN params.value |-> params.value[i].indexed] = e.indexed
    BY <1>10, <2>3, <2>4 DEF Flags
  <2>12. Len(params.value) \in Nat /\ DOMAIN params.value = 1 .. Len(params.value)
    BY <2>9, ParamsParse, EventAssumption
  <2>13. DecodeWithSignature(sig, log) = Ok([name |-> e.name, values |-> e.values])
    <3>1. /\ Len(sig.params) \in Nat /\ DOMAIN sig.params = 1 .. Len(sig.params)
          /\ sig.name = e.name
          /\ [i \in DOMAIN sig.params |-> sig.params[i].ty] = e.types
          /\ [i \in DOMAIN sig.params |-> sig.params[i].indexed] = e.indexed
      <4> HIDE DEF params
      <4> QED
        BY <2>9, <2>10, <2>11, <2>12
    <3> QED
      BY <1>3, <3>1, SignatureDecodes
  <2>14. DecodeEvent(registry, log) = DecodeWithSignature(registry[topic], log)
    <3> HIDE DEF decls, topic
    <3> QED
      BY <1>7, <1>8, <1>10 DEF DecodeEvent
  <2> QED
    BY <2>8, <2>13, <2>14
<1> QED
  BY <1>1, <1>2, <1>9, <1>10
-----------------------------------------------------------------------------
(* Events: the universal ones *)

\* Two and three.
LEMMA SmallSets == Cardinality({1, 2}) = 2 /\ Cardinality({1, 2, 3}) = 3
<1>1. IsFiniteSet({1}) /\ Cardinality({1}) = 1
  BY FS_Singleton
<1>2. IsFiniteSet({1} \cup {2}) /\ Cardinality({1} \cup {2}) = 1 + 1
  BY <1>1, FS_AddElement
<1>3. {1} \cup {2} = {1, 2} /\ {1, 2} \cup {3} = {1, 2, 3}
  OBVIOUS
<1>4. Cardinality({1, 2} \cup {3}) = 2 + 1
  BY <1>2, <1>3, FS_AddElement
<1> QED
  BY <1>2, <1>3, <1>4

\* What a log with the types of the universal events looks like.
StandardShape(e, log) ==
    LET third == e.indexed[3]
    IN  /\ third \in BOOLEAN /\ e.indexed = <<TRUE, TRUE, third>>
        /\ Len(log.topics) = IF third THEN 4 ELSE 3
        /\ ~ third => Len(log.data) = WordLen
        /\ log.address \in Bytes
        /\ WordToAddress(log.topics[2]) \in Bytes /\ WordToAddress(log.topics[3]) \in Bytes
        /\ <<"Address", WordToAddress(log.topics[2])>> = e.values[1]
        /\ <<"Address", WordToAddress(log.topics[3])>> = e.values[2]
        /\ third => log.topics[4] \in Bytes /\ <<"Word", log.topics[4]>> = e.values[3]
        /\ ~ third => log.data \in Bytes /\ <<"Word", log.data>> = e.values[3]

\* The log of an event that indexes both parties: they are topics, and the amount or
\* the token is the data or the last topic.
LEMMA StandardLog ==
    ASSUME NEW e, NEW log, IsEmission(e), Carries(log, e),
           e.types = Standard, e.indexed[1] = TRUE, e.indexed[2] = TRUE
    PROVE  StandardShape(e, log)
<1> DEFINE third == e.indexed[3]
<1>1. /\ DOMAIN e.types = 1 .. 3 /\ Len(e.types) = 3
      /\ e.types[1] = <<"address">> /\ e.types[2] = <<"address">> /\ e.types[3] = <<"uint", 256>>
  BY DEF Standard
<1>2. e.indexed \in Seq(BOOLEAN) /\ Len(e.indexed) = 3
  BY <1>1 DEF IsEmission
<1>3. third \in BOOLEAN /\ e.indexed[1] = TRUE /\ e.indexed[2] = TRUE
  <2>1. \A i \in 1 .. 3 : e.indexed[i] \in BOOLEAN
    BY <1>2, ElementOfSeq
  <2> QED
    BY <2>1
<1>4. e.indexed = <<TRUE, TRUE, third>>
  <2>1. PICK f \in Seq(BOOLEAN) : f = e.indexed /\ Len(f) = 3
    BY <1>2
  <2>2. f = <<f[1], f[2], f[3]>>
    BY <2>1
  <2> QED
    BY <1>3, <2>1, <2>2
<1>5. \A i \in 1 .. 3 : IsValue(e.types[i], e.values[i])
  BY <1>1 DEF IsEmission
<1>6. Indexed(e) = IF third THEN {1, 2, 3} ELSE {1, 2}
  BY <1>1, <1>3 DEF Indexed
<1>7. Cardinality(Indexed(e)) = IF third THEN 3 ELSE 2
  BY <1>3, <1>6, SmallSets
<1>8. EmittedBefore(e, 1) = 0 /\ EmittedBefore(e, 2) = 1
  <2>1. {j \in 1 .. 1 - 1 : e.indexed[j] = e.indexed[1]} = {}
    OBVIOUS
  <2>2. {j \in 1 .. 2 - 1 : e.indexed[j] = e.indexed[2]} = {1}
    <3>1. 1 .. 2 - 1 = {1}
      OBVIOUS
    <3>2. e.indexed[1] = e.indexed[2]
      BY <1>3
    <3> QED
      BY <3>1, <3>2, Zenon
  <2>3. Cardinality({}) = 0 /\ Cardinality({1}) = 1
    BY FS_EmptySet, FS_Singleton
  <2> QED
    BY <2>1, <2>2, <2>3 DEF EmittedBefore
<1>9. EmittedBefore(e, 3) = IF third THEN 2 ELSE 0
  <2> DEFINE B == {j \in 1 .. 3 - 1 : e.indexed[j] = e.indexed[3]}
  <2>1. 1 .. 3 - 1 = {1, 2}
    OBVIOUS
  <2>2. ASSUME third = TRUE PROVE B = {1, 2}
    <3>1. e.indexed[1] = e.indexed[3] /\ e.indexed[2] = e.indexed[3]
      BY <1>3, <2>2
    <3> QED
      BY <2>1, <3>1, Zenon
  <2>3. ASSUME third = FALSE PROVE B = {}
    <3>1. e.indexed[1] # e.indexed[3] /\ e.indexed[2] # e.indexed[3]
      BY <1>3, <2>3
    <3> QED
      BY <2>1, <3>1, Zenon
  <2>4. Cardinality({}) = 0 /\ Cardinality({1, 2}) = 2
    BY FS_EmptySet, SmallSets
  <2>7. EmittedBefore(e, 3) = Cardinality(B)
    BY DEF EmittedBefore
  <2> HIDE DEF B
  <2>8. CASE third = TRUE
    BY <2>2, <2>4, <2>7, <2>8
  <2>9. CASE third = FALSE
    BY <2>3, <2>4, <2>7, <2>9
  <2> QED
    BY <1>3, <2>8, <2>9
<1>10. WordLen \in Nat
  BY CodecAssumption
<1>11. /\ Len(log.topics) = IF third THEN 4 ELSE 3
       /\ ~ third => Len(log.data) = WordLen
       /\ log.address \in Bytes /\ log.data \in Bytes
  BY <1>1, <1>3, <1>7, <1>10 DEF Carries
<1>12. \A i \in 1 .. 3 : /\ WordFor(e.values[i]) \in Bytes
                         /\ ValueOf(e.types[i], WordFor(e.values[i])) = e.values[i]
  BY <1>5, WordOfValue
<1>13. log.topics[2] = WordFor(e.values[1]) /\ log.topics[3] = WordFor(e.values[2])
  <2>1. WordFor(e.values[1]) = log.topics[2 + EmittedBefore(e, 1)]
    BY <1>1, <1>3 DEF Carries
  <2>2. WordFor(e.values[2]) = log.topics[2 + EmittedBefore(e, 2)]
    BY <1>1, <1>3 DEF Carries
  <2> QED
    BY <1>8, <2>1, <2>2
<1>14. third => log.topics[4] = WordFor(e.values[3])
  <2>1. third => WordFor(e.values[3]) = log.topics[2 + EmittedBefore(e, 3)]
    BY <1>1 DEF Carries
  <2> QED
    BY <1>9, <2>1
<1>15. ASSUME ~ third PROVE log.data = WordFor(e.values[3])
  <2>1. EmittedBefore(e, 3) = 0 /\ ~ e.indexed[3] /\ 3 \in DOMAIN e.types
    BY <1>1, <1>9, <1>15
  <2>2. WordFor(e.values[3]) = SubSeq(log.data, WordLen * EmittedBefore(e, 3) + 1,
                                      WordLen * (EmittedBefore(e, 3) + 1))
    BY <2>1 DEF Carries
  <2>3. WordLen * 0 + 1 = 1 /\ WordLen * (0 + 1) = WordLen
    BY <1>10
  <2>4. WordFor(e.values[3]) = SubSeq(log.data, 1, WordLen)
    BY <2>1, <2>2, <2>3
  <2>5. ASSUME NEW d \in Seq(0 .. 255), Len(d) = WordLen PROVE SubSeq(d, 1, WordLen) = d
    BY <2>5, <1>10
  <2> QED
    BY <1>11, <1>15, <2>4, <2>5 DEF Bytes
<1>16. /\ <<"Address", WordToAddress(log.topics[2])>> = e.values[1]
       /\ <<"Address", WordToAddress(log.topics[3])>> = e.values[2]
  <2>1. \A w : ValueOf(<<"address">>, w) = <<"Address", WordToAddress(w)>>
    BY DEF ValueOf
  <2> QED
    BY <1>1, <1>12, <1>13, <2>1
<1>17. WordToAddress(log.topics[2]) \in Bytes /\ WordToAddress(log.topics[3]) \in Bytes
  <2>1. e.values[1][2] \in Bytes /\ e.values[2][2] \in Bytes
    BY <1>1, <1>5 DEF IsValue
  <2>2. <<"Address", WordToAddress(log.topics[2])>>[2] = WordToAddress(log.topics[2])
        /\ <<"Address", WordToAddress(log.topics[3])>>[2] = WordToAddress(log.topics[3])
    OBVIOUS
  <2> QED
    BY <1>16, <2>1, <2>2
<1>18. \A w : ValueOf(<<"uint", 256>>, w) = <<"Word", w>>
  BY DEF ValueOf
<1>19. /\ third => log.topics[4] \in Bytes /\ <<"Word", log.topics[4]>> = e.values[3]
       /\ ~ third => log.data \in Bytes /\ <<"Word", log.data>> = e.values[3]
  BY <1>1, <1>12, <1>14, <1>15, <1>18
<1> QED
  BY <1>3, <1>4, <1>11, <1>16, <1>17, <1>19 DEF StandardShape

\* The first topic tells the event.
LEMMA TopicTells ==
    ASSUME NEW e, NEW log, IsEmission(e), Carries(log, e)
    PROVE  /\ log.topics[1] = TransferTopic0 <=> e.name = "Transfer" /\ e.types = Standard
           /\ log.topics[1] = ApprovalTopic0 <=> e.name = "Approval" /\ e.types = Standard
<1>1. log.topics[1] = Keccak[<<e.name, e.types>>] /\ <<e.name, e.types>> \in DOMAIN Keccak
  BY DEF Carries, IsEmission
<1>2. \A x, y \in DOMAIN Keccak : Keccak[x] = Keccak[y] => x = y
  BY EventAssumption
<1>3. <<"Transfer", Standard>> \in DOMAIN Keccak /\ <<"Approval", Standard>> \in DOMAIN Keccak
  BY EventAssumption
<1>4. \A name : <<e.name, e.types>> = <<name, Standard>> <=> e.name = name /\ e.types = Standard
  OBVIOUS
<1> QED
  BY <1>1, <1>2, <1>3, <1>4 DEF TransferTopic0, ApprovalTopic0

\* Three topics are two indexed values, and four are all three of them.
LEMMA TopicsTell ==
    ASSUME NEW e, NEW log, IsEmission(e), Carries(log, e), e.types = Standard
    PROVE  /\ Len(log.topics) = 3 => Cardinality(Indexed(e)) = 2
           /\ Len(log.topics) = 4 => e.indexed = <<TRUE, TRUE, TRUE>>
<1>1. DOMAIN e.types = 1 .. 3 /\ Len(e.types) = 3
  BY DEF Standard
<1>2. e.indexed \in Seq(BOOLEAN) /\ Len(e.indexed) = 3
  BY <1>1 DEF IsEmission
<1>3. Indexed(e) \subseteq {1, 2, 3}
  BY <1>1 DEF Indexed
<1>4. IsFiniteSet({1, 2, 3})
  <2>1. IsFiniteSet({1})
    BY FS_Singleton
  <2>2. IsFiniteSet({1} \cup {2})
    BY <2>1, FS_AddElement
  <2>3. IsFiniteSet(({1} \cup {2}) \cup {3})
    BY <2>2, FS_AddElement
  <2>4. ({1} \cup {2}) \cup {3} = {1, 2, 3}
    OBVIOUS
  <2> QED
    BY <2>3, <2>4
<1>5. IsFiniteSet(Indexed(e)) /\ Cardinality(Indexed(e)) \in Nat
  BY <1>3, <1>4, FS_Subset, FS_CardinalityType
<1>6. PICK n \in Nat, k \in Nat :
          n = Cardinality(Indexed(e)) /\ k = Len(log.topics) /\ k = 1 + n
  BY <1>5 DEF Carries
<1>7. (k = 4 => n = 3) /\ (k = 3 => n = 2)
  BY <1>6, SMT
<1>8. ASSUME Len(log.topics) = 4 PROVE e.indexed = <<TRUE, TRUE, TRUE>>
  <2>0. n = 3
    BY <1>6, <1>7, <1>8
  <2>1. Cardinality(Indexed(e)) = Cardinality({1, 2, 3})
    BY <1>6, <2>0, SmallSets
  <2>2. Indexed(e) = {1, 2, 3}
    BY <1>3, <1>4, <2>1, FS_Subset
  <2>3. PICK f \in Seq(BOOLEAN) : f = e.indexed /\ Len(f) = 3
    BY <1>2
  <2>4. f[1] /\ f[2] /\ f[3]
    BY <2>2, <2>3 DEF Indexed
  <2>5. \A i \in 1 .. 3 : f[i] \in BOOLEAN
    BY <2>3, ElementOfSeq
  <2>6. f[1] = TRUE /\ f[2] = TRUE /\ f[3] = TRUE
    BY <2>4, <2>5
  <2>7. f = <<f[1], f[2], f[3]>>
    BY <2>3
  <2> QED
    BY <2>3, <2>6, <2>7
<1>9. Len(log.topics) = 3 => Cardinality(Indexed(e)) = 2
  <2>1. Len(log.topics) = 3 => n = 2
    BY <1>6, <1>7
  <2> QED
    BY <1>6, <2>1
<1> QED
  BY <1>8, <1>9

\* What the property says of the two TRC-20 decoders, and of the TRC-721 one.
FungibleRight(e, name, d) ==
    /\ IsStandard(e, name, FALSE) =>
          d # None /\ Parties(d, e) /\ <<"Word", d.value>> = e.values[3]
    /\ d # None => HasTwoTopics(e, name)
TokenRight(e, d) ==
    /\ IsStandard(e, "Transfer", TRUE) =>
          d # None /\ Parties(d, e) /\ <<"Word", d.token_id>> = e.values[3]
    /\ d # None => IsStandard(e, "Transfer", TRUE)

\* A TRC-20 decoder finds every standard event of its signature, and nothing that has
\* another signature or another number of topics.
LEMMA FungibleDecodes ==
    ASSUME NEW e, NEW log, IsEmission(e), Carries(log, e), NEW name, NEW topic0,
           log.topics[1] = topic0 <=> e.name = name /\ e.types = Standard
    PROVE  FungibleRight(e, name, DecodeTrc20(log, topic0))
<1> DEFINE sender == WordToAddress(log.topics[2])
           receiver == WordToAddress(log.topics[3])
           fungible == [token |-> log.address, from |-> sender, to |-> receiver,
                        value |-> log.data]
<1>1. ASSUME IsStandard(e, name, FALSE)
      PROVE  /\ DecodeTrc20(log, topic0) # None /\ Parties(DecodeTrc20(log, topic0), e)
             /\ <<"Word", DecodeTrc20(log, topic0).value>> = e.values[3]
  <2>1. /\ e.name = name /\ e.types = Standard
        /\ e.indexed[1] = TRUE /\ e.indexed[2] = TRUE /\ e.indexed[3] = FALSE
    BY <1>1 DEF IsStandard
  <2>2. StandardShape(e, log)
    BY <2>1, StandardLog
  <2>3. /\ Len(log.topics) = 3 /\ Len(log.data) = WordLen
        /\ log.address \in Bytes /\ sender \in Bytes /\ receiver \in Bytes
        /\ <<"Address", sender>> = e.values[1] /\ <<"Address", receiver>> = e.values[2]
        /\ log.data \in Bytes /\ <<"Word", log.data>> = e.values[3]
    BY <2>1, <2>2 DEF StandardShape
  <2>4. DecodeTrc20(log, topic0) = fungible
    BY <2>1, <2>3 DEF DecodeTrc20
  <2>5. fungible # None
    <3> HIDE DEF sender, receiver
    <3>1. fungible \in [token : Bytes, from : Bytes, to : Bytes, value : Bytes]
      BY <2>3
    <3> QED
      BY <3>1, EventAssumption
  <2> HIDE DEF sender, receiver
  <2>6. fungible.from = sender /\ fungible.to = receiver /\ fungible.value = log.data
    OBVIOUS
  <2> HIDE DEF fungible
  <2> QED
    BY <2>3, <2>4, <2>5, <2>6 DEF Parties
<1>2. ASSUME DecodeTrc20(log, topic0) # None PROVE HasTwoTopics(e, name)
  <2>1. log.topics[1] = topic0 /\ Len(log.topics) = 3
    BY <1>2 DEF DecodeTrc20
  <2>2. e.name = name /\ e.types = Standard
    BY <2>1
  <2> QED
    BY <2>1, <2>2, TopicsTell DEF HasTwoTopics
<1> QED
  BY <1>1, <1>2 DEF FungibleRight

\* The TRC-721 decoder finds exactly the standard transfers of tokens: four topics leave
\* no choice of what is indexed.
LEMMA TokenDecodes ==
    ASSUME NEW e, NEW log, IsEmission(e), Carries(log, e)
    PROVE  TokenRight(e, DecodeTrc721Transfer(log))
<1> DEFINE sender == WordToAddress(log.topics[2])
           receiver == WordToAddress(log.topics[3])
           token == [token |-> log.address, from |-> sender, to |-> receiver,
                     token_id |-> log.topics[4]]
<1>0. log.topics[1] = TransferTopic0 <=> e.name = "Transfer" /\ e.types = Standard
  BY TopicTells
<1>1. ASSUME IsStandard(e, "Transfer", TRUE)
      PROVE  /\ DecodeTrc721Transfer(log) # None /\ Parties(DecodeTrc721Transfer(log), e)
             /\ <<"Word", DecodeTrc721Transfer(log).token_id>> = e.values[3]
  <2>1. /\ e.name = "Transfer" /\ e.types = Standard
        /\ e.indexed[1] = TRUE /\ e.indexed[2] = TRUE /\ e.indexed[3] = TRUE
    BY <1>1 DEF IsStandard
  <2>2. StandardShape(e, log)
    BY <2>1, StandardLog
  <2>3. /\ Len(log.topics) = 4
        /\ log.address \in Bytes /\ sender \in Bytes /\ receiver \in Bytes
        /\ <<"Address", sender>> = e.values[1] /\ <<"Address", receiver>> = e.values[2]
        /\ log.topics[4] \in Bytes /\ <<"Word", log.topics[4]>> = e.values[3]
    BY <2>1, <2>2 DEF StandardShape
  <2>4. DecodeTrc721Transfer(log) = token
    BY <1>0, <2>1, <2>3 DEF DecodeTrc721Transfer
  <2>5. token # None
    <3> HIDE DEF sender, receiver
    <3>1. token \in [token : Bytes, from : Bytes, to : Bytes, token_id : Bytes]
      BY <2>3
    <3> QED
      BY <3>1, EventAssumption
  <2> HIDE DEF sender, receiver
  <2>6. token.from = sender /\ token.to = receiver /\ token.token_id = log.topics[4]
    OBVIOUS
  <2> HIDE DEF token
  <2> QED
    BY <2>3, <2>4, <2>5, <2>6 DEF Parties
<1>2. ASSUME DecodeTrc721Transfer(log) # None PROVE IsStandard(e, "Transfer", TRUE)
  <2>1. log.topics[1] = TransferTopic0 /\ Len(log.topics) = 4
    BY <1>2 DEF DecodeTrc721Transfer
  <2>2. e.name = "Transfer" /\ e.types = Standard
    BY <1>0, <2>1
  <2> QED
    BY <2>1, <2>2, TopicsTell DEF IsStandard
<1> QED
  BY <1>1, <1>2 DEF TokenRight

\* The universal decoders, on every shipped log.
LEMMA Universal == CallInv => UniversalEvents
<1> SUFFICES ASSUME CallInv, NEW s \in SentLogs
    PROVE  /\ FungibleRight(s.emission, "Transfer", DecodeTrc20Transfer(s.log))
           /\ FungibleRight(s.emission, "Approval", DecodeTrc20Approval(s.log))
           /\ TokenRight(s.emission, DecodeTrc721Transfer(s.log))
  BY DEF UniversalEvents, FungibleRight, TokenRight
<1>1. IsEmission(s.emission) /\ Carries(s.log, s.emission)
  BY SentLogsCarry
<1>2. /\ s.log.topics[1] = TransferTopic0 <=>
             s.emission.name = "Transfer" /\ s.emission.types = Standard
      /\ s.log.topics[1] = ApprovalTopic0 <=>
             s.emission.name = "Approval" /\ s.emission.types = Standard
  BY <1>1, TopicTells
<1>3. FungibleRight(s.emission, "Transfer", DecodeTrc20Transfer(s.log))
  BY <1>1, <1>2, FungibleDecodes DEF DecodeTrc20Transfer
<1>4. FungibleRight(s.emission, "Approval", DecodeTrc20Approval(s.log))
  BY <1>1, <1>2, FungibleDecodes DEF DecodeTrc20Approval
<1>5. TokenRight(s.emission, DecodeTrc721Transfer(s.log))
  BY <1>1, TokenDecodes
<1> QED
  BY <1>3, <1>4, <1>5

-----------------------------------------------------------------------------
(* The theorems *)

\* Whatever happens to the infos, a block is shipped exactly when its own RPC succeeded
\* and it decodes, with all its transactions in order: fetch_now_block logs and drops
\* the errors of the second RPC.
THEOREM InfosNeverHalt == IngestEventsSpec => []InfosNeverHaltStream
BY CallInvariance, NeverHalts, PTL

\* encode_block joins infos to transactions by hash: each has what was answered for its
\* own id, all of them or, when one info of the answer is malformed, none.
THEOREM ReceiptsAreJoined == IngestEventsSpec => []ReceiptsJoined
BY CallInvariance, Joined, PTL

\* With a node that stayed on its branch between the two RPCs every transaction is
\* shipped with its own receipt, in whatever order the receipts came.
THEOREM ReceiptsAreOwn == IngestEventsSpec => []OwnReceipts
BY CallInvariance, Own, PTL

\* Contract types, payloads, id, time and finality survive decoding and encoding.
THEOREM WireIsFaithful == IngestEventsSpec => []WireFaithful
BY CallInvariance, Faithful, PTL

\* A client that registered the right signature last gets every event as the contract
\* emitted it, through the node's cut topics, the codec, the join and the registry; an
\* event it did not declare is unknown to it.
THEOREM EventsArriveAsEmitted == IngestEventsSpec => []EventsEndToEnd
BY CallInvariance, RegistryInvariance, EndToEnd, PTL

\* The decoders of events.rs recognise every transfer and approval declared as the
\* standards do, with the emitted values, and decline every log of another signature or
\* with another number of topics, whatever its contract chose to index.
THEOREM UniversalEventsRecognised == IngestEventsSpec => []UniversalEvents
BY CallInvariance, Universal, PTL
=============================================================================
