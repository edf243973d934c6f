------------------------------- MODULE Ingest -------------------------------
(***************************************************************************)
(* GrpcBlockFetcher::fetch_now_block (lightcycle-relayer/src/service.rs)   *)
(* over GrpcSource (lightcycle-source/src/grpc.rs), followed to the block  *)
(* a client is sent: the head block in one RPC, the transaction infos of   *)
(* its height in a second one, between which the node may change branch,   *)
(* then decoding and encoding.  What the engine does in between is module  *)
(* ReorgEngine.                                                            *)
(***************************************************************************)
EXTENDS Encoder

CONSTANTS NodeBlock,      \* the heads of the node, by name
          WireBlock,      \* the Block message of each
          Branch,         \* per head, the heads of its branch up to it
          Answer,         \* per head, the info lists the node may answer with
          Receipt,        \* per head, the infos of its transactions (external)
          SolidAtEmit     \* solidified heads the engine may have at emission

\* What prost and the node make sure of.  A repeated field is a list and a number is a
\* number; nothing that is there is None.
IsList(s) == s \in Seq({s[i] : i \in DOMAIN s})

ASSUME IngestAssumption ==
    /\ None \notin NodeBlock /\ None \notin Int /\ SolidAtEmit \subseteq Nat \cup {None}
    /\ \A b \in NodeBlock : Branch[b] \subseteq NodeBlock
    /\ \A b \in NodeBlock : LET block == WireBlock[b]
       IN  /\ IsList(block.transactions)
           /\ \A k \in DOMAIN block.transactions :
                 LET raw == block.transactions[k].raw_data
                 IN  raw # None =>
                       /\ IsList(raw.contract)
                       /\ \A c \in DOMAIN raw.contract : raw.contract[c].type \in Int
                       /\ \E r \in Receipt[b] : r.id = raw.sha256
           /\ block.block_header # None /\ block.block_header.raw_data # None =>
                 LET raw == block.block_header.raw_data
                 IN  /\ raw.number \in Int /\ raw.timestamp \in Int
                     /\ IsList(raw.sha256) /\ Len(raw.sha256) = WordLen
    /\ \A b \in NodeBlock : \A list \in Answer[b] :
          /\ IsList(list)
          /\ \A i \in DOMAIN list :
                LET info == DecodeTransactionInfo(list[i])
                IN  /\ IsList(list[i].log) /\ IsList(list[i].internal_transactions)
                    /\ info.ok => info.value # None /\ EncodeTxInfo(info.value) # None

VARIABLES fetch_tx_info,  \* GrpcBlockFetcher::fetch_tx_info, from the command line
          node,           \* the head of the node
          got,            \* the head whose infos are being asked for, or None
          last            \* the call that has just returned (history)

ingestVars == <<fetch_tx_info, node, got, last>>

\* [head, answerer, list, result]: list is None without an answer to the second RPC.
NoCall == [head |-> None, answerer |-> None, list |-> None, result |-> Err("", "")]

Decoded(b) == DecodeBlockMessage(WireBlock[b])

\* BlockFinality::for_block at emission; the block has no buffered descendant.
FinalityAt(height, head) ==
    [tier |-> IF head # None /\ height <= head THEN "Finalized" ELSE "Seen",
     solidified_head |-> head]

\* What the stream ships for a fetched block.
Shipped(b, infos, head) ==
    EncodeBlock(Decoded(b).value, infos, FinalityAt(Decoded(b).value.header.height, head))

\* The node produces a block or changes branch; at any time.  (`last` is history and
\* is only looked at when the call returns.)
NodeMoves(b) == node' = b /\ last' = NoCall /\ UNCHANGED <<fetch_tx_info, got>>

\* First RPC failed, or its block does not decode: the tick ends in an error.
BlockFails ==
    /\ got = None
    /\ \/ last' = [NoCall EXCEPT !.result = Err("Rpc", "get_now_block")]
       \/ /\ ~ Decoded(node).ok
          /\ last' = [NoCall EXCEPT !.head = node, !.result = Decoded(node)]
    /\ UNCHANGED <<fetch_tx_info, node, got>>

\* Asks for infos only when there are transactions and they are wanted.
AskForInfos(b) == fetch_tx_info /\ Decoded(b).value.transactions # <<>>

\* The block is fetched and shipped without infos.
BlockOnly ==
    /\ got = None /\ Decoded(node).ok /\ ~ AskForInfos(node)
    /\ \E s \in SolidAtEmit :
          last' = [NoCall EXCEPT !.head = node, !.result = Ok(Shipped(node, <<>>, s))]
    /\ UNCHANGED <<fetch_tx_info, node, got>>

\* The block is fetched; the infos of its height are asked for.
BlockFetched ==
    /\ got = None /\ Decoded(node).ok /\ AskForInfos(node)
    /\ got' = node /\ last' = NoCall
    /\ UNCHANGED <<fetch_tx_info, node>>

\* A list that does not decode fails the call.
InfosOrEmpty_Propagate(infos) == infos
\* A list that does not decode counts as no infos.
InfosOrEmpty(infos) == IF infos.ok THEN infos ELSE Ok(<<>>)

\* Height of a head on the wire, as fetch_transaction_info_by_block_num sends it.
HeadNumber(b) == ToU64(WireBlock[b].block_header.raw_data.number)

\* Second RPC: the node answers for the block it now has at that height.
InfosAnswered(b, list) ==
    /\ got # None /\ HeadNumber(b) = HeadNumber(got)
    /\ LET infos == InfosOrEmpty(DecodeTransactionInfoList(list))
       IN  \E s \in SolidAtEmit :
             last' = [head |-> got, answerer |-> b, list |-> list,
                      result |-> IF infos.ok THEN Ok(Shipped(got, infos.value, s))
                                 ELSE infos]
    /\ got' = None
    /\ UNCHANGED <<fetch_tx_info, node>>

\* The second RPC failed or timed out, or the node has no block at that height any
\* more and answers with nothing: the block is shipped without infos.
InfosFail ==
    /\ got # None
    /\ \E s \in SolidAtEmit :
          last' = [NoCall EXCEPT !.head = got, !.result = Ok(Shipped(got, <<>>, s))]
    /\ got' = None
    /\ UNCHANGED <<fetch_tx_info, node>>

IngestInit ==
    /\ fetch_tx_info \in BOOLEAN /\ node \in NodeBlock /\ got = None /\ last = NoCall

IngestNext ==
    \/ \E b \in NodeBlock : NodeMoves(b)
    \/ BlockFails
    \/ BlockOnly
    \/ BlockFetched
    \/ \E b \in Branch[node] : \E list \in Answer[b] : InfosAnswered(b, list)
    \/ InfosFail

-----------------------------------------------------------------------------
(* Properties *)

Sent == last.result.value
SentTxs == DOMAIN Sent.transactions

\* Losing logs is preferred to halting the stream: whatever happens to the infos, a
\* block is shipped exactly when its own RPC succeeded and it decodes, with all its
\* transactions in order.
InfosNeverHaltStream ==
    last.head # None =>
        /\ last.result.ok <=> Decoded(last.head).ok
        /\ last.result.ok =>
             [k \in SentTxs |-> Sent.transactions[k].id] =
             [k \in DOMAIN WireBlock[last.head].transactions |->
                 WireBlock[last.head].transactions[k].raw_data.sha256]

\* The join by hash: a transaction is only ever shipped with what the node answered
\* for its own id, in logs and outcome; every one that was answered for has it, or,
\* when some info of the list was malformed, none has.
ReceiptsJoined ==
    last.list # None /\ last.result.ok =>
        LET whole == \A i \in DOMAIN last.list : DecodeTransactionInfo(last.list[i]).ok
        IN  \A k \in SentTxs :
              LET tx == Sent.transactions[k]
                  mine == {i \in DOMAIN last.list : last.list[i].id = tx.id}
              IN  /\ tx.info # None <=> whole /\ mine # {}
                  /\ tx.info # None => \E i \in mine :
                        /\ tx.info.success <=> last.list[i].result = 0
                        /\ Len(tx.info.logs) = Len(last.list[i].log)

\* If the node stayed on its branch between the two RPCs and answered with the
\* receipts of the block, in whatever order, every transaction is shipped with its
\* own receipt.  (After a change of branch a transaction of both branches gets the
\* outcome it had on the other: the second RPC names a height, not a block.)
OwnReceipts ==
    /\ last.list # None /\ last.result.ok /\ last.answerer = last.head
    /\ {last.list[i] : i \in DOMAIN last.list} = Receipt[last.head]
    /\ \A r \in Receipt[last.head] : DecodeTransactionInfo(r).ok
    => \A k \in SentTxs :
          \E r \in Receipt[last.head] :
             /\ r.id = Sent.transactions[k].id
             /\ Sent.transactions[k].info = EncodeTxInfo(DecodeTransactionInfo(r).value)

\* The wire tag a client recovers from an encoded contract.
TagOf(pb) ==
    IF pb.kind = 99 THEN pb.unknown_kind
    ELSE CHOOSE t \in {1, 2, 31, 30} : PbKinds[FromWireEnum[t]] = pb.kind

\* Nothing a client needs is lost between java-tron's message and ours: the contract
\* type of every contract, known to the vendored enum or not, and its payload; the id
\* begins with the number; the timestamp is the same instant; a block is only tagged
\* FINALIZED with a head at or above it, and with 0 ("unset") only block 0 is.
WireFaithful ==
    last.head # None /\ last.result.ok =>
        LET b == WireBlock[last.head]
        IN  /\ \A k \in SentTxs : \A c \in DOMAIN Sent.transactions[k].contracts :
                  LET pb == Sent.transactions[k].contracts[c]
                      wire == b.transactions[k].raw_data.contract[c]
                  IN  /\ TagOf(pb) = wire.type
                      /\ wire.parameter # None => pb.payload.rest = wire.parameter.rest
            /\ Sent.number >= 0
            /\ b.block_header.raw_data.number >= 0 =>
                  SubSeq(Sent.id, 1, HeightLen) = BeBytes(Sent.number)
            /\ Sent.time.seconds * 1000 + Sent.time.nanos \div 1000000
                  = b.block_header.raw_data.timestamp
            /\ Sent.finality.tier = 3 => Sent.finality.solidified_head_number >= Sent.number
=============================================================================
