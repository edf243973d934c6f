------------------------------ MODULE Encoder ------------------------------
(***************************************************************************)
(* lightcycle-firehose/src/encode.rs: a buffered block and its transaction *)
(* infos into the sf.tron.type.v1.Block that clients get.                  *)
(***************************************************************************)
EXTENDS Codec

\* timestamp_from_ms; the code's / and % truncate towards zero.
TimestampFromMs(ms) ==
    LET abs == IF ms < 0 THEN -ms ELSE ms
        sign == IF ms < 0 THEN -1 ELSE 1
    IN  [seconds |-> sign * (abs \div 1000), nanos |-> sign * (abs % 1000) * 1000000]

\* encode_finality_tier: the numbers of the proto enum.
EncodeFinalityTier(tier) == CASE tier = "Seen" -> 1 [] tier = "Confirmed" -> 2
                              [] tier = "Finalized" -> 3

\* encode_finality: an unset head is 0 on the wire.
EncodeFinality(f) ==
    [tier |-> EncodeFinalityTier(f.tier),
     solidified_head_number |-> IF f.solidified_head = None THEN 0 ELSE f.solidified_head]

\* The kind alone, the numbers of sf.tron.type.v1.ContractKind.
PbKinds == [Transfer |-> 1, TransferAsset |-> 2, TriggerSmartContract |-> 3,
            CreateSmartContract |-> 4]

\* encode_contract: everything but the typed four is Other, with its wire tag.
EncodeContract(c) ==
    IF c.kind \in TypedKinds
    THEN [kind |-> PbKinds[c.kind[1]], unknown_kind |-> 0,
          payload |-> [owner |-> c.owner, rest |-> c.rest,
                       other |-> IF c.other = None THEN <<>> ELSE c.other]]
    ELSE [kind |-> 99, unknown_kind |-> ToWireTag(c.kind), payload |-> c.raw]

\* encode_tx_info; hash and height are not shipped again.
EncodeTxInfo(i) ==
    [success |-> i.success, resource |-> i.resource, logs |-> i.logs,
     contract_address |-> IF i.contract_address = None THEN <<>> ELSE i.contract_address,
     internal_transactions |-> i.internal_transactions]

\* Joins by position.
InfoFor_ByPosition(infos, txs, k) == IF k \in DOMAIN infos THEN infos[k] ELSE None

\* info_by_hash: collected in order into a map, so the last one with a hash stays;
\* an info of no transaction is never looked up.
InfoFor(infos, txs, k) ==
    LET mine == {i \in DOMAIN infos : infos[i].tx_hash = txs[k].hash}
    IN  IF mine = {} THEN None ELSE infos[Max(mine)]

\* encode_transaction.
EncodeTransaction(tx, info) ==
    [id |-> tx.hash, signatures |-> tx.signatures,
     contracts |-> [i \in DOMAIN tx.contracts |-> EncodeContract(tx.contracts[i])],
     info |-> IF info = None THEN None ELSE EncodeTxInfo(info)]

\* encode_block.
EncodeBlock(decoded, infos, finality) ==
    LET h == decoded.header
        txs == decoded.transactions
    IN  [number |-> h.height, id |-> h.block_id, parent_id |-> h.parent_id,
         time |-> TimestampFromMs(h.timestamp_ms),
         header |-> [raw_data_hash |-> h.raw_data_hash, witness |-> h.witness],
         transactions |-> [k \in DOMAIN txs |->
                              EncodeTransaction(txs[k], InfoFor(infos, txs, k))],
         finality |-> EncodeFinality(finality)]
=============================================================================
