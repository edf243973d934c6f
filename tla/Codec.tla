------------------------------- MODULE Codec -------------------------------
(***************************************************************************)
(* lightcycle-codec: java-tron's protobuf messages into domain types       *)
(* (block.rs, transaction.rs, tx_info.rs).  Byte fields are sequences of   *)
(* bytes whose length matters; fields that are copied and never looked at  *)
(* travel together as `rest`.                                              *)
(***************************************************************************)
EXTENDS Integers, Sequences, FiniteSets, FiniteSetsExt, TLC

CONSTANTS WordLen,       \* bytes of a hash or an EVM word (32)
          AddressLen,    \* bytes of a TRON address (21)
          HeightLen,     \* bytes of the height in front of a block id (8)
          None           \* an unset optional field

\* An address is a network byte and the tail of a word; an id is a height and
\* the tail of a hash.
ASSUME CodecAssumption ==
    /\ WordLen \in Nat /\ AddressLen \in 2 .. WordLen + 1
    /\ HeightLen \in 1 .. WordLen - 1

-----------------------------------------------------------------------------
(* Results and their errors *)

Ok(v) == [ok |-> TRUE, value |-> v]
Err(kind, field) == [ok |-> FALSE, error |-> <<kind, field>>]

\* `?` on each result in turn: the first error, or Ok(v).
Try(results, v) ==
    LET bad == {i \in DOMAIN results : ~ results[i].ok}
    IN  IF bad = {} THEN Ok(v) ELSE results[Min(bad)]

\* collect::<Result<Vec<_>>>() of decode over the elements of s.
Collect(decode(_), s) ==
    Try([i \in DOMAIN s |-> decode(s[i])], [i \in DOMAIN s |-> decode(s[i]).value])

\* u64::try_from(n).unwrap_or(0).
ToU64(n) == IF n < 0 THEN 0 ELSE n

\* n.to_be_bytes(), two's complement.
BeBytes(n) == [i \in 1 .. HeightLen |-> (n \div 256 ^ (HeightLen - i)) % 256]

-----------------------------------------------------------------------------
(* Fixed-width fields *)

BytesToHash32(b, field) == IF Len(b) = WordLen THEN Ok(b) ELSE Err("BadHash", field)

BytesToBlockId(b, field) == BytesToHash32(b, field)

BytesToTxHash(b, field) == BytesToHash32(b, field)

BytesToAddress(b, field) ==
    IF Len(b) = AddressLen THEN Ok(b) ELSE Err("BadAddress", field)

\* A field that is empty when there is no address.
OptionalAddress(b, field) == IF b = <<>> THEN Ok(None) ELSE BytesToAddress(b, field)

-----------------------------------------------------------------------------
(* Contract kinds.  A kind is <<name>>, or <<"Other", tag>> for a tag the vendored
   enum does not know. *)

\* The tags of the vendored enum.
WireEnum == (0 .. 6) \cup (8 .. 20) \cup (30 .. 33) \cup (41 .. 46) \cup {48, 49} \cup (51 .. 59)

\* from_wire_enum, by the tag of the wire enumerator.
FromWireEnum ==
    [tag \in WireEnum |->
        CASE tag = 0 -> "AccountCreate" [] tag = 1 -> "Transfer" [] tag = 2 -> "TransferAsset"
          [] tag = 3 -> "VoteAsset" [] tag = 4 -> "VoteWitness" [] tag = 5 -> "WitnessCreate"
          [] tag = 6 -> "AssetIssue" [] tag = 8 -> "WitnessUpdate"
          [] tag = 9 -> "ParticipateAssetIssue" [] tag = 10 -> "AccountUpdate"
          [] tag = 11 -> "FreezeBalance" [] tag = 12 -> "UnfreezeBalance"
          [] tag = 13 -> "WithdrawBalance" [] tag = 14 -> "UnfreezeAsset"
          [] tag = 15 -> "UpdateAsset" [] tag = 16 -> "ProposalCreate"
          [] tag = 17 -> "ProposalApprove" [] tag = 18 -> "ProposalDelete"
          [] tag = 19 -> "SetAccountId" [] tag = 20 -> "Custom"
          [] tag = 30 -> "CreateSmartContract" [] tag = 31 -> "TriggerSmartContract"
          [] tag = 32 -> "GetContract" [] tag = 33 -> "UpdateSetting"
          [] tag = 41 -> "ExchangeCreate" [] tag = 42 -> "ExchangeInject"
          [] tag = 43 -> "ExchangeWithdraw" [] tag = 44 -> "ExchangeTransaction"
          [] tag = 45 -> "UpdateEnergyLimit" [] tag = 46 -> "AccountPermissionUpdate"
          [] tag = 48 -> "ClearAbi" [] tag = 49 -> "UpdateBrokerage"
          [] tag = 51 -> "ShieldedTransfer" [] tag = 52 -> "MarketSellAsset"
          [] tag = 53 -> "MarketCancelOrder" [] tag = 54 -> "FreezeBalanceV2"
          [] tag = 55 -> "UnfreezeBalanceV2" [] tag = 56 -> "WithdrawExpireUnfreeze"
          [] tag = 57 -> "DelegateResource" [] tag = 58 -> "UnDelegateResource"
          [] tag = 59 -> "CancelAllUnfreezeV2"]

\* from_wire.
FromWire(tag) ==
    IF tag \in WireEnum THEN <<FromWireEnum[tag]>> ELSE <<"Other", tag>>

\* to_wire_tag, written out a second time in the code.
WireTags ==
    [AccountCreate |-> 0, Transfer |-> 1, TransferAsset |-> 2, VoteAsset |-> 3,
     VoteWitness |-> 4, WitnessCreate |-> 5, AssetIssue |-> 6, WitnessUpdate |-> 8,
     ParticipateAssetIssue |-> 9, AccountUpdate |-> 10, FreezeBalance |-> 11,
     UnfreezeBalance |-> 12, WithdrawBalance |-> 13, UnfreezeAsset |-> 14,
     UpdateAsset |-> 15, ProposalCreate |-> 16, ProposalApprove |-> 17,
     ProposalDelete |-> 18, SetAccountId |-> 19, Custom |-> 20,
     CreateSmartContract |-> 30, TriggerSmartContract |-> 31, GetContract |-> 32,
     UpdateSetting |-> 33, ExchangeCreate |-> 41, ExchangeInject |-> 42,
     ExchangeWithdraw |-> 43, ExchangeTransaction |-> 44, UpdateEnergyLimit |-> 45,
     AccountPermissionUpdate |-> 46, ClearAbi |-> 48, UpdateBrokerage |-> 49,
     ShieldedTransfer |-> 51, MarketSellAsset |-> 52, MarketCancelOrder |-> 53,
     FreezeBalanceV2 |-> 54, UnfreezeBalanceV2 |-> 55, WithdrawExpireUnfreeze |-> 56,
     DelegateResource |-> 57, UnDelegateResource |-> 58, CancelAllUnfreezeV2 |-> 59]

\* Forgets the tag of a kind it does not know.
ToWireTag_Zero(kind) == IF kind[1] = "Other" THEN 0 ELSE WireTags[kind[1]]
ToWireTag(kind) == IF kind[1] = "Other" THEN kind[2] ELSE WireTags[kind[1]]

TypedKinds == {<<"Transfer">>, <<"TransferAsset">>, <<"TriggerSmartContract">>,
               <<"CreateSmartContract">>}

-----------------------------------------------------------------------------
(* Transactions.  The parameter of a contract is the message its bytes hold:
   [parses, owner, other, rest], where `parses` says whether they are such a message
   and `other` is the second address of the typed messages. *)

\* What prost decodes from no bytes at all.
EmptyParameter == [parses |-> TRUE, owner |-> <<>>, other |-> <<>>, rest |-> "default"]

\* The addresses of a typed contract, in the order they are checked.
ContractAddresses(kind, m) ==
    IF kind = <<"CreateSmartContract">>
    THEN <<OptionalAddress(m.other, "contract_address"), BytesToAddress(m.owner, "owner")>>
    ELSE <<BytesToAddress(m.owner, "owner"), BytesToAddress(m.other, "other")>>

\* decode_contract: four typed variants, the others keep their bytes.
DecodeContract(c) ==
    LET kind == FromWire(c.type)
        m == IF c.parameter = None THEN EmptyParameter ELSE c.parameter
    IN  IF kind \notin TypedKinds THEN Ok([kind |-> kind, raw |-> m])
        ELSE IF ~ m.parses THEN Err("ProtoDecode", "parameter")
        ELSE Try(ContractAddresses(kind, m),
                 [kind  |-> kind, owner |-> m.owner, rest |-> m.rest,
                  other |-> IF m.other = <<>> THEN None ELSE m.other])

\* decode_transaction; the hash is that of the re-encoded raw_data.
DecodeTransaction(tx) ==
    IF tx.raw_data = None THEN Err("MissingTransactionRaw", "")
    ELSE LET contracts == Collect(DecodeContract, tx.raw_data.contract)
         IN  Try(<<contracts>>, [hash |-> tx.raw_data.sha256, contracts |-> contracts.value,
                                 signatures |-> tx.signature])

-----------------------------------------------------------------------------
(* Blocks *)

\* The id in the form parent_hash has on the wire: height, then the tail of the hash.
BlockIdOf(raw) == BeBytes(raw.number) \o SubSeq(raw.sha256, HeightLen + 1, WordLen)

\* decode_header.
DecodeHeader(h) ==
    IF h.raw_data = None THEN Err("MissingHeaderRaw", "")
    ELSE LET raw == h.raw_data
         IN  Try(<<BytesToBlockId(raw.parent_hash, "parent_hash"),
                   BytesToHash32(raw.tx_trie_root, "tx_trie_root"),
                   BytesToAddress(raw.witness_address, "witness_address")>>,
                 [height |-> ToU64(raw.number), block_id |-> BlockIdOf(raw),
                  parent_id |-> raw.parent_hash, raw_data_hash |-> raw.sha256,
                  timestamp_ms |-> raw.timestamp, witness |-> raw.witness_address])

\* decode_block_message: one transaction that does not decode fails the block.
DecodeBlockMessage(b) ==
    IF b.block_header = None THEN Err("MissingBlockHeader", "")
    ELSE LET header == DecodeHeader(b.block_header)
             txs == Collect(DecodeTransaction, b.transactions)
         IN  Try(<<header, txs>>, [header |-> header.value, transactions |-> txs.value])

-----------------------------------------------------------------------------
(* Transaction infos *)

\* Pads behind the bytes, as for a fixed-size byte string.
PadTopic_Right(t) == [i \in 1 .. WordLen |-> IF i <= Len(t) THEN t[i] ELSE 0]

\* A topic as a word: the first WordLen bytes at most, right-aligned.
PadTopic(t) ==
    LET n == Min({Len(t), WordLen})
    IN  [i \in 1 .. WordLen |-> IF i <= WordLen - n THEN 0 ELSE t[i - (WordLen - n)]]

\* decode_log.
DecodeLog(l) ==
    Try(<<BytesToAddress(l.address, "Log.address")>>,
        [address |-> l.address, topics |-> [i \in DOMAIN l.topics |-> PadTopic(l.topics[i])],
         data |-> l.data])

\* decode_internal.
DecodeInternal(i) ==
    Try(<<BytesToHash32(i.hash, "hash"), BytesToAddress(i.caller, "caller_address"),
          BytesToAddress(i.transfer_to, "transferTo_address")>>,
        [hash |-> i.hash, caller |-> i.caller, transfer_to |-> i.transfer_to,
         rejected |-> i.rejected])

\* decode_resource, or the default when the node sent no receipt.
DecodeResource(receipt) == IF receipt = None THEN "zero" ELSE receipt

\* decode_transaction_info_message.
DecodeTransactionInfo(info) ==
    LET logs == Collect(DecodeLog, info.log)
        internal == Collect(DecodeInternal, info.internal_transactions)
        contract == OptionalAddress(info.contract_address, "contract_address")
    IN  Try(<<BytesToTxHash(info.id, "id"), contract, logs, internal>>,
            [tx_hash |-> info.id, block_height |-> ToU64(info.block_number),
             success |-> info.result = 0, contract_address |-> contract.value,
             resource |-> DecodeResource(info.receipt),
             logs |-> logs.value, internal_transactions |-> internal.value])

\* Skips what does not decode.
DecodeTransactionInfoList_Lossy(list) ==
    Ok(LET good == SelectSeq(list, LAMBDA i : DecodeTransactionInfo(i).ok)
       IN  [i \in DOMAIN good |-> DecodeTransactionInfo(good[i]).value])
\* decode_transaction_info_list_message: all or nothing.
DecodeTransactionInfoList(list) == Collect(DecodeTransactionInfo, list)
=============================================================================
