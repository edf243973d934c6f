---------------------------- MODULE EventDecoder ----------------------------
(***************************************************************************)
(* lightcycle-codec: the decoders of the universal TRC-20 and TRC-721      *)
(* events (events.rs) and the registry of event signatures (abi.rs), as a  *)
(* client uses them on the logs it is sent.  A signature text is given by  *)
(* its tokens; a type token is [base, width, array], width None when bare. *)
(***************************************************************************)
EXTENDS Codec

CONSTANTS Keccak,          \* the hash of a canonical signature <<name, types>>, a word
          SignatureText    \* [parens, name, params: sequences of tokens]

VARIABLES registry,        \* EventRegistry::by_topic0
          registered       \* every text register_signature was called with, in order

NetworkByte == 65          \* 0x41

\* word_to_tron_address and topic_to_tron_address: whatever stands before the last
\* bytes is ignored.
WordToAddress(w) == <<NetworkByte>> \o SubSeq(w, WordLen - AddressLen + 2, WordLen)

\* word_to_bool.
WordToBool(w) == w[WordLen] # 0

-----------------------------------------------------------------------------
(* events.rs *)

\* The types of both signatures.
Standard == << <<"address">>, <<"address">>, <<"uint", 256>> >>

TransferTopic0 == Keccak[<<"Transfer", Standard>>]
ApprovalTopic0 == Keccak[<<"Approval", Standard>>]

\* data_to_uint256 and the topic checks of decode_trc20_transfer / _approval.
DecodeTrc20(log, topic0) ==
    IF Len(log.topics) # 3 \/ log.topics[1] # topic0 \/ Len(log.data) # WordLen THEN None
    ELSE [token |-> log.address, from |-> WordToAddress(log.topics[2]),
          to |-> WordToAddress(log.topics[3]), value |-> log.data]

DecodeTrc20Transfer(log) == DecodeTrc20(log, TransferTopic0)
DecodeTrc20Approval(log) == DecodeTrc20(log, ApprovalTopic0)

\* Takes a TRC-20 transfer too.
DecodeTrc721Transfer_AnyCount(log) ==
    IF Len(log.topics) < 3 \/ log.topics[1] # TransferTopic0 THEN None
    ELSE [token |-> log.address, from |-> WordToAddress(log.topics[2]),
          to |-> WordToAddress(log.topics[3]), token_id |-> log.topics[Len(log.topics)]]

\* decode_trc721_transfer; the data is not looked at.
DecodeTrc721Transfer(log) ==
    IF Len(log.topics) # 4 \/ log.topics[1] # TransferTopic0 THEN None
    ELSE [token |-> log.address, from |-> WordToAddress(log.topics[2]),
          to |-> WordToAddress(log.topics[3]), token_id |-> log.topics[4]]

-----------------------------------------------------------------------------
(* abi.rs: parsing a signature *)

\* The widths parse_type accepts after `uint` and `int`.
GoodBits(n) == n \in 1 .. 256 /\ n % 8 = 0

\* parse_type.
ParseType(t) ==
    CASE t.array -> Err("UnsupportedType", "array")
      [] ~ t.array /\ t.base \in {"address", "bool"} -> Ok(<<t.base>>)
      [] ~ t.array /\ t.base \in {"uint", "int"} ->
            LET bits == IF t.width = None THEN 256 ELSE t.width
            IN  IF GoodBits(bits) THEN Ok(<<t.base, bits>>) ELSE Err("UnknownType", t.base)
      [] ~ t.array /\ t.base = "bytes" ->
            IF t.width = None THEN Err("UnsupportedType", "bytes")
            ELSE IF t.width \in 1 .. 32 THEN Ok(<<"bytes", t.width>>)
            ELSE Err("UnknownType", "bytes")
      [] ~ t.array /\ t.base = "string" -> Err("UnsupportedType", "string")
      [] OTHER -> Err("UnknownType", t.base)

\* parse_one_param: type, then `indexed` and a name, each if present.
ParseOneParam(tokens) ==
    LET words == IF tokens = <<>> THEN <<>> ELSE Tail(tokens)
        indexed == words # <<>> /\ words[1] = "indexed"
        names == IF indexed THEN Tail(words) ELSE words
        ty == ParseType(tokens[1])
    IN  IF tokens = <<>> \/ Len(names) > 1 THEN Err("Malformed", "parameter")
        ELSE Try(<<ty>>, [ty |-> ty.value, indexed |-> indexed,
                          name |-> IF names = <<>> THEN "" ELSE names[1]])

\* parse_param_list.
ParseParamList(params) == Collect(ParseOneParam, params)

\* canonical_signature: the types, without names or `indexed`.
CanonicalSignature(name, params) == <<name, [i \in DOMAIN params |-> params[i].ty]>>

\* EventSignature::parse.
ParseSignature(text) ==
    LET params == ParseParamList(text.params)
    IN  IF text.parens # "()" THEN Err("Malformed", "parentheses")
        ELSE IF text.name = "" THEN Err("Malformed", "empty name")
        ELSE Try(<<params>>, [name |-> text.name, params |-> params.value,
                              topic0 |-> Keccak[CanonicalSignature(text.name, params.value)]])

-----------------------------------------------------------------------------
(* abi.rs: the registry *)

\* EventRegistry::register: the last registration of a topic stays.
Register(reg, sig) ==
    [t \in DOMAIN reg \cup {sig.topic0} |-> IF t = sig.topic0 THEN sig ELSE reg[t]]

\* EventRegistry::register_signature.
RegisterSignature(text) ==
    /\ registered' = Append(registered, text)
    /\ LET sig == ParseSignature(text)
       IN  registry' = IF sig.ok THEN Register(registry, sig.value) ELSE registry

IndexedParams(sig) == {i \in DOMAIN sig.params : sig.params[i].indexed}

\* How many parameters before the i-th are read from the same place as it.
Before(sig, i) == Cardinality({j \in 1 .. i - 1 : sig.params[j].indexed = sig.params[i].indexed})

\* The word of the i-th parameter: the next topic or the next word of the data.
WordOf(sig, log, i) ==
    IF sig.params[i].indexed THEN log.topics[2 + Before(sig, i)]
    ELSE SubSeq(log.data, WordLen * Before(sig, i) + 1, WordLen * (Before(sig, i) + 1))

\* AbiValue, by type.
ValueOf(ty, w) ==
    CASE ty[1] = "address" -> <<"Address", WordToAddress(w)>>
      [] ty[1] = "bool" -> <<"Bool", WordToBool(w)>>
      [] OTHER -> <<"Word", w>>

\* decode_with_signature.
DecodeWithSignature(sig, log) ==
    IF Len(log.topics) - 1 # Cardinality(IndexedParams(sig))
    THEN Err("IndexedCountMismatch", "topics")
    ELSE IF Len(log.data) # WordLen * (Len(sig.params) - Cardinality(IndexedParams(sig)))
    THEN Err("DataLenMismatch", "data")
    ELSE Ok([name |-> sig.name,
             values |-> [i \in DOMAIN sig.params |->
                            ValueOf(sig.params[i].ty, WordOf(sig, log, i))]])

\* EventRegistry::decode; Ok(None) for a log that is not registered.
DecodeEvent(reg, log) ==
    IF log.topics = <<>> \/ log.topics[1] \notin DOMAIN reg THEN Ok(None)
    ELSE DecodeWithSignature(reg[log.topics[1]], log)

EventInit == registry = <<>> /\ registered = <<>>
=============================================================================
