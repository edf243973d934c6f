---------------------------- MODULE IngestEvents ----------------------------
(***************************************************************************)
(* The way of an event from the contract that emitted it to the client:    *)
(* java-tron's log, the two RPCs and the codec (Ingest), and the decoders  *)
(* of lightcycle-codec in the hands of a client (EventDecoder) that goes   *)
(* on registering signatures while blocks arrive.                          *)
(***************************************************************************)
EXTENDS Ingest, EventDecoder

CONSTANT MaxRegister    \* bound on the calls of register_signature

-----------------------------------------------------------------------------
(* What the TVM and java-tron make of an emission (external).  A wire log carries, as
   history, what the contract emitted: the declaration (name, types, which are
   indexed) and the values. *)

Bytes == Seq(0 .. 255)

\* The word of a value.
WordFor(v) ==
    CASE v[1] = "Address" -> [i \in 1 .. WordLen |->
            IF i <= WordLen - AddressLen + 1 THEN 0 ELSE v[2][i - (WordLen - AddressLen)]]
      [] v[1] = "Bool" -> [i \in 1 .. WordLen |-> IF i = WordLen /\ v[2] THEN 1 ELSE 0]
      [] v[1] = "Word" -> v[2]

\* The values of a type.
IsValue(ty, v) ==
    /\ v = <<v[1], v[2]>>
    /\ CASE ty[1] = "address" -> /\ v[1] = "Address" /\ v[2] \in Bytes
                                 /\ Len(v[2]) = AddressLen /\ v[2][1] = NetworkByte
         [] ty[1] = "bool" -> v[1] = "Bool" /\ v[2] \in BOOLEAN
         [] OTHER -> v[1] = "Word" /\ v[2] \in Bytes /\ Len(v[2]) = WordLen

\* The topic is the word, or what is left of it without some of its leading zeros.
IsTopic(t, w) ==
    \E n \in 0 .. WordLen : (\A i \in 1 .. n : w[i] = 0) /\ t = SubSeq(w, n + 1, WordLen)

\* The indexed values of an event, and how many before the i-th go where it goes.
Indexed(e) == {i \in DOMAIN e.types : e.indexed[i]}
EmittedBefore(e, i) == Cardinality({j \in 1 .. i - 1 : e.indexed[j] = e.indexed[i]})

\* The hash of the signature and the indexed values are topics, in order; the words of
\* the other values are the data.
IsLogOf(l, e) ==
    /\ l.address \in Bytes
    /\ IsList(l.topics) /\ Len(l.topics) = 1 + Cardinality(Indexed(e))
    /\ l.data \in Bytes /\ Len(l.data) = WordLen * (Len(e.types) - Cardinality(Indexed(e)))
    /\ l.topics[1] = Keccak[<<e.name, e.types>>]
    /\ \A i \in DOMAIN e.types :
          LET n == EmittedBefore(e, i)
              word == WordFor(e.values[i])
          IN  IF e.indexed[i] THEN IsTopic(l.topics[2 + n], word)
              ELSE SubSeq(l.data, WordLen * n + 1, WordLen * (n + 1)) = word

\* An event has a name and a value for every type; which of them are indexed is the
\* contract's choice, also when it shares its signature with the universal events.
IsEmission(e) ==
    /\ e.name # "" /\ <<e.name, e.types>> \in DOMAIN Keccak
    /\ IsList(e.types) /\ IsList(e.values) /\ e.indexed \in Seq(BOOLEAN)
    /\ Len(e.values) = Len(e.types) /\ Len(e.indexed) = Len(e.types)
    /\ \A i \in DOMAIN e.types : IsValue(e.types[i], e.values[i])

\* No two signatures have the same hash, and an event is not None.
ASSUME EventAssumption ==
    /\ \A x \in DOMAIN Keccak : Keccak[x] \in Bytes /\ Len(Keccak[x]) = WordLen
    /\ \A x, y \in DOMAIN Keccak : Keccak[x] = Keccak[y] => x = y
    /\ <<"Transfer", Standard>> \in DOMAIN Keccak /\ <<"Approval", Standard>> \in DOMAIN Keccak
    /\ None \notin [token : Bytes, from : Bytes, to : Bytes, value : Bytes]
    /\ None \notin [token : Bytes, from : Bytes, to : Bytes, token_id : Bytes]
    /\ \A text \in SignatureText :
          LET params == ParseParamList(text.params)
          IN  /\ IsList(text.params)
              /\ text.parens = "()" /\ text.name # "" /\ params.ok =>
                    CanonicalSignature(text.name, params.value) \in DOMAIN Keccak
    /\ \A b \in NodeBlock : \A list \in Answer[b] : \A i \in DOMAIN list :
          \A j \in DOMAIN list[i].log :
             LET l == list[i].log[j] IN IsEmission(l.emission) /\ IsLogOf(l, l.emission)

-----------------------------------------------------------------------------

allVars == <<ingestVars, registry, registered>>

IngestEventsInit == IngestInit /\ EventInit

IngestEventsNext ==
    \/ IngestNext /\ UNCHANGED <<registry, registered>>
    \/ /\ Len(registered) < MaxRegister
       /\ \E text \in SignatureText : RegisterSignature(text)
       /\ UNCHANGED ingestVars

IngestEventsSpec == IngestEventsInit /\ [][IngestEventsNext]_allVars

-----------------------------------------------------------------------------
(* Properties *)

\* A shipped log with the emission it comes from.
SentLogs ==
    IF last.list = None \/ ~ last.result.ok THEN {}
    ELSE UNION {
        LET info == Sent.transactions[k].info
            wire == last.list[Max({i \in DOMAIN last.list :
                                      last.list[i].id = Sent.transactions[k].id})]
        IN  {[log |-> info.logs[j], emission |-> wire.log[j].emission] : j \in DOMAIN info.logs}
        : k \in {k \in SentTxs : Sent.transactions[k].info # None}}

\* The text declares an event of that name and of those types.
Declares(text, e) ==
    LET params == ParseParamList(text.params)
    IN  /\ text.parens = "()" /\ text.name = e.name /\ params.ok
        /\ [i \in DOMAIN params.value |-> params.value[i].ty] = e.types

Flags(text) == LET p == ParseParamList(text.params).value
               IN  [i \in DOMAIN p |-> p[i].indexed]

\* End to end: if the last signature the client registered for an event has its
\* `indexed` in the right places, whatever its spelling of names and widths, every
\* emission of it is decoded to the values the contract emitted, in the order of
\* declaration, also when the node cut the leading zeros of a topic; and an event
\* nobody declared is reported as unknown, never as an error or as another event.
EventsEndToEnd ==
    \A s \in SentLogs :
        LET e == s.emission
            decls == {n \in DOMAIN registered : Declares(registered[n], e)}
            got_event == DecodeEvent(registry, s.log)
        IN  /\ decls = {} => got_event = Ok(None)
            /\ decls # {} /\ Flags(registered[Max(decls)]) = e.indexed =>
                  got_event = Ok([name |-> e.name, values |-> e.values])

\* The universal events as the standards declare them: both parties indexed, and the
\* third value a topic in TRC-721 only.
IsStandard(e, name, third) ==
    e.name = name /\ e.types = Standard /\ e.indexed = <<TRUE, TRUE, third>>

\* An event of that signature with two of its three values in topics.
HasTwoTopics(e, name) == e.name = name /\ e.types = Standard /\ Cardinality(Indexed(e)) = 2

\* The decoded event d has the emitted parties.
Parties(d, e) == <<"Address", d.from>> = e.values[1] /\ <<"Address", d.to>> = e.values[2]

\* Every TRC-20 transfer and approval and every TRC-721 transfer among the shipped
\* logs is recognised, with the parties and the amount or token that were emitted,
\* although transfers of both standards share their first topic.  A log of another
\* signature, or with another number of topics, is declined; what is made of
\* another choice of two topics is left open (see MisshapenDeclined).
UniversalEvents ==
    \A s \in SentLogs :
        LET e == s.emission
            transfer == DecodeTrc20Transfer(s.log)
            approval == DecodeTrc20Approval(s.log)
            nft == DecodeTrc721Transfer(s.log)
        IN  /\ IsStandard(e, "Transfer", FALSE) =>
                  /\ transfer # None /\ Parties(transfer, e)
                  /\ <<"Word", transfer.value>> = e.values[3]
            /\ IsStandard(e, "Approval", FALSE) =>
                  /\ approval # None /\ Parties(approval, e)
                  /\ <<"Word", approval.value>> = e.values[3]
            /\ IsStandard(e, "Transfer", TRUE) =>
                  /\ nft # None /\ Parties(nft, e)
                  /\ <<"Word", nft.token_id>> = e.values[3]
            /\ transfer # None => HasTwoTopics(e, "Transfer")
            /\ approval # None => HasTwoTopics(e, "Approval")
            /\ nft # None => IsStandard(e, "Transfer", TRUE)

-----------------------------------------------------------------------------
(* What the docs say and the code does not do *)

\* decode_trc20_transfer: "a non-TRC-20 contract is allowed to emit a log with the
\* same topic hash but a different shape. We just decline to interpret it."
\* Violated: only the number of topics and the length of the data are looked at, so
\* an event that indexes one party and the amount is read as a TRC-20 transfer,
\* with the amount for the receiver and the receiver for the amount.
MisshapenDeclined ==
    \A s \in SentLogs :
        DecodeTrc20Transfer(s.log) # None => IsStandard(s.emission, "Transfer", FALSE)
=============================================================================
