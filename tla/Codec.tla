------------------------------- MODULE Codec -------------------------------
(***************************************************************************)
(* Marshal and Unmarshal of the messages in Messages.tla, and the wallet's *)
(* own encoders (wallet/src/chain.js).                                     *)
(***************************************************************************)
EXTENDS Messages

TypeOf ==
    [Coin |-> CoinType, PageRequest |-> PageRequestType,
     PageResponse |-> PageResponseType, Params |-> ParamsType, Pending |-> PendingType,
     Record |-> RecordType, GenesisState |-> GenesisStateType, Module |-> ModuleType,
     MsgUpdateParams |-> MsgUpdateParamsType,
     MsgUpdateParamsResponse |-> MsgUpdateParamsResponseType,
     MsgDelayedSend |-> MsgDelayedSendType,
     MsgDelayedSendResponse |-> MsgDelayedSendResponseType,
     MsgCancelSend |-> MsgCancelSendType,
     MsgCancelSendResponse |-> MsgCancelSendResponseType,
     MsgSetFinalOnly |-> MsgSetFinalOnlyType,
     MsgSetFinalOnlyResponse |-> MsgSetFinalOnlyResponseType,
     QueryParamsRequest |-> QueryParamsRequestType,
     QueryParamsResponse |-> QueryParamsResponseType,
     QueryGetPendingRequest |-> QueryGetPendingRequestType,
     QueryGetPendingResponse |-> QueryGetPendingResponseType,
     QueryAllPendingRequest |-> QueryAllPendingRequestType,
     QueryAllPendingResponse |-> QueryAllPendingResponseType,
     QueryGetRecordRequest |-> QueryGetRecordRequestType,
     QueryGetRecordResponse |-> QueryGetRecordResponseType,
     QueryAllRecordRequest |-> QueryAllRecordRequestType,
     QueryAllRecordResponse |-> QueryAllRecordResponseType]
Message ==
    CoinType \cup PageRequestType \cup PageResponseType \cup ParamsType
    \cup PendingType \cup RecordType \cup GenesisStateType \cup ModuleType
    \cup MsgUpdateParamsType \cup MsgUpdateParamsResponseType \cup MsgDelayedSendType
    \cup MsgDelayedSendResponseType \cup MsgCancelSendType
    \cup MsgCancelSendResponseType \cup MsgSetFinalOnlyType
    \cup MsgSetFinalOnlyResponseType \cup QueryParamsRequestType
    \cup QueryParamsResponseType \cup QueryGetPendingRequestType
    \cup QueryGetPendingResponseType \cup QueryAllPendingRequestType
    \cup QueryAllPendingResponseType \cup QueryGetRecordRequestType
    \cup QueryGetRecordResponseType \cup QueryAllRecordRequestType
    \cup QueryAllRecordResponseType
ZeroOf ==
    [Coin |-> CoinZero, PageRequest |-> PageRequestZero,
     PageResponse |-> PageResponseZero, Params |-> ParamsZero, Pending |-> PendingZero,
     Record |-> RecordZero, GenesisState |-> GenesisStateZero, Module |-> ModuleZero,
     MsgUpdateParams |-> MsgUpdateParamsZero,
     MsgUpdateParamsResponse |-> MsgUpdateParamsResponseZero,
     MsgDelayedSend |-> MsgDelayedSendZero,
     MsgDelayedSendResponse |-> MsgDelayedSendResponseZero,
     MsgCancelSend |-> MsgCancelSendZero,
     MsgCancelSendResponse |-> MsgCancelSendResponseZero,
     MsgSetFinalOnly |-> MsgSetFinalOnlyZero,
     MsgSetFinalOnlyResponse |-> MsgSetFinalOnlyResponseZero,
     QueryParamsRequest |-> QueryParamsRequestZero,
     QueryParamsResponse |-> QueryParamsResponseZero,
     QueryGetPendingRequest |-> QueryGetPendingRequestZero,
     QueryGetPendingResponse |-> QueryGetPendingResponseZero,
     QueryAllPendingRequest |-> QueryAllPendingRequestZero,
     QueryAllPendingResponse |-> QueryAllPendingResponseZero,
     QueryGetRecordRequest |-> QueryGetRecordRequestZero,
     QueryGetRecordResponse |-> QueryGetRecordResponseZero,
     QueryAllRecordRequest |-> QueryAllRecordRequestZero,
     QueryAllRecordResponse |-> QueryAllRecordResponseZero]
CasesOf ==
    [Coin |-> CoinCases, PageRequest |-> PageRequestCases,
     PageResponse |-> PageResponseCases, Params |-> ParamsCases,
     Pending |-> PendingCases, Record |-> RecordCases,
     GenesisState |-> GenesisStateCases, Module |-> ModuleCases,
     MsgUpdateParams |-> MsgUpdateParamsCases,
     MsgUpdateParamsResponse |-> MsgUpdateParamsResponseCases,
     MsgDelayedSend |-> MsgDelayedSendCases,
     MsgDelayedSendResponse |-> MsgDelayedSendResponseCases,
     MsgCancelSend |-> MsgCancelSendCases,
     MsgCancelSendResponse |-> MsgCancelSendResponseCases,
     MsgSetFinalOnly |-> MsgSetFinalOnlyCases,
     MsgSetFinalOnlyResponse |-> MsgSetFinalOnlyResponseCases,
     QueryParamsRequest |-> QueryParamsRequestCases,
     QueryParamsResponse |-> QueryParamsResponseCases,
     QueryGetPendingRequest |-> QueryGetPendingRequestCases,
     QueryGetPendingResponse |-> QueryGetPendingResponseCases,
     QueryAllPendingRequest |-> QueryAllPendingRequestCases,
     QueryAllPendingResponse |-> QueryAllPendingResponseCases,
     QueryGetRecordRequest |-> QueryGetRecordRequestCases,
     QueryGetRecordResponse |-> QueryGetRecordResponseCases,
     QueryAllRecordRequest |-> QueryAllRecordRequestCases,
     QueryAllRecordResponse |-> QueryAllRecordResponseCases]
Type == DOMAIN CasesOf

-----------------------------------------------------------------------------
(* Writing.  The SDK's three messages are only parts of others.            *)

Marshalled == Type \ {"Coin", "PageRequest", "PageResponse"}
Marshal(type, m) ==
    CASE type = "Params" -> Filled(ParamsBytes(m), ParamsSize(m))
      [] type = "Pending" -> Filled(PendingBytes(m), PendingSize(m))
      [] type = "Record" -> Filled(RecordBytes(m), RecordSize(m))
      [] type = "GenesisState" -> Filled(GenesisStateBytes(m), GenesisStateSize(m))
      [] type = "Module" -> Filled(ModuleBytes(m), ModuleSize(m))
      [] type = "MsgUpdateParams" -> Filled(MsgUpdateParamsBytes(m), MsgUpdateParamsSize(m))
      [] type = "MsgUpdateParamsResponse" ->
            Filled(MsgUpdateParamsResponseBytes(m), MsgUpdateParamsResponseSize(m))
      [] type = "MsgDelayedSend" -> Filled(MsgDelayedSendBytes(m), MsgDelayedSendSize(m))
      [] type = "MsgDelayedSendResponse" ->
            Filled(MsgDelayedSendResponseBytes(m), MsgDelayedSendResponseSize(m))
      [] type = "MsgCancelSend" -> Filled(MsgCancelSendBytes(m), MsgCancelSendSize(m))
      [] type = "MsgCancelSendResponse" ->
            Filled(MsgCancelSendResponseBytes(m), MsgCancelSendResponseSize(m))
      [] type = "MsgSetFinalOnly" -> Filled(MsgSetFinalOnlyBytes(m), MsgSetFinalOnlySize(m))
      [] type = "MsgSetFinalOnlyResponse" ->
            Filled(MsgSetFinalOnlyResponseBytes(m), MsgSetFinalOnlyResponseSize(m))
      [] type = "QueryParamsRequest" ->
            Filled(QueryParamsRequestBytes(m), QueryParamsRequestSize(m))
      [] type = "QueryParamsResponse" ->
            Filled(QueryParamsResponseBytes(m), QueryParamsResponseSize(m))
      [] type = "QueryGetPendingRequest" ->
            Filled(QueryGetPendingRequestBytes(m), QueryGetPendingRequestSize(m))
      [] type = "QueryGetPendingResponse" ->
            Filled(QueryGetPendingResponseBytes(m), QueryGetPendingResponseSize(m))
      [] type = "QueryAllPendingRequest" ->
            Filled(QueryAllPendingRequestBytes(m), QueryAllPendingRequestSize(m))
      [] type = "QueryAllPendingResponse" ->
            Filled(QueryAllPendingResponseBytes(m), QueryAllPendingResponseSize(m))
      [] type = "QueryGetRecordRequest" ->
            Filled(QueryGetRecordRequestBytes(m), QueryGetRecordRequestSize(m))
      [] type = "QueryGetRecordResponse" ->
            Filled(QueryGetRecordResponseBytes(m), QueryGetRecordResponseSize(m))
      [] type = "QueryAllRecordRequest" ->
            Filled(QueryAllRecordRequestBytes(m), QueryAllRecordRequestSize(m))
      [] type = "QueryAllRecordResponse" ->
            Filled(QueryAllRecordResponseBytes(m), QueryAllRecordResponseSize(m))

-----------------------------------------------------------------------------
(* Reading.                                                                *)

\* The fields of a message that wait for a varint; all others wait for bytes.
Varints == {"uint64", "int64", "bool"}
FromVarint(kind, value) ==
    CASE kind = "uint64" -> value
      [] kind = "int64" -> Signed(value, WordBits)
      [] kind = "bool" -> value # 0

\* The bytes of an embedded message, decoded into what the field holds.
Into(unmarshalled, type, bytes, start) ==
    unmarshalled[[type |-> type, data |-> bytes, at |-> 0, into |-> start]]
Embedded(unmarshalled, field, bytes, old) ==
    CASE field.kind = "message" -> Into(unmarshalled, field.of, bytes, old)
      [] field.kind = "repeated" ->
            {Append(old, e) : e \in Into(unmarshalled, field.of, bytes, ZeroOf[field.of])}
      [] field.kind = "pointer" ->
            {{v} : v \in Into(unmarshalled, field.of, bytes,
                              IF old = {} THEN ZeroOf[field.of] ELSE The(old))}

\* What follows the tag of a field this message has, and the field's new value.
Known(unmarshalled, field, data, from, old) ==
    CASE field.kind \in Varints ->
            {[value |-> FromVarint(field.kind, v.value), next |-> v.next]
             : v \in ReadVarint(data, from)}
      [] field.kind = "string" ->
            {[value |-> SubSeq(data, b.from + 1, b.post), next |-> b.post]
             : b \in ReadBytes(data, from)}
      [] OTHER ->
            UNION {{[value |-> v, next |-> b.post]
                    : v \in Embedded(unmarshalled, field, SubSeq(data, b.from + 1, b.post), old)}
                   : b \in ReadBytes(data, from)}

\* Mutant: skip starts behind the tag that has been read already.
AfterTagWithoutReset(unmarshalled, c, tag) ==
    LET fieldNum == Signed(tag.value \div 8, FieldBits)
        wireType == tag.value % 8
        field == CasesOf[c.type][fieldNum]
    IN  CASE wireType = 4 \/ fieldNum <= 0 -> {}
          [] wireType # 4 /\ fieldNum \in DOMAIN CasesOf[c.type] ->
               IF wireType # (IF field.kind \in Varints THEN 0 ELSE 2) THEN {}
               ELSE {[c EXCEPT !.at = read.next, !.into[field.name] = read.value]
                     : read \in Known(unmarshalled, field, c.data, tag.next, c.into[field.name])}
          [] OTHER -> {[c EXCEPT !.at = next] : next \in skip(c.data, tag.next)}

\* One turn of Unmarshal's loop.  A field of another number is skipped, a known one
\* with another wire type is an error.
AfterTag(unmarshalled, c, tag) ==
    LET fieldNum == Signed(tag.value \div 8, FieldBits)
        wireType == tag.value % 8
        field == CasesOf[c.type][fieldNum]
    IN  CASE wireType = 4 \/ fieldNum <= 0 -> {}
          [] wireType # 4 /\ fieldNum \in DOMAIN CasesOf[c.type] ->
               IF wireType # (IF field.kind \in Varints THEN 0 ELSE 2) THEN {}
               ELSE {[c EXCEPT !.at = read.next, !.into[field.name] = read.value]
                     : read \in Known(unmarshalled, field, c.data, tag.next, c.into[field.name])}
          [] OTHER -> {[c EXCEPT !.at = next] : next \in skip(c.data, c.at)}

\* Unmarshal, from a position on and into a message that may have fields already:
\* a scalar is replaced, an embedded message is merged, a list grows.
Reading ==
    {c \in [type : Type, data : Buffer, at : Nat, into : Message] : c.into \in TypeOf[c.type]}
Unmarshalled[c \in Reading] ==
    IF c.at >= Len(c.data) THEN {c.into}
    ELSE UNION {Unmarshalled[after]
                : after \in UNION {AfterTag(Unmarshalled, c, tag) : tag \in ReadVarint(c.data, c.at)}}

Unmarshal(type, data) == Into(Unmarshalled, type, data, ZeroOf[type])

\* A field that no message of this version has, by its number, and that is all
\* there: it may be of any wire type, a group too.
IsUnknown(field) ==
    /\ field \in Buffer
    /\ \E tag \in ReadVarint(field, 0) :
          /\ Signed(tag.value \div 8, FieldBits) > 0 /\ tag.value % 8 # 4
          /\ \A t \in Type : Signed(tag.value \div 8, FieldBits) \notin DOMAIN CasesOf[t]
    /\ skip(field, 0) = {Len(field)}

-----------------------------------------------------------------------------
(* The wallet's encoders, front to back.                                   *)

WalletField(no, kind, value) ==
    CASE kind = "string" /\ value # << >> ->
            <<no * 8 + 2>> \o Groups7[Len(value)] \o value
      [] kind = "uint64" /\ value # 0 -> <<no * 8>> \o Groups7[value]
      [] kind = "bool" /\ value -> <<no * 8, 1>>
      [] OTHER -> << >>
stringsMsg(fields, m) ==
    FlattenSeq([i \in DOMAIN fields |-> WalletField(fields[i].no, fields[i].kind, m[fields[i].name])])

WalletFields(first, second, kind) ==
    <<[name |-> first, no |-> 1, kind |-> "string"], [name |-> second, no |-> 2, kind |-> kind]>>

\* Mutant: the coin goes under the number of the recipient.
WalletDelayedSendBare(m) ==
    LET coin == stringsMsg(WalletFields("denom", "amount", "string"), m.amount)
    IN  WalletField(1, "string", m.creator) \o WalletField(2, "string", m.recipient)
        \o WalletField(2, "string", coin) \o WalletField(4, "uint64", m.window)
WalletDelayedSend(m) ==
    LET coin == stringsMsg(WalletFields("denom", "amount", "string"), m.amount)
    IN  WalletField(1, "string", m.creator) \o WalletField(2, "string", m.recipient)
        \o <<26>> \o Groups7[Len(coin)] \o coin \o WalletField(4, "uint64", m.window)
WalletCancelSend(m) == stringsMsg(WalletFields("creator", "id", "uint64"), m)
WalletSetFinalOnly(m) == stringsMsg(WalletFields("creator", "finalonly", "bool"), m)

WalletEncodes(type, m) ==
    CASE type = "MsgDelayedSend" -> WalletDelayedSend(m)
      [] type = "MsgCancelSend" -> WalletCancelSend(m)
      [] type = "MsgSetFinalOnly" -> WalletSetFinalOnly(m)
=============================================================================
