------------------------------ MODULE Messages ------------------------------
(***************************************************************************)
(* The messages of x/undo/types, each as the generated code has it: its    *)
(* struct (Type, and Zero for Go's zero value), what it writes (Bytes),    *)
(* how long it says that is (Size) and which fields it knows when it reads *)
(* (Cases, by field number).  Descriptions of one message that nothing but *)
(* the generator keeps in step, and one more that the wallet has written   *)
(* by hand (wallet/src/chain.js).                                          *)
(*                                                                         *)
(* A pointer is a set: empty for nil, or with the value it points to.  The *)
(* Coin and the pages are the SDK's.                                       *)
(***************************************************************************)
EXTENDS Wire

The(pointer) == CHOOSE value \in pointer : TRUE
Pointer(type) == {p \in SUBSET type : \A a, b \in p : a = b}

Int64 == -Power2[WordBits - 1]..Power2[WordBits - 1] - 1

\* One case of the switch over field numbers.
Field(kind, name) == [kind |-> kind, name |-> name, of |-> ""]
FieldOf(kind, name, type) == [kind |-> kind, name |-> name, of |-> type]

EachField(tag, list, rest) ==
    LET from[i \in 1..Len(list) + 1] ==
            IF i > Len(list) THEN rest ELSE MessageField(tag, list[i], from[i + 1])
    IN  from[1]
EachSize(sizes) ==
    LET from[i \in 1..Len(sizes) + 1] ==
            IF i > Len(sizes) THEN 0 ELSE MessageSize(sizes[i]) + from[i + 1]
    IN  from[1]
PointerField(tag, bytes, rest) ==
    IF bytes = {} THEN rest ELSE MessageField(tag, The(bytes), rest)
PointerSize(size) == IF size = {} THEN 0 ELSE MessageSize(The(size))

-----------------------------------------------------------------------------
(* The SDK's messages.                                                     *)

CoinType == [denom : Text, amount : Text]
CoinZero == [denom |-> << >>, amount |-> << >>]
CoinBytes(m) == StringField(\h0a, m.denom, StringField(\h12, m.amount, << >>))
CoinSize(m) == StringSize(m.denom) + StringSize(m.amount)
CoinCases == <<Field("string", "denom"), Field("string", "amount")>>

PageRequestType ==
    [key : Text, offset : Word, limit : Word, countTotal : BOOLEAN, reverse : BOOLEAN]
PageRequestZero ==
    [key |-> << >>, offset |-> 0, limit |-> 0, countTotal |-> FALSE, reverse |-> FALSE]
PageRequestBytes(m) ==
    StringField(\h0a, m.key, UintField(\h10, m.offset, UintField(\h18, m.limit,
    BoolField(\h20, m.countTotal, BoolField(\h28, m.reverse, << >>)))))
PageRequestSize(m) ==
    StringSize(m.key) + UintSize(m.offset) + UintSize(m.limit) + BoolSize(m.countTotal)
    + BoolSize(m.reverse)
PageRequestCases ==
    <<Field("string", "key"), Field("uint64", "offset"), Field("uint64", "limit"),
      Field("bool", "countTotal"), Field("bool", "reverse")>>

PageResponseType == [nextKey : Text, total : Word]
PageResponseZero == [nextKey |-> << >>, total |-> 0]
PageResponseBytes(m) == StringField(\h0a, m.nextKey, UintField(\h10, m.total, << >>))
PageResponseSize(m) == StringSize(m.nextKey) + UintSize(m.total)
PageResponseCases == <<Field("string", "nextKey"), Field("uint64", "total")>>

-----------------------------------------------------------------------------
(* What the module stores: params.pb.go, pending.pb.go, record.pb.go.      *)

ParamsType == [minwindow : Word, defaultwindow : Word, maxwindow : Word]
ParamsZero == [minwindow |-> 0, defaultwindow |-> 0, maxwindow |-> 0]
ParamsBytes(m) ==
    UintField(\h08, m.minwindow, UintField(\h10, m.defaultwindow,
    UintField(\h18, m.maxwindow, << >>)))
ParamsSize(m) == UintSize(m.minwindow) + UintSize(m.defaultwindow) + UintSize(m.maxwindow)
ParamsCases ==
    <<Field("uint64", "minwindow"), Field("uint64", "defaultwindow"),
      Field("uint64", "maxwindow")>>

PendingType ==
    [id : Word, sender : Text, recipient : Text, amount : CoinType, executeat : Int64]
PendingZero ==
    [id |-> 0, sender |-> << >>, recipient |-> << >>, amount |-> CoinZero,
     executeat |-> 0]
\* Mutant: the time of execution goes under the tag of an unused field.
PendingBytesMistagged(m) ==
    UintField(\h08, m.id, StringField(\h12, m.sender, StringField(\h1a, m.recipient,
    MessageField(\h22, CoinBytes(m.amount), IntField(\h30, m.executeat, << >>)))))
PendingBytes(m) ==
    UintField(\h08, m.id, StringField(\h12, m.sender, StringField(\h1a, m.recipient,
    MessageField(\h22, CoinBytes(m.amount), IntField(\h28, m.executeat, << >>)))))
PendingSize(m) ==
    UintSize(m.id) + StringSize(m.sender) + StringSize(m.recipient)
    + MessageSize(CoinSize(m.amount)) + IntSize(m.executeat)
PendingCases ==
    <<Field("uint64", "id"), Field("string", "sender"), Field("string", "recipient"),
      FieldOf("message", "amount", "Coin"), Field("int64", "executeat")>>

RecordType == [index : Text, sent : Word, cancelled : Word, finalonly : BOOLEAN]
RecordZero == [index |-> << >>, sent |-> 0, cancelled |-> 0, finalonly |-> FALSE]
RecordBytes(m) ==
    StringField(\h0a, m.index, UintField(\h10, m.sent, UintField(\h18, m.cancelled,
    BoolField(\h20, m.finalonly, << >>))))
\* Mutant: the shop switch is not counted.
RecordSizeWithoutSwitch(m) == StringSize(m.index) + UintSize(m.sent) + UintSize(m.cancelled)
RecordSize(m) ==
    StringSize(m.index) + UintSize(m.sent) + UintSize(m.cancelled) + BoolSize(m.finalonly)
RecordCases ==
    <<Field("string", "index"), Field("uint64", "sent"), Field("uint64", "cancelled"),
      Field("bool", "finalonly")>>

-----------------------------------------------------------------------------
(* genesis.pb.go and module.pb.go.                                         *)

Mapped(Bytes(_), list) == [i \in DOMAIN list |-> Bytes(list[i])]

GenesisStateType ==
    [params : ParamsType, pendingList : Seq(PendingType), pendingCount : Word,
     recordMap : Seq(RecordType)]
GenesisStateZero ==
    [params |-> ParamsZero, pendingList |-> << >>, pendingCount |-> 0,
     recordMap |-> << >>]
GenesisStateBytes(m) ==
    MessageField(\h0a, ParamsBytes(m.params),
    EachField(\h12, Mapped(PendingBytes, m.pendingList), UintField(\h18, m.pendingCount,
    EachField(\h22, Mapped(RecordBytes, m.recordMap), << >>))))
GenesisStateSize(m) ==
    MessageSize(ParamsSize(m.params)) + EachSize(Mapped(PendingSize, m.pendingList))
    + UintSize(m.pendingCount) + EachSize(Mapped(RecordSize, m.recordMap))
GenesisStateCases ==
    <<FieldOf("message", "params", "Params"), FieldOf("repeated", "pendingList", "Pending"),
      Field("uint64", "pendingCount"), FieldOf("repeated", "recordMap", "Record")>>

ModuleType == [authority : Text]
ModuleZero == [authority |-> << >>]
ModuleBytes(m) == StringField(\h0a, m.authority, << >>)
ModuleSize(m) == StringSize(m.authority)
ModuleCases == <<Field("string", "authority")>>

-----------------------------------------------------------------------------
(* tx.pb.go.                                                               *)

MsgUpdateParamsType == [authority : Text, params : ParamsType]
MsgUpdateParamsZero == [authority |-> << >>, params |-> ParamsZero]
MsgUpdateParamsBytes(m) ==
    StringField(\h0a, m.authority, MessageField(\h12, ParamsBytes(m.params), << >>))
MsgUpdateParamsSize(m) == StringSize(m.authority) + MessageSize(ParamsSize(m.params))
MsgUpdateParamsCases ==
    <<Field("string", "authority"), FieldOf("message", "params", "Params")>>

MsgUpdateParamsResponseType == {<< >>}
MsgUpdateParamsResponseZero == << >>
MsgUpdateParamsResponseBytes(m) == << >>
MsgUpdateParamsResponseSize(m) == 0
MsgUpdateParamsResponseCases == << >>

MsgDelayedSendType == [creator : Text, recipient : Text, amount : CoinType, window : Word]
MsgDelayedSendZero ==
    [creator |-> << >>, recipient |-> << >>, amount |-> CoinZero, window |-> 0]
MsgDelayedSendBytes(m) ==
    StringField(\h0a, m.creator, StringField(\h12, m.recipient,
    MessageField(\h1a, CoinBytes(m.amount), UintField(\h20, m.window, << >>))))
MsgDelayedSendSize(m) ==
    StringSize(m.creator) + StringSize(m.recipient) + MessageSize(CoinSize(m.amount))
    + UintSize(m.window)
MsgDelayedSendCases ==
    <<Field("string", "creator"), Field("string", "recipient"),
      FieldOf("message", "amount", "Coin"), Field("uint64", "window")>>

MsgDelayedSendResponseType == [id : Word, final : BOOLEAN]
MsgDelayedSendResponseZero == [id |-> 0, final |-> FALSE]
MsgDelayedSendResponseBytes(m) ==
    UintField(\h08, m.id, BoolField(\h10, m.final, << >>))
MsgDelayedSendResponseSize(m) == UintSize(m.id) + BoolSize(m.final)
MsgDelayedSendResponseCases == <<Field("uint64", "id"), Field("bool", "final")>>

MsgCancelSendType == [creator : Text, id : Word]
MsgCancelSendZero == [creator |-> << >>, id |-> 0]
MsgCancelSendBytes(m) == StringField(\h0a, m.creator, UintField(\h10, m.id, << >>))
MsgCancelSendSize(m) == StringSize(m.creator) + UintSize(m.id)
MsgCancelSendCases == <<Field("string", "creator"), Field("uint64", "id")>>

MsgCancelSendResponseType == {<< >>}
MsgCancelSendResponseZero == << >>
MsgCancelSendResponseBytes(m) == << >>
MsgCancelSendResponseSize(m) == 0
MsgCancelSendResponseCases == << >>

MsgSetFinalOnlyType == [creator : Text, finalonly : BOOLEAN]
MsgSetFinalOnlyZero == [creator |-> << >>, finalonly |-> FALSE]
MsgSetFinalOnlyBytes(m) == StringField(\h0a, m.creator, BoolField(\h10, m.finalonly, << >>))
MsgSetFinalOnlySize(m) == StringSize(m.creator) + BoolSize(m.finalonly)
MsgSetFinalOnlyCases == <<Field("string", "creator"), Field("bool", "finalonly")>>

MsgSetFinalOnlyResponseType == {<< >>}
MsgSetFinalOnlyResponseZero == << >>
MsgSetFinalOnlyResponseBytes(m) == << >>
MsgSetFinalOnlyResponseSize(m) == 0
MsgSetFinalOnlyResponseCases == << >>

-----------------------------------------------------------------------------
(* query.pb.go.                                                            *)

QueryParamsRequestType == {<< >>}
QueryParamsRequestZero == << >>
QueryParamsRequestBytes(m) == << >>
QueryParamsRequestSize(m) == 0
QueryParamsRequestCases == << >>

QueryParamsResponseType == [params : ParamsType]
QueryParamsResponseZero == [params |-> ParamsZero]
QueryParamsResponseBytes(m) == MessageField(\h0a, ParamsBytes(m.params), << >>)
QueryParamsResponseSize(m) == MessageSize(ParamsSize(m.params))
QueryParamsResponseCases == <<FieldOf("message", "params", "Params")>>

QueryGetPendingRequestType == [id : Word]
QueryGetPendingRequestZero == [id |-> 0]
QueryGetPendingRequestBytes(m) == UintField(\h08, m.id, << >>)
QueryGetPendingRequestSize(m) == UintSize(m.id)
QueryGetPendingRequestCases == <<Field("uint64", "id")>>

QueryGetPendingResponseType == [pending : PendingType]
QueryGetPendingResponseZero == [pending |-> PendingZero]
QueryGetPendingResponseBytes(m) == MessageField(\h0a, PendingBytes(m.pending), << >>)
QueryGetPendingResponseSize(m) == MessageSize(PendingSize(m.pending))
QueryGetPendingResponseCases == <<FieldOf("message", "pending", "Pending")>>

PointedTo(Bytes(_), pointer) == {Bytes(value) : value \in pointer}

QueryAllPendingRequestType == [pagination : Pointer(PageRequestType)]
QueryAllPendingRequestZero == [pagination |-> {}]
QueryAllPendingRequestBytes(m) ==
    PointerField(\h0a, PointedTo(PageRequestBytes, m.pagination), << >>)
QueryAllPendingRequestSize(m) == PointerSize(PointedTo(PageRequestSize, m.pagination))
QueryAllPendingRequestCases == <<FieldOf("pointer", "pagination", "PageRequest")>>

QueryAllPendingResponseType ==
    [pending : Seq(PendingType), pagination : Pointer(PageResponseType)]
QueryAllPendingResponseZero == [pending |-> << >>, pagination |-> {}]
QueryAllPendingResponseBytes(m) ==
    EachField(\h0a, Mapped(PendingBytes, m.pending),
    PointerField(\h12, PointedTo(PageResponseBytes, m.pagination), << >>))
QueryAllPendingResponseSize(m) ==
    EachSize(Mapped(PendingSize, m.pending))
    + PointerSize(PointedTo(PageResponseSize, m.pagination))
QueryAllPendingResponseCases ==
    <<FieldOf("repeated", "pending", "Pending"),
      FieldOf("pointer", "pagination", "PageResponse")>>

QueryGetRecordRequestType == [index : Text]
QueryGetRecordRequestZero == [index |-> << >>]
QueryGetRecordRequestBytes(m) == StringField(\h0a, m.index, << >>)
QueryGetRecordRequestSize(m) == StringSize(m.index)
QueryGetRecordRequestCases == <<Field("string", "index")>>

QueryGetRecordResponseType == [record : RecordType]
QueryGetRecordResponseZero == [record |-> RecordZero]
QueryGetRecordResponseBytes(m) == MessageField(\h0a, RecordBytes(m.record), << >>)
QueryGetRecordResponseSize(m) == MessageSize(RecordSize(m.record))
QueryGetRecordResponseCases == <<FieldOf("message", "record", "Record")>>

QueryAllRecordRequestType == [pagination : Pointer(PageRequestType)]
QueryAllRecordRequestZero == [pagination |-> {}]
QueryAllRecordRequestBytes(m) ==
    PointerField(\h0a, PointedTo(PageRequestBytes, m.pagination), << >>)
QueryAllRecordRequestSize(m) == PointerSize(PointedTo(PageRequestSize, m.pagination))
QueryAllRecordRequestCases == <<FieldOf("pointer", "pagination", "PageRequest")>>

QueryAllRecordResponseType ==
    [record : Seq(RecordType), pagination : Pointer(PageResponseType)]
QueryAllRecordResponseZero == [record |-> << >>, pagination |-> {}]
QueryAllRecordResponseBytes(m) ==
    EachField(\h0a, Mapped(RecordBytes, m.record),
    PointerField(\h12, PointedTo(PageResponseBytes, m.pagination), << >>))
QueryAllRecordResponseSize(m) ==
    EachSize(Mapped(RecordSize, m.record))
    + PointerSize(PointedTo(PageResponseSize, m.pagination))
QueryAllRecordResponseCases ==
    <<FieldOf("repeated", "record", "Record"),
      FieldOf("pointer", "pagination", "PageResponse")>>
=============================================================================
