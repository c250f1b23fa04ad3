---------------------------- MODULE CodecProofs -----------------------------
(***************************************************************************)
(* What Marshal writes, Unmarshal reads, for every message of the module:  *)
(* with a field more, which it skips, and cut short, when it refuses or    *)
(* reads only what was written.                                            *)
(*                                                                         *)
(* A message is read field by field.  Reads(t, m, start, bytes) says that  *)
(* bytes lead Unmarshal from one partly read message to another, Writes    *)
(* that they also have the size that Size counts; each helper that writes  *)
(* a field in front of others keeps that (...Writes), so each Marshal does *)
(* (...Written).  Last come the wallet's encoders, which write the same    *)
(* bytes in the other direction.                                           *)
(***************************************************************************)
EXTENDS Codec, WireProofs

-----------------------------------------------------------------------------
(* What the fields of a message hold.                                      *)

Scalars == {"uint64", "int64", "bool", "string"}
FieldType(field) ==
    CASE field.kind = "uint64" -> Word
      [] field.kind = "int64" -> Int64
      [] field.kind = "bool" -> BOOLEAN
      [] field.kind = "string" -> Text
      [] field.kind = "message" -> TypeOf[field.of]
      [] field.kind = "repeated" -> Seq(TypeOf[field.of])
      [] field.kind = "pointer" -> Pointer(TypeOf[field.of])
FieldZero(field) ==
    CASE field.kind \in {"uint64", "int64"} -> 0
      [] field.kind = "bool" -> FALSE
      [] field.kind \in {"string", "repeated"} -> << >>
      [] field.kind = "message" -> ZeroOf[field.of]
      [] field.kind = "pointer" -> {}

\* A message is a record of its fields; no two of them have one name.
Names(cases) == {cases[n].name : n \in DOMAIN cases}
IsOf(m, cases) ==
    /\ m = [x \in Names(cases) |-> m[x]]
    /\ \A n \in DOMAIN cases : m[cases[n].name] \in FieldType(cases[n])
IsField(field) ==
    \/ field.kind \in Scalars
    \/ field.kind \in {"message", "repeated", "pointer"} /\ field.of \in Type
Describe(cases, type, zero) ==
    /\ Len(cases) \in Nat /\ DOMAIN cases = 1..Len(cases)
    /\ \A n \in DOMAIN cases : IsField(cases[n]) /\ zero[cases[n].name] = FieldZero(cases[n])
    /\ \A n, k \in DOMAIN cases : cases[n].name = cases[k].name => n = k
    /\ \A m : m \in type <=> IsOf(m, cases)
    /\ zero \in type /\ type \subseteq Message
Described(t) == Describe(CasesOf[t], TypeOf[t], ZeroOf[t])

LEMMA CoinRows ==
    /\ TypeOf["Coin"] = CoinType /\ CasesOf["Coin"] = CoinCases
    /\ ZeroOf["Coin"] = CoinZero /\ CoinType \subseteq Message
  BY DEF TypeOf, CasesOf, ZeroOf, Message
LEMMA PageRequestRows ==
    /\ TypeOf["PageRequest"] = PageRequestType /\ CasesOf["PageRequest"] = PageRequestCases
    /\ ZeroOf["PageRequest"] = PageRequestZero /\ PageRequestType \subseteq Message
  BY DEF TypeOf, CasesOf, ZeroOf, Message
LEMMA PageResponseRows ==
    /\ TypeOf["PageResponse"] = PageResponseType /\ CasesOf["PageResponse"] = PageResponseCases
    /\ ZeroOf["PageResponse"] = PageResponseZero /\ PageResponseType \subseteq Message
  BY DEF TypeOf, CasesOf, ZeroOf, Message
LEMMA ParamsRows ==
    /\ TypeOf["Params"] = ParamsType /\ CasesOf["Params"] = ParamsCases
    /\ ZeroOf["Params"] = ParamsZero /\ ParamsType \subseteq Message
  BY DEF TypeOf, CasesOf, ZeroOf, Message
LEMMA PendingRows ==
    /\ TypeOf["Pending"] = PendingType /\ CasesOf["Pending"] = PendingCases
    /\ ZeroOf["Pending"] = PendingZero /\ PendingType \subseteq Message
  BY DEF TypeOf, CasesOf, ZeroOf, Message
LEMMA RecordRows ==
    /\ TypeOf["Record"] = RecordType /\ CasesOf["Record"] = RecordCases
    /\ ZeroOf["Record"] = RecordZero /\ RecordType \subseteq Message
  BY DEF TypeOf, CasesOf, ZeroOf, Message
LEMMA GenesisStateRows ==
    /\ TypeOf["GenesisState"] = GenesisStateType /\ CasesOf["GenesisState"] = GenesisStateCases
    /\ ZeroOf["GenesisState"] = GenesisStateZero /\ GenesisStateType \subseteq Message
  BY DEF TypeOf, CasesOf, ZeroOf, Message
LEMMA ModuleRows ==
    /\ TypeOf["Module"] = ModuleType /\ CasesOf["Module"] = ModuleCases
    /\ ZeroOf["Module"] = ModuleZero /\ ModuleType \subseteq Message
  BY DEF TypeOf, CasesOf, ZeroOf, Message
LEMMA MsgUpdateParamsRows ==
    /\ TypeOf["MsgUpdateParams"] = MsgUpdateParamsType /\ CasesOf["MsgUpdateParams"] = MsgUpdateParamsCases
    /\ ZeroOf["MsgUpdateParams"] = MsgUpdateParamsZero /\ MsgUpdateParamsType \subseteq Message
  BY DEF TypeOf, CasesOf, ZeroOf, Message
LEMMA MsgUpdateParamsResponseRows ==
    /\ TypeOf["MsgUpdateParamsResponse"] = MsgUpdateParamsResponseType /\ CasesOf["MsgUpdateParamsResponse"] = MsgUpdateParamsResponseCases
    /\ ZeroOf["MsgUpdateParamsResponse"] = MsgUpdateParamsResponseZero /\ MsgUpdateParamsResponseType \subseteq Message
  BY DEF TypeOf, CasesOf, ZeroOf, Message
LEMMA MsgDelayedSendRows ==
    /\ TypeOf["MsgDelayedSend"] = MsgDelayedSendType /\ CasesOf["MsgDelayedSend"] = MsgDelayedSendCases
    /\ ZeroOf["MsgDelayedSend"] = MsgDelayedSendZero /\ MsgDelayedSendType \subseteq Message
  BY DEF TypeOf, CasesOf, ZeroOf, Message
LEMMA MsgDelayedSendResponseRows ==
    /\ TypeOf["MsgDelayedSendResponse"] = MsgDelayedSendResponseType /\ CasesOf["MsgDelayedSendResponse"] = MsgDelayedSendResponseCases
    /\ ZeroOf["MsgDelayedSendResponse"] = MsgDelayedSendResponseZero /\ MsgDelayedSendResponseType \subseteq Message
  BY DEF TypeOf, CasesOf, ZeroOf, Message
LEMMA MsgCancelSendRows ==
    /\ TypeOf["MsgCancelSend"] = MsgCancelSendType /\ CasesOf["MsgCancelSend"] = MsgCancelSendCases
    /\ ZeroOf["MsgCancelSend"] = MsgCancelSendZero /\ MsgCancelSendType \subseteq Message
  BY DEF TypeOf, CasesOf, ZeroOf, Message
LEMMA MsgCancelSendResponseRows ==
    /\ TypeOf["MsgCancelSendResponse"] = MsgCancelSendResponseType /\ CasesOf["MsgCancelSendResponse"] = MsgCancelSendResponseCases
    /\ ZeroOf["MsgCancelSendResponse"] = MsgCancelSendResponseZero /\ MsgCancelSendResponseType \subseteq Message
  BY DEF TypeOf, CasesOf, ZeroOf, Message
LEMMA MsgSetFinalOnlyRows ==
    /\ TypeOf["MsgSetFinalOnly"] = MsgSetFinalOnlyType /\ CasesOf["MsgSetFinalOnly"] = MsgSetFinalOnlyCases
    /\ ZeroOf["MsgSetFinalOnly"] = MsgSetFinalOnlyZero /\ MsgSetFinalOnlyType \subseteq Message
  BY DEF TypeOf, CasesOf, ZeroOf, Message
LEMMA MsgSetFinalOnlyResponseRows ==
    /\ TypeOf["MsgSetFinalOnlyResponse"] = MsgSetFinalOnlyResponseType /\ CasesOf["MsgSetFinalOnlyResponse"] = MsgSetFinalOnlyResponseCases
    /\ ZeroOf["MsgSetFinalOnlyResponse"] = MsgSetFinalOnlyResponseZero /\ MsgSetFinalOnlyResponseType \subseteq Message
  BY DEF TypeOf, CasesOf, ZeroOf, Message
LEMMA QueryParamsRequestRows ==
    /\ TypeOf["QueryParamsRequest"] = QueryParamsRequestType /\ CasesOf["QueryParamsRequest"] = QueryParamsRequestCases
    /\ ZeroOf["QueryParamsRequest"] = QueryParamsRequestZero /\ QueryParamsRequestType \subseteq Message
  BY DEF TypeOf, CasesOf, ZeroOf, Message
LEMMA QueryParamsResponseRows ==
    /\ TypeOf["QueryParamsResponse"] = QueryParamsResponseType /\ CasesOf["QueryParamsResponse"] = QueryParamsResponseCases
    /\ ZeroOf["QueryParamsResponse"] = QueryParamsResponseZero /\ QueryParamsResponseType \subseteq Message
  BY DEF TypeOf, CasesOf, ZeroOf, Message
LEMMA QueryGetPendingRequestRows ==
    /\ TypeOf["QueryGetPendingRequest"] = QueryGetPendingRequestType /\ CasesOf["QueryGetPendingRequest"] = QueryGetPendingRequestCases
    /\ ZeroOf["QueryGetPendingRequest"] = QueryGetPendingRequestZero /\ QueryGetPendingRequestType \subseteq Message
  BY DEF TypeOf, CasesOf, ZeroOf, Message
LEMMA QueryGetPendingResponseRows ==
    /\ TypeOf["QueryGetPendingResponse"] = QueryGetPendingResponseType /\ CasesOf["QueryGetPendingResponse"] = QueryGetPendingResponseCases
    /\ ZeroOf["QueryGetPendingResponse"] = QueryGetPendingResponseZero /\ QueryGetPendingResponseType \subseteq Message
  BY DEF TypeOf, CasesOf, ZeroOf, Message
LEMMA QueryAllPendingRequestRows ==
    /\ TypeOf["QueryAllPendingRequest"] = QueryAllPendingRequestType /\ CasesOf["QueryAllPendingRequest"] = QueryAllPendingRequestCases
    /\ ZeroOf["QueryAllPendingRequest"] = QueryAllPendingRequestZero /\ QueryAllPendingRequestType \subseteq Message
  BY DEF TypeOf, CasesOf, ZeroOf, Message
LEMMA QueryAllPendingResponseRows ==
    /\ TypeOf["QueryAllPendingResponse"] = QueryAllPendingResponseType /\ CasesOf["QueryAllPendingResponse"] = QueryAllPendingResponseCases
    /\ ZeroOf["QueryAllPendingResponse"] = QueryAllPendingResponseZero /\ QueryAllPendingResponseType \subseteq Message
  BY DEF TypeOf, CasesOf, ZeroOf, Message
LEMMA QueryGetRecordRequestRows ==
    /\ TypeOf["QueryGetRecordRequest"] = QueryGetRecordRequestType /\ CasesOf["QueryGetRecordRequest"] = QueryGetRecordRequestCases
    /\ ZeroOf["QueryGetRecordRequest"] = QueryGetRecordRequestZero /\ QueryGetRecordRequestType \subseteq Message
  BY DEF TypeOf, CasesOf, ZeroOf, Message
LEMMA QueryGetRecordResponseRows ==
    /\ TypeOf["QueryGetRecordResponse"] = QueryGetRecordResponseType /\ CasesOf["QueryGetRecordResponse"] = QueryGetRecordResponseCases
    /\ ZeroOf["QueryGetRecordResponse"] = QueryGetRecordResponseZero /\ QueryGetRecordResponseType \subseteq Message
  BY DEF TypeOf, CasesOf, ZeroOf, Message
LEMMA QueryAllRecordRequestRows ==
    /\ TypeOf["QueryAllRecordRequest"] = QueryAllRecordRequestType /\ CasesOf["QueryAllRecordRequest"] = QueryAllRecordRequestCases
    /\ ZeroOf["QueryAllRecordRequest"] = QueryAllRecordRequestZero /\ QueryAllRecordRequestType \subseteq Message
  BY DEF TypeOf, CasesOf, ZeroOf, Message
LEMMA QueryAllRecordResponseRows ==
    /\ TypeOf["QueryAllRecordResponse"] = QueryAllRecordResponseType /\ CasesOf["QueryAllRecordResponse"] = QueryAllRecordResponseCases
    /\ ZeroOf["QueryAllRecordResponse"] = QueryAllRecordResponseZero /\ QueryAllRecordResponseType \subseteq Message
  BY DEF TypeOf, CasesOf, ZeroOf, Message
LEMMA Types == /\ "Coin" \in Type /\ "PageRequest" \in Type /\ "PageResponse" \in Type
               /\ "Params" \in Type /\ "Pending" \in Type /\ "Record" \in Type
  BY DEF Type, CasesOf

LEMMA Zeros ==
    0 \in Word /\ 0 \in Int64 /\ << >> \in Text /\ \A T : << >> \in Seq(T) /\ {} \in Pointer(T)
  BY WordTyped DEF Word, Int64, Text, Pointer

Shows(field, name, type, zero) ==
    /\ field.name = name /\ IsField(field)
    /\ FieldType(field) = type /\ FieldZero(field) = zero

LEMMA FieldIs ==
    ASSUME NEW name, NEW of \in Type
    PROVE  /\ Shows(Field("uint64", name), name, Word, 0)
           /\ Shows(Field("int64", name), name, Int64, 0)
           /\ Shows(Field("bool", name), name, BOOLEAN, FALSE)
           /\ Shows(Field("string", name), name, Text, << >>)
           /\ Shows(FieldOf("message", name, of), name, TypeOf[of], ZeroOf[of])
           /\ Shows(FieldOf("repeated", name, of), name, Seq(TypeOf[of]), << >>)
           /\ Shows(FieldOf("pointer", name, of), name, Pointer(TypeOf[of]), {})
  BY DEF Shows, FieldType, FieldZero, Field, FieldOf, IsField, Scalars

LEMMA CoinDescribed == Described("Coin")
<1> DEFINE cases == CoinCases
<1>1. /\ Len(cases) = 2 /\ DOMAIN cases = 1..2 /\ cases[1] = Field("string", "denom")
      /\ cases[2] = Field("string", "amount")
  BY DEF CoinCases
<1> HIDE DEF cases
<1>2. /\ Shows(cases[1], "denom", Text, << >>) /\ Shows(cases[2], "amount", Text, << >>)
  BY <1>1, FieldIs, Types
<1>3. \A n \in 1..2 : IsField(cases[n])
  BY <1>2 DEF Shows
<1>4. \A n, k \in 1..2 : cases[n].name = cases[k].name => n = k
  BY <1>2 DEF Shows
<1>5. ASSUME NEW m PROVE m \in CoinType <=> IsOf(m, cases)
  <2>1. Names(cases) = {"denom", "amount"}
    BY <1>1, <1>2 DEF Names, Shows
  <2>2. (\A n \in 1..2 : m[cases[n].name] \in FieldType(cases[n]))
        <=> /\ m["denom"] \in Text /\ m["amount"] \in Text
    BY <1>2 DEF Shows
  <2>3. m \in CoinType
        <=> /\ m = [x \in Names(cases) |-> m[x]] /\ m["denom"] \in Text /\ m["amount"] \in Text
    BY <2>1 DEF CoinType
  <2> QED BY <1>1, <2>2, <2>3 DEF IsOf
<1>6. /\ CoinZero["denom"] = << >> /\ CoinZero["amount"] = << >>
  BY DEF CoinZero
<1>7. \A n \in 1..2 : CoinZero[cases[n].name] = FieldZero(cases[n])
  <2>1. /\ CoinZero[cases[1].name] = FieldZero(cases[1])
        /\ CoinZero[cases[2].name] = FieldZero(cases[2])
    BY <1>2, <1>6, Zenon DEF Shows
  <2> QED BY <2>1
<1>8. CoinZero \in CoinType
  BY Zeros DEF CoinZero, CoinType
<1>9. Describe(cases, CoinType, CoinZero)
  BY <1>1, <1>3, <1>4, <1>5, <1>7, <1>8, CoinRows DEF Describe
<1> QED BY <1>9, CoinRows DEF Described, cases

LEMMA PageRequestDescribed == Described("PageRequest")
<1> DEFINE cases == PageRequestCases
<1>1. /\ Len(cases) = 5 /\ DOMAIN cases = 1..5 /\ cases[1] = Field("string", "key")
      /\ cases[2] = Field("uint64", "offset") /\ cases[3] = Field("uint64", "limit")
      /\ cases[4] = Field("bool", "countTotal") /\ cases[5] = Field("bool", "reverse")
  BY DEF PageRequestCases
<1> HIDE DEF cases
<1>2. /\ Shows(cases[1], "key", Text, << >>) /\ Shows(cases[2], "offset", Word, 0)
      /\ Shows(cases[3], "limit", Word, 0) /\ Shows(cases[4], "countTotal", BOOLEAN, FALSE)
      /\ Shows(cases[5], "reverse", BOOLEAN, FALSE)
  BY <1>1, FieldIs, Types
<1>3. \A n \in 1..5 : IsField(cases[n])
  BY <1>2 DEF Shows
<1>4. \A n, k \in 1..5 : cases[n].name = cases[k].name => n = k
  BY <1>2 DEF Shows
<1>5. ASSUME NEW m PROVE m \in PageRequestType <=> IsOf(m, cases)
  <2>1. Names(cases) = {"key", "offset", "limit", "countTotal", "reverse"}
    BY <1>1, <1>2 DEF Names, Shows
  <2>2. (\A n \in 1..5 : m[cases[n].name] \in FieldType(cases[n]))
        <=> /\ m["key"] \in Text /\ m["offset"] \in Word /\ m["limit"] \in Word
            /\ m["countTotal"] \in BOOLEAN /\ m["reverse"] \in BOOLEAN
    BY <1>2 DEF Shows
  <2>3. m \in PageRequestType
        <=> /\ m = [x \in Names(cases) |-> m[x]] /\ m["key"] \in Text /\ m["offset"] \in Word
            /\ m["limit"] \in Word /\ m["countTotal"] \in BOOLEAN /\ m["reverse"] \in BOOLEAN
    BY <2>1 DEF PageRequestType
  <2> QED BY <1>1, <2>2, <2>3 DEF IsOf
<1>6. /\ PageRequestZero["key"] = << >> /\ PageRequestZero["offset"] = 0
      /\ PageRequestZero["limit"] = 0 /\ PageRequestZero["countTotal"] = FALSE
      /\ PageRequestZero["reverse"] = FALSE
  BY DEF PageRequestZero
<1>7. \A n \in 1..5 : PageRequestZero[cases[n].name] = FieldZero(cases[n])
  <2>1. /\ PageRequestZero[cases[1].name] = FieldZero(cases[1])
        /\ PageRequestZero[cases[2].name] = FieldZero(cases[2])
        /\ PageRequestZero[cases[3].name] = FieldZero(cases[3])
        /\ PageRequestZero[cases[4].name] = FieldZero(cases[4])
        /\ PageRequestZero[cases[5].name] = FieldZero(cases[5])
    BY <1>2, <1>6, Zenon DEF Shows
  <2> QED BY <2>1
<1>8. PageRequestZero \in PageRequestType
  BY Zeros DEF PageRequestZero, PageRequestType
<1>9. Describe(cases, PageRequestType, PageRequestZero)
  BY <1>1, <1>3, <1>4, <1>5, <1>7, <1>8, PageRequestRows DEF Describe
<1> QED BY <1>9, PageRequestRows DEF Described, cases

LEMMA PageResponseDescribed == Described("PageResponse")
<1> DEFINE cases == PageResponseCases
<1>1. /\ Len(cases) = 2 /\ DOMAIN cases = 1..2 /\ cases[1] = Field("string", "nextKey")
      /\ cases[2] = Field("uint64", "total")
  BY DEF PageResponseCases
<1> HIDE DEF cases
<1>2. /\ Shows(cases[1], "nextKey", Text, << >>) /\ Shows(cases[2], "total", Word, 0)
  BY <1>1, FieldIs, Types
<1>3. \A n \in 1..2 : IsField(cases[n])
  BY <1>2 DEF Shows
<1>4. \A n, k \in 1..2 : cases[n].name = cases[k].name => n = k
  BY <1>2 DEF Shows
<1>5. ASSUME NEW m PROVE m \in PageResponseType <=> IsOf(m, cases)
  <2>1. Names(cases) = {"nextKey", "total"}
    BY <1>1, <1>2 DEF Names, Shows
  <2>2. (\A n \in 1..2 : m[cases[n].name] \in FieldType(cases[n]))
        <=> /\ m["nextKey"] \in Text /\ m["total"] \in Word
    BY <1>2 DEF Shows
  <2>3. m \in PageResponseType
        <=> /\ m = [x \in Names(cases) |-> m[x]] /\ m["nextKey"] \in Text /\ m["total"] \in Word
    BY <2>1 DEF PageResponseType
  <2> QED BY <1>1, <2>2, <2>3 DEF IsOf
<1>6. /\ PageResponseZero["nextKey"] = << >> /\ PageResponseZero["total"] = 0
  BY DEF PageResponseZero
<1>7. \A n \in 1..2 : PageResponseZero[cases[n].name] = FieldZero(cases[n])
  <2>1. /\ PageResponseZero[cases[1].name] = FieldZero(cases[1])
        /\ PageResponseZero[cases[2].name] = FieldZero(cases[2])
    BY <1>2, <1>6, Zenon DEF Shows
  <2> QED BY <2>1
<1>8. PageResponseZero \in PageResponseType
  BY Zeros DEF PageResponseZero, PageResponseType
<1>9. Describe(cases, PageResponseType, PageResponseZero)
  BY <1>1, <1>3, <1>4, <1>5, <1>7, <1>8, PageResponseRows DEF Describe
<1> QED BY <1>9, PageResponseRows DEF Described, cases

LEMMA ParamsDescribed == Described("Params")
<1> DEFINE cases == ParamsCases
<1>1. /\ Len(cases) = 3 /\ DOMAIN cases = 1..3 /\ cases[1] = Field("uint64", "minwindow")
      /\ cases[2] = Field("uint64", "defaultwindow") /\ cases[3] = Field("uint64", "maxwindow")
  BY DEF ParamsCases
<1> HIDE DEF cases
<1>2. /\ Shows(cases[1], "minwindow", Word, 0) /\ Shows(cases[2], "defaultwindow", Word, 0)
      /\ Shows(cases[3], "maxwindow", Word, 0)
  BY <1>1, FieldIs, Types
<1>3. \A n \in 1..3 : IsField(cases[n])
  BY <1>2 DEF Shows
<1>4. \A n, k \in 1..3 : cases[n].name = cases[k].name => n = k
  BY <1>2 DEF Shows
<1>5. ASSUME NEW m PROVE m \in ParamsType <=> IsOf(m, cases)
  <2>1. Names(cases) = {"minwindow", "defaultwindow", "maxwindow"}
    BY <1>1, <1>2 DEF Names, Shows
  <2>2. (\A n \in 1..3 : m[cases[n].name] \in FieldType(cases[n]))
        <=> /\ m["minwindow"] \in Word /\ m["defaultwindow"] \in Word /\ m["maxwindow"] \in Word
    BY <1>2 DEF Shows
  <2>3. m \in ParamsType
        <=> /\ m = [x \in Names(cases) |-> m[x]] /\ m["minwindow"] \in Word
            /\ m["defaultwindow"] \in Word /\ m["maxwindow"] \in Word
    BY <2>1 DEF ParamsType
  <2> QED BY <1>1, <2>2, <2>3 DEF IsOf
<1>6. /\ ParamsZero["minwindow"] = 0 /\ ParamsZero["defaultwindow"] = 0
      /\ ParamsZero["maxwindow"] = 0
  BY DEF ParamsZero
<1>7. \A n \in 1..3 : ParamsZero[cases[n].name] = FieldZero(cases[n])
  <2>1. /\ ParamsZero[cases[1].name] = FieldZero(cases[1])
        /\ ParamsZero[cases[2].name] = FieldZero(cases[2])
        /\ ParamsZero[cases[3].name] = FieldZero(cases[3])
    BY <1>2, <1>6, Zenon DEF Shows
  <2> QED BY <2>1
<1>8. ParamsZero \in ParamsType
  BY Zeros DEF ParamsZero, ParamsType
<1>9. Describe(cases, ParamsType, ParamsZero)
  BY <1>1, <1>3, <1>4, <1>5, <1>7, <1>8, ParamsRows DEF Describe
<1> QED BY <1>9, ParamsRows DEF Described, cases

LEMMA PendingDescribed == Described("Pending")
<1> DEFINE cases == PendingCases
<1>1. /\ Len(cases) = 5 /\ DOMAIN cases = 1..5 /\ cases[1] = Field("uint64", "id")
      /\ cases[2] = Field("string", "sender") /\ cases[3] = Field("string", "recipient")
      /\ cases[4] = FieldOf("message", "amount", "Coin")
      /\ cases[5] = Field("int64", "executeat")
  BY DEF PendingCases
<1> HIDE DEF cases
<1>2. /\ Shows(cases[1], "id", Word, 0) /\ Shows(cases[2], "sender", Text, << >>)
      /\ Shows(cases[3], "recipient", Text, << >>)
      /\ Shows(cases[4], "amount", CoinType, CoinZero) /\ Shows(cases[5], "executeat", Int64, 0)
  BY <1>1, FieldIs, Types, CoinRows
<1>3. \A n \in 1..5 : IsField(cases[n])
  BY <1>2 DEF Shows
<1>4. \A n, k \in 1..5 : cases[n].name = cases[k].name => n = k
  BY <1>2 DEF Shows
<1>5. ASSUME NEW m PROVE m \in PendingType <=> IsOf(m, cases)
  <2>1. Names(cases) = {"id", "sender", "recipient", "amount", "executeat"}
    BY <1>1, <1>2 DEF Names, Shows
  <2>2. (\A n \in 1..5 : m[cases[n].name] \in FieldType(cases[n]))
        <=> /\ m["id"] \in Word /\ m["sender"] \in Text /\ m["recipient"] \in Text
            /\ m["amount"] \in CoinType /\ m["executeat"] \in Int64
    BY <1>2 DEF Shows
  <2>3. m \in PendingType
        <=> /\ m = [x \in Names(cases) |-> m[x]] /\ m["id"] \in Word /\ m["sender"] \in Text
            /\ m["recipient"] \in Text /\ m["amount"] \in CoinType /\ m["executeat"] \in Int64
    BY <2>1 DEF PendingType
  <2> QED BY <1>1, <2>2, <2>3 DEF IsOf
<1>6. /\ PendingZero["id"] = 0 /\ PendingZero["sender"] = << >>
      /\ PendingZero["recipient"] = << >> /\ PendingZero["amount"] = CoinZero
      /\ PendingZero["executeat"] = 0
  BY DEF PendingZero
<1>7. \A n \in 1..5 : PendingZero[cases[n].name] = FieldZero(cases[n])
  <2>1. /\ PendingZero[cases[1].name] = FieldZero(cases[1])
        /\ PendingZero[cases[2].name] = FieldZero(cases[2])
        /\ PendingZero[cases[3].name] = FieldZero(cases[3])
        /\ PendingZero[cases[4].name] = FieldZero(cases[4])
        /\ PendingZero[cases[5].name] = FieldZero(cases[5])
    BY <1>2, <1>6, Zenon DEF Shows
  <2> QED BY <2>1
<1>8. PendingZero \in PendingType
  BY Zeros, CoinDescribed, CoinRows DEF PendingZero, PendingType, Described, Describe
<1>9. Describe(cases, PendingType, PendingZero)
  BY <1>1, <1>3, <1>4, <1>5, <1>7, <1>8, PendingRows DEF Describe
<1> QED BY <1>9, PendingRows DEF Described, cases

LEMMA RecordDescribed == Described("Record")
<1> DEFINE cases == RecordCases
<1>1. /\ Len(cases) = 4 /\ DOMAIN cases = 1..4 /\ cases[1] = Field("string", "index")
      /\ cases[2] = Field("uint64", "sent") /\ cases[3] = Field("uint64", "cancelled")
      /\ cases[4] = Field("bool", "finalonly")
  BY DEF RecordCases
<1> HIDE DEF cases
<1>2. /\ Shows(cases[1], "index", Text, << >>) /\ Shows(cases[2], "sent", Word, 0)
      /\ Shows(cases[3], "cancelled", Word, 0) /\ Shows(cases[4], "finalonly", BOOLEAN, FALSE)
  BY <1>1, FieldIs, Types
<1>3. \A n \in 1..4 : IsField(cases[n])
  BY <1>2 DEF Shows
<1>4. \A n, k \in 1..4 : cases[n].name = cases[k].name => n = k
  BY <1>2 DEF Shows
<1>5. ASSUME NEW m PROVE m \in RecordType <=> IsOf(m, cases)
  <2>1. Names(cases) = {"index", "sent", "cancelled", "finalonly"}
    BY <1>1, <1>2 DEF Names, Shows
  <2>2. (\A n \in 1..4 : m[cases[n].name] \in FieldType(cases[n]))
        <=> /\ m["index"] \in Text /\ m["sent"] \in Word /\ m["cancelled"] \in Word
            /\ m["finalonly"] \in BOOLEAN
    BY <1>2 DEF Shows
  <2>3. m \in RecordType
        <=> /\ m = [x \in Names(cases) |-> m[x]] /\ m["index"] \in Text /\ m["sent"] \in Word
            /\ m["cancelled"] \in Word /\ m["finalonly"] \in BOOLEAN
    BY <2>1 DEF RecordType
  <2> QED BY <1>1, <2>2, <2>3 DEF IsOf
<1>6. /\ RecordZero["index"] = << >> /\ RecordZero["sent"] = 0 /\ RecordZero["cancelled"] = 0
      /\ RecordZero["finalonly"] = FALSE
  BY DEF RecordZero
<1>7. \A n \in 1..4 : RecordZero[cases[n].name] = FieldZero(cases[n])
  <2>1. /\ RecordZero[cases[1].name] = FieldZero(cases[1])
        /\ RecordZero[cases[2].name] = FieldZero(cases[2])
        /\ RecordZero[cases[3].name] = FieldZero(cases[3])
        /\ RecordZero[cases[4].name] = FieldZero(cases[4])
    BY <1>2, <1>6, Zenon DEF Shows
  <2> QED BY <2>1
<1>8. RecordZero \in RecordType
  BY Zeros DEF RecordZero, RecordType
<1>9. Describe(cases, RecordType, RecordZero)
  BY <1>1, <1>3, <1>4, <1>5, <1>7, <1>8, RecordRows DEF Describe
<1> QED BY <1>9, RecordRows DEF Described, cases

LEMMA GenesisStateDescribed == Described("GenesisState")
<1> DEFINE cases == GenesisStateCases
<1>1. /\ Len(cases) = 4 /\ DOMAIN cases = 1..4
      /\ cases[1] = FieldOf("message", "params", "Params")
      /\ cases[2] = FieldOf("repeated", "pendingList", "Pending")
      /\ cases[3] = Field("uint64", "pendingCount")
      /\ cases[4] = FieldOf("repeated", "recordMap", "Record")
  BY DEF GenesisStateCases
<1> HIDE DEF cases
<1>2. /\ Shows(cases[1], "params", ParamsType, ParamsZero)
      /\ Shows(cases[2], "pendingList", Seq(PendingType), << >>)
      /\ Shows(cases[3], "pendingCount", Word, 0)
      /\ Shows(cases[4], "recordMap", Seq(RecordType), << >>)
  BY <1>1, FieldIs, Types, ParamsRows, PendingRows, RecordRows
<1>3. \A n \in 1..4 : IsField(cases[n])
  BY <1>2 DEF Shows
<1>4. \A n, k \in 1..4 : cases[n].name = cases[k].name => n = k
  BY <1>2 DEF Shows
<1>5. ASSUME NEW m PROVE m \in GenesisStateType <=> IsOf(m, cases)
  <2>1. Names(cases) = {"params", "pendingList", "pendingCount", "recordMap"}
    BY <1>1, <1>2 DEF Names, Shows
  <2>2. (\A n \in 1..4 : m[cases[n].name] \in FieldType(cases[n]))
        <=> /\ m["params"] \in ParamsType /\ m["pendingList"] \in Seq(PendingType)
            /\ m["pendingCount"] \in Word /\ m["recordMap"] \in Seq(RecordType)
    BY <1>2 DEF Shows
  <2>3. m \in GenesisStateType
        <=> /\ m = [x \in Names(cases) |-> m[x]] /\ m["params"] \in ParamsType
            /\ m["pendingList"] \in Seq(PendingType) /\ m["pendingCount"] \in Word
            /\ m["recordMap"] \in Seq(RecordType)
    BY <2>1 DEF GenesisStateType
  <2> QED BY <1>1, <2>2, <2>3 DEF IsOf
<1>6. /\ GenesisStateZero["params"] = ParamsZero /\ GenesisStateZero["pendingList"] = << >>
      /\ GenesisStateZero["pendingCount"] = 0 /\ GenesisStateZero["recordMap"] = << >>
  BY DEF GenesisStateZero
<1>7. \A n \in 1..4 : GenesisStateZero[cases[n].name] = FieldZero(cases[n])
  <2>1. /\ GenesisStateZero[cases[1].name] = FieldZero(cases[1])
        /\ GenesisStateZero[cases[2].name] = FieldZero(cases[2])
        /\ GenesisStateZero[cases[3].name] = FieldZero(cases[3])
        /\ GenesisStateZero[cases[4].name] = FieldZero(cases[4])
    BY <1>2, <1>6, Zenon DEF Shows
  <2> QED BY <2>1
<1>8. GenesisStateZero \in GenesisStateType
  BY Zeros, ParamsDescribed, ParamsRows DEF GenesisStateZero, GenesisStateType, Described, Describe
<1>9. Describe(cases, GenesisStateType, GenesisStateZero)
  BY <1>1, <1>3, <1>4, <1>5, <1>7, <1>8, GenesisStateRows DEF Describe
<1> QED BY <1>9, GenesisStateRows DEF Described, cases

LEMMA ModuleDescribed == Described("Module")
<1> DEFINE cases == ModuleCases
<1>1. /\ Len(cases) = 1 /\ DOMAIN cases = 1..1 /\ cases[1] = Field("string", "authority")
  BY DEF ModuleCases
<1> HIDE DEF cases
<1>2. /\ Shows(cases[1], "authority", Text, << >>)
  BY <1>1, FieldIs, Types
<1>3. \A n \in 1..1 : IsField(cases[n])
  BY <1>2 DEF Shows
<1>4. \A n, k \in 1..1 : cases[n].name = cases[k].name => n = k
  BY <1>2 DEF Shows
<1>5. ASSUME NEW m PROVE m \in ModuleType <=> IsOf(m, cases)
  <2>1. Names(cases) = {"authority"}
    BY <1>1, <1>2 DEF Names, Shows
  <2>2. (\A n \in 1..1 : m[cases[n].name] \in FieldType(cases[n]))
        <=> /\ m["authority"] \in Text
    BY <1>2 DEF Shows
  <2>3. m \in ModuleType
        <=> /\ m = [x \in Names(cases) |-> m[x]] /\ m["authority"] \in Text
    BY <2>1 DEF ModuleType
  <2> QED BY <1>1, <2>2, <2>3 DEF IsOf
<1>6. /\ ModuleZero["authority"] = << >>
  BY DEF ModuleZero
<1>7. \A n \in 1..1 : ModuleZero[cases[n].name] = FieldZero(cases[n])
  <2>1. /\ ModuleZero[cases[1].name] = FieldZero(cases[1])
    BY <1>2, <1>6, Zenon DEF Shows
  <2> QED BY <2>1
<1>8. ModuleZero \in ModuleType
  BY Zeros DEF ModuleZero, ModuleType
<1>9. Describe(cases, ModuleType, ModuleZero)
  BY <1>1, <1>3, <1>4, <1>5, <1>7, <1>8, ModuleRows DEF Describe
<1> QED BY <1>9, ModuleRows DEF Described, cases

LEMMA MsgUpdateParamsDescribed == Described("MsgUpdateParams")
<1> DEFINE cases == MsgUpdateParamsCases
<1>1. /\ Len(cases) = 2 /\ DOMAIN cases = 1..2 /\ cases[1] = Field("string", "authority")
      /\ cases[2] = FieldOf("message", "params", "Params")
  BY DEF MsgUpdateParamsCases
<1> HIDE DEF cases
<1>2. /\ Shows(cases[1], "authority", Text, << >>)
      /\ Shows(cases[2], "params", ParamsType, ParamsZero)
  BY <1>1, FieldIs, Types, ParamsRows
<1>3. \A n \in 1..2 : IsField(cases[n])
  BY <1>2 DEF Shows
<1>4. \A n, k \in 1..2 : cases[n].name = cases[k].name => n = k
  BY <1>2 DEF Shows
<1>5. ASSUME NEW m PROVE m \in MsgUpdateParamsType <=> IsOf(m, cases)
  <2>1. Names(cases) = {"authority", "params"}
    BY <1>1, <1>2 DEF Names, Shows
  <2>2. (\A n \in 1..2 : m[cases[n].name] \in FieldType(cases[n]))
        <=> /\ m["authority"] \in Text /\ m["params"] \in ParamsType
    BY <1>2 DEF Shows
  <2>3. m \in MsgUpdateParamsType
        <=> /\ m = [x \in Names(cases) |-> m[x]] /\ m["authority"] \in Text
            /\ m["params"] \in ParamsType
    BY <2>1 DEF MsgUpdateParamsType
  <2> QED BY <1>1, <2>2, <2>3 DEF IsOf
<1>6. /\ MsgUpdateParamsZero["authority"] = << >> /\ MsgUpdateParamsZero["params"] = ParamsZero
  BY DEF MsgUpdateParamsZero
<1>7. \A n \in 1..2 : MsgUpdateParamsZero[cases[n].name] = FieldZero(cases[n])
  <2>1. /\ MsgUpdateParamsZero[cases[1].name] = FieldZero(cases[1])
        /\ MsgUpdateParamsZero[cases[2].name] = FieldZero(cases[2])
    BY <1>2, <1>6, Zenon DEF Shows
  <2> QED BY <2>1
<1>8. MsgUpdateParamsZero \in MsgUpdateParamsType
  BY Zeros, ParamsDescribed, ParamsRows DEF MsgUpdateParamsZero, MsgUpdateParamsType, Described, Describe
<1>9. Describe(cases, MsgUpdateParamsType, MsgUpdateParamsZero)
  BY <1>1, <1>3, <1>4, <1>5, <1>7, <1>8, MsgUpdateParamsRows DEF Describe
<1> QED BY <1>9, MsgUpdateParamsRows DEF Described, cases

LEMMA MsgDelayedSendDescribed == Described("MsgDelayedSend")
<1> DEFINE cases == MsgDelayedSendCases
<1>1. /\ Len(cases) = 4 /\ DOMAIN cases = 1..4 /\ cases[1] = Field("string", "creator")
      /\ cases[2] = Field("string", "recipient")
      /\ cases[3] = FieldOf("message", "amount", "Coin") /\ cases[4] = Field("uint64", "window")
  BY DEF MsgDelayedSendCases
<1> HIDE DEF cases
<1>2. /\ Shows(cases[1], "creator", Text, << >>) /\ Shows(cases[2], "recipient", Text, << >>)
      /\ Shows(cases[3], "amount", CoinType, CoinZero) /\ Shows(cases[4], "window", Word, 0)
  BY <1>1, FieldIs, Types, CoinRows
<1>3. \A n \in 1..4 : IsField(cases[n])
  BY <1>2 DEF Shows
<1>4. \A n, k \in 1..4 : cases[n].name = cases[k].name => n = k
  BY <1>2 DEF Shows
<1>5. ASSUME NEW m PROVE m \in MsgDelayedSendType <=> IsOf(m, cases)
  <2>1. Names(cases) = {"creator", "recipient", "amount", "window"}
    BY <1>1, <1>2 DEF Names, Shows
  <2>2. (\A n \in 1..4 : m[cases[n].name] \in FieldType(cases[n]))
        <=> /\ m["creator"] \in Text /\ m["recipient"] \in Text /\ m["amount"] \in CoinType
            /\ m["window"] \in Word
    BY <1>2 DEF Shows
  <2>3. m \in MsgDelayedSendType
        <=> /\ m = [x \in Names(cases) |-> m[x]] /\ m["creator"] \in Text
            /\ m["recipient"] \in Text /\ m["amount"] \in CoinType /\ m["window"] \in Word
    BY <2>1 DEF MsgDelayedSendType
  <2> QED BY <1>1, <2>2, <2>3 DEF IsOf
<1>6. /\ MsgDelayedSendZero["creator"] = << >> /\ MsgDelayedSendZero["recipient"] = << >>
      /\ MsgDelayedSendZero["amount"] = CoinZero /\ MsgDelayedSendZero["window"] = 0
  BY DEF MsgDelayedSendZero
<1>7. \A n \in 1..4 : MsgDelayedSendZero[cases[n].name] = FieldZero(cases[n])
  <2>1. /\ MsgDelayedSendZero[cases[1].name] = FieldZero(cases[1])
        /\ MsgDelayedSendZero[cases[2].name] = FieldZero(cases[2])
        /\ MsgDelayedSendZero[cases[3].name] = FieldZero(cases[3])
        /\ MsgDelayedSendZero[cases[4].name] = FieldZero(cases[4])
    BY <1>2, <1>6, Zenon DEF Shows
  <2> QED BY <2>1
<1>8. MsgDelayedSendZero \in MsgDelayedSendType
  BY Zeros, CoinDescribed, CoinRows DEF MsgDelayedSendZero, MsgDelayedSendType, Described, Describe
<1>9. Describe(cases, MsgDelayedSendType, MsgDelayedSendZero)
  BY <1>1, <1>3, <1>4, <1>5, <1>7, <1>8, MsgDelayedSendRows DEF Describe
<1> QED BY <1>9, MsgDelayedSendRows DEF Described, cases

LEMMA MsgDelayedSendResponseDescribed == Described("MsgDelayedSendResponse")
<1> DEFINE cases == MsgDelayedSendResponseCases
<1>1. /\ Len(cases) = 2 /\ DOMAIN cases = 1..2 /\ cases[1] = Field("uint64", "id")
      /\ cases[2] = Field("bool", "final")
  BY DEF MsgDelayedSendResponseCases
<1> HIDE DEF cases
<1>2. /\ Shows(cases[1], "id", Word, 0) /\ Shows(cases[2], "final", BOOLEAN, FALSE)
  BY <1>1, FieldIs, Types
<1>3. \A n \in 1..2 : IsField(cases[n])
  BY <1>2 DEF Shows
<1>4. \A n, k \in 1..2 : cases[n].name = cases[k].name => n = k
  BY <1>2 DEF Shows
<1>5. ASSUME NEW m PROVE m \in MsgDelayedSendResponseType <=> IsOf(m, cases)
  <2>1. Names(cases) = {"id", "final"}
    BY <1>1, <1>2 DEF Names, Shows
  <2>2. (\A n \in 1..2 : m[cases[n].name] \in FieldType(cases[n]))
        <=> /\ m["id"] \in Word /\ m["final"] \in BOOLEAN
    BY <1>2 DEF Shows
  <2>3. m \in MsgDelayedSendResponseType
        <=> /\ m = [x \in Names(cases) |-> m[x]] /\ m["id"] \in Word /\ m["final"] \in BOOLEAN
    BY <2>1 DEF MsgDelayedSendResponseType
  <2> QED BY <1>1, <2>2, <2>3 DEF IsOf
<1>6. /\ MsgDelayedSendResponseZero["id"] = 0 /\ MsgDelayedSendResponseZero["final"] = FALSE
  BY DEF MsgDelayedSendResponseZero
<1>7. \A n \in 1..2 : MsgDelayedSendResponseZero[cases[n].name] = FieldZero(cases[n])
  <2>1. /\ MsgDelayedSendResponseZero[cases[1].name] = FieldZero(cases[1])
        /\ MsgDelayedSendResponseZero[cases[2].name] = FieldZero(cases[2])
    BY <1>2, <1>6, Zenon DEF Shows
  <2> QED BY <2>1
<1>8. MsgDelayedSendResponseZero \in MsgDelayedSendResponseType
  BY Zeros DEF MsgDelayedSendResponseZero, MsgDelayedSendResponseType
<1>9. Describe(cases, MsgDelayedSendResponseType, MsgDelayedSendResponseZero)
  BY <1>1, <1>3, <1>4, <1>5, <1>7, <1>8, MsgDelayedSendResponseRows DEF Describe
<1> QED BY <1>9, MsgDelayedSendResponseRows DEF Described, cases

LEMMA MsgCancelSendDescribed == Described("MsgCancelSend")
<1> DEFINE cases == MsgCancelSendCases
<1>1. /\ Len(cases) = 2 /\ DOMAIN cases = 1..2 /\ cases[1] = Field("string", "creator")
      /\ cases[2] = Field("uint64", "id")
  BY DEF MsgCancelSendCases
<1> HIDE DEF cases
<1>2. /\ Shows(cases[1], "creator", Text, << >>) /\ Shows(cases[2], "id", Word, 0)
  BY <1>1, FieldIs, Types
<1>3. \A n \in 1..2 : IsField(cases[n])
  BY <1>2 DEF Shows
<1>4. \A n, k \in 1..2 : cases[n].name = cases[k].name => n = k
  BY <1>2 DEF Shows
<1>5. ASSUME NEW m PROVE m \in MsgCancelSendType <=> IsOf(m, cases)
  <2>1. Names(cases) = {"creator", "id"}
    BY <1>1, <1>2 DEF Names, Shows
  <2>2. (\A n \in 1..2 : m[cases[n].name] \in FieldType(cases[n]))
        <=> /\ m["creator"] \in Text /\ m["id"] \in Word
    BY <1>2 DEF Shows
  <2>3. m \in MsgCancelSendType
        <=> /\ m = [x \in Names(cases) |-> m[x]] /\ m["creator"] \in Text /\ m["id"] \in Word
    BY <2>1 DEF MsgCancelSendType
  <2> QED BY <1>1, <2>2, <2>3 DEF IsOf
<1>6. /\ MsgCancelSendZero["creator"] = << >> /\ MsgCancelSendZero["id"] = 0
  BY DEF MsgCancelSendZero
<1>7. \A n \in 1..2 : MsgCancelSendZero[cases[n].name] = FieldZero(cases[n])
  <2>1. /\ MsgCancelSendZero[cases[1].name] = FieldZero(cases[1])
        /\ MsgCancelSendZero[cases[2].name] = FieldZero(cases[2])
    BY <1>2, <1>6, Zenon DEF Shows
  <2> QED BY <2>1
<1>8. MsgCancelSendZero \in MsgCancelSendType
  BY Zeros DEF MsgCancelSendZero, MsgCancelSendType
<1>9. Describe(cases, MsgCancelSendType, MsgCancelSendZero)
  BY <1>1, <1>3, <1>4, <1>5, <1>7, <1>8, MsgCancelSendRows DEF Describe
<1> QED BY <1>9, MsgCancelSendRows DEF Described, cases

LEMMA MsgSetFinalOnlyDescribed == Described("MsgSetFinalOnly")
<1> DEFINE cases == MsgSetFinalOnlyCases
<1>1. /\ Len(cases) = 2 /\ DOMAIN cases = 1..2 /\ cases[1] = Field("string", "creator")
      /\ cases[2] = Field("bool", "finalonly")
  BY DEF MsgSetFinalOnlyCases
<1> HIDE DEF cases
<1>2. /\ Shows(cases[1], "creator", Text, << >>) /\ Shows(cases[2], "finalonly", BOOLEAN, FALSE)
  BY <1>1, FieldIs, Types
<1>3. \A n \in 1..2 : IsField(cases[n])
  BY <1>2 DEF Shows
<1>4. \A n, k \in 1..2 : cases[n].name = cases[k].name => n = k
  BY <1>2 DEF Shows
<1>5. ASSUME NEW m PROVE m \in MsgSetFinalOnlyType <=> IsOf(m, cases)
  <2>1. Names(cases) = {"creator", "finalonly"}
    BY <1>1, <1>2 DEF Names, Shows
  <2>2. (\A n \in 1..2 : m[cases[n].name] \in FieldType(cases[n]))
        <=> /\ m["creator"] \in Text /\ m["finalonly"] \in BOOLEAN
    BY <1>2 DEF Shows
  <2>3. m \in MsgSetFinalOnlyType
        <=> /\ m = [x \in Names(cases) |-> m[x]] /\ m["creator"] \in Text
            /\ m["finalonly"] \in BOOLEAN
    BY <2>1 DEF MsgSetFinalOnlyType
  <2> QED BY <1>1, <2>2, <2>3 DEF IsOf
<1>6. /\ MsgSetFinalOnlyZero["creator"] = << >> /\ MsgSetFinalOnlyZero["finalonly"] = FALSE
  BY DEF MsgSetFinalOnlyZero
<1>7. \A n \in 1..2 : MsgSetFinalOnlyZero[cases[n].name] = FieldZero(cases[n])
  <2>1. /\ MsgSetFinalOnlyZero[cases[1].name] = FieldZero(cases[1])
        /\ MsgSetFinalOnlyZero[cases[2].name] = FieldZero(cases[2])
    BY <1>2, <1>6, Zenon DEF Shows
  <2> QED BY <2>1
<1>8. MsgSetFinalOnlyZero \in MsgSetFinalOnlyType
  BY Zeros DEF MsgSetFinalOnlyZero, MsgSetFinalOnlyType
<1>9. Describe(cases, MsgSetFinalOnlyType, MsgSetFinalOnlyZero)
  BY <1>1, <1>3, <1>4, <1>5, <1>7, <1>8, MsgSetFinalOnlyRows DEF Describe
<1> QED BY <1>9, MsgSetFinalOnlyRows DEF Described, cases

LEMMA QueryParamsResponseDescribed == Described("QueryParamsResponse")
<1> DEFINE cases == QueryParamsResponseCases
<1>1. /\ Len(cases) = 1 /\ DOMAIN cases = 1..1
      /\ cases[1] = FieldOf("message", "params", "Params")
  BY DEF QueryParamsResponseCases
<1> HIDE DEF cases
<1>2. /\ Shows(cases[1], "params", ParamsType, ParamsZero)
  BY <1>1, FieldIs, Types, ParamsRows
<1>3. \A n \in 1..1 : IsField(cases[n])
  BY <1>2 DEF Shows
<1>4. \A n, k \in 1..1 : cases[n].name = cases[k].name => n = k
  BY <1>2 DEF Shows
<1>5. ASSUME NEW m PROVE m \in QueryParamsResponseType <=> IsOf(m, cases)
  <2>1. Names(cases) = {"params"}
    BY <1>1, <1>2 DEF Names, Shows
  <2>2. (\A n \in 1..1 : m[cases[n].name] \in FieldType(cases[n]))
        <=> /\ m["params"] \in ParamsType
    BY <1>2 DEF Shows
  <2>3. m \in QueryParamsResponseType
        <=> /\ m = [x \in Names(cases) |-> m[x]] /\ m["params"] \in ParamsType
    BY <2>1 DEF QueryParamsResponseType
  <2> QED BY <1>1, <2>2, <2>3 DEF IsOf
<1>6. /\ QueryParamsResponseZero["params"] = ParamsZero
  BY DEF QueryParamsResponseZero
<1>7. \A n \in 1..1 : QueryParamsResponseZero[cases[n].name] = FieldZero(cases[n])
  <2>1. /\ QueryParamsResponseZero[cases[1].name] = FieldZero(cases[1])
    BY <1>2, <1>6, Zenon DEF Shows
  <2> QED BY <2>1
<1>8. QueryParamsResponseZero \in QueryParamsResponseType
  BY Zeros, ParamsDescribed, ParamsRows DEF QueryParamsResponseZero, QueryParamsResponseType, Described, Describe
<1>9. Describe(cases, QueryParamsResponseType, QueryParamsResponseZero)
  BY <1>1, <1>3, <1>4, <1>5, <1>7, <1>8, QueryParamsResponseRows DEF Describe
<1> QED BY <1>9, QueryParamsResponseRows DEF Described, cases

LEMMA QueryGetPendingRequestDescribed == Described("QueryGetPendingRequest")
<1> DEFINE cases == QueryGetPendingRequestCases
<1>1. /\ Len(cases) = 1 /\ DOMAIN cases = 1..1 /\ cases[1] = Field("uint64", "id")
  BY DEF QueryGetPendingRequestCases
<1> HIDE DEF cases
<1>2. /\ Shows(cases[1], "id", Word, 0)
  BY <1>1, FieldIs, Types
<1>3. \A n \in 1..1 : IsField(cases[n])
  BY <1>2 DEF Shows
<1>4. \A n, k \in 1..1 : cases[n].name = cases[k].name => n = k
  BY <1>2 DEF Shows
<1>5. ASSUME NEW m PROVE m \in QueryGetPendingRequestType <=> IsOf(m, cases)
  <2>1. Names(cases) = {"id"}
    BY <1>1, <1>2 DEF Names, Shows
  <2>2. (\A n \in 1..1 : m[cases[n].name] \in FieldType(cases[n]))
        <=> /\ m["id"] \in Word
    BY <1>2 DEF Shows
  <2>3. m \in QueryGetPendingRequestType
        <=> /\ m = [x \in Names(cases) |-> m[x]] /\ m["id"] \in Word
    BY <2>1 DEF QueryGetPendingRequestType
  <2> QED BY <1>1, <2>2, <2>3 DEF IsOf
<1>6. /\ QueryGetPendingRequestZero["id"] = 0
  BY DEF QueryGetPendingRequestZero
<1>7. \A n \in 1..1 : QueryGetPendingRequestZero[cases[n].name] = FieldZero(cases[n])
  <2>1. /\ QueryGetPendingRequestZero[cases[1].name] = FieldZero(cases[1])
    BY <1>2, <1>6, Zenon DEF Shows
  <2> QED BY <2>1
<1>8. QueryGetPendingRequestZero \in QueryGetPendingRequestType
  BY Zeros DEF QueryGetPendingRequestZero, QueryGetPendingRequestType
<1>9. Describe(cases, QueryGetPendingRequestType, QueryGetPendingRequestZero)
  BY <1>1, <1>3, <1>4, <1>5, <1>7, <1>8, QueryGetPendingRequestRows DEF Describe
<1> QED BY <1>9, QueryGetPendingRequestRows DEF Described, cases

LEMMA QueryGetPendingResponseDescribed == Described("QueryGetPendingResponse")
<1> DEFINE cases == QueryGetPendingResponseCases
<1>1. /\ Len(cases) = 1 /\ DOMAIN cases = 1..1
      /\ cases[1] = FieldOf("message", "pending", "Pending")
  BY DEF QueryGetPendingResponseCases
<1> HIDE DEF cases
<1>2. /\ Shows(cases[1], "pending", PendingType, PendingZero)
  BY <1>1, FieldIs, Types, PendingRows
<1>3. \A n \in 1..1 : IsField(cases[n])
  BY <1>2 DEF Shows
<1>4. \A n, k \in 1..1 : cases[n].name = cases[k].name => n = k
  BY <1>2 DEF Shows
<1>5. ASSUME NEW m PROVE m \in QueryGetPendingResponseType <=> IsOf(m, cases)
  <2>1. Names(cases) = {"pending"}
    BY <1>1, <1>2 DEF Names, Shows
  <2>2. (\A n \in 1..1 : m[cases[n].name] \in FieldType(cases[n]))
        <=> /\ m["pending"] \in PendingType
    BY <1>2 DEF Shows
  <2>3. m \in QueryGetPendingResponseType
        <=> /\ m = [x \in Names(cases) |-> m[x]] /\ m["pending"] \in PendingType
    BY <2>1 DEF QueryGetPendingResponseType
  <2> QED BY <1>1, <2>2, <2>3 DEF IsOf
<1>6. /\ QueryGetPendingResponseZero["pending"] = PendingZero
  BY DEF QueryGetPendingResponseZero
<1>7. \A n \in 1..1 : QueryGetPendingResponseZero[cases[n].name] = FieldZero(cases[n])
  <2>1. /\ QueryGetPendingResponseZero[cases[1].name] = FieldZero(cases[1])
    BY <1>2, <1>6, Zenon DEF Shows
  <2> QED BY <2>1
<1>8. QueryGetPendingResponseZero \in QueryGetPendingResponseType
  BY Zeros, PendingDescribed, PendingRows DEF QueryGetPendingResponseZero, QueryGetPendingResponseType, Described, Describe
<1>9. Describe(cases, QueryGetPendingResponseType, QueryGetPendingResponseZero)
  BY <1>1, <1>3, <1>4, <1>5, <1>7, <1>8, QueryGetPendingResponseRows DEF Describe
<1> QED BY <1>9, QueryGetPendingResponseRows DEF Described, cases

LEMMA QueryAllPendingRequestDescribed == Described("QueryAllPendingRequest")
<1> DEFINE cases == QueryAllPendingRequestCases
<1>1. /\ Len(cases) = 1 /\ DOMAIN cases = 1..1
      /\ cases[1] = FieldOf("pointer", "pagination", "PageRequest")
  BY DEF QueryAllPendingRequestCases
<1> HIDE DEF cases
<1>2. /\ Shows(cases[1], "pagination", Pointer(PageRequestType), {})
  BY <1>1, FieldIs, Types, PageRequestRows
<1>3. \A n \in 1..1 : IsField(cases[n])
  BY <1>2 DEF Shows
<1>4. \A n, k \in 1..1 : cases[n].name = cases[k].name => n = k
  BY <1>2 DEF Shows
<1>5. ASSUME NEW m PROVE m \in QueryAllPendingRequestType <=> IsOf(m, cases)
  <2>1. Names(cases) = {"pagination"}
    BY <1>1, <1>2 DEF Names, Shows
  <2>2. (\A n \in 1..1 : m[cases[n].name] \in FieldType(cases[n]))
        <=> /\ m["pagination"] \in Pointer(PageRequestType)
    BY <1>2 DEF Shows
  <2>3. m \in QueryAllPendingRequestType
        <=> /\ m = [x \in Names(cases) |-> m[x]] /\ m["pagination"] \in Pointer(PageRequestType)
    BY <2>1 DEF QueryAllPendingRequestType
  <2> QED BY <1>1, <2>2, <2>3 DEF IsOf
<1>6. /\ QueryAllPendingRequestZero["pagination"] = {}
  BY DEF QueryAllPendingRequestZero
<1>7. \A n \in 1..1 : QueryAllPendingRequestZero[cases[n].name] = FieldZero(cases[n])
  <2>1. /\ QueryAllPendingRequestZero[cases[1].name] = FieldZero(cases[1])
    BY <1>2, <1>6, Zenon DEF Shows
  <2> QED BY <2>1
<1>8. QueryAllPendingRequestZero \in QueryAllPendingRequestType
  BY Zeros DEF QueryAllPendingRequestZero, QueryAllPendingRequestType
<1>9. Describe(cases, QueryAllPendingRequestType, QueryAllPendingRequestZero)
  BY <1>1, <1>3, <1>4, <1>5, <1>7, <1>8, QueryAllPendingRequestRows DEF Describe
<1> QED BY <1>9, QueryAllPendingRequestRows DEF Described, cases

LEMMA QueryAllPendingResponseDescribed == Described("QueryAllPendingResponse")
<1> DEFINE cases == QueryAllPendingResponseCases
<1>1. /\ Len(cases) = 2 /\ DOMAIN cases = 1..2
      /\ cases[1] = FieldOf("repeated", "pending", "Pending")
      /\ cases[2] = FieldOf("pointer", "pagination", "PageResponse")
  BY DEF QueryAllPendingResponseCases
<1> HIDE DEF cases
<1>2. /\ Shows(cases[1], "pending", Seq(PendingType), << >>)
      /\ Shows(cases[2], "pagination", Pointer(PageResponseType), {})
  BY <1>1, FieldIs, Types, PendingRows, PageResponseRows
<1>3. \A n \in 1..2 : IsField(cases[n])
  BY <1>2 DEF Shows
<1>4. \A n, k \in 1..2 : cases[n].name = cases[k].name => n = k
  BY <1>2 DEF Shows
<1>5. ASSUME NEW m PROVE m \in QueryAllPendingResponseType <=> IsOf(m, cases)
  <2>1. Names(cases) = {"pending", "pagination"}
    BY <1>1, <1>2 DEF Names, Shows
  <2>2. (\A n \in 1..2 : m[cases[n].name] \in FieldType(cases[n]))
        <=> /\ m["pending"] \in Seq(PendingType)
            /\ m["pagination"] \in Pointer(PageResponseType)
    BY <1>2 DEF Shows
  <2>3. m \in QueryAllPendingResponseType
        <=> /\ m = [x \in Names(cases) |-> m[x]] /\ m["pending"] \in Seq(PendingType)
            /\ m["pagination"] \in Pointer(PageResponseType)
    BY <2>1 DEF QueryAllPendingResponseType
  <2> QED BY <1>1, <2>2, <2>3 DEF IsOf
<1>6. /\ QueryAllPendingResponseZero["pending"] = << >>
      /\ QueryAllPendingResponseZero["pagination"] = {}
  BY DEF QueryAllPendingResponseZero
<1>7. \A n \in 1..2 : QueryAllPendingResponseZero[cases[n].name] = FieldZero(cases[n])
  <2>1. /\ QueryAllPendingResponseZero[cases[1].name] = FieldZero(cases[1])
        /\ QueryAllPendingResponseZero[cases[2].name] = FieldZero(cases[2])
    BY <1>2, <1>6, Zenon DEF Shows
  <2> QED BY <2>1
<1>8. QueryAllPendingResponseZero \in QueryAllPendingResponseType
  BY Zeros DEF QueryAllPendingResponseZero, QueryAllPendingResponseType
<1>9. Describe(cases, QueryAllPendingResponseType, QueryAllPendingResponseZero)
  BY <1>1, <1>3, <1>4, <1>5, <1>7, <1>8, QueryAllPendingResponseRows DEF Describe
<1> QED BY <1>9, QueryAllPendingResponseRows DEF Described, cases

LEMMA QueryGetRecordRequestDescribed == Described("QueryGetRecordRequest")
<1> DEFINE cases == QueryGetRecordRequestCases
<1>1. /\ Len(cases) = 1 /\ DOMAIN cases = 1..1 /\ cases[1] = Field("string", "index")
  BY DEF QueryGetRecordRequestCases
<1> HIDE DEF cases
<1>2. /\ Shows(cases[1], "index", Text, << >>)
  BY <1>1, FieldIs, Types
<1>3. \A n \in 1..1 : IsField(cases[n])
  BY <1>2 DEF Shows
<1>4. \A n, k \in 1..1 : cases[n].name = cases[k].name => n = k
  BY <1>2 DEF Shows
<1>5. ASSUME NEW m PROVE m \in QueryGetRecordRequestType <=> IsOf(m, cases)
  <2>1. Names(cases) = {"index"}
    BY <1>1, <1>2 DEF Names, Shows
  <2>2. (\A n \in 1..1 : m[cases[n].name] \in FieldType(cases[n]))
        <=> /\ m["index"] \in Text
    BY <1>2 DEF Shows
  <2>3. m \in QueryGetRecordRequestType
        <=> /\ m = [x \in Names(cases) |-> m[x]] /\ m["index"] \in Text
    BY <2>1 DEF QueryGetRecordRequestType
  <2> QED BY <1>1, <2>2, <2>3 DEF IsOf
<1>6. /\ QueryGetRecordRequestZero["index"] = << >>
  BY DEF QueryGetRecordRequestZero
<1>7. \A n \in 1..1 : QueryGetRecordRequestZero[cases[n].name] = FieldZero(cases[n])
  <2>1. /\ QueryGetRecordRequestZero[cases[1].name] = FieldZero(cases[1])
    BY <1>2, <1>6, Zenon DEF Shows
  <2> QED BY <2>1
<1>8. QueryGetRecordRequestZero \in QueryGetRecordRequestType
  BY Zeros DEF QueryGetRecordRequestZero, QueryGetRecordRequestType
<1>9. Describe(cases, QueryGetRecordRequestType, QueryGetRecordRequestZero)
  BY <1>1, <1>3, <1>4, <1>5, <1>7, <1>8, QueryGetRecordRequestRows DEF Describe
<1> QED BY <1>9, QueryGetRecordRequestRows DEF Described, cases

LEMMA QueryGetRecordResponseDescribed == Described("QueryGetRecordResponse")
<1> DEFINE cases == QueryGetRecordResponseCases
<1>1. /\ Len(cases) = 1 /\ DOMAIN cases = 1..1
      /\ cases[1] = FieldOf("message", "record", "Record")
  BY DEF QueryGetRecordResponseCases
<1> HIDE DEF cases
<1>2. /\ Shows(cases[1], "record", RecordType, RecordZero)
  BY <1>1, FieldIs, Types, RecordRows
<1>3. \A n \in 1..1 : IsField(cases[n])
  BY <1>2 DEF Shows
<1>4. \A n, k \in 1..1 : cases[n].name = cases[k].name => n = k
  BY <1>2 DEF Shows
<1>5. ASSUME NEW m PROVE m \in QueryGetRecordResponseType <=> IsOf(m, cases)
  <2>1. Names(cases) = {"record"}
    BY <1>1, <1>2 DEF Names, Shows
  <2>2. (\A n \in 1..1 : m[cases[n].name] \in FieldType(cases[n]))
        <=> /\ m["record"] \in RecordType
    BY <1>2 DEF Shows
  <2>3. m \in QueryGetRecordResponseType
        <=> /\ m = [x \in Names(cases) |-> m[x]] /\ m["record"] \in RecordType
    BY <2>1 DEF QueryGetRecordResponseType
  <2> QED BY <1>1, <2>2, <2>3 DEF IsOf
<1>6. /\ QueryGetRecordResponseZero["record"] = RecordZero
  BY DEF QueryGetRecordResponseZero
<1>7. \A n \in 1..1 : QueryGetRecordResponseZero[cases[n].name] = FieldZero(cases[n])
  <2>1. /\ QueryGetRecordResponseZero[cases[1].name] = FieldZero(cases[1])
    BY <1>2, <1>6, Zenon DEF Shows
  <2> QED BY <2>1
<1>8. QueryGetRecordResponseZero \in QueryGetRecordResponseType
  BY Zeros, RecordDescribed, RecordRows DEF QueryGetRecordResponseZero, QueryGetRecordResponseType, Described, Describe
<1>9. Describe(cases, QueryGetRecordResponseType, QueryGetRecordResponseZero)
  BY <1>1, <1>3, <1>4, <1>5, <1>7, <1>8, QueryGetRecordResponseRows DEF Describe
<1> QED BY <1>9, QueryGetRecordResponseRows DEF Described, cases

LEMMA QueryAllRecordRequestDescribed == Described("QueryAllRecordRequest")
<1> DEFINE cases == QueryAllRecordRequestCases
<1>1. /\ Len(cases) = 1 /\ DOMAIN cases = 1..1
      /\ cases[1] = FieldOf("pointer", "pagination", "PageRequest")
  BY DEF QueryAllRecordRequestCases
<1> HIDE DEF cases
<1>2. /\ Shows(cases[1], "pagination", Pointer(PageRequestType), {})
  BY <1>1, FieldIs, Types, PageRequestRows
<1>3. \A n \in 1..1 : IsField(cases[n])
  BY <1>2 DEF Shows
<1>4. \A n, k \in 1..1 : cases[n].name = cases[k].name => n = k
  BY <1>2 DEF Shows
<1>5. ASSUME NEW m PROVE m \in QueryAllRecordRequestType <=> IsOf(m, cases)
  <2>1. Names(cases) = {"pagination"}
    BY <1>1, <1>2 DEF Names, Shows
  <2>2. (\A n \in 1..1 : m[cases[n].name] \in FieldType(cases[n]))
        <=> /\ m["pagination"] \in Pointer(PageRequestType)
    BY <1>2 DEF Shows
  <2>3. m \in QueryAllRecordRequestType
        <=> /\ m = [x \in Names(cases) |-> m[x]] /\ m["pagination"] \in Pointer(PageRequestType)
    BY <2>1 DEF QueryAllRecordRequestType
  <2> QED BY <1>1, <2>2, <2>3 DEF IsOf
<1>6. /\ QueryAllRecordRequestZero["pagination"] = {}
  BY DEF QueryAllRecordRequestZero
<1>7. \A n \in 1..1 : QueryAllRecordRequestZero[cases[n].name] = FieldZero(cases[n])
  <2>1. /\ QueryAllRecordRequestZero[cases[1].name] = FieldZero(cases[1])
    BY <1>2, <1>6, Zenon DEF Shows
  <2> QED BY <2>1
<1>8. QueryAllRecordRequestZero \in QueryAllRecordRequestType
  BY Zeros DEF QueryAllRecordRequestZero, QueryAllRecordRequestType
<1>9. Describe(cases, QueryAllRecordRequestType, QueryAllRecordRequestZero)
  BY <1>1, <1>3, <1>4, <1>5, <1>7, <1>8, QueryAllRecordRequestRows DEF Describe
<1> QED BY <1>9, QueryAllRecordRequestRows DEF Described, cases

LEMMA QueryAllRecordResponseDescribed == Described("QueryAllRecordResponse")
<1> DEFINE cases == QueryAllRecordResponseCases
<1>1. /\ Len(cases) = 2 /\ DOMAIN cases = 1..2
      /\ cases[1] = FieldOf("repeated", "record", "Record")
      /\ cases[2] = FieldOf("pointer", "pagination", "PageResponse")
  BY DEF QueryAllRecordResponseCases
<1> HIDE DEF cases
<1>2. /\ Shows(cases[1], "record", Seq(RecordType), << >>)
      /\ Shows(cases[2], "pagination", Pointer(PageResponseType), {})
  BY <1>1, FieldIs, Types, RecordRows, PageResponseRows
<1>3. \A n \in 1..2 : IsField(cases[n])
  BY <1>2 DEF Shows
<1>4. \A n, k \in 1..2 : cases[n].name = cases[k].name => n = k
  BY <1>2 DEF Shows
<1>5. ASSUME NEW m PROVE m \in QueryAllRecordResponseType <=> IsOf(m, cases)
  <2>1. Names(cases) = {"record", "pagination"}
    BY <1>1, <1>2 DEF Names, Shows
  <2>2. (\A n \in 1..2 : m[cases[n].name] \in FieldType(cases[n]))
        <=> /\ m["record"] \in Seq(RecordType) /\ m["pagination"] \in Pointer(PageResponseType)
    BY <1>2 DEF Shows
  <2>3. m \in QueryAllRecordResponseType
        <=> /\ m = [x \in Names(cases) |-> m[x]] /\ m["record"] \in Seq(RecordType)
            /\ m["pagination"] \in Pointer(PageResponseType)
    BY <2>1 DEF QueryAllRecordResponseType
  <2> QED BY <1>1, <2>2, <2>3 DEF IsOf
<1>6. /\ QueryAllRecordResponseZero["record"] = << >>
      /\ QueryAllRecordResponseZero["pagination"] = {}
  BY DEF QueryAllRecordResponseZero
<1>7. \A n \in 1..2 : QueryAllRecordResponseZero[cases[n].name] = FieldZero(cases[n])
  <2>1. /\ QueryAllRecordResponseZero[cases[1].name] = FieldZero(cases[1])
        /\ QueryAllRecordResponseZero[cases[2].name] = FieldZero(cases[2])
    BY <1>2, <1>6, Zenon DEF Shows
  <2> QED BY <2>1
<1>8. QueryAllRecordResponseZero \in QueryAllRecordResponseType
  BY Zeros DEF QueryAllRecordResponseZero, QueryAllRecordResponseType
<1>9. Describe(cases, QueryAllRecordResponseType, QueryAllRecordResponseZero)
  BY <1>1, <1>3, <1>4, <1>5, <1>7, <1>8, QueryAllRecordResponseRows DEF Describe
<1> QED BY <1>9, QueryAllRecordResponseRows DEF Described, cases

LEMMA NothingDescribed ==
    ASSUME {<< >>} \subseteq Message
    PROVE  Describe(<< >>, {<< >>}, << >>)
<1>1. Len(<< >>) = 0 /\ DOMAIN << >> = 1..0 /\ Names(<< >>) = {}
  BY DEF Names
<1>2. ASSUME NEW m PROVE m \in {<< >>} <=> IsOf(m, << >>)
  <2>1. << >> = [x \in {} |-> m[x]]
    OBVIOUS
  <2> QED BY <1>1, <2>1 DEF IsOf
<1> QED BY <1>1, <1>2 DEF Describe

LEMMA EmptyDescribed ==
    /\ Described("MsgUpdateParamsResponse") /\ Described("MsgCancelSendResponse")
    /\ Described("MsgSetFinalOnlyResponse") /\ Described("QueryParamsRequest")
<1>1. {<< >>} \subseteq Message
  BY MsgUpdateParamsResponseRows DEF MsgUpdateParamsResponseType
<1>2. Describe(<< >>, {<< >>}, << >>)
  BY <1>1, NothingDescribed
<1> QED BY <1>2,
    MsgUpdateParamsResponseRows, MsgCancelSendResponseRows, MsgSetFinalOnlyResponseRows,
    QueryParamsRequestRows
  DEF Described,
    MsgUpdateParamsResponseType, MsgUpdateParamsResponseCases, MsgUpdateParamsResponseZero,
    MsgCancelSendResponseType, MsgCancelSendResponseCases, MsgCancelSendResponseZero,
    MsgSetFinalOnlyResponseType, MsgSetFinalOnlyResponseCases, MsgSetFinalOnlyResponseZero,
    QueryParamsRequestType, QueryParamsRequestCases, QueryParamsRequestZero

LEMMA AllDescribed == \A t \in Type : Described(t)
<1>1. Type = {"Coin", "PageRequest", "PageResponse", "Params", "Pending", "Record",
                 "GenesisState", "Module", "MsgUpdateParams", "MsgUpdateParamsResponse",
                 "MsgDelayedSend", "MsgDelayedSendResponse", "MsgCancelSend",
                 "MsgCancelSendResponse", "MsgSetFinalOnly", "MsgSetFinalOnlyResponse",
                 "QueryParamsRequest", "QueryParamsResponse", "QueryGetPendingRequest",
                 "QueryGetPendingResponse", "QueryAllPendingRequest", "QueryAllPendingResponse",
                 "QueryGetRecordRequest", "QueryGetRecordResponse", "QueryAllRecordRequest",
                 "QueryAllRecordResponse"}
  BY Zenon DEF Type, CasesOf
<1> QED BY <1>1, EmptyDescribed,
    CoinDescribed, PageRequestDescribed, PageResponseDescribed, ParamsDescribed,
    PendingDescribed, RecordDescribed, GenesisStateDescribed, ModuleDescribed,
    MsgUpdateParamsDescribed, MsgDelayedSendDescribed, MsgDelayedSendResponseDescribed,
    MsgCancelSendDescribed, MsgSetFinalOnlyDescribed, QueryParamsResponseDescribed,
    QueryGetPendingRequestDescribed, QueryGetPendingResponseDescribed,
    QueryAllPendingRequestDescribed, QueryAllPendingResponseDescribed,
    QueryGetRecordRequestDescribed, QueryGetRecordResponseDescribed,
    QueryAllRecordRequestDescribed, QueryAllRecordResponseDescribed

-----------------------------------------------------------------------------
(* Unmarshal is defined, and reads values of the types the fields have.    *)

\* A message with one field set to a value of its type.
LEMMA FieldSet ==
    ASSUME NEW t \in Type, NEW m \in TypeOf[t], NEW n \in DOMAIN CasesOf[t],
           NEW v \in FieldType(CasesOf[t][n])
    PROVE  LET name == CasesOf[t][n].name
               set == [m EXCEPT ![name] = v]
           IN  /\ m[name] \in FieldType(CasesOf[t][n])
               /\ set \in TypeOf[t] /\ set[name] = v
               /\ \A k \in DOMAIN CasesOf[t] : k # n => set[CasesOf[t][k].name] = m[CasesOf[t][k].name]
<1> DEFINE cases == CasesOf[t]
           name == cases[n].name
           set == [m EXCEPT ![name] = v]
<1>1. Describe(cases, TypeOf[t], ZeroOf[t])
  BY AllDescribed DEF Described
<1>2. IsOf(m, cases)
  BY <1>1 DEF Describe
<1>3. \A k, l \in DOMAIN cases : cases[k].name = cases[l].name => k = l
  BY <1>1 DEF Describe
<1> HIDE DEF cases
<1>4. /\ m = [x \in Names(cases) |-> m[x]]
      /\ \A k \in DOMAIN cases : m[cases[k].name] \in FieldType(cases[k])
  BY <1>2 DEF IsOf
<1>5. n \in DOMAIN cases /\ v \in FieldType(cases[n])
  BY DEF cases
<1>6. \A k \in DOMAIN cases : cases[k].name \in Names(cases)
  BY DEF Names
<1>7. DOMAIN m = Names(cases)
  BY <1>4
<1>8. /\ set = [x \in Names(cases) |-> set[x]] /\ set[name] = v
      /\ \A k \in DOMAIN cases : k # n => set[cases[k].name] = m[cases[k].name]
  BY <1>3, <1>5, <1>6, <1>7
<1>9. \A k \in DOMAIN cases : set[cases[k].name] \in FieldType(cases[k])
  <2> HIDE DEF set
  <2> QED BY <1>4, <1>5, <1>8
<1>10. IsOf(set, cases)
  <2> HIDE DEF set
  <2> QED BY <1>8, <1>9 DEF IsOf
<1>11. set \in TypeOf[t]
  <2> HIDE DEF set
  <2> QED BY <1>1, <1>10 DEF Describe
<1> QED BY <1>4, <1>5, <1>8, <1>11 DEF cases

\* A part of a text.
LEMMA PartTyped ==
    ASSUME NEW data \in Text, NEW from \in Nat, NEW post \in Nat, from <= post, post <= Len(data)
    PROVE  LET part == SubSeq(data, from + 1, post)
           IN  /\ part \in Text /\ Len(part) = post - from
               /\ \A i \in 1..post - from : part[i] = data[from + i]
<1> DEFINE part == SubSeq(data, from + 1, post)
<1>1. Len(data) \in Nat /\ \A i \in 1..Len(data) : data[i] \in Byte
  BY TextTyped
<1>2. \A i \in from + 1..post : data[i] \in Byte
  BY <1>1
<1>3. /\ part \in Seq(Byte) /\ Len(part) = IF from + 1 <= post THEN post - (from + 1) + 1 ELSE 0
      /\ \A i \in 1..post - (from + 1) + 1 : part[i] = data[from + 1 + i - 1]
  <2>1. from + 1 \in Int /\ post \in Int
    OBVIOUS
  <2> QED BY <1>2, <2>1, SubSeqProperties
<1>4. Len(part) = post - from
  BY <1>3
<1>5. \A i \in 1..post - from : part[i] = data[from + i]
  <2> SUFFICES ASSUME NEW i \in 1..post - from PROVE part[i] = data[from + i]
    OBVIOUS
  <2>1. i \in 1..post - (from + 1) + 1 /\ from + 1 + i - 1 = from + i
    OBVIOUS
  <2> QED BY <1>3, <2>1
<1> HIDE DEF part
<1>6. part \in Text
  BY <1>3 DEF Text
<1> QED BY <1>4, <1>5, <1>6 DEF part

LEMMA PartOfBuffer ==
    ASSUME NEW data \in Buffer, NEW from \in Nat, NEW post \in Nat, from <= post, post <= Len(data)
    PROVE  SubSeq(data, from + 1, post) \in Buffer /\ Len(SubSeq(data, from + 1, post)) = post - from
<1> DEFINE part == SubSeq(data, from + 1, post)
<1>1. data \in Text /\ Len(data) \in 0..MaxInt /\ MaxInt \in Nat
  BY BufferTyped
<1>2. part \in Text /\ Len(part) = post - from
  BY <1>1, PartTyped
<1> HIDE DEF part
<1>3. part \in Buffer
  BY <1>1, <1>2 DEF Buffer
<1> QED BY <1>2, <1>3 DEF part

\* Unmarshal's recursion: what one turn of the loop makes of the reader it goes on with.
Body(f, c) ==
    IF c.at >= Len(c.data) THEN {c.into}
    ELSE UNION {f[after] : after \in UNION {AfterTag(f, c, tag) : tag \in ReadVarint(c.data, c.at)}}
Values == [c \in Reading |-> SUBSET TypeOf[c.type]]
Left == [c \in Reading |-> IF c.at <= Len(c.data) THEN Len(c.data) - c.at ELSE 0]

LEMMA ReadingIs ==
    ASSUME NEW c \in Reading
    PROVE  /\ c.type \in Type /\ c.data \in Buffer /\ c.at \in Nat /\ c.into \in TypeOf[c.type]
           /\ c = [type |-> c.type, data |-> c.data, at |-> c.at, into |-> c.into]
  BY DEF Reading

LEMMA ReadingFrom ==
    ASSUME NEW t \in Type, NEW data \in Buffer, NEW at \in Nat, NEW m \in TypeOf[t]
    PROVE  [type |-> t, data |-> data, at |-> at, into |-> m] \in Reading
<1>1. Describe(CasesOf[t], TypeOf[t], ZeroOf[t])
  BY AllDescribed DEF Described
<1>2. m \in Message
  BY <1>1 DEF Describe
<1> QED BY <1>2 DEF Reading

LEMMA LeftTyped ==
    /\ Left \in [Reading -> Nat]
    /\ \A c \in Reading : Left[c] = IF c.at <= Len(c.data) THEN Len(c.data) - c.at ELSE 0
<1>1. ASSUME NEW c \in Reading
      PROVE  (IF c.at <= Len(c.data) THEN Len(c.data) - c.at ELSE 0) \in Nat
  <2>1. c.at \in Nat /\ Len(c.data) \in Nat
    BY ReadingIs, BufferTyped
  <2> QED BY <2>1
<1> QED BY <1>1 DEF Left

LEMMA ValuesAre ==
    ASSUME NEW f \in Typed(Reading, Values), NEW c \in Reading
    PROVE  f[c] \subseteq TypeOf[c.type]
<1>1. f[c] \in Values[c]
  BY Zenon DEF Typed
<1>2. Values[c] = SUBSET TypeOf[c.type]
  BY DEF Values
<1> QED BY <1>1, <1>2

\* The decoder of an embedded message is one whose argument has less data left.
LEMMA IntoTyped ==
    ASSUME NEW f \in Typed(Reading, Values), NEW t \in Type, NEW bytes \in Buffer,
           NEW m \in TypeOf[t]
    PROVE  Into(f, t, bytes, m) \subseteq TypeOf[t]
<1> DEFINE c == [type |-> t, data |-> bytes, at |-> 0, into |-> m]
<1>1. c \in Reading /\ c.type = t
  BY ReadingFrom
<1>2. Into(f, t, bytes, m) = f[c]
  BY DEF Into
<1> HIDE DEF c
<1> QED BY <1>1, <1>2, ValuesAre

LEMMA ZeroTyped ==
    ASSUME NEW t \in Type
    PROVE  ZeroOf[t] \in TypeOf[t]
  BY AllDescribed DEF Described, Describe

LEMMA PointerTyped ==
    ASSUME NEW T, NEW p \in Pointer(T)
    PROVE  /\ \A v \in T : {v} \in Pointer(T)
           /\ \A v \in p : v \in T /\ p = {v} /\ The(p) = v
           /\ p # {} => The(p) \in T
<1>1. p \subseteq T /\ \A a, b \in p : a = b
  BY DEF Pointer
<1>2. \A v \in T : {v} \in Pointer(T)
  BY DEF Pointer
<1>3. p # {} => The(p) \in p
  BY DEF The
<1> QED BY <1>1, <1>2, <1>3

LEMMA EmbeddedTyped ==
    ASSUME NEW f \in Typed(Reading, Values), NEW field, IsField(field),
           field.kind \notin Scalars, NEW bytes \in Buffer, NEW old \in FieldType(field),
           NEW v \in Embedded(f, field, bytes, old)
    PROVE  v \in FieldType(field)
<1>1. field.kind \in {"message", "repeated", "pointer"} /\ field.of \in Type
  BY DEF IsField
<1>2. CASE field.kind = "message"
  <2>1. FieldType(field) = TypeOf[field.of]
    BY <1>2 DEF FieldType
  <2>2. Embedded(f, field, bytes, old) = Into(f, field.of, bytes, old)
    BY <1>2 DEF Embedded
  <2> QED BY <1>1, <2>1, <2>2, IntoTyped
<1>3. CASE field.kind = "repeated"
  <2>1. FieldType(field) = Seq(TypeOf[field.of])
    BY <1>3 DEF FieldType
  <2>2. PICK e \in Into(f, field.of, bytes, ZeroOf[field.of]) : v = Append(old, e)
    BY <1>3 DEF Embedded
  <2>3. e \in TypeOf[field.of]
    BY <1>1, IntoTyped, ZeroTyped
  <2> QED BY <2>1, <2>2, <2>3, AppendProperties
<1>4. CASE field.kind = "pointer"
  <2>1. FieldType(field) = Pointer(TypeOf[field.of])
    BY <1>4 DEF FieldType
  <2> DEFINE m == IF old = {} THEN ZeroOf[field.of] ELSE The(old)
  <2>2. m \in TypeOf[field.of]
    BY <1>1, <2>1, ZeroTyped, PointerTyped
  <2>3. Embedded(f, field, bytes, old) = {{w} : w \in Into(f, field.of, bytes, m)}
    BY <1>4 DEF Embedded
  <2> HIDE DEF m
  <2>4. PICK w \in Into(f, field.of, bytes, m) : v = {w}
    BY <2>3
  <2>5. w \in TypeOf[field.of]
    BY <1>1, <2>2, IntoTyped
  <2> QED BY <2>1, <2>4, <2>5, PointerTyped
<1> QED BY <1>1, <1>2, <1>3, <1>4

LEMMA VarintValue ==
    ASSUME NEW field, field.kind \in Varints, NEW value \in Word
    PROVE  FromVarint(field.kind, value) \in FieldType(field)
<1>1. WordBits \in Nat \ {0} /\ value \in Nat
  BY WordTyped
<1>2. Signed(value, WordBits) \in Int64
  BY <1>1, SignedIs DEF Int64
<1>3. CASE field.kind = "uint64"
  BY <1>3 DEF FromVarint, FieldType
<1>4. CASE field.kind = "int64"
  BY <1>2, <1>4 DEF FromVarint, FieldType
<1>5. CASE field.kind = "bool"
  <2>1. FieldType(field) = BOOLEAN /\ FromVarint(field.kind, value) = (value # 0)
    BY <1>5, Zenon DEF FromVarint, FieldType
  <2> QED BY <2>1
<1> QED BY <1>3, <1>4, <1>5 DEF Varints

LEMMA KnownTyped ==
    ASSUME NEW f \in Typed(Reading, Values), NEW field, IsField(field),
           NEW data \in Buffer, NEW from \in Nat, NEW old \in FieldType(field),
           NEW read \in Known(f, field, data, from, old)
    PROVE  /\ read.value \in FieldType(field) /\ read.next \in Nat
           /\ from < read.next /\ read.next <= Len(data)
<1>0. data \in Text
  BY BufferTyped
<1>1. CASE field.kind \in Varints
  <2>1. PICK v \in ReadVarint(data, from) :
           read = [value |-> FromVarint(field.kind, v.value), next |-> v.next]
    <3>1. Known(f, field, data, from, old)
             = {[value |-> FromVarint(field.kind, v.value), next |-> v.next]
                : v \in ReadVarint(data, from)}
      <4>1. field.kind # "string"
        BY <1>1 DEF Varints
      <4> QED BY <1>1, <4>1, Zenon DEF Known
    <3> QED BY <3>1
  <2>2. v.value \in Word /\ v.next \in Nat /\ from < v.next /\ v.next <= Len(data)
    BY <1>0, ReadVarintEnds
  <2>3. FromVarint(field.kind, v.value) \in FieldType(field)
    BY <1>1, <2>2, VarintValue
  <2> QED BY <2>1, <2>2, <2>3
<1>2. CASE field.kind = "string"
  <2>0. field.kind \notin Varints
    BY <1>2 DEF Varints
  <2>1. PICK b \in ReadBytes(data, from) :
           read = [value |-> SubSeq(data, b.from + 1, b.post), next |-> b.post]
    <3>1. Known(f, field, data, from, old)
             = {[value |-> SubSeq(data, b.from + 1, b.post), next |-> b.post]
                : b \in ReadBytes(data, from)}
      BY <1>2, <2>0, Zenon DEF Known
    <3> QED BY <3>1
  <2>2. /\ b.from \in Nat /\ b.post \in Nat
        /\ from < b.from /\ b.from <= b.post /\ b.post <= Len(data)
    BY ReadBytesTyped
  <2>3. SubSeq(data, b.from + 1, b.post) \in Text
    BY <1>0, <2>2, PartTyped
  <2>4. FieldType(field) = Text
    BY <1>2 DEF FieldType
  <2> QED BY <2>1, <2>2, <2>3, <2>4
<1>3. CASE field.kind \notin Varints /\ field.kind # "string"
  <2>1. PICK b \in ReadBytes(data, from) :
           \E v \in Embedded(f, field, SubSeq(data, b.from + 1, b.post), old) :
              read = [value |-> v, next |-> b.post]
    BY <1>3 DEF Known
  <2>2. PICK v \in Embedded(f, field, SubSeq(data, b.from + 1, b.post), old) :
           read = [value |-> v, next |-> b.post]
    BY <2>1
  <2>3. /\ b.from \in Nat /\ b.post \in Nat
        /\ from < b.from /\ b.from <= b.post /\ b.post <= Len(data)
    BY ReadBytesTyped
  <2>4. SubSeq(data, b.from + 1, b.post) \in Buffer
    BY <2>3, PartOfBuffer
  <2>5. field.kind \notin Scalars
    BY <1>3 DEF Scalars, Varints
  <2>6. v \in FieldType(field)
    BY <2>2, <2>4, <2>5, EmbeddedTyped
  <2> QED BY <2>2, <2>3, <2>6
<1> QED BY <1>1, <1>2, <1>3

\* One turn of the loop leads further into the same data, for the same type.
LEMMA AfterTagTyped ==
    ASSUME NEW f \in Typed(Reading, Values), NEW c \in Reading,
           NEW tag \in ReadVarint(c.data, c.at), NEW after \in AfterTag(f, c, tag)
    PROVE  /\ after \in Reading /\ after.type = c.type /\ after.data = c.data
           /\ c.at < after.at /\ after.at <= Len(c.data)
<1> DEFINE fieldNum == Signed(tag.value \div 8, FieldBits)
           wireType == tag.value % 8
           field == CasesOf[c.type][fieldNum]
<1>1. /\ c.type \in Type /\ c.data \in Buffer /\ c.at \in Nat /\ c.into \in TypeOf[c.type]
      /\ c = [type |-> c.type, data |-> c.data, at |-> c.at, into |-> c.into]
  BY ReadingIs
<1>2. tag.next \in Nat /\ c.at < tag.next /\ tag.next <= Len(c.data)
  BY <1>1, BufferTyped, ReadVarintEnds
<1>3. AfterTag(f, c, tag)
         = CASE wireType = 4 \/ fieldNum <= 0 -> {}
             [] wireType # 4 /\ fieldNum \in DOMAIN CasesOf[c.type] ->
                  IF wireType # (IF field.kind \in Varints THEN 0 ELSE 2) THEN {}
                  ELSE {[c EXCEPT !.at = read.next, !.into[field.name] = read.value]
                        : read \in Known(f, field, c.data, tag.next, c.into[field.name])}
             [] OTHER -> {[c EXCEPT !.at = next] : next \in skip(c.data, c.at)}
  BY DEF AfterTag
<1> HIDE DEF fieldNum, wireType, field
<1>4. CASE ~(wireType = 4 \/ fieldNum <= 0) /\ wireType # 4 /\ fieldNum \in DOMAIN CasesOf[c.type]
  <2>1. PICK read \in Known(f, field, c.data, tag.next, c.into[field.name]) :
           after = [c EXCEPT !.at = read.next, !.into[field.name] = read.value]
    BY <1>3, <1>4
  <2>2. field = CasesOf[c.type][fieldNum] /\ IsField(field)
    <3>1. Describe(CasesOf[c.type], TypeOf[c.type], ZeroOf[c.type])
      BY <1>1, AllDescribed DEF Described
    <3> QED BY <1>4, <3>1 DEF Describe, field
  <2>3. c.into[field.name] \in FieldType(field)
    <3>1. Describe(CasesOf[c.type], TypeOf[c.type], ZeroOf[c.type])
      BY <1>1, AllDescribed DEF Described
    <3>2. IsOf(c.into, CasesOf[c.type])
      BY <1>1, <3>1 DEF Describe
    <3> QED BY <1>4, <2>2, <3>2 DEF IsOf
  <2>4. /\ read.value \in FieldType(field) /\ read.next \in Nat
        /\ tag.next < read.next /\ read.next <= Len(c.data)
    BY <1>1, <1>2, <2>2, <2>3, KnownTyped
  <2> DEFINE set == [c.into EXCEPT ![field.name] = read.value]
  <2>5. set \in TypeOf[c.type]
    BY <1>1, <1>4, <2>2, <2>4, FieldSet
  <2>6. after = [type |-> c.type, data |-> c.data, at |-> read.next, into |-> set]
    BY <1>1, <2>1
  <2> HIDE DEF set
  <2>7. after \in Reading
    BY <1>1, <2>4, <2>5, <2>6, ReadingFrom
  <2>8. after.type = c.type /\ after.data = c.data /\ after.at = read.next
    BY <2>6
  <2>9. Len(c.data) \in Nat
    BY <1>1, BufferTyped
  <2> QED BY <1>1, <1>2, <2>4, <2>7, <2>8, <2>9
<1>5. CASE ~(wireType = 4 \/ fieldNum <= 0) /\ ~(wireType # 4 /\ fieldNum \in DOMAIN CasesOf[c.type])
  <2>1. PICK next \in skip(c.data, c.at) : after = [c EXCEPT !.at = next]
    BY <1>3, <1>5
  <2>2. next \in Nat /\ c.at < next /\ next <= Len(c.data)
    BY <1>1, SkipTyped
  <2>3. after = [type |-> c.type, data |-> c.data, at |-> next, into |-> c.into]
    BY <1>1, <2>1
  <2>4. after \in Reading
    BY <1>1, <2>2, <2>3, ReadingFrom
  <2>5. after.type = c.type /\ after.data = c.data /\ after.at = next
    BY <2>3
  <2> QED BY <2>2, <2>4, <2>5
<1>6. CASE wireType = 4 \/ fieldNum <= 0
  <2>1. fieldNum <= 0 => fieldNum \notin DOMAIN CasesOf[c.type]
    <3>1. Describe(CasesOf[c.type], TypeOf[c.type], ZeroOf[c.type])
      BY <1>1, AllDescribed DEF Described
    <3>2. DOMAIN CasesOf[c.type] = 1..Len(CasesOf[c.type]) /\ Len(CasesOf[c.type]) \in Nat
      BY <3>1 DEF Describe
    <3> QED BY <3>2
  <2>2. AfterTag(f, c, tag) = {}
    BY <1>3, <1>6, <2>1, Zenon
  <2> QED BY <2>2
<1> QED BY <1>4, <1>5, <1>6

\* Two decoders that agree on what is left after a reader make the same turn.
Agree(f, g, c) == \A d \in Reading : Left[d] < Left[c] => f[d] = g[d]

LEMMA EmbeddedSame ==
    ASSUME NEW f, NEW g, NEW c \in Reading, Agree(f, g, c), NEW field, IsField(field), field.kind \notin Scalars,
           NEW bytes \in Buffer, c.at + Len(bytes) < Len(c.data), NEW old \in FieldType(field)
    PROVE  Embedded(f, field, bytes, old) = Embedded(g, field, bytes, old)
<1>1. field.kind \in {"message", "repeated", "pointer"} /\ field.of \in Type
  BY DEF IsField
<1>2. ASSUME NEW m \in TypeOf[field.of]
      PROVE  Into(f, field.of, bytes, m) = Into(g, field.of, bytes, m)
  <2> DEFINE d == [type |-> field.of, data |-> bytes, at |-> 0, into |-> m]
  <2>1. d \in Reading /\ d.data = bytes /\ d.at = 0
    BY <1>1, ReadingFrom
  <2>2. Into(f, field.of, bytes, m) = f[d] /\ Into(g, field.of, bytes, m) = g[d]
    BY DEF Into
  <2> HIDE DEF d
  <2>3. c.at \in Nat /\ Len(c.data) \in Nat /\ Len(bytes) \in Nat
    BY ReadingIs, BufferTyped
  <2>4. Left[d] = Len(bytes) /\ Left[c] = Len(c.data) - c.at
    BY <2>1, <2>3, LeftTyped
  <2>5. Left[d] < Left[c]
    BY <2>3, <2>4
  <2> QED BY <2>1, <2>2, <2>5 DEF Agree
<1>3. CASE field.kind = "message"
  <2>1. old \in TypeOf[field.of]
    BY <1>3 DEF FieldType
  <2> QED BY <1>2, <1>3, <2>1 DEF Embedded
<1>4. CASE field.kind = "repeated"
  <2>1. ZeroOf[field.of] \in TypeOf[field.of]
    BY <1>1, ZeroTyped
  <2> QED BY <1>2, <1>4, <2>1 DEF Embedded
<1>5. CASE field.kind = "pointer"
  <2>1. old \in Pointer(TypeOf[field.of])
    BY <1>5 DEF FieldType
  <2>2. (IF old = {} THEN ZeroOf[field.of] ELSE The(old)) \in TypeOf[field.of]
    BY <1>1, <2>1, ZeroTyped, PointerTyped
  <2> QED BY <1>2, <1>5, <2>2 DEF Embedded
<1> QED BY <1>1, <1>3, <1>4, <1>5

LEMMA KnownSame ==
    ASSUME NEW f, NEW g, NEW c \in Reading, Agree(f, g, c), NEW field, IsField(field),
           NEW from \in Nat, c.at < from, NEW old \in FieldType(field)
    PROVE  Known(f, field, c.data, from, old) = Known(g, field, c.data, from, old)
<1>1. CASE field.kind \in Scalars
  <2>1. field.kind \in Varints \/ field.kind = "string"
    BY <1>1 DEF Scalars, Varints
  <2>2. "string" \notin Varints
    BY DEF Varints
  <2>3. CASE field.kind \in Varints
    BY <2>2, <2>3, Zenon DEF Known
  <2>4. CASE field.kind = "string"
    BY <2>2, <2>4, Zenon DEF Known
  <2> QED BY <2>1, <2>3, <2>4
<1>2. CASE field.kind \notin Scalars
  <2>1. field.kind \notin Varints /\ field.kind # "string"
    BY <1>2 DEF Scalars, Varints
  <2>2. ASSUME NEW b \in ReadBytes(c.data, from)
        PROVE  Embedded(f, field, SubSeq(c.data, b.from + 1, b.post), old)
                  = Embedded(g, field, SubSeq(c.data, b.from + 1, b.post), old)
    <3>1. c.data \in Buffer /\ c.at \in Nat /\ Len(c.data) \in Nat
      BY ReadingIs, BufferTyped
    <3>2. /\ b.from \in Nat /\ b.post \in Nat
          /\ from < b.from /\ b.from <= b.post /\ b.post <= Len(c.data)
      BY <3>1, ReadBytesTyped
    <3> DEFINE bytes == SubSeq(c.data, b.from + 1, b.post)
    <3>3. bytes \in Buffer /\ Len(bytes) = b.post - b.from
      BY <3>1, <3>2, PartOfBuffer
    <3> HIDE DEF bytes
    <3>4. c.at + Len(bytes) < Len(c.data)
      BY <3>1, <3>2, <3>3
    <3>5. Embedded(f, field, bytes, old) = Embedded(g, field, bytes, old)
      BY <1>2, <3>3, <3>4, EmbeddedSame
    <3> QED BY <3>5 DEF bytes
  <2> DEFINE Reads(h) ==
        UNION {{[value |-> v, next |-> b.post]
                : v \in Embedded(h, field, SubSeq(c.data, b.from + 1, b.post), old)}
               : b \in ReadBytes(c.data, from)}
  <2>3. Known(f, field, c.data, from, old) = Reads(f) /\ Known(g, field, c.data, from, old) = Reads(g)
    BY <2>1, Zenon DEF Known
  <2>4. Reads(f) = Reads(g)
    BY <2>2
  <2> QED BY <2>3, <2>4
<1> QED BY <1>1, <1>2

LEMMA AfterTagSame ==
    ASSUME NEW f, NEW g, NEW c \in Reading, Agree(f, g, c), NEW tag \in ReadVarint(c.data, c.at)
    PROVE  AfterTag(f, c, tag) = AfterTag(g, c, tag)
<1> DEFINE fieldNum == Signed(tag.value \div 8, FieldBits)
           wireType == tag.value % 8
           field == CasesOf[c.type][fieldNum]
           Turn(h) == CASE wireType = 4 \/ fieldNum <= 0 -> {}
                        [] wireType # 4 /\ fieldNum \in DOMAIN CasesOf[c.type] ->
                             IF wireType # (IF field.kind \in Varints THEN 0 ELSE 2) THEN {}
                             ELSE {[c EXCEPT !.at = read.next, !.into[field.name] = read.value]
                                   : read \in Known(h, field, c.data, tag.next, c.into[field.name])}
                        [] OTHER -> {[c EXCEPT !.at = next] : next \in skip(c.data, c.at)}
<1>1. /\ c.type \in Type /\ c.data \in Buffer /\ c.at \in Nat /\ c.into \in TypeOf[c.type]
  BY ReadingIs
<1>2. tag.next \in Nat /\ c.at < tag.next
  BY <1>1, BufferTyped, ReadVarintEnds
<1>3. AfterTag(f, c, tag) = Turn(f) /\ AfterTag(g, c, tag) = Turn(g)
  BY DEF AfterTag
<1>4. CASE fieldNum \in DOMAIN CasesOf[c.type]
  <2>1. Describe(CasesOf[c.type], TypeOf[c.type], ZeroOf[c.type])
    BY <1>1, AllDescribed DEF Described
  <2>2. IsOf(c.into, CasesOf[c.type])
    BY <1>1, <2>1 DEF Describe
  <2>3. IsField(field) /\ c.into[field.name] \in FieldType(field)
    BY <1>4, <2>1, <2>2, Zenon DEF Describe, IsOf
  <2>4. Known(f, field, c.data, tag.next, c.into[field.name])
           = Known(g, field, c.data, tag.next, c.into[field.name])
    <3> HIDE DEF field
    <3> QED BY <1>2, <2>3, KnownSame
  <2>5. Turn(f) = Turn(g)
    BY <2>4, Zenon
  <2> QED BY <1>3, <2>5
<1>5. CASE fieldNum \notin DOMAIN CasesOf[c.type]
  <2>1. CASE wireType = 4 \/ fieldNum <= 0
    <3>1. Turn(f) = {} /\ Turn(g) = {}
      BY <1>5, <2>1, Zenon
    <3> QED BY <1>3, <3>1
  <2>2. CASE ~(wireType = 4 \/ fieldNum <= 0)
    <3>1. Turn(f) = Turn(g)
      BY <1>5, <2>2, Zenon
    <3> QED BY <1>3, <3>1
  <2> QED BY <2>1, <2>2
<1> QED BY <1>4, <1>5

LEMMA AfterTagSmaller ==
    ASSUME NEW f \in Typed(Reading, Values), NEW c \in Reading, c.at < Len(c.data),
           NEW tag \in ReadVarint(c.data, c.at), NEW after \in AfterTag(f, c, tag)
    PROVE  after \in Reading /\ Left[after] < Left[c] /\ after.type = c.type
<1>1. /\ after \in Reading /\ after.type = c.type /\ after.data = c.data
      /\ c.at < after.at /\ after.at <= Len(c.data)
  BY AfterTagTyped
<1>2. c.at \in Nat /\ after.at \in Nat /\ Len(c.data) \in Nat
  BY <1>1, ReadingIs, BufferTyped
<1>3. Left[after] = Len(c.data) - after.at /\ Left[c] = Len(c.data) - c.at
  BY <1>1, <1>2, LeftTyped
<1> QED BY <1>1, <1>2, <1>3

LEMMA BodyTyped ==
    ASSUME NEW f \in Typed(Reading, Values), NEW c \in Reading
    PROVE  Body(f, c) \subseteq TypeOf[c.type]
<1>1. c.into \in TypeOf[c.type] /\ c.at \in Nat /\ Len(c.data) \in Nat
  BY ReadingIs, BufferTyped
<1>2. CASE c.at >= Len(c.data)
  BY <1>1, <1>2 DEF Body
<1>3. CASE c.at < Len(c.data)
  <2> SUFFICES ASSUME NEW m \in Body(f, c) PROVE m \in TypeOf[c.type]
    OBVIOUS
  <2>1. PICK tag \in ReadVarint(c.data, c.at) : \E after \in AfterTag(f, c, tag) : m \in f[after]
    BY <1>1, <1>3 DEF Body
  <2>2. PICK after \in AfterTag(f, c, tag) : m \in f[after]
    BY <2>1
  <2>3. after \in Reading /\ after.type = c.type
    BY <1>3, AfterTagSmaller
  <2> QED BY <2>2, <2>3, ValuesAre
<1> QED BY <1>1, <1>2, <1>3

LEMMA BodySame ==
    ASSUME NEW f \in Typed(Reading, Values), NEW g, NEW c \in Reading, Agree(f, g, c)
    PROVE  Body(f, c) = Body(g, c)
<1>1. c.at \in Nat /\ Len(c.data) \in Nat
  BY ReadingIs, BufferTyped
<1>2. CASE c.at >= Len(c.data)
  BY <1>2 DEF Body
<1>3. CASE c.at < Len(c.data)
  <2> DEFINE Afters(h) == UNION {AfterTag(h, c, tag) : tag \in ReadVarint(c.data, c.at)}
  <2>1. Afters(f) = Afters(g)
    BY AfterTagSame
  <2>2. \A after \in Afters(f) : f[after] = g[after]
    <3> SUFFICES ASSUME NEW tag \in ReadVarint(c.data, c.at), NEW after \in AfterTag(f, c, tag)
                 PROVE  f[after] = g[after]
      OBVIOUS
    <3> QED BY <1>3, AfterTagSmaller DEF Agree
  <2>3. ~(c.at >= Len(c.data))
    BY <1>1, <1>3
  <2>4. /\ Body(f, c) = UNION {f[after] : after \in Afters(f)}
        /\ Body(g, c) = UNION {g[after] : after \in Afters(g)}
    BY <2>3 DEF Body
  <2> HIDE DEF Afters
  <2> QED BY <2>1, <2>2, <2>4
<1> QED BY <1>1, <1>2, <1>3

LEMMA UnmarshalledIs ==
    /\ Unmarshalled = [c \in Reading |-> Body(Unmarshalled, c)]
    /\ Unmarshalled \in Typed(Reading, Values)
<1> DEFINE Step == [f \in Typed(Reading, Values) |-> [c \in Reading |-> Body(f, c)]]
<1>1. Step \in [Typed(Reading, Values) -> Typed(Reading, Values)]
  <2> SUFFICES ASSUME NEW f \in Typed(Reading, Values)
               PROVE  [c \in Reading |-> Body(f, c)] \in Typed(Reading, Values)
    OBVIOUS
  <2>1. \A c \in Reading : Body(f, c) \in Values[c]
    BY BodyTyped DEF Values
  <2> QED BY <2>1 DEF Typed
<1>2. OfSmaller(Reading, Left, Values, Step)
  <2> SUFFICES ASSUME NEW f \in Typed(Reading, Values), NEW g \in Typed(Reading, Values),
                      NEW c \in Reading, \A d \in Reading : Left[d] < Left[c] => f[d] = g[d]
               PROVE  Step[f][c] = Step[g][c]
    BY DEF OfSmaller
  <2>1. Body(f, c) = Body(g, c)
    BY BodySame DEF Agree
  <2> QED BY <2>1
<1>3. Typed(Reading, Values) # {}
  <2> DEFINE nothing == [c \in Reading |-> {}]
  <2>1. \A c \in Reading : {} \in Values[c]
    BY DEF Values
  <2>2. nothing \in Typed(Reading, Values)
    BY <2>1 DEF Typed
  <2> QED BY <2>2
<1>4. PICK h \in Typed(Reading, Values) : h = [c \in Reading |-> Body(h, c)]
  <2>1. \E f \in Typed(Reading, Values) : f = Step[f]
    <3> HIDE DEF Step
    <3> QED BY <1>1, <1>2, <1>3, LeftTyped, Recursion
  <2> QED BY <2>1
<1>5. Unmarshalled = [c \in Reading |-> Body(Unmarshalled, c)]
  <2>1. Unmarshalled = CHOOSE f : f = [c \in Reading |-> Body(f, c)]
    BY DEF Unmarshalled, Body
  <2> QED BY <1>4, <2>1, Zenon
<1>6. Reading \subseteq {c \in Reading : Unmarshalled[c] = h[c]}
  <2> DEFINE Same == {c \in Reading : Unmarshalled[c] = h[c]}
  <2>1. ASSUME NEW c \in Reading, \A d \in Reading : Left[d] < Left[c] => d \in Same
        PROVE  c \in Same
    <3>1. Agree(h, Unmarshalled, c)
      BY <2>1 DEF Agree
    <3>2. Body(h, c) = Body(Unmarshalled, c)
      BY <3>1, BodySame
    <3>3. h[c] = Body(h, c)
      BY <1>4, Zenon
    <3>4. Unmarshalled[c] = Body(Unmarshalled, c)
      BY <1>5, Zenon
    <3> QED BY <3>2, <3>3, <3>4
  <2> HIDE DEF Same
  <2>2. Reading \subseteq Same
    BY <2>1, LeftTyped, Induction
  <2> QED BY <2>2 DEF Same
<1>7. Unmarshalled = h
  <2>1. h = [c \in Reading |-> h[c]]
    BY <1>4, Zenon
  <2>2. Unmarshalled = [c \in Reading |-> Unmarshalled[c]]
    BY <1>5, Zenon
  <2> QED BY <1>6, <2>1, <2>2
<1> QED BY <1>5, <1>7

-----------------------------------------------------------------------------
(* What is written is read.                                                *)

ReadFrom(t, data, at, m) == Unmarshalled[[type |-> t, data |-> data, at |-> at, into |-> m]]

LEMMA ReadFromTyped ==
    ASSUME NEW t \in Type, NEW data \in Buffer, NEW at \in Nat, NEW m \in TypeOf[t]
    PROVE  ReadFrom(t, data, at, m) \subseteq TypeOf[t]
<1> DEFINE c == [type |-> t, data |-> data, at |-> at, into |-> m]
<1>1. c \in Reading /\ c.type = t
  BY ReadingFrom
<1> HIDE DEF c
<1>2. Unmarshalled[c] \subseteq TypeOf[c.type]
  BY <1>1, UnmarshalledIs, ValuesAre
<1> QED BY <1>1, <1>2 DEF ReadFrom, c

\* At the end of the data the message is what has been read.
LEMMA ReadEnd ==
    ASSUME NEW t \in Type, NEW data \in Buffer, NEW at \in Nat, NEW m \in TypeOf[t],
           Len(data) <= at
    PROVE  ReadFrom(t, data, at, m) = {m}
<1> DEFINE c == [type |-> t, data |-> data, at |-> at, into |-> m]
<1>1. c \in Reading /\ c.at = at /\ c.data = data /\ c.into = m
  BY ReadingFrom
<1>2. Len(data) \in Nat
  BY BufferTyped
<1> HIDE DEF c
<1>3. Unmarshalled[c] = Body(Unmarshalled, c)
  BY <1>1, UnmarshalledIs, Zenon
<1>4. Body(Unmarshalled, c) = {m}
  BY <1>1, <1>2 DEF Body
<1> QED BY <1>3, <1>4 DEF ReadFrom, c

LEMMA ReadTag ==
    ASSUME NEW t \in Type, NEW data \in Buffer, NEW at \in Nat, NEW m \in TypeOf[t],
           at < Len(data)
    PROVE  ReadFrom(t, data, at, m)
              = UNION {Unmarshalled[after] :
                          after \in UNION {AfterTag(Unmarshalled, [type |-> t, data |-> data, at |-> at, into |-> m], tag)
                                           : tag \in ReadVarint(data, at)}}
<1> DEFINE c == [type |-> t, data |-> data, at |-> at, into |-> m]
<1>1. c \in Reading /\ c.at = at /\ c.data = data /\ c.into = m
  BY ReadingFrom
<1>2. Len(data) \in Nat
  BY BufferTyped
<1> HIDE DEF c
<1>3. Unmarshalled[c] = Body(Unmarshalled, c)
  BY <1>1, UnmarshalledIs, Zenon
<1>4. Body(Unmarshalled, c)
         = UNION {Unmarshalled[after] : after \in UNION {AfterTag(Unmarshalled, c, tag)
                                                         : tag \in ReadVarint(data, at)}}
  BY <1>1, <1>2 DEF Body
<1> QED BY <1>3, <1>4 DEF ReadFrom, c

\* The tags of the first fifteen fields have one byte.
TagOf(n, field) == 8 * n + IF field.kind \in Varints THEN 0 ELSE 2

LEMMA TagRead ==
    ASSUME NEW n \in 1..15, NEW wire \in {0, 2}
    PROVE  LET tag == 8 * n + wire
           IN  /\ tag \in Word /\ tag \in Byte /\ Groups7[tag] = <<tag>>
               /\ Signed(tag \div 8, FieldBits) = n /\ tag % 8 = wire
<1> DEFINE tag == 8 * n + wire
<1>1. tag \in 0..127 /\ tag \div 8 = n /\ tag % 8 = wire
  <2>1. CASE wire = 0
    BY <2>1
  <2>2. CASE wire = 2
    BY <2>2
  <2> QED BY <2>1, <2>2
<1>2. tag \in Word /\ Groups7[tag] = <<tag>>
  <2> HIDE DEF tag
  <2> QED BY <1>1, OneByte
<1>3. FieldBits \in Nat \ {0} /\ FieldBits - 1 \in Nat /\ 4 <= FieldBits - 1 /\ 4 \in Nat
  BY WidthsAssumption
<1>4. Power2[4] = 16
  <2>1. \A k \in Nat : Power2[k + 1] = 2 * Power2[k]
    BY Powers
  <2>2. Power2[0 + 1] = 2 * Power2[0] /\ Power2[1 + 1] = 2 * Power2[1]
        /\ Power2[2 + 1] = 2 * Power2[2] /\ Power2[3 + 1] = 2 * Power2[3]
    BY <2>1
  <2>3. 0 + 1 = 1 /\ 1 + 1 = 2 /\ 2 + 1 = 3 /\ 3 + 1 = 4 /\ Power2[0] = 1
    BY Powers
  <2> QED BY <2>2, <2>3
<1>5. 16 <= Power2[FieldBits - 1]
  BY <1>3, <1>4, PowersGrow
<1>6. Power2[FieldBits - 1] \in Nat
  BY <1>3, Powers
<1>7. n \in Nat /\ n < Power2[FieldBits - 1]
  BY <1>5, <1>6
<1>8. Signed(n, FieldBits) = n
  BY <1>3, <1>7, SignedIs
<1>9. tag \in Byte
  BY <1>1 DEF Byte
<1> QED BY <1>1, <1>2, <1>8, <1>9

LEMMA CaseNumber ==
    ASSUME NEW t \in Type, NEW n \in DOMAIN CasesOf[t]
    PROVE  n \in Nat \ {0}
<1>1. Describe(CasesOf[t], TypeOf[t], ZeroOf[t])
  BY AllDescribed DEF Described
<1>2. DOMAIN CasesOf[t] = 1..Len(CasesOf[t]) /\ Len(CasesOf[t]) \in Nat
  BY <1>1 DEF Describe
<1> QED BY <1>2

LEMMA WentOn ==
    ASSUME NEW c, c = [type |-> c.type, data |-> c.data, at |-> c.at, into |-> c.into],
           NEW name, NEW next, NEW value,
           NEW after, after = [c EXCEPT !.at = next, !.into[name] = value]
    PROVE  after = [type |-> c.type, data |-> c.data, at |-> next,
                    into |-> [c.into EXCEPT ![name] = value]]
<1> DEFINE set == [c.into EXCEPT ![name] = value]
<1>1. after = [type |-> c.type, data |-> c.data, at |-> next, into |-> set]
  OBVIOUS
<1> QED BY <1>1

\* A field of the message, at its tag.
LEMMA ReadField ==
    ASSUME NEW t \in Type, NEW n \in DOMAIN CasesOf[t], n <= 15, NEW m \in TypeOf[t],
           NEW data \in Buffer, NEW at \in Nat,
           Holds(data, at, <<TagOf(n, CasesOf[t][n])>>)
    PROVE  LET field == CasesOf[t][n]
           IN  ReadFrom(t, data, at, m)
                  = UNION {ReadFrom(t, data, read.next, [m EXCEPT ![field.name] = read.value])
                           : read \in Known(Unmarshalled, field, data, at + 1, m[field.name])}
<1> DEFINE field == CasesOf[t][n]
           wire == IF field.kind \in Varints THEN 0 ELSE 2
           tag == 8 * n + wire
           v == [value |-> tag, next |-> at + 1]
           c == [type |-> t, data |-> data, at |-> at, into |-> m]
           Went(read) == [c EXCEPT !.at = read.next, !.into[field.name] = read.value]
           Reads == Known(Unmarshalled, field, data, at + 1, m[field.name])
<1>1. n \in 1..15 /\ wire \in {0, 2}
  <2>3. n \in 1..15
    <3>1. n \in Nat \ {0}
      BY CaseNumber
    <3> QED BY <3>1
  <2>4. wire \in {0, 2}
    OBVIOUS
  <2> QED BY <2>3, <2>4
<1>2. /\ tag \in Word /\ Groups7[tag] = <<tag>>
      /\ Signed(tag \div 8, FieldBits) = n /\ tag % 8 = wire
  <2> HIDE DEF wire, field
  <2> QED BY <1>1, TagRead
<1>3. data \in Text /\ Len(data) \in Nat
  BY BufferTyped
<1>4. tag = TagOf(n, field)
  BY DEF TagOf
<1>5. ReadVarint(data, at) = {v}
  <2>1. Holds(data, at, Groups7[tag])
    <3> HIDE DEF tag, field
    <3> QED BY <1>2, <1>4 DEF field
  <2>2. Len(<<tag>>) = 1
    OBVIOUS
  <2> HIDE DEF tag
  <2> QED BY <1>2, <1>3, <2>1, <2>2, ReadVarintReads
<1>6. at < Len(data)
  <2>1. Len(<<tag>>) = 1
    OBVIOUS
  <2>2. at + Len(<<tag>>) <= Len(data)
    <3> HIDE DEF tag, field
    <3> QED BY <1>4 DEF field, Holds
  <2> QED BY <1>3, <2>1, <2>2
<1>7. c \in Reading /\ c.type = t /\ c.data = data /\ c.at = at /\ c.into = m
  BY ReadingFrom
<1>8. ReadFrom(t, data, at, m) = UNION {Unmarshalled[after] : after \in AfterTag(Unmarshalled, c, v)}
  <2>1. ReadFrom(t, data, at, m)
           = UNION {Unmarshalled[after] : after \in UNION {AfterTag(Unmarshalled, c, x) : x \in {v}}}
    BY <1>5, <1>6, ReadTag
  <2> HIDE DEF v, c
  <2>2. UNION {AfterTag(Unmarshalled, c, x) : x \in {v}} = AfterTag(Unmarshalled, c, v)
    OBVIOUS
  <2> QED BY <2>1, <2>2
<1>9. v.value = tag /\ v.next = at + 1
  OBVIOUS
<1>10. AfterTag(Unmarshalled, c, v) = {Went(read) : read \in Reads}
  <2>1. wire # 4 /\ ~(n <= 0) /\ n \in DOMAIN CasesOf[t]
    <3> HIDE DEF wire, field
    <3> QED BY <1>1
  <2> DEFINE Turn ==
        CASE wire = 4 \/ n <= 0 -> {}
          [] wire # 4 /\ n \in DOMAIN CasesOf[t] ->
               IF wire # (IF field.kind \in Varints THEN 0 ELSE 2) THEN {}
               ELSE {Went(read) : read \in Reads}
          [] OTHER -> {[c EXCEPT !.at = next] : next \in skip(data, at)}
  <2>2. AfterTag(Unmarshalled, c, v) = Turn
    <3> HIDE DEF v, tag, wire, c
    <3> QED BY <1>2, <1>7, <1>9, Zenon DEF AfterTag
  <2>3. Turn = {Went(read) : read \in Reads}
    <3> HIDE DEF Reads, c
    <3> QED BY <2>1, Zenon
  <2> QED BY <2>2, <2>3
<1>11. ASSUME NEW read, NEW after, after = Went(read)
       PROVE  after = [type |-> t, data |-> data, at |-> read.next,
                       into |-> [m EXCEPT ![field.name] = read.value]]
  <2>1. c = [type |-> c.type, data |-> c.data, at |-> c.at, into |-> c.into]
        /\ c.type = t /\ c.data = data /\ c.into = m
    OBVIOUS
  <2> HIDE DEF field, c
  <2>2. after = [type |-> c.type, data |-> c.data, at |-> read.next,
                 into |-> [c.into EXCEPT ![field.name] = read.value]]
    BY <1>11, <2>1, WentOn
  <2> QED BY <2>1, <2>2
<1>12. \A read \in Reads :
          Unmarshalled[Went(read)] = ReadFrom(t, data, read.next, [m EXCEPT ![field.name] = read.value])
  <2> HIDE DEF Reads, field, c, Went
  <2> QED BY <1>11, Zenon DEF ReadFrom
<1>13. {Unmarshalled[after] : after \in {Went(read) : read \in Reads}}
          = {ReadFrom(t, data, read.next, [m EXCEPT ![field.name] = read.value]) : read \in Reads}
  <2> HIDE DEF Reads, field, c, Went
  <2> QED BY <1>12
<1> HIDE DEF Reads, c, v
<1> QED BY <1>8, <1>10, <1>13 DEF Reads

\* Where the data ends in a field, it ends at the field or the field cannot be read.
LEMMA FieldEndsIn ==
    ASSUME NEW t \in Type, NEW n \in DOMAIN CasesOf[t], n <= 15, NEW m \in TypeOf[t],
           NEW data \in Buffer, NEW at \in Nat, NEW rest \in Text,
           EndsIn(data, at, <<TagOf(n, CasesOf[t][n])>> \o rest),
           EndsIn(data, at + 1, rest) =>
              Known(Unmarshalled, CasesOf[t][n], data, at + 1, m[CasesOf[t][n].name]) = {}
    PROVE  ReadFrom(t, data, at, m) \subseteq {m}
<1> DEFINE field == CasesOf[t][n]
           tag == <<TagOf(n, field)>>
<1>1. data \in Text /\ Len(data) \in Nat
  BY BufferTyped
<1>2. tag \in Text /\ Len(tag) = 1
  <2>1. n \in 1..15
    <3>1. n \in Nat \ {0}
      BY CaseNumber
    <3> QED BY <3>1
  <2>2. TagOf(n, field) \in Byte
    <3> HIDE DEF field
    <3> QED BY <2>1, TagRead DEF TagOf
  <2> HIDE DEF field
  <2> QED BY <2>2 DEF Text
<1>3. EndsIn(data, at, tag) \/ (Holds(data, at, tag) /\ EndsIn(data, at + 1, rest))
  <2> HIDE DEF tag
  <2>1. EndsIn(data, at, tag \o rest)
    BY DEF tag
  <2> QED BY <1>1, <1>2, <2>1, EndsInOne
<1>4. CASE EndsIn(data, at, tag)
  <2>1. at <= Len(data) /\ Len(data) < at + Len(tag)
    <3> HIDE DEF tag
    <3> QED BY <1>4 DEF EndsIn
  <2>2. Len(data) <= at
    <3> HIDE DEF tag
    <3> QED BY <1>1, <1>2, <2>1
  <2>3. ReadFrom(t, data, at, m) = {m}
    BY <2>2, ReadEnd
  <2> QED BY <2>3
<1>5. CASE Holds(data, at, tag) /\ EndsIn(data, at + 1, rest)
  <2> DEFINE Reads == Known(Unmarshalled, field, data, at + 1, m[field.name])
  <2>1. Reads = {}
    BY <1>5
  <2>2. ReadFrom(t, data, at, m)
           = UNION {ReadFrom(t, data, read.next, [m EXCEPT ![field.name] = read.value]) : read \in Reads}
    BY <1>5, ReadField
  <2> HIDE DEF Reads, field
  <2>3. ReadFrom(t, data, at, m) = {}
    BY <2>1, <2>2
  <2> QED BY <2>3
<1> QED BY <1>3, <1>4, <1>5

\* A varint after its tag.
LEMMA VarintChunk ==
    ASSUME NEW t \in Type, NEW n \in DOMAIN CasesOf[t], n <= 15, NEW m \in TypeOf[t],
           CasesOf[t][n].kind \in Varints, NEW x \in Word, NEW data \in Buffer, NEW at \in Nat
    PROVE  LET field == CasesOf[t][n]
               bytes == <<TagOf(n, field)>> \o Groups7[x]
               next == [m EXCEPT ![field.name] = FromVarint(field.kind, x)]
           IN  /\ Holds(data, at, bytes) =>
                     ReadFrom(t, data, at, m) = ReadFrom(t, data, at + Len(bytes), next)
               /\ EndsIn(data, at, bytes) => ReadFrom(t, data, at, m) \subseteq {m}
<1> DEFINE field == CasesOf[t][n]
           tag == <<TagOf(n, field)>>
           g == Groups7[x]
           bytes == tag \o g
           next == [m EXCEPT ![field.name] = FromVarint(field.kind, x)]
           Reads == Known(Unmarshalled, field, data, at + 1, m[field.name])
<1>1. data \in Text /\ Len(data) \in Nat /\ x \in Nat /\ at + 1 \in Nat
  BY BufferTyped, WordTyped
<1>2. g \in Text /\ Len(g) \in Nat
  BY <1>1, Groups7Encodes, TextTyped DEF Encodes
<1>3. tag \in Text /\ Len(tag) = 1
  <2>1. n \in 1..15
    <3>1. n \in Nat \ {0}
      BY CaseNumber
    <3> QED BY <3>1
  <2>2. TagOf(n, field) \in Byte
    <3> HIDE DEF field
    <3> QED BY <2>1, TagRead DEF TagOf
  <2> HIDE DEF field
  <2> QED BY <2>2 DEF Text
<1>4. Reads = {[value |-> FromVarint(field.kind, v.value), next |-> v.next]
               : v \in ReadVarint(data, at + 1)}
  <2>1. field.kind \in Varints /\ field.kind # "string"
    BY DEF Varints
  <2> HIDE DEF field
  <2> QED BY <2>1, Zenon DEF Known
<1>5. ASSUME Holds(data, at, bytes)
      PROVE  ReadFrom(t, data, at, m) = ReadFrom(t, data, at + Len(bytes), next)
  <2>1. Holds(data, at, tag) /\ Holds(data, at + 1, g) /\ Len(bytes) = 1 + Len(g)
    <3> HIDE DEF tag, g
    <3> QED BY <1>1, <1>2, <1>3, <1>5, HoldsBoth, TextJoined, ZenonT(60)
  <2> DEFINE w == [value |-> x, next |-> (at + 1) + Len(g)]
             read == [value |-> FromVarint(field.kind, x), next |-> (at + 1) + Len(g)]
  <2>2. ReadVarint(data, at + 1) = {w}
    BY <1>1, <2>1, ReadVarintReads
  <2>3. Reads = {read}
    <3>1. w.value = x /\ w.next = (at + 1) + Len(g)
      OBVIOUS
    <3> HIDE DEF w, Reads, field, g
    <3>2. Reads = {[value |-> FromVarint(field.kind, v.value), next |-> v.next] : v \in {w}}
      BY <1>4, <2>2
    <3> QED BY <3>1, <3>2
  <2>4. ReadFrom(t, data, at, m)
           = UNION {ReadFrom(t, data, r.next, [m EXCEPT ![field.name] = r.value]) : r \in Reads}
    BY <2>1, ReadField
  <2>5. ReadFrom(t, data, at, m)
           = ReadFrom(t, data, read.next, [m EXCEPT ![field.name] = read.value])
    <3> HIDE DEF Reads, read, field
    <3> QED BY <2>3, <2>4
  <2>6. read.next = at + Len(bytes) /\ read.value = FromVarint(field.kind, x)
    <3> HIDE DEF bytes, g
    <3> QED BY <1>2, <2>1
  <2> HIDE DEF read, bytes, field
  <2> QED BY <2>5, <2>6
<1>6. ASSUME EndsIn(data, at, bytes)
      PROVE  ReadFrom(t, data, at, m) \subseteq {m}
  <2>1. EndsIn(data, at + 1, g) => Reads = {}
    <3>1. EndsIn(data, at + 1, g) => ReadVarint(data, at + 1) = {}
      BY <1>1, ReadVarintEndsIn
    <3> HIDE DEF g, Reads
    <3> QED BY <1>4, <3>1
  <2>2. EndsIn(data, at, tag \o g)
    BY <1>6
  <2> HIDE DEF g
  <2> QED BY <1>2, <2>1, <2>2, FieldEndsIn
<1> HIDE DEF bytes, next, field
<1> QED BY <1>5, <1>6 DEF bytes, next, field, tag, g

\* A part of the data that holds a text is that text.
LEMMA HeldPart ==
    ASSUME NEW data \in Text, NEW s \in Text, NEW from \in Nat, Holds(data, from, s)
    PROVE  SubSeq(data, from + 1, from + Len(s)) = s
<1> DEFINE post == from + Len(s)
           part == SubSeq(data, from + 1, post)
<1>1. Len(s) \in Nat /\ Len(data) \in Nat
  BY TextTyped
<1>2. post \in Nat /\ from <= post /\ post <= Len(data) /\ post - from = Len(s)
  BY <1>1 DEF Holds
<1> HIDE DEF post
<1>3. /\ part \in Text /\ Len(part) = Len(s)
      /\ \A i \in 1..Len(s) : part[i] = data[from + i]
  BY <1>2, PartTyped
<1>4. \A i \in 1..Len(s) : data[from + i] = s[i]
  BY DEF Holds
<1> HIDE DEF part
<1>5. part = s
  BY <1>3, <1>4, SeqEqual DEF Text
<1> QED BY <1>5 DEF part, post

\* What a field becomes by the bytes of a string or an embedded message.
NewValues(field, s, old) ==
    IF field.kind = "string" THEN {s} ELSE Embedded(Unmarshalled, field, s, old)

ReadsBytes(t, n, field, m, s, data, at) ==
    LET bytes == <<TagOf(n, field)>> \o (Groups7[Len(s)] \o s)
    IN  /\ Holds(data, at, bytes) =>
              ReadFrom(t, data, at, m)
                 = UNION {ReadFrom(t, data, at + Len(bytes), [m EXCEPT ![field.name] = v])
                          : v \in NewValues(field, s, m[field.name])}
        /\ Len(s) \in Word /\ EndsIn(data, at, bytes) => ReadFrom(t, data, at, m) \subseteq {m}

LEMMA BytesChunk ==
    ASSUME NEW t \in Type, NEW n \in DOMAIN CasesOf[t], n <= 15, NEW m \in TypeOf[t],
           CasesOf[t][n].kind \notin Varints, NEW s \in Text, NEW data \in Buffer, NEW at \in Nat
    PROVE  ReadsBytes(t, n, CasesOf[t][n], m, s, data, at)
<1> DEFINE field == CasesOf[t][n]
           tag == <<TagOf(n, field)>>
           g == Groups7[Len(s)]
           rest == g \o s
           bytes == tag \o rest
           old == m[field.name]
           Reads == Known(Unmarshalled, field, data, at + 1, old)
<1>1. data \in Text /\ Len(data) \in Nat /\ Len(s) \in Nat /\ at + 1 \in Nat
  BY BufferTyped, TextTyped
<1>2. g \in Text /\ Len(g) \in Nat
  BY <1>1, Groups7Encodes, TextTyped DEF Encodes
<1>3. tag \in Text /\ Len(tag) = 1
  <2>1. n \in 1..15
    <3>1. n \in Nat \ {0}
      BY CaseNumber
    <3> QED BY <3>1
  <2>2. TagOf(n, field) \in Byte
    <3> HIDE DEF field
    <3> QED BY <2>1, TagRead DEF TagOf
  <2> HIDE DEF field
  <2> QED BY <2>2 DEF Text
<1>4. rest \in Text /\ Len(rest) = Len(g) + Len(s)
  <2> HIDE DEF g
  <2> QED BY <1>2, TextJoined
<1> DEFINE Part(b) == SubSeq(data, b.from + 1, b.post)
           Of(b) == {[value |-> v, next |-> b.post] : v \in NewValues(field, Part(b), old)}
<1>5. Reads = UNION {Of(b) : b \in ReadBytes(data, at + 1)}
  <2>1. field.kind \notin Varints
    OBVIOUS
  <2>2. CASE field.kind = "string"
    <3> DEFINE One(b) == [value |-> Part(b), next |-> b.post]
    <3>1. Reads = {One(b) : b \in ReadBytes(data, at + 1)}
      <4> HIDE DEF field, old
      <4> QED BY <2>1, <2>2, Zenon DEF Known
    <3>2. ASSUME NEW b PROVE Of(b) = {One(b)}
      <4> DEFINE x == Part(b)
      <4>1. NewValues(field, x, old) = {x}
        BY <2>2 DEF NewValues
      <4> HIDE DEF x, field, old
      <4> QED BY <4>1 DEF x
    <3> HIDE DEF Reads, Of, One
    <3> QED BY <3>1, <3>2
  <2>3. CASE field.kind # "string"
    <3> DEFINE Emb(b) == {[value |-> v, next |-> b.post] : v \in Embedded(Unmarshalled, field, Part(b), old)}
    <3>1. Reads = UNION {Emb(b) : b \in ReadBytes(data, at + 1)}
      <4> HIDE DEF field, old
      <4> QED BY <2>1, <2>3, Zenon DEF Known
    <3>2. ASSUME NEW b PROVE Of(b) = Emb(b)
      <4> DEFINE x == Part(b)
      <4>1. NewValues(field, x, old) = Embedded(Unmarshalled, field, x, old)
        BY <2>3 DEF NewValues
      <4> HIDE DEF x, field, old
      <4> QED BY <4>1 DEF x
    <3> HIDE DEF Reads, Of, Emb
    <3> QED BY <3>1, <3>2
  <2> QED BY <2>2, <2>3
<1>6. ASSUME Holds(data, at, bytes)
      PROVE  ReadFrom(t, data, at, m)
                = UNION {ReadFrom(t, data, at + Len(bytes), [m EXCEPT ![field.name] = v])
                         : v \in NewValues(field, s, old)}
  <2>1. Holds(data, at, tag) /\ Holds(data, at + 1, rest) /\ Len(bytes) = 1 + Len(rest)
    <3>1. Holds(data, at, tag \o rest)
      BY <1>6
    <3> HIDE DEF tag, rest
    <3>2. Holds(data, at, tag) /\ Holds(data, at + Len(tag), rest)
      BY <1>1, <1>3, <1>4, <3>1, HoldsBoth
    <3>3. Len(tag \o rest) = Len(tag) + Len(rest)
      BY <1>3, <1>4, TextJoined
    <3> QED BY <1>3, <3>2, <3>3
  <2> DEFINE from == (at + 1) + Len(g)
             post == from + Len(s)
             b == [from |-> from, post |-> post]
  <2>2. ReadBytes(data, at + 1) = {b} /\ Holds(data, from, s)
    BY <1>1, <2>1, ReadBytesReads
  <2>3. from \in Nat
    <3> HIDE DEF g
    <3> QED BY <1>1, <1>2
  <2>4. SubSeq(data, from + 1, post) = s
    <3> HIDE DEF from
    <3> QED BY <1>1, <2>2, <2>3, HeldPart
  <2>5. Reads = {[value |-> v, next |-> post] : v \in NewValues(field, s, old)}
    <3>1. b.from = from /\ b.post = post
      OBVIOUS
    <3>2. Reads = UNION {Of(c) : c \in {b}}
      <4> HIDE DEF Reads, Of, b
      <4> QED BY <1>5, <2>2
    <3>3. Reads = Of(b)
      <4> HIDE DEF Reads, Of, b
      <4> QED BY <3>2
    <3>4. Part(b) = s
      <4> HIDE DEF b, from, post
      <4> QED BY <2>4, <3>1
    <3> HIDE DEF b, Reads, field, old, Part, post
    <3> QED BY <3>1, <3>3, <3>4
  <2>6. ReadFrom(t, data, at, m)
           = UNION {ReadFrom(t, data, r.next, [m EXCEPT ![field.name] = r.value]) : r \in Reads}
    BY <2>1, ReadField
  <2>7. ReadFrom(t, data, at, m)
           = UNION {ReadFrom(t, data, post, [m EXCEPT ![field.name] = v])
                    : v \in NewValues(field, s, old)}
    <3> DEFINE N == NewValues(field, s, old)
               From(next, v) == ReadFrom(t, data, next, [m EXCEPT ![field.name] = v])
    <3>1. Reads = {[value |-> v, next |-> post] : v \in N}
      BY <2>5
    <3>2. ReadFrom(t, data, at, m) = UNION {From(r.next, r.value) : r \in Reads}
      BY <2>6
    <3>3. {From(r.next, r.value) : r \in Reads} = {From(post, v) : v \in N}
      <4> DEFINE One(v) == [value |-> v, next |-> post]
      <4>1. Reads = {One(v) : v \in N} /\ \A v : One(v).value = v /\ One(v).next = post
        <5> HIDE DEF Reads, N, post
        <5> QED BY <3>1
      <4> HIDE DEF Reads, N, post, From, One
      <4> QED BY <4>1
    <3>4. ReadFrom(t, data, at, m) = UNION {From(post, v) : v \in N}
      <4> HIDE DEF Reads, N, post, From
      <4> QED BY <3>2, <3>3
    <3> QED BY <3>4
  <2>8. post = at + Len(bytes)
    <3> HIDE DEF bytes, g, rest
    <3> QED BY <1>1, <1>2, <1>4, <2>1
  <2> HIDE DEF post, bytes, field, old
  <2> QED BY <2>7, <2>8
<1>7. ASSUME Len(s) \in Word, EndsIn(data, at, bytes)
      PROVE  ReadFrom(t, data, at, m) \subseteq {m}
  <2>1. EndsIn(data, at + 1, rest) => Reads = {}
    <3>1. EndsIn(data, at + 1, rest) => ReadBytes(data, at + 1) = {}
      BY <1>1, <1>7, ReadBytesEndsIn
    <3> HIDE DEF rest, Reads, Of
    <3> QED BY <1>5, <3>1
  <2>2. EndsIn(data, at, tag \o rest)
    BY <1>7
  <2> HIDE DEF rest
  <2> QED BY <1>4, <2>1, <2>2, FieldEndsIn
<1> HIDE DEF bytes, field
<1> QED BY <1>6, <1>7 DEF ReadsBytes, bytes, field, tag, g, rest, old

-----------------------------------------------------------------------------
(* A message that has been read up to one of its fields.                   *)

Mixed(t, m, k) ==
    [x \in Names(CasesOf[t]) |-> IF \E n \in 1..k : n \in DOMAIN CasesOf[t] /\ CasesOf[t][n].name = x
                                 THEN m[x] ELSE ZeroOf[t][x]]

CutOf(t, m, r) ==
    \A n \in DOMAIN CasesOf[t] :
        LET field == CasesOf[t][n]
        IN  \/ r[field.name] = m[field.name]
            \/ r[field.name] = ZeroOf[t][field.name]
            \/ field.kind = "repeated" /\ IsPrefix(r[field.name], m[field.name])

\* What a message is made of, as the lemmas use it.
LEMMA Shape ==
    ASSUME NEW t \in Type
    PROVE  /\ \A n \in DOMAIN CasesOf[t] :
                 /\ n \in Nat \ {0} /\ n <= Len(CasesOf[t]) /\ IsField(CasesOf[t][n])
                 /\ CasesOf[t][n].name \in Names(CasesOf[t])
                 /\ ZeroOf[t][CasesOf[t][n].name] = FieldZero(CasesOf[t][n])
           /\ \A n, k \in DOMAIN CasesOf[t] : CasesOf[t][n].name = CasesOf[t][k].name => n = k
           /\ \A m : m \in TypeOf[t] <=> IsOf(m, CasesOf[t])
           /\ ZeroOf[t] \in TypeOf[t]
           /\ Len(CasesOf[t]) \in Nat /\ DOMAIN CasesOf[t] = 1..Len(CasesOf[t])
<1>1. Describe(CasesOf[t], TypeOf[t], ZeroOf[t])
  BY AllDescribed DEF Described
<1> DEFINE cases == CasesOf[t]
<1> HIDE DEF cases
<1>2. Describe(cases, TypeOf[t], ZeroOf[t])
  BY <1>1 DEF cases
<1>3. Len(cases) \in Nat /\ DOMAIN cases = 1..Len(cases)
  BY <1>2 DEF Describe
<1>4. \A n \in DOMAIN cases : n \in Nat \ {0} /\ n <= Len(cases)
  BY <1>3
<1>5. \A n \in DOMAIN cases : cases[n].name \in Names(cases)
  BY DEF Names
<1> QED BY <1>2, <1>3, <1>4, <1>5 DEF Describe, cases

LEMMA MixedFields ==
    ASSUME NEW t \in Type, NEW m \in TypeOf[t], NEW k \in Nat
    PROVE  /\ Mixed(t, m, k) = [x \in Names(CasesOf[t]) |-> Mixed(t, m, k)[x]]
           /\ \A n \in DOMAIN CasesOf[t] :
                 LET name == CasesOf[t][n].name
                 IN  /\ n <= k => Mixed(t, m, k)[name] = m[name]
                     /\ ~(n <= k) => Mixed(t, m, k)[name] = ZeroOf[t][name]
<1> DEFINE cases == CasesOf[t]
           zero == ZeroOf[t]
           Value(x) == IF \E n \in 1..k : n \in DOMAIN cases /\ cases[n].name = x THEN m[x] ELSE zero[x]
           mixed == Mixed(t, m, k)
<1>1. mixed = [x \in Names(cases) |-> Value(x)]
  BY DEF Mixed
<1>2. /\ \A n \in DOMAIN cases : n \in Nat \ {0} /\ cases[n].name \in Names(cases)
      /\ \A n, l \in DOMAIN cases : cases[n].name = cases[l].name => n = l
  BY Shape
<1> HIDE DEF cases, mixed, zero
<1>3. \A n \in DOMAIN cases : mixed[cases[n].name] = Value(cases[n].name)
  BY <1>1, <1>2
<1>4. \A n \in DOMAIN cases : n <= k => Value(cases[n].name) = m[cases[n].name]
  BY <1>2
<1>5. \A n \in DOMAIN cases : ~(n <= k) => Value(cases[n].name) = zero[cases[n].name]
  BY <1>2
<1>6. mixed = [x \in Names(cases) |-> mixed[x]]
  <2> HIDE DEF Value
  <2> QED BY <1>1
<1> HIDE DEF Value
<1> QED BY <1>3, <1>4, <1>5, <1>6 DEF cases, mixed, zero

\* Messages with the same fields are the same.
LEMMA SameFields ==
    ASSUME NEW t \in Type, NEW a, NEW b,
           a = [x \in Names(CasesOf[t]) |-> a[x]], b = [x \in Names(CasesOf[t]) |-> b[x]],
           \A n \in DOMAIN CasesOf[t] : a[CasesOf[t][n].name] = b[CasesOf[t][n].name]
    PROVE  a = b
<1>1. \A x \in Names(CasesOf[t]) : a[x] = b[x]
  BY DEF Names
<1> QED BY <1>1

LEMMA FieldTyped ==
    ASSUME NEW t \in Type, NEW m \in TypeOf[t]
    PROVE  /\ m = [x \in Names(CasesOf[t]) |-> m[x]]
           /\ \A n \in DOMAIN CasesOf[t] : m[CasesOf[t][n].name] \in FieldType(CasesOf[t][n])
  BY Shape DEF IsOf

LEMMA MixedTyped ==
    ASSUME NEW t \in Type, NEW m \in TypeOf[t], NEW k \in Nat
    PROVE  /\ Mixed(t, m, k) \in TypeOf[t] /\ CutOf(t, m, Mixed(t, m, k))
           /\ k = 0 => Mixed(t, m, k) = ZeroOf[t]
           /\ k = Len(CasesOf[t]) => Mixed(t, m, k) = m
<1> DEFINE mixed == Mixed(t, m, k)
           zero == ZeroOf[t]
<1>1. zero \in TypeOf[t]
  BY Shape
<1>2. mixed = [x \in Names(CasesOf[t]) |-> mixed[x]]
  BY MixedFields
<1>3. \A n \in DOMAIN CasesOf[t] :
         LET name == CasesOf[t][n].name
         IN  (n <= k => mixed[name] = m[name]) /\ (~(n <= k) => mixed[name] = zero[name])
  BY MixedFields
<1>4. \A n \in DOMAIN CasesOf[t] : n \in Nat \ {0} /\ n <= Len(CasesOf[t])
  BY Shape
<1>5. \A n \in DOMAIN CasesOf[t] : /\ m[CasesOf[t][n].name] \in FieldType(CasesOf[t][n])
                                   /\ zero[CasesOf[t][n].name] \in FieldType(CasesOf[t][n])
  BY <1>1, FieldTyped
<1>6. m = [x \in Names(CasesOf[t]) |-> m[x]] /\ zero = [x \in Names(CasesOf[t]) |-> zero[x]]
  BY <1>1, FieldTyped
<1> HIDE DEF mixed, zero
<1>7. mixed \in TypeOf[t]
  <2>1. IsOf(mixed, CasesOf[t])
    BY <1>2, <1>3, <1>5 DEF IsOf
  <2> QED BY <2>1, Shape
<1>8. CutOf(t, m, mixed)
  BY <1>3 DEF CutOf, zero
<1>9. k = 0 => mixed = zero
  <2> SUFFICES ASSUME k = 0 PROVE mixed = zero
    OBVIOUS
  <2>1. \A n \in DOMAIN CasesOf[t] : mixed[CasesOf[t][n].name] = zero[CasesOf[t][n].name]
    BY <1>3, <1>4
  <2> QED BY <1>2, <1>6, <2>1, SameFields
<1>10. k = Len(CasesOf[t]) => mixed = m
  <2> SUFFICES ASSUME k = Len(CasesOf[t]) PROVE mixed = m
    OBVIOUS
  <2>1. \A n \in DOMAIN CasesOf[t] : mixed[CasesOf[t][n].name] = m[CasesOf[t][n].name]
    BY <1>3, <1>4
  <2>2. m = [x \in Names(CasesOf[t]) |-> m[x]]
    BY <1>6
  <2>3. \A x \in Names(CasesOf[t]) : mixed[x] = m[x]
    BY <2>1 DEF Names
  <2>4. [x \in Names(CasesOf[t]) |-> mixed[x]] = [x \in Names(CasesOf[t]) |-> m[x]]
    BY <2>3
  <2> QED BY <1>2, <2>2, <2>4, Zenon
<1> QED BY <1>7, <1>8, <1>9, <1>10 DEF mixed, zero

LEMMA MixedStep ==
    ASSUME NEW t \in Type, NEW m \in TypeOf[t], NEW n \in DOMAIN CasesOf[t]
    PROVE  LET name == CasesOf[t][n].name
               before == Mixed(t, m, n - 1)
           IN  /\ before[name] = FieldZero(CasesOf[t][n])
               /\ [before EXCEPT ![name] = m[name]] = Mixed(t, m, n)
               /\ m[name] = FieldZero(CasesOf[t][n]) => before = Mixed(t, m, n)
<1> DEFINE cases == CasesOf[t]
           name == cases[n].name
           before == Mixed(t, m, n - 1)
           after == Mixed(t, m, n)
           set == [before EXCEPT ![name] = m[name]]
<1>1. n - 1 \in Nat /\ n \in Nat
  BY CaseNumber
<1>2. /\ \A k \in DOMAIN cases : k \in Nat \ {0} /\ cases[k].name \in Names(cases)
      /\ \A k, l \in DOMAIN cases : cases[k].name = cases[l].name => k = l
      /\ ZeroOf[t][name] = FieldZero(cases[n])
  BY Shape
<1>3. /\ before = [x \in Names(cases) |-> before[x]]
      /\ \A k \in DOMAIN cases : /\ k <= n - 1 => before[cases[k].name] = m[cases[k].name]
                                 /\ ~(k <= n - 1) => before[cases[k].name] = ZeroOf[t][cases[k].name]
  BY <1>1, MixedFields
<1>4. /\ after = [x \in Names(cases) |-> after[x]]
      /\ \A k \in DOMAIN cases : /\ k <= n => after[cases[k].name] = m[cases[k].name]
                                 /\ ~(k <= n) => after[cases[k].name] = ZeroOf[t][cases[k].name]
  BY <1>1, MixedFields
<1>5. n \in DOMAIN cases
  OBVIOUS
<1> HIDE DEF before, after
<1>6. before[name] = FieldZero(cases[n])
  <2>1. ~(n <= n - 1)
    BY <1>1
  <2> QED BY <1>2, <1>3, <2>1
<1>7. set = after
  <2>1. set = [x \in Names(cases) |-> set[x]] /\ set[name] = m[name]
        /\ \A k \in DOMAIN cases : k # n => set[cases[k].name] = before[cases[k].name]
    <3> HIDE DEF cases
    <3>1. DOMAIN before = Names(cases)
      BY <1>3
    <3> QED BY <1>2, <1>5, <3>1
  <2> HIDE DEF set
  <2>2. \A k \in DOMAIN cases : set[cases[k].name] = after[cases[k].name]
    <3> SUFFICES ASSUME NEW k \in DOMAIN cases PROVE set[cases[k].name] = after[cases[k].name]
      OBVIOUS
    <3> HIDE DEF cases
    <3>1. CASE k = n
      BY <1>1, <1>4, <2>1, <3>1
    <3>2. CASE k < n
      <4>1. k <= n - 1 /\ k <= n /\ k # n
        BY <1>1, <1>2, <3>2
      <4> QED BY <1>3, <1>4, <2>1, <4>1
    <3>3. CASE n < k
      <4>1. ~(k <= n - 1) /\ ~(k <= n) /\ k # n
        BY <1>1, <1>2, <3>3
      <4> QED BY <1>3, <1>4, <2>1, <4>1
    <3> QED BY <1>1, <1>2, <3>1, <3>2, <3>3
  <2> QED BY <1>4, <2>1, <2>2, SameFields
<1>8. m[name] = FieldZero(cases[n]) => before = after
  <2> SUFFICES ASSUME m[name] = FieldZero(cases[n]) PROVE before = after
    OBVIOUS
  <2>1. set = before
    <3>1. before[name] = m[name]
      BY <1>6
    <3> HIDE DEF name, cases
    <3> QED BY <1>3, <3>1
  <2> QED BY <1>7, <2>1
<1> QED BY <1>6, <1>7, <1>8 DEF before, after

LEMMA FieldStep ==
    ASSUME NEW t \in Type, NEW m \in TypeOf[t], NEW n \in DOMAIN CasesOf[t],
           NEW b, b = n - 1, NEW field, field = CasesOf[t][n]
    PROVE  /\ Mixed(t, m, b) \in TypeOf[t] /\ CutOf(t, m, Mixed(t, m, b))
           /\ Mixed(t, m, b)[field.name] = FieldZero(field)
           /\ Mixed(t, m, n) = [Mixed(t, m, b) EXCEPT ![field.name] = m[field.name]]
           /\ m[field.name] = FieldZero(field) => Mixed(t, m, b) = Mixed(t, m, n)
<1>1. b \in Nat
  BY CaseNumber
<1> QED BY <1>1, MixedTyped, MixedStep

-----------------------------------------------------------------------------
(* What a writer's bytes do to a reader that comes to them.                *)

Chunk(t, start, next, bytes) ==
    \A data \in Buffer, at \in Nat :
        /\ Holds(data, at, bytes) =>
              ReadFrom(t, data, at, start) = ReadFrom(t, data, at + Len(bytes), next)
        /\ EndsIn(data, at, bytes) => ReadFrom(t, data, at, start) \subseteq {start}

Reads(t, m, start, bytes) ==
    \A data \in Buffer, at \in Nat :
        /\ Holds(data, at, bytes) =>
              ReadFrom(t, data, at, start) = ReadFrom(t, data, at + Len(bytes), m)
        /\ EndsIn(data, at, bytes) => \A r \in ReadFrom(t, data, at, start) : CutOf(t, m, r)

Writes(t, m, start, bytes, size) ==
    /\ bytes \in Text /\ Len(bytes) = size
    /\ size <= MaxInt => Reads(t, m, start, bytes)

LEMMA ChunkBefore ==
    ASSUME NEW t \in Type, NEW m, NEW start, NEW next, NEW chunk \in Text, NEW rest \in Text,
           Chunk(t, start, next, chunk), CutOf(t, m, start), Reads(t, m, next, rest)
    PROVE  Reads(t, m, start, chunk \o rest)
<1>0. chunk \o rest \in Text /\ Len(chunk \o rest) = Len(chunk) + Len(rest)
      /\ Len(chunk) \in Nat /\ Len(rest) \in Nat
  BY TextJoined, TextTyped
<1>1. ASSUME NEW data \in Buffer, NEW at \in Nat, Holds(data, at, chunk \o rest)
      PROVE  ReadFrom(t, data, at, start) = ReadFrom(t, data, at + Len(chunk \o rest), m)
  <2>1. data \in Text /\ at + Len(chunk) \in Nat
    BY <1>0, BufferTyped
  <2>2. Holds(data, at, chunk) /\ Holds(data, at + Len(chunk), rest)
    BY <1>1, <2>1, HoldsBoth
  <2>3. ReadFrom(t, data, at, start) = ReadFrom(t, data, at + Len(chunk), next)
    BY <2>2 DEF Chunk
  <2>4. ReadFrom(t, data, at + Len(chunk), next) = ReadFrom(t, data, (at + Len(chunk)) + Len(rest), m)
    BY <2>1, <2>2 DEF Reads
  <2>5. (at + Len(chunk)) + Len(rest) = at + Len(chunk \o rest)
    BY <1>0
  <2> QED BY <2>3, <2>4, <2>5
<1>2. ASSUME NEW data \in Buffer, NEW at \in Nat, EndsIn(data, at, chunk \o rest)
      PROVE  \A r \in ReadFrom(t, data, at, start) : CutOf(t, m, r)
  <2>1. data \in Text /\ at + Len(chunk) \in Nat
    BY <1>0, BufferTyped
  <2>2. EndsIn(data, at, chunk) \/ (Holds(data, at, chunk) /\ EndsIn(data, at + Len(chunk), rest))
    BY <1>2, <2>1, EndsInOne
  <2>3. CASE EndsIn(data, at, chunk)
    BY <2>3 DEF Chunk
  <2>4. CASE Holds(data, at, chunk) /\ EndsIn(data, at + Len(chunk), rest)
    <3>1. ReadFrom(t, data, at, start) = ReadFrom(t, data, at + Len(chunk), next)
      BY <2>4 DEF Chunk
    <3> QED BY <2>1, <2>4, <3>1 DEF Reads
  <2> QED BY <2>2, <2>3, <2>4
<1> QED BY <1>1, <1>2 DEF Reads

\* The bytes that have been written, one more field before them.
LEMMA ChunkWrites ==
    ASSUME NEW t \in Type, NEW m, NEW start, NEW next, NEW chunk \in Text, NEW rest, NEW size,
           Len(chunk) + size <= MaxInt => Chunk(t, start, next, chunk),
           CutOf(t, m, start), Writes(t, m, next, rest, size)
    PROVE  Writes(t, m, start, chunk \o rest, Len(chunk) + size)
<1>1. rest \in Text /\ Len(rest) = size
  BY DEF Writes
<1>2. chunk \o rest \in Text /\ Len(chunk \o rest) = Len(chunk) + size
      /\ Len(chunk) \in Nat /\ size \in Nat
  BY <1>1, TextJoined, TextTyped
<1>3. ASSUME Len(chunk) + size <= MaxInt PROVE Reads(t, m, start, chunk \o rest)
  <2>1. MaxInt \in Int
    BY WordTyped DEF MaxInt
  <2>2. size <= MaxInt
    BY <1>2, <1>3, <2>1
  <2>3. Reads(t, m, next, rest)
    BY <2>2 DEF Writes
  <2> QED BY <1>1, <1>3, <2>3, ChunkBefore
<1> QED BY <1>2, <1>3 DEF Writes

LEMMA EndWrites ==
    ASSUME NEW t \in Type, NEW m \in TypeOf[t], NEW k, k = Len(CasesOf[t])
    PROVE  Writes(t, m, Mixed(t, m, k), << >>, 0)
<1>1. k \in Nat
  BY Shape
<1>2. Mixed(t, m, k) = m
  BY <1>1, MixedTyped
<1>3. << >> \in Text /\ Len(<< >>) = 0
  BY DEF Text
<1>4. ASSUME NEW data \in Buffer, NEW at \in Nat
      PROVE  /\ at + Len(<< >>) = at
             /\ ~EndsIn(data, at, << >>)
  <2>1. Len(data) \in Nat
    BY BufferTyped
  <2> QED BY <1>3, <2>1 DEF EndsIn
<1>5. Reads(t, m, m, << >>)
  BY <1>4 DEF Reads
<1> QED BY <1>2, <1>3, <1>5 DEF Writes

LEMMA TagTyped ==
    ASSUME NEW t \in Type, NEW n \in DOMAIN CasesOf[t], n <= 15
    PROVE  <<TagOf(n, CasesOf[t][n])>> \in Text /\ Len(<<TagOf(n, CasesOf[t][n])>>) = 1
<1>1. n \in 1..15
  <2>1. n \in Nat \ {0}
    BY CaseNumber
  <2> QED BY <2>1
<1> DEFINE field == CasesOf[t][n]
<1> HIDE DEF field
<1>2. TagOf(n, field) \in Byte
  BY <1>1, TagRead DEF TagOf
<1>3. <<TagOf(n, field)>> \in Text /\ Len(<<TagOf(n, field)>>) = 1
  BY <1>2 DEF Text
<1> QED BY <1>3 DEF field

\* A field with a number.
LEMMA VarintWrites ==
    ASSUME NEW t \in Type, NEW n \in DOMAIN CasesOf[t], n <= 15, NEW m \in TypeOf[t],
           NEW b, b = n - 1, NEW field, field = CasesOf[t][n], field.kind \in Varints,
           NEW tag, tag = 8 * n,
           NEW x \in Word, FromVarint(field.kind, x) = m[field.name],
           NEW rest, NEW size, Writes(t, m, Mixed(t, m, n), rest, size)
    PROVE  Writes(t, m, Mixed(t, m, b), <<tag>> \o encodeVarint(x, rest), (1 + sov(x)) + size)
<1> DEFINE g == Groups7[x]
           before == Mixed(t, m, b)
           after == Mixed(t, m, n)
           chunk == <<tag>> \o g
<1>1. rest \in Text /\ Len(rest) = size
  BY DEF Writes
<1>2. x \in Nat /\ n \in Nat /\ b \in Nat
  BY WordTyped, CaseNumber
<1>3. g \in Text /\ Len(g) \in Nat /\ sov(x) = Len(g)
  BY <1>2, SovCounts, Groups7Encodes, TextTyped DEF Encodes
<1>4. tag = TagOf(n, field)
  BY <1>2 DEF TagOf
<1>5. <<tag>> \in Text /\ Len(<<tag>>) = 1
  BY <1>4, TagTyped
<1>6. chunk \in Text /\ Len(chunk) = 1 + sov(x)
  <2> HIDE DEF g
  <2> QED BY <1>3, <1>5, TextJoined
<1>7. before \in TypeOf[t] /\ CutOf(t, m, before)
  BY <1>2, MixedTyped
<1>8. [before EXCEPT ![field.name] = FromVarint(field.kind, x)] = after
  BY MixedStep
<1>9. Chunk(t, before, after, chunk)
  <2> HIDE DEF before, after, g
  <2>1. ASSUME NEW data \in Buffer, NEW at \in Nat
        PROVE  /\ Holds(data, at, <<tag>> \o g) =>
                     ReadFrom(t, data, at, before) = ReadFrom(t, data, at + Len(<<tag>> \o g), after)
               /\ EndsIn(data, at, <<tag>> \o g) => ReadFrom(t, data, at, before) \subseteq {before}
    BY <1>4, <1>7, <1>8, VarintChunk DEF g
  <2> QED BY <2>1 DEF Chunk
<1>10. <<tag>> \o encodeVarint(x, rest) = chunk \o rest
  <2>1. encodeVarint(x, rest) = g \o rest
    BY <1>1, VarintWritten
  <2> HIDE DEF g
  <2>2. (<<tag>> \o g) \o rest = <<tag>> \o (g \o rest)
    BY <1>1, <1>3, <1>5, ConcatAssociative DEF Text
  <2> QED BY <2>1, <2>2
<1> HIDE DEF before, after, chunk
<1>11. Writes(t, m, before, chunk \o rest, Len(chunk) + size)
  BY <1>6, <1>7, <1>9, ChunkWrites DEF after
<1> QED BY <1>6, <1>10, <1>11 DEF before

\* A field with a length and as many bytes: what it makes of a message.
Makes(field, s, start, v, next) ==
    /\ next = [start EXCEPT ![field.name] = v]
    /\ Len(s) <= MaxInt => NewValues(field, s, start[field.name]) = {v}

LEMMA BytesWrites ==
    ASSUME NEW t \in Type, NEW n \in DOMAIN CasesOf[t], n <= 15, NEW m,
           NEW field, field = CasesOf[t][n], field.kind \notin Varints,
           NEW tag, tag = 8 * n + 2, NEW s \in Text,
           NEW start \in TypeOf[t], CutOf(t, m, start),
           NEW v, NEW next, Makes(field, s, start, v, next),
           NEW rest, NEW size, Writes(t, m, next, rest, size)
    PROVE  Writes(t, m, start, MessageField(tag, s, rest), MessageSize(Len(s)) + size)
<1> DEFINE g == Groups7[Len(s)]
           bytes == MessageField(tag, s, rest)
           chunk == <<TagOf(n, field)>> \o (g \o s)
<1>1. rest \in Text /\ Len(rest) = size /\ size \in Nat
  BY TextTyped DEF Writes
<1>2. n \in Nat /\ Len(s) \in Nat /\ MaxInt \in Nat
  BY CaseNumber, TextTyped, WordTyped DEF MaxInt
<1>3. tag = TagOf(n, field)
  BY <1>2 DEF TagOf
<1>4. <<tag>> \in Text /\ Len(<<tag>>) = 1
  BY <1>3, TagTyped
<1>5. s \o rest \in Text /\ Len(s \o rest) = Len(s) + Len(rest)
  BY <1>1, TextJoined
<1>6. /\ sov(Len(s)) \in Nat /\ encodeVarint(Len(s), s \o rest) \in Text
      /\ Len(encodeVarint(Len(s), s \o rest)) = sov(Len(s)) + (Len(s) + Len(rest))
  BY <1>2, <1>5, VarintTyped
<1>7. bytes \in Text /\ Len(bytes) = MessageSize(Len(s)) + size
  <2> DEFINE e == encodeVarint(Len(s), s \o rest)
  <2>1. bytes = <<tag>> \o e
    BY DEF MessageField
  <2> HIDE DEF e, bytes
  <2>2. e \in Text /\ Len(e) = sov(Len(s)) + (Len(s) + Len(rest))
    BY <1>6 DEF e
  <2>3. bytes \in Text /\ Len(bytes) = 1 + Len(e)
    BY <1>4, <2>1, <2>2, TextJoined
  <2> QED BY <1>1, <1>2, <1>6, <2>2, <2>3 DEF MessageSize
<1>8. ASSUME MessageSize(Len(s)) + size <= MaxInt PROVE Reads(t, m, start, bytes)
  <2>1. Len(s) <= MaxInt /\ size <= MaxInt
    BY <1>1, <1>2, <1>6, <1>8 DEF MessageSize
  <2>2. Len(s) \in Word
    BY <1>2, <2>1, WordTyped DEF Word, MaxInt
  <2>3. g \in Text
    BY <1>2, Groups7Encodes DEF Encodes
  <2>4. chunk \in Text
    <3> HIDE DEF g
    <3> QED BY <1>3, <1>4, <2>3, TextJoined
  <2>5. bytes = chunk \o rest
    <3>1. encodeVarint(Len(s), s \o rest) = g \o (s \o rest)
      BY <1>5, <2>2, VarintWritten
    <3> HIDE DEF g
    <3>4. g \o s \in Text
      BY <2>3, TextJoined
    <3>2. (<<tag>> \o (g \o s)) \o rest = <<tag>> \o ((g \o s) \o rest)
      BY <1>1, <1>4, <3>4, ConcatAssociative DEF Text
    <3>3. (g \o s) \o rest = g \o (s \o rest)
      BY <1>1, <2>3, ConcatAssociative, SMTT(60) DEF Text
    <3> QED BY <1>3, <3>1, <3>2, <3>3 DEF MessageField
  <2>6. Chunk(t, start, next, chunk)
    <3>1. ASSUME NEW data \in Buffer, NEW at \in Nat
          PROVE  /\ Holds(data, at, chunk) =>
                       ReadFrom(t, data, at, start) = ReadFrom(t, data, at + Len(chunk), next)
                 /\ EndsIn(data, at, chunk) => ReadFrom(t, data, at, start) \subseteq {start}
      <4>4. ReadsBytes(t, n, field, start, s, data, at)
        BY BytesChunk
      <4>1. /\ Holds(data, at, chunk) =>
                  ReadFrom(t, data, at, start)
                     = UNION {ReadFrom(t, data, at + Len(chunk), [start EXCEPT ![field.name] = w])
                              : w \in NewValues(field, s, start[field.name])}
            /\ EndsIn(data, at, chunk) => ReadFrom(t, data, at, start) \subseteq {start}
        BY <2>2, <4>4, Zenon DEF ReadsBytes
      <4>2. NewValues(field, s, start[field.name]) = {v}
        BY <2>1 DEF Makes
      <4> DEFINE To(w) == ReadFrom(t, data, at + Len(chunk), [start EXCEPT ![field.name] = w])
      <4>3. UNION {To(w) : w \in {v}} = To(v)
        <5> HIDE DEF To
        <5> QED OBVIOUS
      <4>5. next = [start EXCEPT ![field.name] = v]
        BY DEF Makes
      <4> HIDE DEF chunk
      <4> QED BY <4>1, <4>2, <4>3, <4>5
    <3> HIDE DEF chunk
    <3> QED BY <3>1 DEF Chunk
  <2>7. Reads(t, m, next, rest)
    BY <2>1 DEF Writes
  <2> HIDE DEF chunk, bytes
  <2> QED BY <1>1, <2>4, <2>5, <2>6, <2>7, ChunkBefore
<1> HIDE DEF bytes
<1> QED BY <1>7, <1>8 DEF Writes, bytes

LEMMA UintWrites ==
    ASSUME NEW t \in Type, NEW n \in DOMAIN CasesOf[t], n <= 15, NEW m \in TypeOf[t],
           NEW b, b = n - 1, NEW field, field = CasesOf[t][n], field.kind = "uint64",
           NEW tag, tag = 8 * n, NEW x, x = m[field.name],
           NEW rest, NEW size, Writes(t, m, Mixed(t, m, n), rest, size)
    PROVE  Writes(t, m, Mixed(t, m, b), UintField(tag, x, rest), UintSize(x) + size)
<1>1. x \in Word
  <2>1. m[field.name] \in FieldType(field)
    BY FieldTyped
  <2> QED BY <2>1 DEF FieldType
<1>2. FieldZero(field) = 0 /\ FromVarint(field.kind, x) = x /\ field.kind \in Varints
  BY DEF FieldZero, FromVarint, Varints
<1>3. size \in Nat
  BY TextTyped DEF Writes
<1>4. CASE x = 0
  <2>1. Mixed(t, m, b) = Mixed(t, m, n)
    <3>1. m[field.name] = FieldZero(field)
      BY <1>2, <1>4
    <3> QED BY <3>1, FieldStep
  <2> QED BY <1>3, <1>4, <2>1 DEF UintField, UintSize
<1>5. CASE x # 0
  <2>1. Writes(t, m, Mixed(t, m, b), <<tag>> \o encodeVarint(x, rest), (1 + sov(x)) + size)
    BY <1>1, <1>2, VarintWrites
  <2> QED BY <1>5, <2>1 DEF UintField, UintSize
<1> QED BY <1>4, <1>5

LEMMA IntWrites ==
    ASSUME NEW t \in Type, NEW n \in DOMAIN CasesOf[t], n <= 15, NEW m \in TypeOf[t],
           NEW b, b = n - 1, NEW field, field = CasesOf[t][n], field.kind = "int64",
           NEW tag, tag = 8 * n, NEW x, x = m[field.name],
           NEW rest, NEW size, Writes(t, m, Mixed(t, m, n), rest, size)
    PROVE  Writes(t, m, Mixed(t, m, b), IntField(tag, x, rest), IntSize(x) + size)
<1> DEFINE word == x % WordSize
<1>1. x \in Int64
  <2>1. m[field.name] \in FieldType(field)
    BY FieldTyped
  <2> QED BY <2>1 DEF FieldType
<1>2. word \in Word /\ Signed(word, WordBits) = x /\ (word = 0 <=> x = 0)
  BY <1>1, SignedBack DEF Int64
<1> HIDE DEF word
<1>3. FieldZero(field) = 0 /\ FromVarint(field.kind, word) = x /\ field.kind \in Varints
  BY <1>2 DEF FieldZero, FromVarint, Varints
<1>4. size \in Nat
  BY TextTyped DEF Writes
<1>5. Writes(t, m, Mixed(t, m, b), UintField(tag, word, rest), UintSize(word) + size)
  <2>1. CASE word = 0
    <3>1. Mixed(t, m, b) = Mixed(t, m, n)
      BY <1>2, <1>3, <2>1, FieldStep
    <3> QED BY <1>4, <2>1, <3>1 DEF UintField, UintSize
  <2>2. CASE word # 0
    <3>1. Writes(t, m, Mixed(t, m, b), <<tag>> \o encodeVarint(word, rest), (1 + sov(word)) + size)
      BY <1>2, <1>3, VarintWrites
    <3> QED BY <2>2, <3>1 DEF UintField, UintSize
  <2> QED BY <2>1, <2>2
<1> QED BY <1>5 DEF IntField, IntSize, word

LEMMA BoolWrites ==
    ASSUME NEW t \in Type, NEW n \in DOMAIN CasesOf[t], n <= 15, NEW m \in TypeOf[t],
           NEW b, b = n - 1, NEW field, field = CasesOf[t][n], field.kind = "bool",
           NEW tag, tag = 8 * n, NEW x, x = m[field.name],
           NEW rest, NEW size, Writes(t, m, Mixed(t, m, n), rest, size)
    PROVE  Writes(t, m, Mixed(t, m, b), BoolField(tag, x, rest), BoolSize(x) + size)
<1>1. x \in BOOLEAN
  <2>1. m[field.name] \in FieldType(field)
    BY FieldTyped
  <2> QED BY <2>1 DEF FieldType
<1>2. FieldZero(field) = FALSE /\ field.kind \in Varints /\ FromVarint(field.kind, 1) = (1 # 0)
  BY DEF FieldZero, FromVarint, Varints
<1>3. size \in Nat /\ rest \in Text
  BY TextTyped DEF Writes
<1>4. CASE x = FALSE
  <2>1. Mixed(t, m, b) = Mixed(t, m, n)
    <3>1. m[field.name] = FieldZero(field)
      BY <1>2, <1>4
    <3> QED BY <3>1, FieldStep
  <2>2. BoolField(tag, x, rest) = rest /\ BoolSize(x) = 0
    BY <1>4 DEF BoolField, BoolSize
  <2> QED BY <1>3, <2>1, <2>2
<1>5. CASE x = TRUE
  <2>1. 1 \in Word /\ Groups7[1] = <<1>>
    BY OneByte
  <2>2. sov(1) = 1
    <3>1. sov(1) = Len(Groups7[1])
      BY <2>1, SovCounts
    <3> QED BY <2>1, <3>1
  <2>3. encodeVarint(1, rest) = <<1>> \o rest
    BY <1>3, <2>1, VarintWritten
  <2>4. FromVarint(field.kind, 1) = m[field.name]
    <3>1. (1 # 0) = TRUE
      OBVIOUS
    <3>2. FromVarint(field.kind, 1) = TRUE
      BY <1>2, <3>1, Zenon
    <3> QED BY <1>5, <3>2, Zenon
  <2>5. Writes(t, m, Mixed(t, m, b), <<tag>> \o encodeVarint(1, rest), (1 + sov(1)) + size)
    BY <1>2, <2>1, <2>4, VarintWrites
  <2>6. <<tag>> \o encodeVarint(1, rest) = BoolField(tag, x, rest)
    <3>1. tag \in Byte /\ <<tag>> \in Text /\ <<1>> \in Text
      <4>1. n \in 1..15
        <5>1. n \in Nat \ {0}
          BY CaseNumber
        <5> QED BY <5>1
      <4>2. tag \in Byte /\ 1 \in Byte
        BY <4>1 DEF Byte
      <4> QED BY <4>2 DEF Text
    <3>2. <<tag>> \o (<<1>> \o rest) = (<<tag>> \o <<1>>) \o rest
      BY <1>3, <3>1, ConcatAssociative DEF Text
    <3>3. <<tag>> \o <<1>> = <<tag, 1>>
      <4> DEFINE two == <<tag>> \o <<1>>
      <4>1. Len(<<tag>>) = 1 /\ Len(<<1>>) = 1 /\ Len(<<tag, 1>>) = 2
        OBVIOUS
      <4>2. two \in Seq(Byte) /\ Len(two) = 2 /\ two[1] = tag /\ two[2] = 1
        BY <3>1, <4>1, TextJoined DEF Text
      <4>3. <<tag, 1>> \in Seq(Byte)
        BY <3>1 DEF Text
      <4> HIDE DEF two
      <4>4. \A i \in 1..Len(two) : two[i] = <<tag, 1>>[i]
        <5>1. 1..Len(two) = {1, 2} /\ <<tag, 1>>[1] = tag /\ <<tag, 1>>[2] = 1
          BY <4>2
        <5> QED BY <4>2, <5>1
      <4>5. two = <<tag, 1>>
        BY <4>1, <4>2, <4>3, <4>4, SeqEqual
      <4> QED BY <4>5 DEF two
    <3>4. BoolField(tag, x, rest) = <<tag, 1>> \o rest
      BY <1>5 DEF BoolField
    <3> QED BY <2>3, <3>2, <3>3, <3>4
  <2>7. (1 + sov(1)) + size = BoolSize(x) + size
    BY <1>5, <2>2 DEF BoolSize
  <2> QED BY <2>5, <2>6, <2>7
<1> QED BY <1>1, <1>4, <1>5

LEMMA StringWrites ==
    ASSUME NEW t \in Type, NEW n \in DOMAIN CasesOf[t], n <= 15, NEW m \in TypeOf[t],
           NEW b, b = n - 1, NEW field, field = CasesOf[t][n], field.kind = "string",
           NEW tag, tag = 8 * n + 2, NEW x, x = m[field.name],
           NEW rest, NEW size, Writes(t, m, Mixed(t, m, n), rest, size)
    PROVE  Writes(t, m, Mixed(t, m, b), StringField(tag, x, rest), StringSize(x) + size)
<1>1. x \in Text
  <2>1. m[field.name] \in FieldType(field)
    BY FieldTyped
  <2> QED BY <2>1 DEF FieldType
<1>2. FieldZero(field) = << >> /\ field.kind \notin Varints
      /\ NewValues(field, x, Mixed(t, m, b)[field.name]) = {x}
  BY DEF FieldZero, Varints, NewValues
<1>3. size \in Nat
  BY TextTyped DEF Writes
<1>4. CASE x = << >>
  <2>1. Mixed(t, m, b) = Mixed(t, m, n)
    <3>1. m[field.name] = FieldZero(field)
      BY <1>2, <1>4
    <3> QED BY <3>1, FieldStep
  <2> QED BY <1>3, <1>4, <2>1 DEF StringField, StringSize
<1>5. CASE x # << >>
  <2>1. Mixed(t, m, b) \in TypeOf[t] /\ CutOf(t, m, Mixed(t, m, b))
        /\ Mixed(t, m, n) = [Mixed(t, m, b) EXCEPT ![field.name] = x]
    BY FieldStep
  <2>2. field.kind \notin Varints /\ Makes(field, x, Mixed(t, m, b), x, Mixed(t, m, n))
    BY <1>2, <2>1 DEF Makes
  <2>3. Writes(t, m, Mixed(t, m, b), MessageField(tag, x, rest), MessageSize(Len(x)) + size)
    BY <1>1, <2>1, <2>2, BytesWrites
  <2> QED BY <1>5, <2>3 DEF StringField, StringSize
<1> QED BY <1>4, <1>5

\* What is written is what Unmarshal reads.
LEMMA WrittenIsRead ==
    ASSUME NEW t \in Type, NEW m \in TypeOf[t], NEW bytes, NEW size,
           Writes(t, m, ZeroOf[t], bytes, size), size <= MaxInt
    PROVE  /\ bytes \in Buffer /\ Unmarshal(t, bytes) = {m}
           /\ Into(Unmarshalled, t, bytes, ZeroOf[t]) = {m}
<1>1. bytes \in Text /\ Len(bytes) = size /\ Len(bytes) \in Nat
  BY TextTyped DEF Writes
<1>2. bytes \in Buffer
  BY <1>1 DEF Buffer
<1>3. Holds(bytes, 0, bytes)
  BY <1>1 DEF Holds
<1>4. ReadFrom(t, bytes, 0, ZeroOf[t]) = ReadFrom(t, bytes, 0 + Len(bytes), m)
  BY <1>2, <1>3 DEF Writes, Reads
<1>5. 0 + Len(bytes) = Len(bytes) /\ Len(bytes) <= Len(bytes)
  BY <1>1
<1>6. ReadFrom(t, bytes, Len(bytes), m) = {m}
  BY <1>1, <1>2, <1>5, ReadEnd
<1>7. Into(Unmarshalled, t, bytes, ZeroOf[t]) = ReadFrom(t, bytes, 0, ZeroOf[t])
  BY Zenon DEF Into, ReadFrom
<1> QED BY <1>2, <1>4, <1>5, <1>6, <1>7 DEF Unmarshal

LEMMA MessageWrites ==
    ASSUME NEW t \in Type, NEW n \in DOMAIN CasesOf[t], n <= 15, NEW m \in TypeOf[t],
           NEW b, b = n - 1, NEW field, field = CasesOf[t][n], field.kind = "message",
           NEW tag, tag = 8 * n + 2, NEW bytes, NEW length,
           Writes(field.of, m[field.name], ZeroOf[field.of], bytes, length),
           NEW rest, NEW size, Writes(t, m, Mixed(t, m, n), rest, size)
    PROVE  Writes(t, m, Mixed(t, m, b), MessageField(tag, bytes, rest), MessageSize(length) + size)
<1> DEFINE x == m[field.name]
<1>1. field.of \in Type /\ x \in TypeOf[field.of]
  <2>1. m[field.name] \in FieldType(field)
    BY FieldTyped
  <2>2. IsField(field)
    BY Shape
  <2> QED BY <2>1, <2>2 DEF FieldType, IsField, Scalars
<1>2. FieldZero(field) = ZeroOf[field.of] /\ field.kind \notin Varints
  BY DEF FieldZero, Varints
<1>3. bytes \in Text /\ Len(bytes) = length
  BY DEF Writes
<1>4. Mixed(t, m, b) \in TypeOf[t] /\ CutOf(t, m, Mixed(t, m, b))
  BY FieldStep
<1>5. Mixed(t, m, n) = [Mixed(t, m, b) EXCEPT ![field.name] = x]
      /\ Mixed(t, m, b)[field.name] = ZeroOf[field.of]
  BY <1>2, FieldStep
<1>6. ASSUME Len(bytes) <= MaxInt
      PROVE  NewValues(field, bytes, Mixed(t, m, b)[field.name]) = {x}
  <2>1. Into(Unmarshalled, field.of, bytes, ZeroOf[field.of]) = {x}
    BY <1>1, <1>3, <1>6, WrittenIsRead
  <2>2. NewValues(field, bytes, ZeroOf[field.of]) = Into(Unmarshalled, field.of, bytes, ZeroOf[field.of])
    BY DEF NewValues, Embedded
  <2> QED BY <1>5, <2>1, <2>2
<1>7. Writes(t, m, Mixed(t, m, b), MessageField(tag, bytes, rest), MessageSize(Len(bytes)) + size)
  <2> HIDE DEF x
  <2>1. field.kind \notin Varints /\ bytes \in Text
        /\ Makes(field, bytes, Mixed(t, m, b), x, Mixed(t, m, n))
    BY <1>2, <1>3, <1>5, <1>6 DEF Makes
  <2> QED BY <1>4, <2>1, BytesWrites
<1> QED BY <1>3, <1>7

\* A pointer's bytes: those of what it points to.
PointerWritten(of, pointer, bytes, sizes) ==
    \/ pointer = {} /\ bytes = {} /\ sizes = {}
    \/ \E v, s, length :
          pointer = {v} /\ bytes = {s} /\ sizes = {length} /\ Writes(of, v, ZeroOf[of], s, length)

LEMMA PointerWrites ==
    ASSUME NEW t \in Type, NEW n \in DOMAIN CasesOf[t], n <= 15, NEW m \in TypeOf[t],
           NEW b, b = n - 1, NEW field, field = CasesOf[t][n], field.kind = "pointer",
           NEW tag, tag = 8 * n + 2, NEW bytes, NEW sizes,
           PointerWritten(field.of, m[field.name], bytes, sizes),
           NEW rest, NEW size, Writes(t, m, Mixed(t, m, n), rest, size)
    PROVE  Writes(t, m, Mixed(t, m, b), PointerField(tag, bytes, rest), PointerSize(sizes) + size)
<1> DEFINE x == m[field.name]
<1>1. field.of \in Type /\ x \in Pointer(TypeOf[field.of])
  <2>1. m[field.name] \in FieldType(field)
    BY FieldTyped
  <2>2. IsField(field)
    BY Shape
  <2> QED BY <2>1, <2>2 DEF FieldType, IsField, Scalars
<1>2. FieldZero(field) = {} /\ field.kind \notin Varints
  BY DEF FieldZero, Varints
<1>3. size \in Nat
  BY TextTyped DEF Writes
<1>4. /\ Mixed(t, m, b) \in TypeOf[t] /\ CutOf(t, m, Mixed(t, m, b))
      /\ Mixed(t, m, n) = [Mixed(t, m, b) EXCEPT ![field.name] = x]
      /\ Mixed(t, m, b)[field.name] = {}
  BY <1>2, FieldStep
<1>5. CASE x = {} /\ bytes = {} /\ sizes = {}
  <2>1. Mixed(t, m, b) = Mixed(t, m, n)
    <3>1. m[field.name] = FieldZero(field)
      BY <1>2, <1>5
    <3> QED BY <3>1, FieldStep
  <2> QED BY <1>3, <1>5, <2>1 DEF PointerField, PointerSize
<1>6. ASSUME NEW v, NEW s, NEW length, x = {v}, bytes = {s}, sizes = {length},
             Writes(field.of, v, ZeroOf[field.of], s, length)
      PROVE  Writes(t, m, Mixed(t, m, b), PointerField(tag, bytes, rest), PointerSize(sizes) + size)
  <2>1. v \in TypeOf[field.of]
    BY <1>1, <1>6, PointerTyped
  <2>2. s \in Text /\ Len(s) = length
    BY <1>6 DEF Writes
  <2>3. ASSUME Len(s) <= MaxInt PROVE NewValues(field, s, Mixed(t, m, b)[field.name]) = {x}
    <3>1. Into(Unmarshalled, field.of, s, ZeroOf[field.of]) = {v}
      BY <1>1, <1>6, <2>1, <2>2, <2>3, WrittenIsRead
    <3>2. NewValues(field, s, {}) = {{e} : e \in Into(Unmarshalled, field.of, s, ZeroOf[field.of])}
      BY DEF NewValues, Embedded
    <3>3. NewValues(field, s, {}) = {{v}}
      BY <3>1, <3>2
    <3> HIDE DEF x
    <3> QED BY <1>4, <1>6, <3>3
  <2>4. Makes(field, s, Mixed(t, m, b), x, Mixed(t, m, n))
    BY <1>4, <2>3 DEF Makes
  <2>5. Writes(t, m, Mixed(t, m, b), MessageField(tag, s, rest), MessageSize(Len(s)) + size)
    <3> HIDE DEF x
    <3> QED BY <1>2, <1>4, <2>2, <2>4, BytesWrites
  <2>6. The({s}) = s /\ The({length}) = length
    BY DEF The
  <2>7. PointerField(tag, bytes, rest) = MessageField(tag, s, rest)
        /\ PointerSize(sizes) = MessageSize(length)
    BY <1>6, <2>6 DEF PointerField, PointerSize
  <2> QED BY <2>2, <2>5, <2>7
<1>7. \/ x = {} /\ bytes = {} /\ sizes = {}
      \/ \E v, s, length :
            x = {v} /\ bytes = {s} /\ sizes = {length} /\ Writes(field.of, v, ZeroOf[field.of], s, length)
  BY Zenon DEF PointerWritten
<1> HIDE DEF x
<1> QED BY <1>5, <1>6, <1>7 DEF x

\* Going through a list from its end.
FoldsFromEnd(N, T, last, F) ==
    \E f \in [1..N + 1 -> T] : f = [i \in 1..N + 1 |-> IF i > N THEN last ELSE F[i][f[i + 1]]]

LEMMA Folding ==
    ASSUME NEW N \in Nat, NEW T, NEW last \in T, NEW F \in [1..N -> [T -> T]]
    PROVE  FoldsFromEnd(N, T, last, F)
<1> DEFINE S == 1..N + 1
           Value(f, i) == IF i > N THEN last ELSE F[i][f[i + 1]]
           size == [i \in S |-> (N + 1) - i]
           Step == [f \in [S -> T] |-> [i \in S |-> Value(f, i)]]
<1>1. size \in [S -> Nat] /\ T # {}
  OBVIOUS
<1>2. \A i \in S : ~(i > N) => i \in 1..N /\ i + 1 \in S /\ size[i + 1] < size[i]
  OBVIOUS
<1>3. ASSUME NEW f \in [S -> T], NEW i \in S PROVE Value(f, i) \in T
  <2>1. CASE i > N
    BY <2>1
  <2>2. CASE ~(i > N)
    <3>1. i \in 1..N /\ i + 1 \in S
      BY <1>2, <2>2
    <3>2. f[i + 1] \in T /\ F[i] \in [T -> T]
      BY <3>1
    <3> QED BY <2>2, <3>2
  <2> QED BY <2>1, <2>2
<1>4. Step \in [[S -> T] -> [S -> T]]
  <2> HIDE DEF Value, S
  <2> QED BY <1>3
<1>5. ASSUME NEW f \in [S -> T], NEW g \in [S -> T], NEW i \in S,
             \A j \in S : size[j] < size[i] => f[j] = g[j]
      PROVE  Step[f][i] = Step[g][i]
  <2>1. CASE i > N
    BY <2>1
  <2>2. CASE ~(i > N)
    <3>1. f[i + 1] = g[i + 1]
      BY <1>2, <1>5, <2>2
    <3> QED BY <2>2, <3>1
  <2> QED BY <2>1, <2>2
<1>6. Defines(S, size, T, Step)
  <2> HIDE DEF Step, size, S
  <2> QED BY <1>1, <1>4, <1>5 DEF Defines
<1>7. \E f \in [S -> T] : f = Step[f]
  <2> HIDE DEF Step, size, S
  <2> QED BY <1>6, RecursionInto
<1> HIDE DEF Value, S
<1>8. \E f \in [S -> T] : f = [i \in S |-> Value(f, i)]
  BY <1>7
<1> QED BY <1>8 DEF Value, S, FoldsFromEnd

LEMMA EachFieldIs ==
    ASSUME NEW tag \in Byte, NEW list \in Seq(Text), NEW rest \in Text
    PROVE  \E f : /\ EachField(tag, list, rest) = f[1]
                  /\ f[Len(list) + 1] = rest
                  /\ \A i \in 1..Len(list) : f[i] = MessageField(tag, list[i], f[i + 1])
<1> DEFINE N == Len(list)
           S == 1..N + 1
           Value(f, i) == IF i > N THEN rest ELSE MessageField(tag, list[i], f[i + 1])
           F == [i \in 1..N |-> [r \in Text |-> MessageField(tag, list[i], r)]]
           from == CHOOSE f : f = [i \in S |-> Value(f, i)]
<1>1. N \in Nat
  OBVIOUS
<1>2. ASSUME NEW i \in 1..N, NEW r \in Text PROVE MessageField(tag, list[i], r) \in Text
  <2>1. list[i] \in Text
    BY ElementOfSeq
  <2>2. Len(list[i]) \in Nat /\ list[i] \o r \in Text /\ <<tag>> \in Text
    BY <2>1, TextTyped, TextJoined DEF Text
  <2>3. encodeVarint(Len(list[i]), list[i] \o r) \in Text
    BY <2>2, VarintTyped
  <2> QED BY <2>2, <2>3, TextJoined DEF MessageField
<1>3. F \in [1..N -> [Text -> Text]]
  BY <1>2
<1>4. \E f \in [S -> Text] : f = [i \in S |-> IF i > N THEN rest ELSE F[i][f[i + 1]]]
  <2> HIDE DEF N, F
  <2>1. FoldsFromEnd(N, Text, rest, F)
    BY <1>1, <1>3, Folding
  <2> QED BY <2>1, Zenon DEF FoldsFromEnd
<1>5. ASSUME NEW f \in [S -> Text], NEW i \in S
      PROVE  (IF i > N THEN rest ELSE F[i][f[i + 1]]) = Value(f, i)
  <2>1. CASE i > N
    BY <2>1
  <2>2. CASE ~(i > N)
    <3>1. i \in 1..N /\ i + 1 \in S
      BY <1>1, <2>2
    <3>2. f[i + 1] \in Text
      BY <3>1
    <3> QED BY <2>2, <3>1, <3>2
  <2> QED BY <2>1, <2>2
<1>6. \E f : f = [i \in S |-> Value(f, i)]
  <2>1. PICK f \in [S -> Text] : f = [i \in S |-> IF i > N THEN rest ELSE F[i][f[i + 1]]]
    BY <1>4
  <2>2. [i \in S |-> IF i > N THEN rest ELSE F[i][f[i + 1]]] = [i \in S |-> Value(f, i)]
    <3> HIDE DEF S, F, N, Value
    <3> QED BY <1>5
  <2> HIDE DEF S, F, N, Value
  <2> QED BY <2>1, <2>2
<1>7. from = [i \in S |-> Value(from, i)]
  <2> HIDE DEF S, Value
  <2> QED BY <1>6
<1>8. EachField(tag, list, rest) = from[1]
  BY Zenon DEF EachField
<1>9. N + 1 \in S /\ N + 1 > N /\ \A i \in 1..N : i \in S /\ ~(i > N)
  BY <1>1
<1> HIDE DEF from, S
<1>10. from[N + 1] = rest /\ \A i \in 1..N : from[i] = MessageField(tag, list[i], from[i + 1])
  <2> HIDE DEF N
  <2> QED BY <1>7, <1>9
<1> QED BY <1>8, <1>10

LEMMA EachSizeIs ==
    ASSUME NEW sizes \in Seq(Nat)
    PROVE  \E f : /\ EachSize(sizes) = f[1] /\ f[Len(sizes) + 1] = 0
                  /\ \A i \in 1..Len(sizes) : f[i] = MessageSize(sizes[i]) + f[i + 1]
<1> DEFINE N == Len(sizes)
           S == 1..N + 1
           Value(f, i) == IF i > N THEN 0 ELSE MessageSize(sizes[i]) + f[i + 1]
           F == [i \in 1..N |-> [r \in Nat |-> MessageSize(sizes[i]) + r]]
           from == CHOOSE f : f = [i \in S |-> Value(f, i)]
<1>1. N \in Nat
  OBVIOUS
<1>2. ASSUME NEW i \in 1..N, NEW r \in Nat PROVE MessageSize(sizes[i]) + r \in Nat
  <2>1. sizes[i] \in Nat
    BY ElementOfSeq
  <2>2. sov(sizes[i]) \in Nat
    BY <2>1, VarintTyped, Zeros
  <2> QED BY <2>1, <2>2 DEF MessageSize
<1>3. F \in [1..N -> [Nat -> Nat]]
  BY <1>2
<1>4. \E f \in [S -> Nat] : f = [i \in S |-> IF i > N THEN 0 ELSE F[i][f[i + 1]]]
  <2> HIDE DEF N, F
  <2>1. FoldsFromEnd(N, Nat, 0, F)
    BY <1>1, <1>3, Folding
  <2> QED BY <2>1, Zenon DEF FoldsFromEnd
<1>5. ASSUME NEW f \in [S -> Nat], NEW i \in S
      PROVE  (IF i > N THEN 0 ELSE F[i][f[i + 1]]) = Value(f, i)
  <2>1. CASE i > N
    BY <2>1
  <2>2. CASE ~(i > N)
    <3>1. i \in 1..N /\ i + 1 \in S
      BY <1>1, <2>2
    <3>2. f[i + 1] \in Nat
      BY <3>1
    <3> QED BY <2>2, <3>1, <3>2
  <2> QED BY <2>1, <2>2
<1>6. \E f : f = [i \in S |-> Value(f, i)]
  <2>1. PICK f \in [S -> Nat] : f = [i \in S |-> IF i > N THEN 0 ELSE F[i][f[i + 1]]]
    BY <1>4
  <2>2. [i \in S |-> IF i > N THEN 0 ELSE F[i][f[i + 1]]] = [i \in S |-> Value(f, i)]
    <3> HIDE DEF S, F, N, Value
    <3> QED BY <1>5
  <2> HIDE DEF S, F, N, Value
  <2> QED BY <2>1, <2>2
<1>7. from = [i \in S |-> Value(from, i)]
  <2> HIDE DEF S, Value
  <2> QED BY <1>6
<1>8. EachSize(sizes) = from[1]
  BY Zenon DEF EachSize
<1>9. N + 1 \in S /\ N + 1 > N /\ \A i \in 1..N : i \in S /\ ~(i > N)
  BY <1>1
<1> HIDE DEF from, S
<1>10. from[N + 1] = 0 /\ \A i \in 1..N : from[i] = MessageSize(sizes[i]) + from[i + 1]
  <2> HIDE DEF N
  <2> QED BY <1>7, <1>9
<1> QED BY <1>8, <1>10

\* The first elements of a list.
LEMMA FirstOnes ==
    ASSUME NEW T, NEW list \in Seq(T), NEW k \in 0..Len(list)
    PROVE  LET first == SubSeq(list, 1, k)
           IN  /\ first \in Seq(T) /\ Len(first) = k /\ IsPrefix(first, list)
               /\ \A i \in 1..k : first[i] = list[i]
               /\ k = 0 => first = << >>
               /\ k = Len(list) => first = list
               /\ k < Len(list) => Append(first, list[k + 1]) = SubSeq(list, 1, k + 1)
<1> DEFINE first == SubSeq(list, 1, k)
<1>1. Len(list) \in Nat /\ k \in Nat /\ k <= Len(list)
  OBVIOUS
<1>2. \A i \in 1..k : list[i] \in T
  <2> SUFFICES ASSUME NEW i \in 1..k PROVE list[i] \in T
    OBVIOUS
  <2>1. i \in 1..Len(list)
    BY <1>1
  <2> QED BY <2>1, ElementOfSeq
<1>3. /\ first \in Seq(T) /\ Len(first) = IF 1 <= k THEN k - 1 + 1 ELSE 0
      /\ \A i \in 1..k - 1 + 1 : first[i] = list[1 + i - 1]
  BY <1>1, <1>2, SubSeqProperties
<1>4. Len(first) = k /\ \A i \in 1..k : first[i] = list[i]
  <2>1. k - 1 + 1 = k /\ \A i \in 1..k : 1 + i - 1 = i
    BY <1>1
  <2> HIDE DEF first
  <2> QED BY <1>1, <1>3, <2>1
<1>5. SubSeq(first, 1, Len(first)) = first
  <2> HIDE DEF first
  <2> QED BY <1>3, SubSeqFull
<1>6. IsPrefix(first, list)
  BY <1>1, <1>4, <1>5 DEF IsPrefix
<1>7. k = 0 => first = << >>
  BY SubSeqEmpty
<1>8. k = Len(list) => first = list
  BY SubSeqFull
<1>9. ASSUME k < Len(list) PROVE Append(first, list[k + 1]) = SubSeq(list, 1, k + 1)
  <2>1. 1 \in 1..Len(list) /\ k + 1 \in 1..Len(list) /\ k + 1 - 1 = k
    BY <1>1, <1>9
  <2>2. SubSeq(list, 1, k + 1) = SubSeq(list, 1, k + 1 - 1) \o <<list[k + 1]>>
    BY <2>1, SubSeqRecursiveSecond
  <2>3. list[k + 1] \in T
    BY <2>1, ElementOfSeq
  <2>4. Append(first, list[k + 1]) = first \o <<list[k + 1]>>
    <3> HIDE DEF first
    <3> QED BY <1>3, <2>3, AppendIsConcat
  <2> QED BY <2>1, <2>2, <2>4
<1> HIDE DEF first
<1> QED BY <1>3, <1>4, <1>6, <1>7, <1>8, <1>9 DEF first

\* A list's bytes: those of its elements.
ListWritten(of, list, bytes, sizes) ==
    /\ Len(bytes) = Len(list) /\ Len(sizes) = Len(list)
    /\ bytes \in Seq(Text) /\ sizes \in Seq(Nat)
    /\ \A i \in 1..Len(list) : Writes(of, list[i], ZeroOf[of], bytes[i], sizes[i])

IsSet(set, m, name, v) == set = [m EXCEPT ![name] = v]
SetIn(t, n, m, v, set) ==
    /\ set \in TypeOf[t] /\ set[CasesOf[t][n].name] = v
    /\ \A k \in DOMAIN CasesOf[t] : k # n => set[CasesOf[t][k].name] = m[CasesOf[t][k].name]

LEMMA SetField ==
    ASSUME NEW t \in Type, NEW m \in TypeOf[t], NEW n \in DOMAIN CasesOf[t],
           NEW v \in FieldType(CasesOf[t][n])
    PROVE  \A set : IsSet(set, m, CasesOf[t][n].name, v) => SetIn(t, n, m, v, set)
<1> SUFFICES ASSUME NEW set, IsSet(set, m, CasesOf[t][n].name, v) PROVE SetIn(t, n, m, v, set)
  OBVIOUS
<1> DEFINE name == CasesOf[t][n].name
           other == [m EXCEPT ![name] = v]
<1>1. /\ other \in TypeOf[t] /\ other[name] = v
      /\ \A k \in DOMAIN CasesOf[t] : k # n => other[CasesOf[t][k].name] = m[CasesOf[t][k].name]
  BY FieldSet
<1>2. set = other
  BY DEF IsSet
<1> HIDE DEF other
<1> QED BY <1>1, <1>2 DEF SetIn

\* One element more.
\* The element after the first k of a list, and what is written of it and after it.
ElementOf(field, list, before, k, up, next, s, length) ==
    /\ k \in Nat /\ k < Len(list)
    /\ IsSet(up, before, field.name, SubSeq(list, 1, k))
    /\ IsSet(next, before, field.name, SubSeq(list, 1, k + 1))
    /\ Writes(field.of, list[k + 1], ZeroOf[field.of], s, length)
\* The list of a message, and what has been read of the message before it.
ListOf(t, n, m, field, tag, list, before) ==
    /\ t \in Type /\ n \in DOMAIN CasesOf[t] /\ n <= 15 /\ m \in TypeOf[t]
    /\ field = CasesOf[t][n] /\ field.kind = "repeated"
    /\ tag = 8 * n + 2 /\ list = m[field.name]
    /\ before \in TypeOf[t] /\ CutOf(t, m, before)
LEMMA ElementWrites ==
    ASSUME NEW t, NEW n, NEW m, NEW field, NEW tag, NEW list, NEW before,
           ListOf(t, n, m, field, tag, list, before),
           NEW k, NEW up, NEW next, NEW s, NEW length,
           ElementOf(field, list, before, k, up, next, s, length),
           NEW rest, NEW size, Writes(t, m, next, rest, size)
    PROVE  Writes(t, m, up, MessageField(tag, s, rest), MessageSize(length) + size)
<1> /\ t \in Type /\ n \in DOMAIN CasesOf[t] /\ n <= 15 /\ m \in TypeOf[t]
    /\ field = CasesOf[t][n] /\ field.kind = "repeated"
    /\ tag = 8 * n + 2 /\ list = m[field.name]
    /\ before \in TypeOf[t] /\ CutOf(t, m, before)
  BY DEF ListOf
<1> /\ k \in Nat /\ k < Len(list)
    /\ IsSet(up, before, field.name, SubSeq(list, 1, k))
    /\ IsSet(next, before, field.name, SubSeq(list, 1, k + 1))
    /\ Writes(field.of, list[k + 1], ZeroOf[field.of], s, length)
  BY DEF ElementOf
<1> DEFINE old == SubSeq(list, 1, k)
           v == SubSeq(list, 1, k + 1)
<1>0. field.of \in Type /\ list \in Seq(TypeOf[field.of]) /\ Len(list) \in Nat
  <2>1. m[field.name] \in FieldType(field)
    BY FieldTyped
  <2>2. IsField(field)
    BY Shape
  <2> QED BY <2>1, <2>2 DEF FieldType, IsField, Scalars
<1>1. up \in TypeOf[t] /\ CutOf(t, m, up) /\ up[field.name] = old
  <2>1. k \in 0..Len(list)
    BY <1>0
  <2>2. old \in Seq(TypeOf[field.of]) /\ IsPrefix(old, list)
    BY <1>0, <2>1, FirstOnes
  <2> HIDE DEF old
  <2>3. old \in FieldType(CasesOf[t][n])
    BY <2>2 DEF FieldType
  <2>4. IsSet(up, before, CasesOf[t][n].name, old)
    BY DEF old
  <2>5. /\ up \in TypeOf[t] /\ up[field.name] = old
        /\ \A l \in DOMAIN CasesOf[t] : l # n => up[CasesOf[t][l].name] = before[CasesOf[t][l].name]
    <3>1. SetIn(t, n, before, old, up)
      BY <2>3, <2>4, SetField
    <3> QED BY <3>1 DEF SetIn
  <2>6. ASSUME NEW l \in DOMAIN CasesOf[t]
        PROVE  LET f == CasesOf[t][l]
               IN  \/ up[f.name] = m[f.name] \/ up[f.name] = ZeroOf[t][f.name]
                   \/ f.kind = "repeated" /\ IsPrefix(up[f.name], m[f.name])
    <3>1. CASE l = n
      BY <2>2, <2>5, <3>1
    <3>2. CASE l # n
      BY <2>5, <3>2 DEF CutOf
    <3> QED BY <3>1, <3>2
  <2>7. CutOf(t, m, up)
    BY <2>6 DEF CutOf
  <2> QED BY <2>5, <2>7
<1>2. k + 1 \in 1..Len(list) /\ k \in 0..Len(list)
  BY <1>0
<1>3. list[k + 1] \in TypeOf[field.of]
  BY <1>0, <1>2, ElementOfSeq
<1>4. s \in Text /\ Len(s) = length
  BY DEF Writes
<1>5. Append(old, list[k + 1]) = v
  <2>1. list \in Seq(TypeOf[field.of]) /\ k \in 0..Len(list) /\ k < Len(list)
    BY <1>0, <1>2
  <2> QED BY ONLY <2>1, FirstOnes
<1> HIDE DEF old, v
<1>6. ASSUME Len(s) <= MaxInt PROVE NewValues(field, s, old) = {v}
  <2>1. Into(Unmarshalled, field.of, s, ZeroOf[field.of]) = {list[k + 1]}
    BY <1>0, <1>3, <1>4, <1>6, WrittenIsRead, ZenonT(60)
  <2>2. NewValues(field, s, old) = {Append(old, e) : e \in Into(Unmarshalled, field.of, s, ZeroOf[field.of])}
    BY DEF NewValues, Embedded
  <2>3. NewValues(field, s, old) = {Append(old, list[k + 1])}
    BY <2>1, <2>2
  <2> QED BY <1>5, <2>3
<1>7. next = [up EXCEPT ![field.name] = v]
  <2>1. up = [before EXCEPT ![field.name] = old] /\ next = [before EXCEPT ![field.name] = v]
    BY DEF old, v, IsSet
  <2> QED BY <2>1
<1>8. Makes(field, s, up, v, next)
  BY <1>1, <1>6, <1>7 DEF Makes
<1>9. field.kind \notin Varints
  BY DEF Varints
<1>10. Writes(t, m, up, MessageField(tag, s, rest), MessageSize(Len(s)) + size)
  BY <1>1, <1>4, <1>8, <1>9, BytesWrites
<1> QED BY <1>4, <1>10

LEMMA Backwards ==
    ASSUME NEW N \in Nat, NEW T, N + 1 \in T, \A i \in 1..N : i + 1 \in T => i \in T
    PROVE  1 \in T
<1> DEFINE Good == {k \in Nat : k <= N => N + 1 - k \in T}
<1>1. 0 \in Good
  <2>1. N + 1 - 0 = N + 1
    OBVIOUS
  <2> QED BY <2>1
<1>2. ASSUME NEW k \in Nat, k \in Good PROVE k + 1 \in Good
  <2>1. ASSUME k + 1 <= N PROVE N + 1 - (k + 1) \in T
    <3>1. k <= N /\ N - k \in 1..N /\ N + 1 - k = (N - k) + 1 /\ N + 1 - (k + 1) = N - k
      BY <2>1
    <3>2. (N - k) + 1 \in T
      BY <1>2, <3>1
    <3> QED BY <3>1, <3>2
  <2> QED BY <2>1
<1>3. Nat \subseteq Good
  <2> HIDE DEF Good
  <2> QED BY <1>1, <1>2, Counting
<1>4. N \in Good
  BY <1>3
<1>5. N <= N /\ N + 1 - N = 1
  OBVIOUS
<1> QED BY <1>4, <1>5

LEMMA EachWrites ==
    ASSUME NEW t \in Type, NEW n \in DOMAIN CasesOf[t], n <= 15, NEW m \in TypeOf[t],
           NEW b, b = n - 1, NEW field, field = CasesOf[t][n], field.kind = "repeated",
           NEW tag, tag = 8 * n + 2, NEW list, list = m[field.name], NEW bytes, NEW sizes,
           ListWritten(field.of, list, bytes, sizes),
           NEW rest, NEW size, Writes(t, m, Mixed(t, m, n), rest, size)
    PROVE  Writes(t, m, Mixed(t, m, b), EachField(tag, bytes, rest), EachSize(sizes) + size)
<1> DEFINE before == Mixed(t, m, b)
           N == Len(list)
           Up(k) == [before EXCEPT ![field.name] = SubSeq(list, 1, k)]
<1>1. list \in Seq(TypeOf[field.of]) /\ N \in Nat
  <2>1. m[field.name] \in FieldType(field)
    BY FieldTyped
  <2> QED BY <2>1 DEF FieldType
<1>2. FieldZero(field) = << >>
  BY DEF FieldZero
<1>3. size \in Nat /\ rest \in Text
  BY TextTyped DEF Writes
<1>4. tag \in Byte
  <2>1. n \in 1..15
    <3>1. n \in Nat \ {0}
      BY CaseNumber
    <3> QED BY <3>1
  <2> QED BY <2>1 DEF Byte
<1>5. /\ before \in TypeOf[t] /\ CutOf(t, m, before)
      /\ Mixed(t, m, n) = [before EXCEPT ![field.name] = list]
      /\ before[field.name] = << >>
  BY <1>2, FieldStep
<1>6. /\ Len(bytes) = N /\ Len(sizes) = N /\ bytes \in Seq(Text) /\ sizes \in Seq(Nat)
      /\ \A i \in 1..N : Writes(field.of, list[i], ZeroOf[field.of], bytes[i], sizes[i])
  BY DEF ListWritten
<1> HIDE DEF before, N
<1>7. PICK from : /\ EachField(tag, bytes, rest) = from[1] /\ from[N + 1] = rest
                  /\ \A i \in 1..N : from[i] = MessageField(tag, bytes[i], from[i + 1])
  <2>1. \E f : /\ EachField(tag, bytes, rest) = f[1] /\ f[Len(bytes) + 1] = rest
               /\ \A i \in 1..Len(bytes) : f[i] = MessageField(tag, bytes[i], f[i + 1])
    BY <1>3, <1>4, <1>6, EachFieldIs, SMTT(60)
  <2> QED BY <1>6, <2>1
<1>8. PICK long : /\ EachSize(sizes) = long[1] /\ long[N + 1] = 0
                  /\ \A i \in 1..N : long[i] = MessageSize(sizes[i]) + long[i + 1]
  <2>1. \E f : /\ EachSize(sizes) = f[1] /\ f[Len(sizes) + 1] = 0
               /\ \A i \in 1..Len(sizes) : f[i] = MessageSize(sizes[i]) + f[i + 1]
    BY <1>6, EachSizeIs
  <2> QED BY <1>6, <2>1
<1> DEFINE Good == {i \in 1..N + 1 : long[i] \in Int /\ Writes(t, m, Up(i - 1), from[i], long[i] + size)}
<1>9. N + 1 \in Good
  <2>1. N + 1 \in 1..N + 1 /\ (N + 1) - 1 = N
    BY <1>1
  <2>2. SubSeq(list, 1, N) = list
    BY <1>1, SubSeqFull DEF N
  <2>3. Up(N) = Mixed(t, m, n)
    BY <1>5, <2>2
  <2>4. long[N + 1] + size = size /\ from[N + 1] = rest /\ long[N + 1] \in Int
    BY <1>3, <1>7, <1>8
  <2> HIDE DEF Up
  <2> QED BY <2>1, <2>3, <2>4
<1>10. ASSUME NEW i \in 1..N, i + 1 \in Good PROVE i \in Good
  <2>1. i \in 1..N + 1 /\ (i + 1) - 1 = i /\ i - 1 \in Nat /\ i - 1 < N /\ (i - 1) + 1 = i
    BY <1>1
  <2>2. Writes(t, m, Up(i), from[i + 1], long[i + 1] + size) /\ long[i + 1] \in Int
    <3> HIDE DEF Up
    <3> QED BY <1>10, <2>1
  <2>3. Writes(field.of, list[i], ZeroOf[field.of], bytes[i], sizes[i])
    BY <1>6
  <2> DEFINE k == i - 1
             up == Up(k)
             next == Up(i)
  <2>4. k \in Nat /\ k < Len(list) /\ k + 1 = i
    BY <2>1 DEF N
  <2>5. IsSet(up, before, field.name, SubSeq(list, 1, k))
        /\ IsSet(next, before, field.name, SubSeq(list, 1, k + 1))
    BY <2>4 DEF IsSet
  <2>6. Writes(field.of, list[k + 1], ZeroOf[field.of], bytes[i], sizes[i])
        /\ Writes(t, m, next, from[i + 1], long[i + 1] + size)
    BY <2>2, <2>3, <2>4
  <2> HIDE DEF up, next, k
  <2>7. Writes(t, m, up, MessageField(tag, bytes[i], from[i + 1]), MessageSize(sizes[i]) + (long[i + 1] + size))
    <3> DEFINE s == bytes[i]
               length == sizes[i]
               after == from[i + 1]
               sizeAfter == long[i + 1] + size
    <3>1. /\ Writes(field.of, list[k + 1], ZeroOf[field.of], s, length)
          /\ Writes(t, m, next, after, sizeAfter)
      BY <2>6
    <3> HIDE DEF s, length, after, sizeAfter
    <3>2. ElementOf(field, list, before, k, up, next, s, length)
      BY ONLY <2>4, <2>5, <3>1 DEF ElementOf
    <3>3. ListOf(t, n, m, field, tag, list, before)
      BY <1>5 DEF ListOf
    <3>4. Writes(t, m, up, MessageField(tag, s, after), MessageSize(length) + sizeAfter)
      BY ONLY <3>1, <3>2, <3>3, ElementWrites
    <3> QED BY <3>4 DEF s, length, after, sizeAfter
  <2>8. from[i] = MessageField(tag, bytes[i], from[i + 1]) /\ long[i] = MessageSize(sizes[i]) + long[i + 1]
    BY <1>7, <1>8
  <2>9. MessageSize(sizes[i]) \in Int
    <3>1. sizes[i] \in Nat
      BY <1>6, ElementOfSeq
    <3>2. sov(sizes[i]) \in Nat
      BY <3>1, VarintTyped, Zeros
    <3> QED BY <3>1, <3>2 DEF MessageSize
  <2>10. MessageSize(sizes[i]) + (long[i + 1] + size) = long[i] + size /\ long[i] \in Int
    BY <1>3, <2>2, <2>8, <2>9
  <2>11. Writes(t, m, Up(i - 1), from[i], long[i] + size)
    BY <2>7, <2>8, <2>10 DEF up, k
  <2> HIDE DEF Up
  <2> QED BY <2>1, <2>10, <2>11
<1>11. 1 \in Good
  <2> HIDE DEF Good
  <2> QED BY <1>1, <1>9, <1>10, Backwards
<1>12. Writes(t, m, Up(0), from[1], long[1] + size)
  <2>1. 1 - 1 = 0
    OBVIOUS
  <2> HIDE DEF Up
  <2> QED BY <1>11, <2>1
<1>13. Up(0) = before
  <2>1. SubSeq(list, 1, 0) = << >>
    BY SubSeqEmpty
  <2>2. before = [x \in Names(CasesOf[t]) |-> before[x]]
    BY <1>5, FieldTyped
  <2> QED BY <1>5, <2>1, <2>2
<1> QED BY <1>7, <1>8, <1>12, <1>13 DEF before

LEMMA WritesTyped ==
    ASSUME NEW t, NEW m, NEW start, NEW bytes, NEW size, Writes(t, m, start, bytes, size)
    PROVE  bytes \in Text /\ size \in Nat /\ Len(bytes) = size
  BY TextTyped DEF Writes

\* Sizes are numbers.
LEMMA SizesTyped ==
    /\ \A x \in Word : UintSize(x) \in Nat
    /\ \A x \in Int64 : IntSize(x) \in Nat
    /\ \A x \in BOOLEAN : BoolSize(x) \in Nat
    /\ \A x \in Text : StringSize(x) \in Nat
    /\ \A t, m, bytes, size : Writes(t, m, ZeroOf[t], bytes, size) => MessageSize(size) \in Nat
    /\ \A t, pointer, bytes, sizes :
          PointerWritten(t, pointer, bytes, sizes) => PointerSize(sizes) \in Nat
    /\ \A t, list, bytes, sizes : ListWritten(t, list, bytes, sizes) => EachSize(sizes) \in Nat
<1>1. \A n \in Nat : sov(n) \in Nat /\ MessageSize(n) \in Nat
  <2>1. \A n \in Nat : sov(n) \in Nat
    BY VarintTyped, Zeros
  <2> QED BY <2>1 DEF MessageSize
<1>2. \A x \in Word : UintSize(x) \in Nat
  BY <1>1, WordTyped DEF UintSize
<1>3. \A x \in Int64 : IntSize(x) \in Nat
  <2>1. \A x \in Int64 : x % WordSize \in Word
    BY SignedBack DEF Int64
  <2> QED BY <1>2, <2>1 DEF IntSize
<1>4. \A x \in BOOLEAN : BoolSize(x) \in Nat
  BY DEF BoolSize
<1>5. \A x \in Text : StringSize(x) \in Nat
  BY <1>1, TextTyped DEF StringSize
<1>6. \A t, m, bytes, size : Writes(t, m, ZeroOf[t], bytes, size) => MessageSize(size) \in Nat
  BY <1>1, WritesTyped
<1>7. ASSUME NEW t, NEW pointer, NEW bytes, NEW sizes, PointerWritten(t, pointer, bytes, sizes)
      PROVE  PointerSize(sizes) \in Nat
  <2>1. CASE sizes = {}
    BY <2>1 DEF PointerSize
  <2>2. ASSUME NEW v, NEW s, NEW length, sizes = {length}, Writes(t, v, ZeroOf[t], s, length)
        PROVE  PointerSize(sizes) \in Nat
    <3>1. The({length}) = length /\ MessageSize(length) \in Nat
      BY <1>6, <2>2 DEF The
    <3> QED BY <2>2, <3>1 DEF PointerSize
  <2> QED BY <1>7, <2>1, <2>2 DEF PointerWritten
<1>8. ASSUME NEW t, NEW list, NEW bytes, NEW sizes, ListWritten(t, list, bytes, sizes)
      PROVE  EachSize(sizes) \in Nat
  <2>1. sizes \in Seq(Nat) /\ Len(sizes) \in Nat
    BY <1>8 DEF ListWritten
  <2>2. PICK f : /\ EachSize(sizes) = f[1] /\ f[Len(sizes) + 1] = 0
                 /\ \A i \in 1..Len(sizes) : f[i] = MessageSize(sizes[i]) + f[i + 1]
    BY <2>1, EachSizeIs
  <2> DEFINE T == {i \in Nat : f[i] \in Nat}
  <2>3. Len(sizes) + 1 \in T
    BY <2>1, <2>2
  <2>4. ASSUME NEW i \in 1..Len(sizes), i + 1 \in T PROVE i \in T
    <3>1. sizes[i] \in Nat /\ f[i + 1] \in Nat
      BY <2>1, <2>4
    <3>2. MessageSize(sizes[i]) \in Nat
      BY <1>1, <3>1
    <3> QED BY <2>2, <3>1, <3>2
  <2>5. 1 \in T
    <3> HIDE DEF T
    <3> QED BY <2>1, <2>3, <2>4, Backwards
  <2> QED BY <2>2, <2>5
<1> QED BY <1>2, <1>3, <1>4, <1>5, <1>6, <1>7, <1>8

\* A field of a message: its number, the one before, its tag, what it holds.
FieldAt(t, n, b, tag, kind, name, of) ==
    /\ n \in DOMAIN CasesOf[t] /\ n <= 15 /\ b = n - 1
    /\ tag = IF kind \in Varints THEN 8 * n ELSE 8 * n + 2
    /\ CasesOf[t][n].kind = kind /\ CasesOf[t][n].name = name /\ CasesOf[t][n].of = of

Lengths == {"string", "message", "repeated", "pointer"}

\* Where a field stands in the list of them.
LEMMA VarintAt ==
    ASSUME NEW t, NEW cases, CasesOf[t] = cases, NEW n \in DOMAIN cases, n <= 15, NEW b, b = n - 1,
           NEW tag, tag = 8 * n, NEW kind \in Varints, NEW name, NEW of,
           cases[n] = [kind |-> kind, name |-> name, of |-> of]
    PROVE  FieldAt(t, n, b, tag, kind, name, of)
  BY DEF FieldAt, Varints

LEMMA BytesAt ==
    ASSUME NEW t, NEW cases, CasesOf[t] = cases, NEW n \in DOMAIN cases, n <= 15, NEW b, b = n - 1,
           NEW tag, tag = 8 * n + 2,
           NEW kind \in Lengths, NEW name, NEW of,
           cases[n] = [kind |-> kind, name |-> name, of |-> of]
    PROVE  FieldAt(t, n, b, tag, kind, name, of)
  BY DEF FieldAt, Varints, Lengths

LEMMA UintAt ==
    ASSUME NEW t \in Type, NEW m \in TypeOf[t], NEW n, NEW b, NEW tag, NEW name, NEW of,
           FieldAt(t, n, b, tag, "uint64", name, of), 
           NEW rest, NEW size, Writes(t, m, Mixed(t, m, n), rest, size)
    PROVE  Writes(t, m, Mixed(t, m, b), UintField(tag, m[name], rest), UintSize(m[name]) + size)
<1>1. /\ n \in DOMAIN CasesOf[t] /\ n <= 15 /\ b = n - 1
      /\ tag = 8 * n
      /\ CasesOf[t][n].kind = "uint64" /\ CasesOf[t][n].name = name /\ CasesOf[t][n].of = of
  BY DEF FieldAt, Varints
<1> QED BY <1>1, UintWrites

LEMMA IntAt ==
    ASSUME NEW t \in Type, NEW m \in TypeOf[t], NEW n, NEW b, NEW tag, NEW name, NEW of,
           FieldAt(t, n, b, tag, "int64", name, of), 
           NEW rest, NEW size, Writes(t, m, Mixed(t, m, n), rest, size)
    PROVE  Writes(t, m, Mixed(t, m, b), IntField(tag, m[name], rest), IntSize(m[name]) + size)
<1>1. /\ n \in DOMAIN CasesOf[t] /\ n <= 15 /\ b = n - 1
      /\ tag = 8 * n
      /\ CasesOf[t][n].kind = "int64" /\ CasesOf[t][n].name = name /\ CasesOf[t][n].of = of
  BY DEF FieldAt, Varints
<1> QED BY <1>1, IntWrites

LEMMA BoolAt ==
    ASSUME NEW t \in Type, NEW m \in TypeOf[t], NEW n, NEW b, NEW tag, NEW name, NEW of,
           FieldAt(t, n, b, tag, "bool", name, of), 
           NEW rest, NEW size, Writes(t, m, Mixed(t, m, n), rest, size)
    PROVE  Writes(t, m, Mixed(t, m, b), BoolField(tag, m[name], rest), BoolSize(m[name]) + size)
<1>1. /\ n \in DOMAIN CasesOf[t] /\ n <= 15 /\ b = n - 1
      /\ tag = 8 * n
      /\ CasesOf[t][n].kind = "bool" /\ CasesOf[t][n].name = name /\ CasesOf[t][n].of = of
  BY DEF FieldAt, Varints
<1> QED BY <1>1, BoolWrites

LEMMA StringAt ==
    ASSUME NEW t \in Type, NEW m \in TypeOf[t], NEW n, NEW b, NEW tag, NEW name, NEW of,
           FieldAt(t, n, b, tag, "string", name, of), 
           NEW rest, NEW size, Writes(t, m, Mixed(t, m, n), rest, size)
    PROVE  Writes(t, m, Mixed(t, m, b), StringField(tag, m[name], rest), StringSize(m[name]) + size)
<1>1. /\ n \in DOMAIN CasesOf[t] /\ n <= 15 /\ b = n - 1
      /\ tag = 8 * n + 2
      /\ CasesOf[t][n].kind = "string" /\ CasesOf[t][n].name = name /\ CasesOf[t][n].of = of
  BY DEF FieldAt, Varints
<1> QED BY <1>1, StringWrites

LEMMA MessageAt ==
    ASSUME NEW t \in Type, NEW m \in TypeOf[t], NEW n, NEW b, NEW tag, NEW name, NEW of,
           FieldAt(t, n, b, tag, "message", name, of), NEW bytes, NEW length,
           Writes(of, m[name], ZeroOf[of], bytes, length),
           NEW rest, NEW size, Writes(t, m, Mixed(t, m, n), rest, size)
    PROVE  Writes(t, m, Mixed(t, m, b), MessageField(tag, bytes, rest), MessageSize(length) + size)
<1>1. /\ n \in DOMAIN CasesOf[t] /\ n <= 15 /\ b = n - 1
      /\ tag = 8 * n + 2
      /\ CasesOf[t][n].kind = "message" /\ CasesOf[t][n].name = name /\ CasesOf[t][n].of = of
  BY DEF FieldAt, Varints
<1> QED BY <1>1, MessageWrites

LEMMA PointerAt ==
    ASSUME NEW t \in Type, NEW m \in TypeOf[t], NEW n, NEW b, NEW tag, NEW name, NEW of,
           FieldAt(t, n, b, tag, "pointer", name, of), NEW bytes, NEW sizes,
           PointerWritten(of, m[name], bytes, sizes),
           NEW rest, NEW size, Writes(t, m, Mixed(t, m, n), rest, size)
    PROVE  Writes(t, m, Mixed(t, m, b), PointerField(tag, bytes, rest), PointerSize(sizes) + size)
<1>1. /\ n \in DOMAIN CasesOf[t] /\ n <= 15 /\ b = n - 1
      /\ tag = 8 * n + 2
      /\ CasesOf[t][n].kind = "pointer" /\ CasesOf[t][n].name = name /\ CasesOf[t][n].of = of
  BY DEF FieldAt, Varints
<1> QED BY <1>1, PointerWrites

LEMMA EachAt ==
    ASSUME NEW t \in Type, NEW m \in TypeOf[t], NEW n, NEW b, NEW tag, NEW name, NEW of,
           FieldAt(t, n, b, tag, "repeated", name, of), NEW bytes, NEW sizes,
           ListWritten(of, m[name], bytes, sizes),
           NEW rest, NEW size, Writes(t, m, Mixed(t, m, n), rest, size)
    PROVE  Writes(t, m, Mixed(t, m, b), EachField(tag, bytes, rest), EachSize(sizes) + size)
<1>1. /\ n \in DOMAIN CasesOf[t] /\ n <= 15 /\ b = n - 1
      /\ tag = 8 * n + 2
      /\ CasesOf[t][n].kind = "repeated" /\ CasesOf[t][n].name = name /\ CasesOf[t][n].of = of
  BY DEF FieldAt, Varints
<1> QED BY <1>1, EachWrites

LEMMA CoinWritten ==
    \A m \in CoinType : Writes("Coin", m, ZeroOf["Coin"], CoinBytes(m), CoinSize(m))
<1> SUFFICES ASSUME NEW m \in CoinType
             PROVE  Writes("Coin", m, ZeroOf["Coin"], CoinBytes(m), CoinSize(m))
  OBVIOUS
<1> DEFINE t == "Coin"
<1>1. t \in Type /\ m \in TypeOf[t]
  BY CoinRows DEF Type, CasesOf
<1>2. Len(CasesOf[t]) = 2
  BY CoinRows DEF CoinCases
<1>3. /\ m.denom \in Text /\ m.amount \in Text
  BY DEF CoinType
<1> HIDE DEF t
<1>4. CasesOf[t] = CoinCases
  BY CoinRows DEF t
<1>5. /\ DOMAIN CoinCases = 1..2
      /\ CoinCases[1] = [kind |-> "string", name |-> "denom", of |-> ""]
      /\ CoinCases[2] = [kind |-> "string", name |-> "amount", of |-> ""]
  BY DEF CoinCases, Field, FieldOf
<1>6. FieldAt(t, 1, 0, \h0a, "string", "denom", "")
  <2>1. 1 \in 1..2 /\ 1 <= 15 /\ 0 = 1 - 1 /\ \h0a = 8 * 1 + 2 /\ "string" \in Lengths
    BY DEF Lengths
  <2> HIDE DEF t
  <2> QED BY <1>4, <1>5, <2>1, BytesAt
<1>7. FieldAt(t, 2, 1, \h12, "string", "amount", "")
  <2>1. 2 \in 1..2 /\ 2 <= 15 /\ 1 = 2 - 1 /\ \h12 = 8 * 2 + 2 /\ "string" \in Lengths
    BY DEF Lengths
  <2> HIDE DEF t
  <2> QED BY <1>4, <1>5, <2>1, BytesAt
<1> DEFINE bytes1 == StringField(\h12, m.amount, << >>)
           size1 == StringSize(m.amount) + 0
           bytes0 == StringField(\h0a, m.denom, bytes1)
           size0 == StringSize(m.denom) + size1
<1>8. Writes(t, m, Mixed(t, m, 2), << >>, 0)
  BY <1>1, <1>2, EndWrites
<1> HIDE DEF bytes0, size0, bytes1, size1
<1>9. Writes(t, m, Mixed(t, m, 1), bytes1, size1)
  BY <1>1, <1>7, <1>8, StringAt DEF bytes1, size1
<1>10. Writes(t, m, Mixed(t, m, 0), bytes0, size0)
  BY <1>1, <1>6, <1>9, StringAt DEF bytes0, size0
<1>11. Mixed(t, m, 0) = ZeroOf[t]
  BY <1>1, MixedTyped
<1>12. /\ StringSize(m.denom) \in Nat /\ StringSize(m.amount) \in Nat
  BY <1>3, SizesTyped
<1>13. CoinBytes(m) = bytes0
  BY DEF CoinBytes, bytes0, bytes1
<1>14. CoinSize(m) = size0
  BY <1>12 DEF CoinSize, size0, size1
<1> QED BY <1>10, <1>11, <1>13, <1>14 DEF t

LEMMA PageRequestWritten ==
    \A m \in PageRequestType : Writes("PageRequest", m, ZeroOf["PageRequest"], PageRequestBytes(m), PageRequestSize(m))
<1> SUFFICES ASSUME NEW m \in PageRequestType
             PROVE  Writes("PageRequest", m, ZeroOf["PageRequest"], PageRequestBytes(m), PageRequestSize(m))
  OBVIOUS
<1> DEFINE t == "PageRequest"
<1>1. t \in Type /\ m \in TypeOf[t]
  BY PageRequestRows DEF Type, CasesOf
<1>2. Len(CasesOf[t]) = 5
  BY PageRequestRows DEF PageRequestCases
<1>3. /\ m.key \in Text /\ m.offset \in Word /\ m.limit \in Word
      /\ m.countTotal \in BOOLEAN /\ m.reverse \in BOOLEAN
  BY DEF PageRequestType
<1> HIDE DEF t
<1>4. CasesOf[t] = PageRequestCases
  BY PageRequestRows DEF t
<1>5. /\ DOMAIN PageRequestCases = 1..5
      /\ PageRequestCases[1] = [kind |-> "string", name |-> "key", of |-> ""]
      /\ PageRequestCases[2] = [kind |-> "uint64", name |-> "offset", of |-> ""]
      /\ PageRequestCases[3] = [kind |-> "uint64", name |-> "limit", of |-> ""]
      /\ PageRequestCases[4] = [kind |-> "bool", name |-> "countTotal", of |-> ""]
      /\ PageRequestCases[5] = [kind |-> "bool", name |-> "reverse", of |-> ""]
  BY DEF PageRequestCases, Field, FieldOf
<1>6. FieldAt(t, 1, 0, \h0a, "string", "key", "")
  <2>1. 1 \in 1..5 /\ 1 <= 15 /\ 0 = 1 - 1 /\ \h0a = 8 * 1 + 2 /\ "string" \in Lengths
    BY DEF Lengths
  <2> HIDE DEF t
  <2> QED BY <1>4, <1>5, <2>1, BytesAt
<1>7. FieldAt(t, 2, 1, \h10, "uint64", "offset", "")
  <2>1. 2 \in 1..5 /\ 2 <= 15 /\ 1 = 2 - 1 /\ \h10 = 8 * 2 /\ "uint64" \in Varints
    BY DEF Varints
  <2> HIDE DEF t
  <2> QED BY <1>4, <1>5, <2>1, VarintAt
<1>8. FieldAt(t, 3, 2, \h18, "uint64", "limit", "")
  <2>1. 3 \in 1..5 /\ 3 <= 15 /\ 2 = 3 - 1 /\ \h18 = 8 * 3 /\ "uint64" \in Varints
    BY DEF Varints
  <2> HIDE DEF t
  <2> QED BY <1>4, <1>5, <2>1, VarintAt
<1>9. FieldAt(t, 4, 3, \h20, "bool", "countTotal", "")
  <2>1. 4 \in 1..5 /\ 4 <= 15 /\ 3 = 4 - 1 /\ \h20 = 8 * 4 /\ "bool" \in Varints
    BY DEF Varints
  <2> HIDE DEF t
  <2> QED BY <1>4, <1>5, <2>1, VarintAt
<1>10. FieldAt(t, 5, 4, \h28, "bool", "reverse", "")
  <2>1. 5 \in 1..5 /\ 5 <= 15 /\ 4 = 5 - 1 /\ \h28 = 8 * 5 /\ "bool" \in Varints
    BY DEF Varints
  <2> HIDE DEF t
  <2> QED BY <1>4, <1>5, <2>1, VarintAt
<1> DEFINE bytes4 == BoolField(\h28, m.reverse, << >>)
           size4 == BoolSize(m.reverse) + 0
           bytes3 == BoolField(\h20, m.countTotal, bytes4)
           size3 == BoolSize(m.countTotal) + size4
           bytes2 == UintField(\h18, m.limit, bytes3)
           size2 == UintSize(m.limit) + size3
           bytes1 == UintField(\h10, m.offset, bytes2)
           size1 == UintSize(m.offset) + size2
           bytes0 == StringField(\h0a, m.key, bytes1)
           size0 == StringSize(m.key) + size1
<1>11. Writes(t, m, Mixed(t, m, 5), << >>, 0)
  BY <1>1, <1>2, EndWrites
<1> HIDE DEF bytes0, size0, bytes1, size1, bytes2, size2, bytes3, size3, bytes4, size4
<1>12. Writes(t, m, Mixed(t, m, 4), bytes4, size4)
  BY <1>1, <1>10, <1>11, BoolAt DEF bytes4, size4
<1>13. Writes(t, m, Mixed(t, m, 3), bytes3, size3)
  BY <1>1, <1>9, <1>12, BoolAt DEF bytes3, size3
<1>14. Writes(t, m, Mixed(t, m, 2), bytes2, size2)
  BY <1>1, <1>8, <1>13, UintAt DEF bytes2, size2
<1>15. Writes(t, m, Mixed(t, m, 1), bytes1, size1)
  BY <1>1, <1>7, <1>14, UintAt DEF bytes1, size1
<1>16. Writes(t, m, Mixed(t, m, 0), bytes0, size0)
  BY <1>1, <1>6, <1>15, StringAt DEF bytes0, size0
<1>17. Mixed(t, m, 0) = ZeroOf[t]
  BY <1>1, MixedTyped
<1>18. /\ StringSize(m.key) \in Nat /\ UintSize(m.offset) \in Nat
      /\ UintSize(m.limit) \in Nat /\ BoolSize(m.countTotal) \in Nat
      /\ BoolSize(m.reverse) \in Nat
  BY <1>3, SizesTyped
<1>19. PageRequestBytes(m) = bytes0
  BY DEF PageRequestBytes, bytes0, bytes1, bytes2, bytes3, bytes4
<1>20. PageRequestSize(m) = size0
  BY <1>18 DEF PageRequestSize, size0, size1, size2, size3, size4
<1> QED BY <1>16, <1>17, <1>19, <1>20 DEF t

LEMMA PageRequestPointerWritten ==
    \A pointer \in Pointer(PageRequestType) :
        PointerWritten("PageRequest", pointer, PointedTo(PageRequestBytes, pointer), PointedTo(PageRequestSize, pointer))
<1> SUFFICES ASSUME NEW pointer \in Pointer(PageRequestType)
             PROVE  PointerWritten("PageRequest", pointer, PointedTo(PageRequestBytes, pointer),
                                   PointedTo(PageRequestSize, pointer))
  OBVIOUS
<1>1. CASE pointer = {}
  <2>1. PointedTo(PageRequestBytes, pointer) = {} /\ PointedTo(PageRequestSize, pointer) = {}
    BY <1>1 DEF PointedTo
  <2> QED BY <1>1, <2>1 DEF PointerWritten
<1>2. ASSUME NEW v \in PageRequestType, pointer = {v}
      PROVE  PointerWritten("PageRequest", pointer, PointedTo(PageRequestBytes, pointer), PointedTo(PageRequestSize, pointer))
  <2>1. Writes("PageRequest", v, ZeroOf["PageRequest"], PageRequestBytes(v), PageRequestSize(v))
    BY PageRequestWritten
  <2>2. PointedTo(PageRequestBytes, pointer) = {PageRequestBytes(v)} /\ PointedTo(PageRequestSize, pointer) = {PageRequestSize(v)}
    BY <1>2 DEF PointedTo
  <2> QED BY <1>2, <2>1, <2>2 DEF PointerWritten
<1>3. pointer = {} \/ \E v \in PageRequestType : pointer = {v}
  BY PointerTyped DEF Pointer
<1> QED BY <1>1, <1>2, <1>3

LEMMA PageResponseWritten ==
    \A m \in PageResponseType : Writes("PageResponse", m, ZeroOf["PageResponse"], PageResponseBytes(m), PageResponseSize(m))
<1> SUFFICES ASSUME NEW m \in PageResponseType
             PROVE  Writes("PageResponse", m, ZeroOf["PageResponse"], PageResponseBytes(m), PageResponseSize(m))
  OBVIOUS
<1> DEFINE t == "PageResponse"
<1>1. t \in Type /\ m \in TypeOf[t]
  BY PageResponseRows DEF Type, CasesOf
<1>2. Len(CasesOf[t]) = 2
  BY PageResponseRows DEF PageResponseCases
<1>3. /\ m.nextKey \in Text /\ m.total \in Word
  BY DEF PageResponseType
<1> HIDE DEF t
<1>4. CasesOf[t] = PageResponseCases
  BY PageResponseRows DEF t
<1>5. /\ DOMAIN PageResponseCases = 1..2
      /\ PageResponseCases[1] = [kind |-> "string", name |-> "nextKey", of |-> ""]
      /\ PageResponseCases[2] = [kind |-> "uint64", name |-> "total", of |-> ""]
  BY DEF PageResponseCases, Field, FieldOf
<1>6. FieldAt(t, 1, 0, \h0a, "string", "nextKey", "")
  <2>1. 1 \in 1..2 /\ 1 <= 15 /\ 0 = 1 - 1 /\ \h0a = 8 * 1 + 2 /\ "string" \in Lengths
    BY DEF Lengths
  <2> HIDE DEF t
  <2> QED BY <1>4, <1>5, <2>1, BytesAt
<1>7. FieldAt(t, 2, 1, \h10, "uint64", "total", "")
  <2>1. 2 \in 1..2 /\ 2 <= 15 /\ 1 = 2 - 1 /\ \h10 = 8 * 2 /\ "uint64" \in Varints
    BY DEF Varints
  <2> HIDE DEF t
  <2> QED BY <1>4, <1>5, <2>1, VarintAt
<1> DEFINE bytes1 == UintField(\h10, m.total, << >>)
           size1 == UintSize(m.total) + 0
           bytes0 == StringField(\h0a, m.nextKey, bytes1)
           size0 == StringSize(m.nextKey) + size1
<1>8. Writes(t, m, Mixed(t, m, 2), << >>, 0)
  BY <1>1, <1>2, EndWrites
<1> HIDE DEF bytes0, size0, bytes1, size1
<1>9. Writes(t, m, Mixed(t, m, 1), bytes1, size1)
  BY <1>1, <1>7, <1>8, UintAt DEF bytes1, size1
<1>10. Writes(t, m, Mixed(t, m, 0), bytes0, size0)
  BY <1>1, <1>6, <1>9, StringAt DEF bytes0, size0
<1>11. Mixed(t, m, 0) = ZeroOf[t]
  BY <1>1, MixedTyped
<1>12. /\ StringSize(m.nextKey) \in Nat /\ UintSize(m.total) \in Nat
  BY <1>3, SizesTyped
<1>13. PageResponseBytes(m) = bytes0
  BY DEF PageResponseBytes, bytes0, bytes1
<1>14. PageResponseSize(m) = size0
  BY <1>12 DEF PageResponseSize, size0, size1
<1> QED BY <1>10, <1>11, <1>13, <1>14 DEF t

LEMMA PageResponsePointerWritten ==
    \A pointer \in Pointer(PageResponseType) :
        PointerWritten("PageResponse", pointer, PointedTo(PageResponseBytes, pointer), PointedTo(PageResponseSize, pointer))
<1> SUFFICES ASSUME NEW pointer \in Pointer(PageResponseType)
             PROVE  PointerWritten("PageResponse", pointer, PointedTo(PageResponseBytes, pointer),
                                   PointedTo(PageResponseSize, pointer))
  OBVIOUS
<1>1. CASE pointer = {}
  <2>1. PointedTo(PageResponseBytes, pointer) = {} /\ PointedTo(PageResponseSize, pointer) = {}
    BY <1>1 DEF PointedTo
  <2> QED BY <1>1, <2>1 DEF PointerWritten
<1>2. ASSUME NEW v \in PageResponseType, pointer = {v}
      PROVE  PointerWritten("PageResponse", pointer, PointedTo(PageResponseBytes, pointer), PointedTo(PageResponseSize, pointer))
  <2>1. Writes("PageResponse", v, ZeroOf["PageResponse"], PageResponseBytes(v), PageResponseSize(v))
    BY PageResponseWritten
  <2>2. PointedTo(PageResponseBytes, pointer) = {PageResponseBytes(v)} /\ PointedTo(PageResponseSize, pointer) = {PageResponseSize(v)}
    BY <1>2 DEF PointedTo
  <2> QED BY <1>2, <2>1, <2>2 DEF PointerWritten
<1>3. pointer = {} \/ \E v \in PageResponseType : pointer = {v}
  BY PointerTyped DEF Pointer
<1> QED BY <1>1, <1>2, <1>3

LEMMA ParamsWritten ==
    \A m \in ParamsType : Writes("Params", m, ZeroOf["Params"], ParamsBytes(m), ParamsSize(m))
<1> SUFFICES ASSUME NEW m \in ParamsType
             PROVE  Writes("Params", m, ZeroOf["Params"], ParamsBytes(m), ParamsSize(m))
  OBVIOUS
<1> DEFINE t == "Params"
<1>1. t \in Type /\ m \in TypeOf[t]
  BY ParamsRows DEF Type, CasesOf
<1>2. Len(CasesOf[t]) = 3
  BY ParamsRows DEF ParamsCases
<1>3. /\ m.minwindow \in Word /\ m.defaultwindow \in Word /\ m.maxwindow \in Word
  BY DEF ParamsType
<1> HIDE DEF t
<1>4. CasesOf[t] = ParamsCases
  BY ParamsRows DEF t
<1>5. /\ DOMAIN ParamsCases = 1..3
      /\ ParamsCases[1] = [kind |-> "uint64", name |-> "minwindow", of |-> ""]
      /\ ParamsCases[2] = [kind |-> "uint64", name |-> "defaultwindow", of |-> ""]
      /\ ParamsCases[3] = [kind |-> "uint64", name |-> "maxwindow", of |-> ""]
  BY DEF ParamsCases, Field, FieldOf
<1>6. FieldAt(t, 1, 0, \h08, "uint64", "minwindow", "")
  <2>1. 1 \in 1..3 /\ 1 <= 15 /\ 0 = 1 - 1 /\ \h08 = 8 * 1 /\ "uint64" \in Varints
    BY DEF Varints
  <2> HIDE DEF t
  <2> QED BY <1>4, <1>5, <2>1, VarintAt
<1>7. FieldAt(t, 2, 1, \h10, "uint64", "defaultwindow", "")
  <2>1. 2 \in 1..3 /\ 2 <= 15 /\ 1 = 2 - 1 /\ \h10 = 8 * 2 /\ "uint64" \in Varints
    BY DEF Varints
  <2> HIDE DEF t
  <2> QED BY <1>4, <1>5, <2>1, VarintAt
<1>8. FieldAt(t, 3, 2, \h18, "uint64", "maxwindow", "")
  <2>1. 3 \in 1..3 /\ 3 <= 15 /\ 2 = 3 - 1 /\ \h18 = 8 * 3 /\ "uint64" \in Varints
    BY DEF Varints
  <2> HIDE DEF t
  <2> QED BY <1>4, <1>5, <2>1, VarintAt
<1> DEFINE bytes2 == UintField(\h18, m.maxwindow, << >>)
           size2 == UintSize(m.maxwindow) + 0
           bytes1 == UintField(\h10, m.defaultwindow, bytes2)
           size1 == UintSize(m.defaultwindow) + size2
           bytes0 == UintField(\h08, m.minwindow, bytes1)
           size0 == UintSize(m.minwindow) + size1
<1>9. Writes(t, m, Mixed(t, m, 3), << >>, 0)
  BY <1>1, <1>2, EndWrites
<1> HIDE DEF bytes0, size0, bytes1, size1, bytes2, size2
<1>10. Writes(t, m, Mixed(t, m, 2), bytes2, size2)
  BY <1>1, <1>8, <1>9, UintAt DEF bytes2, size2
<1>11. Writes(t, m, Mixed(t, m, 1), bytes1, size1)
  BY <1>1, <1>7, <1>10, UintAt DEF bytes1, size1
<1>12. Writes(t, m, Mixed(t, m, 0), bytes0, size0)
  BY <1>1, <1>6, <1>11, UintAt DEF bytes0, size0
<1>13. Mixed(t, m, 0) = ZeroOf[t]
  BY <1>1, MixedTyped
<1>14. /\ UintSize(m.minwindow) \in Nat /\ UintSize(m.defaultwindow) \in Nat
      /\ UintSize(m.maxwindow) \in Nat
  BY <1>3, SizesTyped
<1>15. ParamsBytes(m) = bytes0
  BY DEF ParamsBytes, bytes0, bytes1, bytes2
<1>16. ParamsSize(m) = size0
  BY <1>14 DEF ParamsSize, size0, size1, size2
<1> QED BY <1>12, <1>13, <1>15, <1>16 DEF t

LEMMA PendingWritten ==
    \A m \in PendingType : Writes("Pending", m, ZeroOf["Pending"], PendingBytes(m), PendingSize(m))
<1> SUFFICES ASSUME NEW m \in PendingType
             PROVE  Writes("Pending", m, ZeroOf["Pending"], PendingBytes(m), PendingSize(m))
  OBVIOUS
<1> DEFINE t == "Pending"
<1>1. t \in Type /\ m \in TypeOf[t]
  BY PendingRows DEF Type, CasesOf
<1>2. Len(CasesOf[t]) = 5
  BY PendingRows DEF PendingCases
<1>3. /\ m.id \in Word /\ m.sender \in Text /\ m.recipient \in Text
      /\ m.amount \in CoinType /\ m.executeat \in Int64
  BY DEF PendingType
<1>4. Writes("Coin", m.amount, ZeroOf["Coin"], CoinBytes(m.amount), CoinSize(m.amount))
  BY <1>3, CoinWritten
<1> HIDE DEF t
<1>5. CasesOf[t] = PendingCases
  BY PendingRows DEF t
<1>6. /\ DOMAIN PendingCases = 1..5
      /\ PendingCases[1] = [kind |-> "uint64", name |-> "id", of |-> ""]
      /\ PendingCases[2] = [kind |-> "string", name |-> "sender", of |-> ""]
      /\ PendingCases[3] = [kind |-> "string", name |-> "recipient", of |-> ""]
      /\ PendingCases[4] = [kind |-> "message", name |-> "amount", of |-> "Coin"]
      /\ PendingCases[5] = [kind |-> "int64", name |-> "executeat", of |-> ""]
  BY DEF PendingCases, Field, FieldOf
<1>7. FieldAt(t, 1, 0, \h08, "uint64", "id", "")
  <2>1. 1 \in 1..5 /\ 1 <= 15 /\ 0 = 1 - 1 /\ \h08 = 8 * 1 /\ "uint64" \in Varints
    BY DEF Varints
  <2> HIDE DEF t
  <2> QED BY <1>5, <1>6, <2>1, VarintAt
<1>8. FieldAt(t, 2, 1, \h12, "string", "sender", "")
  <2>1. 2 \in 1..5 /\ 2 <= 15 /\ 1 = 2 - 1 /\ \h12 = 8 * 2 + 2 /\ "string" \in Lengths
    BY DEF Lengths
  <2> HIDE DEF t
  <2> QED BY <1>5, <1>6, <2>1, BytesAt
<1>9. FieldAt(t, 3, 2, \h1a, "string", "recipient", "")
  <2>1. 3 \in 1..5 /\ 3 <= 15 /\ 2 = 3 - 1 /\ \h1a = 8 * 3 + 2 /\ "string" \in Lengths
    BY DEF Lengths
  <2> HIDE DEF t
  <2> QED BY <1>5, <1>6, <2>1, BytesAt
<1>10. FieldAt(t, 4, 3, \h22, "message", "amount", "Coin")
  <2>1. 4 \in 1..5 /\ 4 <= 15 /\ 3 = 4 - 1 /\ \h22 = 8 * 4 + 2 /\ "message" \in Lengths
    BY DEF Lengths
  <2> HIDE DEF t
  <2> QED BY <1>5, <1>6, <2>1, BytesAt
<1>11. FieldAt(t, 5, 4, \h28, "int64", "executeat", "")
  <2>1. 5 \in 1..5 /\ 5 <= 15 /\ 4 = 5 - 1 /\ \h28 = 8 * 5 /\ "int64" \in Varints
    BY DEF Varints
  <2> HIDE DEF t
  <2> QED BY <1>5, <1>6, <2>1, VarintAt
<1> DEFINE bytes4 == IntField(\h28, m.executeat, << >>)
           size4 == IntSize(m.executeat) + 0
           bytes3 == MessageField(\h22, CoinBytes(m.amount), bytes4)
           size3 == MessageSize(CoinSize(m.amount)) + size4
           bytes2 == StringField(\h1a, m.recipient, bytes3)
           size2 == StringSize(m.recipient) + size3
           bytes1 == StringField(\h12, m.sender, bytes2)
           size1 == StringSize(m.sender) + size2
           bytes0 == UintField(\h08, m.id, bytes1)
           size0 == UintSize(m.id) + size1
<1>12. Writes(t, m, Mixed(t, m, 5), << >>, 0)
  BY <1>1, <1>2, EndWrites
<1> HIDE DEF bytes0, size0, bytes1, size1, bytes2, size2, bytes3, size3, bytes4, size4
<1>13. Writes(t, m, Mixed(t, m, 4), bytes4, size4)
  BY <1>1, <1>11, <1>12, IntAt DEF bytes4, size4
<1>14. Writes(t, m, Mixed(t, m, 3), bytes3, size3)
  BY <1>1, <1>10, <1>4, <1>13, MessageAt DEF bytes3, size3
<1>15. Writes(t, m, Mixed(t, m, 2), bytes2, size2)
  BY <1>1, <1>9, <1>14, StringAt DEF bytes2, size2
<1>16. Writes(t, m, Mixed(t, m, 1), bytes1, size1)
  BY <1>1, <1>8, <1>15, StringAt DEF bytes1, size1
<1>17. Writes(t, m, Mixed(t, m, 0), bytes0, size0)
  BY <1>1, <1>7, <1>16, UintAt DEF bytes0, size0
<1>18. Mixed(t, m, 0) = ZeroOf[t]
  BY <1>1, MixedTyped
<1>19. /\ UintSize(m.id) \in Nat /\ StringSize(m.sender) \in Nat
      /\ StringSize(m.recipient) \in Nat /\ MessageSize(CoinSize(m.amount)) \in Nat
      /\ IntSize(m.executeat) \in Nat
  BY <1>3, SizesTyped, <1>4
<1>20. PendingBytes(m) = bytes0
  BY DEF PendingBytes, bytes0, bytes1, bytes2, bytes3, bytes4
<1>21. PendingSize(m) = size0
  BY <1>19 DEF PendingSize, size0, size1, size2, size3, size4
<1> QED BY <1>17, <1>18, <1>20, <1>21 DEF t

LEMMA PendingListWritten ==
    \A list \in Seq(PendingType) : ListWritten("Pending", list, Mapped(PendingBytes, list), Mapped(PendingSize, list))
<1> SUFFICES ASSUME NEW list \in Seq(PendingType)
             PROVE  ListWritten("Pending", list, Mapped(PendingBytes, list), Mapped(PendingSize, list))
  OBVIOUS
<1> DEFINE bytes == Mapped(PendingBytes, list)
           sizes == Mapped(PendingSize, list)
<1>1. /\ Len(list) \in Nat /\ DOMAIN list = 1..Len(list)
      /\ \A i \in 1..Len(list) : list[i] \in PendingType
  OBVIOUS
<1>2. /\ bytes = [i \in 1..Len(list) |-> PendingBytes(list[i])]
      /\ sizes = [i \in 1..Len(list) |-> PendingSize(list[i])]
  BY <1>1 DEF Mapped
<1>3. ASSUME NEW i \in 1..Len(list)
      PROVE  /\ Writes("Pending", list[i], ZeroOf["Pending"], PendingBytes(list[i]), PendingSize(list[i]))
             /\ PendingBytes(list[i]) \in Text /\ PendingSize(list[i]) \in Nat
  <2>1. Writes("Pending", list[i], ZeroOf["Pending"], PendingBytes(list[i]), PendingSize(list[i]))
    BY <1>1, PendingWritten
  <2> QED BY <2>1, WritesTyped
<1> HIDE DEF bytes, sizes
<1>4. /\ bytes \in Seq(Text) /\ sizes \in Seq(Nat)
      /\ Len(bytes) = Len(list) /\ Len(sizes) = Len(list)
  BY <1>1, <1>2, <1>3, IsASeq, LenProperties
<1>5. \A i \in 1..Len(list) : Writes("Pending", list[i], ZeroOf["Pending"], bytes[i], sizes[i])
  BY <1>2, <1>3
<1>6. ListWritten("Pending", list, bytes, sizes)
  BY <1>4, <1>5 DEF ListWritten
<1> QED BY <1>6 DEF bytes, sizes

LEMMA RecordWritten ==
    \A m \in RecordType : Writes("Record", m, ZeroOf["Record"], RecordBytes(m), RecordSize(m))
<1> SUFFICES ASSUME NEW m \in RecordType
             PROVE  Writes("Record", m, ZeroOf["Record"], RecordBytes(m), RecordSize(m))
  OBVIOUS
<1> DEFINE t == "Record"
<1>1. t \in Type /\ m \in TypeOf[t]
  BY RecordRows DEF Type, CasesOf
<1>2. Len(CasesOf[t]) = 4
  BY RecordRows DEF RecordCases
<1>3. /\ m.index \in Text /\ m.sent \in Word /\ m.cancelled \in Word
      /\ m.finalonly \in BOOLEAN
  BY DEF RecordType
<1> HIDE DEF t
<1>4. CasesOf[t] = RecordCases
  BY RecordRows DEF t
<1>5. /\ DOMAIN RecordCases = 1..4
      /\ RecordCases[1] = [kind |-> "string", name |-> "index", of |-> ""]
      /\ RecordCases[2] = [kind |-> "uint64", name |-> "sent", of |-> ""]
      /\ RecordCases[3] = [kind |-> "uint64", name |-> "cancelled", of |-> ""]
      /\ RecordCases[4] = [kind |-> "bool", name |-> "finalonly", of |-> ""]
  BY DEF RecordCases, Field, FieldOf
<1>6. FieldAt(t, 1, 0, \h0a, "string", "index", "")
  <2>1. 1 \in 1..4 /\ 1 <= 15 /\ 0 = 1 - 1 /\ \h0a = 8 * 1 + 2 /\ "string" \in Lengths
    BY DEF Lengths
  <2> HIDE DEF t
  <2> QED BY <1>4, <1>5, <2>1, BytesAt
<1>7. FieldAt(t, 2, 1, \h10, "uint64", "sent", "")
  <2>1. 2 \in 1..4 /\ 2 <= 15 /\ 1 = 2 - 1 /\ \h10 = 8 * 2 /\ "uint64" \in Varints
    BY DEF Varints
  <2> HIDE DEF t
  <2> QED BY <1>4, <1>5, <2>1, VarintAt
<1>8. FieldAt(t, 3, 2, \h18, "uint64", "cancelled", "")
  <2>1. 3 \in 1..4 /\ 3 <= 15 /\ 2 = 3 - 1 /\ \h18 = 8 * 3 /\ "uint64" \in Varints
    BY DEF Varints
  <2> HIDE DEF t
  <2> QED BY <1>4, <1>5, <2>1, VarintAt
<1>9. FieldAt(t, 4, 3, \h20, "bool", "finalonly", "")
  <2>1. 4 \in 1..4 /\ 4 <= 15 /\ 3 = 4 - 1 /\ \h20 = 8 * 4 /\ "bool" \in Varints
    BY DEF Varints
  <2> HIDE DEF t
  <2> QED BY <1>4, <1>5, <2>1, VarintAt
<1> DEFINE bytes3 == BoolField(\h20, m.finalonly, << >>)
           size3 == BoolSize(m.finalonly) + 0
           bytes2 == UintField(\h18, m.cancelled, bytes3)
           size2 == UintSize(m.cancelled) + size3
           bytes1 == UintField(\h10, m.sent, bytes2)
           size1 == UintSize(m.sent) + size2
           bytes0 == StringField(\h0a, m.index, bytes1)
           size0 == StringSize(m.index) + size1
<1>10. Writes(t, m, Mixed(t, m, 4), << >>, 0)
  BY <1>1, <1>2, EndWrites
<1> HIDE DEF bytes0, size0, bytes1, size1, bytes2, size2, bytes3, size3
<1>11. Writes(t, m, Mixed(t, m, 3), bytes3, size3)
  BY <1>1, <1>9, <1>10, BoolAt DEF bytes3, size3
<1>12. Writes(t, m, Mixed(t, m, 2), bytes2, size2)
  BY <1>1, <1>8, <1>11, UintAt DEF bytes2, size2
<1>13. Writes(t, m, Mixed(t, m, 1), bytes1, size1)
  BY <1>1, <1>7, <1>12, UintAt DEF bytes1, size1
<1>14. Writes(t, m, Mixed(t, m, 0), bytes0, size0)
  BY <1>1, <1>6, <1>13, StringAt DEF bytes0, size0
<1>15. Mixed(t, m, 0) = ZeroOf[t]
  BY <1>1, MixedTyped
<1>16. /\ StringSize(m.index) \in Nat /\ UintSize(m.sent) \in Nat
      /\ UintSize(m.cancelled) \in Nat /\ BoolSize(m.finalonly) \in Nat
  BY <1>3, SizesTyped
<1>17. RecordBytes(m) = bytes0
  BY DEF RecordBytes, bytes0, bytes1, bytes2, bytes3
<1>18. RecordSize(m) = size0
  BY <1>16 DEF RecordSize, size0, size1, size2, size3
<1> QED BY <1>14, <1>15, <1>17, <1>18 DEF t

LEMMA RecordListWritten ==
    \A list \in Seq(RecordType) : ListWritten("Record", list, Mapped(RecordBytes, list), Mapped(RecordSize, list))
<1> SUFFICES ASSUME NEW list \in Seq(RecordType)
             PROVE  ListWritten("Record", list, Mapped(RecordBytes, list), Mapped(RecordSize, list))
  OBVIOUS
<1> DEFINE bytes == Mapped(RecordBytes, list)
           sizes == Mapped(RecordSize, list)
<1>1. /\ Len(list) \in Nat /\ DOMAIN list = 1..Len(list)
      /\ \A i \in 1..Len(list) : list[i] \in RecordType
  OBVIOUS
<1>2. /\ bytes = [i \in 1..Len(list) |-> RecordBytes(list[i])]
      /\ sizes = [i \in 1..Len(list) |-> RecordSize(list[i])]
  BY <1>1 DEF Mapped
<1>3. ASSUME NEW i \in 1..Len(list)
      PROVE  /\ Writes("Record", list[i], ZeroOf["Record"], RecordBytes(list[i]), RecordSize(list[i]))
             /\ RecordBytes(list[i]) \in Text /\ RecordSize(list[i]) \in Nat
  <2>1. Writes("Record", list[i], ZeroOf["Record"], RecordBytes(list[i]), RecordSize(list[i]))
    BY <1>1, RecordWritten
  <2> QED BY <2>1, WritesTyped
<1> HIDE DEF bytes, sizes
<1>4. /\ bytes \in Seq(Text) /\ sizes \in Seq(Nat)
      /\ Len(bytes) = Len(list) /\ Len(sizes) = Len(list)
  BY <1>1, <1>2, <1>3, IsASeq, LenProperties
<1>5. \A i \in 1..Len(list) : Writes("Record", list[i], ZeroOf["Record"], bytes[i], sizes[i])
  BY <1>2, <1>3
<1>6. ListWritten("Record", list, bytes, sizes)
  BY <1>4, <1>5 DEF ListWritten
<1> QED BY <1>6 DEF bytes, sizes

LEMMA GenesisStateWritten ==
    \A m \in GenesisStateType : Writes("GenesisState", m, ZeroOf["GenesisState"], GenesisStateBytes(m), GenesisStateSize(m))
<1> SUFFICES ASSUME NEW m \in GenesisStateType
             PROVE  Writes("GenesisState", m, ZeroOf["GenesisState"], GenesisStateBytes(m), GenesisStateSize(m))
  OBVIOUS
<1> DEFINE t == "GenesisState"
<1>1. t \in Type /\ m \in TypeOf[t]
  BY GenesisStateRows DEF Type, CasesOf
<1>2. Len(CasesOf[t]) = 4
  BY GenesisStateRows DEF GenesisStateCases
<1>3. /\ m.params \in ParamsType /\ m.pendingList \in Seq(PendingType)
      /\ m.pendingCount \in Word /\ m.recordMap \in Seq(RecordType)
  BY DEF GenesisStateType
<1>4. Writes("Params", m.params, ZeroOf["Params"], ParamsBytes(m.params), ParamsSize(m.params))
  BY <1>3, ParamsWritten
<1>5. ListWritten("Pending", m.pendingList, Mapped(PendingBytes, m.pendingList), Mapped(PendingSize, m.pendingList))
  BY <1>3, PendingListWritten
<1>6. ListWritten("Record", m.recordMap, Mapped(RecordBytes, m.recordMap), Mapped(RecordSize, m.recordMap))
  BY <1>3, RecordListWritten
<1> HIDE DEF t
<1>7. CasesOf[t] = GenesisStateCases
  BY GenesisStateRows DEF t
<1>8. /\ DOMAIN GenesisStateCases = 1..4
      /\ GenesisStateCases[1] = [kind |-> "message", name |-> "params", of |-> "Params"]
      /\ GenesisStateCases[2] = [kind |-> "repeated", name |-> "pendingList", of |-> "Pending"]
      /\ GenesisStateCases[3] = [kind |-> "uint64", name |-> "pendingCount", of |-> ""]
      /\ GenesisStateCases[4] = [kind |-> "repeated", name |-> "recordMap", of |-> "Record"]
  BY DEF GenesisStateCases, Field, FieldOf
<1>9. FieldAt(t, 1, 0, \h0a, "message", "params", "Params")
  <2>1. 1 \in 1..4 /\ 1 <= 15 /\ 0 = 1 - 1 /\ \h0a = 8 * 1 + 2 /\ "message" \in Lengths
    BY DEF Lengths
  <2> HIDE DEF t
  <2> QED BY <1>7, <1>8, <2>1, BytesAt
<1>10. FieldAt(t, 2, 1, \h12, "repeated", "pendingList", "Pending")
  <2>1. 2 \in 1..4 /\ 2 <= 15 /\ 1 = 2 - 1 /\ \h12 = 8 * 2 + 2 /\ "repeated" \in Lengths
    BY DEF Lengths
  <2> HIDE DEF t
  <2> QED BY <1>7, <1>8, <2>1, BytesAt
<1>11. FieldAt(t, 3, 2, \h18, "uint64", "pendingCount", "")
  <2>1. 3 \in 1..4 /\ 3 <= 15 /\ 2 = 3 - 1 /\ \h18 = 8 * 3 /\ "uint64" \in Varints
    BY DEF Varints
  <2> HIDE DEF t
  <2> QED BY <1>7, <1>8, <2>1, VarintAt
<1>12. FieldAt(t, 4, 3, \h22, "repeated", "recordMap", "Record")
  <2>1. 4 \in 1..4 /\ 4 <= 15 /\ 3 = 4 - 1 /\ \h22 = 8 * 4 + 2 /\ "repeated" \in Lengths
    BY DEF Lengths
  <2> HIDE DEF t
  <2> QED BY <1>7, <1>8, <2>1, BytesAt
<1> DEFINE bytes3 == EachField(\h22, Mapped(RecordBytes, m.recordMap), << >>)
           size3 == EachSize(Mapped(RecordSize, m.recordMap)) + 0
           bytes2 == UintField(\h18, m.pendingCount, bytes3)
           size2 == UintSize(m.pendingCount) + size3
           bytes1 == EachField(\h12, Mapped(PendingBytes, m.pendingList), bytes2)
           size1 == EachSize(Mapped(PendingSize, m.pendingList)) + size2
           bytes0 == MessageField(\h0a, ParamsBytes(m.params), bytes1)
           size0 == MessageSize(ParamsSize(m.params)) + size1
<1>13. Writes(t, m, Mixed(t, m, 4), << >>, 0)
  BY <1>1, <1>2, EndWrites
<1> HIDE DEF bytes0, size0, bytes1, size1, bytes2, size2, bytes3, size3
<1>14. Writes(t, m, Mixed(t, m, 3), bytes3, size3)
  BY <1>1, <1>12, <1>6, <1>13, EachAt DEF bytes3, size3
<1>15. Writes(t, m, Mixed(t, m, 2), bytes2, size2)
  BY <1>1, <1>11, <1>14, UintAt DEF bytes2, size2
<1>16. Writes(t, m, Mixed(t, m, 1), bytes1, size1)
  BY <1>1, <1>10, <1>5, <1>15, EachAt DEF bytes1, size1
<1>17. Writes(t, m, Mixed(t, m, 0), bytes0, size0)
  BY <1>1, <1>9, <1>4, <1>16, MessageAt DEF bytes0, size0
<1>18. Mixed(t, m, 0) = ZeroOf[t]
  BY <1>1, MixedTyped
<1>19. /\ MessageSize(ParamsSize(m.params)) \in Nat
      /\ EachSize(Mapped(PendingSize, m.pendingList)) \in Nat
      /\ UintSize(m.pendingCount) \in Nat /\ EachSize(Mapped(RecordSize, m.recordMap)) \in Nat
  BY <1>3, SizesTyped, <1>4, <1>5, <1>6
<1>20. GenesisStateBytes(m) = bytes0
  BY DEF GenesisStateBytes, bytes0, bytes1, bytes2, bytes3
<1>21. GenesisStateSize(m) = size0
  BY <1>19 DEF GenesisStateSize, size0, size1, size2, size3
<1> QED BY <1>17, <1>18, <1>20, <1>21 DEF t

LEMMA ModuleWritten ==
    \A m \in ModuleType : Writes("Module", m, ZeroOf["Module"], ModuleBytes(m), ModuleSize(m))
<1> SUFFICES ASSUME NEW m \in ModuleType
             PROVE  Writes("Module", m, ZeroOf["Module"], ModuleBytes(m), ModuleSize(m))
  OBVIOUS
<1> DEFINE t == "Module"
<1>1. t \in Type /\ m \in TypeOf[t]
  BY ModuleRows DEF Type, CasesOf
<1>2. Len(CasesOf[t]) = 1
  BY ModuleRows DEF ModuleCases
<1>3. /\ m.authority \in Text
  BY DEF ModuleType
<1> HIDE DEF t
<1>4. CasesOf[t] = ModuleCases
  BY ModuleRows DEF t
<1>5. /\ DOMAIN ModuleCases = 1..1
      /\ ModuleCases[1] = [kind |-> "string", name |-> "authority", of |-> ""]
  BY DEF ModuleCases, Field, FieldOf
<1>6. FieldAt(t, 1, 0, \h0a, "string", "authority", "")
  <2>1. 1 \in 1..1 /\ 1 <= 15 /\ 0 = 1 - 1 /\ \h0a = 8 * 1 + 2 /\ "string" \in Lengths
    BY DEF Lengths
  <2> HIDE DEF t
  <2> QED BY <1>4, <1>5, <2>1, BytesAt
<1> DEFINE bytes0 == StringField(\h0a, m.authority, << >>)
           size0 == StringSize(m.authority) + 0
<1>7. Writes(t, m, Mixed(t, m, 1), << >>, 0)
  BY <1>1, <1>2, EndWrites
<1> HIDE DEF bytes0, size0
<1>8. Writes(t, m, Mixed(t, m, 0), bytes0, size0)
  BY <1>1, <1>6, <1>7, StringAt DEF bytes0, size0
<1>9. Mixed(t, m, 0) = ZeroOf[t]
  BY <1>1, MixedTyped
<1>10. /\ StringSize(m.authority) \in Nat
  BY <1>3, SizesTyped
<1>11. ModuleBytes(m) = bytes0
  BY DEF ModuleBytes, bytes0
<1>12. ModuleSize(m) = size0
  BY <1>10 DEF ModuleSize, size0
<1> QED BY <1>8, <1>9, <1>11, <1>12 DEF t

LEMMA MsgUpdateParamsWritten ==
    \A m \in MsgUpdateParamsType : Writes("MsgUpdateParams", m, ZeroOf["MsgUpdateParams"], MsgUpdateParamsBytes(m), MsgUpdateParamsSize(m))
<1> SUFFICES ASSUME NEW m \in MsgUpdateParamsType
             PROVE  Writes("MsgUpdateParams", m, ZeroOf["MsgUpdateParams"], MsgUpdateParamsBytes(m), MsgUpdateParamsSize(m))
  OBVIOUS
<1> DEFINE t == "MsgUpdateParams"
<1>1. t \in Type /\ m \in TypeOf[t]
  BY MsgUpdateParamsRows DEF Type, CasesOf
<1>2. Len(CasesOf[t]) = 2
  BY MsgUpdateParamsRows DEF MsgUpdateParamsCases
<1>3. /\ m.authority \in Text /\ m.params \in ParamsType
  BY DEF MsgUpdateParamsType
<1>4. Writes("Params", m.params, ZeroOf["Params"], ParamsBytes(m.params), ParamsSize(m.params))
  BY <1>3, ParamsWritten
<1> HIDE DEF t
<1>5. CasesOf[t] = MsgUpdateParamsCases
  BY MsgUpdateParamsRows DEF t
<1>6. /\ DOMAIN MsgUpdateParamsCases = 1..2
      /\ MsgUpdateParamsCases[1] = [kind |-> "string", name |-> "authority", of |-> ""]
      /\ MsgUpdateParamsCases[2] = [kind |-> "message", name |-> "params", of |-> "Params"]
  BY DEF MsgUpdateParamsCases, Field, FieldOf
<1>7. FieldAt(t, 1, 0, \h0a, "string", "authority", "")
  <2>1. 1 \in 1..2 /\ 1 <= 15 /\ 0 = 1 - 1 /\ \h0a = 8 * 1 + 2 /\ "string" \in Lengths
    BY DEF Lengths
  <2> HIDE DEF t
  <2> QED BY <1>5, <1>6, <2>1, BytesAt
<1>8. FieldAt(t, 2, 1, \h12, "message", "params", "Params")
  <2>1. 2 \in 1..2 /\ 2 <= 15 /\ 1 = 2 - 1 /\ \h12 = 8 * 2 + 2 /\ "message" \in Lengths
    BY DEF Lengths
  <2> HIDE DEF t
  <2> QED BY <1>5, <1>6, <2>1, BytesAt
<1> DEFINE bytes1 == MessageField(\h12, ParamsBytes(m.params), << >>)
           size1 == MessageSize(ParamsSize(m.params)) + 0
           bytes0 == StringField(\h0a, m.authority, bytes1)
           size0 == StringSize(m.authority) + size1
<1>9. Writes(t, m, Mixed(t, m, 2), << >>, 0)
  BY <1>1, <1>2, EndWrites
<1> HIDE DEF bytes0, size0, bytes1, size1
<1>10. Writes(t, m, Mixed(t, m, 1), bytes1, size1)
  BY <1>1, <1>8, <1>4, <1>9, MessageAt DEF bytes1, size1
<1>11. Writes(t, m, Mixed(t, m, 0), bytes0, size0)
  BY <1>1, <1>7, <1>10, StringAt DEF bytes0, size0
<1>12. Mixed(t, m, 0) = ZeroOf[t]
  BY <1>1, MixedTyped
<1>13. /\ StringSize(m.authority) \in Nat /\ MessageSize(ParamsSize(m.params)) \in Nat
  BY <1>3, SizesTyped, <1>4
<1>14. MsgUpdateParamsBytes(m) = bytes0
  BY DEF MsgUpdateParamsBytes, bytes0, bytes1
<1>15. MsgUpdateParamsSize(m) = size0
  BY <1>13 DEF MsgUpdateParamsSize, size0, size1
<1> QED BY <1>11, <1>12, <1>14, <1>15 DEF t

LEMMA MsgUpdateParamsResponseWritten ==
    \A m \in MsgUpdateParamsResponseType : Writes("MsgUpdateParamsResponse", m, ZeroOf["MsgUpdateParamsResponse"], MsgUpdateParamsResponseBytes(m), MsgUpdateParamsResponseSize(m))
<1> SUFFICES ASSUME NEW m \in MsgUpdateParamsResponseType
             PROVE  Writes("MsgUpdateParamsResponse", m, ZeroOf["MsgUpdateParamsResponse"], MsgUpdateParamsResponseBytes(m), MsgUpdateParamsResponseSize(m))
  OBVIOUS
<1>1. "MsgUpdateParamsResponse" \in Type /\ m \in TypeOf["MsgUpdateParamsResponse"] /\ Len(CasesOf["MsgUpdateParamsResponse"]) = 0
  BY MsgUpdateParamsResponseRows DEF MsgUpdateParamsResponseCases, Type, CasesOf
<1>2. Writes("MsgUpdateParamsResponse", m, Mixed("MsgUpdateParamsResponse", m, 0), << >>, 0)
  BY <1>1, EndWrites
<1>3. Mixed("MsgUpdateParamsResponse", m, 0) = ZeroOf["MsgUpdateParamsResponse"]
  BY <1>1, MixedTyped
<1> QED BY <1>2, <1>3 DEF MsgUpdateParamsResponseBytes, MsgUpdateParamsResponseSize

LEMMA MsgDelayedSendWritten ==
    \A m \in MsgDelayedSendType : Writes("MsgDelayedSend", m, ZeroOf["MsgDelayedSend"], MsgDelayedSendBytes(m), MsgDelayedSendSize(m))
<1> SUFFICES ASSUME NEW m \in MsgDelayedSendType
             PROVE  Writes("MsgDelayedSend", m, ZeroOf["MsgDelayedSend"], MsgDelayedSendBytes(m), MsgDelayedSendSize(m))
  OBVIOUS
<1> DEFINE t == "MsgDelayedSend"
<1>1. t \in Type /\ m \in TypeOf[t]
  BY MsgDelayedSendRows DEF Type, CasesOf
<1>2. Len(CasesOf[t]) = 4
  BY MsgDelayedSendRows DEF MsgDelayedSendCases
<1>3. /\ m.creator \in Text /\ m.recipient \in Text /\ m.amount \in CoinType
      /\ m.window \in Word
  BY DEF MsgDelayedSendType
<1>4. Writes("Coin", m.amount, ZeroOf["Coin"], CoinBytes(m.amount), CoinSize(m.amount))
  BY <1>3, CoinWritten
<1> HIDE DEF t
<1>5. CasesOf[t] = MsgDelayedSendCases
  BY MsgDelayedSendRows DEF t
<1>6. /\ DOMAIN MsgDelayedSendCases = 1..4
      /\ MsgDelayedSendCases[1] = [kind |-> "string", name |-> "creator", of |-> ""]
      /\ MsgDelayedSendCases[2] = [kind |-> "string", name |-> "recipient", of |-> ""]
      /\ MsgDelayedSendCases[3] = [kind |-> "message", name |-> "amount", of |-> "Coin"]
      /\ MsgDelayedSendCases[4] = [kind |-> "uint64", name |-> "window", of |-> ""]
  BY DEF MsgDelayedSendCases, Field, FieldOf
<1>7. FieldAt(t, 1, 0, \h0a, "string", "creator", "")
  <2>1. 1 \in 1..4 /\ 1 <= 15 /\ 0 = 1 - 1 /\ \h0a = 8 * 1 + 2 /\ "string" \in Lengths
    BY DEF Lengths
  <2> HIDE DEF t
  <2> QED BY <1>5, <1>6, <2>1, BytesAt
<1>8. FieldAt(t, 2, 1, \h12, "string", "recipient", "")
  <2>1. 2 \in 1..4 /\ 2 <= 15 /\ 1 = 2 - 1 /\ \h12 = 8 * 2 + 2 /\ "string" \in Lengths
    BY DEF Lengths
  <2> HIDE DEF t
  <2> QED BY <1>5, <1>6, <2>1, BytesAt
<1>9. FieldAt(t, 3, 2, \h1a, "message", "amount", "Coin")
  <2>1. 3 \in 1..4 /\ 3 <= 15 /\ 2 = 3 - 1 /\ \h1a = 8 * 3 + 2 /\ "message" \in Lengths
    BY DEF Lengths
  <2> HIDE DEF t
  <2> QED BY <1>5, <1>6, <2>1, BytesAt
<1>10. FieldAt(t, 4, 3, \h20, "uint64", "window", "")
  <2>1. 4 \in 1..4 /\ 4 <= 15 /\ 3 = 4 - 1 /\ \h20 = 8 * 4 /\ "uint64" \in Varints
    BY DEF Varints
  <2> HIDE DEF t
  <2> QED BY <1>5, <1>6, <2>1, VarintAt
<1> DEFINE bytes3 == UintField(\h20, m.window, << >>)
           size3 == UintSize(m.window) + 0
           bytes2 == MessageField(\h1a, CoinBytes(m.amount), bytes3)
           size2 == MessageSize(CoinSize(m.amount)) + size3
           bytes1 == StringField(\h12, m.recipient, bytes2)
           size1 == StringSize(m.recipient) + size2
           bytes0 == StringField(\h0a, m.creator, bytes1)
           size0 == StringSize(m.creator) + size1
<1>11. Writes(t, m, Mixed(t, m, 4), << >>, 0)
  BY <1>1, <1>2, EndWrites
<1> HIDE DEF bytes0, size0, bytes1, size1, bytes2, size2, bytes3, size3
<1>12. Writes(t, m, Mixed(t, m, 3), bytes3, size3)
  BY <1>1, <1>10, <1>11, UintAt DEF bytes3, size3
<1>13. Writes(t, m, Mixed(t, m, 2), bytes2, size2)
  BY <1>1, <1>9, <1>4, <1>12, MessageAt DEF bytes2, size2
<1>14. Writes(t, m, Mixed(t, m, 1), bytes1, size1)
  BY <1>1, <1>8, <1>13, StringAt DEF bytes1, size1
<1>15. Writes(t, m, Mixed(t, m, 0), bytes0, size0)
  BY <1>1, <1>7, <1>14, StringAt DEF bytes0, size0
<1>16. Mixed(t, m, 0) = ZeroOf[t]
  BY <1>1, MixedTyped
<1>17. /\ StringSize(m.creator) \in Nat /\ StringSize(m.recipient) \in Nat
      /\ MessageSize(CoinSize(m.amount)) \in Nat /\ UintSize(m.window) \in Nat
  BY <1>3, SizesTyped, <1>4
<1>18. MsgDelayedSendBytes(m) = bytes0
  BY DEF MsgDelayedSendBytes, bytes0, bytes1, bytes2, bytes3
<1>19. MsgDelayedSendSize(m) = size0
  BY <1>17 DEF MsgDelayedSendSize, size0, size1, size2, size3
<1> QED BY <1>15, <1>16, <1>18, <1>19 DEF t

LEMMA MsgDelayedSendResponseWritten ==
    \A m \in MsgDelayedSendResponseType : Writes("MsgDelayedSendResponse", m, ZeroOf["MsgDelayedSendResponse"], MsgDelayedSendResponseBytes(m), MsgDelayedSendResponseSize(m))
<1> SUFFICES ASSUME NEW m \in MsgDelayedSendResponseType
             PROVE  Writes("MsgDelayedSendResponse", m, ZeroOf["MsgDelayedSendResponse"], MsgDelayedSendResponseBytes(m), MsgDelayedSendResponseSize(m))
  OBVIOUS
<1> DEFINE t == "MsgDelayedSendResponse"
<1>1. t \in Type /\ m \in TypeOf[t]
  BY MsgDelayedSendResponseRows DEF Type, CasesOf
<1>2. Len(CasesOf[t]) = 2
  BY MsgDelayedSendResponseRows DEF MsgDelayedSendResponseCases
<1>3. /\ m.id \in Word /\ m.final \in BOOLEAN
  BY DEF MsgDelayedSendResponseType
<1> HIDE DEF t
<1>4. CasesOf[t] = MsgDelayedSendResponseCases
  BY MsgDelayedSendResponseRows DEF t
<1>5. /\ DOMAIN MsgDelayedSendResponseCases = 1..2
      /\ MsgDelayedSendResponseCases[1] = [kind |-> "uint64", name |-> "id", of |-> ""]
      /\ MsgDelayedSendResponseCases[2] = [kind |-> "bool", name |-> "final", of |-> ""]
  BY DEF MsgDelayedSendResponseCases, Field, FieldOf
<1>6. FieldAt(t, 1, 0, \h08, "uint64", "id", "")
  <2>1. 1 \in 1..2 /\ 1 <= 15 /\ 0 = 1 - 1 /\ \h08 = 8 * 1 /\ "uint64" \in Varints
    BY DEF Varints
  <2> HIDE DEF t
  <2> QED BY <1>4, <1>5, <2>1, VarintAt
<1>7. FieldAt(t, 2, 1, \h10, "bool", "final", "")
  <2>1. 2 \in 1..2 /\ 2 <= 15 /\ 1 = 2 - 1 /\ \h10 = 8 * 2 /\ "bool" \in Varints
    BY DEF Varints
  <2> HIDE DEF t
  <2> QED BY <1>4, <1>5, <2>1, VarintAt
<1> DEFINE bytes1 == BoolField(\h10, m.final, << >>)
           size1 == BoolSize(m.final) + 0
           bytes0 == UintField(\h08, m.id, bytes1)
           size0 == UintSize(m.id) + size1
<1>8. Writes(t, m, Mixed(t, m, 2), << >>, 0)
  BY <1>1, <1>2, EndWrites
<1> HIDE DEF bytes0, size0, bytes1, size1
<1>9. Writes(t, m, Mixed(t, m, 1), bytes1, size1)
  BY <1>1, <1>7, <1>8, BoolAt DEF bytes1, size1
<1>10. Writes(t, m, Mixed(t, m, 0), bytes0, size0)
  BY <1>1, <1>6, <1>9, UintAt DEF bytes0, size0
<1>11. Mixed(t, m, 0) = ZeroOf[t]
  BY <1>1, MixedTyped
<1>12. /\ UintSize(m.id) \in Nat /\ BoolSize(m.final) \in Nat
  BY <1>3, SizesTyped
<1>13. MsgDelayedSendResponseBytes(m) = bytes0
  BY DEF MsgDelayedSendResponseBytes, bytes0, bytes1
<1>14. MsgDelayedSendResponseSize(m) = size0
  BY <1>12 DEF MsgDelayedSendResponseSize, size0, size1
<1> QED BY <1>10, <1>11, <1>13, <1>14 DEF t

LEMMA MsgCancelSendWritten ==
    \A m \in MsgCancelSendType : Writes("MsgCancelSend", m, ZeroOf["MsgCancelSend"], MsgCancelSendBytes(m), MsgCancelSendSize(m))
<1> SUFFICES ASSUME NEW m \in MsgCancelSendType
             PROVE  Writes("MsgCancelSend", m, ZeroOf["MsgCancelSend"], MsgCancelSendBytes(m), MsgCancelSendSize(m))
  OBVIOUS
<1> DEFINE t == "MsgCancelSend"
<1>1. t \in Type /\ m \in TypeOf[t]
  BY MsgCancelSendRows DEF Type, CasesOf
<1>2. Len(CasesOf[t]) = 2
  BY MsgCancelSendRows DEF MsgCancelSendCases
<1>3. /\ m.creator \in Text /\ m.id \in Word
  BY DEF MsgCancelSendType
<1> HIDE DEF t
<1>4. CasesOf[t] = MsgCancelSendCases
  BY MsgCancelSendRows DEF t
<1>5. /\ DOMAIN MsgCancelSendCases = 1..2
      /\ MsgCancelSendCases[1] = [kind |-> "string", name |-> "creator", of |-> ""]
      /\ MsgCancelSendCases[2] = [kind |-> "uint64", name |-> "id", of |-> ""]
  BY DEF MsgCancelSendCases, Field, FieldOf
<1>6. FieldAt(t, 1, 0, \h0a, "string", "creator", "")
  <2>1. 1 \in 1..2 /\ 1 <= 15 /\ 0 = 1 - 1 /\ \h0a = 8 * 1 + 2 /\ "string" \in Lengths
    BY DEF Lengths
  <2> HIDE DEF t
  <2> QED BY <1>4, <1>5, <2>1, BytesAt
<1>7. FieldAt(t, 2, 1, \h10, "uint64", "id", "")
  <2>1. 2 \in 1..2 /\ 2 <= 15 /\ 1 = 2 - 1 /\ \h10 = 8 * 2 /\ "uint64" \in Varints
    BY DEF Varints
  <2> HIDE DEF t
  <2> QED BY <1>4, <1>5, <2>1, VarintAt
<1> DEFINE bytes1 == UintField(\h10, m.id, << >>)
           size1 == UintSize(m.id) + 0
           bytes0 == StringField(\h0a, m.creator, bytes1)
           size0 == StringSize(m.creator) + size1
<1>8. Writes(t, m, Mixed(t, m, 2), << >>, 0)
  BY <1>1, <1>2, EndWrites
<1> HIDE DEF bytes0, size0, bytes1, size1
<1>9. Writes(t, m, Mixed(t, m, 1), bytes1, size1)
  BY <1>1, <1>7, <1>8, UintAt DEF bytes1, size1
<1>10. Writes(t, m, Mixed(t, m, 0), bytes0, size0)
  BY <1>1, <1>6, <1>9, StringAt DEF bytes0, size0
<1>11. Mixed(t, m, 0) = ZeroOf[t]
  BY <1>1, MixedTyped
<1>12. /\ StringSize(m.creator) \in Nat /\ UintSize(m.id) \in Nat
  BY <1>3, SizesTyped
<1>13. MsgCancelSendBytes(m) = bytes0
  BY DEF MsgCancelSendBytes, bytes0, bytes1
<1>14. MsgCancelSendSize(m) = size0
  BY <1>12 DEF MsgCancelSendSize, size0, size1
<1> QED BY <1>10, <1>11, <1>13, <1>14 DEF t

LEMMA MsgCancelSendResponseWritten ==
    \A m \in MsgCancelSendResponseType : Writes("MsgCancelSendResponse", m, ZeroOf["MsgCancelSendResponse"], MsgCancelSendResponseBytes(m), MsgCancelSendResponseSize(m))
<1> SUFFICES ASSUME NEW m \in MsgCancelSendResponseType
             PROVE  Writes("MsgCancelSendResponse", m, ZeroOf["MsgCancelSendResponse"], MsgCancelSendResponseBytes(m), MsgCancelSendResponseSize(m))
  OBVIOUS
<1>1. "MsgCancelSendResponse" \in Type /\ m \in TypeOf["MsgCancelSendResponse"] /\ Len(CasesOf["MsgCancelSendResponse"]) = 0
  BY MsgCancelSendResponseRows DEF MsgCancelSendResponseCases, Type, CasesOf
<1>2. Writes("MsgCancelSendResponse", m, Mixed("MsgCancelSendResponse", m, 0), << >>, 0)
  BY <1>1, EndWrites
<1>3. Mixed("MsgCancelSendResponse", m, 0) = ZeroOf["MsgCancelSendResponse"]
  BY <1>1, MixedTyped
<1> QED BY <1>2, <1>3 DEF MsgCancelSendResponseBytes, MsgCancelSendResponseSize

LEMMA MsgSetFinalOnlyWritten ==
    \A m \in MsgSetFinalOnlyType : Writes("MsgSetFinalOnly", m, ZeroOf["MsgSetFinalOnly"], MsgSetFinalOnlyBytes(m), MsgSetFinalOnlySize(m))
<1> SUFFICES ASSUME NEW m \in MsgSetFinalOnlyType
             PROVE  Writes("MsgSetFinalOnly", m, ZeroOf["MsgSetFinalOnly"], MsgSetFinalOnlyBytes(m), MsgSetFinalOnlySize(m))
  OBVIOUS
<1> DEFINE t == "MsgSetFinalOnly"
<1>1. t \in Type /\ m \in TypeOf[t]
  BY MsgSetFinalOnlyRows DEF Type, CasesOf
<1>2. Len(CasesOf[t]) = 2
  BY MsgSetFinalOnlyRows DEF MsgSetFinalOnlyCases
<1>3. /\ m.creator \in Text /\ m.finalonly \in BOOLEAN
  BY DEF MsgSetFinalOnlyType
<1> HIDE DEF t
<1>4. CasesOf[t] = MsgSetFinalOnlyCases
  BY MsgSetFinalOnlyRows DEF t
<1>5. /\ DOMAIN MsgSetFinalOnlyCases = 1..2
      /\ MsgSetFinalOnlyCases[1] = [kind |-> "string", name |-> "creator", of |-> ""]
      /\ MsgSetFinalOnlyCases[2] = [kind |-> "bool", name |-> "finalonly", of |-> ""]
  BY DEF MsgSetFinalOnlyCases, Field, FieldOf
<1>6. FieldAt(t, 1, 0, \h0a, "string", "creator", "")
  <2>1. 1 \in 1..2 /\ 1 <= 15 /\ 0 = 1 - 1 /\ \h0a = 8 * 1 + 2 /\ "string" \in Lengths
    BY DEF Lengths
  <2> HIDE DEF t
  <2> QED BY <1>4, <1>5, <2>1, BytesAt
<1>7. FieldAt(t, 2, 1, \h10, "bool", "finalonly", "")
  <2>1. 2 \in 1..2 /\ 2 <= 15 /\ 1 = 2 - 1 /\ \h10 = 8 * 2 /\ "bool" \in Varints
    BY DEF Varints
  <2> HIDE DEF t
  <2> QED BY <1>4, <1>5, <2>1, VarintAt
<1> DEFINE bytes1 == BoolField(\h10, m.finalonly, << >>)
           size1 == BoolSize(m.finalonly) + 0
           bytes0 == StringField(\h0a, m.creator, bytes1)
           size0 == StringSize(m.creator) + size1
<1>8. Writes(t, m, Mixed(t, m, 2), << >>, 0)
  BY <1>1, <1>2, EndWrites
<1> HIDE DEF bytes0, size0, bytes1, size1
<1>9. Writes(t, m, Mixed(t, m, 1), bytes1, size1)
  BY <1>1, <1>7, <1>8, BoolAt DEF bytes1, size1
<1>10. Writes(t, m, Mixed(t, m, 0), bytes0, size0)
  BY <1>1, <1>6, <1>9, StringAt DEF bytes0, size0
<1>11. Mixed(t, m, 0) = ZeroOf[t]
  BY <1>1, MixedTyped
<1>12. /\ StringSize(m.creator) \in Nat /\ BoolSize(m.finalonly) \in Nat
  BY <1>3, SizesTyped
<1>13. MsgSetFinalOnlyBytes(m) = bytes0
  BY DEF MsgSetFinalOnlyBytes, bytes0, bytes1
<1>14. MsgSetFinalOnlySize(m) = size0
  BY <1>12 DEF MsgSetFinalOnlySize, size0, size1
<1> QED BY <1>10, <1>11, <1>13, <1>14 DEF t

LEMMA MsgSetFinalOnlyResponseWritten ==
    \A m \in MsgSetFinalOnlyResponseType : Writes("MsgSetFinalOnlyResponse", m, ZeroOf["MsgSetFinalOnlyResponse"], MsgSetFinalOnlyResponseBytes(m), MsgSetFinalOnlyResponseSize(m))
<1> SUFFICES ASSUME NEW m \in MsgSetFinalOnlyResponseType
             PROVE  Writes("MsgSetFinalOnlyResponse", m, ZeroOf["MsgSetFinalOnlyResponse"], MsgSetFinalOnlyResponseBytes(m), MsgSetFinalOnlyResponseSize(m))
  OBVIOUS
<1>1. "MsgSetFinalOnlyResponse" \in Type /\ m \in TypeOf["MsgSetFinalOnlyResponse"] /\ Len(CasesOf["MsgSetFinalOnlyResponse"]) = 0
  BY MsgSetFinalOnlyResponseRows DEF MsgSetFinalOnlyResponseCases, Type, CasesOf
<1>2. Writes("MsgSetFinalOnlyResponse", m, Mixed("MsgSetFinalOnlyResponse", m, 0), << >>, 0)
  BY <1>1, EndWrites
<1>3. Mixed("MsgSetFinalOnlyResponse", m, 0) = ZeroOf["MsgSetFinalOnlyResponse"]
  BY <1>1, MixedTyped
<1> QED BY <1>2, <1>3 DEF MsgSetFinalOnlyResponseBytes, MsgSetFinalOnlyResponseSize

LEMMA QueryParamsRequestWritten ==
    \A m \in QueryParamsRequestType : Writes("QueryParamsRequest", m, ZeroOf["QueryParamsRequest"], QueryParamsRequestBytes(m), QueryParamsRequestSize(m))
<1> SUFFICES ASSUME NEW m \in QueryParamsRequestType
             PROVE  Writes("QueryParamsRequest", m, ZeroOf["QueryParamsRequest"], QueryParamsRequestBytes(m), QueryParamsRequestSize(m))
  OBVIOUS
<1>1. "QueryParamsRequest" \in Type /\ m \in TypeOf["QueryParamsRequest"] /\ Len(CasesOf["QueryParamsRequest"]) = 0
  BY QueryParamsRequestRows DEF QueryParamsRequestCases, Type, CasesOf
<1>2. Writes("QueryParamsRequest", m, Mixed("QueryParamsRequest", m, 0), << >>, 0)
  BY <1>1, EndWrites
<1>3. Mixed("QueryParamsRequest", m, 0) = ZeroOf["QueryParamsRequest"]
  BY <1>1, MixedTyped
<1> QED BY <1>2, <1>3 DEF QueryParamsRequestBytes, QueryParamsRequestSize

LEMMA QueryParamsResponseWritten ==
    \A m \in QueryParamsResponseType : Writes("QueryParamsResponse", m, ZeroOf["QueryParamsResponse"], QueryParamsResponseBytes(m), QueryParamsResponseSize(m))
<1> SUFFICES ASSUME NEW m \in QueryParamsResponseType
             PROVE  Writes("QueryParamsResponse", m, ZeroOf["QueryParamsResponse"], QueryParamsResponseBytes(m), QueryParamsResponseSize(m))
  OBVIOUS
<1> DEFINE t == "QueryParamsResponse"
<1>1. t \in Type /\ m \in TypeOf[t]
  BY QueryParamsResponseRows DEF Type, CasesOf
<1>2. Len(CasesOf[t]) = 1
  BY QueryParamsResponseRows DEF QueryParamsResponseCases
<1>3. /\ m.params \in ParamsType
  BY DEF QueryParamsResponseType
<1>4. Writes("Params", m.params, ZeroOf["Params"], ParamsBytes(m.params), ParamsSize(m.params))
  BY <1>3, ParamsWritten
<1> HIDE DEF t
<1>5. CasesOf[t] = QueryParamsResponseCases
  BY QueryParamsResponseRows DEF t
<1>6. /\ DOMAIN QueryParamsResponseCases = 1..1
      /\ QueryParamsResponseCases[1] = [kind |-> "message", name |-> "params", of |-> "Params"]
  BY DEF QueryParamsResponseCases, Field, FieldOf
<1>7. FieldAt(t, 1, 0, \h0a, "message", "params", "Params")
  <2>1. 1 \in 1..1 /\ 1 <= 15 /\ 0 = 1 - 1 /\ \h0a = 8 * 1 + 2 /\ "message" \in Lengths
    BY DEF Lengths
  <2> HIDE DEF t
  <2> QED BY <1>5, <1>6, <2>1, BytesAt
<1> DEFINE bytes0 == MessageField(\h0a, ParamsBytes(m.params), << >>)
           size0 == MessageSize(ParamsSize(m.params)) + 0
<1>8. Writes(t, m, Mixed(t, m, 1), << >>, 0)
  BY <1>1, <1>2, EndWrites
<1> HIDE DEF bytes0, size0
<1>9. Writes(t, m, Mixed(t, m, 0), bytes0, size0)
  BY <1>1, <1>7, <1>4, <1>8, MessageAt DEF bytes0, size0
<1>10. Mixed(t, m, 0) = ZeroOf[t]
  BY <1>1, MixedTyped
<1>11. /\ MessageSize(ParamsSize(m.params)) \in Nat
  BY <1>3, SizesTyped, <1>4
<1>12. QueryParamsResponseBytes(m) = bytes0
  BY DEF QueryParamsResponseBytes, bytes0
<1>13. QueryParamsResponseSize(m) = size0
  BY <1>11 DEF QueryParamsResponseSize, size0
<1> QED BY <1>9, <1>10, <1>12, <1>13 DEF t

LEMMA QueryGetPendingRequestWritten ==
    \A m \in QueryGetPendingRequestType : Writes("QueryGetPendingRequest", m, ZeroOf["QueryGetPendingRequest"], QueryGetPendingRequestBytes(m), QueryGetPendingRequestSize(m))
<1> SUFFICES ASSUME NEW m \in QueryGetPendingRequestType
             PROVE  Writes("QueryGetPendingRequest", m, ZeroOf["QueryGetPendingRequest"], QueryGetPendingRequestBytes(m), QueryGetPendingRequestSize(m))
  OBVIOUS
<1> DEFINE t == "QueryGetPendingRequest"
<1>1. t \in Type /\ m \in TypeOf[t]
  BY QueryGetPendingRequestRows DEF Type, CasesOf
<1>2. Len(CasesOf[t]) = 1
  BY QueryGetPendingRequestRows DEF QueryGetPendingRequestCases
<1>3. /\ m.id \in Word
  BY DEF QueryGetPendingRequestType
<1> HIDE DEF t
<1>4. CasesOf[t] = QueryGetPendingRequestCases
  BY QueryGetPendingRequestRows DEF t
<1>5. /\ DOMAIN QueryGetPendingRequestCases = 1..1
      /\ QueryGetPendingRequestCases[1] = [kind |-> "uint64", name |-> "id", of |-> ""]
  BY DEF QueryGetPendingRequestCases, Field, FieldOf
<1>6. FieldAt(t, 1, 0, \h08, "uint64", "id", "")
  <2>1. 1 \in 1..1 /\ 1 <= 15 /\ 0 = 1 - 1 /\ \h08 = 8 * 1 /\ "uint64" \in Varints
    BY DEF Varints
  <2> HIDE DEF t
  <2> QED BY <1>4, <1>5, <2>1, VarintAt
<1> DEFINE bytes0 == UintField(\h08, m.id, << >>)
           size0 == UintSize(m.id) + 0
<1>7. Writes(t, m, Mixed(t, m, 1), << >>, 0)
  BY <1>1, <1>2, EndWrites
<1> HIDE DEF bytes0, size0
<1>8. Writes(t, m, Mixed(t, m, 0), bytes0, size0)
  BY <1>1, <1>6, <1>7, UintAt DEF bytes0, size0
<1>9. Mixed(t, m, 0) = ZeroOf[t]
  BY <1>1, MixedTyped
<1>10. /\ UintSize(m.id) \in Nat
  BY <1>3, SizesTyped
<1>11. QueryGetPendingRequestBytes(m) = bytes0
  BY DEF QueryGetPendingRequestBytes, bytes0
<1>12. QueryGetPendingRequestSize(m) = size0
  BY <1>10 DEF QueryGetPendingRequestSize, size0
<1> QED BY <1>8, <1>9, <1>11, <1>12 DEF t

LEMMA QueryGetPendingResponseWritten ==
    \A m \in QueryGetPendingResponseType : Writes("QueryGetPendingResponse", m, ZeroOf["QueryGetPendingResponse"], QueryGetPendingResponseBytes(m), QueryGetPendingResponseSize(m))
<1> SUFFICES ASSUME NEW m \in QueryGetPendingResponseType
             PROVE  Writes("QueryGetPendingResponse", m, ZeroOf["QueryGetPendingResponse"], QueryGetPendingResponseBytes(m), QueryGetPendingResponseSize(m))
  OBVIOUS
<1> DEFINE t == "QueryGetPendingResponse"
<1>1. t \in Type /\ m \in TypeOf[t]
  BY QueryGetPendingResponseRows DEF Type, CasesOf
<1>2. Len(CasesOf[t]) = 1
  BY QueryGetPendingResponseRows DEF QueryGetPendingResponseCases
<1>3. /\ m.pending \in PendingType
  BY DEF QueryGetPendingResponseType
<1>4. Writes("Pending", m.pending, ZeroOf["Pending"], PendingBytes(m.pending), PendingSize(m.pending))
  BY <1>3, PendingWritten
<1> HIDE DEF t
<1>5. CasesOf[t] = QueryGetPendingResponseCases
  BY QueryGetPendingResponseRows DEF t
<1>6. /\ DOMAIN QueryGetPendingResponseCases = 1..1
      /\ QueryGetPendingResponseCases[1] = [kind |-> "message", name |-> "pending", of |-> "Pending"]
  BY DEF QueryGetPendingResponseCases, Field, FieldOf
<1>7. FieldAt(t, 1, 0, \h0a, "message", "pending", "Pending")
  <2>1. 1 \in 1..1 /\ 1 <= 15 /\ 0 = 1 - 1 /\ \h0a = 8 * 1 + 2 /\ "message" \in Lengths
    BY DEF Lengths
  <2> HIDE DEF t
  <2> QED BY <1>5, <1>6, <2>1, BytesAt
<1> DEFINE bytes0 == MessageField(\h0a, PendingBytes(m.pending), << >>)
           size0 == MessageSize(PendingSize(m.pending)) + 0
<1>8. Writes(t, m, Mixed(t, m, 1), << >>, 0)
  BY <1>1, <1>2, EndWrites
<1> HIDE DEF bytes0, size0
<1>9. Writes(t, m, Mixed(t, m, 0), bytes0, size0)
  BY <1>1, <1>7, <1>4, <1>8, MessageAt DEF bytes0, size0
<1>10. Mixed(t, m, 0) = ZeroOf[t]
  BY <1>1, MixedTyped
<1>11. /\ MessageSize(PendingSize(m.pending)) \in Nat
  BY <1>3, SizesTyped, <1>4
<1>12. QueryGetPendingResponseBytes(m) = bytes0
  BY DEF QueryGetPendingResponseBytes, bytes0
<1>13. QueryGetPendingResponseSize(m) = size0
  BY <1>11 DEF QueryGetPendingResponseSize, size0
<1> QED BY <1>9, <1>10, <1>12, <1>13 DEF t

LEMMA QueryAllPendingRequestWritten ==
    \A m \in QueryAllPendingRequestType : Writes("QueryAllPendingRequest", m, ZeroOf["QueryAllPendingRequest"], QueryAllPendingRequestBytes(m), QueryAllPendingRequestSize(m))
<1> SUFFICES ASSUME NEW m \in QueryAllPendingRequestType
             PROVE  Writes("QueryAllPendingRequest", m, ZeroOf["QueryAllPendingRequest"], QueryAllPendingRequestBytes(m), QueryAllPendingRequestSize(m))
  OBVIOUS
<1> DEFINE t == "QueryAllPendingRequest"
<1>1. t \in Type /\ m \in TypeOf[t]
  BY QueryAllPendingRequestRows DEF Type, CasesOf
<1>2. Len(CasesOf[t]) = 1
  BY QueryAllPendingRequestRows DEF QueryAllPendingRequestCases
<1>3. /\ m.pagination \in Pointer(PageRequestType)
  BY DEF QueryAllPendingRequestType
<1>4. PointerWritten("PageRequest", m.pagination, PointedTo(PageRequestBytes, m.pagination), PointedTo(PageRequestSize, m.pagination))
  BY <1>3, PageRequestPointerWritten
<1> HIDE DEF t
<1>5. CasesOf[t] = QueryAllPendingRequestCases
  BY QueryAllPendingRequestRows DEF t
<1>6. /\ DOMAIN QueryAllPendingRequestCases = 1..1
      /\ QueryAllPendingRequestCases[1] = [kind |-> "pointer", name |-> "pagination", of |-> "PageRequest"]
  BY DEF QueryAllPendingRequestCases, Field, FieldOf
<1>7. FieldAt(t, 1, 0, \h0a, "pointer", "pagination", "PageRequest")
  <2>1. 1 \in 1..1 /\ 1 <= 15 /\ 0 = 1 - 1 /\ \h0a = 8 * 1 + 2 /\ "pointer" \in Lengths
    BY DEF Lengths
  <2> HIDE DEF t
  <2> QED BY <1>5, <1>6, <2>1, BytesAt
<1> DEFINE bytes0 == PointerField(\h0a, PointedTo(PageRequestBytes, m.pagination), << >>)
           size0 == PointerSize(PointedTo(PageRequestSize, m.pagination)) + 0
<1>8. Writes(t, m, Mixed(t, m, 1), << >>, 0)
  BY <1>1, <1>2, EndWrites
<1> HIDE DEF bytes0, size0
<1>9. Writes(t, m, Mixed(t, m, 0), bytes0, size0)
  BY <1>1, <1>7, <1>4, <1>8, PointerAt DEF bytes0, size0
<1>10. Mixed(t, m, 0) = ZeroOf[t]
  BY <1>1, MixedTyped
<1>11. /\ PointerSize(PointedTo(PageRequestSize, m.pagination)) \in Nat
  BY <1>3, SizesTyped, <1>4
<1>12. QueryAllPendingRequestBytes(m) = bytes0
  BY DEF QueryAllPendingRequestBytes, bytes0
<1>13. QueryAllPendingRequestSize(m) = size0
  BY <1>11 DEF QueryAllPendingRequestSize, size0
<1> QED BY <1>9, <1>10, <1>12, <1>13 DEF t

LEMMA QueryAllPendingResponseWritten ==
    \A m \in QueryAllPendingResponseType : Writes("QueryAllPendingResponse", m, ZeroOf["QueryAllPendingResponse"], QueryAllPendingResponseBytes(m), QueryAllPendingResponseSize(m))
<1> SUFFICES ASSUME NEW m \in QueryAllPendingResponseType
             PROVE  Writes("QueryAllPendingResponse", m, ZeroOf["QueryAllPendingResponse"], QueryAllPendingResponseBytes(m), QueryAllPendingResponseSize(m))
  OBVIOUS
<1> DEFINE t == "QueryAllPendingResponse"
<1>1. t \in Type /\ m \in TypeOf[t]
  BY QueryAllPendingResponseRows DEF Type, CasesOf
<1>2. Len(CasesOf[t]) = 2
  BY QueryAllPendingResponseRows DEF QueryAllPendingResponseCases
<1>3. /\ m.pending \in Seq(PendingType) /\ m.pagination \in Pointer(PageResponseType)
  BY DEF QueryAllPendingResponseType
<1>4. ListWritten("Pending", m.pending, Mapped(PendingBytes, m.pending), Mapped(PendingSize, m.pending))
  BY <1>3, PendingListWritten
<1>5. PointerWritten("PageResponse", m.pagination, PointedTo(PageResponseBytes, m.pagination), PointedTo(PageResponseSize, m.pagination))
  BY <1>3, PageResponsePointerWritten
<1> HIDE DEF t
<1>6. CasesOf[t] = QueryAllPendingResponseCases
  BY QueryAllPendingResponseRows DEF t
<1>7. /\ DOMAIN QueryAllPendingResponseCases = 1..2
      /\ QueryAllPendingResponseCases[1] = [kind |-> "repeated", name |-> "pending", of |-> "Pending"]
      /\ QueryAllPendingResponseCases[2] = [kind |-> "pointer", name |-> "pagination", of |-> "PageResponse"]
  BY DEF QueryAllPendingResponseCases, Field, FieldOf
<1>8. FieldAt(t, 1, 0, \h0a, "repeated", "pending", "Pending")
  <2>1. 1 \in 1..2 /\ 1 <= 15 /\ 0 = 1 - 1 /\ \h0a = 8 * 1 + 2 /\ "repeated" \in Lengths
    BY DEF Lengths
  <2> HIDE DEF t
  <2> QED BY <1>6, <1>7, <2>1, BytesAt
<1>9. FieldAt(t, 2, 1, \h12, "pointer", "pagination", "PageResponse")
  <2>1. 2 \in 1..2 /\ 2 <= 15 /\ 1 = 2 - 1 /\ \h12 = 8 * 2 + 2 /\ "pointer" \in Lengths
    BY DEF Lengths
  <2> HIDE DEF t
  <2> QED BY <1>6, <1>7, <2>1, BytesAt
<1> DEFINE bytes1 == PointerField(\h12, PointedTo(PageResponseBytes, m.pagination), << >>)
           size1 == PointerSize(PointedTo(PageResponseSize, m.pagination)) + 0
           bytes0 == EachField(\h0a, Mapped(PendingBytes, m.pending), bytes1)
           size0 == EachSize(Mapped(PendingSize, m.pending)) + size1
<1>10. Writes(t, m, Mixed(t, m, 2), << >>, 0)
  BY <1>1, <1>2, EndWrites
<1> HIDE DEF bytes0, size0, bytes1, size1
<1>11. Writes(t, m, Mixed(t, m, 1), bytes1, size1)
  BY <1>1, <1>9, <1>5, <1>10, PointerAt DEF bytes1, size1
<1>12. Writes(t, m, Mixed(t, m, 0), bytes0, size0)
  BY <1>1, <1>8, <1>4, <1>11, EachAt DEF bytes0, size0
<1>13. Mixed(t, m, 0) = ZeroOf[t]
  BY <1>1, MixedTyped
<1>14. /\ EachSize(Mapped(PendingSize, m.pending)) \in Nat
      /\ PointerSize(PointedTo(PageResponseSize, m.pagination)) \in Nat
  BY <1>3, SizesTyped, <1>4, <1>5
<1>15. QueryAllPendingResponseBytes(m) = bytes0
  BY DEF QueryAllPendingResponseBytes, bytes0, bytes1
<1>16. QueryAllPendingResponseSize(m) = size0
  BY <1>14 DEF QueryAllPendingResponseSize, size0, size1
<1> QED BY <1>12, <1>13, <1>15, <1>16 DEF t

LEMMA QueryGetRecordRequestWritten ==
    \A m \in QueryGetRecordRequestType : Writes("QueryGetRecordRequest", m, ZeroOf["QueryGetRecordRequest"], QueryGetRecordRequestBytes(m), QueryGetRecordRequestSize(m))
<1> SUFFICES ASSUME NEW m \in QueryGetRecordRequestType
             PROVE  Writes("QueryGetRecordRequest", m, ZeroOf["QueryGetRecordRequest"], QueryGetRecordRequestBytes(m), QueryGetRecordRequestSize(m))
  OBVIOUS
<1> DEFINE t == "QueryGetRecordRequest"
<1>1. t \in Type /\ m \in TypeOf[t]
  BY QueryGetRecordRequestRows DEF Type, CasesOf
<1>2. Len(CasesOf[t]) = 1
  BY QueryGetRecordRequestRows DEF QueryGetRecordRequestCases
<1>3. /\ m.index \in Text
  BY DEF QueryGetRecordRequestType
<1> HIDE DEF t
<1>4. CasesOf[t] = QueryGetRecordRequestCases
  BY QueryGetRecordRequestRows DEF t
<1>5. /\ DOMAIN QueryGetRecordRequestCases = 1..1
      /\ QueryGetRecordRequestCases[1] = [kind |-> "string", name |-> "index", of |-> ""]
  BY DEF QueryGetRecordRequestCases, Field, FieldOf
<1>6. FieldAt(t, 1, 0, \h0a, "string", "index", "")
  <2>1. 1 \in 1..1 /\ 1 <= 15 /\ 0 = 1 - 1 /\ \h0a = 8 * 1 + 2 /\ "string" \in Lengths
    BY DEF Lengths
  <2> HIDE DEF t
  <2> QED BY <1>4, <1>5, <2>1, BytesAt
<1> DEFINE bytes0 == StringField(\h0a, m.index, << >>)
           size0 == StringSize(m.index) + 0
<1>7. Writes(t, m, Mixed(t, m, 1), << >>, 0)
  BY <1>1, <1>2, EndWrites
<1> HIDE DEF bytes0, size0
<1>8. Writes(t, m, Mixed(t, m, 0), bytes0, size0)
  BY <1>1, <1>6, <1>7, StringAt DEF bytes0, size0
<1>9. Mixed(t, m, 0) = ZeroOf[t]
  BY <1>1, MixedTyped
<1>10. /\ StringSize(m.index) \in Nat
  BY <1>3, SizesTyped
<1>11. QueryGetRecordRequestBytes(m) = bytes0
  BY DEF QueryGetRecordRequestBytes, bytes0
<1>12. QueryGetRecordRequestSize(m) = size0
  BY <1>10 DEF QueryGetRecordRequestSize, size0
<1> QED BY <1>8, <1>9, <1>11, <1>12 DEF t

LEMMA QueryGetRecordResponseWritten ==
    \A m \in QueryGetRecordResponseType : Writes("QueryGetRecordResponse", m, ZeroOf["QueryGetRecordResponse"], QueryGetRecordResponseBytes(m), QueryGetRecordResponseSize(m))
<1> SUFFICES ASSUME NEW m \in QueryGetRecordResponseType
             PROVE  Writes("QueryGetRecordResponse", m, ZeroOf["QueryGetRecordResponse"], QueryGetRecordResponseBytes(m), QueryGetRecordResponseSize(m))
  OBVIOUS
<1> DEFINE t == "QueryGetRecordResponse"
<1>1. t \in Type /\ m \in TypeOf[t]
  BY QueryGetRecordResponseRows DEF Type, CasesOf
<1>2. Len(CasesOf[t]) = 1
  BY QueryGetRecordResponseRows DEF QueryGetRecordResponseCases
<1>3. /\ m.record \in RecordType
  BY DEF QueryGetRecordResponseType
<1>4. Writes("Record", m.record, ZeroOf["Record"], RecordBytes(m.record), RecordSize(m.record))
  BY <1>3, RecordWritten
<1> HIDE DEF t
<1>5. CasesOf[t] = QueryGetRecordResponseCases
  BY QueryGetRecordResponseRows DEF t
<1>6. /\ DOMAIN QueryGetRecordResponseCases = 1..1
      /\ QueryGetRecordResponseCases[1] = [kind |-> "message", name |-> "record", of |-> "Record"]
  BY DEF QueryGetRecordResponseCases, Field, FieldOf
<1>7. FieldAt(t, 1, 0, \h0a, "message", "record", "Record")
  <2>1. 1 \in 1..1 /\ 1 <= 15 /\ 0 = 1 - 1 /\ \h0a = 8 * 1 + 2 /\ "message" \in Lengths
    BY DEF Lengths
  <2> HIDE DEF t
  <2> QED BY <1>5, <1>6, <2>1, BytesAt
<1> DEFINE bytes0 == MessageField(\h0a, RecordBytes(m.record), << >>)
           size0 == MessageSize(RecordSize(m.record)) + 0
<1>8. Writes(t, m, Mixed(t, m, 1), << >>, 0)
  BY <1>1, <1>2, EndWrites
<1> HIDE DEF bytes0, size0
<1>9. Writes(t, m, Mixed(t, m, 0), bytes0, size0)
  BY <1>1, <1>7, <1>4, <1>8, MessageAt DEF bytes0, size0
<1>10. Mixed(t, m, 0) = ZeroOf[t]
  BY <1>1, MixedTyped
<1>11. /\ MessageSize(RecordSize(m.record)) \in Nat
  BY <1>3, SizesTyped, <1>4
<1>12. QueryGetRecordResponseBytes(m) = bytes0
  BY DEF QueryGetRecordResponseBytes, bytes0
<1>13. QueryGetRecordResponseSize(m) = size0
  BY <1>11 DEF QueryGetRecordResponseSize, size0
<1> QED BY <1>9, <1>10, <1>12, <1>13 DEF t

LEMMA QueryAllRecordRequestWritten ==
    \A m \in QueryAllRecordRequestType : Writes("QueryAllRecordRequest", m, ZeroOf["QueryAllRecordRequest"], QueryAllRecordRequestBytes(m), QueryAllRecordRequestSize(m))
<1> SUFFICES ASSUME NEW m \in QueryAllRecordRequestType
             PROVE  Writes("QueryAllRecordRequest", m, ZeroOf["QueryAllRecordRequest"], QueryAllRecordRequestBytes(m), QueryAllRecordRequestSize(m))
  OBVIOUS
<1> DEFINE t == "QueryAllRecordRequest"
<1>1. t \in Type /\ m \in TypeOf[t]
  BY QueryAllRecordRequestRows DEF Type, CasesOf
<1>2. Len(CasesOf[t]) = 1
  BY QueryAllRecordRequestRows DEF QueryAllRecordRequestCases
<1>3. /\ m.pagination \in Pointer(PageRequestType)
  BY DEF QueryAllRecordRequestType
<1>4. PointerWritten("PageRequest", m.pagination, PointedTo(PageRequestBytes, m.pagination), PointedTo(PageRequestSize, m.pagination))
  BY <1>3, PageRequestPointerWritten
<1> HIDE DEF t
<1>5. CasesOf[t] = QueryAllRecordRequestCases
  BY QueryAllRecordRequestRows DEF t
<1>6. /\ DOMAIN QueryAllRecordRequestCases = 1..1
      /\ QueryAllRecordRequestCases[1] = [kind |-> "pointer", name |-> "pagination", of |-> "PageRequest"]
  BY DEF QueryAllRecordRequestCases, Field, FieldOf
<1>7. FieldAt(t, 1, 0, \h0a, "pointer", "pagination", "PageRequest")
  <2>1. 1 \in 1..1 /\ 1 <= 15 /\ 0 = 1 - 1 /\ \h0a = 8 * 1 + 2 /\ "pointer" \in Lengths
    BY DEF Lengths
  <2> HIDE DEF t
  <2> QED BY <1>5, <1>6, <2>1, BytesAt
<1> DEFINE bytes0 == PointerField(\h0a, PointedTo(PageRequestBytes, m.pagination), << >>)
           size0 == PointerSize(PointedTo(PageRequestSize, m.pagination)) + 0
<1>8. Writes(t, m, Mixed(t, m, 1), << >>, 0)
  BY <1>1, <1>2, EndWrites
<1> HIDE DEF bytes0, size0
<1>9. Writes(t, m, Mixed(t, m, 0), bytes0, size0)
  BY <1>1, <1>7, <1>4, <1>8, PointerAt DEF bytes0, size0
<1>10. Mixed(t, m, 0) = ZeroOf[t]
  BY <1>1, MixedTyped
<1>11. /\ PointerSize(PointedTo(PageRequestSize, m.pagination)) \in Nat
  BY <1>3, SizesTyped, <1>4
<1>12. QueryAllRecordRequestBytes(m) = bytes0
  BY DEF QueryAllRecordRequestBytes, bytes0
<1>13. QueryAllRecordRequestSize(m) = size0
  BY <1>11 DEF QueryAllRecordRequestSize, size0
<1> QED BY <1>9, <1>10, <1>12, <1>13 DEF t

LEMMA QueryAllRecordResponseWritten ==
    \A m \in QueryAllRecordResponseType : Writes("QueryAllRecordResponse", m, ZeroOf["QueryAllRecordResponse"], QueryAllRecordResponseBytes(m), QueryAllRecordResponseSize(m))
<1> SUFFICES ASSUME NEW m \in QueryAllRecordResponseType
             PROVE  Writes("QueryAllRecordResponse", m, ZeroOf["QueryAllRecordResponse"], QueryAllRecordResponseBytes(m), QueryAllRecordResponseSize(m))
  OBVIOUS
<1> DEFINE t == "QueryAllRecordResponse"
<1>1. t \in Type /\ m \in TypeOf[t]
  BY QueryAllRecordResponseRows DEF Type, CasesOf
<1>2. Len(CasesOf[t]) = 2
  BY QueryAllRecordResponseRows DEF QueryAllRecordResponseCases
<1>3. /\ m.record \in Seq(RecordType) /\ m.pagination \in Pointer(PageResponseType)
  BY DEF QueryAllRecordResponseType
<1>4. ListWritten("Record", m.record, Mapped(RecordBytes, m.record), Mapped(RecordSize, m.record))
  BY <1>3, RecordListWritten
<1>5. PointerWritten("PageResponse", m.pagination, PointedTo(PageResponseBytes, m.pagination), PointedTo(PageResponseSize, m.pagination))
  BY <1>3, PageResponsePointerWritten
<1> HIDE DEF t
<1>6. CasesOf[t] = QueryAllRecordResponseCases
  BY QueryAllRecordResponseRows DEF t
<1>7. /\ DOMAIN QueryAllRecordResponseCases = 1..2
      /\ QueryAllRecordResponseCases[1] = [kind |-> "repeated", name |-> "record", of |-> "Record"]
      /\ QueryAllRecordResponseCases[2] = [kind |-> "pointer", name |-> "pagination", of |-> "PageResponse"]
  BY DEF QueryAllRecordResponseCases, Field, FieldOf
<1>8. FieldAt(t, 1, 0, \h0a, "repeated", "record", "Record")
  <2>1. 1 \in 1..2 /\ 1 <= 15 /\ 0 = 1 - 1 /\ \h0a = 8 * 1 + 2 /\ "repeated" \in Lengths
    BY DEF Lengths
  <2> HIDE DEF t
  <2> QED BY <1>6, <1>7, <2>1, BytesAt
<1>9. FieldAt(t, 2, 1, \h12, "pointer", "pagination", "PageResponse")
  <2>1. 2 \in 1..2 /\ 2 <= 15 /\ 1 = 2 - 1 /\ \h12 = 8 * 2 + 2 /\ "pointer" \in Lengths
    BY DEF Lengths
  <2> HIDE DEF t
  <2> QED BY <1>6, <1>7, <2>1, BytesAt
<1> DEFINE bytes1 == PointerField(\h12, PointedTo(PageResponseBytes, m.pagination), << >>)
           size1 == PointerSize(PointedTo(PageResponseSize, m.pagination)) + 0
           bytes0 == EachField(\h0a, Mapped(RecordBytes, m.record), bytes1)
           size0 == EachSize(Mapped(RecordSize, m.record)) + size1
<1>10. Writes(t, m, Mixed(t, m, 2), << >>, 0)
  BY <1>1, <1>2, EndWrites
<1> HIDE DEF bytes0, size0, bytes1, size1
<1>11. Writes(t, m, Mixed(t, m, 1), bytes1, size1)
  BY <1>1, <1>9, <1>5, <1>10, PointerAt DEF bytes1, size1
<1>12. Writes(t, m, Mixed(t, m, 0), bytes0, size0)
  BY <1>1, <1>8, <1>4, <1>11, EachAt DEF bytes0, size0
<1>13. Mixed(t, m, 0) = ZeroOf[t]
  BY <1>1, MixedTyped
<1>14. /\ EachSize(Mapped(RecordSize, m.record)) \in Nat
      /\ PointerSize(PointedTo(PageResponseSize, m.pagination)) \in Nat
  BY <1>3, SizesTyped, <1>4, <1>5
<1>15. QueryAllRecordResponseBytes(m) = bytes0
  BY DEF QueryAllRecordResponseBytes, bytes0, bytes1
<1>16. QueryAllRecordResponseSize(m) = size0
  BY <1>14 DEF QueryAllRecordResponseSize, size0, size1
<1> QED BY <1>12, <1>13, <1>15, <1>16 DEF t

-----------------------------------------------------------------------------
(* What Marshal makes and what Unmarshal makes of it.                      *)

Written(t, m, bytes) == Writes(t, m, ZeroOf[t], bytes, Len(bytes))
\* What Marshal yields when its Size is right.
Writing(t, m, made) == \E bytes : made = {bytes} /\ Written(t, m, bytes)

LEMMA FilledWhole ==
    ASSUME NEW bytes \in Text, NEW size, Len(bytes) = size
    PROVE  Filled(bytes, size) = {bytes}
<1>1. size \in Nat /\ ~(Len(bytes) > size) /\ size - Len(bytes) = 0
  BY TextTyped
<1> DEFINE zeros == [i \in 1..size - Len(bytes) |-> 0]
           buffer == zeros \o bytes
<1>2. zeros = << >>
  BY <1>1
<1>3. bytes \in Seq(Byte)
  BY DEF Text
<1>4. buffer = bytes
  BY <1>2, <1>3
<1>5. SubSeq(bytes, 1, Len(bytes)) = bytes
  BY <1>3
<1> HIDE DEF zeros
<1> QED BY <1>1, <1>4, <1>5 DEF Filled, zeros

LEMMA WritingFilled ==
    ASSUME NEW t, NEW m, NEW bytes, NEW size, Writes(t, m, ZeroOf[t], bytes, size)
    PROVE  Writing(t, m, Filled(bytes, size))
<1>1. bytes \in Text /\ Len(bytes) = size
  BY WritesTyped
<1>2. Filled(bytes, size) = {bytes}
  BY <1>1, FilledWhole
<1> QED BY <1>1, <1>2 DEF Writing, Written

\* Every Marshal fills the buffer that its Size has made, with bytes that Unmarshal
\* turns into the same message: none of the 23 panics, loses a byte or a field, whatever
\* the fields hold (MarshalToSizedBuffer, Size and Unmarshal in types/*.pb.go).
THEOREM MarshalWrites ==
    \A t \in Marshalled : \A m \in TypeOf[t] : Writing(t, m, Marshal(t, m))
<1>1. \A m \in TypeOf["Params"] : Writing("Params", m, Marshal("Params", m))
  <2>1. \A m : Marshal("Params", m) = Filled(ParamsBytes(m), ParamsSize(m))
    BY DEF Marshal
  <2> QED BY <2>1, ParamsRows, ParamsWritten, WritingFilled
<1>2. \A m \in TypeOf["Pending"] : Writing("Pending", m, Marshal("Pending", m))
  <2>1. \A m : Marshal("Pending", m) = Filled(PendingBytes(m), PendingSize(m))
    BY DEF Marshal
  <2> QED BY <2>1, PendingRows, PendingWritten, WritingFilled
<1>3. \A m \in TypeOf["Record"] : Writing("Record", m, Marshal("Record", m))
  <2>1. \A m : Marshal("Record", m) = Filled(RecordBytes(m), RecordSize(m))
    BY DEF Marshal
  <2> QED BY <2>1, RecordRows, RecordWritten, WritingFilled
<1>4. \A m \in TypeOf["GenesisState"] : Writing("GenesisState", m, Marshal("GenesisState", m))
  <2>1. \A m : Marshal("GenesisState", m) = Filled(GenesisStateBytes(m), GenesisStateSize(m))
    BY DEF Marshal
  <2> QED BY <2>1, GenesisStateRows, GenesisStateWritten, WritingFilled
<1>5. \A m \in TypeOf["Module"] : Writing("Module", m, Marshal("Module", m))
  <2>1. \A m : Marshal("Module", m) = Filled(ModuleBytes(m), ModuleSize(m))
    BY DEF Marshal
  <2> QED BY <2>1, ModuleRows, ModuleWritten, WritingFilled
<1>6. \A m \in TypeOf["MsgUpdateParams"] : Writing("MsgUpdateParams", m, Marshal("MsgUpdateParams", m))
  <2>1. \A m : Marshal("MsgUpdateParams", m) = Filled(MsgUpdateParamsBytes(m), MsgUpdateParamsSize(m))
    BY DEF Marshal
  <2> QED BY <2>1, MsgUpdateParamsRows, MsgUpdateParamsWritten, WritingFilled
<1>7. \A m \in TypeOf["MsgUpdateParamsResponse"] : Writing("MsgUpdateParamsResponse", m, Marshal("MsgUpdateParamsResponse", m))
  <2>1. \A m : Marshal("MsgUpdateParamsResponse", m) = Filled(MsgUpdateParamsResponseBytes(m), MsgUpdateParamsResponseSize(m))
    BY DEF Marshal
  <2> QED BY <2>1, MsgUpdateParamsResponseRows, MsgUpdateParamsResponseWritten, WritingFilled
<1>8. \A m \in TypeOf["MsgDelayedSend"] : Writing("MsgDelayedSend", m, Marshal("MsgDelayedSend", m))
  <2>1. \A m : Marshal("MsgDelayedSend", m) = Filled(MsgDelayedSendBytes(m), MsgDelayedSendSize(m))
    BY DEF Marshal
  <2> QED BY <2>1, MsgDelayedSendRows, MsgDelayedSendWritten, WritingFilled
<1>9. \A m \in TypeOf["MsgDelayedSendResponse"] : Writing("MsgDelayedSendResponse", m, Marshal("MsgDelayedSendResponse", m))
  <2>1. \A m : Marshal("MsgDelayedSendResponse", m) = Filled(MsgDelayedSendResponseBytes(m), MsgDelayedSendResponseSize(m))
    BY DEF Marshal
  <2> QED BY <2>1, MsgDelayedSendResponseRows, MsgDelayedSendResponseWritten, WritingFilled
<1>10. \A m \in TypeOf["MsgCancelSend"] : Writing("MsgCancelSend", m, Marshal("MsgCancelSend", m))
  <2>1. \A m : Marshal("MsgCancelSend", m) = Filled(MsgCancelSendBytes(m), MsgCancelSendSize(m))
    BY DEF Marshal
  <2> QED BY <2>1, MsgCancelSendRows, MsgCancelSendWritten, WritingFilled
<1>11. \A m \in TypeOf["MsgCancelSendResponse"] : Writing("MsgCancelSendResponse", m, Marshal("MsgCancelSendResponse", m))
  <2>1. \A m : Marshal("MsgCancelSendResponse", m) = Filled(MsgCancelSendResponseBytes(m), MsgCancelSendResponseSize(m))
    BY DEF Marshal
  <2> QED BY <2>1, MsgCancelSendResponseRows, MsgCancelSendResponseWritten, WritingFilled
<1>12. \A m \in TypeOf["MsgSetFinalOnly"] : Writing("MsgSetFinalOnly", m, Marshal("MsgSetFinalOnly", m))
  <2>1. \A m : Marshal("MsgSetFinalOnly", m) = Filled(MsgSetFinalOnlyBytes(m), MsgSetFinalOnlySize(m))
    BY DEF Marshal
  <2> QED BY <2>1, MsgSetFinalOnlyRows, MsgSetFinalOnlyWritten, WritingFilled
<1>13. \A m \in TypeOf["MsgSetFinalOnlyResponse"] : Writing("MsgSetFinalOnlyResponse", m, Marshal("MsgSetFinalOnlyResponse", m))
  <2>1. \A m : Marshal("MsgSetFinalOnlyResponse", m) = Filled(MsgSetFinalOnlyResponseBytes(m), MsgSetFinalOnlyResponseSize(m))
    BY DEF Marshal
  <2> QED BY <2>1, MsgSetFinalOnlyResponseRows, MsgSetFinalOnlyResponseWritten, WritingFilled
<1>14. \A m \in TypeOf["QueryParamsRequest"] : Writing("QueryParamsRequest", m, Marshal("QueryParamsRequest", m))
  <2>1. \A m : Marshal("QueryParamsRequest", m) = Filled(QueryParamsRequestBytes(m), QueryParamsRequestSize(m))
    BY DEF Marshal
  <2> QED BY <2>1, QueryParamsRequestRows, QueryParamsRequestWritten, WritingFilled
<1>15. \A m \in TypeOf["QueryParamsResponse"] : Writing("QueryParamsResponse", m, Marshal("QueryParamsResponse", m))
  <2>1. \A m : Marshal("QueryParamsResponse", m) = Filled(QueryParamsResponseBytes(m), QueryParamsResponseSize(m))
    BY DEF Marshal
  <2> QED BY <2>1, QueryParamsResponseRows, QueryParamsResponseWritten, WritingFilled
<1>16. \A m \in TypeOf["QueryGetPendingRequest"] : Writing("QueryGetPendingRequest", m, Marshal("QueryGetPendingRequest", m))
  <2>1. \A m : Marshal("QueryGetPendingRequest", m) = Filled(QueryGetPendingRequestBytes(m), QueryGetPendingRequestSize(m))
    BY DEF Marshal
  <2> QED BY <2>1, QueryGetPendingRequestRows, QueryGetPendingRequestWritten, WritingFilled
<1>17. \A m \in TypeOf["QueryGetPendingResponse"] : Writing("QueryGetPendingResponse", m, Marshal("QueryGetPendingResponse", m))
  <2>1. \A m : Marshal("QueryGetPendingResponse", m) = Filled(QueryGetPendingResponseBytes(m), QueryGetPendingResponseSize(m))
    BY DEF Marshal
  <2> QED BY <2>1, QueryGetPendingResponseRows, QueryGetPendingResponseWritten, WritingFilled
<1>18. \A m \in TypeOf["QueryAllPendingRequest"] : Writing("QueryAllPendingRequest", m, Marshal("QueryAllPendingRequest", m))
  <2>1. \A m : Marshal("QueryAllPendingRequest", m) = Filled(QueryAllPendingRequestBytes(m), QueryAllPendingRequestSize(m))
    BY DEF Marshal
  <2> QED BY <2>1, QueryAllPendingRequestRows, QueryAllPendingRequestWritten, WritingFilled
<1>19. \A m \in TypeOf["QueryAllPendingResponse"] : Writing("QueryAllPendingResponse", m, Marshal("QueryAllPendingResponse", m))
  <2>1. \A m : Marshal("QueryAllPendingResponse", m) = Filled(QueryAllPendingResponseBytes(m), QueryAllPendingResponseSize(m))
    BY DEF Marshal
  <2> QED BY <2>1, QueryAllPendingResponseRows, QueryAllPendingResponseWritten, WritingFilled
<1>20. \A m \in TypeOf["QueryGetRecordRequest"] : Writing("QueryGetRecordRequest", m, Marshal("QueryGetRecordRequest", m))
  <2>1. \A m : Marshal("QueryGetRecordRequest", m) = Filled(QueryGetRecordRequestBytes(m), QueryGetRecordRequestSize(m))
    BY DEF Marshal
  <2> QED BY <2>1, QueryGetRecordRequestRows, QueryGetRecordRequestWritten, WritingFilled
<1>21. \A m \in TypeOf["QueryGetRecordResponse"] : Writing("QueryGetRecordResponse", m, Marshal("QueryGetRecordResponse", m))
  <2>1. \A m : Marshal("QueryGetRecordResponse", m) = Filled(QueryGetRecordResponseBytes(m), QueryGetRecordResponseSize(m))
    BY DEF Marshal
  <2> QED BY <2>1, QueryGetRecordResponseRows, QueryGetRecordResponseWritten, WritingFilled
<1>22. \A m \in TypeOf["QueryAllRecordRequest"] : Writing("QueryAllRecordRequest", m, Marshal("QueryAllRecordRequest", m))
  <2>1. \A m : Marshal("QueryAllRecordRequest", m) = Filled(QueryAllRecordRequestBytes(m), QueryAllRecordRequestSize(m))
    BY DEF Marshal
  <2> QED BY <2>1, QueryAllRecordRequestRows, QueryAllRecordRequestWritten, WritingFilled
<1>23. \A m \in TypeOf["QueryAllRecordResponse"] : Writing("QueryAllRecordResponse", m, Marshal("QueryAllRecordResponse", m))
  <2>1. \A m : Marshal("QueryAllRecordResponse", m) = Filled(QueryAllRecordResponseBytes(m), QueryAllRecordResponseSize(m))
    BY DEF Marshal
  <2> QED BY <2>1, QueryAllRecordResponseRows, QueryAllRecordResponseWritten, WritingFilled
<1>24. Marshalled =
      { "Params", "Pending", "Record", "GenesisState", "Module", "MsgUpdateParams",
       "MsgUpdateParamsResponse", "MsgDelayedSend", "MsgDelayedSendResponse",
       "MsgCancelSend", "MsgCancelSendResponse", "MsgSetFinalOnly",
       "MsgSetFinalOnlyResponse", "QueryParamsRequest", "QueryParamsResponse",
       "QueryGetPendingRequest", "QueryGetPendingResponse", "QueryAllPendingRequest",
       "QueryAllPendingResponse", "QueryGetRecordRequest", "QueryGetRecordResponse",
       "QueryAllRecordRequest", "QueryAllRecordResponse"}
  <2>1. Type = { "Coin", "PageRequest", "PageResponse", "Params", "Pending", "Record",
                "GenesisState", "Module", "MsgUpdateParams", "MsgUpdateParamsResponse",
                "MsgDelayedSend", "MsgDelayedSendResponse", "MsgCancelSend",
                "MsgCancelSendResponse", "MsgSetFinalOnly", "MsgSetFinalOnlyResponse",
                "QueryParamsRequest", "QueryParamsResponse", "QueryGetPendingRequest",
                "QueryGetPendingResponse", "QueryAllPendingRequest",
                "QueryAllPendingResponse", "QueryGetRecordRequest",
                "QueryGetRecordResponse", "QueryAllRecordRequest", "QueryAllRecordResponse"}
    BY Zenon DEF Type, CasesOf
  <2> QED BY <2>1 DEF Marshalled
<1> QED BY <1>1, <1>2, <1>3, <1>4, <1>5, <1>6, <1>7, <1>8, <1>9, <1>10, <1>11, <1>12, <1>13,
  <1>14, <1>15, <1>16, <1>17, <1>18, <1>19, <1>20, <1>21, <1>22, <1>23, <1>24

\* What Marshal made, Unmarshal reads back.
LEMMA WrittenReads ==
    ASSUME NEW t \in Type, NEW m \in TypeOf[t], NEW bytes, Written(t, m, bytes), Len(bytes) <= MaxInt
    PROVE  bytes \in Buffer /\ Unmarshal(t, bytes) = {m}
  BY WrittenIsRead DEF Written

LEMMA UnknownSkipped ==
    ASSUME NEW t \in Type, NEW data \in Buffer, NEW at \in Nat, NEW m \in TypeOf[t],
           NEW f, IsUnknown(f), Holds(data, at, f)
    PROVE  ReadFrom(t, data, at, m) = ReadFrom(t, data, at + Len(f), m)
<1> DEFINE c == [type |-> t, data |-> data, at |-> at, into |-> m]
           on == [type |-> t, data |-> data, at |-> at + Len(f), into |-> m]
<1>1. f \in Buffer /\ f \in Text /\ data \in Text /\ Len(f) \in Nat /\ Len(data) \in Nat
  BY BufferTyped, TextTyped DEF IsUnknown
<1>2. PICK tag \in ReadVarint(f, 0) :
         /\ Signed(tag.value \div 8, FieldBits) > 0 /\ tag.value % 8 # 4
         /\ \A u \in Type : Signed(tag.value \div 8, FieldBits) \notin DOMAIN CasesOf[u]
  BY DEF IsUnknown
<1> DEFINE read == [value |-> tag.value, next |-> at + tag.next]
<1>3. ReadVarint(data, at) = {read}
  <2>1. at + 0 = at
    OBVIOUS
  <2> QED BY <1>1, <2>1, ReadVarintElsewhere
<1>4. skip(data, at) = {at + Len(f)}
  <2>1. at + 0 = at /\ Len(f) \in skip(f, 0)
    BY DEF IsUnknown
  <2> QED BY <1>1, <2>1, SkipElsewhere
<1>5. Len(f) > 0
  BY <1>1, SkipTyped DEF IsUnknown
<1>6. at < Len(data)
  BY <1>1, <1>5 DEF Holds
<1>7. AfterTag(Unmarshalled, c, read) = {on}
  <2>1. read.value = tag.value /\ c.type = t /\ c.data = data /\ c.at = at
    OBVIOUS
  <2>2. [c EXCEPT !.at = at + Len(f)] = on
    OBVIOUS
  <2>3. {[c EXCEPT !.at = next] : next \in skip(data, at)} = {on}
    <3> HIDE DEF c, on
    <3> QED BY <1>4, <2>2
  <2> DEFINE fieldNum == Signed(tag.value \div 8, FieldBits)
  <2>4. ~(tag.value % 8 = 4 \/ fieldNum <= 0)
    <3>1. tag.value \in Nat
      BY <1>1, ReadVarintEnds, WordTyped
    <3>2. tag.value \div 8 \in Nat
      BY <3>1
    <3>3. fieldNum \in Int
      <4>1. FieldBits \in Nat \ {0} /\ FieldBits - 1 \in Nat
        BY WidthsAssumption
      <4>2. Power2[FieldBits - 1] \in Nat
        BY <4>1, Powers
      <4>3. fieldNum \in -Power2[FieldBits - 1]..Power2[FieldBits - 1] - 1
        BY <3>2, <4>1, SignedIs
      <4> QED BY <4>2, <4>3
    <3> QED BY <1>2, <3>3
  <2>5. fieldNum \notin DOMAIN CasesOf[t]
    BY <1>2
  <2> HIDE DEF c, read, on, fieldNum
  <2>6. AfterTag(Unmarshalled, c, read) = {[c EXCEPT !.at = next] : next \in skip(data, at)}
    <3> DEFINE other == {[c EXCEPT !.at = next] : next \in skip(data, at)}
    <3>1. other = {[c EXCEPT !.at = next] : next \in skip(c.data, c.at)}
      BY <2>1
    <3> HIDE DEF other
    <3> QED BY <2>1, <2>4, <2>5, <3>1 DEF AfterTag, fieldNum
  <2> QED BY <2>3, <2>6
<1>8. ReadFrom(t, data, at, m)
        = UNION {Unmarshalled[after] :
                    after \in UNION {AfterTag(Unmarshalled, c, tg) : tg \in ReadVarint(data, at)}}
  BY <1>6, ReadTag
<1>9. UNION {AfterTag(Unmarshalled, c, tg) : tg \in ReadVarint(data, at)} = {on}
  <2> HIDE DEF c, read, on
  <2> QED BY <1>3, <1>7
<1>10. ReadFrom(t, data, at, m) = Unmarshalled[on]
  <2> HIDE DEF c, on
  <2> QED BY <1>8, <1>9
<1> QED BY <1>10 DEF ReadFrom

\* Bytes with an unknown field before them or behind them.
Longer(f, bytes, longer) ==
    IsUnknown(f) /\ longer \in {f \o bytes, bytes \o f} /\ Len(longer) <= MaxInt

\* A field that no message of this version has, before the others or after them,
\* changes nothing: skip ends just behind it, with groups in groups and values of any
\* wire type (the default case of every Unmarshal).
THEOREM NewerReads ==
    ASSUME NEW t \in Type, NEW m \in TypeOf[t], NEW bytes, Written(t, m, bytes),
           NEW f, NEW longer, Longer(f, bytes, longer)
    PROVE  longer \in Buffer /\ Unmarshal(t, longer) = {m}
<1> IsUnknown(f) /\ longer \in {f \o bytes, bytes \o f} /\ Len(longer) <= MaxInt
  BY DEF Longer
<1>1. bytes \in Text /\ Len(bytes) \in Nat /\ f \in Text /\ Len(f) \in Nat
  BY WritesTyped, BufferTyped, TextTyped DEF Written, IsUnknown
<1>2. /\ longer \in Text /\ Len(longer) = Len(f) + Len(bytes)
      /\ longer \in Buffer /\ Len(bytes) <= MaxInt
  <2>1. longer \in Text /\ Len(longer) = Len(f) + Len(bytes)
    <3>1. f \o bytes \in Text /\ Len(f \o bytes) = Len(f) + Len(bytes)
      BY <1>1, TextJoined
    <3>2. bytes \o f \in Text /\ Len(bytes \o f) = Len(bytes) + Len(f)
      BY <1>1, TextJoined
    <3>3. Len(bytes) + Len(f) = Len(f) + Len(bytes)
      BY <1>1
    <3> QED BY <3>1, <3>2, <3>3
  <2>2. MaxInt \in Int
    BY WordTyped DEF MaxInt
  <2> QED BY <1>1, <2>1, <2>2 DEF Buffer
<1>3. Reads(t, m, ZeroOf[t], bytes) /\ ZeroOf[t] \in TypeOf[t]
  BY <1>2, Shape DEF Written, Writes
<1>4. Unmarshal(t, longer) = ReadFrom(t, longer, 0, ZeroOf[t])
  BY Zenon DEF Unmarshal, Into, ReadFrom
<1>5. CASE longer = f \o bytes
  <2>1. Holds(longer, 0, f) /\ Holds(longer, Len(f), bytes)
    <3>1. 0 + Len(longer) <= Len(longer) /\ 0 + Len(f) = Len(f)
          /\ \A i \in 1..Len(longer) : longer[0 + i] = longer[i]
      BY <1>1, <1>2
    <3>2. Holds(longer, 0, f \o bytes)
      BY <1>5, <3>1 DEF Holds
    <3>3. Holds(longer, 0, f) /\ Holds(longer, 0 + Len(f), bytes)
      <4>1. 0 \in Nat
        OBVIOUS
      <4> QED BY <1>1, <1>2, <3>2, <4>1, HoldsBoth
    <3> QED BY <3>1, <3>3
  <2>2. ReadFrom(t, longer, 0, ZeroOf[t]) = ReadFrom(t, longer, 0 + Len(f), ZeroOf[t])
    BY <1>2, <1>3, <2>1, UnknownSkipped
  <2>3. ReadFrom(t, longer, Len(f), ZeroOf[t]) = ReadFrom(t, longer, Len(f) + Len(bytes), m)
    BY <1>1, <1>2, <1>3, <2>1 DEF Reads
  <2>4. ReadFrom(t, longer, Len(f) + Len(bytes), m) = {m}
    BY <1>1, <1>2, ReadEnd
  <2>5. 0 + Len(f) = Len(f)
    BY <1>1
  <2> QED BY <1>2, <1>4, <2>2, <2>3, <2>4, <2>5
<1>6. CASE longer = bytes \o f
  <2>1. Holds(longer, 0, bytes) /\ Holds(longer, Len(bytes), f)
    <3>1. 0 + Len(longer) <= Len(longer) /\ 0 + Len(bytes) = Len(bytes)
          /\ \A i \in 1..Len(longer) : longer[0 + i] = longer[i]
      BY <1>1, <1>2
    <3>2. Holds(longer, 0, bytes \o f)
      BY <1>6, <3>1 DEF Holds
    <3>3. Holds(longer, 0, bytes) /\ Holds(longer, 0 + Len(bytes), f)
      <4>1. 0 \in Nat
        OBVIOUS
      <4> QED BY <1>1, <1>2, <3>2, <4>1, HoldsBoth
    <3> QED BY <3>1, <3>3
  <2>2. ReadFrom(t, longer, 0, ZeroOf[t]) = ReadFrom(t, longer, 0 + Len(bytes), m)
    BY <1>2, <1>3, <2>1 DEF Reads
  <2>3. ReadFrom(t, longer, Len(bytes), m) = ReadFrom(t, longer, Len(bytes) + Len(f), m)
    BY <1>1, <1>2, <2>1, UnknownSkipped
  <2>4. ReadFrom(t, longer, Len(bytes) + Len(f), m) = {m}
    <3>1. Len(longer) <= Len(bytes) + Len(f) /\ Len(bytes) + Len(f) \in Nat
      BY <1>1, <1>2
    <3> QED BY <1>2, <3>1, ReadEnd
  <2>5. 0 + Len(bytes) = Len(bytes)
    BY <1>1
  <2> QED BY <1>2, <1>4, <2>2, <2>3, <2>4, <2>5
<1> QED BY <1>5, <1>6

\* Bytes that end too early, in a tag, a number, a length, a name or an embedded
\* message, are refused, or they end between two fields and hold the first ones (the
\* io.ErrUnexpectedEOF of every Unmarshal).
THEOREM CutReads ==
    ASSUME NEW t \in Type, NEW m \in TypeOf[t], NEW bytes, Written(t, m, bytes), Len(bytes) <= MaxInt,
           NEW n \in 0..Len(bytes) - 1, NEW cut, cut = SubSeq(bytes, 1, n)
    PROVE  /\ cut \in Buffer
           /\ \A r \in Unmarshal(t, cut) : r \in TypeOf[t] /\ CutOf(t, m, r)
<1>1. bytes \in Text /\ bytes \in Seq(Byte) /\ Len(bytes) \in Nat /\ n \in Nat /\ n < Len(bytes)
  BY WritesTyped, TextTyped DEF Written, Text
<1>2. /\ cut \in Seq(Byte) /\ Len(cut) = n
      /\ \A i \in 1..n : cut[i] = bytes[i]
  <2>1. n \in 0..Len(bytes)
    BY <1>1
  <2> QED BY <1>1, <2>1, SubSeqProperties
<1>3. cut \in Buffer
  <2>1. MaxInt \in Int
    BY WordTyped DEF MaxInt
  <2> QED BY <1>1, <1>2, <2>1 DEF Buffer, Text
<1>4. EndsIn(cut, 0, bytes)
  BY <1>1, <1>2 DEF EndsIn
<1>5. Reads(t, m, ZeroOf[t], bytes) /\ ZeroOf[t] \in TypeOf[t]
  BY Shape DEF Written, Writes
<1>6. Unmarshal(t, cut) = ReadFrom(t, cut, 0, ZeroOf[t])
  BY Zenon DEF Unmarshal, Into, ReadFrom
<1>7. \A r \in ReadFrom(t, cut, 0, ZeroOf[t]) : CutOf(t, m, r)
  BY <1>3, <1>4, <1>5 DEF Reads
<1>8. ReadFrom(t, cut, 0, ZeroOf[t]) \subseteq TypeOf[t]
  BY <1>3, <1>5, ReadFromTyped
<1> QED BY <1>3, <1>6, <1>7, <1>8

-----------------------------------------------------------------------------
(* The wallet writes front to back what the node writes back to front.     *)

LEMMA TwoFields ==
    ASSUME NEW a \in Text, NEW b \in Text
    PROVE  FlattenSeq(<<a, b>>) = a \o b
<1> DEFINE seqs == <<a, b>>
           Is(f) == f = [i \in 1..2 |-> IF i = 1 THEN seqs[i] ELSE f[i - 1] \o seqs[i]]
           from == CHOOSE f : Is(f)
<1>1. Len(seqs) = 2 /\ seqs[1] = a /\ seqs[2] = b /\ Len(seqs) # 0
  OBVIOUS
<1>2. Is([i \in 1..2 |-> IF i = 1 THEN a ELSE a \o b])
  <2> DEFINE g == [i \in 1..2 |-> IF i = 1 THEN a ELSE a \o b]
  <2>1. g[1] = a
    OBVIOUS
  <2>2. ASSUME NEW i \in 1..2
        PROVE  (IF i = 1 THEN a ELSE a \o b) = IF i = 1 THEN seqs[i] ELSE g[i - 1] \o seqs[i]
    <3> HIDE DEF g
    <3>1. CASE i = 1
      BY <1>1, <3>1
    <3>2. CASE i = 2
      BY <1>1, <2>1, <3>2
    <3> QED BY <3>1, <3>2
  <2> QED BY <2>2
<1>3. Is(from)
  <2> HIDE DEF Is
  <2> QED BY <1>2
<1>4. from[1] = a /\ from[2] = a \o b
  <2> DEFINE Value(i) == IF i = 1 THEN seqs[i] ELSE from[i - 1] \o seqs[i]
  <2> HIDE DEF from
  <2>1. \A i \in 1..2 : from[i] = Value(i)
    BY <1>3
  <2>2. from[1] = a
    BY <1>1, <2>1
  <2>3. from[2] = from[2 - 1] \o seqs[2] /\ 2 - 1 = 1
    BY <2>1
  <2>4. from[2] = from[1] \o seqs[2]
    BY <2>3
  <2> QED BY <1>1, <2>2, <2>4, Zenon
<1>5. FlattenSeq(seqs) = from[2]
  <2>1. FlattenSeq(seqs) = (CHOOSE f : f = [i \in 1..Len(seqs) |->
                                 IF i = 1 THEN seqs[i] ELSE f[i - 1] \o seqs[i]])[Len(seqs)]
    <3> HIDE DEF seqs, from
    <3> QED BY <1>1 DEF FlattenSeq
  <2> QED BY <1>1, <2>1
<1> QED BY <1>4, <1>5

LEMMA TextsJoined ==
    ASSUME NEW a \in Text, NEW b \in Text, NEW c \in Text
    PROVE  (a \o b) \o c = a \o (b \o c)
  BY ConcatAssociative DEF Text

Associate(a, b, c) == (a \o b) \o c = a \o (b \o c)
LEMMA TextsAssociate ==
    ASSUME NEW a \in Text, NEW b \in Text, NEW c \in Text
    PROVE  Associate(a, b, c)
  BY TextsJoined DEF Associate

LEMMA EmptyJoined == \A a \in Text : << >> \o a = a /\ a \o << >> = a
  BY ConcatEmptySeq DEF Text

\* A field by the wallet is the field that the node writes.
LEMMA NumberFromWallet ==
    ASSUME NEW no \in 1..15, NEW rest \in Text, NEW x \in Word
    PROVE  /\ UintField(no * 8, x, rest) = WalletField(no, "uint64", x) \o rest
           /\ WalletField(no, "uint64", x) \in Text
<1> DEFINE field == WalletField(no, "uint64", x)
<1>1. <<no * 8>> \in Text /\ Groups7[x] \in Text /\ << >> \in Text
  <2>1. no * 8 \in Byte
    BY DEF Byte
  <2> QED BY <2>1, WordTyped, Groups7Encodes DEF Encodes, Text
<1>2. CASE x # 0
  <2>1. field = <<no * 8>> \o Groups7[x]
    BY <1>2 DEF WalletField
  <2>2. UintField(no * 8, x, rest) = <<no * 8>> \o (Groups7[x] \o rest)
    BY <1>2, VarintWritten DEF UintField
  <2>3. <<no * 8>> \o (Groups7[x] \o rest) = (<<no * 8>> \o Groups7[x]) \o rest
        /\ <<no * 8>> \o Groups7[x] \in Text
    <3> DEFINE head == <<no * 8>>
               g == Groups7[x]
    <3>1. head \in Text /\ g \in Text
      BY <1>1
    <3> HIDE DEF head, g
    <3>2. head \o (g \o rest) = (head \o g) \o rest /\ head \o g \in Text
      BY <3>1, TextsJoined, TextJoined, ZenonT(60)
    <3> QED BY <3>2 DEF head, g
  <2> QED BY <2>1, <2>2, <2>3
<1>3. CASE x = 0
  <2>1. field = << >>
    BY <1>3 DEF WalletField
  <2>2. UintField(no * 8, x, rest) = rest
    BY <1>3 DEF UintField
  <2> QED BY <1>1, <2>1, <2>2, EmptyJoined
<1> QED BY <1>2, <1>3

LEMMA SwitchFromWallet ==
    ASSUME NEW no \in 1..15, NEW rest \in Text, NEW on \in BOOLEAN
    PROVE  /\ BoolField(no * 8, on, rest) = WalletField(no, "bool", on) \o rest
           /\ WalletField(no, "bool", on) \in Text
<1>1. <<no * 8, 1>> \in Text /\ << >> \in Text
  BY DEF Byte, Text
<1>2. CASE on
  <2>1. WalletField(no, "bool", on) = <<no * 8, 1>>
    BY <1>2 DEF WalletField
  <2>2. BoolField(no * 8, on, rest) = <<no * 8, 1>> \o rest
    BY <1>2 DEF BoolField
  <2> QED BY <1>1, <2>1, <2>2
<1>3. CASE ~on
  <2>1. WalletField(no, "bool", on) = << >>
    BY <1>3 DEF WalletField
  <2>2. BoolField(no * 8, on, rest) = rest
    BY <1>3 DEF BoolField
  <2> QED BY <1>1, <2>1, <2>2, EmptyJoined
<1> QED BY <1>2, <1>3

LEMMA BytesFromWallet ==
    ASSUME NEW no \in 1..15, NEW rest \in Text, NEW s \in Text, Len(s) <= MaxInt
    PROVE  /\ MessageField(no * 8 + 2, s, rest) = (<<no * 8 + 2>> \o Groups7[Len(s)] \o s) \o rest
           /\ <<no * 8 + 2>> \o Groups7[Len(s)] \o s \in Text
<1> DEFINE head == <<no * 8 + 2>>
           g == Groups7[Len(s)]
<1>1. head \in Text
  <2>1. no * 8 + 2 \in Byte
    BY DEF Byte
  <2> QED BY <2>1 DEF Text
<1>2. Len(s) \in Word
  BY TextTyped, WordTyped DEF MaxInt, Word
<1>3. g \in Text
  BY <1>2, WordTyped, Groups7Encodes DEF Encodes, Text
<1>4. s \o rest \in Text /\ g \o s \in Text /\ head \o g \in Text /\ (head \o g) \o s \in Text
  BY <1>1, <1>3, TextJoined
<1>5. MessageField(no * 8 + 2, s, rest) = head \o (g \o (s \o rest))
  BY <1>2, <1>4, VarintWritten DEF MessageField
<1> HIDE DEF head, g
<1>6. head \o (g \o (s \o rest)) = (head \o g) \o (s \o rest)
  <2> DEFINE tail == s \o rest
  <2>1. tail \in Text
    BY <1>4
  <2> HIDE DEF tail
  <2>2. (head \o g) \o tail = head \o (g \o tail)
    BY ONLY <1>1, <1>3, <2>1, TextsJoined
  <2> QED BY <2>2 DEF tail
<1>7. (head \o g) \o (s \o rest) = ((head \o g) \o s) \o rest
  <2> DEFINE both == head \o g
  <2>1. both \in Text
    BY ONLY <1>4
  <2> HIDE DEF both
  <2>2. both \o (s \o rest) = (both \o s) \o rest
    BY <2>1, TextsJoined
  <2> QED BY <2>2 DEF both
<1> QED BY <1>4, <1>5, <1>6, <1>7 DEF head, g

IsWalletString(tag, no, s, rest) ==
    /\ StringField(tag, s, rest) = WalletField(no, "string", s) \o rest
    /\ WalletField(no, "string", s) \in Text
LEMMA StringFromWallet ==
    ASSUME NEW no \in 1..15, NEW tag, tag = no * 8 + 2, NEW rest \in Text, NEW s \in Text, Len(s) <= MaxInt
    PROVE  IsWalletString(tag, no, s, rest)
<1> SUFFICES /\ StringField(no * 8 + 2, s, rest) = WalletField(no, "string", s) \o rest
             /\ WalletField(no, "string", s) \in Text
  BY DEF IsWalletString
<1>1. CASE s # << >>
  <2>1. WalletField(no, "string", s) = <<no * 8 + 2>> \o Groups7[Len(s)] \o s
    BY <1>1 DEF WalletField
  <2>2. StringField(no * 8 + 2, s, rest) = MessageField(no * 8 + 2, s, rest)
    BY <1>1 DEF StringField
  <2> DEFINE field == <<no * 8 + 2>> \o Groups7[Len(s)] \o s
  <2>3. MessageField(no * 8 + 2, s, rest) = field \o rest /\ field \in Text
    BY BytesFromWallet
  <2> HIDE DEF field
  <2>4. WalletField(no, "string", s) = field
    BY <2>1 DEF field
  <2> QED BY <2>2, <2>3, <2>4
<1>2. CASE s = << >>
  <2>1. WalletField(no, "string", s) = << >>
    BY <1>2 DEF WalletField
  <2>2. StringField(no * 8 + 2, s, rest) = rest
    BY <1>2 DEF StringField
  <2> QED BY <1>2, <2>1, <2>2, EmptyJoined
<1> QED BY <1>1, <1>2

\* A message of two fields.
LEMMA PairFromWallet ==
    ASSUME NEW first, NEW second, NEW kind, NEW m,
           WalletField(1, "string", m[first]) \in Text, WalletField(2, kind, m[second]) \in Text
    PROVE  stringsMsg(WalletFields(first, second, kind), m)
              = WalletField(1, "string", m[first]) \o WalletField(2, kind, m[second])
<1> DEFINE fields == WalletFields(first, second, kind)
           parts == [i \in DOMAIN fields |-> WalletField(fields[i].no, fields[i].kind, m[fields[i].name])]
           a == WalletField(1, "string", m[first])
           b == WalletField(2, kind, m[second])
<1>1. /\ DOMAIN fields = 1..2
      /\ fields[1].no = 1 /\ fields[1].kind = "string" /\ fields[1].name = first
      /\ fields[2].no = 2 /\ fields[2].kind = kind /\ fields[2].name = second
  BY DEF WalletFields
<1> HIDE DEF fields
<1>2. DOMAIN parts = 1..2 /\ parts[1] = a /\ parts[2] = b /\ parts = [i \in 1..2 |-> parts[i]]
  BY <1>1
<1> HIDE DEF parts
<1>3. parts = <<a, b>>
  <2> HIDE DEF a, b
  <2>1. \A i \in 1..2 : parts[i] = <<a, b>>[i]
    BY <1>2
  <2>2. <<a, b>> = [i \in 1..2 |-> <<a, b>>[i]]
    OBVIOUS
  <2> QED BY <1>2, <2>1, <2>2
<1>4. FlattenSeq(parts) = a \o b
  <2> HIDE DEF a, b
  <2>1. a \in Text /\ b \in Text
    BY DEF a, b
  <2> QED BY <1>3, <2>1, TwoFields
<1> QED BY <1>4 DEF stringsMsg, parts, fields, a, b

SixAssociate(a, b, c, d, e, f) ==
    a \o b \o c \o d \o e \o f = a \o (b \o ((c \o d \o e) \o f))
LEMMA SixJoined ==
    ASSUME NEW a \in Text, NEW b \in Text, NEW c \in Text, NEW d \in Text, NEW e \in Text, NEW f \in Text
    PROVE  SixAssociate(a, b, c, d, e, f)
<1> DEFINE ab == a \o b
           cd == c \o d
           cde == cd \o e
           cdef == cde \o f
<1>1. ab \in Text /\ cd \in Text /\ cde \in Text /\ cdef \in Text
  <2>1. cd \in Text /\ ab \in Text
    BY TextJoined
  <2> HIDE DEF cd, ab
  <2>2. cde \in Text
    BY <2>1, TextJoined
  <2> HIDE DEF cde
  <2>3. cdef \in Text
    BY <2>2, TextJoined
  <2> QED BY <2>1, <2>2, <2>3
<1> HIDE DEF ab, cd, cde, cdef
<1>2. Associate(ab, c, d) /\ Associate(ab, cd, e) /\ Associate(ab, cde, f) /\ Associate(a, b, cdef)
  BY <1>1, TextsAssociate
<1>3. (ab \o c) \o d = ab \o cd
  BY <1>2 DEF Associate, cd
<1>4. (ab \o cd) \o e = ab \o cde
  BY <1>2 DEF Associate, cde
<1>5. (ab \o cde) \o f = ab \o cdef
  BY <1>2 DEF Associate, cdef
<1>6. ab \o cdef = a \o (b \o cdef)
  BY <1>2 DEF Associate, ab
<1>7. ((((ab \o c) \o d) \o e) \o f) = a \o (b \o cdef)
  BY <1>3, <1>4, <1>5, <1>6
<1> QED BY <1>7, Zenon DEF ab, cd, cde, cdef, SixAssociate

LEMMA Fits ==
    /\ MaxInt \in Nat
    /\ \A s \in Text : StringSize(s) \in Nat /\ Len(s) \in Nat /\ Len(s) <= StringSize(s)
    /\ \A n \in Nat : MessageSize(n) \in Nat /\ n <= MessageSize(n)
    /\ \A x \in Word : UintSize(x) \in Nat
    /\ \A b \in BOOLEAN : BoolSize(b) \in Nat
<1>1. \A n \in Nat : MessageSize(n) \in Nat /\ n <= MessageSize(n)
  <2>1. \A n \in Nat : sov(n) \in Nat
    BY VarintTyped, Zeros
  <2> QED BY <2>1 DEF MessageSize
<1>2. \A s \in Text : StringSize(s) \in Nat /\ Len(s) \in Nat /\ Len(s) <= StringSize(s)
  BY <1>1, TextTyped DEF StringSize
<1>3. MaxInt \in Nat
  BY WordTyped DEF MaxInt
<1> QED BY <1>1, <1>2, <1>3, SizesTyped

LEMMA CoinFromWallet ==
    ASSUME NEW m \in CoinType, CoinSize(m) <= MaxInt
    PROVE  stringsMsg(WalletFields("denom", "amount", "string"), m) = CoinBytes(m)
<1>1. m.denom \in Text /\ m.amount \in Text /\ << >> \in Text
  BY Zeros DEF CoinType
<1>2. Len(m.denom) <= MaxInt /\ Len(m.amount) <= MaxInt
  <2>1. /\ StringSize(m.denom) \in Nat /\ Len(m.denom) \in Nat /\ Len(m.denom) <= StringSize(m.denom)
        /\ StringSize(m.amount) \in Nat /\ Len(m.amount) \in Nat /\ Len(m.amount) <= StringSize(m.amount)
        /\ MaxInt \in Nat
    BY <1>1, Fits
  <2> QED BY <2>1 DEF CoinSize
<1> DEFINE a == WalletField(1, "string", m.denom)
           b == WalletField(2, "string", m.amount)
<1>3. StringField(\h12, m.amount, << >>) = b \o << >> /\ b \in Text
  <2>1. 2 \in 1..15 /\ \h12 = 2 * 8 + 2
    OBVIOUS
  <2>2. IsWalletString(\h12, 2, m.amount, << >>)
    BY <1>1, <1>2, <2>1, StringFromWallet
  <2> QED BY <2>2 DEF IsWalletString
<1>4. StringField(\h0a, m.denom, b) = a \o b /\ a \in Text
  <2>1. 1 \in 1..15 /\ \h0a = 1 * 8 + 2
    OBVIOUS
  <2> HIDE DEF b
  <2>2. IsWalletString(\h0a, 1, m.denom, b)
    BY <1>1, <1>2, <1>3, <2>1, StringFromWallet
  <2> QED BY <2>2 DEF IsWalletString
<1>5. b \o << >> = b
  BY <1>3, EmptyJoined
<1>6. stringsMsg(WalletFields("denom", "amount", "string"), m) = a \o b
  BY <1>3, <1>4, PairFromWallet
<1> HIDE DEF a, b
<1> QED BY <1>3, <1>4, <1>5, <1>6 DEF CoinBytes

LEMMA CancelSendFromWallet ==
    ASSUME NEW m \in MsgCancelSendType, MsgCancelSendSize(m) <= MaxInt
    PROVE  WalletCancelSend(m) = MsgCancelSendBytes(m)
<1>1. m.creator \in Text /\ m.id \in Word /\ << >> \in Text
  BY Zeros DEF MsgCancelSendType
<1>2. Len(m.creator) <= MaxInt
  <2>1. /\ StringSize(m.creator) \in Nat /\ Len(m.creator) \in Nat /\ Len(m.creator) <= StringSize(m.creator)
        /\ UintSize(m.id) \in Nat /\ MaxInt \in Nat
    BY <1>1, Fits
  <2> QED BY <2>1 DEF MsgCancelSendSize
<1> DEFINE a == WalletField(1, "string", m.creator)
           b == WalletField(2, "uint64", m.id)
<1>3. UintField(\h10, m.id, << >>) = b \o << >> /\ b \in Text
  <2>1. 2 \in 1..15 /\ \h10 = 2 * 8
    OBVIOUS
  <2> QED BY <1>1, <2>1, NumberFromWallet
<1>4. StringField(\h0a, m.creator, b) = a \o b /\ a \in Text
  <2>1. 1 \in 1..15 /\ \h0a = 1 * 8 + 2
    OBVIOUS
  <2> HIDE DEF b
  <2>2. IsWalletString(\h0a, 1, m.creator, b)
    BY <1>1, <1>2, <1>3, <2>1, StringFromWallet
  <2> QED BY <2>2 DEF IsWalletString
<1>5. b \o << >> = b
  BY <1>3, EmptyJoined
<1>6. WalletCancelSend(m) = a \o b
  BY <1>3, <1>4, PairFromWallet DEF WalletCancelSend
<1> HIDE DEF a, b
<1> QED BY <1>3, <1>4, <1>5, <1>6 DEF MsgCancelSendBytes

LEMMA SetFinalOnlyFromWallet ==
    ASSUME NEW m \in MsgSetFinalOnlyType, MsgSetFinalOnlySize(m) <= MaxInt
    PROVE  WalletSetFinalOnly(m) = MsgSetFinalOnlyBytes(m)
<1>1. m.creator \in Text /\ m.finalonly \in BOOLEAN /\ << >> \in Text
  BY Zeros DEF MsgSetFinalOnlyType
<1>2. Len(m.creator) <= MaxInt
  <2>1. /\ StringSize(m.creator) \in Nat /\ Len(m.creator) \in Nat /\ Len(m.creator) <= StringSize(m.creator)
        /\ BoolSize(m.finalonly) \in Nat /\ MaxInt \in Nat
    BY <1>1, Fits
  <2> QED BY <2>1 DEF MsgSetFinalOnlySize
<1> DEFINE a == WalletField(1, "string", m.creator)
           b == WalletField(2, "bool", m.finalonly)
<1>3. BoolField(\h10, m.finalonly, << >>) = b \o << >> /\ b \in Text
  <2>1. 2 \in 1..15 /\ \h10 = 2 * 8
    OBVIOUS
  <2> QED BY <1>1, <2>1, SwitchFromWallet
<1>4. StringField(\h0a, m.creator, b) = a \o b /\ a \in Text
  <2>1. 1 \in 1..15 /\ \h0a = 1 * 8 + 2
    OBVIOUS
  <2> HIDE DEF b
  <2>2. IsWalletString(\h0a, 1, m.creator, b)
    BY <1>1, <1>2, <1>3, <2>1, StringFromWallet
  <2> QED BY <2>2 DEF IsWalletString
<1>5. b \o << >> = b
  BY <1>3, EmptyJoined
<1>6. WalletSetFinalOnly(m) = a \o b
  BY <1>3, <1>4, PairFromWallet DEF WalletSetFinalOnly
<1> HIDE DEF a, b
<1> QED BY <1>3, <1>4, <1>5, <1>6 DEF MsgSetFinalOnlyBytes

LEMMA DelayedSendFromWallet ==
    ASSUME NEW m \in MsgDelayedSendType, MsgDelayedSendSize(m) <= MaxInt
    PROVE  WalletDelayedSend(m) = MsgDelayedSendBytes(m)
<1> DEFINE coin == CoinBytes(m.amount)
           a == WalletField(1, "string", m.creator)
           b == WalletField(2, "string", m.recipient)
           c == <<26>>
           d == Groups7[Len(coin)]
           f == WalletField(4, "uint64", m.window)
<1>1. m.creator \in Text /\ m.recipient \in Text /\ m.amount \in CoinType /\ m.window \in Word
      /\ << >> \in Text
  BY Zeros DEF MsgDelayedSendType
<1>2. coin \in Text /\ CoinSize(m.amount) \in Nat /\ Len(coin) = CoinSize(m.amount)
  BY <1>1, CoinWritten, WritesTyped
<1>3. /\ Len(m.creator) <= MaxInt /\ Len(m.recipient) <= MaxInt
      /\ CoinSize(m.amount) <= MaxInt /\ Len(coin) <= MaxInt
  <2> HIDE DEF coin
  <2>1. /\ StringSize(m.creator) \in Nat /\ Len(m.creator) \in Nat /\ Len(m.creator) <= StringSize(m.creator)
        /\ StringSize(m.recipient) \in Nat /\ Len(m.recipient) \in Nat
        /\ Len(m.recipient) <= StringSize(m.recipient)
    BY <1>1, Fits
  <2>2. /\ MessageSize(CoinSize(m.amount)) \in Nat /\ CoinSize(m.amount) <= MessageSize(CoinSize(m.amount))
        /\ UintSize(m.window) \in Nat /\ MaxInt \in Nat
    BY <1>1, <1>2, Fits
  <2> QED BY <1>2, <2>1, <2>2 DEF MsgDelayedSendSize
<1>4. stringsMsg(WalletFields("denom", "amount", "string"), m.amount) = coin
  BY <1>1, <1>3, CoinFromWallet
<1>5. UintField(\h20, m.window, << >>) = f /\ f \in Text
  <2>1. 4 \in 1..15 /\ \h20 = 4 * 8
    OBVIOUS
  <2>2. UintField(\h20, m.window, << >>) = f \o << >> /\ f \in Text
    BY <1>1, <2>1, NumberFromWallet
  <2> HIDE DEF f
  <2> QED BY <2>2, EmptyJoined
<1>6. c \in Text /\ d \in Text
  <2>1. Len(coin) \in Word
    BY <1>2, <1>3, WordTyped DEF MaxInt, Word
  <2>2. d \in Text
    BY <2>1, WordTyped, Groups7Encodes DEF Encodes, Text
  <2>3. c \in Text
    BY DEF Text, Byte
  <2> QED BY <2>2, <2>3
<1> HIDE DEF coin, f
<1>7. MessageField(\h1a, coin, f) = (c \o d \o coin) \o f /\ c \o d \o coin \in Text
  <2>1. 3 \in 1..15 /\ \h1a = 3 * 8 + 2
    OBVIOUS
  <2>2. /\ MessageField(3 * 8 + 2, coin, f) = (<<3 * 8 + 2>> \o Groups7[Len(coin)] \o coin) \o f
        /\ <<3 * 8 + 2>> \o Groups7[Len(coin)] \o coin \in Text
    BY <1>2, <1>3, <1>5, <2>1, BytesFromWallet
  <2>3. <<3 * 8 + 2>> = c
    OBVIOUS
  <2> HIDE DEF c
  <2> QED BY <2>1, <2>2, <2>3
<1> DEFINE rest == (c \o d \o coin) \o f
<1>8. rest \in Text
  <2> HIDE DEF c, d
  <2> DEFINE head == c \o d \o coin
  <2>1. head \in Text
    BY <1>7
  <2> HIDE DEF head
  <2>2. head \o f \in Text
    BY <1>5, <2>1, TextJoined
  <2> QED BY <2>2 DEF head
<1> HIDE DEF rest
<1>9. StringField(\h12, m.recipient, rest) = b \o rest /\ b \in Text
  <2>1. 2 \in 1..15 /\ \h12 = 2 * 8 + 2
    OBVIOUS
  <2>2. IsWalletString(\h12, 2, m.recipient, rest)
    BY <1>1, <1>3, <1>8, <2>1, StringFromWallet
  <2> QED BY <2>2 DEF IsWalletString
<1> HIDE DEF b
<1>10. b \o rest \in Text
  BY <1>8, <1>9, TextJoined
<1>11. StringField(\h0a, m.creator, b \o rest) = a \o (b \o rest) /\ a \in Text
  <2>1. 1 \in 1..15 /\ \h0a = 1 * 8 + 2
    OBVIOUS
  <2>2. IsWalletString(\h0a, 1, m.creator, b \o rest)
    BY <1>1, <1>3, <1>10, <2>1, StringFromWallet
  <2> QED BY <2>2 DEF IsWalletString
<1> HIDE DEF a, c, d
<1>12. MsgDelayedSendBytes(m) = a \o (b \o rest)
  BY <1>5, <1>7, <1>9, <1>11 DEF MsgDelayedSendBytes, coin, rest
<1>13. a \o b \o c \o d \o coin \o f = a \o (b \o rest)
  <2>1. a \in Text /\ b \in Text /\ c \in Text /\ d \in Text /\ coin \in Text /\ f \in Text
    BY <1>2, <1>5, <1>6, <1>9, <1>11 DEF a, b, c, d, coin, f
  <2>2. SixAssociate(a, b, c, d, coin, f)
    BY <2>1, SixJoined
  <2> QED BY <2>2 DEF SixAssociate, rest
<1>14. WalletDelayedSend(m) = a \o b \o c \o d \o coin \o f
  BY <1>4 DEF WalletDelayedSend, a, b, c, d, f
<1> QED BY <1>12, <1>13, <1>14

\* The wallet's three encoders, written by hand from the first field to the last
\* (wallet/src/chain.js), make the very bytes that the generated code makes.
THEOREM WalletMarshals ==
    ASSUME NEW t \in {"MsgDelayedSend", "MsgCancelSend", "MsgSetFinalOnly"}, NEW m \in TypeOf[t],
           \A bytes \in Marshal(t, m) : Len(bytes) <= MaxInt
    PROVE  Marshal(t, m) = {WalletEncodes(t, m)}
<1>1. CASE t = "MsgDelayedSend"
  <2>1. /\ Marshal(t, m) = Filled(MsgDelayedSendBytes(m), MsgDelayedSendSize(m))
        /\ WalletEncodes(t, m) = WalletDelayedSend(m) /\ m \in MsgDelayedSendType
    BY <1>1, MsgDelayedSendRows DEF Marshal, WalletEncodes
  <2>2. MsgDelayedSendBytes(m) \in Text /\ Len(MsgDelayedSendBytes(m)) = MsgDelayedSendSize(m)
    BY <2>1, MsgDelayedSendWritten, WritesTyped
  <2>3. Marshal(t, m) = {MsgDelayedSendBytes(m)}
    BY <2>1, <2>2, FilledWhole
  <2> QED BY <2>1, <2>2, <2>3, DelayedSendFromWallet
<1>2. CASE t = "MsgCancelSend"
  <2>1. /\ Marshal(t, m) = Filled(MsgCancelSendBytes(m), MsgCancelSendSize(m))
        /\ WalletEncodes(t, m) = WalletCancelSend(m) /\ m \in MsgCancelSendType
    BY <1>2, MsgCancelSendRows DEF Marshal, WalletEncodes
  <2>2. MsgCancelSendBytes(m) \in Text /\ Len(MsgCancelSendBytes(m)) = MsgCancelSendSize(m)
    BY <2>1, MsgCancelSendWritten, WritesTyped
  <2>3. Marshal(t, m) = {MsgCancelSendBytes(m)}
    BY <2>1, <2>2, FilledWhole
  <2> QED BY <2>1, <2>2, <2>3, CancelSendFromWallet
<1>3. CASE t = "MsgSetFinalOnly"
  <2>1. /\ Marshal(t, m) = Filled(MsgSetFinalOnlyBytes(m), MsgSetFinalOnlySize(m))
        /\ WalletEncodes(t, m) = WalletSetFinalOnly(m) /\ m \in MsgSetFinalOnlyType
    BY <1>3, MsgSetFinalOnlyRows DEF Marshal, WalletEncodes
  <2>2. MsgSetFinalOnlyBytes(m) \in Text /\ Len(MsgSetFinalOnlyBytes(m)) = MsgSetFinalOnlySize(m)
    BY <2>1, MsgSetFinalOnlyWritten, WritesTyped
  <2>3. Marshal(t, m) = {MsgSetFinalOnlyBytes(m)}
    BY <2>1, <2>2, FilledWhole
  <2> QED BY <2>1, <2>2, <2>3, SetFinalOnlyFromWallet
<1> QED BY <1>1, <1>2, <1>3
=============================================================================
