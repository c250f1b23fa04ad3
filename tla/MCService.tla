----------------------------- MODULE MCService -----------------------------
(***************************************************************************)
(* Tables and messages with the values at which encodings change: zero,    *)
(* the last number of one group and the first of two, the largest number,  *)
(* negative times, empty and longer names.                                 *)
(***************************************************************************)
EXTENDS ServiceProperties

max == WordSize - 1
ann == <<97>>
bea == <<98, 200>>

CoinsSent == {[denom |-> <<117>>, amount |-> <<49, 48>>]}
NoCoin == [denom |-> << >>, amount |-> << >>]
Sends == [id : {0, 127, 128}, sender : {ann}, recipient : {bea}, amount : CoinsSent,
          executeat : {0, 300, -1}]
SendNo(id, at) == [id |-> id, sender |-> ann, recipient |-> bea,
                   amount |-> The(CoinsSent), executeat |-> at]
Tallies == [index : {ann, bea}, sent : {0, 1}, cancelled : {0, 200}, finalonly : BOOLEAN]
TallyOf(addr, on) == [index |-> addr, sent |-> 3, cancelled |-> 1, finalonly |-> on]
SomeParams == [minwindow |-> 1, defaultwindow |-> 128, maxwindow |-> max]
NoParams == [minwindow |-> 0, defaultwindow |-> 0, maxwindow |-> 0]
Paging == {NoPage, [NoPage EXCEPT !.limit = 1], [NoPage EXCEPT !.offset = 1, !.countTotal = TRUE],
           [NoPage EXCEPT !.key = <<127>>, !.limit = 1], [NoPage EXCEPT !.key = bea, !.reverse = TRUE],
           [NoPage EXCEPT !.key = <<127>>, !.reverse = TRUE], [NoPage EXCEPT !.limit = 1, !.reverse = TRUE],
           [NoPage EXCEPT !.key = <<127>>, !.offset = 1]}

TableOfSends(ids) == [key \in {<<id>> : id \in ids} |-> SendNo(key[1], 300)]
MCBooks ==
    {[params |-> {}, pending |-> TableOfSends({}), record |-> [a \in {} |-> {}]],
     [params |-> {SomeParams}, pending |-> TableOfSends({0, 127, 200}),
      record |-> [a \in {ann, bea} |-> TallyOf(a, a = bea)]],
     [params |-> {NoParams}, pending |-> TableOfSends({0, 5, 127, 200}),
      record |-> [a \in {bea} |-> TallyOf(a, TRUE)]]}

Typed(type, set) == {[type |-> type, m |-> m] : m \in set}
MCPosts ==
    Typed("GenesisState",
          {GenesisStateZero,
           [params |-> SomeParams, pendingList |-> <<SendNo(0, -1), SendNo(128, 0)>>,
            pendingCount |-> 129, recordMap |-> <<TallyOf(ann, TRUE), TallyOf(bea, FALSE)>>]})
    \cup Typed("Module", [authority : {<< >>, ann}])
    \cup Typed("Pending", Sends) \cup Typed("Record", Tallies)
    \cup Typed("MsgUpdateParams", [authority : {ann}, params : {NoParams, SomeParams}])
    \cup Typed("MsgUpdateParamsResponse", {<< >>})
    \cup Typed("MsgDelayedSend",
               [creator : {ann}, recipient : {<< >>, bea}, amount : CoinsSent \cup {NoCoin},
                window : {0, 127, max}])
    \cup Typed("MsgDelayedSendResponse", [id : {0, 16383, 16384}, final : BOOLEAN])
    \cup Typed("MsgCancelSend", [creator : {ann}, id : {0, 128}])
    \cup Typed("MsgCancelSendResponse", {<< >>})
    \cup Typed("MsgSetFinalOnly", [creator : {ann, [i \in 1..130 |-> 97]}, finalonly : BOOLEAN])
    \cup Typed("MsgSetFinalOnlyResponse", {<< >>})
MCRequests ==
    Typed("QueryParamsRequest", {<< >>})
    \cup Typed("QueryGetPendingRequest", [id : {0, 1, 127}])
    \cup Typed("QueryAllPendingRequest", {[pagination |-> p] : p \in {{}} \cup {{p} : p \in Paging}})
    \cup Typed("QueryGetRecordRequest", [index : {ann, bea, << >>}])
    \cup Typed("QueryAllRecordRequest", {[pagination |-> p] : p \in {{}} \cup {{p} : p \in Paging}})

\* Field 15 as a varint, as eight bytes, as a name, as a group with a name in it and
\* as four bytes.
MCUnknownFields ==
    {<<120, 128, 1>>, <<121, 8, 7, 6, 5, 4, 3, 2, 1>>, <<122, 2, 8, 9>>,
     <<123, 122, 1, 8, 124>>, <<125, 8, 1, 18, 0>>}
=============================================================================
