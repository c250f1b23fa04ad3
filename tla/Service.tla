------------------------------ MODULE Service ------------------------------
(***************************************************************************)
(* The undo module seen from outside: tables that hold bytes, queries that *)
(* come through the REST gateway (query.pb.gw.go) to the query server      *)
(* (keeper/query*.go) and go back, and the transactions and other messages *)
(* that a wallet, a node or a tool encodes for somebody else to decode.    *)
(*                                                                         *)
(* One call is under way at a time, and the tables stand still: what the   *)
(* handlers do to them is Undo.tla, and what a client sees of a table that *)
(* changes between two pages is Wallet.tla.                                *)
(***************************************************************************)
EXTENDS Codec

CONSTANTS
    BooksChoice,   \* what the tables may hold: parameters, sends by id, records by address
    Posts,         \* messages, with their types, that programs send each other
    Requests,      \* query requests, with their types
    UnknownFields, \* fields of a later version of a message, as bytes
    DefaultLimit   \* the rows of a page whose size nobody asked for: 100

VARIABLES
    books,  \* the values that have been stored
    tables, \* the stores: the same as bytes
    call,   \* the message under way, or the last one that arrived
    walk    \* a client's walk through the pages of the pending table

svars == <<books, tables, call, walk>>

\* Bound: no program holds a message whose bytes an int cannot count.
HasRoom(type, m) == Marshal(type, m) \subseteq Buffer

ASSUME BooksAssumption ==
    \A b \in BooksChoice :
        /\ b.params \in Pointer(ParamsType)
        /\ \A params \in b.params : HasRoom("Params", params)
        /\ b.pending \in [DOMAIN b.pending -> PendingType]
        /\ DOMAIN b.pending \subseteq {<<id>> : id \in Byte}
        /\ \A key \in DOMAIN b.pending :
              b.pending[key].id = key[1] /\ HasRoom("Pending", b.pending[key])
        /\ b.record \in [DOMAIN b.record -> RecordType]
        /\ DOMAIN b.record \subseteq Text \ {<< >>}
        /\ \A key \in DOMAIN b.record : HasRoom("Record", b.record[key])
        /\ \A table \in {b.pending, b.record} :
              IsFiniteSet(DOMAIN table) /\ Cardinality(DOMAIN table) \in Word
ASSUME PostsAssumption ==
    \A p \in Posts : p.type \in Marshalled /\ p.m \in TypeOf[p.type]
ASSUME UnknownAssumption == \A field \in UnknownFields : IsUnknown(field)
ASSUME LimitAssumption == DefaultLimit \in Nat \ {0}

Option(type, set) == UNION {Marshal(type, value) : value \in set}
Idle == [stage |-> "idle"]
OnWire(type, by, asked, meant, bytes) ==
    [stage |-> "wire", type |-> type, by |-> by, asked |-> asked, meant |-> meant,
     bytes |-> bytes, fate |-> "whole"]
Refused(code, asked) == [stage |-> "refused", code |-> code, asked |-> asked]

RequestTypes == {"QueryParamsRequest", "QueryGetPendingRequest", "QueryAllPendingRequest",
                 "QueryGetRecordRequest", "QueryAllRecordRequest"}
ASSUME RequestsAssumption ==
    \A p \in Requests : p.type \in RequestTypes /\ p.m \in TypeOf[p.type]

-----------------------------------------------------------------------------
(* collections.Map with codec.CollValue, and the SDK's pagination of it.   *)

Loaded(type, stored) == UNION {Unmarshal(type, bytes) : bytes \in stored}

\* The order of the keys, byte by byte; the eight bytes of an id are one number.
Before(a, b) ==
    \E n \in 0..Len(a) :
        /\ n < Len(b) /\ \A i \in 1..n : a[i] = b[i]
        /\ n < Len(a) => a[n + 1] < b[n + 1]

Ahead(reverse, a, b) == IF reverse THEN Before(b, a) ELSE Before(a, b)
InOrder(reverse, keys) ==
    [n \in 1..Cardinality(keys) |->
        CHOOSE key \in keys : Cardinality({k \in keys : Ahead(reverse, k, key)}) = n - 1]

NoPage == [key |-> << >>, offset |-> 0, limit |-> 0, countTotal |-> FALSE, reverse |-> FALSE]

\* Mutant: the next page starts with the last row of this one.
PageFromLast(keys, first, limit) ==
    [rows |-> SubSeq(keys, first, Min({first + limit - 1, Len(keys)})),
     next |-> IF first + limit <= Len(keys) THEN keys[first + limit - 1] ELSE << >>]
Page(keys, first, limit) ==
    [rows |-> SubSeq(keys, first, Min({first + limit - 1, Len(keys)})),
     next |-> IF first + limit <= Len(keys) THEN keys[first + limit] ELSE << >>]

\* query.CollectionPaginate: nothing, if a key and an offset come together.
Paginated(keys, asked) ==
    LET earlier == {i \in DOMAIN keys : Ahead(asked.reverse, keys[i], asked.key)}
        limit == IF asked.limit = 0 THEN DefaultLimit ELSE asked.limit
        counts == asked.key = << >> /\ (asked.countTotal \/ asked.limit = 0)
        skipped == IF asked.key # << >> THEN Cardinality(earlier) ELSE asked.offset
    IN  {[rows |-> page.rows,
          pagination |-> {[nextKey |-> page.next, total |-> IF counts THEN Len(keys) ELSE 0]}]
         : page \in {Page(keys, 1 + skipped, limit)}}
CollectionPaginate(table, pagination) ==
    UNION {IF asked.key # << >> /\ asked.offset > 0 THEN {}
           ELSE Paginated(InOrder(asked.reverse, DOMAIN table), asked)
           : asked \in IF pagination = {} THEN {NoPage} ELSE pagination}

-----------------------------------------------------------------------------
(* keeper/query*.go.  A reply is a code, and with OK an answer; there is    *)
(* none when bytes of the store or a page cannot be read, which is reported *)
(* as Internal.                                                             *)

Reply(answer) == [code |-> "OK", answer |-> answer]
Fails(code) == [code |-> code]

queryParams(m) ==
    {Reply([params |-> params])
     : params \in IF tables.params = {} THEN {ParamsZero} ELSE Loaded("Params", tables.params)}

\* sdkerrors.ErrKeyNotFound carries no gRPC code of its own.
GetPending(m) ==
    IF <<m.id>> \notin DOMAIN tables.pending THEN {Fails("Unknown")}
    ELSE {Reply([pending |-> send]) : send \in Loaded("Pending", tables.pending[<<m.id>>])}

\* Mutant: the address is not looked at, the first record will do.
GetRecordOfAnyone(m) ==
    IF DOMAIN tables.record = {} THEN {Fails("NotFound")}
    ELSE {Reply([record |-> record])
          : record \in Loaded("Record", tables.record[CHOOSE a \in DOMAIN tables.record : TRUE])}
\* Mutant: the error of the store is passed on as it is, as GetPending does.
GetRecordWithoutCode(m) ==
    IF m.index \notin DOMAIN tables.record THEN {Fails("Unknown")}
    ELSE {Reply([record |-> record]) : record \in Loaded("Record", tables.record[m.index])}
GetRecord(m) ==
    IF m.index \notin DOMAIN tables.record THEN {Fails("NotFound")}
    ELSE {Reply([record |-> record]) : record \in Loaded("Record", tables.record[m.index])}

\* A row that cannot be decoded ends the listing.
Listed(type, table, pagination) ==
    UNION {{[rows |-> [i \in DOMAIN rows |-> The(rows[i])], pagination |-> page.pagination]
            : rows \in {r \in {[i \in DOMAIN page.rows |-> Loaded(type, table[page.rows[i]])]} :
                           \A i \in DOMAIN r : r[i] # {}}}
           : page \in CollectionPaginate(table, pagination)}

ListPending(m) ==
    {Reply([pending |-> listed.rows, pagination |-> listed.pagination])
     : listed \in Listed("Pending", tables.pending, m.pagination)}
ListRecord(m) ==
    {Reply([record |-> listed.rows, pagination |-> listed.pagination])
     : listed \in Listed("Record", tables.record, m.pagination)}

\* The _Query_..._Handler functions and the service description.
Dispatch(type, m) ==
    CASE type = "QueryParamsRequest" -> queryParams(m)
      [] type = "QueryGetPendingRequest" -> GetPending(m)
      [] type = "QueryAllPendingRequest" -> ListPending(m)
      [] type = "QueryGetRecordRequest" -> GetRecord(m)
      [] type = "QueryAllRecordRequest" -> ListRecord(m)
ResponseTo ==
    [QueryParamsRequest |-> "QueryParamsResponse",
     QueryGetPendingRequest |-> "QueryGetPendingResponse",
     QueryAllPendingRequest |-> "QueryAllPendingResponse",
     QueryGetRecordRequest |-> "QueryGetRecordResponse",
     QueryAllRecordRequest |-> "QueryAllRecordResponse"]

-----------------------------------------------------------------------------
(* Messages under way.                                                     *)

\* A program that links this package sends a message to another one.
Post(p) ==
    /\ call = Idle
    /\ HasRoom(p.type, p.m)
    /\ call' = OnWire(p.type, "go", {}, p.m, Marshal(p.type, p.m))
    /\ UNCHANGED <<books, tables, walk>>

\* The wallet sends a transaction.
WalletPosts(p) ==
    /\ call = Idle
    /\ p.type \in {"MsgDelayedSend", "MsgCancelSend", "MsgSetFinalOnly"}
    /\ HasRoom(p.type, p.m)
    /\ call' = OnWire(p.type, "wallet", {}, p.m, {WalletEncodes(p.type, p.m)})
    /\ UNCHANGED <<books, tables, walk>>

\* request_Query_...: what the gateway has read from the path and the query string
\* becomes a request.
Ask(p) ==
    /\ call = Idle
    /\ HasRoom(p.type, p.m)
    /\ call' = OnWire(p.type, "go", {}, p.m, Marshal(p.type, p.m))
    /\ UNCHANGED <<books, tables, walk>>

\* A path whose id is no number, a query string that is no page: the query never
\* leaves the gateway.  Any string will do for an address.
AskUnreadable(type) ==
    /\ call = Idle
    /\ type \notin {"QueryParamsRequest", "QueryGetRecordRequest"}
    /\ call' = Refused("InvalidArgument", {})
    /\ UNCHANGED <<books, tables, walk>>

\* The wallet's loop over the pages of the pending table: the first without a key,
\* the others with the one the last page named.
AskPage ==
    /\ call = Idle
    /\ ~walk.done
    /\ LET m == [pagination |-> IF walk.key = << >> THEN {}
                                ELSE {[NoPage EXCEPT !.key = walk.key]}]
       IN  /\ HasRoom("QueryAllPendingRequest", m)
           /\ call' = OnWire("QueryAllPendingRequest", "walk", {}, m,
                             Marshal("QueryAllPendingRequest", m))
    /\ UNCHANGED <<books, tables, walk>>

\* The sender's version of the message has a field more, before or after the rest.
Newer ==
    /\ call.stage = "wire" /\ call.fate = "whole"
    /\ \E field \in UnknownFields, bytes \in call.bytes :
          \E longer \in {field \o bytes, bytes \o field} \cap Buffer :
             call' = [call EXCEPT !.bytes = {longer}, !.fate = "newer"]
    /\ UNCHANGED <<books, tables, walk>>

\* A transaction or an ABCI query is decoded before anything else is known of it:
\* the bytes need not be all that somebody once encoded.
Cut ==
    /\ call.stage = "wire" /\ call.fate = "whole"
    /\ \E bytes \in call.bytes :
          \E length \in 0..Len(bytes) - 1 :
             call' = [call EXCEPT !.bytes = {SubSeq(bytes, 1, length)}, !.fate = "cut"]
    /\ UNCHANGED <<books, tables, walk>>

Read ==
    /\ call.stage = "wire"
    /\ call' = [stage |-> "read", type |-> call.type, by |-> call.by, asked |-> call.asked,
                meant |-> call.meant, fate |-> call.fate,
                got |-> Loaded(call.type, call.bytes)]
    /\ UNCHANGED <<books, tables, walk>>

Serve ==
    /\ call.stage = "read" /\ call.type \in RequestTypes
    /\ \E m \in call.got :
          \E reply \in Dispatch(call.type, m) :
             /\ reply.code = "OK" => HasRoom(ResponseTo[call.type], reply.answer)
             /\ call' = IF reply.code # "OK" THEN Refused(reply.code, {m})
                        ELSE OnWire(ResponseTo[call.type], IF call.fate = "cut" THEN "go" ELSE call.by,
                                    {m}, reply.answer, Marshal(ResponseTo[call.type], reply.answer))
    /\ UNCHANGED <<books, tables, walk>>

\* The request cannot be decoded, or the handler meets an error of the store.
ServeFails ==
    /\ call.stage = "read" /\ call.type \in RequestTypes
    /\ \A m \in call.got : Dispatch(call.type, m) = {}
    /\ call' = Refused("Internal", call.got)
    /\ UNCHANGED <<books, tables, walk>>

\* A message has arrived, an answer or a refusal has been read.
Hear ==
    /\ \/ call.stage = "refused"
       \/ call.stage = "read" /\ call.type \notin RequestTypes
    /\ call' = Idle
    /\ walk' = IF call.stage = "read" /\ call.by = "walk" /\ call.fate # "cut"
               THEN LET page == The(call.got)
                        next == The(page.pagination).nextKey
                    IN  [rows |-> walk.rows \o [i \in DOMAIN page.pending |-> page.pending[i].id],
                         key |-> next, done |-> next = << >>]
               ELSE walk
    /\ UNCHANGED <<books, tables>>

-----------------------------------------------------------------------------
StoredAs(type, table) == [key \in DOMAIN table |-> Marshal(type, table[key])]

ServiceInit ==
    /\ books \in BooksChoice
    /\ tables = [params |-> Option("Params", books.params),
                 pending |-> StoredAs("Pending", books.pending),
                 record |-> StoredAs("Record", books.record)]
    /\ call = Idle
    /\ walk = [rows |-> << >>, key |-> << >>, done |-> FALSE]

ServiceNext ==
    \/ \E p \in Posts : Post(p) \/ WalletPosts(p)
    \/ \E p \in Requests : Ask(p)
    \/ \E type \in RequestTypes : AskUnreadable(type)
    \/ AskPage
    \/ Newer \/ Cut \/ Read
    \/ Serve \/ ServeFails \/ Hear

ServiceSpec == ServiceInit /\ [][ServiceNext]_svars
=============================================================================
