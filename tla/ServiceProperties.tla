------------------------- MODULE ServiceProperties -------------------------
(***************************************************************************)
(* What those who talk to the undo module can rely on.                     *)
(***************************************************************************)
EXTENDS Service

\* What is under way has a type that somebody decodes and is one string of bytes: no
\* Marshal runs out of the buffer that its Size has made.  A client that has come to
\* the end of its walk has no key left.
ServiceTypeOK ==
    /\ call.stage \in {"idle", "wire", "read", "refused"}
    /\ call.stage \in {"wire", "read"} => call.type \in Type
    /\ call.stage = "wire" => Cardinality(call.bytes) = 1 /\ call.bytes \subseteq Seq(Byte)
    /\ call.stage = "refused" => call.code \in {"InvalidArgument", "NotFound", "Unknown", "Internal"}
    /\ walk.done => walk.key = << >>

Arrived(fates) == call.stage = "read" /\ call.fate \in fates

\* Every message that one program of this version writes, another one reads as it
\* was meant: tags, field numbers, sizes and varints of three hundred lines per
\* message agree, also for zero, empty, negative and very long values.
ReadAsMeant == Arrived({"whole"}) => call.got = {call.meant}

\* The wallet's hand-written encoders mean to the node what the wallet meant.
WalletIsUnderstood == Arrived({"whole"}) /\ call.by = "wallet" => call.got = {call.meant}

\* A field of a later version, whatever its wire type and wherever it stands, does
\* not change what an older program reads.
NewerPeersAreUnderstood == Arrived({"newer"}) => call.got = {call.meant}

\* Bytes that were cut short are refused, or they hold a message with the first
\* fields of the one that was meant: no number, name or row that nobody wrote.
CutNeverInvents ==
    Arrived({"cut"}) =>
        \A m \in call.got : \A n \in DOMAIN CasesOf[call.type] :
            LET field == CasesOf[call.type][n]
                read == m[field.name]
                meant == call.meant[field.name]
            IN  \/ read = meant
                \/ read = ZeroOf[call.type][field.name]
                \/ field.kind = "repeated" /\ IsPrefix(read, meant)

\* An answer tells what was stored: the send, record or parameters asked for, and
\* for a page the rows from the place asked for on, in order, none left out, with
\* the key of the first row that is not on it.
RowsOf(table, keys) == [i \in DOMAIN keys |-> table[keys[i]]]
PageIsTrue(table, request, rows, page) ==
    LET p == IF request.pagination = {} THEN NoPage ELSE The(request.pagination)
        KeysFrom(key) == {k \in DOMAIN table : ~Ahead(p.reverse, k, key)}
        next == The(page).nextKey
        start == IF p.key = << >> THEN DOMAIN table ELSE KeysFrom(p.key)
        listed == IF next = << >> THEN start ELSE start \ KeysFrom(next)
        sorted == InOrder(p.reverse, listed)
        skipped == IF p.key = << >> THEN p.offset ELSE 0
    IN  /\ rows = RowsOf(table, SubSeq(sorted, 1 + skipped, Len(sorted)))
        /\ Len(rows) <= IF p.limit = 0 THEN DefaultLimit ELSE p.limit
        /\ next # << >> => next \in DOMAIN table /\ rows # << >>
        /\ p.countTotal /\ p.key = << >> => The(page).total = Cardinality(DOMAIN table)
AnswerIsTrue(stored, type, asked, m) ==
    CASE type = "QueryParamsResponse" ->
            {m.params} = IF stored.params = {} THEN {ParamsZero} ELSE stored.params
      [] type = "QueryGetPendingResponse" ->
            <<asked.id>> \in DOMAIN stored.pending /\ m.pending = stored.pending[<<asked.id>>]
      [] type = "QueryGetRecordResponse" ->
            asked.index \in DOMAIN stored.record /\ m.record = stored.record[asked.index]
      [] type = "QueryAllPendingResponse" ->
            PageIsTrue(stored.pending, asked, m.pending, m.pagination)
      [] type = "QueryAllRecordResponse" ->
            PageIsTrue(stored.record, asked, m.record, m.pagination)
AnswersAreTrue ==
    Arrived({"whole", "newer"}) =>
        \A asked \in call.asked, m \in call.got : AnswerIsTrue(books, call.type, asked, m)

\* Nobody is told that something is missing which is there, and an address without
\* a record gets the code NotFound, which the wallet takes for a tally of zeros.
RefusalIsTrue(stored, code, asked) ==
    IF "index" \in DOMAIN asked
    THEN code = "NotFound" /\ asked.index \notin DOMAIN stored.record
    ELSE IF "id" \in DOMAIN asked THEN <<asked.id>> \notin DOMAIN stored.pending
    ELSE \A page \in asked.pagination : page.key # << >> /\ page.offset > 0
RefusalsAreTrue ==
    call.stage = "refused" => \A asked \in call.asked : RefusalIsTrue(books, call.code, asked)

\* A client that follows the keys from page to page has, in the end, seen every
\* send once and in the order of the ids.
WalkListsEverySend ==
    walk.done => walk.rows = [i \in 1..Cardinality(DOMAIN books.pending) |->
                                 InOrder(FALSE, DOMAIN books.pending)[i][1]]
=============================================================================
