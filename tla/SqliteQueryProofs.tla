------------------------- MODULE SqliteQueryProofs -------------------------
(***************************************************************************)
(* Proofs about SqliteQuery, for any values, any number of rows, of open   *)
(* statements and of connections, and a caller who makes its calls in any  *)
(* order.                                                                  *)
(*                                                                         *)
(* The properties are not inductive.  What they rest on: a query that has  *)
(* a statement has no rows (FreshStatement), so that exec() appends to     *)
(* nothing; a careful caller's query has the connection at hand when it    *)
(* has a statement (NothingLeftOpen); m_result is the answer; and the      *)
(* cursor and m_fetchFirstResult agree with what next() returned last      *)
(* (CursorAgrees).                                                         *)
(***************************************************************************)
EXTENDS SqliteQuery, SequenceTheorems, TLAPS

QueryType(n) ==
  [conn : 0..n, stmt : Columns \cup {NoStatement},
   result : Seq(Columns), iter : 0..(MaxRows + 1), first : BOOLEAN]

\* A statement belongs to a connection, and was not executed yet.  A handle
\* that was not given out has none.
FreshStatement ==
  /\ Len(query.result) <= MaxRows
  /\ query.stmt # NoStatement =>
       /\ query.conn \in 1..opened /\ open[query.conn] >= 1
       /\ query.result = <<>>
  /\ \A h \in Handles : h > opened => open[h] = 0

\* A careful caller leaves nothing open but the connection and the statement
\* at hand.
NothingLeftOpen ==
  /\ alive = {connection} \ {NoConnection}
  /\ query.stmt = NoStatement => \A h \in alive : open[h] = 0
  /\ query.stmt # NoStatement =>
       query.conn = connection /\ \A h \in alive : open[h] = 1

RowsOfAnswer == query.result = answer

CursorAgrees ==
  /\ last = "none" => reached = <<>> /\ (query.result = <<>> \/ query.first)
  /\ last = "row" => /\ ~query.first
                     /\ query.iter \in 1..Len(query.result)
                     /\ Len(reached) = query.iter
  /\ last = "end" => Len(reached) = Len(query.result)
  /\ Len(reached) <= Len(query.result)
  /\ \A i \in 1..Len(reached) : reached[i] = query.result[i]

CarefulInv ==
  /\ ~undefined
  /\ NothingLeftOpen /\ RowsOfAnswer /\ CursorAgrees
  /\ ValueIsOfTheRow

QueryInv == TypeOK /\ FreshStatement /\ (careful => CarefulInv)

---------------------------------------------------------------------------
\* Nothing is bound to what is not a column.
LEMMA ConstantsDiffer ==
  /\ Null \notin Values /\ NoValue \notin Columns /\ NoStatement \notin Columns
  /\ MaxRows \in Nat /\ MaxOpen \in Nat /\ MaxHandles \in Nat
BY QueryAssumption DEF Columns, Null, NoValue, NoStatement

LEMMA NewQueryType ==
  ASSUME NEW n \in Nat, NEW conn \in 0..n
  PROVE  NewQuery(conn) \in QueryType(n)
<1>1. << >> \in Seq(Columns) /\ 0 \in 0..(MaxRows + 1)
  BY EmptySeq, ConstantsDiffer
<1> QED BY <1>1 DEF NewQuery, QueryType

\* Nothing was executed yet: no rows, and none reached.
LEMMA NoRowsYet ==
  ASSUME query'.result = << >>, answer' = << >>, reached' = << >>,
         last' = "none", got' = NoValue
  PROVE  RowsOfAnswer' /\ CursorAgrees' /\ ValueIsOfTheRow'
<1>1. Len(<< >>) = 0 /\ 1..0 = {}
  BY EmptySeq
<1> QED BY <1>1 DEF RowsOfAnswer, CursorAgrees, ValueIsOfTheRow

LEMMA InitInv == Init => QueryInv
<1> SUFFICES ASSUME Init PROVE QueryInv
  OBVIOUS
<1>1. << >> \in Seq(Columns) /\ Len(<< >>) = 0
  BY EmptySeq
<1>2. TypeOK
  <2>1. query \in QueryType(opened)
    BY NewQueryType DEF Init, NoConnection
  <2>2. /\ open \in [Handles -> 0..MaxOpen] /\ opened \in 0..MaxHandles
        /\ connection \in 0..opened /\ alive \subseteq 1..opened
    BY ConstantsDiffer DEF Init, Handles, NoConnection
  <2> QED BY <1>1, <2>1, <2>2 DEF Init, TypeOK, QueryType
<1>3. FreshStatement
  BY <1>1, ConstantsDiffer DEF Init, FreshStatement, NewQuery
<1>4. CarefulInv
  BY <1>1 DEF Init, CarefulInv, NothingLeftOpen, RowsOfAnswer, CursorAgrees,
              ValueIsOfTheRow, NewQuery
<1> QED BY <1>2, <1>3, <1>4 DEF QueryInv

---------------------------------------------------------------------------
(* Calls that open, close and prepare.                                     *)

\* The handle that is given out has no statements yet.
LEMMA InitializeInv == QueryInv /\ Initialize => QueryInv'
<1> SUFFICES ASSUME QueryInv, Initialize PROVE QueryInv'
  OBVIOUS
<1> USE DEF Initialize, Call, history, QueryInv
<1>1. /\ opened \in Nat /\ opened' = opened + 1 /\ opened + 1 \in Handles
      /\ query \in QueryType(opened)
  BY ConstantsDiffer DEF TypeOK, Handles, QueryType
<1>2. query' \in QueryType(opened')
  BY <1>1 DEF QueryType
<1>3. TypeOK'
  BY <1>1, <1>2, ConstantsDiffer DEF TypeOK, QueryType
<1>4. FreshStatement'
  BY <1>1 DEF FreshStatement, Handles
<1>5. careful' => CarefulInv'
  <2> SUFFICES ASSUME careful' PROVE CarefulInv'
    OBVIOUS
  <2>1. careful /\ connection = NoConnection /\ ~undefined'
    OBVIOUS
  <2>2. alive = {} /\ (query.stmt # NoStatement => query.conn = NoConnection)
    BY <2>1 DEF CarefulInv, NothingLeftOpen
  <2>3. query.stmt = NoStatement
    BY <1>1, <2>2 DEF FreshStatement, NoConnection
  <2>4. open[opened + 1] = 0
    BY <1>1 DEF FreshStatement
  <2>5. NothingLeftOpen'
    BY <1>1, <2>2, <2>3, <2>4 DEF NothingLeftOpen, NoConnection
  <2> QED BY <2>1, <2>5 DEF CarefulInv, RowsOfAnswer, CursorAgrees, ValueIsOfTheRow
<1> QED BY <1>3, <1>4, <1>5

\* A careful caller closes without a statement, so that sqlite agrees.
LEMMA CloseInv == QueryInv /\ Close => QueryInv'
<1> SUFFICES ASSUME QueryInv, Close PROVE QueryInv'
  OBVIOUS
<1> USE DEF Close, Call, history, QueryInv
<1>1. TypeOK'
  BY DEF TypeOK, NoConnection
<1>2. FreshStatement'
  BY DEF FreshStatement
<1>3. careful' => CarefulInv'
  BY DEF CarefulInv, NothingLeftOpen, RowsOfAnswer, CursorAgrees, ValueIsOfTheRow,
         NoConnection
<1> QED BY <1>1, <1>2, <1>3

\* The query has the connection at hand, if there is one.
LEMMA MakeQueryInv == QueryInv /\ MakeQuery => QueryInv'
<1> SUFFICES ASSUME QueryInv, MakeQuery PROVE QueryInv'
  OBVIOUS
<1> USE DEF MakeQuery, NothingReached, database, Call, QueryInv
<1>1. << >> \in Seq(Columns) /\ Len(<< >>) = 0
  BY EmptySeq
<1>2. query' \in QueryType(opened')
  BY NewQueryType DEF TypeOK
<1>3. TypeOK'
  BY <1>1, <1>2, ConstantsDiffer DEF TypeOK, QueryType
<1>4. FreshStatement'
  BY <1>1, ConstantsDiffer DEF FreshStatement, NewQuery
<1>5. careful' => CarefulInv'
  <2>1. query'.result = << >> /\ query'.stmt = NoStatement
    BY DEF NewQuery
  <2>2. RowsOfAnswer' /\ CursorAgrees' /\ ValueIsOfTheRow'
    BY <2>1, NoRowsYet
  <2>3. careful' => ~undefined' /\ NothingLeftOpen'
    BY <2>1 DEF CarefulInv, NothingLeftOpen
  <2> QED BY <2>2, <2>3 DEF CarefulInv
<1> QED BY <1>3, <1>4, <1>5

\* The rows of before are gone, whatever m_fetchFirstResult says.  The copied
\* connection of a careful caller's query was not closed.
LEMMA PrepareInv ==
  ASSUME NEW stmt \in {NoStatement, Null}, QueryInv, Prepare(stmt)
  PROVE  QueryInv'
<1> USE DEF Call, QueryInv
<1>1. << >> \in Seq(Columns) /\ Len(<< >>) = 0
  BY EmptySeq
<1>0. careful' \in BOOLEAN /\ (careful' => careful)
  BY DEF Prepare, TypeOK
<1>2. CASE query.conn \notin alive \cup {NoConnection}
  <2>1. /\ undefined' = TRUE
        /\ UNCHANGED <<query, database, open, history, got>>
        /\ careful' => careful /\ query.conn \in {NoConnection, connection}
    BY <1>2 DEF Prepare
  <2>2. ~careful'
    BY <1>2, <2>1 DEF CarefulInv, NothingLeftOpen
  <2>3. TypeOK' /\ FreshStatement'
    BY <1>0, <2>1 DEF TypeOK, FreshStatement, database, history
  <2> QED BY <2>2, <2>3
<1>3. CASE query.conn \in alive \cup {NoConnection}
  <2>1. /\ stmt # NoStatement =>
             query.conn # NoConnection /\ open[query.conn] < MaxOpen
        /\ query' = Prepared(query, stmt)
        /\ open' = IF stmt = NoStatement THEN open
                   ELSE [open EXCEPT ![query.conn] = @ + 1]
        /\ NothingReached
        /\ UNCHANGED <<database, undefined>>
    BY <1>3 DEF Prepare
  <2>2. query \in QueryType(opened) /\ stmt \in Columns \cup {NoStatement}
    BY DEF TypeOK, QueryType, Columns
  <2>3. << >> \in Seq(Columns) /\ 0 \in 0..(MaxRows + 1)
    BY <1>1, ConstantsDiffer
  <2>4. /\ query' \in QueryType(opened)
        /\ query'.conn = query.conn /\ query'.stmt = stmt /\ query'.result = <<>>
    BY <2>1, <2>2, <2>3 DEF Prepared, QueryType
  <2>5. /\ stmt # NoStatement => query.conn \in 1..opened /\ query.conn \in Handles
        /\ opened \in Nat
    BY <1>3, <2>1, <2>2, ConstantsDiffer DEF TypeOK, Handles
  <2>6. /\ open' \in [Handles -> 0..MaxOpen]
        /\ \A h \in Handles :
             open'[h] = IF stmt # NoStatement /\ h = query.conn THEN open[h] + 1
                        ELSE open[h]
    BY <2>1, <2>5, ConstantsDiffer DEF TypeOK
  <2>7. TypeOK'
    BY <1>1, <1>0, <2>1, <2>4, <2>6, ConstantsDiffer
    DEF TypeOK, QueryType, database, NothingReached
  <2>8. FreshStatement'
    <3>1. Len(query'.result) <= MaxRows /\ opened' = opened
      BY <1>1, <2>1, <2>4, ConstantsDiffer DEF database
    <3>2. stmt # NoStatement => open[query.conn] \in Nat
      BY <2>5 DEF TypeOK
    <3>3. stmt # NoStatement => query.conn \in 1..opened /\ open'[query.conn] >= 1
      BY <2>5, <2>6, <3>2
    <3>4. \A h \in Handles : h > opened => open'[h] = 0
      <4>1. \A h \in Handles : h > opened => open[h] = 0
        BY DEF FreshStatement
      <4> QED BY <2>5, <2>6, <4>1
    <3> QED BY <2>4, <3>1, <3>3, <3>4 DEF FreshStatement
  <2>9. careful' => CarefulInv'
    <3>1. RowsOfAnswer' /\ CursorAgrees' /\ ValueIsOfTheRow'
      BY <2>1, <2>4, NoRowsYet DEF NothingReached
    <3> SUFFICES ASSUME careful' PROVE CarefulInv'
      OBVIOUS
    <3>2. /\ careful /\ query.stmt = NoStatement
          /\ query.conn \in {NoConnection, connection} /\ ~undefined'
      BY <2>1 DEF Prepare
    <3>3. /\ alive = {connection} \ {NoConnection}
          /\ \A h \in alive : open[h] = 0 /\ h \in Handles
      BY <3>2, ConstantsDiffer DEF CarefulInv, NothingLeftOpen, TypeOK, Handles
    <3>4. NothingLeftOpen'
      BY <2>1, <2>4, <2>6, <3>2, <3>3 DEF NothingLeftOpen, database
    <3> QED BY <3>1, <3>2, <3>4 DEF CarefulInv
  <2> QED BY <2>7, <2>8, <2>9
<1> QED BY <1>2, <1>3

LEMMA BindValueInv ==
  ASSUME NEW value \in Values \cup {Null}, QueryInv, BindValue(value)
  PROVE  QueryInv'
<1> USE DEF BindValue, Call, history, database, QueryInv
<1>1. /\ query' \in QueryType(opened)
      /\ query'.conn = query.conn
      /\ query'.result = query.result /\ query'.iter = query.iter
      /\ query'.first = query.first
      /\ query'.stmt = NoStatement <=> query.stmt = NoStatement
  BY ConstantsDiffer DEF TypeOK, QueryType, Columns
<1>2. TypeOK'
  BY <1>1 DEF TypeOK, QueryType
<1>3. FreshStatement'
  BY <1>1 DEF FreshStatement
<1>4. careful' => CarefulInv'
  BY <1>1 DEF CarefulInv, NothingLeftOpen, RowsOfAnswer, CursorAgrees, ValueIsOfTheRow
<1> QED BY <1>2, <1>3, <1>4

---------------------------------------------------------------------------
(* exec().                                                                 *)

\* The statement at hand has no rows yet, so that exec() leaves those sqlite
\* gave.
LEMMA ExecStatementInv == QueryInv /\ ExecStatement => QueryInv'
<1> SUFFICES ASSUME QueryInv, ExecStatement PROVE QueryInv'
  OBVIOUS
<1>1. PICK given \in Answers(query.stmt) :
        query' = Executed(query, given) /\ answer' = given /\ Copies(given)
  BY DEF ExecStatement
<1>2. PICK k \in 0..MaxRows : given \in [1..k -> Values \cup {query.stmt}]
  BY DEF Answers
<1>3. /\ query.stmt \in Columns /\ query.stmt # NoStatement /\ query.result = <<>>
      /\ query.conn \in 1..opened /\ query.conn \in Handles
      /\ open[query.conn] \in 1..MaxOpen
      /\ query \in QueryType(opened)
  <2>1. /\ query \in QueryType(opened) /\ open \in [Handles -> 0..MaxOpen]
        /\ opened \in 0..MaxHandles /\ MaxHandles \in Nat /\ MaxOpen \in Nat
    BY QueryAssumption DEF QueryInv, TypeOK, QueryType
  <2>2. query.stmt \in Columns /\ query.stmt # NoStatement
    BY <2>1 DEF ExecStatement, QueryType
  <2>3. query.conn \in 1..opened /\ open[query.conn] >= 1 /\ query.result = <<>>
    BY <2>2 DEF QueryInv, FreshStatement
  <2>4. query.conn \in Handles
    BY <2>1, <2>3 DEF Handles
  <2>5. open[query.conn] \in 1..MaxOpen
    BY <2>1, <2>3, <2>4
  <2> QED BY <2>1, <2>2, <2>3, <2>4, <2>5
<1>4. given \in Seq(Columns) /\ Len(given) \in 0..MaxRows
  <2>1. k \in Nat /\ given \in [1..k -> Columns]
    <3>1. k \in Nat
      BY <1>2, QueryAssumption
    <3>2. Values \cup {query.stmt} \subseteq Columns
      BY <1>3 DEF Columns
    <3> QED BY <1>2, <3>1, <3>2
  <2>2. given \in Seq(Columns) /\ Len(given) = k
    BY <2>1
  <2> QED BY <2>2
<1>5. query.result \o given = given
  BY <1>3, <1>4, ConcatEmptySeq
<1>6. /\ query' \in QueryType(opened)
      /\ query'.conn = query.conn
      /\ query'.stmt = NoStatement /\ query'.result = given
      /\ query'.first = (query.first \/ given # <<>>)
  BY <1>1, <1>3, <1>4, <1>5 DEF Executed, QueryType
<1>7. << >> \in Seq(Columns) /\ Len(<< >>) = 0
  BY EmptySeq
<1>8. /\ open' \in [Handles -> 0..MaxOpen]
      /\ \A h \in Handles :
           open'[h] = IF h = query.conn THEN open[h] - 1 ELSE open[h]
      /\ UNCHANGED database
  BY <1>3, ConstantsDiffer DEF QueryInv, TypeOK, ExecStatement
<1>9. TypeOK'
  BY <1>1, <1>4, <1>6, <1>7, <1>8, ConstantsDiffer
     DEF QueryInv, TypeOK, QueryType, ExecStatement, Copies, database
<1>10. FreshStatement'
  BY <1>3, <1>4, <1>6, <1>8, ConstantsDiffer
  DEF QueryInv, TypeOK, FreshStatement, database, Handles
<1>11. careful' => CarefulInv'
  <2> SUFFICES ASSUME careful' PROVE CarefulInv'
    OBVIOUS
  <2>1. careful /\ ~undefined'
    BY <1>1 DEF Copies
  <2>2. NothingLeftOpen'
    <3>1. /\ alive = {connection} \ {NoConnection}
          /\ query.conn = connection /\ \A h \in alive : open[h] = 1 /\ h \in Handles
      BY <1>3, <2>1, ConstantsDiffer
      DEF NothingLeftOpen, QueryInv, CarefulInv, TypeOK, Handles
    <3> QED BY <1>6, <1>8, <3>1 DEF NothingLeftOpen, database
  <2>3. RowsOfAnswer'
    BY <1>1, <1>6 DEF RowsOfAnswer
  <2>4. CursorAgrees'
    <3>1. last' = "none" /\ reached' = << >> /\ 1..0 = {}
      BY DEF ExecStatement
    <3>2. query'.result = << >> \/ query'.first
      BY <1>6
    <3>3. 0 <= Len(query'.result)
      BY <1>4, <1>6, ConstantsDiffer
    <3> QED BY <1>7, <3>1, <3>2, <3>3 DEF CursorAgrees
  <2>5. ValueIsOfTheRow'
    BY DEF ValueIsOfTheRow, ExecStatement
  <2> QED BY <2>1, <2>2, <2>3, <2>4, <2>5 DEF CarefulInv
<1> QED BY <1>9, <1>10, <1>11 DEF QueryInv

\* Without a statement the rows stay, and next() begins with the first again.
LEMMA ExecNothingInv == QueryInv /\ ExecNothing => QueryInv'
<1> SUFFICES ASSUME QueryInv, ExecNothing PROVE QueryInv'
  OBVIOUS
<1> USE DEF ExecNothing, Call, database, QueryInv
<1>1. query \in QueryType(opened) /\ query.result \o <<>> = query.result
  BY ConcatEmptySeq DEF TypeOK, QueryType
<1>2. /\ query' \in QueryType(opened)
      /\ query'.conn = query.conn
      /\ query'.stmt = NoStatement /\ query'.result = query.result
      /\ query'.first = (query.first \/ query.result # <<>>)
  BY <1>1 DEF Executed, QueryType
<1>3. << >> \in Seq(Columns) /\ Len(<< >>) = 0
  BY EmptySeq
<1>4. TypeOK'
  BY <1>2, <1>3 DEF TypeOK, QueryType
<1>5. FreshStatement'
  BY <1>2 DEF FreshStatement
<1>6. careful' => CarefulInv'
  <2> SUFFICES ASSUME careful' PROVE CarefulInv'
    OBVIOUS
  <2>1. CarefulInv /\ ~undefined'
    OBVIOUS
  <2>2. NothingLeftOpen'
    BY <1>2, <2>1 DEF CarefulInv, NothingLeftOpen
  <2>3. RowsOfAnswer'
    BY <1>2, <2>1 DEF CarefulInv, RowsOfAnswer
  <2>4. CursorAgrees'
    <3>1. Len(query.result) \in Nat /\ 1..0 = {}
      BY <1>1, LenProperties DEF QueryType
    <3>2. query'.result = <<>> \/ query'.first
      BY <1>2
    <3>3. \A i \in 1..Len(reached') : reached'[i] = query'.result[i]
      BY <1>3, <3>1
    <3> QED BY <1>2, <1>3, <3>1, <3>2, <3>3 DEF CursorAgrees
  <2>5. ValueIsOfTheRow'
    BY DEF ValueIsOfTheRow
  <2> QED BY <2>1, <2>2, <2>3, <2>4, <2>5 DEF CarefulInv
<1> QED BY <1>4, <1>5, <1>6

---------------------------------------------------------------------------
(* next() and value().                                                     *)

LEMMA NextNoneInv == QueryInv /\ NextNone => QueryInv'
<1> SUFFICES ASSUME QueryInv, NextNone PROVE QueryInv'
  OBVIOUS
<1> USE DEF NextNone, Call, database, QueryInv
<1>1. TypeOK'
  BY DEF TypeOK
<1>2. FreshStatement'
  BY DEF FreshStatement
<1>3. careful' => CarefulInv'
  BY EmptySeq DEF CarefulInv, NothingLeftOpen, RowsOfAnswer, CursorAgrees,
                  ValueIsOfTheRow, TypeOK
<1> QED BY <1>1, <1>2, <1>3

\* A careful caller calls next() before the first row or on a row, so that it
\* reaches the row behind the last one reached, or the end.
LEMMA NextRowInv == QueryInv /\ NextRow => QueryInv'
<1> SUFFICES ASSUME QueryInv, NextRow PROVE QueryInv'
  OBVIOUS
<1> DEFINE q == Advanced(query)
<1>1. /\ query \in QueryType(opened) /\ Len(query.result) \in 1..MaxRows
      /\ DOMAIN query.result = 1..Len(query.result)
      /\ reached \in Seq(Columns)
  BY EmptySeq, LenProperties, ConstantsDiffer
     DEF QueryInv, TypeOK, FreshStatement, QueryType, NextRow
<1>2. CASE query.first \/ OnRow(query)
  <2>1. /\ q.stmt = query.stmt /\ q.result = query.result /\ q.first = FALSE
        /\ q.iter = IF query.first THEN 1 ELSE query.iter + 1
        /\ q.iter \in 1..(Len(query.result) + 1)
        /\ q \in QueryType(opened) /\ q.conn = query.conn
    <3> DEFINE k == IF query.first THEN 1 ELSE query.iter + 1
    <3>1. k \in 1..(Len(query.result) + 1) /\ k \in 0..(MaxRows + 1)
      BY <1>1, <1>2, ConstantsDiffer DEF QueryType, OnRow
    <3>2. q = [query EXCEPT !.iter = k, !.first = FALSE]
      BY <1>1 DEF Advanced, QueryType
    <3> HIDE DEF k, q
    <3>3. /\ q.stmt = query.stmt /\ q.result = query.result /\ q.first = FALSE
          /\ q.iter = k /\ q \in QueryType(opened) /\ q.conn = query.conn
      BY <1>1, <3>1, <3>2 DEF QueryType
    <3> QED BY <3>1, <3>3 DEF k
  <2>2. /\ query' = q
        /\ last' = IF OnRow(q) THEN "row" ELSE "end"
        /\ reached' = IF OnRow(q) THEN Append(reached, q.result[q.iter]) ELSE reached
        /\ got' = NoValue
        /\ undefined' = undefined /\ ~undefined
        /\ UNCHANGED <<connection, opened, alive, open, answer>>
        /\ careful' = (careful /\ last # "end")
    BY <1>2 DEF NextRow, Call, database
  <2> HIDE DEF q
  <2>3. reached' \in Seq(Columns)
    <3>1. CASE OnRow(q)
      <4>1. q.result[q.iter] \in Columns
        BY <1>1, <2>1, <3>1, ElementOfSeq DEF OnRow, QueryType
      <4> QED BY <1>1, <2>2, <3>1, <4>1, AppendProperties
    <3> QED BY <1>1, <2>2, <3>1
  <2>4. TypeOK'
    BY <2>1, <2>2, <2>3 DEF QueryInv, TypeOK, QueryType
  <2>5. FreshStatement'
    BY <2>1, <2>2 DEF QueryInv, FreshStatement
  <2>6. ASSUME careful' PROVE CarefulInv'
    <3>1. /\ CarefulInv /\ last \in {"none", "row"}
          /\ Len(reached) + 1 = q.iter
      <4>1. CarefulInv /\ last \in {"none", "row"}
        BY <2>2, <2>6 DEF QueryInv, TypeOK
      <4>2. CASE last = "none"
        BY <1>1, <2>1, <4>1, <4>2, EmptySeq DEF CarefulInv, CursorAgrees, OnRow
      <4>3. CASE last = "row"
        BY <1>1, <2>1, <4>1, <4>3 DEF CarefulInv, CursorAgrees, QueryType
      <4> QED BY <4>1, <4>2, <4>3
    <3>2. CursorAgrees'
      <4>1. CASE OnRow(q)
        <5>1. q.iter \in 1..Len(query.result) /\ q.result[q.iter] \in Columns
          BY <1>1, <2>1, <4>1, ElementOfSeq DEF OnRow, QueryType
        <5>2. /\ Len(reached') = Len(reached) + 1
              /\ reached'[Len(reached) + 1] = query.result[q.iter]
              /\ \A i \in 1..Len(reached) : reached'[i] = reached[i]
          BY <1>1, <2>1, <2>2, <4>1, <5>1, AppendProperties
        <5>3. \A i \in 1..Len(reached') : reached'[i] = query.result[i]
          BY <1>1, <3>1, <5>2, LenProperties DEF CarefulInv, CursorAgrees
        <5> QED BY <2>1, <2>2, <3>1, <4>1, <5>1, <5>2, <5>3 DEF CursorAgrees
      <4>2. CASE ~OnRow(q)
        <5>1. q.iter = Len(query.result) + 1
          BY <1>1, <2>1, <4>2 DEF OnRow
        <5>2. Len(reached) = Len(query.result)
          BY <1>1, <3>1, <5>1, LenProperties
        <5> QED BY <2>1, <2>2, <3>1, <4>2, <5>2 DEF CarefulInv, CursorAgrees
      <4> QED BY <4>1, <4>2
    <3> QED
      BY <2>1, <2>2, <3>1, <3>2
      DEF CarefulInv, NothingLeftOpen, RowsOfAnswer, ValueIsOfTheRow
  <2> QED BY <2>4, <2>5, <2>6 DEF QueryInv
<1>3. CASE ~(query.first \/ OnRow(query))
  <2>1. /\ undefined' = TRUE /\ got' = NoValue
        /\ UNCHANGED <<query, connection, opened, alive, open, answer, last, reached>>
        /\ careful' = (careful /\ last # "end")
    BY <1>3 DEF NextRow, Call, database
  <2>2. ~careful'
    <3> SUFFICES ASSUME careful, last # "end" PROVE FALSE
      BY <2>1
    <3>1. CursorAgrees /\ last \in {"none", "row"}
      BY DEF QueryInv, CarefulInv, TypeOK
    <3> QED BY <1>1, <1>3, <3>1, EmptySeq DEF CursorAgrees, OnRow
  <2> QED BY <2>1, <2>2, ConstantsDiffer DEF QueryInv, TypeOK, FreshStatement
<1> QED BY <1>2, <1>3

\* A careful caller reads on a row, the last one reached.
LEMMA ValueInv ==
  ASSUME NEW known \in BOOLEAN, QueryInv, Value(known)
  PROVE  QueryInv'
<1> USE DEF Value, Call, database, history
<1>1. CASE OnRow(query)
  <2>1. query.result[query.iter] \in Columns
    BY <1>1, ElementOfSeq, LenProperties DEF QueryInv, TypeOK, OnRow
  <2>2. TypeOK'
    BY <1>1, <2>1, ConstantsDiffer DEF QueryInv, TypeOK, Columns
  <2>3. FreshStatement'
    BY <1>1 DEF QueryInv, FreshStatement
  <2>4. ASSUME careful' PROVE CarefulInv'
    <3>1. CarefulInv /\ last = "row"
      BY <2>4 DEF QueryInv
    <3>2. ValueIsOfTheRow'
      BY <1>1, <3>1 DEF CarefulInv, CursorAgrees, ValueIsOfTheRow
    <3> QED
      BY <1>1, <3>1, <3>2 DEF CarefulInv, NothingLeftOpen, RowsOfAnswer, CursorAgrees
  <2> QED BY <2>2, <2>3, <2>4 DEF QueryInv
<1>2. CASE ~OnRow(query)
  <2>1. ~careful'
    <3> SUFFICES ASSUME careful, last = "row" PROVE FALSE
      OBVIOUS
    <3>1. query.iter \in DOMAIN query.result
      BY LenProperties DEF QueryInv, CarefulInv, CursorAgrees, TypeOK
    <3> QED BY <1>2, <3>1 DEF OnRow
  <2> QED BY <1>2, <2>1 DEF QueryInv, TypeOK, FreshStatement
<1> QED BY <1>1, <1>2

---------------------------------------------------------------------------
LEMMA StutterInv == QueryInv /\ UNCHANGED vars => QueryInv'
<1> SUFFICES ASSUME QueryInv, UNCHANGED vars PROVE QueryInv'
  OBVIOUS
<1> USE DEF vars, history, QueryInv
<1>1. TypeOK' /\ FreshStatement'
  BY DEF TypeOK, FreshStatement
<1>2. careful' => CarefulInv'
  BY DEF CarefulInv, NothingLeftOpen, RowsOfAnswer, CursorAgrees, ValueIsOfTheRow
<1> QED BY <1>1, <1>2

LEMMA NextInv == QueryInv /\ [Next]_vars => QueryInv'
<1> SUFFICES ASSUME QueryInv, [Next]_vars PROVE QueryInv'
  OBVIOUS
<1>1. CASE Initialize BY <1>1, InitializeInv
<1>2. CASE Close BY <1>2, CloseInv
<1>3. CASE MakeQuery BY <1>3, MakeQueryInv
<1>4. CASE \E stmt \in {NoStatement, Null} : Prepare(stmt)
  BY <1>4, PrepareInv
<1>5. CASE \E value \in Values \cup {Null} : BindValue(value)
  BY <1>5, BindValueInv
<1>6. CASE ExecStatement BY <1>6, ExecStatementInv
<1>7. CASE ExecNothing BY <1>7, ExecNothingInv
<1>8. CASE NextNone BY <1>8, NextNoneInv
<1>9. CASE NextRow BY <1>9, NextRowInv
<1>10. CASE \E known \in BOOLEAN : Value(known)
  BY <1>10, ValueInv
<1>11. CASE UNCHANGED vars BY <1>11, StutterInv
<1> QED
  BY <1>1, <1>2, <1>3, <1>4, <1>5, <1>6, <1>7, <1>8, <1>9, <1>10, <1>11 DEF Next

LEMMA SpecInv == Spec => []QueryInv
BY InitInv, NextInv, PTL DEF Spec

\* The reached rows are a beginning of the answer, all of it at the end.
LEMMA InvGivesTheAnswer == QueryInv => GivesTheAnswer
<1> SUFFICES ASSUME QueryInv, careful
             PROVE  /\ Len(reached) <= Len(answer)
                    /\ reached = SubSeq(answer, 1, Len(reached))
                    /\ last = "end" => reached = answer
  BY DEF GivesTheAnswer
<1>1. /\ reached \in Seq(Columns) /\ answer \in Seq(Columns)
      /\ Len(reached) \in Nat /\ Len(answer) \in Nat
      /\ query.result = answer /\ CursorAgrees
  BY LenProperties DEF QueryInv, CarefulInv, RowsOfAnswer, TypeOK
<1>2. Len(reached) <= Len(answer) /\ \A i \in 1..Len(reached) : reached[i] = answer[i]
  BY <1>1 DEF CursorAgrees
<1>3. reached = SubSeq(answer, 1, Len(reached))
  <2>1. /\ SubSeq(answer, 1, Len(reached)) \in Seq(Columns)
        /\ Len(SubSeq(answer, 1, Len(reached))) = Len(reached)
        /\ \A i \in 1..Len(reached) : SubSeq(answer, 1, Len(reached))[i] = answer[i]
    BY <1>1, <1>2
  <2> QED BY <1>1, <1>2, <2>1, SeqEqual
<1>4. last = "end" => reached = answer
  <2> SUFFICES ASSUME last = "end" PROVE reached = answer
    OBVIOUS
  <2>1. Len(reached) = Len(answer)
    BY <1>1 DEF CursorAgrees
  <2> QED BY <1>1, <1>2, <2>1, SeqEqual
<1> QED BY <1>2, <1>3, <1>4

---------------------------------------------------------------------------
\* The fields of a query keep their types, and the cursor is never further
\* than one behind the rows, for careless callers too (DbManager.h:117-133).
THEOREM QueryTypeCorrect == Spec => []TypeOK
<1>1. QueryInv => TypeOK
  BY DEF QueryInv
<1> QED BY <1>1, SpecInv, PTL

\* A caller who follows the rules of Session's handlers never does what is
\* undefined, whatever sqlite refuses, and though it goes on with statements
\* that could not be prepared (DbManager.cpp:61-73, 112-239).
THEOREM QueryCarefulUseIsDefined == Spec => []CarefulUseIsDefined
<1>1. QueryInv => CarefulUseIsDefined
  BY DEF QueryInv, CarefulInv, CarefulUseIsDefined
<1> QED BY <1>1, SpecInv, PTL

\* Such a caller is given the rows that sqlite gave for its last statement, in
\* order, and none if it could not be prepared (DbManager.cpp:112-217).
THEOREM QueryGivesTheAnswer == Spec => []GivesTheAnswer
BY InvGivesTheAnswer, SpecInv, PTL

\* What it reads is the row it reached last (DbManager.cpp:219-239).
THEOREM QueryValueIsOfTheRow == Spec => []ValueIsOfTheRow
<1>1. QueryInv => ValueIsOfTheRow
  BY DEF QueryInv, CarefulInv, ValueIsOfTheRow
<1> QED BY <1>1, SpecInv, PTL

\* And the connections it closed are closed (DbManager.cpp:19-28).
THEOREM QueryClosingCloses == Spec => []ClosingCloses
<1>1. QueryInv => ClosingCloses
  BY DEF QueryInv, CarefulInv, NothingLeftOpen, ClosingCloses
<1> QED BY <1>1, SpecInv, PTL
============================================================================
