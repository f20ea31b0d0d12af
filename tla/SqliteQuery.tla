---------------------------- MODULE SqliteQuery ----------------------------
(***************************************************************************)
(* Access to the database: class Sqlite, which opens and closes it, class  *)
(* SqliteQuery, which runs one statement after another and keeps the rows  *)
(* of the last with a cursor on them, and the values of class Variant.     *)
(*                                                                         *)
(* The caller is free: it makes the calls in any order, any number of      *)
(* times.  `careful` tells whether it has followed the rules the handlers  *)
(* of Session follow, none of which the classes enforce:                   *)
(*   - the database is opened again only after it was closed;              *)
(*   - a statement that was prepared is executed before another one is     *)
(*     prepared, another query is made, or the database is closed;         *)
(*   - a query that was made while the database was open is not used to    *)
(*     prepare a statement after it was closed;                            *)
(*   - next() is not called again once it returned false;                  *)
(*   - value() is called only after next() returned true;                  *)
(*   - no column is NULL.                                                  *)
(* What prepare() and exec() return is not looked at: Session goes on with *)
(* a statement that could not be prepared.                                 *)
(*                                                                         *)
(* A row has one column.  External: sqlite, which may refuse any statement *)
(* when it is prepared and stop with an error after any row; it makes and  *)
(* binds and executes nothing where it is given a null pointer, and must   *)
(* not be given a connection that was closed.                              *)
(***************************************************************************)
EXTENDS Naturals, Sequences

CONSTANTS
  Values,     \* what a column holds, or a parameter is bound to
  MaxRows,    \* bound: rows of an answer
  MaxOpen,    \* bound: statements of a connection that are open in sqlite
  MaxHandles  \* bound: how often the database is opened

Null == "NULL"        \* in a column; as a Variant, TYPE_UNKNOWN
NoValue == "no value"
NoStatement == "nullptr"
NoConnection == 0
Handles == 1..MaxHandles

ASSUME QueryAssumption ==
  /\ {Null, NoValue, NoStatement} \cap Values = {}
  /\ MaxRows \in Nat /\ MaxOpen \in Nat /\ MaxHandles \in Nat

VARIABLES
  query,      \* the SqliteQuery with its copy of m_connection
  connection, \* Sqlite::m_connection: a handle, or NoConnection
  opened,     \* how many handles sqlite has given out: 1..opened
  alive,      \* those of them it has not closed
  open,       \* per handle, its statements that were not finalized
  answer,     \* the rows sqlite gave for the last statement (history)
  reached,    \* the rows next() reached since the last exec() (history)
  last,       \* what next() returned since then: "row", "end" or "none"
  got,        \* what the last call, if it was value(), returned
  careful,    \* the caller has followed the rules (history)
  undefined   \* the behaviour of the program is not defined any more

vars == <<query, connection, opened, alive, open, answer, reached, last, got,
          careful, undefined>>

database == <<connection, opened, alive>>
history == <<answer, reached, last>>

---------------------------------------------------------------------------
(* The query.                                                              *)

\* A query keeps the connection it was made with.  m_iter is the number of
\* the row it is on; 0 is an iterator that is not one of m_result,
\* Len(m_result) + 1 is m_result.end().
NewQuery(conn) ==
  [conn |-> conn, stmt |-> NoStatement, result |-> <<>>, iter |-> 0, first |-> FALSE]

\* As if the rows of the statement before were kept.
MutPreparedKeepsRows(q, stmt) == [q EXCEPT !.stmt = stmt, !.iter = 0]

\* prepare(): the rows are dropped, m_fetchFirstResult stays as it is, and a
\* statement that was not executed is not finalized.
Prepared(q, stmt) == [q EXCEPT !.stmt = stmt, !.result = <<>>, !.iter = 0]

\* As if m_fetchFirstResult were set when the query is made, not by exec().
MutExecutedKeepsFirst(q, rows) ==
  [q EXCEPT !.stmt = NoStatement, !.result = @ \o rows]

\* exec() once sqlite has given the rows: the cursor is before the first one.
Executed(q, rows) ==
  [q EXCEPT !.stmt = NoStatement,
            !.result = @ \o rows,
            !.first = @ \/ q.result \o rows # <<>>]

OnRow(q) == q.iter \in DOMAIN q.result
AtEnd(q) == q.iter = Len(q.result) + 1

\* next() on rows: to the first one, or to the one behind.
Advanced(q) == [q EXCEPT !.iter = IF q.first THEN 1 ELSE @ + 1, !.first = FALSE]

---------------------------------------------------------------------------
(* The calls.                                                              *)

\* A call that the rules allow only if `rule` holds.
Call(rule) ==
  /\ ~undefined
  /\ careful' = (careful /\ rule)

\* The next statement has no rows yet.
NothingReached ==
  answer' = <<>> /\ reached' = <<>> /\ last' = "none" /\ got' = NoValue

\* initialize(), whatever is open already.
Initialize ==
  /\ Call(connection = NoConnection)
  /\ opened < MaxHandles
  /\ opened' = opened + 1
  /\ connection' = opened + 1
  /\ alive' = alive \cup {opened + 1}
  /\ UNCHANGED <<query, open, history, got, undefined>>

\* close(): sqlite refuses to close a connection that has open statements,
\* which close() does not look at.
Close ==
  /\ Call(query.stmt = NoStatement)
  /\ connection # NoConnection
  /\ alive' = IF open[connection] = 0 THEN alive \ {connection} ELSE alive
  /\ connection' = NoConnection
  /\ got' = NoValue
  /\ UNCHANGED <<query, opened, open, history, undefined>>

\* makeQuery(), for a caller who uses no other query any more.
MakeQuery ==
  /\ Call(query.stmt = NoStatement)
  /\ query' = NewQuery(connection)
  /\ NothingReached
  /\ UNCHANGED <<database, open, undefined>>

\* prepare(), of which sqlite made `stmt`, with the query's own connection.
\* sqlite makes no statement of a null connection.
Prepare(stmt) ==
  /\ Call(query.stmt = NoStatement /\ query.conn \in {NoConnection, connection})
  /\ IF query.conn \in alive \cup {NoConnection}
     THEN /\ stmt # NoStatement =>
               query.conn # NoConnection /\ open[query.conn] < MaxOpen
          /\ query' = Prepared(query, stmt)
          /\ open' = IF stmt = NoStatement THEN open
                     ELSE [open EXCEPT ![query.conn] = @ + 1]
          /\ NothingReached
          /\ UNCHANGED <<database, undefined>>
     ELSE /\ undefined' = TRUE
          /\ UNCHANGED <<query, database, open, history, got>>

\* bindValue(): a Variant of unknown type binds nothing, nor does any without
\* a statement, as when prepare() failed.
BindValue(value) ==
  /\ Call(TRUE)
  /\ query' = IF query.stmt = NoStatement \/ value = Null THEN query
              ELSE [query EXCEPT !.stmt = value]
  /\ got' = NoValue
  /\ UNCHANGED <<database, open, history, undefined>>

\* What a statement whose parameter is bound to `value` may have as rows.
Answers(value) ==
  UNION {[1..n -> Values \cup {value}] : n \in 0..MaxRows}

\* The rows of `given` that are NULL are copied into Variants whose type was
\* never set, which may be anything (Variant::copy).
Copies(given) ==
  /\ undefined' \in BOOLEAN /\ (undefined' => \E i \in DOMAIN given : given[i] = Null)
  /\ careful' = (careful /\ \A i \in DOMAIN given : given[i] # Null)

\* As if the statement were only reset, to be executed again.
MutExecStatement ==
  /\ ~undefined
  /\ query.stmt # NoStatement
  /\ \E given \in Answers(query.stmt) :
       /\ query' = Executed(query, given)
       /\ answer' = given
       /\ Copies(given)
  /\ reached' = <<>> /\ last' = "none" /\ got' = NoValue
  /\ UNCHANGED <<database, open>>

\* exec() of a statement: sqlite gives its rows, all or those before an
\* error, and the statement is finalized.  exec() returns true in any case.
ExecStatement ==
  /\ ~undefined
  /\ query.stmt # NoStatement
  /\ \E given \in Answers(query.stmt) :
       /\ query' = Executed(query, given)
       /\ answer' = given
       /\ Copies(given)
  /\ open' = [open EXCEPT ![query.conn] = @ - 1]
  /\ reached' = <<>> /\ last' = "none" /\ got' = NoValue
  /\ UNCHANGED database

\* exec() when there is no statement, after a prepare() that failed or a
\* second time: it returns true all the same, and goes back to the first row.
ExecNothing ==
  /\ Call(TRUE)
  /\ query.stmt = NoStatement
  /\ query' = Executed(query, <<>>)
  /\ reached' = <<>> /\ last' = "none" /\ got' = NoValue
  /\ UNCHANGED <<database, open, answer, undefined>>

\* next() without rows.
NextNone ==
  /\ Call(last # "end")
  /\ query.result = <<>>
  /\ last' = "end" /\ got' = NoValue
  /\ UNCHANGED <<query, database, open, answer, reached, undefined>>

\* next() on rows; there is none behind the end.
NextRow ==
  LET q == Advanced(query) IN
  /\ Call(last # "end")
  /\ query.result # <<>>
  /\ IF query.first \/ OnRow(query)
     THEN /\ query' = q
          /\ last' = IF OnRow(q) THEN "row" ELSE "end"
          /\ reached' = IF OnRow(q) THEN Append(reached, q.result[q.iter]) ELSE reached
          /\ UNCHANGED undefined
     ELSE /\ undefined' = TRUE
          /\ UNCHANGED <<query, last, reached>>
  /\ got' = NoValue
  /\ UNCHANGED <<database, open, answer>>

\* As if value() remembered the row it read before.
MutValue(known) ==
  /\ Call(last = "row")
  /\ IF OnRow(query)
     THEN /\ got' = IF known THEN query.result[1] ELSE Null
          /\ UNCHANGED undefined
     ELSE /\ undefined' = TRUE
          /\ UNCHANGED got
  /\ UNCHANGED <<query, database, open, history>>

\* value() of a column that is known or not.
Value(known) ==
  /\ Call(last = "row")
  /\ IF OnRow(query)
     THEN /\ got' = IF known THEN query.result[query.iter] ELSE Null
          /\ UNCHANGED undefined
     ELSE /\ undefined' = TRUE
          /\ UNCHANGED got
  /\ UNCHANGED <<query, database, open, history>>

---------------------------------------------------------------------------
Init ==
  /\ query = NewQuery(NoConnection)
  /\ connection = NoConnection
  /\ opened = 0 /\ alive = {}
  /\ open = [h \in Handles |-> 0]
  /\ answer = <<>> /\ reached = <<>> /\ last = "none"
  /\ got = NoValue
  /\ careful = TRUE /\ undefined = FALSE

Next ==
  \/ Initialize \/ Close \/ MakeQuery
  \/ \E stmt \in {NoStatement, Null} : Prepare(stmt)
  \/ \E value \in Values \cup {Null} : BindValue(value)
  \/ ExecStatement \/ ExecNothing
  \/ NextNone \/ NextRow
  \/ \E known \in BOOLEAN : Value(known)

Spec == Init /\ [][Next]_vars

---------------------------------------------------------------------------
(* Properties.                                                             *)

Columns == Values \cup {Null}

\* The type invariant of the query, the connection and the history.
TypeOK ==
  /\ query \in [conn : 0..opened, stmt : Columns \cup {NoStatement},
                result : Seq(Columns), iter : 0..(MaxRows + 1), first : BOOLEAN]
  /\ opened \in 0..MaxHandles /\ connection \in 0..opened /\ alive \subseteq 1..opened
  /\ open \in [Handles -> 0..MaxOpen]
  /\ answer \in Seq(Columns) /\ reached \in Seq(Columns)
  /\ last \in {"none", "row", "end"}
  /\ got \in Columns \cup {NoValue}
  /\ careful \in BOOLEAN /\ undefined \in BOOLEAN

\* Whoever follows the rules never moves the cursor past the end, never reads
\* where it is not on a row, and never uses a connection that was closed,
\* whatever statements could not be prepared or failed and were bound and
\* executed all the same, and however often the query was used before
\* (DbManager.cpp:61-73, 112-217, 219-239).
CarefulUseIsDefined == careful => ~undefined

\* Whoever follows the rules is given the rows that sqlite gave for the last
\* statement, each once and in order, and none if the statement could not be
\* prepared; never one of a statement before (DbManager.cpp:112-127, 163-217).
GivesTheAnswer ==
  careful =>
    /\ Len(reached) <= Len(answer) /\ reached = SubSeq(answer, 1, Len(reached))
    /\ last = "end" => reached = answer

\* And value() is that of the row next() has just reached, whatever the same
\* query was used for before (DbManager.cpp:199-207, 219-239).
ValueIsOfTheRow ==
  careful /\ got \notin {NoValue, Null} => got = reached[Len(reached)]

\* Every connection but the one at hand is closed: no statement is left open
\* by a prepare() or a step that failed, for which sqlite would refuse to
\* close it (DbManager.cpp:19-28, 120-124, 181).
ClosingCloses == careful => alive \subseteq {connection}
============================================================================
