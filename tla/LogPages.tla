------------------------------- MODULE LogPages -------------------------------
(***************************************************************************)
(* GET /logs/query (api/routes.py, repositories/signal_repository.py): an   *)
(* operator reads the trade log page by page while sessions append to it.   *)
(* A page is a query for its rows and a query for their number; nothing     *)
(* ties the pages, or the two queries, to one state of the table, and       *)
(* nothing orders rows with equal sort keys.                                *)
(***************************************************************************)
EXTENDS Integers, FiniteSets, Functions

CONSTANTS
    Kinds,      \* what a filter tells apart: log type, exchange, linked ids
    Times,      \* bound: the times of rows
    Limit,      \* rows of a page
    MaxRows     \* bound on the rows of the table

ASSUME LogConstantsOK ==
    Limit \in Nat \ {0} /\ MaxRows \in Nat /\ Times \subseteq Int

VARIABLES
    log,      \* committed rows; a row is its id, its kind and its time
    written,  \* rows made so far
    filter,   \* the kinds the operator asks for
    sort,     \* the column he sorts by, "timestamp" or "pnl"
    order,    \* "asc" or "desc"
    page,     \* the page being read, 0 when the reading is over
    rows,     \* rows of that page, while its number of rows is not known
    awaiting, \* whether the count query is still to come
    before,   \* rows there were when the reading began
    read      \* rows the operator has seen

logVars == <<log, written, filter, sort, order, page, rows, awaiting, before, read>>

LogRow(id, kind, time) == [id |-> id, kind |-> kind, time |-> time]
Matching == {r \in log : r.kind \in filter}

LogInit ==
    /\ \E n \in 0 .. MaxRows : \E kind \in [1 .. n -> Kinds], time \in [1 .. n -> Times] :
          log = {LogRow(i, kind[i], time[i]) : i \in 1 .. n} /\ written = n
    /\ filter \in {Kinds} \cup {{k} : k \in Kinds}
    /\ sort \in {"timestamp", "pnl"} /\ order \in {"asc", "desc"}
    /\ page = 1 /\ rows = {} /\ awaiting = FALSE
    /\ before = Matching
    /\ read = {}

\* A session adds a row. Its time is taken before the commit, so it may lie before, or
\* be equal to, that of a row committed earlier.
AppendRow ==
    /\ written < MaxRows
    /\ \E kind \in Kinds, time \in Times : log' = log \cup {LogRow(written + 1, kind, time)}
    /\ written' = written + 1
    /\ UNCHANGED <<filter, sort, order, page, rows, awaiting, before, read>>

\* The sort column. No caller of add_trade_log gives a pnl, so that column is null in
\* every row, and to sort by it is to sort by nothing.
SortKey(r) == IF sort = "pnl" THEN 0 ELSE r.time
Precedes(r, s) == IF order = "desc" THEN SortKey(r) > SortKey(s) ELSE SortKey(r) < SortKey(s)

\* ORDER BY of list_logs_page: any numbering of the rows that respects the keys. Rows
\* with equal keys come in the order the database happens to find them, anew per query.
Orderings ==
    {number \in Injection(Matching, 1 .. Cardinality(Matching)) :
        \A r, s \in Matching : Precedes(r, s) => number[r] < number[s]}

\* OFFSET and LIMIT.
ReadRows ==
    /\ page > 0 /\ ~awaiting
    /\ \E number \in Orderings :
          rows' = {r \in Matching : (page - 1) * Limit < number[r] /\ number[r] <= page * Limit}
    /\ awaiting' = TRUE
    /\ UNCHANGED <<log, written, filter, sort, order, page, before, read>>

\* Mutant of PageCount: a last page that is not full does not count.
PageCountFull(total) == IF total \div Limit > 1 THEN total \div Limit ELSE 1

PageCount(total) ==
    LET pages == (total + Limit - 1) \div Limit IN IF pages > 1 THEN pages ELSE 1

\* The answer: its rows, and the number of pages by the later count.
AnswerPage ==
    /\ awaiting
    /\ read' = read \cup rows
    /\ rows' = {}
    /\ awaiting' = FALSE
    /\ page' = IF page < PageCount(Cardinality(Matching)) THEN page + 1 ELSE 0
    /\ UNCHANGED <<log, written, filter, sort, order, before>>

LogNext == AppendRow \/ ReadRows \/ AnswerPage

LogSpec == LogInit /\ [][LogNext]_logVars

-----------------------------------------------------------------------------
\* Nothing else that matches has the key of r, or there is one page only.
HasItsPlace(r) ==
    \/ \A s \in Matching : SortKey(s) = SortKey(r) => s = r
    \/ Cardinality(Matching) <= Limit

\* A reader who turns the pages to the last has seen every row there was when he
\* began that no other row ties with, though rows are added between his pages and
\* between the two queries of one page: they move rows to later pages, never to one
\* he has left. Tied rows he has for certain only if they all fit on one page. So he
\* may miss rows of one timestamp, and sorting by pnl, any row of a longer
\* log. signal_repository.py:234-273, routes.py:1144.
NothingIsSkipped == page = 0 => \A r \in before : HasItsPlace(r) => r \in read
=============================================================================
