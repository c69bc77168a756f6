----------------------------- MODULE SchemaStartup -----------------------------
(***************************************************************************)
(* core/dependencies.py, init_models: at its start every process creates    *)
(* the tables that are missing and adds the columns that are missing. The   *)
(* API and the worker start on the same database. PostgreSQL does all of it *)
(* in one transaction; SQLite's driver commits every statement by itself.   *)
(***************************************************************************)
EXTENDS Integers, FiniteSets, Sequences, SequencesExt

CONSTANTS
    Processes,
    Tables,          \* in the order of the metadata
    Columns,         \* columns added since, in the order of the code
    TableOf,         \* column -> its table
    DateTimes,       \* columns added as DATETIME, a type PostgreSQL does not know
    MaxStops         \* bound on the ends of a process

ASSUME SchemaConstantsOK ==
    /\ Tables \in Seq(ToSet(Tables)) /\ Columns \in Seq(ToSet(Columns))
    /\ TableOf \in [ToSet(Columns) -> ToSet(Tables)]
    /\ DateTimes \subseteq ToSet(Columns)
    /\ MaxStops \in Nat

VARIABLES
    database, \* "postgresql" or "sqlite"
    schema,  \* committed tables and columns
    made,    \* process -> what its open transaction made
    plan,    \* process -> places in the order of its phase it has still to make
    phase,   \* process -> "off", "tables", "columns", "up"
    stops

schemaVars == <<database, schema, made, plan, phase, stops>>

Objects == ToSet(Tables) \cup ToSet(Columns)
\* A new table is created with the columns of today's models.
Made(x) == {x} \cup {c \in ToSet(Columns) : TableOf[c] = x}
\* What a process makes in the phase it is in, and what of it the look found missing.
Order(p) == IF phase[p] = "tables" THEN Tables ELSE Columns
Missing(p, order) == {i \in DOMAIN order : order[i] \notin schema \cup made[p]}
\* The statement it comes to next.
NextPlace(p) == Min(plan[p])
Statement(p) == Order(p)[NextPlace(p)]
HeldByOther(p, x) == \E q \in Processes \ {p} : x \in made[q]

\* A database of some earlier version, or none: a column comes with its table.
SchemaInit ==
    /\ database \in {"postgresql", "sqlite"}
    /\ schema \in {old \in SUBSET Objects :
                     \A c \in ToSet(Columns) \cap old : TableOf[c] \in old}
    /\ made = [p \in Processes |-> {}]
    /\ plan = [p \in Processes |-> {}]
    /\ phase = [p \in Processes |-> "off"]
    /\ stops = 0

\* Mutant of Boot: tables are created without a look whether they are there.
BootUnchecked(p) ==
    /\ phase[p] = "off"
    /\ plan' = [plan EXCEPT ![p] = DOMAIN Tables]
    /\ phase' = [phase EXCEPT ![p] = "tables"]
    /\ UNCHANGED <<database, schema, made, stops>>

\* create_all looks at all tables before it creates the first.
Boot(p) ==
    /\ phase[p] = "off"
    /\ plan' = [plan EXCEPT ![p] = Missing(p, Tables)]
    /\ phase' = [phase EXCEPT ![p] = "tables"]
    /\ UNCHANGED <<database, schema, made, stops>>

\* Mutant of Inspect: the columns are looked at before the tables are made.
InspectOnce(p) ==
    /\ phase[p] = "tables"
    /\ plan[p] = {}
    /\ phase' = [phase EXCEPT ![p] = "columns"]
    /\ UNCHANGED <<database, schema, made, plan, stops>>

\* _run_schema_migrations reads the columns before it adds the first.
Inspect(p) ==
    /\ phase[p] = "tables"
    /\ plan[p] = {}
    /\ plan' = [plan EXCEPT ![p] = Missing(p, Columns)]
    /\ phase' = [phase EXCEPT ![p] = "columns"]
    /\ UNCHANGED <<database, schema, made, stops>>

\* Whether the next statement succeeds: it is an error to make what is there.
Runs(p) ==
    /\ Statement(p) \notin schema
    /\ database = "postgresql" => Statement(p) \notin DateTimes

\* CREATE TABLE or ALTER TABLE: it waits for another transaction that made the
\* same; an error rolls back, and ends the process before it is up.
Alter(p) ==
    /\ phase[p] \in {"tables", "columns"}
    /\ plan[p] # {}
    /\ ~HeldByOther(p, Statement(p))
    /\ IF Runs(p)
       THEN /\ IF database = "postgresql"
               THEN /\ made' = [made EXCEPT ![p] = @ \cup Made(Statement(p))]
                    /\ UNCHANGED schema
               ELSE /\ schema' = schema \cup Made(Statement(p))
                    /\ UNCHANGED made
            /\ plan' = [plan EXCEPT ![p] = @ \ {NextPlace(p)}]
            /\ UNCHANGED phase
       ELSE /\ made' = [made EXCEPT ![p] = {}]
            /\ plan' = [plan EXCEPT ![p] = {}]
            /\ phase' = [phase EXCEPT ![p] = "off"]
            /\ UNCHANGED schema
    /\ UNCHANGED <<database, stops>>

CommitSchema(p) ==
    /\ phase[p] = "columns"
    /\ plan[p] = {}
    /\ schema' = schema \cup made[p]
    /\ made' = [made EXCEPT ![p] = {}]
    /\ phase' = [phase EXCEPT ![p] = "up"]
    /\ UNCHANGED <<database, plan, stops>>

\* The process ends at any point; what it did not commit is gone.
StopProcess(p) ==
    /\ phase[p] # "off"
    /\ stops < MaxStops
    /\ stops' = stops + 1
    /\ made' = [made EXCEPT ![p] = {}]
    /\ plan' = [plan EXCEPT ![p] = {}]
    /\ phase' = [phase EXCEPT ![p] = "off"]
    /\ UNCHANGED <<database, schema>>

Start(p) == Boot(p) \/ Alter(p) \/ Inspect(p) \/ CommitSchema(p)
SchemaNext == \E p \in Processes : Start(p) \/ StopProcess(p)

\* A process that ended is started again (the services of FARGATE_RUNBOOK.md).
SchemaFairness == \A p \in Processes : WF_schemaVars(Start(p))
SchemaSpec == SchemaInit /\ [][SchemaNext]_schemaVars /\ SchemaFairness

-----------------------------------------------------------------------------
\* A process that serves finds every table and column, whichever version the
\* database had, whoever started beside it and wherever one stopped.
\* core/dependencies.py:71-77, 128-182.
UpIsComplete ==
    \A p \in Processes : phase[p] = "up" => schema = Objects

\* Processes that start at once fail at what the other made, but not for ever:
\* restarted, all of them are up in the end, if the database knows the types.
EveryProcessStarts ==
    (database = "postgresql" => UNION {Made(x) : x \in schema} \cap DateTimes \subseteq schema)
        => <>(\A p \in Processes : phase[p] = "up")
=============================================================================
