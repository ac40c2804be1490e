------------------------------- MODULE ToolPlans -------------------------------
(***************************************************************************)
(* What each tool of services/dba-mcp/src/tools.ts, and each tool of       *)
(* dbatools.ts that only asks, waits for: the queries, worker calls and    *)
(* scripts of its handler, in their order, which of them may fail, how     *)
(* many rows of each are kept, and when the handler answers early.  With   *)
(* it the arithmetic of the row cap of connectionManager.ts.               *)
(*                                                                         *)
(* A plan is a sequence of stages, a stage a sequence of steps that run    *)
(* at once (Promise.all).  The T-SQL, the cmdlets and the wording of the   *)
(* answers are left out.                                                   *)
(***************************************************************************)
EXTENDS Naturals, Sequences, FiniteSets

-------------------------------------------------------------------------------
(* The row cap. *)

\* Mutant: the server is asked for no more rows than are kept.
ApplyRowLimitExact(cap, top, userSql) == IF top # 0 /\ ~userSql THEN top ELSE cap

\* How many rows the server sends at most: a built-in batch with TOP (top) is left alone,
\* any other text is asked for one row more than the caller keeps.
ApplyRowLimit(cap, top, userSql) == IF top # 0 /\ ~userSql THEN top ELSE cap + 1

\* Mutant: a result that fills the cap exactly counts as cut.
CapRowsEager(n, cap) == [kept |-> IF n > cap THEN cap ELSE n, truncated |-> n >= cap]

CapRows(n, cap) == [kept |-> IF n > cap THEN cap ELSE n, truncated |-> n > cap]

-------------------------------------------------------------------------------
(* Steps. *)

\* queries, calls of the pwsh worker, alias resolutions, one-shot scripts, writes
Step(kind, i) ==
    [kind |-> kind, at |-> i, cap |-> 0, limit |-> 0,
     asked |-> 0,           \* rows the caller asked for with TOP; 0, if it asked for all
     user |-> FALSE,        \* the batch is the user's (userSql)
     noted |-> FALSE,       \* a cut is noted in the scope (noteTruncation)
     worded |-> FALSE,      \* the handler reports `truncated` itself
     optional |-> FALSE,    \* the handler goes on without it
     trims |-> {}]          \* what its handler or its script may cut from it without a word

Worker(i) == Step("worker", i)
Resolve(i) == Step("resolve", i)
Script(i) == Step("script", i)

Trimmed(s, lost) == [s EXCEPT !.trims = lost]

\* executeWrite: the first result set alone, and of it 50 rows, or 20 of a dry run.
Write(kind, i) == Trimmed(Step(kind, i), {"rows", "sets"})

\* queryInstance(i, sql, cap): all the rows are wanted.
Query(i, cap) == [Step("query", i) EXCEPT !.cap = cap, !.limit = ApplyRowLimit(cap, 0, FALSE),
                                          !.noted = TRUE]

\* A TOP (n) that is what the tool promises, within the cap: the n largest, the n newest.
Ranked(i, n) == [Query(i, 200) EXCEPT !.limit = ApplyRowLimit(200, n, FALSE), !.asked = n]

\* A TOP (top) that stands in for the cap of all the rows.
Bounded(i, top, cap) == [Query(i, cap) EXCEPT !.limit = ApplyRowLimit(cap, top, FALSE)]

\* The batch of the user, which may hold a TOP of its own anywhere.
UserSql(i, cap) == [Query(i, cap) EXCEPT !.limit = ApplyRowLimit(cap, 1, TRUE), !.user = TRUE]

\* noteTruncation: false, and the handler's answer holds `truncated`, or does not.
Own(s) == [s EXCEPT !.noted = FALSE, !.worded = TRUE]
Muted(s) == [s EXCEPT !.noted = FALSE]

Optional(s) == [s EXCEPT !.optional = TRUE]

\* What a query can come back with when n rows match: whether it is empty, whether the
\* answer lacks rows that were wanted, and whether finishQuery notes or reports it; many: there
\* are further result sets, which are dropped.
Outcome(s, n, many) ==
    LET sent == IF n > s.limit THEN s.limit ELSE n
        got == CapRows(sent, s.cap)
    IN  [empty |-> n = 0,
         short |-> got.kept < n,
         many |-> many,
         note |-> got.truncated /\ s.noted,
         word |-> got.truncated /\ s.worded]

\* The counts that matter: none, those about the cap and about the limit.
RowCounts(s) ==
    IF s.asked # 0 THEN {0, s.asked}
    ELSE {0, s.cap, s.cap + 1, s.limit, s.limit + 1}

\* The tools' own batches are known to have one result set; the user's may have more.
Outcomes(s) ==
    {Outcome(s, n, FALSE) : n \in RowCounts(s)} \cup {Outcome(s, n, s.user) : n \in RowCounts(s)}

-------------------------------------------------------------------------------
(* Stages and plans. *)

\* stop: the handler may answer when the stage is over, "early", or "empty" with an error
\* when it came back empty; caught: whether its failure leads to the stages of `rescue`.
All(steps) == [steps |-> steps, stop |-> "no", caught |-> "never", rescue |-> <<>>]
Then(s) == All(<<s>>)
OrEarly(st) == [st EXCEPT !.stop = "early"]
OrEmpty(st) == [st EXCEPT !.stop = "empty"]
Else(st, caught, rescue) == [st EXCEPT !.caught = caught, !.rescue = rescue]

\* guarded: the handler may refuse its arguments before it waits for anything.
Plan(stages) == [guarded |-> FALSE, stages |-> stages]
Guarded(stages) == [guarded |-> TRUE, stages |-> stages]

\* dbatoolsFirst(): DBATOOLS_FIRST=1, and never on the HTTP transport.
DbatoolsFirst(env) == env.first /\ ~env.http

\* withFallback(): any failure on the dbatools path, whichever step it is, starts the DMV path.
WithFallback(env, dbatools, dmv) ==
    IF DbatoolsFirst(env)
    THEN [k \in DOMAIN dbatools |-> Else(dbatools[k], "always", dmv)]
    ELSE dmv

-------------------------------------------------------------------------------
(* The tools every toolset has. *)

list_instances == Plan(<<>>)

\* The confirmation by dbatools is best effort.
get_current_primary(i) == Plan(<<Then(Resolve(i)), Then(Optional(Worker(i)))>>)

list_databases(i) == Plan(<<Then(Query(i, 200))>>)
list_tables(i) == Guarded(<<Then(Own(Query(i, 1000)))>>)

\* No columns: not found.  Indexes and row count are left empty if they cannot be read.
describe_object(i) == Guarded(<<OrEmpty(Then(Query(i, 1000))),
                                Then(Optional(Query(i, 200))),
                                Then(Optional(Query(i, 1)))>>)

\* Promise.allSettled: a node that fails is an entry of the answer.
fan_out_query(targets) ==
    Guarded(<<All([k \in DOMAIN targets |-> Optional(Own(UserSql(targets[k], 200)))])>>)

execute_query(i) == Guarded(<<Then(Own(UserSql(i, 500)))>>)

\* confirm: commit, or a dry run.
execute_write(i, confirm) ==
    Guarded(<<Then(Write(IF confirm THEN "commit" ELSE "dryrun", i))>>)

list_schema_docs == Plan(<<>>)
describe_schema == Guarded(<<>>)
describe_doc_object == Guarded(<<>>)
search_schema_docs == Plan(<<>>)

-------------------------------------------------------------------------------
(* The DMV tools. *)

activeSessionsViaDmv(i) == <<Then(Own(Query(i, 200)))>>
activeSessionsViaDbatools(i) == <<Then(Resolve(i)), Then(Worker(i))>>
get_active_sessions(env, i) ==
    Plan(WithFallback(env, activeSessionsViaDbatools(i), activeSessionsViaDmv(i)))

get_blocking_chains(i) == Plan(<<Then(Query(i, 200))>>)

\* TOP (n + 1) with a cap of n.
get_hiq(i) == Guarded(<<Then(Own(Bounded(i, 201, 200)))>>)

get_top_queries(i) == Plan(<<Then(Ranked(i, 20))>>)

waitStatsViaDmv(i) == <<Then(Query(i, 200))>>
waitStatsViaDbatools(i) == <<Then(Resolve(i)), Then(Worker(i))>>
get_wait_stats(env, i) == Plan(WithFallback(env, waitStatsViaDbatools(i), waitStatsViaDmv(i)))

get_file_io_stats(i) == Plan(<<Then(Query(i, 200))>>)

\* One sample a minute, the last 256.
get_cpu_history(i) == Plan(<<Then([Ranked(i, 256) EXCEPT !.cap = 256])>>)

get_memory_usage(i) == Plan(<<All(<<Query(i, 200), Ranked(i, 30), Query(i, 200)>>)>>)
get_tempdb_usage(i) == Plan(<<Then(Resolve(i)), All(<<Worker(i), Worker(i)>>)>>)
get_database_info(i) == Plan(<<Then(Resolve(i)), Then(Worker(i))>>)
get_server_info(i) ==
    Plan(<<Then(Resolve(i)), All(<<Worker(i), Worker(i), Query(i, 200), Query(i, 200)>>)>>)
get_missing_indexes(i) == Plan(<<Then(Ranked(i, 20))>>)
get_index_usage_stats(i) == Guarded(<<Then(Own(Bounded(i, 1001, 1000)))>>)
get_database_files(i) == Guarded(<<Then(Resolve(i)), Then(Worker(i))>>)
get_query_store_regressions(i) == Guarded(<<Then(Ranked(i, 20))>>)

\* analysis_type: one of the two analyses, or both.
get_plan_cache_pollution(i) ==
    {Plan(<<Then(Ranked(i, 30))>>), Plan(<<Then(Ranked(i, 30)), Then(Ranked(i, 30))>>)}

get_long_running_transactions(i) == Plan(<<Then(Query(i, 200))>>)
get_deadlock_history(i) == Plan(<<Then(Ranked(i, 20))>>)

latchStatsViaDmv(i) == <<Then(Ranked(i, 30))>>
latchStatsViaDbatools(i) == <<Then(Resolve(i)), Then(Worker(i))>>
get_latch_stats(env, i) == Plan(WithFallback(env, latchStatsViaDbatools(i), latchStatsViaDmv(i)))

\* An instance without replicas is answered without the failure policy.
get_ag_health(i) ==
    Plan(<<Then(Resolve(i)), OrEarly(All(<<Worker(i), Worker(i)>>)), Then(Query(i, 200))>>)

get_distributed_ag_health(i) == Plan(<<Then(Query(i, 200))>>)
get_log_paths(i) == Plan(<<Then(Ranked(i, 1))>>)
get_memory_dumps(i) == Plan(<<Then(Own(Query(i, 500)))>>)
get_machine_spec(i) == Plan(<<Then(Resolve(i)), All(<<Worker(i), Worker(i)>>)>>)
get_backup_status(i) == Plan(<<Then(Resolve(i)), Then(Worker(i))>>)
get_vlf_count(i) == Plan(<<Then(Resolve(i)), Then(Worker(i))>>)
get_buffer_pool_by_object(i) == Guarded(<<Then(Ranked(i, 50))>>)

\* The dbatools path counts the objects, then runs DBCC on one after another: no object at
\* all, one, or two of them.
statisticsHealthViaDmv(i) == <<Then(Query(i, 200))>>
statisticsHealthViaDbatools(i) ==
    <<Then(Resolve(i)), OrEarly(Then(Query(i, 1000000))), OrEarly(Then(Worker(i))), Then(Worker(i))>>
get_statistics_health(env, i) ==
    Guarded(WithFallback(env, statisticsHealthViaDbatools(i), statisticsHealthViaDmv(i)))

get_index_fragmentation(i) == Guarded(<<Then(Query(i, 200))>>)

\* msdb's inventory is asked for only if dbatools returned no job, and bounds itself.
JobStatusMsdb(i) == Muted(Bounded(i, 500, 500))
get_job_status(i) ==
    Plan(<<Then(Resolve(i)), OrEarly(Then(Worker(i))), Then(Optional(JobStatusMsdb(i)))>>)

get_columnstore_health(i) == Guarded(<<Then(Bounded(i, 201, 200))>>)
get_perfmon_counters(i) == Plan(<<Then(Query(i, 200))>>)

-------------------------------------------------------------------------------
(* Tools of dbatools.ts; those that change the host, or check it, are modelled apart. *)

check_dbatools_environment(i) == Plan(<<Then(Script(i))>>)
list_dbatools_commands(i) == Plan(<<Then(Script(i))>>)

\* A script that stops at a number of its caller's or its own: rows, lines, files, examples.
Limited(i) == Guarded(<<Then(Trimmed(Script(i), {"rows"}))>>)
get_dbatools_command_help(i) == Limited(i)
run_dbatools_command(i) == Limited(i)
run_diagnostic_query(i) == Limited(i)
read_error_log(i) == Limited(i)
read_cluster_reports(i) == Limited(i)
get_host_dll_versions(i) == Limited(i)

\* list: the files, and the directory if there are none.  read: the directory that has the
\* file, else the default one, and the file as Unicode, or as DBCS on a code page error; of
\* its lines, the first max_lines.
dumpFile(i) == Trimmed(Ranked(i, 1), {"rows"})
read_sql_dump(i) ==
    {Guarded(<<OrEarly(Then(Query(i, 5000))), Then(Ranked(i, 1))>>)}
    \cup {Guarded(dir \o <<OrEmpty(Else(Then(dumpFile(i)), "sometimes",
                                          <<OrEmpty(Then(dumpFile(i)))>>))>>) :
            dir \in {<<Then(Ranked(i, 1))>>, <<Then(Ranked(i, 1)), OrEmpty(Then(Ranked(i, 1)))>>}}
===============================================================================
