------------------------------- MODULE ToolCalls -------------------------------
(***************************************************************************)
(* Tool calls in flight: roTool of services/dba-mcp/src/tools.ts and       *)
(* dbatools.ts, the per-call scope of connectionManager.ts that collects   *)
(* what an answer must warn of, and executeWrite.  A call runs the plan of *)
(* its tool (ToolPlans): the steps of a stage are in flight at once, and   *)
(* the end of each runs the handler on to its next await.                  *)
(*                                                                         *)
(* Which pool a query ran on, and whether it was on master, is the choice  *)
(* of ConnectionPools, open here.  The queries of an alias resolution are  *)
(* those of RegionPrimary; what they would note is left out.               *)
(***************************************************************************)
EXTENDS ToolPlans

CONSTANTS Calls,
          Instances,    \* names of instances
          Deployments,  \* [http, first, dba, write]: transport, DBATOOLS_FIRST, toolset
          Menu          \* Menu[c]: the tools call c may be of

ASSUME DeploymentsAssumption ==
    \A d \in Deployments : d = [http |-> d.http, first |-> d.first, dba |-> d.dba, write |-> d.write]

VARIABLES
    env,        \* the deployment, which never changes
    asked,      \* asked[c]: the stages of call c's plan
    plan,       \* plan[c]: those that remain, the current one first
    flying,     \* flying[c]: the steps of the current stage still awaited
    orphans,    \* orphans[c]: steps in flight that nothing awaits any more
    scope,      \* scope[c]: the Map of catalogFallbackScope, as a set of notices
    answer,     \* answer[c]: its kind, and the notices attached to it
    tx,         \* tx[c]: the transaction of an execute_write
    \* of what happened
    lasts,      \* lasts[c]: what of its write is committed: nothing, what its statement
                \* committed by itself ("own"), or all that it left to the transaction too
    stray,      \* stray[c]: the instances whose pool was on master when a query of it
                \* returned, or when a write of it began
    short,      \* short[c]: the steps whose rows, or whose further result sets, were dropped
    words,      \* words[c]: the queries whose cut the handler itself reports
    failed      \* failed[c]: the awaited steps that failed

histVars == <<lasts, stray, short, words, failed>>
callVars == <<asked, plan, flying, orphans, scope, answer, tx>>
vars == <<env, callVars, histVars>>

-------------------------------------------------------------------------------
(* What can be asked. *)

Targets(i) == {<<i>>} \cup {<<i, j>> : j \in Instances \ {i}}

AppTools(i) ==
    [list_instances |-> {list_instances},
     get_current_primary |-> {get_current_primary(i)},
     list_databases |-> {list_databases(i)},
     list_tables |-> {list_tables(i)},
     describe_object |-> {describe_object(i)},
     fan_out_query |-> {fan_out_query(t) : t \in Targets(i)},
     execute_query |-> {execute_query(i)},
     list_schema_docs |-> {list_schema_docs},
     describe_schema |-> {describe_schema},
     describe_doc_object |-> {describe_doc_object},
     search_schema_docs |-> {search_schema_docs}]

WriteTools(i) == [execute_write |-> {execute_write(i, confirm) : confirm \in BOOLEAN}]

DmvTools(e, i) ==
    [get_active_sessions |-> {get_active_sessions(e, i)},
     get_blocking_chains |-> {get_blocking_chains(i)},
     get_hiq |-> {get_hiq(i)},
     get_top_queries |-> {get_top_queries(i)},
     get_wait_stats |-> {get_wait_stats(e, i)},
     get_file_io_stats |-> {get_file_io_stats(i)},
     get_cpu_history |-> {get_cpu_history(i)},
     get_memory_usage |-> {get_memory_usage(i)},
     get_tempdb_usage |-> {get_tempdb_usage(i)},
     get_database_info |-> {get_database_info(i)},
     get_server_info |-> {get_server_info(i)},
     get_missing_indexes |-> {get_missing_indexes(i)},
     get_index_usage_stats |-> {get_index_usage_stats(i)},
     get_database_files |-> {get_database_files(i)},
     get_query_store_regressions |-> {get_query_store_regressions(i)},
     get_plan_cache_pollution |-> get_plan_cache_pollution(i),
     get_long_running_transactions |-> {get_long_running_transactions(i)},
     get_deadlock_history |-> {get_deadlock_history(i)},
     get_latch_stats |-> {get_latch_stats(e, i)},
     get_ag_health |-> {get_ag_health(i)},
     get_distributed_ag_health |-> {get_distributed_ag_health(i)},
     get_log_paths |-> {get_log_paths(i)},
     get_memory_dumps |-> {get_memory_dumps(i)},
     get_machine_spec |-> {get_machine_spec(i)},
     get_backup_status |-> {get_backup_status(i)},
     get_vlf_count |-> {get_vlf_count(i)},
     get_buffer_pool_by_object |-> {get_buffer_pool_by_object(i)},
     get_statistics_health |-> {get_statistics_health(e, i)},
     get_index_fragmentation |-> {get_index_fragmentation(i)},
     get_job_status |-> {get_job_status(i)},
     get_columnstore_health |-> {get_columnstore_health(i)},
     get_perfmon_counters |-> {get_perfmon_counters(i)}]

HostTools(i) ==
    [check_dbatools_environment |-> {check_dbatools_environment(i)},
     list_dbatools_commands |-> {list_dbatools_commands(i)},
     get_dbatools_command_help |-> {get_dbatools_command_help(i)},
     run_dbatools_command |-> {run_dbatools_command(i)},
     run_diagnostic_query |-> {run_diagnostic_query(i)},
     read_error_log |-> {read_error_log(i)},
     read_cluster_reports |-> {read_cluster_reports(i)},
     get_host_dll_versions |-> {get_host_dll_versions(i)},
     read_sql_dump |-> read_sql_dump(i)]

\* registerTools(), by toolset; registerDbatoolsTools(), which registers nothing on HTTP.
Registered(i) ==
    {AppTools(i)}
    \cup (IF env.write THEN {WriteTools(i)} ELSE {})
    \cup (IF env.dba THEN {DmvTools(env, i)} ELSE {})
    \cup (IF env.dba /\ ~env.http THEN {HostTools(i)} ELSE {})

PlansFor(c, i) ==
    UNION UNION {{tools[name] : name \in Menu[c] \cap DOMAIN tools} : tools \in Registered(i)}

-------------------------------------------------------------------------------

\* A warning in the Map: its key, and whose query raised it.
Notice == [from : Calls, at : Instances, about : {"catalog", "rowcap", "resultsets"}, cap : Nat]
Catalog(c, s) == [from |-> c, at |-> s.at, about |-> "catalog", cap |-> 0]
RowCap(c, s) == [from |-> c, at |-> s.at, about |-> "rowcap", cap |-> s.cap]
ResultSets(c, s) == [from |-> c, at |-> s.at, about |-> "resultsets", cap |-> 0]

Unanswered == [kind |-> "none", notices |-> {}]
Running(c) == flying[c] # {}
Answered(c) == answer[c] # Unanswered
Steps(c) == plan[c][1].steps

TypeOK ==
    /\ env \in Deployments
    /\ \A c \in Calls :
          /\ flying[c] # {} => plan[c] # <<>> /\ flying[c] \subseteq DOMAIN Steps(c)
          /\ plan[c] # <<>> /\ answer[c].kind = "none" => flying[c] # {}
          /\ scope[c] \subseteq Notice
          /\ answer[c].kind \in {"none", "ok", "refused", "error"}
          /\ answer[c].notices \subseteq Notice
          /\ tx[c] \in {"none", "open", "ran", "over"}
          /\ lasts[c] \in {"nothing", "own", "all"}
          /\ stray[c] \subseteq Instances

Init ==
    /\ env \in Deployments
    /\ asked = [c \in Calls |-> <<>>]
    /\ plan = [c \in Calls |-> <<>>]
    /\ flying = [c \in Calls |-> {}]
    /\ orphans = [c \in Calls |-> {}]
    /\ scope = [c \in Calls |-> {}]
    /\ answer = [c \in Calls |-> Unanswered]
    /\ tx = [c \in Calls |-> "none"]
    /\ lasts = [c \in Calls |-> "nothing"]
    /\ stray = [c \in Calls |-> {}]
    /\ short = [c \in Calls |-> {}]
    /\ words = [c \in Calls |-> {}]
    /\ failed = [c \in Calls |-> {}]

-------------------------------------------------------------------------------
(* The handler between two awaits. *)

StepsAt(c, indices) == {Steps(c)[k] : k \in indices}

\* roTool: what the scope holds when the handler is done goes with its answer.
Answer(c, kind, noted) ==
    /\ answer' = [answer EXCEPT ![c] = [kind |-> kind, notices |-> noted]]
    /\ plan' = [plan EXCEPT ![c] = <<>>]
    /\ flying' = [flying EXCEPT ![c] = {}]

\* The handler goes on to some stages, and awaits the first.
Await(c, stages) ==
    /\ plan' = [plan EXCEPT ![c] = stages]
    /\ flying' = [flying EXCEPT ![c] = DOMAIN stages[1].steps]
    /\ UNCHANGED answer

\* The current stage is over.
GoOn(c, empty, noted) ==
    LET stop == plan[c][1].stop
        rest == Tail(plan[c])
    IN  \/ stop = "empty" /\ empty /\ Answer(c, "refused", noted)
        \/ ~(stop = "empty" /\ empty) /\ rest = <<>> /\ Answer(c, "ok", noted)
        \/ stop = "early" /\ rest # <<>> /\ Answer(c, "ok", noted)
        \/ ~(stop = "empty" /\ empty) /\ rest # <<>> /\ Await(c, rest)

\* Mutant: the answer carries what was noted before the last query ended.
SettleEarlyAttach(c, k, empty, noted) ==
    /\ IF flying[c] = {k}
       THEN GoOn(c, empty, scope[c])
       ELSE flying' = [flying EXCEPT ![c] = @ \ {k}] /\ UNCHANGED <<plan, answer>>
    /\ UNCHANGED orphans

\* Step k is over, and the stage with it, if it was the last.
Settle(c, k, empty, noted) ==
    /\ IF flying[c] = {k}
       THEN GoOn(c, empty, noted)
       ELSE flying' = [flying EXCEPT ![c] = @ \ {k}] /\ UNCHANGED <<plan, answer>>
    /\ UNCHANGED orphans

\* Mutant: withFallback() only falls back when the first step of a path fails.
CaughtFirstOnly(c, st) ==
    IF st.caught = "always" /\ Len(plan[c]) < Len(asked[c]) THEN "never" ELSE st.caught

Caught(c, st) == st.caught

\* Mutant: a rescue is started, and what the failed path waited for is still counted.
AbortCountingOn(c, k, noted) ==
    LET st == plan[c][1]
    IN  /\ failed' = [failed EXCEPT ![c] = @ \cup {Steps(c)[k]}]
        /\ orphans' = orphans
        /\ \/ /\ st.caught # "never"
              /\ plan' = [plan EXCEPT ![c] = st.rescue]
              /\ flying' = [flying EXCEPT ![c] = @ \ {k}]
              /\ UNCHANGED answer
           \/ st.caught # "always" /\ Answer(c, "error", noted)

\* A step that the handler needs has failed; the others of its stage are left to themselves.
Abort(c, k, noted) ==
    LET st == plan[c][1]
    IN  /\ failed' = [failed EXCEPT ![c] = @ \cup {Steps(c)[k]}]
        /\ orphans' = [orphans EXCEPT ![c] = @ \cup StepsAt(c, flying[c] \ {k})]
        /\ \/ Caught(c, st) # "never" /\ Await(c, st.rescue)
           \/ Caught(c, st) # "always" /\ Answer(c, "error", noted)

-------------------------------------------------------------------------------
(* Calls. *)

\* The handler runs to its first await, or to the answer of a tool that has none.
Ask(c) ==
    /\ asked[c] = <<>> /\ plan[c] = <<>> /\ ~Answered(c)
    /\ \E i \in Instances : \E p \in PlansFor(c, i) :
          /\ asked' = [asked EXCEPT ![c] = p.stages]
          /\ IF p.stages = <<>> THEN Answer(c, "ok", {}) ELSE Await(c, p.stages)
    /\ UNCHANGED <<env, orphans, scope, tx, histVars>>

\* The query guard, an identifier or a file name: refused before anything is sent.
Refuse(c) ==
    /\ asked[c] = <<>> /\ plan[c] = <<>> /\ ~Answered(c)
    /\ \E i \in Instances : \E p \in PlansFor(c, i) : p.guarded
    /\ Answer(c, "refused", {})
    /\ UNCHANGED <<env, asked, orphans, scope, tx, histVars>>

-------------------------------------------------------------------------------
(* The ends of steps. *)

\* Mutant: one Map in a module variable, which every open call reads.
CollectGlobally(c, new) ==
    [d \in Calls |-> IF d = c \/ Running(d) THEN scope[d] \cup new ELSE scope[d]]

\* noteCatalogFallback(), noteRowCap(): into the scope of the call whose query it is.
Collect(c, new) == [scope EXCEPT ![c] = @ \cup new]

Warnings(c, s, master, o) ==
    (IF master THEN {Catalog(c, s)} ELSE {}) \cup (IF o.note THEN {RowCap(c, s)} ELSE {})
    \cup (IF o.many THEN {ResultSets(c, s)} ELSE {})

Losses(s, o) ==
    (IF o.short THEN {[of |-> s, lost |-> "rows"]} ELSE {})
    \cup (IF o.many THEN {[of |-> s, lost |-> "sets"]} ELSE {})

\* What the handler, or its script, cuts from what a step came back with.
Trims(s) == SUBSET {[of |-> s, lost |-> what] : what \in s.trims}

\* queryInstance() returns; master: its pool is on the fallback catalog.
QueryEnds(c, k) ==
    /\ k \in flying[c] /\ Steps(c)[k].kind = "query"
    /\ LET s == Steps(c)[k]
       IN  \E o \in Outcomes(s), master \in BOOLEAN, trimmed \in Trims(s) :
              LET scopes == Collect(c, Warnings(c, s, master, o))
              IN  /\ scope' = scopes
                  /\ stray' = IF master THEN [stray EXCEPT ![c] = @ \cup {s.at}] ELSE stray
                  /\ short' = [short EXCEPT ![c] = @ \cup Losses(s, o) \cup trimmed]
                  /\ words' = IF o.word THEN [words EXCEPT ![c] = @ \cup {s}] ELSE words
                  /\ Settle(c, k, o.empty, scopes[c])
    /\ UNCHANGED <<env, asked, tx, lasts, failed>>

\* An alias is resolved, a cmdlet or a script has answered; callDbatools refuses on HTTP.
OtherEnds(c, k) ==
    /\ k \in flying[c] /\ Steps(c)[k].kind \in {"worker", "resolve", "script"}
    /\ ~(env.http /\ Steps(c)[k].kind = "worker")
    /\ \E trimmed \in Trims(Steps(c)[k]) : short' = [short EXCEPT ![c] = @ \cup trimmed]
    /\ Settle(c, k, FALSE, scope[c])
    /\ UNCHANGED <<env, asked, scope, tx, lasts, stray, words, failed>>

\* Login, network, timeout, SQL error, a dead worker: the handler can do without.
OptionalFails(c, k) ==
    /\ k \in flying[c] /\ Steps(c)[k].optional
    /\ Settle(c, k, TRUE, scope[c])
    /\ UNCHANGED <<env, asked, scope, tx, histVars>>

StepFails(c, k) ==
    /\ k \in flying[c] /\ ~Steps(c)[k].optional /\ tx[c] = "none"
    /\ Abort(c, k, scope[c])
    /\ UNCHANGED <<env, asked, scope, tx, lasts, stray, short, words>>

\* A query nothing awaits returns into a scope that has been read already, or will be.  (A row
\* cap it would note is left out: where queries run at once, the failure that leaves one to
\* itself has answered the call.)
OrphanEnds(c) ==
    /\ \E s \in orphans[c] :
          /\ orphans' = [orphans EXCEPT ![c] = @ \ {s}]
          /\ \/ UNCHANGED scope
             \/ s.kind = "query" /\ scope' = Collect(c, {Catalog(c, s)})
    /\ UNCHANGED <<env, asked, plan, flying, answer, tx, histVars>>

-------------------------------------------------------------------------------
(* executeWrite. *)

Writing(c, k) == k \in flying[c] /\ Steps(c)[k].kind \in {"commit", "dryrun"}

\* The warning is noted as soon as the pool is known; then begin().
BeginTx(c, k) ==
    /\ Writing(c, k) /\ tx[c] = "none"
    /\ \E master \in BOOLEAN :
          LET s == Steps(c)[k]
              scopes == Collect(c, IF master THEN {Catalog(c, s)} ELSE {})
          IN  /\ scope' = scopes
              /\ stray' = IF master THEN [stray EXCEPT ![c] = @ \cup {s.at}] ELSE stray
              /\ \/ /\ tx' = [tx EXCEPT ![c] = "open"]
                    /\ UNCHANGED <<plan, flying, orphans, answer, failed>>
                 \/ Abort(c, k, scopes[c]) /\ UNCHANGED tx
    /\ UNCHANGED <<env, asked, lasts, short, words>>

\* SET XACT_ABORT ON: a statement that fails, or a rollback() after it, ends the transaction.
\* "its own COMMIT": a procedure may commit what it has done, and fail or go on then.
RunStatement(c, k) ==
    /\ Writing(c, k) /\ tx[c] = "open"
    /\ \E what \in {"nothing", "own"} : lasts' = [lasts EXCEPT ![c] = what]
    /\ \/ /\ tx' = [tx EXCEPT ![c] = "ran"]
          /\ UNCHANGED <<plan, flying, orphans, answer, failed>>
       \/ /\ tx' = [tx EXCEPT ![c] = "over"]
          /\ Abort(c, k, scope[c])
    /\ UNCHANGED <<env, asked, scope, stray, short, words>>

\* Mutant: the dry run commits as well.
EndTxCommitting(c, k) ==
    /\ Writing(c, k) /\ tx[c] = "ran"
    /\ tx' = [tx EXCEPT ![c] = "over"]
    /\ lasts' = [lasts EXCEPT ![c] = "all"]
    /\ Settle(c, k, FALSE, scope[c])
    /\ UNCHANGED <<env, asked, scope, stray, short, words, failed>>

\* Mutant: the failure of commit() is caught, and reported as a commit.
EndTxHopeful(c, k) ==
    /\ Writing(c, k) /\ tx[c] = "ran"
    /\ tx' = [tx EXCEPT ![c] = "over"]
    /\ \E all \in BOOLEAN :
          lasts' = IF all /\ Steps(c)[k].kind = "commit" THEN [lasts EXCEPT ![c] = "all"] ELSE lasts
    /\ Settle(c, k, FALSE, scope[c])
    /\ UNCHANGED <<env, asked, scope, stray, short, words, failed>>

\* commit() or rollback() is confirmed, and the handler cuts the rows of its answer; or it
\* fails: before a commit took effect, or after, when only its confirmation was lost.  A
\* connection that is lost rolls back.
EndTx(c, k) ==
    /\ Writing(c, k) /\ tx[c] = "ran"
    /\ tx' = [tx EXCEPT ![c] = "over"]
    /\ LET s == Steps(c)[k]
           done == IF s.kind = "commit" THEN "all" ELSE lasts[c]
       IN  \/ /\ lasts' = [lasts EXCEPT ![c] = done]
              /\ \E trimmed \in Trims(s) : short' = [short EXCEPT ![c] = @ \cup trimmed]
              /\ Settle(c, k, FALSE, scope[c])
              /\ UNCHANGED failed
           \/ /\ \E end \in {done, lasts[c]} : lasts' = [lasts EXCEPT ![c] = end]
              /\ Abort(c, k, scope[c])
              /\ UNCHANGED short
    /\ UNCHANGED <<env, asked, scope, stray, words>>

-------------------------------------------------------------------------------

StepEnds(c) ==
    \E k \in flying[c] :
        \/ QueryEnds(c, k) \/ OtherEnds(c, k) \/ OptionalFails(c, k) \/ StepFails(c, k)
        \/ BeginTx(c, k) \/ RunStatement(c, k) \/ EndTx(c, k)

Next == \E c \in Calls : Ask(c) \/ Refuse(c) \/ StepEnds(c) \/ OrphanEnds(c)

\* connectionTimeout and requestTimeout bound every query, the worker's timer and the
\* script's timer the rest.
Spec == Init /\ [][Next]_vars
FairSpec == Spec /\ \A c \in Calls : WF_vars(StepEnds(c))

-------------------------------------------------------------------------------
(* Properties. *)

\* "a plain global would leak one caller's warning onto another's result": what a scope or
\* an answer holds was noted by a query of that very call.
NoticesAreOwn ==
    \A c \in Calls : \A n \in scope[c] \cup answer[c].notices : n.from = c

\* If rows that were asked for, or result sets, are missing from an answer, the answer says so,
\* unless the code cuts them without a word, and that it does in these places only: the step
\* says so in `trims` (execute_write's answer of 50 rows, or 20, of the first result set; the
\* scripts that stop at a number of rows; the lines of a dump), or it is get_job_status's query
\* of msdb, which asks not to be noted and is cut at its own TOP.
LossIsSaid ==
    \A c \in Calls : \A loss \in short[c] :
        LET s == loss.of
        IN  /\ answer[c].kind = "ok"
            /\ loss.lost \notin s.trims /\ s # Optional(JobStatusMsdb(s.at))
            => \/ loss.lost = "rows" /\ (RowCap(c, s) \in answer[c].notices \/ s \in words[c])
               \/ loss.lost = "sets" /\ ResultSets(c, s) \in answer[c].notices

\* And if an answer says that a result was cut, rows are missing from it: a result that
\* fills its cap to the last row is not reported as cut.
CutIsReal ==
    \A c \in Calls :
        /\ words[c] \subseteq {loss.of : loss \in short[c]}
        /\ \A n \in answer[c].notices : n.about # "catalog" =>
              \E loss \in short[c] : loss.of.at = n.at /\ (n.about = "rowcap" => loss.of.cap = n.cap)

\* An answer, an error or one given early too, that rests on a read that returned from the
\* fallback catalog, or on a write there that failed or not, warns of it, for each instance.
\* Of a read that failed there it may say nothing: the run ConnectionPoolsWarning.
FallbackIsSaid ==
    \A c \in Calls : Answered(c) =>
        \A i \in stray[c] : \E n \in answer[c].notices : n.about = "catalog" /\ n.at = i

LastResort(stages) ==
    IF stages # <<>> /\ stages[1].caught = "always" THEN stages[1].rescue ELSE stages

Vital(stages) ==
    {s \in UNION {{stages[k].steps[j] : j \in DOMAIN stages[k].steps} : k \in DOMAIN stages} : ~s.optional}

\* A call ends in an error only if a step failed that it cannot do without: not for a node
\* of a fan-out, not for an extra, and not for anything on the dbatools path ("an opt-in
\* performance experiment must never be the reason a diagnostic tool is unavailable").
ErrorHasCause ==
    \A c \in Calls : answer[c].kind = "error" =>
        \E s \in failed[c] : s \in Vital(LastResort(asked[c]))

\* An execute_write that reports a commit has one; the transaction of a dry run is never
\* committed, even if it fails ("a dry-run rolls back the transaction"), so that all that can
\* last of it is what a procedure committed by itself; and no answer leaves a transaction open.
WriteReportIsTrue ==
    \A c \in Calls : \A s \in Vital(asked[c]) :
        /\ s.kind = "commit" /\ answer[c].kind = "ok" => lasts[c] = "all"
        /\ s.kind = "dryrun" => lasts[c] # "all"
        /\ Answered(c) => tx[c] \notin {"open", "ran"}

\* Every call is answered.
EveryCallSettles == \A c \in Calls : Running(c) ~> Answered(c)

===============================================================================
