---------------------------- MODULE ToolCallsProofs ----------------------------
(***************************************************************************)
(* Proofs about ToolCalls, for any number of calls at once, any instances, *)
(* any deployments and any menus.  Of the plans they use what              *)
(* ToolPlansProofs shows of every one of them.                             *)
(***************************************************************************)
EXTENDS ToolCalls, ToolPlansProofs, TLAPS

-------------------------------------------------------------------------------
(* The invariant. *)

Paths == ReadPath(Instances) \cup WritePath(Instances)

\* Where a call can be in its plan: at a stage of it, or of the rescue of one.
Stages(path) == {path[j] : j \in DOMAIN path}
OnCourse(stages, path) ==
    \/ stages \in Seq(Stages(path))
    \/ \E j \in DOMAIN path : stages \in Seq(Stages(path[j].rescue))

\* A call awaits steps of its current stage until it is answered, and then nothing; a write is
\* awaited alone.
Shape(c) ==
    /\ asked[c] \in Paths
    /\ OnCourse(plan[c], asked[c])
    /\ plan[c] = <<>> => flying[c] = {} /\ (asked[c] = <<>> \/ Answered(c))
    /\ plan[c] # <<>> => flying[c] # {} /\ flying[c] \subseteq DOMAIN Steps(c) /\ ~Answered(c)
    /\ asked[c] \in WritePath(Instances) => plan[c] = asked[c] \/ (plan[c] = <<>> /\ Answered(c))
    /\ orphans[c] \subseteq SoundStep(Instances)

\* Only a write has a transaction, and it ends before the answer; nothing lasts of a write before
\* its statement ran.
InTx(c) ==
    /\ tx[c] \in IF Answered(c) THEN {"none", "over"} ELSE {"none", "open", "ran"}
    /\ asked[c] \notin WritePath(Instances) => tx[c] = "none"
    /\ lasts[c] \in {"nothing", "own", "all"}
    /\ tx[c] \in {"none", "open"} => lasts[c] = "nothing"
    /\ \A i \in Instances :
          /\ asked[c] = <<Then(Write("commit", i))>> /\ answer[c].kind = "ok" => lasts[c] = "all"
          /\ asked[c] = <<Then(Write("dryrun", i))>> => lasts[c] # "all"

CatalogAt(i, notices) == \E n \in notices : n.about = "catalog" /\ n.at = i

\* A loss is reported in words of the handler, or noted, or of what the step's handler trims.
ToldIn(c, loss, reported, notices) ==
    LET s == loss.of
    IN  /\ loss.lost \in {"rows", "sets"}
        /\ loss.lost = "rows" /\ "rows" \notin s.trims /\ s # Optional(JobStatusMsdb(s.at)) =>
              s \in reported \/ RowCap(c, s) \in notices
        /\ loss.lost = "sets" /\ "sets" \notin s.trims => ResultSets(c, s) \in notices

\* A notice of a cut has its loss.
Lost(losses, n) ==
    n.about # "catalog" =>
        \E loss \in losses : loss.of.at = n.at /\ (n.about = "rowcap" => loss.of.cap = n.cap)

\* Notices are of this call and true, and tell of all it read on master and of all it lost.
Complete(c, read, losses, reported, notices) ==
    /\ \A n \in notices : n \in Notice /\ n.from = c /\ Lost(losses, n)
    /\ \A i \in read : CatalogAt(i, notices)
    /\ \A loss \in losses : ToldIn(c, loss, reported, notices)

\* The scope is complete at all times, and so is the answer that was given its notices.
Records(c) ==
    /\ Complete(c, stray[c], short[c], words[c], scope[c])
    /\ Answered(c) => Complete(c, stray[c], short[c], words[c], answer[c].notices)
    /\ ~Answered(c) => answer[c].notices = {}
    /\ answer[c].kind \in {"none", "ok", "refused", "error"}
    /\ stray[c] \subseteq Instances
    /\ words[c] \subseteq {loss.of : loss \in short[c]}
    /\ asked[c] = <<>> => stray[c] = {} /\ short[c] = {}

Caused(c) ==
    answer[c].kind = "error" => \E s \in failed[c] : s \in Vital(LastResort(asked[c]))

CallInv(c) == Shape(c) /\ InTx(c) /\ Records(c) /\ Caused(c)

\* What is kept per call is a function of the calls.
OfCalls(f) == f = [c \in Calls |-> f[c]]
Kept ==
    /\ OfCalls(asked) /\ OfCalls(plan) /\ OfCalls(flying) /\ OfCalls(orphans) /\ OfCalls(scope)
    /\ OfCalls(answer) /\ OfCalls(tx)
    /\ OfCalls(lasts) /\ OfCalls(stray) /\ OfCalls(short) /\ OfCalls(words) /\ OfCalls(failed)

IInv == env \in Deployments /\ Kept /\ \A c \in Calls : CallInv(c)

-------------------------------------------------------------------------------
(* What a call can be asked. *)

Planned(plans) == \A p \in plans : p.stages \in Paths

LEMMA AppPlans ==
    ASSUME NEW i \in Instances, NEW name \in DOMAIN AppTools(i)
    PROVE  Planned(AppTools(i)[name])
<1>1. ASSUME NEW p, Reads(Instances, p) PROVE p.stages \in Paths
  BY <1>1 DEF Reads, Paths
<1>2. Planned({fan_out_query(t) : t \in Targets(i)})
  <2>1. \A t \in Targets(i) : t \in Seq(Instances) /\ t # <<>>
    <3>1. \A j \in Instances : /\ <<i>> \in Seq(Instances) /\ <<i, j>> \in Seq(Instances)
                                /\ <<i>> # <<>> /\ <<i, j>> # <<>>
      OBVIOUS
    <3> QED
      BY <3>1 DEF Targets
  <2> QED
    BY <1>1, <2>1, FanOutTool DEF Planned
<1>3. /\ Planned({list_instances}) /\ Planned({list_schema_docs}) /\ Planned({describe_schema})
      /\ Planned({describe_doc_object}) /\ Planned({search_schema_docs})
  BY <1>1, NoStages DEF Planned, list_instances, list_schema_docs, describe_schema,
                        describe_doc_object, search_schema_docs
<1>4. /\ Planned({get_current_primary(i)}) /\ Planned({list_databases(i)}) /\ Planned({list_tables(i)})
      /\ Planned({describe_object(i)}) /\ Planned({execute_query(i)})
  BY <1>1, WorkerTools, OneQueryTools, SeveralQueriesTools DEF Planned
<1> QED
  <2> DEFINE fan == {fan_out_query(t) : t \in Targets(i)}
  <2>1. Planned(fan)
    BY <1>2
  <2>2. AppTools(i) =
           [list_instances |-> {list_instances},
            get_current_primary |-> {get_current_primary(i)},
            list_databases |-> {list_databases(i)},
            list_tables |-> {list_tables(i)},
            describe_object |-> {describe_object(i)},
            fan_out_query |-> fan,
            execute_query |-> {execute_query(i)},
            list_schema_docs |-> {list_schema_docs},
            describe_schema |-> {describe_schema},
            describe_doc_object |-> {describe_doc_object},
            search_schema_docs |-> {search_schema_docs}]
    BY Zenon DEF AppTools
  <2> HIDE DEF fan
  <2> QED
    BY <1>3, <1>4, <2>1, <2>2, SMTT(30)

LEMMA WritePlans ==
    ASSUME NEW i \in Instances, NEW name \in DOMAIN WriteTools(i)
    PROVE  Planned(WriteTools(i)[name])
<1>1. \A confirm \in BOOLEAN : execute_write(i, confirm).stages \in Paths
  BY WriteTool DEF Paths
<1>2. WriteTools(i)[name] = {execute_write(i, confirm) : confirm \in BOOLEAN}
  BY DEF WriteTools
<1> QED
  BY <1>1, <1>2 DEF Planned

LEMMA DmvPlans ==
    ASSUME NEW i \in Instances, NEW e, NEW name \in DOMAIN DmvTools(e, i)
    PROVE  Planned(DmvTools(e, i)[name])
<1>1. ASSUME NEW p, Reads(Instances, p) PROVE p.stages \in Paths
  BY <1>1 DEF Reads, Paths
<1>2. /\ Planned(DmvTools(e, i).get_blocking_chains) /\ Planned(DmvTools(e, i).get_file_io_stats)
      /\ Planned(DmvTools(e, i).get_long_running_transactions)
      /\ Planned(DmvTools(e, i).get_distributed_ag_health)
      /\ Planned(DmvTools(e, i).get_index_fragmentation) /\ Planned(DmvTools(e, i).get_perfmon_counters)
      /\ Planned(DmvTools(e, i).get_memory_dumps)
  BY <1>1, OneQueryTools DEF Planned, DmvTools
<1>3. /\ Planned(DmvTools(e, i).get_top_queries) /\ Planned(DmvTools(e, i).get_missing_indexes)
      /\ Planned(DmvTools(e, i).get_query_store_regressions) /\ Planned(DmvTools(e, i).get_deadlock_history)
      /\ Planned(DmvTools(e, i).get_log_paths) /\ Planned(DmvTools(e, i).get_buffer_pool_by_object)
      /\ Planned(DmvTools(e, i).get_cpu_history) /\ Planned(DmvTools(e, i).get_plan_cache_pollution)
  BY <1>1, RankingTools DEF Planned, DmvTools
<1>4. /\ Planned(DmvTools(e, i).get_hiq) /\ Planned(DmvTools(e, i).get_index_usage_stats)
      /\ Planned(DmvTools(e, i).get_columnstore_health)
  BY <1>1, BoundedTools DEF Planned, DmvTools
<1>5. /\ Planned(DmvTools(e, i).get_tempdb_usage) /\ Planned(DmvTools(e, i).get_database_info)
      /\ Planned(DmvTools(e, i).get_database_files) /\ Planned(DmvTools(e, i).get_ag_health)
      /\ Planned(DmvTools(e, i).get_machine_spec) /\ Planned(DmvTools(e, i).get_backup_status)
      /\ Planned(DmvTools(e, i).get_vlf_count) /\ Planned(DmvTools(e, i).get_job_status)
  BY <1>1, WorkerTools DEF Planned, DmvTools
<1>6. Planned(DmvTools(e, i).get_memory_usage) /\ Planned(DmvTools(e, i).get_server_info)
  BY <1>1, SeveralQueriesTools DEF Planned, DmvTools
<1>7. /\ Planned(DmvTools(e, i).get_active_sessions) /\ Planned(DmvTools(e, i).get_wait_stats)
      /\ Planned(DmvTools(e, i).get_latch_stats) /\ Planned(DmvTools(e, i).get_statistics_health)
  BY <1>1, FallbackTools DEF Planned, DmvTools
<1>8. DOMAIN DmvTools(e, i) =
         {"get_active_sessions", "get_blocking_chains", "get_hiq", "get_top_queries",
          "get_wait_stats", "get_file_io_stats", "get_cpu_history", "get_memory_usage",
          "get_tempdb_usage", "get_database_info", "get_server_info", "get_missing_indexes",
          "get_index_usage_stats", "get_database_files", "get_query_store_regressions",
          "get_plan_cache_pollution", "get_long_running_transactions", "get_deadlock_history",
          "get_latch_stats", "get_ag_health", "get_distributed_ag_health", "get_log_paths",
          "get_memory_dumps", "get_machine_spec", "get_backup_status", "get_vlf_count",
          "get_buffer_pool_by_object", "get_statistics_health", "get_index_fragmentation",
          "get_job_status", "get_columnstore_health", "get_perfmon_counters"}
  BY DEF DmvTools
<1> QED
  BY <1>2, <1>3, <1>4, <1>5, <1>6, <1>7, <1>8

LEMMA HostPlans ==
    ASSUME NEW i \in Instances, NEW name \in DOMAIN HostTools(i)
    PROVE  Planned(HostTools(i)[name])
<1>1. ASSUME NEW p, Reads(Instances, p) PROVE p.stages \in Paths
  BY <1>1 DEF Reads, Paths
<1>2. /\ Planned({check_dbatools_environment(i)}) /\ Planned({list_dbatools_commands(i)})
      /\ Planned({get_dbatools_command_help(i)}) /\ Planned({run_dbatools_command(i)})
      /\ Planned({run_diagnostic_query(i)}) /\ Planned({read_error_log(i)})
      /\ Planned({read_cluster_reports(i)}) /\ Planned({get_host_dll_versions(i)})
      /\ Planned(read_sql_dump(i))
  BY <1>1, ScriptTools, DumpTool DEF Planned
<1> QED
  BY <1>2 DEF HostTools

\* Every plan a call can be given, in any deployment.
LEMMA MenuPlans ==
    ASSUME NEW c, NEW i \in Instances, NEW p \in PlansFor(c, i)
    PROVE  p.stages \in Paths
<1>1. PICK tools \in Registered(i) : \E name \in DOMAIN tools : p \in tools[name]
  BY DEF PlansFor
<1>2. PICK name \in DOMAIN tools : p \in tools[name]
  BY <1>1
<1>3. Planned(tools[name])
  <2>1. tools \in {AppTools(i), WriteTools(i), DmvTools(env, i), HostTools(i)}
    BY Zenon DEF Registered
  <2> QED
    BY <2>1, AppPlans, WritePlans, DmvPlans, HostPlans
<1> QED
  BY <1>2, <1>3 DEF Planned
-------------------------------------------------------------------------------
(* Where a call is in its plan. *)

LEMMA PathsApart ==
    ASSUME NEW I, NEW path \in WritePath(I)
    PROVE  path \notin ReadPath(I) /\ path # <<>>
<1>1. PICK kind \in {"commit", "dryrun"}, i \in I : path = <<Then(Write(kind, i))>>
  BY DEF WritePath
<1>2. path[1].steps = <<Write(kind, i)>> /\ Write(kind, i).kind = kind /\ path # <<>> /\ Len(path) = 1
  BY <1>1 DEF Then, All, Write, Trimmed, Step
<1>3. ASSUME path \in ReadPath(I)
      PROVE  FALSE
  <2>1. path[1] \in Stage(I)
    BY <1>2, <1>3 DEF ReadPath
  <2>2. <<Write(kind, i)>> \in Seq(SoundStep(I))
    BY <1>2, <2>1 DEF Stage
  <2>3. Write(kind, i) \in SoundStep(I)
    BY <2>2
  <2> QED
    BY <1>2, <2>3 DEF SoundStep, ReadStep
<1> QED
  BY <1>2, <1>3

\* The stages ahead of a call, and those of their rescues, are on its course.
LEMMA CourseStages ==
    ASSUME NEW I, NEW path \in ReadPath(I), NEW stages, OnCourse(stages, path)
    PROVE  stages \in Seq(Stage(I))
<1>1. path \in Seq(Stage(I))
  BY DEF ReadPath
<1>2. CASE stages \in Seq(Stages(path))
  <2>1. Stages(path) \subseteq Stage(I)
    BY <1>1 DEF Stages
  <2> QED
    BY <1>2, <2>1
<1>3. ASSUME NEW j \in DOMAIN path, stages \in Seq(Stages(path[j].rescue))
      PROVE  stages \in Seq(Stage(I))
  <2>1. path[j].rescue \in Seq(PlainStage(I))
    BY <1>1 DEF Stage
  <2>2. Stages(path[j].rescue) \subseteq Stage(I)
    BY <2>1, PlainIsStage DEF Stages
  <2> QED
    BY <1>3, <2>2
<1> QED
  BY <1>2, <1>3 DEF OnCourse

LEMMA TailOnCourse ==
    ASSUME NEW path, NEW stages, OnCourse(stages, path), stages # <<>>
    PROVE  OnCourse(Tail(stages), path)
<1>1. ASSUME NEW S, stages \in Seq(S)
      PROVE  Tail(stages) \in Seq(S)
  BY <1>1
<1> QED
  BY <1>1 DEF OnCourse

LEMMA RescueOnCourse ==
    ASSUME NEW I, NEW path \in ReadPath(I), NEW stages, OnCourse(stages, path), stages # <<>>,
           stages[1].caught # "never"
    PROVE  stages[1].rescue # <<>> /\ OnCourse(stages[1].rescue, path)
<1>1. path \in Seq(Stage(I)) /\ stages \in Seq(Stage(I))
  BY CourseStages DEF ReadPath
<1>2. stages[1] \in Stage(I)
  BY <1>1
<1>3. CASE stages \in Seq(Stages(path))
  <2>1. PICK j \in DOMAIN path : stages[1] = path[j]
    BY <1>3 DEF Stages
  <2>2. path[j].rescue \in Seq(PlainStage(I))
    BY <1>1 DEF Stage
  <2>3. path[j].rescue \in Seq(Stages(path[j].rescue))
    <3> DEFINE rescue == path[j].rescue
    <3> HIDE DEF rescue
    <3>1. rescue \in Seq(PlainStage(I))
      BY <2>2 DEF rescue
    <3>2. rescue \in Seq(Stages(rescue))
      BY <3>1 DEF Stages
    <3> QED
      BY <3>2 DEF rescue
  <2> QED
    BY <1>2, <2>1, <2>3 DEF OnCourse, Stage
<1>4. ASSUME NEW j \in DOMAIN path, stages \in Seq(Stages(path[j].rescue))
      PROVE  FALSE
  <2>1. path[j].rescue \in Seq(PlainStage(I))
    BY <1>1 DEF Stage
  <2>2. stages[1] \in Stages(path[j].rescue)
    BY <1>4
  <2>3. stages[1] \in PlainStage(I)
    BY <2>1, <2>2 DEF Stages
  <2> QED
    BY <2>3 DEF PlainStage
<1> QED
  BY <1>3, <1>4 DEF OnCourse

Writes(c, kind, i) ==
    asked[c] = <<Then(Write(kind, i))>> /\ plan[c] = asked[c] /\ flying[c] = {1}

\* What is awaited is a step of a tool that reads, or the one step of a write.
LEMMA Current ==
    ASSUME NEW c \in Calls, Shape(c), NEW k \in flying[c]
    PROVE  /\ plan[c] # <<>> /\ ~Answered(c) /\ asked[c] # <<>> /\ k \in DOMAIN Steps(c)
           /\ \/ /\ asked[c] \in ReadPath(Instances) /\ plan[c] \in Seq(Stage(Instances))
                 /\ plan[c][1] \in Stage(Instances) /\ StepsAt(c, flying[c]) \subseteq SoundStep(Instances)
              \/ /\ asked[c] \in WritePath(Instances)
                 /\ \E kind \in {"commit", "dryrun"}, i \in Instances :
                       Writes(c, kind, i) /\ Steps(c)[k] = Write(kind, i)
<1>1. /\ plan[c] # <<>> /\ ~Answered(c) /\ flying[c] \subseteq DOMAIN Steps(c)
      /\ OnCourse(plan[c], asked[c])
  BY DEF Shape
<1>2. asked[c] # <<>>
  <2>1. ASSUME asked[c] = <<>>
        PROVE  FALSE
    <3>1. Stages(asked[c]) = {} /\ DOMAIN asked[c] = {}
      BY <2>1 DEF Stages
    <3>2. plan[c] \in Seq({})
      BY <1>1, <3>1 DEF OnCourse
    <3> QED
      BY <1>1, <3>2
  <2> QED
    BY <2>1
<1>3. CASE asked[c] \in ReadPath(Instances)
  <2>1. plan[c] \in Seq(Stage(Instances)) /\ plan[c][1] \in Stage(Instances)
    BY <1>1, <1>3, CourseStages
  <2>2. Steps(c) \in Seq(SoundStep(Instances))
    BY <2>1 DEF Stage, Steps
  <2>3. StepsAt(c, flying[c]) \subseteq SoundStep(Instances)
    BY <1>1, <2>2 DEF StepsAt
  <2> QED
    BY <1>1, <1>2, <1>3, <2>1, <2>3
<1>4. CASE asked[c] \in WritePath(Instances)
  <2>1. plan[c] = asked[c]
    BY <1>1, <1>4 DEF Shape
  <2>2. PICK kind \in {"commit", "dryrun"}, i \in Instances : asked[c] = <<Then(Write(kind, i))>>
    BY <1>4 DEF WritePath
  <2>3. Steps(c) = <<Write(kind, i)>>
    BY <2>1, <2>2 DEF Steps, Then, All
  <2>4. flying[c] = {1} /\ k = 1 /\ Steps(c)[k] = Write(kind, i)
    BY <1>1, <2>3
  <2>5. Writes(c, kind, i)
    BY <2>1, <2>2, <2>4 DEF Writes
  <2> QED
    BY <1>1, <1>2, <1>4, <2>4, <2>5
<1> QED
  BY <1>3, <1>4 DEF Shape, Paths

-------------------------------------------------------------------------------
(* What a step does to the call it is of, and to the others. *)

AtCall(c, f, g) == \E v : g = [f EXCEPT ![c] = v]

LEMMA AtCallKeeps ==
    ASSUME NEW c \in Calls, NEW f, NEW g, OfCalls(f), AtCall(c, f, g)
    PROVE  OfCalls(g) /\ \A d \in Calls : d # c => g[d] = f[d]
<1>1. PICK v : g = [f EXCEPT ![c] = v]
  BY DEF AtCall
<1>2. g = [d \in Calls |-> IF d = c THEN v ELSE f[d]]
  BY <1>1 DEF OfCalls
<1> QED
  BY <1>2 DEF OfCalls

LEMMA AtCallSame ==
    ASSUME NEW c \in Calls, NEW f, OfCalls(f)
    PROVE  AtCall(c, f, f)
<1>1. f = [f EXCEPT ![c] = f[c]]
  BY DEF OfCalls
<1> QED
  BY <1>1, Zenon DEF AtCall

Touches(c) ==
    /\ AtCall(c, asked, asked') /\ AtCall(c, plan, plan') /\ AtCall(c, flying, flying')
    /\ AtCall(c, orphans, orphans') /\ AtCall(c, scope, scope') /\ AtCall(c, answer, answer')
    /\ AtCall(c, tx, tx') /\ AtCall(c, lasts, lasts')
    /\ AtCall(c, stray, stray') /\ AtCall(c, short, short') /\ AtCall(c, words, words')
    /\ AtCall(c, failed, failed')

Same(d) ==
    /\ asked'[d] = asked[d] /\ plan'[d] = plan[d] /\ flying'[d] = flying[d]
    /\ orphans'[d] = orphans[d] /\ scope'[d] = scope[d] /\ answer'[d] = answer[d] /\ tx'[d] = tx[d]
    /\ lasts'[d] = lasts[d]
    /\ stray'[d] = stray[d] /\ short'[d] = short[d] /\ words'[d] = words[d] /\ failed'[d] = failed[d]

LEMMA TouchesOne ==
    ASSUME Kept, NEW c \in Calls, Touches(c)
    PROVE  Kept' /\ \A d \in Calls : d # c => Same(d)
BY AtCallKeeps DEF Kept, Touches, Same

\* A variable an action leaves alone.
Untouched(c) ==
    /\ UNCHANGED asked => AtCall(c, asked, asked')
    /\ UNCHANGED plan => AtCall(c, plan, plan')
    /\ UNCHANGED flying => AtCall(c, flying, flying')
    /\ UNCHANGED orphans => AtCall(c, orphans, orphans')
    /\ UNCHANGED scope => AtCall(c, scope, scope')
    /\ UNCHANGED answer => AtCall(c, answer, answer')
    /\ UNCHANGED tx => AtCall(c, tx, tx')
    /\ UNCHANGED lasts => AtCall(c, lasts, lasts')
    /\ UNCHANGED stray => AtCall(c, stray, stray')
    /\ UNCHANGED short => AtCall(c, short, short')
    /\ UNCHANGED words => AtCall(c, words, words')
    /\ UNCHANGED failed => AtCall(c, failed, failed')

LEMMA UntouchedHolds ==
    ASSUME Kept, NEW c \in Calls
    PROVE  Untouched(c)
BY AtCallSame DEF Kept, Untouched

LEMMA MoveTouches ==
    ASSUME Kept, NEW c \in Calls
    PROVE  /\ \A stages : Await(c, stages) =>
                 AtCall(c, plan, plan') /\ AtCall(c, flying, flying') /\ AtCall(c, answer, answer')
           /\ \A kind, noted : Answer(c, kind, noted) =>
                 AtCall(c, plan, plan') /\ AtCall(c, flying, flying') /\ AtCall(c, answer, answer')
<1>1. Untouched(c)
  BY UntouchedHolds
<1>2. ASSUME NEW stages, Await(c, stages)
      PROVE  AtCall(c, plan, plan') /\ AtCall(c, flying, flying') /\ AtCall(c, answer, answer')
  BY <1>1, <1>2, Zenon DEF Untouched, Await, AtCall
<1>3. ASSUME NEW kind, NEW noted, Answer(c, kind, noted)
      PROVE  AtCall(c, plan, plan') /\ AtCall(c, flying, flying') /\ AtCall(c, answer, answer')
  BY <1>3, Zenon DEF Answer, AtCall
<1> QED
  BY <1>2, <1>3

LEMMA SettleTouches ==
    ASSUME Kept, NEW c \in Calls, NEW k, NEW empty, NEW noted, Settle(c, k, empty, noted)
    PROVE  /\ AtCall(c, plan, plan') /\ AtCall(c, flying, flying') /\ AtCall(c, answer, answer')
           /\ AtCall(c, orphans, orphans')
<1>1. Untouched(c)
  BY UntouchedHolds
<1>2. CASE GoOn(c, empty, noted) /\ UNCHANGED orphans
  BY <1>1, <1>2, MoveTouches, Zenon DEF GoOn, Untouched
<1>3. CASE flying' = [flying EXCEPT ![c] = @ \ {k}] /\ UNCHANGED <<plan, answer, orphans>>
  BY <1>1, <1>3, Zenon DEF Untouched, AtCall
<1> QED
  BY <1>2, <1>3, Zenon DEF Settle

LEMMA AbortTouches ==
    ASSUME Kept, NEW c \in Calls, NEW k, NEW noted, Abort(c, k, noted)
    PROVE  /\ AtCall(c, plan, plan') /\ AtCall(c, flying, flying') /\ AtCall(c, answer, answer')
           /\ AtCall(c, orphans, orphans') /\ AtCall(c, failed, failed')
<1>1. AtCall(c, orphans, orphans') /\ AtCall(c, failed, failed')
  BY Zenon DEF Abort, AtCall
<1>2. (\E stages : Await(c, stages)) \/ Answer(c, "error", noted)
  BY Zenon DEF Abort
<1> QED
  BY <1>1, <1>2, MoveTouches, Zenon

\* Every action is of one call.
LEMMA AskTouches ==
    ASSUME Kept, NEW c \in Calls, Ask(c) \/ Refuse(c)
    PROVE  Touches(c)
<1>1. Untouched(c)
  BY UntouchedHolds
<1>2. CASE Refuse(c)
  <2>1. Answer(c, "refused", {}) /\ UNCHANGED <<asked, orphans, scope, tx, lasts, stray, short, words, failed>>
    BY <1>2, Zenon DEF Refuse, histVars
  <2> QED
    BY <1>1, <2>1, MoveTouches, Zenon DEF Untouched, Touches
<1>3. CASE Ask(c)
  <2>1. PICK stages :
           /\ asked' = [asked EXCEPT ![c] = stages]
           /\ IF stages = <<>> THEN Answer(c, "ok", {}) ELSE Await(c, stages)
           /\ UNCHANGED <<orphans, scope, tx, lasts, stray, short, words, failed>>
    BY <1>3, Zenon DEF Ask, histVars
  <2>2. AtCall(c, asked, asked')
    BY <2>1, Zenon DEF AtCall
  <2>3. AtCall(c, plan, plan') /\ AtCall(c, flying, flying') /\ AtCall(c, answer, answer')
    BY <2>1, MoveTouches
  <2> QED
    BY <1>1, <2>1, <2>2, <2>3, Zenon DEF Untouched, Touches
<1> QED
  BY <1>2, <1>3

LEMMA OrphanTouches ==
    ASSUME Kept, NEW c \in Calls, OrphanEnds(c)
    PROVE  Touches(c)
<1>1. Untouched(c)
  BY UntouchedHolds
<1>2. AtCall(c, orphans, orphans') /\ AtCall(c, scope, scope')
  BY <1>1, Zenon DEF OrphanEnds, Collect, Untouched, AtCall
<1>3. UNCHANGED <<asked, plan, flying, answer, tx, lasts, stray, short, words, failed>>
  BY Zenon DEF OrphanEnds, histVars
<1> QED
  BY <1>1, <1>2, <1>3, Zenon DEF Untouched, Touches

LEMMA StepTouches ==
    ASSUME Kept, NEW c \in Calls, StepEnds(c)
    PROVE  Touches(c)
<1>1. Untouched(c)
  BY UntouchedHolds
<1>2. PICK k \in flying[c] :
         \/ QueryEnds(c, k) \/ OtherEnds(c, k) \/ OptionalFails(c, k) \/ StepFails(c, k)
         \/ BeginTx(c, k) \/ RunStatement(c, k) \/ EndTx(c, k)
  BY Zenon DEF StepEnds
<1>3. CASE QueryEnds(c, k)
  <2>1. PICK o \in Outcomes(Steps(c)[k]), master \in BOOLEAN, trimmed \in Trims(Steps(c)[k]) :
           /\ scope' = [scope EXCEPT ![c] = @ \cup Warnings(c, Steps(c)[k], master, o)]
           /\ stray' = IF master THEN [stray EXCEPT ![c] = @ \cup {Steps(c)[k].at}] ELSE stray
           /\ short' = [short EXCEPT ![c] = @ \cup Losses(Steps(c)[k], o) \cup trimmed]
           /\ words' = IF o.word THEN [words EXCEPT ![c] = @ \cup {Steps(c)[k]}] ELSE words
           /\ Settle(c, k, o.empty, scope'[c])
    BY <1>3, Zenon DEF QueryEnds, Collect
  <2>2. /\ AtCall(c, scope, scope') /\ AtCall(c, short, short')
        /\ AtCall(c, stray, stray') /\ AtCall(c, words, words')
    BY <1>1, <2>1, Zenon DEF Untouched, AtCall
  <2>3. UNCHANGED <<asked, tx, lasts, failed>>
    BY <1>3, Zenon DEF QueryEnds
  <2> QED
    BY <1>1, <2>1, <2>2, <2>3, SettleTouches, Zenon DEF Untouched, Touches
<1>4. CASE OtherEnds(c, k) \/ OptionalFails(c, k)
  <2>1. /\ \E empty : Settle(c, k, empty, scope[c])
        /\ UNCHANGED <<asked, scope, tx, lasts, stray, words, failed>>
        /\ AtCall(c, short, short')
    BY <1>1, <1>4, Zenon DEF OtherEnds, OptionalFails, histVars, Untouched, AtCall
  <2> QED
    BY <1>1, <2>1, SettleTouches, Zenon DEF Untouched, Touches
<1>5. CASE StepFails(c, k)
  <2>1. Abort(c, k, scope[c]) /\ UNCHANGED <<asked, scope, tx, lasts, stray, short, words>>
    BY <1>5, Zenon DEF StepFails
  <2> QED
    BY <1>1, <2>1, AbortTouches, Zenon DEF Untouched, Touches
<1>6. CASE BeginTx(c, k)
  <2>1. PICK master \in BOOLEAN :
           /\ scope' = [scope EXCEPT ![c] = @ \cup (IF master THEN {Catalog(c, Steps(c)[k])} ELSE {})]
           /\ stray' = IF master THEN [stray EXCEPT ![c] = @ \cup {Steps(c)[k].at}] ELSE stray
           /\ \/ tx' = [tx EXCEPT ![c] = "open"] /\ UNCHANGED <<plan, flying, orphans, answer, failed>>
              \/ Abort(c, k, scope'[c]) /\ UNCHANGED tx
    BY <1>6, Zenon DEF BeginTx, Collect
  <2>2. AtCall(c, scope, scope') /\ AtCall(c, stray, stray') /\ AtCall(c, tx, tx')
    BY <1>1, <2>1, Zenon DEF Untouched, AtCall
  <2>3. UNCHANGED <<asked, lasts, short, words>>
    BY <1>6, Zenon DEF BeginTx
  <2>4. \/ UNCHANGED <<plan, flying, orphans, answer, failed>>
        \/ Abort(c, k, scope'[c])
    BY <2>1
  <2> QED
    BY <1>1, <2>2, <2>3, <2>4, AbortTouches, Zenon DEF Untouched, Touches
<1>7. CASE RunStatement(c, k)
  <2>1. /\ AtCall(c, tx, tx') /\ AtCall(c, lasts, lasts')
        /\ UNCHANGED <<plan, flying, orphans, answer, failed>> \/ Abort(c, k, scope[c])
        /\ UNCHANGED <<asked, scope, stray, short, words>>
    BY <1>7, Zenon DEF RunStatement, AtCall
  <2> QED
    BY <1>1, <2>1, AbortTouches, Zenon DEF Untouched, Touches
<1>8. CASE EndTx(c, k)
  <2>1. /\ AtCall(c, tx, tx') /\ AtCall(c, lasts, lasts') /\ AtCall(c, short, short')
        /\ \/ Settle(c, k, FALSE, scope[c]) /\ UNCHANGED failed
           \/ Abort(c, k, scope[c])
        /\ UNCHANGED <<asked, scope, stray, words>>
    BY <1>1, <1>8, Zenon DEF EndTx, AtCall, Untouched
  <2> QED
    BY <1>1, <2>1, SettleTouches, AbortTouches, Zenon DEF Untouched, Touches
<1> QED
  BY <1>2, <1>3, <1>4, <1>5, <1>6, <1>7, <1>8

-------------------------------------------------------------------------------
(* How a call goes on when a step of it ends. *)

Moves(c) ==
    \/ /\ UNCHANGED <<plan, answer>>
       /\ \E left \in SUBSET flying[c] : left # {} /\ flying' = [flying EXCEPT ![c] = left]
    \/ \E kind \in {"ok", "refused", "error"} : Answer(c, kind, scope'[c])
    \/ /\ asked[c] \in ReadPath(Instances)
       /\ \E stages : stages # <<>> /\ OnCourse(stages, asked[c]) /\ Await(c, stages)

LEMMA AnswerAt ==
    ASSUME Kept, NEW c \in Calls, NEW kind, NEW noted, Answer(c, kind, noted)
    PROVE  /\ answer'[c] = [kind |-> kind, notices |-> noted]
           /\ plan'[c] = <<>> /\ flying'[c] = {}
BY DEF Kept, OfCalls, Answer

LEMMA AwaitAt ==
    ASSUME Kept, NEW c \in Calls, NEW stages, Await(c, stages)
    PROVE  /\ answer'[c] = answer[c] /\ plan'[c] = stages
           /\ flying'[c] = DOMAIN stages[1].steps
BY DEF Kept, OfCalls, Await

LEMMA SettleMoves ==
    ASSUME Kept, NEW c \in Calls, Shape(c), NEW k \in flying[c], NEW empty,
           Settle(c, k, empty, scope'[c])
    PROVE  /\ Moves(c) /\ answer'[c].kind # "error" /\ UNCHANGED orphans
           /\ asked[c] \in WritePath(Instances) => Answer(c, "ok", scope'[c])
<1>1. UNCHANGED orphans
  BY Zenon DEF Settle
<1>2. plan[c] # <<>> /\ ~Answered(c) /\ answer[c].kind # "error"
  BY Current DEF Answered, Unanswered
<1>3. CASE flying[c] # {k}
  <2>1. flying' = [flying EXCEPT ![c] = flying[c] \ {k}] /\ UNCHANGED <<plan, answer>>
    BY <1>3, Zenon DEF Settle
  <2>2. flying[c] \ {k} \in SUBSET flying[c] /\ flying[c] \ {k} # {}
    BY <1>3
  <2>3. Moves(c)
    BY <2>1, <2>2, Zenon DEF Moves
  <2>4. asked[c] \notin WritePath(Instances)
    <3>1. ASSUME asked[c] \in WritePath(Instances)
          PROVE  FALSE
      <4>1. flying[c] = {1}
        BY <3>1, Current, PathsApart DEF Writes
      <4> QED
        BY <1>3, <4>1
    <3> QED
      BY <3>1
  <2> QED
    BY <1>1, <1>2, <2>1, <2>3, <2>4
<1>4. CASE flying[c] = {k}
  <2>1. GoOn(c, empty, scope'[c])
    BY <1>4, Zenon DEF Settle
  <2>2. ASSUME NEW kind \in {"ok", "refused"}, Answer(c, kind, scope'[c])
        PROVE  Moves(c) /\ answer'[c].kind # "error"
    <3>1. Moves(c)
      BY <2>2, Zenon DEF Moves
    <3>2. answer'[c] = [kind |-> kind, notices |-> scope'[c]]
      BY <2>2, AnswerAt
    <3> QED
      BY <3>1, <3>2
  <2>3. CASE asked[c] \in WritePath(Instances)
    <3>1. PICK kind \in {"commit", "dryrun"}, i \in Instances : Writes(c, kind, i)
      BY <2>3, Current, PathsApart
    <3>2. plan[c] = <<Then(Write(kind, i))>>
      BY <3>1 DEF Writes
    <3>3. plan[c][1].stop = "no" /\ Tail(plan[c]) = <<>>
      BY <3>2 DEF Then, All
    <3>4. Answer(c, "ok", scope'[c])
      BY <2>1, <3>3, Zenon DEF GoOn
    <3> QED
      BY <1>1, <2>2, <3>4
  <2>4. CASE asked[c] \in ReadPath(Instances)
    <3>1. asked[c] \notin WritePath(Instances)
      BY <2>4, PathsApart
    <3>2. \/ Answer(c, "ok", scope'[c]) \/ Answer(c, "refused", scope'[c])
          \/ Tail(plan[c]) # <<>> /\ Await(c, Tail(plan[c]))
      BY <2>1, Zenon DEF GoOn
    <3>3. CASE Tail(plan[c]) # <<>> /\ Await(c, Tail(plan[c]))
      <4>1. OnCourse(Tail(plan[c]), asked[c])
        BY <1>2, TailOnCourse DEF Shape
      <4>2. Moves(c)
        BY <2>4, <3>3, <4>1, Zenon DEF Moves
      <4>3. answer'[c] = answer[c]
        BY <3>3, AwaitAt
      <4> QED
        BY <1>1, <1>2, <3>1, <4>2, <4>3
    <3> QED
      BY <1>1, <2>2, <3>1, <3>2, <3>3
  <2> QED
    BY <2>3, <2>4 DEF Shape, Paths
<1> QED
  BY <1>3, <1>4

\* The failure of a step that no rescue is for is one the call cannot do without.
LEMMA FailureIsVital ==
    ASSUME NEW c \in Calls, Shape(c), NEW k \in flying[c], ~Steps(c)[k].optional,
           plan[c][1].caught # "always"
    PROVE  Steps(c)[k] \in Vital(LastResort(asked[c]))
<1> DEFINE s == Steps(c)[k]
           path == asked[c]
<1>1. plan[c] # <<>> /\ path # <<>> /\ k \in DOMAIN Steps(c) /\ OnCourse(plan[c], path)
  BY Current DEF Shape
<1>2. s \in StepsOf(LastResort(path))
  <2>1. CASE path \in WritePath(Instances)
    <3>1. PICK kind \in {"commit", "dryrun"}, i \in Instances :
             path = <<Then(Write(kind, i))>> /\ plan[c] = path
      BY <2>1, Current, PathsApart DEF Writes
    <3>2. LastResort(path) = path
      BY <3>1 DEF LastResort, Then, All
    <3>3. 1 \in DOMAIN path /\ Steps(c) = path[1].steps
      BY <3>1 DEF Steps
    <3> QED
      BY <1>1, <3>2, <3>3 DEF StepsOf
  <2>2. CASE path \in ReadPath(Instances)
    <3>1. path \in Seq(Stage(Instances)) /\ OneFallback(path) /\ 1 \in DOMAIN path
      BY <1>1, <2>2 DEF ReadPath
    <3>2. plan[c] \in Seq(Stage(Instances))
      BY <1>1, <2>2, CourseStages
    <3>3. ASSUME NEW stages, plan[c] \in Seq(Stages(stages))
          PROVE  /\ s \in StepsOf(stages)
                 /\ \E m \in DOMAIN stages : plan[c][1] = stages[m]
      <4>1. PICK m \in DOMAIN stages : plan[c][1] = stages[m]
        BY <1>1, <3>3 DEF Stages
      <4>2. s = stages[m].steps[k] /\ k \in DOMAIN stages[m].steps
        BY <1>1, <4>1 DEF Steps
      <4> QED
        BY <4>1, <4>2 DEF StepsOf
    <3>4. CASE plan[c] \in Seq(Stages(path))
      <4>1. PICK m \in DOMAIN path : plan[c][1] = path[m]
        BY <3>3, <3>4
      <4>2. path[1].caught # "always"
        BY <3>1, <4>1 DEF OneFallback
      <4> QED
        BY <3>3, <3>4, <4>2 DEF LastResort
    <3>5. ASSUME NEW j \in DOMAIN path, plan[c] \in Seq(Stages(path[j].rescue))
          PROVE  s \in StepsOf(LastResort(path))
      <4>1. s \in StepsOf(path[j].rescue)
        BY <3>3, <3>5
      <4>2. CASE path[1].caught = "always"
        BY <1>1, <3>1, <4>1, <4>2 DEF LastResort, OneFallback
      <4>3. CASE path[1].caught # "always"
        <5>1. path[j].caught # "always"
          BY <3>1, <4>3 DEF OneFallback
        <5>2. StepsOf(path[j].rescue) \subseteq StepsOf(path)
          BY <3>1, <5>1 DEF OneFallback
        <5> QED
          BY <4>1, <4>3, <5>2 DEF LastResort
      <4> QED
        BY <4>2, <4>3
    <3> QED
      BY <1>1, <3>4, <3>5 DEF OnCourse
  <2> QED
    BY <2>1, <2>2 DEF Shape, Paths
<1> QED
  BY <1>2, Zenon DEF Vital, StepsOf

LEMMA AbortMoves ==
    ASSUME Kept, NEW c \in Calls, Shape(c), NEW k \in flying[c], ~Steps(c)[k].optional,
           Abort(c, k, scope'[c]), asked'[c] = asked[c]
    PROVE  /\ Moves(c) /\ Caused(c)'
           /\ orphans'[c] \subseteq SoundStep(Instances)
           /\ asked[c] \in WritePath(Instances) => Answer(c, "error", scope'[c])
<1> DEFINE st == plan[c][1]
<1>1. /\ plan[c] # <<>> /\ ~Answered(c) /\ answer[c].kind = "none" /\ OnCourse(plan[c], asked[c])
      /\ orphans[c] \subseteq SoundStep(Instances)
  BY Current DEF Answered, Unanswered, Shape
<1>2. /\ failed' = [failed EXCEPT ![c] = @ \cup {Steps(c)[k]}]
      /\ orphans' = [orphans EXCEPT ![c] = @ \cup StepsAt(c, flying[c] \ {k})]
      /\ \/ st.caught # "never" /\ Await(c, st.rescue)
         \/ st.caught # "always" /\ Answer(c, "error", scope'[c])
  BY Zenon DEF Abort, Caught
<1>3. Steps(c)[k] \in failed'[c] /\ orphans'[c] = orphans[c] \cup StepsAt(c, flying[c] \ {k})
  BY <1>2 DEF Kept, OfCalls
<1>4. orphans'[c] \subseteq SoundStep(Instances)
  <2>1. CASE asked[c] \in WritePath(Instances)
    <3>1. flying[c] = {1}
      BY <2>1, Current, PathsApart DEF Writes
    <3>2. StepsAt(c, flying[c] \ {k}) = {}
      BY <3>1 DEF StepsAt
    <3> QED
      BY <1>1, <1>3, <3>2
  <2>2. CASE asked[c] \in ReadPath(Instances)
    <3>1. StepsAt(c, flying[c]) \subseteq SoundStep(Instances)
      BY <2>2, Current, PathsApart
    <3>2. StepsAt(c, flying[c] \ {k}) \subseteq StepsAt(c, flying[c])
      BY DEF StepsAt
    <3> QED
      BY <1>1, <1>3, <3>1, <3>2
  <2> QED
    BY <2>1, <2>2 DEF Shape, Paths
<1>5. CASE st.caught # "never" /\ Await(c, st.rescue)
  <2>1. asked[c] \notin WritePath(Instances)
    <3>1. ASSUME asked[c] \in WritePath(Instances)
          PROVE  FALSE
      <4>1. PICK kind \in {"commit", "dryrun"}, i \in Instances : plan[c] = <<Then(Write(kind, i))>>
        BY <3>1, Current, PathsApart DEF Writes
      <4> QED
        BY <1>5, <4>1 DEF Then, All
    <3> QED
      BY <3>1
  <2>2. asked[c] \in ReadPath(Instances)
    BY <2>1 DEF Shape, Paths
  <2>3. st.rescue # <<>> /\ OnCourse(st.rescue, asked[c])
    BY <1>1, <1>5, <2>2, RescueOnCourse
  <2>4. Moves(c)
    BY <1>5, <2>2, <2>3, Zenon DEF Moves
  <2>5. answer'[c].kind = "none"
    BY <1>1, <1>5, AwaitAt
  <2> QED
    BY <1>4, <2>1, <2>4, <2>5 DEF Caused
<1>6. CASE st.caught # "always" /\ Answer(c, "error", scope'[c])
  <2>1. Steps(c)[k] \in Vital(LastResort(asked[c]))
    BY <1>6, FailureIsVital
  <2>2. Caused(c)'
    BY <1>3, <2>1 DEF Caused
  <2>3. Moves(c)
    BY <1>6, Zenon DEF Moves
  <2> QED
    BY <1>4, <1>6, <2>2, <2>3
<1> QED
  BY <1>2, <1>5, <1>6

LEMMA ShapeStep ==
    ASSUME Kept, NEW c \in Calls, Shape(c), flying[c] # {}, Moves(c), asked'[c] = asked[c],
           orphans'[c] \subseteq SoundStep(Instances)
    PROVE  Shape(c)'
<1>1. PICK k \in flying[c] : TRUE
  OBVIOUS
<1>2. plan[c] # <<>> /\ ~Answered(c) /\ flying[c] \subseteq DOMAIN Steps(c)
  BY <1>1, Current DEF Shape
<1>3. ASSUME UNCHANGED <<plan, answer>>, NEW left \in SUBSET flying[c], left # {},
             flying' = [flying EXCEPT ![c] = left]
      PROVE  Shape(c)'
  <2>1. flying'[c] = left /\ plan'[c] = plan[c] /\ Steps(c)' = Steps(c) /\ Answered(c)' = Answered(c)
    BY <1>3 DEF Kept, OfCalls, Steps, Answered
  <2> QED
    BY <1>2, <1>3, <2>1 DEF Shape
<1>4. ASSUME NEW kind \in {"ok", "refused", "error"}, Answer(c, kind, scope'[c])
      PROVE  Shape(c)'
  <2>1. /\ plan'[c] = <<>> /\ flying'[c] = {}
        /\ answer'[c] = [kind |-> kind, notices |-> scope'[c]]
    BY <1>4, AnswerAt
  <2>2. Answered(c)'
    BY <2>1 DEF Answered, Unanswered
  <2>3. OnCourse(plan'[c], asked'[c])
    BY <2>1 DEF OnCourse
  <2> QED
    BY <2>1, <2>2, <2>3 DEF Shape
<1>5. ASSUME asked[c] \in ReadPath(Instances), NEW stages, stages # <<>>,
             OnCourse(stages, asked[c]), Await(c, stages)
      PROVE  Shape(c)'
  <2>1. /\ plan'[c] = stages /\ flying'[c] = DOMAIN stages[1].steps /\ answer'[c] = answer[c]
    BY <1>5, AwaitAt
  <2>2. stages \in Seq(Stage(Instances))
    BY <1>5, CourseStages
  <2>3. stages[1].steps \in Seq(SoundStep(Instances)) /\ stages[1].steps # <<>>
    BY <1>5, <2>2 DEF Stage
  <2>4. DOMAIN stages[1].steps # {}
    <3> DEFINE steps == stages[1].steps
    <3>1. steps \in Seq(SoundStep(Instances)) /\ steps # <<>>
      BY <2>3
    <3> HIDE DEF steps
    <3>2. 1 \in DOMAIN steps
      BY <3>1
    <3> QED
      BY <3>2 DEF steps
  <2>5. Steps(c)' = stages[1].steps /\ Answered(c)' = Answered(c)
    BY <2>1 DEF Steps, Answered
  <2>6. asked[c] \notin WritePath(Instances)
    BY <1>5, PathsApart
  <2> QED
    BY <1>2, <1>5, <2>1, <2>4, <2>5, <2>6 DEF Shape
<1> QED
  BY <1>3, <1>4, <1>5, Zenon DEF Moves

-------------------------------------------------------------------------------
(* What is recorded of a query. *)

\* A step of c only adds to the records: each new notice is c's own and has its cause, each
\* instance newly read on master and each new loss is told.
Adds(c) ==
    /\ scope[c] \subseteq scope'[c] /\ short[c] \subseteq short'[c] /\ words[c] \subseteq words'[c]
    /\ \A n \in scope'[c] \ scope[c] : n \in Notice /\ n.from = c /\ Lost(short'[c], n)
    /\ \A i \in stray'[c] \ stray[c] : i \in Instances /\ CatalogAt(i, scope'[c])
    /\ \A loss \in short'[c] \ short[c] : ToldIn(c, loss, words'[c], scope'[c])
    /\ \A s \in words'[c] \ words[c] : \E loss \in short'[c] : loss.of = s

LEMMA NothingAdded ==
    ASSUME NEW c \in Calls,
           scope'[c] = scope[c] /\ stray'[c] = stray[c] /\ short'[c] = short[c] /\ words'[c] = words[c]
    PROVE  Adds(c)
BY DEF Adds

\* What a step's handler trims is what the step says.
LEMMA TrimsAreTold ==
    ASSUME NEW c, NEW s, s.trims \in SUBSET {"rows", "sets"}, NEW trimmed \in Trims(s),
           NEW reported, NEW notices
    PROVE  \A loss \in trimmed : ToldIn(c, loss, reported, notices)
<1> SUFFICES ASSUME NEW loss \in trimmed
             PROVE  ToldIn(c, loss, reported, notices)
  OBVIOUS
<1>1. PICK what \in s.trims : loss = [of |-> s, lost |-> what]
  BY DEF Trims
<1>2. loss.of = s /\ loss.lost = what /\ what \in {"rows", "sets"}
  BY <1>1
<1> QED
  BY <1>2 DEF ToldIn

LEMMA TrimmingAdds ==
    ASSUME Kept, NEW c \in Calls, NEW s, s.trims \in SUBSET {"rows", "sets"}, NEW trimmed \in Trims(s),
           short' = [short EXCEPT ![c] = @ \cup trimmed],
           scope'[c] = scope[c] /\ stray'[c] = stray[c] /\ words'[c] = words[c]
    PROVE  Adds(c)
<1>1. short'[c] = short[c] \cup trimmed
  BY DEF Kept, OfCalls
<1>2. \A loss \in trimmed : ToldIn(c, loss, words'[c], scope'[c])
  BY TrimsAreTold
<1> QED
  BY <1>1, <1>2 DEF Adds

LEMMA StepTrims ==
    ASSUME NEW c \in Calls, Shape(c), NEW k \in flying[c]
    PROVE  Steps(c)[k].trims \in SUBSET {"rows", "sets"}
<1>1. CASE asked[c] \in WritePath(Instances)
  <2>1. \E kind \in {"commit", "dryrun"}, i \in Instances : Steps(c)[k] = Write(kind, i)
    BY <1>1, Current, PathsApart
  <2> QED
    BY <2>1 DEF Write, Trimmed, Step
<1>2. CASE asked[c] \in ReadPath(Instances)
  <2>1. Steps(c)[k] \in StepsAt(c, flying[c])
    BY DEF StepsAt
  <2>2. Steps(c)[k] \in SoundStep(Instances)
    BY <1>2, <2>1, Current, PathsApart
  <2> QED
    BY <2>2 DEF SoundStep, ReadStep
<1> QED
  BY <1>1, <1>2 DEF Shape, Paths

LEMMA QueryAdds ==
    ASSUME Kept, NEW c \in Calls, Shape(c), NEW k \in flying[c], QueryEnds(c, k)
    PROVE  /\ Adds(c) /\ UNCHANGED <<asked, tx, lasts, failed>>
           /\ asked[c] \notin WritePath(Instances)
           /\ \E empty : Settle(c, k, empty, scope'[c])
<1> DEFINE s == Steps(c)[k]
<1>1. PICK o \in Outcomes(s), master \in BOOLEAN, trimmed \in Trims(s) :
         /\ scope' = [scope EXCEPT ![c] = @ \cup Warnings(c, s, master, o)]
         /\ stray' = IF master THEN [stray EXCEPT ![c] = @ \cup {s.at}] ELSE stray
         /\ short' = [short EXCEPT ![c] = @ \cup Losses(s, o) \cup trimmed]
         /\ words' = IF o.word THEN [words EXCEPT ![c] = @ \cup {s}] ELSE words
         /\ Settle(c, k, o.empty, scope'[c])
  BY Zenon DEF QueryEnds, Collect
<1>2. s.kind = "query" /\ UNCHANGED <<asked, tx, lasts, failed>>
  BY Zenon DEF QueryEnds
<1>3. s \in SoundStep(Instances) /\ asked[c] \notin WritePath(Instances)
  <2>1. asked[c] \notin WritePath(Instances)
    <3>1. ASSUME asked[c] \in WritePath(Instances)
          PROVE  FALSE
      <4>1. \E kind \in {"commit", "dryrun"}, i \in Instances : s = Write(kind, i)
        BY <3>1, Current, PathsApart
      <4> QED
        BY <1>2, <4>1 DEF Write, Trimmed, Step
    <3> QED
      BY <3>1
  <2>2. s \in StepsAt(c, flying[c])
    BY DEF StepsAt
  <2> QED
    BY <2>1, <2>2, Current
<1> HIDE DEF s
<1>4. s.at \in Instances /\ s.cap \in Nat
  BY <1>3 DEF SoundStep, ReadStep
<1>5. /\ scope'[c] = scope[c] \cup Warnings(c, s, master, o)
      /\ stray'[c] \subseteq stray[c] \cup {s.at} /\ (~master => stray'[c] = stray[c])
      /\ short'[c] = short[c] \cup Losses(s, o) \cup trimmed
      /\ words'[c] = words[c] \cup (IF o.word THEN {s} ELSE {})
  BY <1>1 DEF Kept, OfCalls
<1>6. /\ o.note \/ o.word => o.short
      /\ o.short => o.note \/ o.word \/ s = Optional(JobStatusMsdb(s.at))
  BY <1>2, <1>3, OutcomeIsTold
<1>7. ASSUME NEW n \in Warnings(c, s, master, o)
      PROVE  n \in Notice /\ n.from = c /\ Lost(short'[c], n)
  <2>1. CASE n = Catalog(c, s)
    BY <1>4, <2>1 DEF Catalog, Notice, Lost
  <2>2. CASE n = RowCap(c, s) /\ o.note
    <3>1. [of |-> s, lost |-> "rows"] \in short'[c]
      BY <1>5, <1>6, <2>2 DEF Losses
    <3> QED
      BY <1>4, <2>2, <3>1 DEF RowCap, Notice, Lost
  <2>3. CASE n = ResultSets(c, s) /\ o.many
    <3>1. [of |-> s, lost |-> "sets"] \in short'[c]
      BY <1>5, <2>3 DEF Losses
    <3> QED
      BY <1>4, <2>3, <3>1 DEF ResultSets, Notice, Lost
  <2> QED
    BY <2>1, <2>2, <2>3 DEF Warnings
<1>8. ASSUME NEW i \in stray'[c] \ stray[c]
      PROVE  i \in Instances /\ CatalogAt(i, scope'[c])
  <2>1. i = s.at /\ master
    BY <1>5
  <2>2. Catalog(c, s) \in scope'[c]
    BY <1>5, <2>1 DEF Warnings
  <2>3. Catalog(c, s).about = "catalog" /\ Catalog(c, s).at = i
    BY <2>1 DEF Catalog
  <2> QED
    BY <1>4, <2>1, <2>2, <2>3 DEF CatalogAt
<1>9. ASSUME NEW loss \in Losses(s, o)
      PROVE  ToldIn(c, loss, words'[c], scope'[c])
  <2>1. CASE o.short /\ loss = [of |-> s, lost |-> "rows"]
    <3>1. s \in words'[c] \/ RowCap(c, s) \in scope'[c] \/ s = Optional(JobStatusMsdb(s.at))
      BY <1>5, <1>6, <2>1 DEF Warnings
    <3>2. loss.of = s /\ loss.lost = "rows"
      BY <2>1
    <3> QED
      BY <3>1, <3>2 DEF ToldIn
  <2>2. CASE o.many /\ loss = [of |-> s, lost |-> "sets"]
    <3>1. ResultSets(c, s) \in scope'[c]
      BY <1>5, <2>2 DEF Warnings
    <3>2. loss.of = s /\ loss.lost = "sets"
      BY <2>2
    <3> QED
      BY <3>1, <3>2 DEF ToldIn
  <2> QED
    BY <2>1, <2>2 DEF Losses
<1>10. \A loss \in trimmed : ToldIn(c, loss, words'[c], scope'[c])
  BY <1>3, TrimsAreTold DEF SoundStep, ReadStep
<1>11. o.word => \E loss \in short'[c] : loss.of = s
  <2>1. o.word => [of |-> s, lost |-> "rows"] \in short'[c]
    BY <1>5, <1>6 DEF Losses
  <2> QED
    BY <2>1
<1>12. Adds(c)
  BY <1>5, <1>7, <1>8, <1>9, <1>10, <1>11 DEF Adds
<1>13. \E empty : Settle(c, k, empty, scope'[c])
  BY <1>1, Zenon
<1> QED
  BY <1>2, <1>3, <1>12, <1>13

LEMMA BeginAdds ==
    ASSUME Kept, NEW c \in Calls, Shape(c), NEW k \in flying[c], BeginTx(c, k)
    PROVE  Adds(c)
<1> DEFINE s == Steps(c)[k]
<1>1. PICK master \in BOOLEAN :
         /\ scope' = [scope EXCEPT ![c] = @ \cup (IF master THEN {Catalog(c, s)} ELSE {})]
         /\ stray' = IF master THEN [stray EXCEPT ![c] = @ \cup {s.at}] ELSE stray
  BY Zenon DEF BeginTx, Collect
<1>2. UNCHANGED <<short, words>>
  BY Zenon DEF BeginTx
<1>3. s.at \in Instances
  <2>1. CASE asked[c] \in WritePath(Instances)
    <3>1. \E kind \in {"commit", "dryrun"}, i \in Instances : s = Write(kind, i)
      BY <2>1, Current, PathsApart
    <3> QED
      BY <3>1 DEF Write, Trimmed, Step
  <2>2. CASE asked[c] \in ReadPath(Instances)
    <3>1. s \in StepsAt(c, flying[c])
      BY DEF StepsAt
    <3>2. s \in SoundStep(Instances)
      BY <2>2, <3>1, Current, PathsApart
    <3> QED
      BY <3>2 DEF SoundStep, ReadStep
  <2> QED
    BY <2>1, <2>2 DEF Shape, Paths
<1> HIDE DEF s
<1>4. /\ scope'[c] = scope[c] \cup (IF master THEN {Catalog(c, s)} ELSE {})
      /\ stray'[c] \subseteq stray[c] \cup {s.at} /\ (~master => stray'[c] = stray[c])
      /\ short'[c] = short[c] /\ words'[c] = words[c]
  BY <1>1, <1>2 DEF Kept, OfCalls
<1>5. /\ Catalog(c, s) \in Notice /\ Catalog(c, s).from = c
      /\ Catalog(c, s).about = "catalog" /\ Catalog(c, s).at = s.at
  BY <1>3 DEF Catalog, Notice
<1>6. Lost(short'[c], Catalog(c, s))
  BY <1>5 DEF Lost
<1>7. ASSUME NEW i \in stray'[c] \ stray[c]
      PROVE  i \in Instances /\ CatalogAt(i, scope'[c])
  <2>1. i = s.at /\ Catalog(c, s) \in scope'[c]
    BY <1>4
  <2> QED
    BY <1>3, <1>5, <2>1 DEF CatalogAt
<1> QED
  BY <1>4, <1>5, <1>6, <1>7 DEF Adds

\* Notices that tell of everything still do when records are added to with them.
LEMMA CompleteGrows ==
    ASSUME NEW c \in Calls, Records(c), Adds(c)
    PROVE  Complete(c, stray'[c], short'[c], words'[c], scope'[c])
<1>1. Complete(c, stray[c], short[c], words[c], scope[c])
  BY DEF Records
<1>2. ASSUME NEW n \in scope'[c]
      PROVE  n \in Notice /\ n.from = c /\ Lost(short'[c], n)
  <2>1. CASE n \in scope[c]
    BY <1>1, <2>1 DEF Complete, Lost, Adds
  <2>2. CASE n \notin scope[c]
    BY <2>2 DEF Adds
  <2> QED
    BY <2>1, <2>2
<1>3. ASSUME NEW i \in stray'[c]
      PROVE  CatalogAt(i, scope'[c])
  <2>1. CASE i \in stray[c]
    BY <1>1, <2>1 DEF Complete, CatalogAt, Adds
  <2>2. CASE i \notin stray[c]
    BY <2>2 DEF Adds
  <2> QED
    BY <2>1, <2>2
<1>4. ASSUME NEW loss \in short'[c]
      PROVE  ToldIn(c, loss, words'[c], scope'[c])
  <2>1. CASE loss \in short[c]
    BY <1>1, <2>1 DEF Complete, ToldIn, Adds
  <2>2. CASE loss \notin short[c]
    BY <2>2 DEF Adds
  <2> QED
    BY <2>1, <2>2
<1> QED
  BY <1>2, <1>3, <1>4 DEF Complete

LEMMA RecordsStep ==
    ASSUME Kept, NEW c \in Calls, Shape(c), Records(c), flying[c] # {}, Moves(c), Adds(c),
           asked'[c] = asked[c]
    PROVE  Records(c)'
<1>1. ~Answered(c) /\ asked[c] # <<>>
  BY Current
<1>2. Complete(c, stray'[c], short'[c], words'[c], scope'[c])
  BY CompleteGrows
<1>3. stray'[c] \subseteq Instances
  BY DEF Adds, Records
<1>4. words'[c] \subseteq {loss.of : loss \in short'[c]}
  <2> SUFFICES ASSUME NEW s \in words'[c]
               PROVE  \E loss \in short'[c] : loss.of = s
    OBVIOUS
  <2>1. CASE s \in words[c]
    BY <2>1 DEF Adds, Records
  <2>2. CASE s \notin words[c]
    BY <2>2 DEF Adds
  <2> QED
    BY <2>1, <2>2
<1>5. CASE answer'[c] = answer[c]
  <2>1. ~Answered(c)' /\ answer'[c].notices = {} /\ answer'[c].kind = "none"
    BY <1>1, <1>5 DEF Answered, Unanswered
  <2> QED
    BY <1>1, <1>2, <1>3, <1>4, <2>1 DEF Records
<1>6. ASSUME NEW kind \in {"ok", "refused", "error"}, Answer(c, kind, scope'[c])
      PROVE  Records(c)'
  <2>1. answer'[c] = [kind |-> kind, notices |-> scope'[c]]
    BY <1>6, AnswerAt
  <2>2. answer'[c].notices = scope'[c] /\ answer'[c].kind = kind
    BY <2>1
  <2>3. Answered(c)'
    BY <2>2 DEF Answered, Unanswered
  <2>4. Complete(c, stray'[c], short'[c], words'[c], answer'[c].notices)
    BY <1>2, <2>2
  <2> QED
    BY <1>1, <1>2, <1>3, <1>4, <2>2, <2>3, <2>4 DEF Records
<1>7. answer'[c] = answer[c] \/ \E kind \in {"ok", "refused", "error"} : Answer(c, kind, scope'[c])
  BY AwaitAt DEF Moves
<1> QED
  BY <1>5, <1>6, <1>7

-------------------------------------------------------------------------------
(* The transaction of a write. *)

LEMMA NoTx ==
    ASSUME NEW c \in Calls, asked'[c] \notin WritePath(Instances), tx'[c] = "none",
           lasts'[c] = "nothing"
    PROVE  InTx(c)'
BY DEF InTx, WritePath

\* Where a write has come to, after a step.
LEMMA WriteTx ==
    ASSUME NEW c \in Calls, NEW kind \in {"commit", "dryrun"}, NEW i \in Instances,
           asked'[c] = <<Then(Write(kind, i))>>,
           tx'[c] \in IF Answered(c)' THEN {"none", "over"} ELSE {"none", "open", "ran"},
           lasts'[c] \in {"nothing", "own", "all"}, tx'[c] \in {"none", "open"} => lasts'[c] = "nothing",
           kind = "commit" /\ answer'[c].kind = "ok" => lasts'[c] = "all",
           kind = "dryrun" => lasts'[c] # "all"
    PROVE  InTx(c)'
<1>1. asked'[c] \in WritePath(Instances)
  BY DEF WritePath
<1>2. ASSUME NEW other \in {"commit", "dryrun"}, NEW j, <<Then(Write(other, j))>> = <<Then(Write(kind, i))>>
      PROVE  other = kind
  <2>1. Then(Write(other, j)).steps = Then(Write(kind, i)).steps
    BY <1>2
  <2>2. Write(other, j) = Write(kind, i)
    BY <2>1 DEF Then, All
  <2> QED
    BY <2>2 DEF Write, Trimmed, Step
<1> QED
  BY <1>1, <1>2 DEF InTx

\* The step of a write, and no other, opens, runs and ends a transaction.
LEMMA WritingIsWrite ==
    ASSUME NEW c \in Calls, Shape(c), NEW k, Writing(c, k)
    PROVE  /\ k \in flying[c] /\ asked[c] \in WritePath(Instances) /\ ~Steps(c)[k].optional
           /\ \E kind \in {"commit", "dryrun"}, i \in Instances :
                 asked[c] = <<Then(Write(kind, i))>> /\ Steps(c)[k].kind = kind
<1>1. k \in flying[c] /\ Steps(c)[k].kind \in {"commit", "dryrun"}
  BY DEF Writing
<1>2. asked[c] \in WritePath(Instances)
  <2>1. ASSUME asked[c] \in ReadPath(Instances)
        PROVE  FALSE
    <3>1. Steps(c)[k] \in StepsAt(c, flying[c])
      BY <1>1 DEF StepsAt
    <3>2. Steps(c)[k] \in SoundStep(Instances)
      BY <1>1, <2>1, <3>1, Current, PathsApart
    <3> QED
      BY <1>1, <3>2 DEF SoundStep, ReadStep
  <2> QED
    BY <2>1 DEF Shape, Paths
<1>3. PICK kind \in {"commit", "dryrun"}, i \in Instances :
         asked[c] = <<Then(Write(kind, i))>> /\ Steps(c)[k] = Write(kind, i)
  BY <1>1, <1>2, Current, PathsApart DEF Writes
<1>4. Write(kind, i).kind = kind /\ ~Write(kind, i).optional
  BY DEF Write, Trimmed, Step
<1> QED
  BY <1>1, <1>2, <1>3, <1>4

LEMMA AnswersError ==
    ASSUME Kept, NEW c \in Calls, NEW noted, Answer(c, "error", noted)
    PROVE  answer'[c].kind = "error"
<1>1. answer'[c] = [kind |-> "error", notices |-> noted]
  BY AnswerAt
<1> QED
  BY <1>1

-------------------------------------------------------------------------------
(* Each step keeps the invariant of its call. *)

LEMMA QueryCall ==
    ASSUME Kept, NEW c \in Calls, CallInv(c), NEW k \in flying[c], QueryEnds(c, k)
    PROVE  CallInv(c)'
<1>1. Shape(c) /\ InTx(c) /\ Records(c)
  BY DEF CallInv
<1>2. /\ Adds(c) /\ UNCHANGED <<asked, tx, lasts, failed>> /\ asked[c] \notin WritePath(Instances)
  BY <1>1, QueryAdds
<1>3. PICK empty : Settle(c, k, empty, scope'[c])
  BY <1>1, QueryAdds
<1>4. Moves(c) /\ answer'[c].kind # "error" /\ UNCHANGED orphans
  BY <1>1, <1>3, SettleMoves
<1>5. Shape(c)'
  BY <1>1, <1>2, <1>4, ShapeStep DEF Shape
<1>6. Records(c)'
  BY <1>1, <1>2, <1>4, RecordsStep
<1>7. InTx(c)'
  BY <1>1, <1>2, NoTx DEF InTx
<1> QED
  BY <1>4, <1>5, <1>6, <1>7 DEF CallInv, Caused

LEMMA SettleCall ==
    ASSUME Kept, NEW c \in Calls, CallInv(c), NEW k \in flying[c],
           OtherEnds(c, k) \/ OptionalFails(c, k)
    PROVE  CallInv(c)'
<1>1. Shape(c) /\ InTx(c) /\ Records(c)
  BY DEF CallInv
<1>2. UNCHANGED <<asked, scope, tx, lasts, stray, words, failed>>
  BY Zenon DEF OtherEnds, OptionalFails, histVars
<1>3. PICK empty : Settle(c, k, empty, scope'[c])
  BY <1>2, Zenon DEF OtherEnds, OptionalFails
<1>4. Moves(c) /\ answer'[c].kind # "error" /\ UNCHANGED orphans
  BY <1>1, <1>3, SettleMoves
<1>5. asked[c] \notin WritePath(Instances)
  <2>1. ASSUME asked[c] \in WritePath(Instances)
        PROVE  FALSE
    <3>1. PICK kind \in {"commit", "dryrun"}, i \in Instances : Steps(c)[k] = Write(kind, i)
      BY <1>1, <2>1, Current, PathsApart
    <3>2. Steps(c)[k].kind \in {"commit", "dryrun"} /\ ~Steps(c)[k].optional
      BY <3>1 DEF Write, Trimmed, Step
    <3> QED
      BY <3>2 DEF OtherEnds, OptionalFails
  <2> QED
    BY <2>1
<1>6. Adds(c)
  <2>1. CASE OtherEnds(c, k)
    <3>1. PICK trimmed \in Trims(Steps(c)[k]) : short' = [short EXCEPT ![c] = @ \cup trimmed]
      BY <2>1, Zenon DEF OtherEnds
    <3> QED
      BY <1>1, <1>2, <3>1, StepTrims, TrimmingAdds
  <2>2. CASE OptionalFails(c, k)
    BY <1>2, <2>2, NothingAdded DEF OptionalFails, histVars
  <2> QED
    BY <2>1, <2>2
<1>7. Shape(c)'
  BY <1>1, <1>2, <1>4, ShapeStep DEF Shape
<1>8. Records(c)'
  BY <1>1, <1>2, <1>4, <1>6, RecordsStep
<1>9. InTx(c)'
  BY <1>1, <1>2, <1>5, NoTx DEF InTx
<1> QED
  BY <1>4, <1>7, <1>8, <1>9 DEF CallInv, Caused

\* A failure: what the other lemmas need of the transaction is left open.
LEMMA AbortCall ==
    ASSUME Kept, NEW c \in Calls, CallInv(c), NEW k \in flying[c], ~Steps(c)[k].optional,
           Abort(c, k, scope'[c]), Adds(c), UNCHANGED asked
    PROVE  /\ Shape(c)' /\ Records(c)' /\ Caused(c)'
           /\ asked[c] \in WritePath(Instances) => answer'[c].kind = "error"
<1>1. Shape(c) /\ Records(c)
  BY DEF CallInv
<1>2. /\ Moves(c) /\ Caused(c)' /\ orphans'[c] \subseteq SoundStep(Instances)
      /\ asked[c] \in WritePath(Instances) => Answer(c, "error", scope'[c])
  BY <1>1, AbortMoves
<1>3. Shape(c)'
  BY <1>1, <1>2, ShapeStep
<1>4. Records(c)'
  BY <1>1, <1>2, RecordsStep
<1> QED
  BY <1>2, <1>3, <1>4, AnswersError

LEMMA FailCall ==
    ASSUME Kept, NEW c \in Calls, CallInv(c), NEW k \in flying[c], StepFails(c, k)
    PROVE  CallInv(c)'
<1>1. Shape(c) /\ InTx(c)
  BY DEF CallInv
<1>2. /\ ~Steps(c)[k].optional /\ tx[c] = "none" /\ UNCHANGED <<asked, scope, tx, lasts, stray, short, words>>
      /\ Abort(c, k, scope'[c])
  BY Zenon DEF StepFails
<1>3. Adds(c)
  BY <1>2, NothingAdded
<1>4. /\ Shape(c)' /\ Records(c)' /\ Caused(c)'
      /\ asked[c] \in WritePath(Instances) => answer'[c].kind = "error"
  BY <1>2, <1>3, AbortCall
<1>5. InTx(c)'
  <2>1. CASE asked[c] \notin WritePath(Instances)
    BY <1>1, <1>2, <2>1, NoTx DEF InTx
  <2>2. CASE asked[c] \in WritePath(Instances)
    <3>1. PICK kind \in {"commit", "dryrun"}, i \in Instances : asked[c] = <<Then(Write(kind, i))>>
      BY <2>2 DEF WritePath
    <3> QED
      BY <1>1, <1>2, <1>4, <2>2, <3>1, WriteTx DEF InTx
  <2> QED
    BY <2>1, <2>2
<1> QED
  BY <1>4, <1>5 DEF CallInv

LEMMA BeginCall ==
    ASSUME Kept, NEW c \in Calls, CallInv(c), NEW k \in flying[c], BeginTx(c, k)
    PROVE  CallInv(c)'
<1>1. Shape(c) /\ InTx(c) /\ Records(c)
  BY DEF CallInv
<1>2. UNCHANGED <<asked, lasts>> /\ Writing(c, k) /\ tx[c] = "none"
  BY Zenon DEF BeginTx
<1>2a. lasts'[c] = "nothing"
  BY <1>1, <1>2 DEF InTx
<1>3. asked[c] \in WritePath(Instances) /\ ~Steps(c)[k].optional
  BY <1>1, <1>2, WritingIsWrite
<1>4. PICK kind \in {"commit", "dryrun"}, i \in Instances : asked[c] = <<Then(Write(kind, i))>>
  BY <1>3 DEF WritePath
<1>5. Adds(c)
  BY <1>1, BeginAdds
<1>6. CASE tx' = [tx EXCEPT ![c] = "open"] /\ UNCHANGED <<plan, flying, orphans, answer, failed>>
  <2>1. tx'[c] = "open" /\ ~Answered(c)' /\ answer'[c].kind = "none"
    BY <1>1, <1>6, Current DEF Kept, OfCalls, Answered, Unanswered
  <2>2. flying' = [flying EXCEPT ![c] = flying[c]] /\ flying[c] \in SUBSET flying[c] /\ flying[c] # {}
    BY <1>6 DEF Kept, OfCalls
  <2>3. Moves(c)
    BY <1>6, <2>2, Zenon DEF Moves
  <2>4. Shape(c)'
    BY <1>1, <1>2, <1>6, <2>3, ShapeStep DEF Shape
  <2>5. Records(c)'
    BY <1>1, <1>2, <1>5, <2>3, RecordsStep
  <2>6. InTx(c)'
    BY <1>2, <1>2a, <1>4, <2>1, WriteTx
  <2> QED
    BY <2>1, <2>4, <2>5, <2>6 DEF CallInv, Caused
<1>7. CASE Abort(c, k, scope'[c]) /\ UNCHANGED tx
  <2>1. Shape(c)' /\ Records(c)' /\ Caused(c)' /\ answer'[c].kind = "error"
    BY <1>2, <1>3, <1>5, <1>7, AbortCall
  <2>2. InTx(c)'
    BY <1>2, <1>2a, <1>4, <1>7, <2>1, WriteTx
  <2> QED
    BY <2>1, <2>2 DEF CallInv
<1> QED
  BY <1>6, <1>7, Zenon DEF BeginTx

LEMMA RunCall ==
    ASSUME Kept, NEW c \in Calls, CallInv(c), NEW k \in flying[c], RunStatement(c, k)
    PROVE  CallInv(c)'
<1>1. Shape(c) /\ InTx(c) /\ Records(c)
  BY DEF CallInv
<1>2. UNCHANGED <<asked, scope, stray, short, words>> /\ Writing(c, k)
  BY Zenon DEF RunStatement
<1>3. asked[c] \in WritePath(Instances) /\ ~Steps(c)[k].optional
  BY <1>1, <1>2, WritingIsWrite
<1>4. PICK kind \in {"commit", "dryrun"}, i \in Instances : asked[c] = <<Then(Write(kind, i))>>
  BY <1>3 DEF WritePath
<1>5. Adds(c)
  BY <1>2, NothingAdded
<1>5a. lasts'[c] \in {"nothing", "own"}
  BY DEF RunStatement, Kept, OfCalls
<1>6. CASE tx' = [tx EXCEPT ![c] = "ran"] /\ UNCHANGED <<plan, flying, orphans, answer, failed>>
  <2>1. tx'[c] = "ran" /\ ~Answered(c)' /\ answer'[c].kind = "none"
    BY <1>1, <1>6, Current DEF Kept, OfCalls, Answered, Unanswered
  <2>2. flying' = [flying EXCEPT ![c] = flying[c]] /\ flying[c] \in SUBSET flying[c] /\ flying[c] # {}
    BY <1>6 DEF Kept, OfCalls
  <2>3. Moves(c)
    BY <1>6, <2>2, Zenon DEF Moves
  <2>4. Shape(c)'
    BY <1>1, <1>2, <1>6, <2>3, ShapeStep DEF Shape
  <2>5. Records(c)'
    BY <1>1, <1>2, <1>5, <2>3, RecordsStep
  <2>6. InTx(c)'
    BY <1>2, <1>4, <1>5a, <2>1, WriteTx
  <2> QED
    BY <2>1, <2>4, <2>5, <2>6 DEF CallInv, Caused
<1>7. CASE tx' = [tx EXCEPT ![c] = "over"] /\ Abort(c, k, scope[c])
  <2>1. tx'[c] = "over"
    BY <1>7 DEF Kept, OfCalls
  <2>2. Shape(c)' /\ Records(c)' /\ Caused(c)' /\ answer'[c].kind = "error"
    BY <1>2, <1>3, <1>5, <1>7, AbortCall
  <2>3. Answered(c)'
    BY <2>2 DEF Answered, Unanswered
  <2>4. InTx(c)'
    BY <1>2, <1>4, <1>5a, <2>1, <2>2, <2>3, WriteTx
  <2> QED
    BY <2>2, <2>4 DEF CallInv
<1> QED
  BY <1>6, <1>7, Zenon DEF RunStatement

LEMMA EndCall ==
    ASSUME Kept, NEW c \in Calls, CallInv(c), NEW k \in flying[c], EndTx(c, k)
    PROVE  CallInv(c)'
<1>1. Shape(c) /\ InTx(c) /\ Records(c)
  BY DEF CallInv
<1>2. UNCHANGED <<asked, scope, stray, words>> /\ Writing(c, k)
  BY Zenon DEF EndTx
<1>3. asked[c] \in WritePath(Instances) /\ ~Steps(c)[k].optional
  BY <1>1, <1>2, WritingIsWrite
<1>4. PICK kind \in {"commit", "dryrun"}, i \in Instances :
         asked[c] = <<Then(Write(kind, i))>> /\ Steps(c)[k].kind = kind
  BY <1>1, <1>2, WritingIsWrite
<1>5. tx'[c] = "over"
  BY DEF EndTx, Kept, OfCalls
<1> DEFINE done == IF Steps(c)[k].kind = "commit" THEN "all" ELSE lasts[c]
<1>6. CASE /\ lasts' = [lasts EXCEPT ![c] = done]
           /\ \E trimmed \in Trims(Steps(c)[k]) : short' = [short EXCEPT ![c] = @ \cup trimmed]
           /\ Settle(c, k, FALSE, scope[c]) /\ UNCHANGED failed
  <2>0. Adds(c)
    BY <1>1, <1>2, <1>3, <1>6, StepTrims, TrimmingAdds DEF Writing
  <2>1. lasts'[c] = done /\ done \in {"nothing", "own", "all"}
    BY <1>1, <1>6 DEF Kept, OfCalls, InTx
  <2>2. Moves(c) /\ answer'[c].kind # "error" /\ UNCHANGED orphans
    BY <1>1, <1>2, <1>6, SettleMoves
  <2>3. Shape(c)'
    BY <1>1, <1>2, <2>2, ShapeStep DEF Shape
  <2>4. Records(c)'
    BY <1>1, <1>2, <2>0, <2>2, RecordsStep
  <2>5. Answered(c)'
    <3>1. Answer(c, "ok", scope'[c])
      BY <1>1, <1>2, <1>3, <1>6, SettleMoves
    <3>2. answer'[c] = [kind |-> "ok", notices |-> scope'[c]]
      BY <3>1, AnswerAt
    <3> QED
      BY <3>2 DEF Answered, Unanswered
  <2>6. InTx(c)'
    BY <1>1, <1>2, <1>4, <1>5, <2>1, <2>5, WriteTx DEF InTx
  <2> QED
    BY <2>2, <2>3, <2>4, <2>6 DEF CallInv, Caused
<1>7. CASE /\ \E end \in {done, lasts[c]} : lasts' = [lasts EXCEPT ![c] = end]
           /\ Abort(c, k, scope[c]) /\ UNCHANGED short
  <2>0. Adds(c)
    BY <1>2, <1>7, NothingAdded
  <2>1. lasts'[c] \in {done, lasts[c]} /\ lasts'[c] \in {"nothing", "own", "all"}
    BY <1>1, <1>7 DEF Kept, OfCalls, InTx
  <2>2. Shape(c)' /\ Records(c)' /\ Caused(c)' /\ answer'[c].kind = "error"
    BY <1>2, <1>3, <2>0, <1>7, AbortCall
  <2>3. Answered(c)'
    BY <2>2 DEF Answered, Unanswered
  <2>4. InTx(c)'
    BY <1>1, <1>2, <1>4, <1>5, <2>1, <2>2, <2>3, WriteTx DEF InTx
  <2> QED
    BY <2>2, <2>4 DEF CallInv
<1> QED
  BY <1>6, <1>7, Zenon DEF EndTx

LEMMA StepCall ==
    ASSUME Kept, NEW c \in Calls, CallInv(c), StepEnds(c)
    PROVE  CallInv(c)'
BY QueryCall, SettleCall, FailCall, BeginCall, RunCall, EndCall, Zenon DEF StepEnds

\* A call is answered at once, with nothing to warn of, or starts on its plan.
LEMMA AskCall ==
    ASSUME Kept, NEW c \in Calls, CallInv(c), Ask(c) \/ Refuse(c)
    PROVE  CallInv(c)'
<1>1. Shape(c) /\ InTx(c) /\ Records(c)
  BY DEF CallInv
<1>2. /\ asked[c] = <<>> /\ plan[c] = <<>> /\ ~Answered(c)
      /\ UNCHANGED <<orphans, scope, tx, lasts, stray, short, words, failed>>
  BY Zenon DEF Ask, Refuse, histVars
<1>3. /\ asked[c] \notin WritePath(Instances) /\ tx[c] = "none" /\ lasts[c] = "nothing"
      /\ stray[c] = {} /\ short[c] = {} /\ words[c] = {}
  <2>1. asked[c] \notin WritePath(Instances)
    BY <1>2, PathsApart
  <2>2. stray[c] = {} /\ short[c] = {}
    BY <1>1, <1>2 DEF Records
  <2>3. words[c] = {}
    BY <1>1, <2>2 DEF Records
  <2> QED
    BY <1>1, <2>1, <2>2, <2>3 DEF InTx
<1>4. /\ Complete(c, stray[c], short[c], words[c], scope[c])
      /\ Complete(c, stray[c], short[c], words[c], {})
  BY <1>1, <1>3 DEF Records, Complete
<1>5. PICK path \in Paths :
         /\ asked' = [asked EXCEPT ![c] = path]
         /\ \/ path = <<>> /\ \E kind \in {"ok", "refused"} : Answer(c, kind, {})
            \/ path # <<>> /\ Await(c, path)
  <2>1. CASE Refuse(c)
    <3>1. UNCHANGED asked /\ Answer(c, "refused", {})
      BY <2>1, Zenon DEF Refuse
    <3>2. asked' = [asked EXCEPT ![c] = <<>>] /\ <<>> \in Paths
      BY <1>1, <1>2, <3>1 DEF Kept, OfCalls, Shape
    <3> QED
      BY <3>1, <3>2
  <2>2. CASE Ask(c)
    <3>1. PICK i \in Instances : \E p \in PlansFor(c, i) :
             /\ asked' = [asked EXCEPT ![c] = p.stages]
             /\ IF p.stages = <<>> THEN Answer(c, "ok", {}) ELSE Await(c, p.stages)
      BY <2>2, Zenon DEF Ask
    <3>2. PICK p \in PlansFor(c, i) :
             /\ asked' = [asked EXCEPT ![c] = p.stages]
             /\ IF p.stages = <<>> THEN Answer(c, "ok", {}) ELSE Await(c, p.stages)
      BY <3>1
    <3>3. p.stages \in Paths
      BY MenuPlans
    <3> QED
      BY <3>2, <3>3
  <2> QED
    BY <2>1, <2>2
<1>6. asked'[c] = path
  BY <1>5 DEF Kept, OfCalls
<1>7. ASSUME path = <<>>, NEW kind \in {"ok", "refused"}, Answer(c, kind, {})
      PROVE  CallInv(c)'
  <2>1. /\ plan'[c] = <<>> /\ flying'[c] = {}
        /\ answer'[c] = [kind |-> kind, notices |-> {}]
    BY <1>7 DEF Kept, OfCalls, Answer
  <2>2. answer'[c].kind = kind /\ answer'[c].notices = {}
    BY <2>1
  <2>3. path \notin WritePath(Instances)
    BY <1>7, PathsApart
  <2>4. Answered(c)'
    BY <2>2 DEF Answered, Unanswered
  <2>5. Shape(c)'
    BY <1>1, <1>2, <1>6, <2>1, <2>3, <2>4 DEF Shape, OnCourse
  <2>6. InTx(c)'
    BY <1>2, <1>3, <1>6, <2>3, NoTx
  <2>7. Records(c)'
    BY <1>2, <1>3, <1>4, <2>2, <2>4 DEF Records
  <2> QED
    BY <2>2, <2>5, <2>6, <2>7 DEF CallInv, Caused
<1>8. ASSUME path # <<>>, Await(c, path)
      PROVE  CallInv(c)'
  <2>1. /\ plan'[c] = path /\ flying'[c] = DOMAIN path[1].steps /\ answer'[c] = answer[c]
    BY <1>8, AwaitAt
  <2>2. ~Answered(c)' /\ answer'[c].kind = "none" /\ answer'[c].notices = {}
    BY <1>2, <2>1 DEF Answered, Unanswered
  <2>3. path[1].steps # <<>> /\ DOMAIN path[1].steps # {} /\ OnCourse(path, path)
    <3> SUFFICES path \in Seq(Stages(path)) /\ \E T : path[1].steps \in Seq(T) /\ path[1].steps # <<>>
      <4>1. ASSUME NEW steps, NEW T, steps \in Seq(T), steps # <<>>
            PROVE  DOMAIN steps # {}
        <5>1. 1 \in DOMAIN steps
          BY <4>1
        <5> QED
          BY <5>1
      <4> QED
        BY <4>1 DEF OnCourse
    <3>1. CASE path \in ReadPath(Instances)
      <4>1. path \in Seq(Stage(Instances))
        BY <3>1 DEF ReadPath
      <4>2. path[1] \in Stage(Instances)
        BY <1>8, <4>1
      <4>3. path \in Seq(Stages(path))
        BY <4>1 DEF Stages
      <4> QED
        BY <4>2, <4>3 DEF Stage
    <3>2. CASE path \in WritePath(Instances)
      <4>1. PICK kind \in {"commit", "dryrun"}, i \in Instances : path = <<Then(Write(kind, i))>>
        BY <3>2 DEF WritePath
      <4>2. path[1].steps = <<Write(kind, i)>> /\ path \in Seq(Stages(path))
        BY <4>1 DEF Then, All, Stages
      <4>3. <<Write(kind, i)>> \in Seq({Write(kind, i)}) /\ <<Write(kind, i)>> # <<>>
        OBVIOUS
      <4> QED
        BY <4>2, <4>3
    <3> QED
      BY <3>1, <3>2 DEF Paths
  <2>4. Steps(c)' = path[1].steps
    BY <2>1 DEF Steps
  <2>5. Shape(c)'
    BY <1>1, <1>2, <1>6, <1>8, <2>1, <2>2, <2>3, <2>4 DEF Shape
  <2>6. InTx(c)'
    <3>1. CASE path \notin WritePath(Instances)
      BY <1>2, <1>3, <1>6, <3>1, NoTx
    <3>2. CASE path \in WritePath(Instances)
      <4>1. PICK kind \in {"commit", "dryrun"}, i \in Instances : path = <<Then(Write(kind, i))>>
        BY <3>2 DEF WritePath
      <4>2. tx'[c] = "none" /\ lasts'[c] = "nothing"
        BY <1>2, <1>3
      <4> QED
        BY <1>6, <2>2, <4>1, <4>2, WriteTx
    <3> QED
      BY <3>1, <3>2
  <2>7. Records(c)'
    BY <1>2, <1>3, <1>4, <2>2 DEF Records
  <2> QED
    BY <2>2, <2>5, <2>6, <2>7 DEF CallInv, Caused
<1> QED
  BY <1>5, <1>7, <1>8

\* A late query of a call may still note a warning in its scope, whose answer is what it was.
LEMMA OrphanCall ==
    ASSUME Kept, NEW c \in Calls, CallInv(c), OrphanEnds(c)
    PROVE  CallInv(c)'
<1>1. Shape(c) /\ InTx(c) /\ Records(c)
  BY DEF CallInv
<1>2. UNCHANGED <<asked, plan, flying, answer, tx, lasts, stray, short, words, failed>>
  BY Zenon DEF OrphanEnds, histVars
<1>3. PICK s \in orphans[c] :
         /\ orphans' = [orphans EXCEPT ![c] = @ \ {s}]
         /\ UNCHANGED scope \/ scope' = [scope EXCEPT ![c] = @ \cup {Catalog(c, s)}]
  BY Zenon DEF OrphanEnds, Collect
<1>4. /\ orphans'[c] \subseteq orphans[c]
      /\ scope'[c] = scope[c] \/ scope'[c] = scope[c] \cup {Catalog(c, s)}
  BY <1>3 DEF Kept, OfCalls
<1>5. s.at \in Instances
  BY <1>1 DEF Shape, SoundStep, ReadStep
<1>6. Catalog(c, s) \in Notice /\ Catalog(c, s).from = c /\ Lost(short'[c], Catalog(c, s))
  BY <1>5 DEF Catalog, Notice, Lost
<1>7. Adds(c)
  BY <1>2, <1>4, <1>6 DEF Adds
<1>8. Complete(c, stray'[c], short'[c], words'[c], scope'[c])
  BY <1>1, <1>7, CompleteGrows
<1>9. Answered(c)' = Answered(c) /\ Steps(c)' = Steps(c)
  BY <1>2 DEF Answered, Steps
<1>10. Shape(c)'
  BY <1>1, <1>2, <1>4, <1>9 DEF Shape
<1>11. InTx(c)'
  BY <1>1, <1>2, <1>9 DEF InTx
<1>12. Records(c)'
  BY <1>1, <1>2, <1>8, <1>9 DEF Records
<1> QED
  BY <1>2, <1>10, <1>11, <1>12 DEF CallInv, Caused

LEMMA OtherCall ==
    ASSUME NEW c \in Calls, CallInv(c), Same(c)
    PROVE  CallInv(c)'
<1>1. Answered(c)' = Answered(c) /\ Steps(c)' = Steps(c)
  BY DEF Same, Answered, Steps
<1>2. Shape(c)'
  BY <1>1 DEF CallInv, Same, Shape
<1>3. InTx(c)'
  BY <1>1 DEF CallInv, Same, InTx
<1>4. Records(c)'
  BY <1>1 DEF CallInv, Same, Records
<1> QED
  BY <1>2, <1>3, <1>4 DEF CallInv, Same, Caused

-------------------------------------------------------------------------------
(* The theorems. *)

LEMMA InitIInv == Init => IInv
<1> SUFFICES ASSUME Init
             PROVE  IInv
  OBVIOUS
<1>1. env \in Deployments /\ Kept
  BY DEF Init, Kept, OfCalls
<1>2. ASSUME NEW c \in Calls
      PROVE  CallInv(c)
  <2>1. /\ asked[c] = <<>> /\ plan[c] = <<>> /\ flying[c] = {} /\ orphans[c] = {} /\ scope[c] = {}
        /\ answer[c] = Unanswered /\ tx[c] = "none" /\ lasts[c] = "nothing"
        /\ stray[c] = {} /\ short[c] = {} /\ words[c] = {}
    BY DEF Init
  <2>2. answer[c].kind = "none" /\ answer[c].notices = {} /\ ~Answered(c)
    BY <2>1 DEF Answered, Unanswered
  <2>3. <<>> \in Paths
    BY NoStages DEF Reads, Plan, Paths
  <2>4. Shape(c)
    BY <2>1, <2>3, PathsApart DEF Shape, OnCourse
  <2>5. InTx(c)
    BY <2>1, <2>2 DEF InTx, WritePath
  <2>6. Records(c)
    BY <2>1, <2>2 DEF Records, Complete
  <2> QED
    BY <2>2, <2>4, <2>5, <2>6 DEF CallInv, Caused
<1> QED
  BY <1>1, <1>2 DEF IInv

LEMMA IInvHolds == Spec => []IInv
<1>1. IInv /\ [Next]_vars => IInv'
  <2> SUFFICES ASSUME IInv, [Next]_vars
               PROVE  IInv'
    OBVIOUS
  <2>1. Kept /\ env \in Deployments /\ \A c \in Calls : CallInv(c)
    BY DEF IInv
  <2>2. ASSUME NEW c \in Calls, Touches(c), CallInv(c)', UNCHANGED env
        PROVE  IInv'
    <3>1. Kept' /\ \A d \in Calls : d # c => Same(d)
      BY <2>1, <2>2, TouchesOne
    <3>2. \A d \in Calls : CallInv(d)'
      BY <2>1, <2>2, <3>1, OtherCall
    <3> QED
      BY <2>1, <2>2, <3>1, <3>2 DEF IInv
  <2>3. ASSUME NEW c \in Calls, Ask(c) \/ Refuse(c)
        PROVE  IInv'
    <3>1. UNCHANGED env
      BY <2>3, Zenon DEF Ask, Refuse
    <3> QED
      BY <2>1, <2>2, <2>3, <3>1, AskTouches, AskCall
  <2>4. ASSUME NEW c \in Calls, StepEnds(c)
        PROVE  IInv'
    <3>1. UNCHANGED env
      BY <2>4, Zenon DEF StepEnds, QueryEnds, OtherEnds, OptionalFails, StepFails, BeginTx,
                         RunStatement, EndTx
    <3> QED
      BY <2>1, <2>2, <2>4, <3>1, StepTouches, StepCall
  <2>5. ASSUME NEW c \in Calls, OrphanEnds(c)
        PROVE  IInv'
    <3>1. UNCHANGED env
      BY <2>5, Zenon DEF OrphanEnds
    <3> QED
      BY <2>1, <2>2, <2>5, <3>1, OrphanTouches, OrphanCall
  <2>6. CASE UNCHANGED vars
    <3>1. UNCHANGED <<env, asked, plan, flying, orphans, scope, answer, tx, lasts, stray, short, words, failed>>
      BY <2>6 DEF vars, callVars, histVars
    <3>2. Kept' /\ \A c \in Calls : Same(c)
      BY <2>1, <3>1 DEF Kept, OfCalls, Same
    <3> QED
      BY <2>1, <3>1, <3>2, OtherCall DEF IInv
  <2> QED
    BY <2>3, <2>4, <2>5, <2>6, Zenon DEF Next
<1> QED
  BY <1>1, InitIInv, PTL DEF Spec

\* What is awaited belongs to the plan that is under way, what is attached is a notice of a query,
\* and a transaction is in one of its states.
THEOREM CallsTyped == Spec => []TypeOK
<1>1. ASSUME IInv
      PROVE  TypeOK
  <2>1. env \in Deployments /\ \A c \in Calls : CallInv(c)
    BY <1>1 DEF IInv
  <2>2. ASSUME NEW c \in Calls
        PROVE  /\ flying[c] # {} => plan[c] # <<>> /\ flying[c] \subseteq DOMAIN Steps(c)
               /\ plan[c] # <<>> /\ answer[c].kind = "none" => flying[c] # {}
               /\ scope[c] \subseteq Notice
               /\ answer[c].kind \in {"none", "ok", "refused", "error"}
               /\ answer[c].notices \subseteq Notice
               /\ tx[c] \in {"none", "open", "ran", "over"}
               /\ lasts[c] \in {"nothing", "own", "all"}
               /\ stray[c] \subseteq Instances
    <3>1. Shape(c) /\ InTx(c) /\ Records(c)
      BY <2>1 DEF CallInv
    <3>2. scope[c] \subseteq Notice /\ answer[c].notices \subseteq Notice
      BY <3>1 DEF Records, Complete
    <3> QED
      BY <3>1, <3>2 DEF Shape, InTx, Records
  <2> QED
    BY <2>1, <2>2 DEF TypeOK
<1> QED
  BY <1>1, IInvHolds, PTL

\* Whatever runs at once, a warning of one caller never gets into the scope of catalogFallbackScope
\* of another, nor into its answer.
THEOREM ScopesAreApart == Spec => []NoticesAreOwn
<1>1. IInv => NoticesAreOwn
  <2> SUFFICES ASSUME IInv, NEW c \in Calls, NEW n \in scope[c] \cup answer[c].notices
               PROVE  n.from = c
    BY DEF NoticesAreOwn
  <2>1. Records(c)
    BY DEF IInv, CallInv
  <2> QED
    BY <2>1 DEF Records, Complete
<1> QED
  BY <1>1, IInvHolds, PTL

\* roTool attaches to every answer, an error or one given early too, a warning for each instance
\* of which a read returned from the fallback catalog before it, or on which a write began there.
THEOREM NoSilentFallback == Spec => []FallbackIsSaid
<1>1. IInv => FallbackIsSaid
  <2> SUFFICES ASSUME IInv, NEW c \in Calls, Answered(c), NEW i \in stray[c]
               PROVE  \E n \in answer[c].notices : n.about = "catalog" /\ n.at = i
    BY DEF FallbackIsSaid
  <2>1. Records(c)
    BY DEF IInv, CallInv
  <2> QED
    BY <2>1 DEF Records, Complete, CatalogAt
<1> QED
  BY <1>1, IInvHolds, PTL

\* Rows that finishQuery drops, and result sets of the user's batch beyond the first, are never
\* missing from an answer that does not say so, whatever the tool, its caps and its TOP: all but
\* those of msdb's job inventory.  What a handler trims after that without a word is no more than
\* its plan says (`trims`): execute_write's answer, scripts that stop at a limit, lines of a dump.
THEOREM NoSilentLoss == Spec => []LossIsSaid
<1>1. IInv => LossIsSaid
  <2> SUFFICES ASSUME IInv, NEW c \in Calls, NEW loss \in short[c], answer[c].kind = "ok",
                      loss.lost \notin loss.of.trims, loss.of # Optional(JobStatusMsdb(loss.of.at))
               PROVE  \/ /\ loss.lost = "rows"
                         /\ RowCap(c, loss.of) \in answer[c].notices \/ loss.of \in words[c]
                      \/ loss.lost = "sets" /\ ResultSets(c, loss.of) \in answer[c].notices
    BY DEF LossIsSaid
  <2>1. Records(c) /\ Answered(c)
    BY DEF IInv, CallInv, Answered, Unanswered
  <2>2. ToldIn(c, loss, words[c], answer[c].notices)
    BY <2>1 DEF Records, Complete
  <2> QED
    BY <2>2 DEF ToldIn
<1> QED
  BY <1>1, IInvHolds, PTL

\* And no answer claims a cut that did not happen, not even of a result that fills its cap: the
\* one row more that applyRowLimit asks for is what tells them apart.
THEOREM NoFalseCut == Spec => []CutIsReal
<1>1. IInv => CutIsReal
  <2> SUFFICES ASSUME IInv, NEW c \in Calls
               PROVE  /\ words[c] \subseteq {loss.of : loss \in short[c]}
                      /\ \A n \in answer[c].notices : Lost(short[c], n)
    BY DEF CutIsReal, Lost
  <2>1. Records(c)
    BY DEF IInv, CallInv
  <2> QED
    BY <2>1 DEF Records, Complete
<1> QED
  BY <1>1, IInvHolds, PTL

\* A call that ends in an error was failed by a step its last resort cannot do without: with
\* withFallback(), by one of the DMV path, whatever happened on the dbatools path.
THEOREM NoNeedlessError == Spec => []ErrorHasCause
<1>1. IInv => ErrorHasCause
  BY DEF IInv, CallInv, Caused, ErrorHasCause
<1> QED
  BY <1>1, IInvHolds, PTL

\* executeWrite: an answer "committed" is one, the transaction of a dry run is never committed, even
\* if it fails (what its statement, a procedure, commits by itself is what can last of it), and no
\* answer leaves a transaction open.
THEOREM WritesAreAsReported == Spec => []WriteReportIsTrue
<1>1. ASSUME IInv, NEW c \in Calls, NEW s \in Vital(asked[c])
      PROVE  /\ s.kind = "commit" /\ answer[c].kind = "ok" => lasts[c] = "all"
             /\ s.kind = "dryrun" => lasts[c] # "all"
             /\ Answered(c) => tx[c] \notin {"open", "ran"}
  <2>1. Shape(c) /\ InTx(c)
    BY <1>1 DEF IInv, CallInv
  <2>2. PICK m \in DOMAIN asked[c] : \E j \in DOMAIN asked[c][m].steps : s = asked[c][m].steps[j]
    BY <1>1 DEF Vital
  <2>3. CASE asked[c] \in ReadPath(Instances)
    <3>1. asked[c][m] \in Stage(Instances)
      BY <2>3 DEF ReadPath
    <3>2. s \in SoundStep(Instances)
      BY <2>2, <3>1 DEF Stage
    <3> QED
      BY <2>1, <3>2 DEF SoundStep, ReadStep, InTx
  <2>4. CASE asked[c] \in WritePath(Instances)
    <3>1. PICK kind \in {"commit", "dryrun"}, i \in Instances : asked[c] = <<Then(Write(kind, i))>>
      BY <2>4 DEF WritePath
    <3>2. asked[c][m].steps = <<Write(kind, i)>>
      BY <3>1 DEF Then, All
    <3>3. s.kind = kind
      BY <2>2, <3>2 DEF Write, Trimmed, Step
    <3> QED
      BY <2>1, <3>1, <3>3 DEF InTx
  <2> QED
    BY <2>1, <2>3, <2>4 DEF Shape, Paths
<1>2. IInv => WriteReportIsTrue
  BY <1>1 DEF WriteReportIsTrue
<1> QED
  BY <1>2, IInvHolds, PTL

-------------------------------------------------------------------------------
(* Progress: the safety part of EveryCallSettles. *)

\* A step that is awaited can end, in one of the ways the code has for it.
CanEnd(c, k) ==
    LET s == Steps(c)[k]
    IN  \/ s.kind = "query"
        \/ s.kind \in {"worker", "resolve", "script"} /\ ~(env.http /\ s.kind = "worker")
        \/ s.optional
        \/ ~s.optional /\ tx[c] = "none"
        \/ Writing(c, k) /\ tx[c] \in {"none", "open", "ran"}

CallsGoOn ==
    \A c \in Calls : asked[c] # <<>> /\ ~Answered(c) => \E k \in flying[c] : CanEnd(c, k)

\* A call that is under way never waits for nothing: whatever failed, was given up or was rescued,
\* some step is awaited whose end runs the handler on, an open transaction's too.
THEOREM CallsNeverHang == Spec => []CallsGoOn
<1>1. ASSUME IInv, NEW c \in Calls, asked[c] # <<>>, ~Answered(c)
      PROVE  \E k \in flying[c] : CanEnd(c, k)
  <2>1. Shape(c) /\ InTx(c)
    BY <1>1 DEF IInv, CallInv
  <2>2. PICK k \in flying[c] : TRUE
    BY <1>1, <2>1 DEF Shape
  <2>3. CASE asked[c] \in WritePath(Instances)
    <3>1. PICK kind \in {"commit", "dryrun"}, i \in Instances :
             Writes(c, kind, i) /\ Steps(c)[k] = Write(kind, i)
      BY <2>1, <2>2, <2>3, Current, PathsApart
    <3>2. Steps(c)[k].kind = kind /\ ~Steps(c)[k].optional
      BY <3>1 DEF Write, Trimmed, Step
    <3>3. tx[c] \in {"none", "open", "ran"}
      BY <1>1, <2>1 DEF InTx
    <3> QED
      BY <2>2, <3>2, <3>3 DEF CanEnd, Writing
  <2>4. CASE asked[c] \in ReadPath(Instances)
    <3>1. tx[c] = "none"
      BY <2>1, <2>4, PathsApart DEF InTx
    <3> QED
      BY <2>2, <3>1 DEF CanEnd
  <2> QED
    BY <2>1, <2>3, <2>4 DEF Shape, Paths
<1>2. IInv => CallsGoOn
  BY <1>1 DEF CallsGoOn
<1> QED
  BY <1>2, IInvHolds, PTL

\* An answer is final, and so is what lasts of a write that was answered.
AnswerIsFinal ==
    [][\A c \in Calls : Answered(c) =>
          answer'[c] = answer[c] /\ tx'[c] = tx[c] /\ lasts'[c] = lasts[c]]_vars

\* A query that Promise.all() left in flight, or a late end of any step, changes no answer that was
\* given and no transaction that was reported.
THEOREM AnswersAreFinal == Spec => AnswerIsFinal
<1>1. ASSUME IInv, Next, NEW c \in Calls, Answered(c)
      PROVE  answer'[c] = answer[c] /\ tx'[c] = tx[c] /\ lasts'[c] = lasts[c]
  <2>1. Kept /\ Shape(c)
    BY <1>1 DEF IInv, CallInv
  <2>2. PICK d \in Calls : Ask(d) \/ Refuse(d) \/ StepEnds(d) \/ OrphanEnds(d)
    BY <1>1, Zenon DEF Next
  <2>3. CASE d # c
    <3>1. Touches(d)
      BY <2>1, <2>2, AskTouches, StepTouches, OrphanTouches
    <3> QED
      BY <2>1, <2>3, <3>1, TouchesOne DEF Same
  <2>4. CASE d = c
    <3>1. flying[c] = {}
      BY <1>1, <2>1 DEF Shape
    <3>2. OrphanEnds(c)
      BY <1>1, <2>2, <2>4, <3>1 DEF Ask, Refuse, StepEnds
    <3> QED
      BY <3>2, Zenon DEF OrphanEnds, histVars
  <2> QED
    BY <2>3, <2>4
<1>2. IInv /\ [Next]_vars
      => [\A c \in Calls : Answered(c) =>
              answer'[c] = answer[c] /\ tx'[c] = tx[c] /\ lasts'[c] = lasts[c]]_vars
  BY <1>1
<1> QED
  BY <1>2, IInvHolds, PTL DEF Spec, AnswerIsFinal

===============================================================================
