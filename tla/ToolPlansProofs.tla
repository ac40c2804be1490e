---------------------------- MODULE ToolPlansProofs ----------------------------
(***************************************************************************)
(* Lemmas about the plans of ToolPlans: what their steps, their stages and *)
(* their fallbacks have in common, whichever the tool.  The proofs about   *)
(* calls (ToolCallsProofs) use the plans through these lemmas only.        *)
(***************************************************************************)
EXTENDS ToolPlans, TLAPS

-------------------------------------------------------------------------------
(* What the plans have in common. *)

\* A step that changes nothing, at one of the instances I.
ReadStep(I) ==
    [kind : {"query", "worker", "resolve", "script"}, at : I, cap : Nat, limit : Nat, asked : Nat,
     user : BOOLEAN, noted : BOOLEAN, worded : BOOLEAN, optional : BOOLEAN,
     trims : SUBSET {"rows", "sets"}]

\* All the rows that were asked for with TOP are kept, or a cut is seen and reported: all but
\* the one query of msdb that bounds itself.
Reports(s) ==
    \/ s.kind # "query"
    \/ s.asked # 0 /\ s.asked <= s.cap /\ s.asked <= s.limit
    \/ s.cap < s.limit /\ (s.noted \/ s.worded)
    \/ s = Optional(JobStatusMsdb(s.at))

SoundStep(I) == {s \in ReadStep(I) : Reports(s)}

Stops == {"no", "early", "empty"}

\* A stage whose failure ends the call.
PlainStage(I) ==
    {st \in [steps : Seq(SoundStep(I)), stop : Stops, caught : {"never"}, rescue : {<<>>}] : st.steps # <<>>}

\* A stage whose failure may have a rescue.
Stage(I) ==
    {st \in [steps : Seq(SoundStep(I)), stop : Stops, caught : {"never", "sometimes", "always"},
             rescue : Seq(PlainStage(I))] :
        st.steps # <<>> /\ (st.caught # "never" => st.rescue # <<>>)}

StepsOf(stages) ==
    UNION {{stages[k].steps[j] : j \in DOMAIN stages[k].steps} : k \in DOMAIN stages}

\* Where one failure leads to the DMV path, any does, and to the same; elsewhere a rescue does
\* again what the path does.
OneFallback(stages) ==
    \A k \in DOMAIN stages :
        IF stages[k].caught = "always"
        THEN \A j \in DOMAIN stages :
                stages[j].caught = "always" /\ stages[j].rescue = stages[k].rescue
        ELSE StepsOf(stages[k].rescue) \subseteq StepsOf(stages)

ReadPath(I) == {stages \in Seq(Stage(I)) : OneFallback(stages)}

\* A write is all its tool does.
WritePath(I) == {<<Then(Write(kind, i))>> : kind \in {"commit", "dryrun"}, i \in I}

-------------------------------------------------------------------------------
(* Steps. *)

LEMMA OtherSteps ==
    ASSUME NEW I, NEW i \in I
    PROVE  /\ Worker(i) \in SoundStep(I) /\ Resolve(i) \in SoundStep(I) /\ Script(i) \in SoundStep(I)
           /\ Trimmed(Script(i), {"rows"}) \in SoundStep(I)
BY DEF SoundStep, ReadStep, Reports, Worker, Resolve, Script, Step, Trimmed

\* The fields of a query that the lemmas go by.
IsQuery(s, i, cap, limit, n, noted, worded) ==
    /\ s.kind = "query" /\ s.at = i /\ s.cap = cap /\ s.limit = limit /\ s.asked = n
    /\ s.noted = noted /\ s.worded = worded

LEMMA QueryFields ==
    ASSUME NEW I, NEW i \in I, NEW cap \in Nat
    PROVE  Query(i, cap) \in ReadStep(I) /\ IsQuery(Query(i, cap), i, cap, cap + 1, 0, TRUE, FALSE)
<1> DEFINE s == Step("query", i)
<1>1. s \in ReadStep(I) /\ IsQuery(s, i, 0, 0, 0, FALSE, FALSE)
  BY DEF Step, ReadStep, IsQuery
<1>2. ApplyRowLimit(cap, 0, FALSE) = cap + 1 /\ cap + 1 \in Nat
  BY DEF ApplyRowLimit
<1>3. Query(i, cap) = [s EXCEPT !.cap = cap, !.limit = cap + 1, !.noted = TRUE]
  BY <1>2, Zenon DEF Query
<1> HIDE DEF s
<1>4. /\ [s EXCEPT !.cap = cap, !.limit = cap + 1, !.noted = TRUE] \in ReadStep(I)
      /\ IsQuery([s EXCEPT !.cap = cap, !.limit = cap + 1, !.noted = TRUE], i, cap, cap + 1, 0, TRUE, FALSE)
  BY <1>1, <1>2 DEF ReadStep, IsQuery
<1> QED
  BY <1>3, <1>4

LEMMA OwnFields ==
    ASSUME NEW I, NEW s \in ReadStep(I), NEW cap, NEW limit, NEW n, NEW i,
           IsQuery(s, i, cap, limit, n, TRUE, FALSE)
    PROVE  Own(s) \in ReadStep(I) /\ IsQuery(Own(s), i, cap, limit, n, FALSE, TRUE)
BY DEF ReadStep, IsQuery, Own

LEMMA TrimmedFields ==
    ASSUME NEW I, NEW s \in ReadStep(I), NEW cap, NEW limit, NEW n, NEW i, NEW lost \in SUBSET {"rows", "sets"},
           IsQuery(s, i, cap, limit, n, TRUE, FALSE)
    PROVE  Trimmed(s, lost) \in ReadStep(I) /\ IsQuery(Trimmed(s, lost), i, cap, limit, n, TRUE, FALSE)
BY DEF ReadStep, IsQuery, Trimmed

LEMMA QueryStep ==
    ASSUME NEW I, NEW i \in I, NEW cap \in Nat
    PROVE  Query(i, cap) \in SoundStep(I) /\ Own(Query(i, cap)) \in SoundStep(I)
<1>1. cap + 1 \in Nat /\ cap < cap + 1
  OBVIOUS
<1>2. Query(i, cap) \in ReadStep(I) /\ IsQuery(Query(i, cap), i, cap, cap + 1, 0, TRUE, FALSE)
  BY QueryFields
<1>3. /\ Own(Query(i, cap)) \in ReadStep(I)
      /\ IsQuery(Own(Query(i, cap)), i, cap, cap + 1, 0, FALSE, TRUE)
  BY <1>2, OwnFields
<1> QED
  BY <1>1, <1>2, <1>3 DEF SoundStep, Reports, IsQuery

LEMMA RankedFields ==
    ASSUME NEW I, NEW i \in I, NEW n \in Nat \ {0}
    PROVE  Ranked(i, n) \in ReadStep(I) /\ IsQuery(Ranked(i, n), i, 200, n, n, TRUE, FALSE)
<1> DEFINE q == Query(i, 200)
<1>1. q \in ReadStep(I) /\ IsQuery(q, i, 200, 200 + 1, 0, TRUE, FALSE)
  BY QueryFields
<1>2. ApplyRowLimit(200, n, FALSE) = n
  BY DEF ApplyRowLimit
<1>3. Ranked(i, n) = [q EXCEPT !.limit = n, !.asked = n]
  BY <1>2, Zenon DEF Ranked
<1> HIDE DEF q
<1>4. /\ [q EXCEPT !.limit = n, !.asked = n] \in ReadStep(I)
      /\ IsQuery([q EXCEPT !.limit = n, !.asked = n], i, 200, n, n, TRUE, FALSE)
  BY <1>1 DEF ReadStep, IsQuery
<1> QED
  BY <1>3, <1>4

\* TOP (n), with a cap that is no smaller.
LEMMA RankedStep ==
    ASSUME NEW I, NEW i \in I, NEW n \in 1..200
    PROVE  Ranked(i, n) \in SoundStep(I) /\ Trimmed(Ranked(i, n), {"rows"}) \in SoundStep(I)
<1>1. n \in Nat \ {0} /\ n <= 200
  OBVIOUS
<1>2. Ranked(i, n) \in ReadStep(I) /\ IsQuery(Ranked(i, n), i, 200, n, n, TRUE, FALSE)
  BY <1>1, RankedFields
<1>3. /\ Trimmed(Ranked(i, n), {"rows"}) \in ReadStep(I)
      /\ IsQuery(Trimmed(Ranked(i, n), {"rows"}), i, 200, n, n, TRUE, FALSE)
  BY <1>2, TrimmedFields
<1> QED
  BY <1>1, <1>2, <1>3 DEF SoundStep, Reports, IsQuery

LEMMA HistoryStep ==
    ASSUME NEW I, NEW i \in I
    PROVE  [Ranked(i, 256) EXCEPT !.cap = 256] \in SoundStep(I)
<1> DEFINE r == Ranked(i, 256)
<1>1. 256 \in Nat \ {0}
  OBVIOUS
<1>2. r \in ReadStep(I) /\ IsQuery(r, i, 200, 256, 256, TRUE, FALSE)
  BY <1>1, RankedFields
<1> HIDE DEF r
<1>3. /\ [r EXCEPT !.cap = 256] \in ReadStep(I)
      /\ IsQuery([r EXCEPT !.cap = 256], i, 256, 256, 256, TRUE, FALSE)
  BY <1>1, <1>2 DEF ReadStep, IsQuery
<1> DEFINE s == [r EXCEPT !.cap = 256]
<1>4. s \in ReadStep(I) /\ IsQuery(s, i, 256, 256, 256, TRUE, FALSE)
  BY <1>3
<1> HIDE DEF s
<1>5. s \in SoundStep(I)
  BY <1>4 DEF SoundStep, Reports, IsQuery
<1> QED
  BY <1>5 DEF r, s

\* TOP (top) beyond the cap.
LEMMA BoundedFields ==
    ASSUME NEW I, NEW i \in I, NEW cap \in Nat, NEW top \in Nat \ {0}
    PROVE  /\ Bounded(i, top, cap) \in ReadStep(I)
           /\ IsQuery(Bounded(i, top, cap), i, cap, top, 0, TRUE, FALSE)
<1> DEFINE q == Query(i, cap)
<1>1. q \in ReadStep(I) /\ IsQuery(q, i, cap, cap + 1, 0, TRUE, FALSE)
  BY QueryFields
<1>2. Bounded(i, top, cap) = [q EXCEPT !.limit = top]
  BY DEF Bounded, ApplyRowLimit
<1> HIDE DEF q
<1>3. /\ [q EXCEPT !.limit = top] \in ReadStep(I)
      /\ IsQuery([q EXCEPT !.limit = top], i, cap, top, 0, TRUE, FALSE)
  BY <1>1 DEF ReadStep, IsQuery
<1> QED
  BY <1>2, <1>3

LEMMA BoundedStep ==
    ASSUME NEW I, NEW i \in I, NEW cap \in Nat, NEW top \in Nat \ {0}, cap < top
    PROVE  Bounded(i, top, cap) \in SoundStep(I) /\ Own(Bounded(i, top, cap)) \in SoundStep(I)
<1>1. /\ Bounded(i, top, cap) \in ReadStep(I)
      /\ IsQuery(Bounded(i, top, cap), i, cap, top, 0, TRUE, FALSE)
  BY BoundedFields
<1>2. /\ Own(Bounded(i, top, cap)) \in ReadStep(I)
      /\ IsQuery(Own(Bounded(i, top, cap)), i, cap, top, 0, FALSE, TRUE)
  BY <1>1, OwnFields
<1> QED
  BY <1>1, <1>2 DEF SoundStep, Reports, IsQuery

LEMMA UserStep ==
    ASSUME NEW I, NEW i \in I, NEW cap \in Nat
    PROVE  Own(UserSql(i, cap)) \in SoundStep(I)
<1> DEFINE q == Query(i, cap)
<1>1. q \in ReadStep(I) /\ IsQuery(q, i, cap, cap + 1, 0, TRUE, FALSE)
  BY QueryFields
<1>2. UserSql(i, cap) = [q EXCEPT !.limit = cap + 1, !.user = TRUE]
  BY DEF UserSql, ApplyRowLimit
<1> HIDE DEF q
<1>3. /\ [q EXCEPT !.limit = cap + 1, !.user = TRUE] \in ReadStep(I)
      /\ IsQuery([q EXCEPT !.limit = cap + 1, !.user = TRUE], i, cap, cap + 1, 0, TRUE, FALSE)
  BY <1>1 DEF ReadStep, IsQuery
<1> HIDE DEF q
<1>4. Own(UserSql(i, cap)) \in ReadStep(I) /\ IsQuery(Own(UserSql(i, cap)), i, cap, cap + 1, 0, FALSE, TRUE)
  BY <1>2, <1>3, OwnFields
<1> QED
  BY <1>4 DEF SoundStep, Reports, IsQuery

LEMMA OptionalStep ==
    ASSUME NEW I, NEW s \in SoundStep(I)
    PROVE  Optional(s) \in SoundStep(I)
<1>1. Optional(s) \in ReadStep(I)
  BY DEF SoundStep, ReadStep, Optional
<1>2. CASE s = Optional(JobStatusMsdb(s.at))
  <2>1. Optional(s) = s
    <3> DEFINE q == JobStatusMsdb(s.at)
    <3>1. s = [q EXCEPT !.optional = TRUE]
      BY <1>2 DEF Optional
    <3> HIDE DEF q
    <3>2. [s EXCEPT !.optional = TRUE] = s
      BY <3>1 DEF SoundStep, ReadStep
    <3> QED
      BY <3>2 DEF Optional
  <2> QED
    BY <2>1
<1>3. CASE s # Optional(JobStatusMsdb(s.at))
  BY <1>1, <1>3 DEF SoundStep, ReadStep, Reports, Optional
<1> QED
  BY <1>2, <1>3

LEMMA MutedFields ==
    ASSUME NEW I, NEW s \in ReadStep(I)
    PROVE  Optional(Muted(s)) \in ReadStep(I) /\ Optional(Muted(s)).at = s.at
<1>1. Muted(s) \in ReadStep(I) /\ Muted(s).at = s.at
  BY DEF ReadStep, Muted
<1>2. ASSUME NEW m \in ReadStep(I)
      PROVE  Optional(m) \in ReadStep(I) /\ Optional(m).at = m.at
  BY DEF ReadStep, Optional
<1> QED
  BY <1>1, <1>2

LEMMA MsdbStep ==
    ASSUME NEW I, NEW i \in I
    PROVE  Optional(JobStatusMsdb(i)) \in SoundStep(I)
<1> DEFINE s == Optional(JobStatusMsdb(i))
<1>1. Bounded(i, 500, 500) \in ReadStep(I) /\ Bounded(i, 500, 500).at = i
  <2>1. ASSUME NEW n \in Nat \ {0}
        PROVE  Bounded(i, n, n) \in ReadStep(I) /\ Bounded(i, n, n).at = i
    <3>1. Bounded(i, n, n) \in ReadStep(I) /\ IsQuery(Bounded(i, n, n), i, n, n, 0, TRUE, FALSE)
      BY BoundedFields
    <3> QED
      BY <3>1 DEF IsQuery
  <2> QED
    BY <2>1
<1>2. s \in ReadStep(I) /\ s.at = i
  BY <1>1, MutedFields DEF JobStatusMsdb
<1>3. s = Optional(JobStatusMsdb(s.at))
  BY <1>2
<1> HIDE DEF s
<1>4. s \in SoundStep(I)
  BY <1>2, <1>3 DEF SoundStep, Reports
<1> QED
  BY <1>4 DEF s

-------------------------------------------------------------------------------
(* Stages and paths. *)

LEMMA AllStage ==
    ASSUME NEW I, NEW steps \in Seq(SoundStep(I)), steps # <<>>
    PROVE  All(steps) \in PlainStage(I)
BY DEF PlainStage, All, Stops

LEMMA ThenStage ==
    ASSUME NEW I, NEW s \in SoundStep(I)
    PROVE  Then(s) \in PlainStage(I)
<1>1. <<s>> \in Seq(SoundStep(I)) /\ <<s>> # <<>>
  OBVIOUS
<1> QED
  BY <1>1, AllStage DEF Then

LEMMA StopStage ==
    ASSUME NEW I, NEW st \in PlainStage(I)
    PROVE  OrEarly(st) \in PlainStage(I) /\ OrEmpty(st) \in PlainStage(I)
BY DEF PlainStage, OrEarly, OrEmpty, Stops

LEMMA PlainIsStage ==
    ASSUME NEW I
    PROVE  PlainStage(I) \subseteq Stage(I)
<1> SUFFICES ASSUME NEW st \in PlainStage(I)
             PROVE  st \in Stage(I)
  OBVIOUS
<1>1. <<>> \in Seq(PlainStage(I))
  OBVIOUS
<1>2. /\ st \in [steps : Seq(SoundStep(I)), stop : Stops, caught : {"never"}, rescue : {<<>>}]
      /\ st.steps # <<>>
  BY DEF PlainStage
<1> QED
  BY <1>1, <1>2 DEF Stage

\* Without a rescue there is nothing to ask of a path.
LEMMA PlainPath ==
    ASSUME NEW I, NEW stages \in Seq(PlainStage(I))
    PROVE  stages \in ReadPath(I)
<1>1. stages \in Seq(Stage(I))
  BY PlainIsStage
<1>2. \A k \in DOMAIN stages : stages[k] \in PlainStage(I)
  OBVIOUS
<1>3. \A k \in DOMAIN stages : stages[k].caught # "always" /\ StepsOf(stages[k].rescue) = {}
  BY <1>2 DEF PlainStage, StepsOf
<1> QED
  BY <1>1, <1>3 DEF ReadPath, OneFallback

\* The start of a rescue.
LEMMA ElseStage ==
    ASSUME NEW I, NEW st \in PlainStage(I), NEW caught \in {"sometimes", "always"},
           NEW rescue \in Seq(PlainStage(I)), rescue # <<>>
    PROVE  /\ Else(st, caught, rescue) \in Stage(I)
           /\ Else(st, caught, rescue).caught = caught /\ Else(st, caught, rescue).rescue = rescue
           /\ Else(st, caught, rescue).steps = st.steps
BY DEF PlainStage, Stage, Else

\* withFallback() makes a path whose every failure leads to the DMV path.
LEMMA FallbackPath ==
    ASSUME NEW I, NEW env, NEW dbatools \in Seq(PlainStage(I)),
           NEW dmv \in Seq(PlainStage(I)), dmv # <<>>
    PROVE  WithFallback(env, dbatools, dmv) \in ReadPath(I)
<1> DEFINE path == [k \in DOMAIN dbatools |-> Else(dbatools[k], "always", dmv)]
<1>1. \A k \in DOMAIN dbatools :
         /\ Else(dbatools[k], "always", dmv) \in Stage(I)
         /\ Else(dbatools[k], "always", dmv).caught = "always"
         /\ Else(dbatools[k], "always", dmv).rescue = dmv
  BY ElseStage
<1>2. path \in Seq(Stage(I)) /\ DOMAIN path = DOMAIN dbatools
  BY <1>1
<1>3. \A k \in DOMAIN path : path[k].caught = "always" /\ path[k].rescue = dmv
  BY <1>1
<1> HIDE DEF path
<1>4. path \in ReadPath(I)
  BY <1>2, <1>3 DEF ReadPath, OneFallback
<1> QED
  BY <1>4, PlainPath DEF WithFallback, path

-------------------------------------------------------------------------------
(* The tools. *)

Reads(I, p) == p.stages \in ReadPath(I)

LEMMA NoStages ==
    ASSUME NEW I
    PROVE  Reads(I, Plan(<<>>)) /\ Reads(I, Guarded(<<>>))
<1>1. <<>> \in Seq(PlainStage(I))
  OBVIOUS
<1>2. <<>> \in ReadPath(I)
  BY <1>1, PlainPath
<1> QED
  BY <1>2 DEF Reads, Plan, Guarded

LEMMA OneStage ==
    ASSUME NEW I, NEW a \in PlainStage(I)
    PROVE  Reads(I, Plan(<<a>>)) /\ Reads(I, Guarded(<<a>>))
<1>1. <<a>> \in Seq(PlainStage(I))
  OBVIOUS
<1>2. <<a>> \in ReadPath(I)
  BY <1>1, PlainPath
<1> QED
  BY <1>2 DEF Reads, Plan, Guarded

LEMMA TwoStages ==
    ASSUME NEW I, NEW a \in PlainStage(I), NEW b \in PlainStage(I)
    PROVE  Reads(I, Plan(<<a, b>>)) /\ Reads(I, Guarded(<<a, b>>))
<1>1. <<a, b>> \in Seq(PlainStage(I))
  OBVIOUS
<1>2. <<a, b>> \in ReadPath(I)
  BY <1>1, PlainPath
<1> QED
  BY <1>2 DEF Reads, Plan, Guarded

LEMMA ThreeStages ==
    ASSUME NEW I, NEW a \in PlainStage(I), NEW b \in PlainStage(I), NEW c \in PlainStage(I)
    PROVE  Reads(I, Plan(<<a, b, c>>)) /\ Reads(I, Guarded(<<a, b, c>>))
<1>1. <<a, b, c>> \in Seq(PlainStage(I))
  OBVIOUS
<1>2. <<a, b, c>> \in ReadPath(I)
  BY <1>1, PlainPath
<1> QED
  BY <1>2 DEF Reads, Plan, Guarded

LEMMA StepAtOnce ==
    ASSUME NEW I, NEW r \in SoundStep(I), NEW s \in SoundStep(I)
    PROVE  All(<<r, s>>) \in PlainStage(I)
<1>1. <<r, s>> \in Seq(SoundStep(I)) /\ <<r, s>> # <<>>
  OBVIOUS
<1> QED
  BY <1>1, AllStage

LEMMA OneQueryTools ==
    ASSUME NEW I, NEW i \in I
    PROVE  /\ Reads(I, list_databases(i)) /\ Reads(I, get_blocking_chains(i))
           /\ Reads(I, get_file_io_stats(i)) /\ Reads(I, get_long_running_transactions(i))
           /\ Reads(I, get_distributed_ag_health(i)) /\ Reads(I, get_index_fragmentation(i))
           /\ Reads(I, get_perfmon_counters(i)) /\ Reads(I, list_tables(i))
           /\ Reads(I, get_memory_dumps(i)) /\ Reads(I, execute_query(i))
<1>1. Then(Query(i, 200)) \in PlainStage(I)
  BY QueryStep, ThenStage
<1>2. Then(Own(Query(i, 1000))) \in PlainStage(I) /\ Then(Own(Query(i, 500))) \in PlainStage(I)
  BY QueryStep, ThenStage
<1>3. Then(Own(UserSql(i, 500))) \in PlainStage(I)
  BY UserStep, ThenStage
<1> QED
  BY <1>1, <1>2, <1>3, OneStage
     DEF list_databases, get_blocking_chains, get_file_io_stats, get_long_running_transactions,
         get_distributed_ag_health, get_index_fragmentation, get_perfmon_counters, list_tables,
         get_memory_dumps, execute_query

LEMMA RankingTools ==
    ASSUME NEW I, NEW i \in I
    PROVE  /\ Reads(I, get_top_queries(i)) /\ Reads(I, get_missing_indexes(i))
           /\ Reads(I, get_query_store_regressions(i)) /\ Reads(I, get_deadlock_history(i))
           /\ Reads(I, get_log_paths(i)) /\ Reads(I, get_buffer_pool_by_object(i))
           /\ Reads(I, get_cpu_history(i))
           /\ \A p \in get_plan_cache_pollution(i) : Reads(I, p)
<1>1. \A n \in 1..200 : Then(Ranked(i, n)) \in PlainStage(I)
  BY RankedStep, ThenStage
<1>2. /\ Then(Ranked(i, 1)) \in PlainStage(I) /\ Then(Ranked(i, 20)) \in PlainStage(I)
      /\ Then(Ranked(i, 30)) \in PlainStage(I) /\ Then(Ranked(i, 50)) \in PlainStage(I)
  BY <1>1
<1>3. Then([Ranked(i, 256) EXCEPT !.cap = 256]) \in PlainStage(I)
  BY HistoryStep, ThenStage
<1> QED
  BY <1>2, <1>3, OneStage, TwoStages
     DEF get_top_queries, get_missing_indexes, get_query_store_regressions, get_deadlock_history,
         get_log_paths, get_buffer_pool_by_object, get_cpu_history, get_plan_cache_pollution

LEMMA BoundedTools ==
    ASSUME NEW I, NEW i \in I
    PROVE  /\ Reads(I, get_hiq(i)) /\ Reads(I, get_index_usage_stats(i))
           /\ Reads(I, get_columnstore_health(i))
<1>1. ASSUME NEW cap \in Nat, NEW top \in Nat \ {0}, cap < top
      PROVE  Then(Bounded(i, top, cap)) \in PlainStage(I) /\ Then(Own(Bounded(i, top, cap))) \in PlainStage(I)
  BY <1>1, BoundedStep, ThenStage
<1>2. /\ Then(Bounded(i, 201, 200)) \in PlainStage(I) /\ Then(Own(Bounded(i, 201, 200))) \in PlainStage(I)
      /\ Then(Own(Bounded(i, 1001, 1000))) \in PlainStage(I)
  BY <1>1
<1> QED
  BY <1>2, OneStage DEF get_hiq, get_index_usage_stats, get_columnstore_health

LEMMA WorkerTools ==
    ASSUME NEW I, NEW i \in I
    PROVE  /\ Reads(I, get_current_primary(i)) /\ Reads(I, get_tempdb_usage(i))
           /\ Reads(I, get_database_info(i)) /\ Reads(I, get_database_files(i))
           /\ Reads(I, get_ag_health(i)) /\ Reads(I, get_machine_spec(i))
           /\ Reads(I, get_backup_status(i)) /\ Reads(I, get_vlf_count(i))
           /\ Reads(I, get_job_status(i))
<1>1. Worker(i) \in SoundStep(I) /\ Resolve(i) \in SoundStep(I) /\ Optional(Worker(i)) \in SoundStep(I)
  BY OtherSteps, OptionalStep
<1>2. /\ Then(Worker(i)) \in PlainStage(I) /\ Then(Resolve(i)) \in PlainStage(I)
      /\ Then(Optional(Worker(i))) \in PlainStage(I)
  BY <1>1, ThenStage
<1>3. All(<<Worker(i), Worker(i)>>) \in PlainStage(I)
  BY <1>1, StepAtOnce
<1>4. OrEarly(All(<<Worker(i), Worker(i)>>)) \in PlainStage(I) /\ OrEarly(Then(Worker(i))) \in PlainStage(I)
  BY <1>2, <1>3, StopStage
<1>5. Then(Query(i, 200)) \in PlainStage(I)
  BY QueryStep, ThenStage
<1>6. Then(Optional(JobStatusMsdb(i))) \in PlainStage(I)
  BY MsdbStep, ThenStage
<1> QED
  BY <1>2, <1>3, <1>4, <1>5, <1>6, TwoStages, ThreeStages
     DEF get_current_primary, get_tempdb_usage, get_database_info, get_database_files, get_ag_health,
         get_machine_spec, get_backup_status, get_vlf_count, get_job_status

LEMMA ScriptTools ==
    ASSUME NEW I, NEW i \in I
    PROVE  /\ Reads(I, check_dbatools_environment(i)) /\ Reads(I, list_dbatools_commands(i))
           /\ Reads(I, get_dbatools_command_help(i)) /\ Reads(I, run_dbatools_command(i))
           /\ Reads(I, run_diagnostic_query(i)) /\ Reads(I, read_error_log(i))
           /\ Reads(I, read_cluster_reports(i)) /\ Reads(I, get_host_dll_versions(i))
<1>1. Then(Script(i)) \in PlainStage(I) /\ Then(Trimmed(Script(i), {"rows"})) \in PlainStage(I)
  BY OtherSteps, ThenStage
<1>2. Reads(I, Limited(i))
  BY <1>1, OneStage DEF Limited
<1> QED
  BY <1>1, <1>2, OneStage
     DEF check_dbatools_environment, list_dbatools_commands, get_dbatools_command_help,
         run_dbatools_command, run_diagnostic_query, read_error_log, read_cluster_reports,
         get_host_dll_versions

LEMMA SeveralQueriesTools ==
    ASSUME NEW I, NEW i \in I
    PROVE  Reads(I, describe_object(i)) /\ Reads(I, get_memory_usage(i)) /\ Reads(I, get_server_info(i))
<1>1. /\ Query(i, 1) \in SoundStep(I) /\ Query(i, 200) \in SoundStep(I) /\ Query(i, 1000) \in SoundStep(I)
  BY QueryStep
<1>2. Reads(I, describe_object(i))
  <2>1. OrEmpty(Then(Query(i, 1000))) \in PlainStage(I)
    BY <1>1, ThenStage, StopStage
  <2>2. Then(Optional(Query(i, 200))) \in PlainStage(I) /\ Then(Optional(Query(i, 1))) \in PlainStage(I)
    BY <1>1, OptionalStep, ThenStage
  <2> QED
    BY <2>1, <2>2, ThreeStages DEF describe_object
<1>3. Reads(I, get_memory_usage(i))
  <2>1. 30 \in 1..200
    OBVIOUS
  <2>2. Ranked(i, 30) \in SoundStep(I)
    BY <2>1, RankedStep
  <2>3. <<Query(i, 200), Ranked(i, 30), Query(i, 200)>> \in Seq(SoundStep(I))
    BY <1>1, <2>2
  <2>4. All(<<Query(i, 200), Ranked(i, 30), Query(i, 200)>>) \in PlainStage(I)
    BY <2>3, AllStage
  <2> QED
    BY <2>4, OneStage DEF get_memory_usage
<1>4. Reads(I, get_server_info(i))
  <2>1. Worker(i) \in SoundStep(I) /\ Resolve(i) \in SoundStep(I)
    BY OtherSteps
  <2>2. <<Worker(i), Worker(i), Query(i, 200), Query(i, 200)>> \in Seq(SoundStep(I))
    BY <1>1, <2>1
  <2>3. All(<<Worker(i), Worker(i), Query(i, 200), Query(i, 200)>>) \in PlainStage(I)
    BY <2>2, AllStage
  <2> QED
    BY <2>1, <2>3, ThenStage, TwoStages DEF get_server_info
<1> QED
  BY <1>2, <1>3, <1>4

LEMMA FanOutTool ==
    ASSUME NEW I, NEW targets \in Seq(I), targets # <<>>
    PROVE  Reads(I, fan_out_query(targets))
<1> DEFINE steps == [k \in DOMAIN targets |-> Optional(Own(UserSql(targets[k], 200)))]
<1>1. \A k \in DOMAIN targets : Optional(Own(UserSql(targets[k], 200))) \in SoundStep(I)
  BY UserStep, OptionalStep
<1>2. steps \in Seq(SoundStep(I)) /\ steps # <<>>
  BY <1>1
<1> HIDE DEF steps
<1>3. All(steps) \in PlainStage(I)
  BY <1>2, AllStage
<1> QED
  BY <1>3, OneStage DEF fan_out_query, steps

\* dbatools first, or the DMV path alone.
LEMMA FallbackTools ==
    ASSUME NEW I, NEW env, NEW i \in I
    PROVE  /\ Reads(I, get_active_sessions(env, i)) /\ Reads(I, get_wait_stats(env, i))
           /\ Reads(I, get_latch_stats(env, i)) /\ Reads(I, get_statistics_health(env, i))
<1> DEFINE first == <<Then(Resolve(i)), Then(Worker(i))>>
           statistics == <<Then(Resolve(i)), OrEarly(Then(Query(i, 1000000))),
                           OrEarly(Then(Worker(i))), Then(Worker(i))>>
<1>1. Then(Resolve(i)) \in PlainStage(I) /\ Then(Worker(i)) \in PlainStage(I)
  BY OtherSteps, ThenStage
<1>2. first \in Seq(PlainStage(I))
  BY <1>1
<1>3. statistics \in Seq(PlainStage(I))
  <2>1. OrEarly(Then(Query(i, 1000000))) \in PlainStage(I) /\ OrEarly(Then(Worker(i))) \in PlainStage(I)
    BY <1>1, QueryStep, ThenStage, StopStage
  <2> QED
    BY <1>1, <2>1
<1> HIDE DEF first, statistics
<1>4. /\ Then(Own(Query(i, 200))) \in PlainStage(I) /\ Then(Query(i, 200)) \in PlainStage(I)
      /\ Then(Ranked(i, 30)) \in PlainStage(I)
  <2>1. 30 \in 1..200
    OBVIOUS
  <2> QED
    BY <2>1, QueryStep, RankedStep, ThenStage
<1>5. ASSUME NEW st \in PlainStage(I), NEW dbatools \in Seq(PlainStage(I))
      PROVE  /\ Reads(I, Plan(WithFallback(env, dbatools, <<st>>)))
             /\ Reads(I, Guarded(WithFallback(env, dbatools, <<st>>)))
  <2>1. <<st>> \in Seq(PlainStage(I)) /\ <<st>> # <<>>
    OBVIOUS
  <2>2. WithFallback(env, dbatools, <<st>>) \in ReadPath(I)
    BY <2>1, FallbackPath
  <2> QED
    BY <2>2 DEF Reads, Plan, Guarded
<1>6. /\ get_active_sessions(env, i) = Plan(WithFallback(env, first, <<Then(Own(Query(i, 200)))>>))
      /\ get_wait_stats(env, i) = Plan(WithFallback(env, first, <<Then(Query(i, 200))>>))
      /\ get_latch_stats(env, i) = Plan(WithFallback(env, first, <<Then(Ranked(i, 30))>>))
      /\ get_statistics_health(env, i) = Guarded(WithFallback(env, statistics, <<Then(Query(i, 200))>>))
  BY DEF get_active_sessions, activeSessionsViaDbatools, activeSessionsViaDmv, get_wait_stats,
         waitStatsViaDbatools, waitStatsViaDmv, get_latch_stats, latchStatsViaDbatools,
         latchStatsViaDmv, get_statistics_health, statisticsHealthViaDbatools,
         statisticsHealthViaDmv, first, statistics
<1> QED
  BY <1>2, <1>3, <1>4, <1>5, <1>6

\* The Unicode read does again what the DBCS one does: one row of the same instance.
LEMMA DumpTool ==
    ASSUME NEW I, NEW i \in I
    PROVE  \A p \in read_sql_dump(i) : Reads(I, p)
<1> DEFINE one == Then(Ranked(i, 1))
           file == Then(dumpFile(i))
           again == <<OrEmpty(file)>>
           read == OrEmpty(Else(file, "sometimes", again))
<1>1. one \in PlainStage(I) /\ file \in PlainStage(I) /\ file.steps = <<dumpFile(i)>>
  <2>1. 1 \in 1..200
    OBVIOUS
  <2> QED
    BY <2>1, RankedStep, ThenStage DEF dumpFile, Then, All
<1>2. OrEmpty(one) \in PlainStage(I) /\ OrEmpty(file) \in PlainStage(I) /\ OrEmpty(file).steps = file.steps
  BY <1>1 DEF PlainStage, OrEmpty, Stops
<1>3. OrEarly(Then(Query(i, 5000))) \in PlainStage(I)
  BY QueryStep, ThenStage, StopStage
<1> HIDE DEF one, file
<1>4. again \in Seq(PlainStage(I)) /\ again # <<>>
  BY <1>2
<1>5. StepsOf(again) = {dumpFile(i)}
  BY <1>1, <1>2 DEF StepsOf
<1> HIDE DEF again
<1>6. read \in Stage(I) /\ read.caught = "sometimes" /\ read.rescue = again /\ read.steps = <<dumpFile(i)>>
  <2> DEFINE r == Else(file, "sometimes", again)
  <2>1. r \in Stage(I) /\ r.caught = "sometimes" /\ r.rescue = again /\ r.steps = <<dumpFile(i)>>
    BY <1>1, <1>4, ElseStage
  <2> HIDE DEF r
  <2>2. /\ OrEmpty(r) \in Stage(I) /\ OrEmpty(r).caught = "sometimes"
        /\ OrEmpty(r).rescue = again /\ OrEmpty(r).steps = <<dumpFile(i)>>
    BY <2>1 DEF Stage, OrEmpty, Stops
  <2> QED
    BY <2>2 DEF r
<1> HIDE DEF read
<1>7. ASSUME NEW dir \in Seq(PlainStage(I))
      PROVE  dir \o <<read>> \in ReadPath(I)
  <2> DEFINE path == dir \o <<read>>
  <2>1. path \in Seq(Stage(I)) /\ \A k \in DOMAIN path : path[k] = read \/ path[k] \in PlainStage(I)
    BY <1>6, PlainIsStage
  <2>2. Len(dir) + 1 \in DOMAIN path /\ path[Len(dir) + 1] = read
    OBVIOUS
  <2> HIDE DEF path
  <2>3. StepsOf(again) \subseteq StepsOf(path)
    <3>1. 1 \in DOMAIN read.steps /\ read.steps[1] = dumpFile(i)
      BY <1>6
    <3>2. dumpFile(i) \in StepsOf(path)
      BY <2>2, <3>1 DEF StepsOf
    <3> QED
      BY <1>5, <3>2
  <2>4. ASSUME NEW k \in DOMAIN path
        PROVE  path[k].caught # "always" /\ StepsOf(path[k].rescue) \subseteq StepsOf(path)
    <3>1. CASE path[k] = read
      BY <1>6, <2>3, <3>1
    <3>2. CASE path[k] \in PlainStage(I)
      BY <3>2 DEF PlainStage, StepsOf
    <3> QED
      BY <2>1, <3>1, <3>2
  <2>5. path \in ReadPath(I)
    BY <2>1, <2>4 DEF ReadPath, OneFallback
  <2> QED
    BY <2>5 DEF path
<1>8. <<one>> \in Seq(PlainStage(I)) /\ <<one, OrEmpty(one)>> \in Seq(PlainStage(I))
  BY <1>1, <1>2
<1>9. ASSUME NEW dir \in {<<one>>, <<one, OrEmpty(one)>>}
      PROVE  Reads(I, Guarded(dir \o <<read>>))
  <2>1. dir \o <<read>> \in ReadPath(I)
    BY <1>7, <1>8
  <2> DEFINE path == dir \o <<read>>
  <2> HIDE DEF path
  <2>2. path \in ReadPath(I)
    BY <2>1 DEF path
  <2>3. Reads(I, Guarded(path))
    BY <2>2 DEF Reads, Guarded
  <2> QED
    BY <2>3 DEF path
<1>10. Reads(I, Guarded(<<OrEarly(Then(Query(i, 5000))), one>>))
  BY <1>1, <1>3, TwoStages
<1>11. read_sql_dump(i) = {Guarded(<<OrEarly(Then(Query(i, 5000))), one>>)}
                          \cup {Guarded(dir \o <<read>>) : dir \in {<<one>>, <<one, OrEmpty(one)>>}}
  BY Zenon DEF read_sql_dump, one, file, again, read
<1> QED
  BY <1>9, <1>10, <1>11

LEMMA WriteTool ==
    ASSUME NEW I, NEW i \in I, NEW confirm \in BOOLEAN
    PROVE  execute_write(i, confirm).stages \in WritePath(I)
BY DEF execute_write, Guarded, WritePath

-------------------------------------------------------------------------------
(* What the cap does to a query. *)

\* A result that lost rows is noted or reported, and no other is.
LEMMA OutcomeIsTold ==
    ASSUME NEW I, NEW s \in SoundStep(I), s.kind = "query", NEW o \in Outcomes(s)
    PROVE  /\ o.note \/ o.word => o.short
           /\ o.short => o.note \/ o.word \/ s = Optional(JobStatusMsdb(s.at))
<1>1. s.cap \in Nat /\ s.limit \in Nat /\ s.asked \in Nat /\ s.noted \in BOOLEAN /\ s.worded \in BOOLEAN
  BY DEF SoundStep, ReadStep
<1>2. PICK n \in RowCounts(s), many \in {FALSE, s.user} : o = Outcome(s, n, many)
  BY DEF Outcomes
<1>3. n \in Nat /\ (s.asked # 0 => n <= s.asked)
  BY <1>1 DEF RowCounts
<1> DEFINE sent == IF n > s.limit THEN s.limit ELSE n
           kept == IF sent > s.cap THEN s.cap ELSE sent
<1>4. /\ o.short = (kept < n)
      /\ o.note = (sent > s.cap /\ s.noted) /\ o.word = (sent > s.cap /\ s.worded)
  BY <1>2 DEF Outcome, CapRows
<1>5. sent > s.cap => kept < n
  BY <1>1, <1>3
<1>6. CASE s.asked # 0 /\ s.asked <= s.cap /\ s.asked <= s.limit
  BY <1>1, <1>3, <1>4, <1>5, <1>6
<1>7. CASE s.cap < s.limit /\ (s.noted \/ s.worded)
  <2>1. kept < n => sent > s.cap
    BY <1>1, <1>3, <1>7
  <2> QED
    BY <1>4, <1>5, <1>7, <2>1
<1>8. CASE s = Optional(JobStatusMsdb(s.at))
  BY <1>4, <1>5, <1>8
<1> QED
  BY <1>6, <1>7, <1>8 DEF SoundStep, Reports

===============================================================================
