------------------------------ MODULE HealthCheck ------------------------------
(***************************************************************************)
(* The fleet health check of services/dba-mcp/src/dbatools.ts: the sweep   *)
(* of run_health_check over the nodes, the script buildHealthCheckScript() *)
(* generates for a node, with its worker runspace, its cap on each check   *)
(* and its retry, and what is made of the results: findings, scores,       *)
(* coverage, the comparison of the Agent jobs of AG partners, and the      *)
(* subject of the mail runReportCli() of reportCli.ts sends.               *)
(* runHealthReport(), which it calls, is the sweep with one slot.          *)
(*                                                                         *)
(* A connection of a script is "own", or "shared" while a check that was   *)
(* abandoned on it may still be using it.  Rows are abstracted to the      *)
(* status the evaluator gives them; of the inventory of Agent jobs, each   *)
(* job is "live" (enabled and scheduled) with one of two versions of its   *)
(* steps, "off", or missing.                                               *)
(***************************************************************************)
EXTENDS Integers, Sequences, FiniteSets, Functions

CONSTANTS Nodes,        \* 1..n, the indices of the targets
          Slots,        \* concurrency
          Catalog,      \* the checks, a sequence of [kind, category, priority]
          Host,         \* host checks: "cred", with a Windows login, "local", on the node, or "none"
          UseSql,       \* the script logs in with a SQL login
          PerCheckCap,  \* HEALTHCHECK_PER_CHECK_TIMEOUT_SECONDS is not 0
          Grades,       \* the statuses an evaluator may give
          Partners,     \* Partners[n]: the AG partners of n among the targets
          Inventories,  \* Inventories[n]: what the inventory of n may be, each [jobs, complete]
          Running,      \* the states the job of an inventory may be in that count as live
          NoInventory, NoReport

Kinds == {"os", "sa", "blitz", "graded", "offenders", "plain", "inventory"}
Checks == DOMAIN Catalog
Statuses == {"pass", "attention", "fail", "ok", "empty", "error", "skipped"}

ASSUME NodesAssumption ==
    IsFiniteSet(Nodes) /\ Nodes = 1..Cardinality(Nodes) /\ Slots \in Nat \ {0}
ASSUME CatalogAssumption ==
    /\ Catalog \in Seq([kind : Kinds, category : STRING, priority : {"High", "Medium", "Low"}])
    /\ \A k, l \in Checks : Catalog[k].kind = "inventory" /\ Catalog[l].kind = "inventory" => k = l
    /\ Grades \subseteq Statuses \ {"error", "skipped", "empty"}
ASSUME PartnersAssumption ==
    /\ Partners \in [Nodes -> SUBSET Nodes]
    /\ \A m, n \in Nodes : m \in Partners[n] => n \in Partners[m] /\ m # n
    /\ DOMAIN Inventories = Nodes /\ \A n \in Nodes : NoInventory \notin Inventories[n]
    /\ \A m, n \in Nodes : \A i \in Inventories[m], j \in Inventories[n] : DOMAIN i.jobs = DOMAIN j.jobs

VARIABLES
    \* run_health_check
    next,       \* the next index to take
    slot,       \* slot[s]: the index the slot is at, or 0
    drifted,    \* applyReplicaJobDrift() has run
    out,        \* out[n], ordered[n]: none, report or error
    reports,    \* reports[n]: orderedReports[n] and orderedChecks[n]
    \* the script of each node
    pc,         \* pc[n]: waiting, connecting, checking or over
    at,         \* at[n]: the check it is at
    try,        \* try[n]: the attempt it is on
    results,    \* results[n]: $results
    conn,       \* conn[n]: the connection in $server: none, own or shared
    worker,     \* worker[n]: the one its worker runspace holds; none: no worker
    lostTouch   \* lostTouch[n]: a shared connection is kept because reconnecting failed

sweepVars == <<next, slot, drifted, out, reports>>
scriptVars == <<pc, at, try, results, conn, worker, lostTouch>>
vars == <<sweepVars, scriptVars>>

-------------------------------------------------------------------------------
(* Findings, scores and coverage. *)

\* Mutant: a check that could not look counts as passed.
StatusMapErrorPasses(status) ==
    CASE status \in {"pass", "error"} -> "Pass"
      [] status = "attention" -> "Attention"
      [] status = "fail" -> "Fail"
      [] OTHER -> "Info"

StatusMap(status) ==
    CASE status = "pass" -> "Pass"
      [] status = "attention" -> "Attention"
      [] status = "fail" -> "Fail"
      [] OTHER -> "Info"

ScoreValue == [Pass |-> 100, Attention |-> 60, Fail |-> 0]
PriorityWeight == [High |-> 3, Medium |-> 2, Low |-> 1]

ToFinding(result) == [check |-> result.check, status |-> StatusMap(result.status)]

\* Math.round() of a / b.
Rounded(a, b) == (2 * a + b) \div (2 * b)

\* The health of a category, and of the node: null, when nothing is scored, is -1.
Scored(findings) == {i \in DOMAIN findings : findings[i].status # "Info"}

CategoryHealth(findings, category) ==
    LET of == {i \in Scored(findings) : Catalog[findings[i].check].category = category}
        weight == [i \in of |-> PriorityWeight[Catalog[findings[i].check].priority]]
        value == [i \in of |-> weight[i] * ScoreValue[findings[i].status]]
    IN  Rounded(SumFunction(value), SumFunction(weight))

ScoreFindings(findings) ==
    LET categories == {Catalog[findings[i].check].category : i \in Scored(findings)}
        health == [category \in categories |-> CategoryHealth(findings, category)]
    IN  IF categories = {} THEN -1 ELSE Rounded(SumFunction(health), Cardinality(categories))

CoverageOf(findings, checks) ==
    [total |-> Len(findings),
     errored |-> Cardinality({i \in DOMAIN checks : checks[i].status = "error"})]

\* COVERAGE_DEGRADED_RATIO is a tenth.
IsDegraded(coverage) == coverage.total > 0 /\ 10 * coverage.errored >= coverage.total

ReportOf(checks) ==
    LET findings == [i \in DOMAIN checks |-> ToFinding(checks[i])]
    IN  [checks |-> checks, findings |-> findings, health |-> ScoreFindings(findings),
         coverage |-> CoverageOf(findings, checks)]

-------------------------------------------------------------------------------
(* The comparison of Agent jobs, once every node has reported. *)

DriftAt(checks) == {i \in DOMAIN checks : Catalog[checks[i].check].kind = "inventory"}

\* An inventory with no rows is none; nor is the finding of a comparison, or a check that failed.
InventoryOf(n) ==
    IF reports[n] # NoReport /\ \E i \in DriftAt(reports[n].checks) : reports[n].checks[i].status = "ok"
    THEN reports[n].checks[CHOOSE i \in DriftAt(reports[n].checks) : TRUE].inventory
    ELSE NoInventory

\* Mutant: the inventories are read while the findings are being graded.
InventoryForLate(n, m) == IF m < n THEN NoInventory ELSE InventoryOf(m)

\* The inventory of m, as the comparison for n sees it: all are read before any is graded.
InventoryFor(n, m) == InventoryOf(m)

Peers(n) == {m \in Partners[n] : InventoryFor(n, m) # NoInventory}

Comparable(n) ==
    /\ InventoryOf(n) # NoInventory /\ Peers(n) # {}
    /\ InventoryOf(n).complete /\ \A m \in Peers(n) : InventoryFor(n, m).complete

\* Mutant: a job counts if it runs here.
DriftsOneSided(mine, theirs) == \E job \in DOMAIN mine : mine[job] # theirs[job] /\ mine[job] \in Running

\* Some job that runs on either side is missing on the other, off, or has other steps.
Drifts(mine, theirs) ==
    \E job \in DOMAIN mine : mine[job] # theirs[job] /\ {mine[job], theirs[job]} \cap Running # {}

DriftStatus(n) ==
    IF \E m \in Peers(n) : Drifts(InventoryOf(n).jobs, InventoryFor(n, m).jobs)
    THEN "attention" ELSE "pass"

\* Mutant: the finding is replaced, the scores are not.
RegradedKeepingScore(n) ==
    [ReportOf([i \in DOMAIN reports[n].checks |->
                  IF i \in DriftAt(reports[n].checks)
                  THEN [reports[n].checks[i] EXCEPT !.status = DriftStatus(n)] ELSE reports[n].checks[i]])
     EXCEPT !.health = reports[n].health]

\* The finding is graded again in place, and the scores are made again.
Regraded(n) ==
    ReportOf([i \in DOMAIN reports[n].checks |->
                 IF i \in DriftAt(reports[n].checks)
                 THEN [reports[n].checks[i] EXCEPT !.status = DriftStatus(n)] ELSE reports[n].checks[i]])

-------------------------------------------------------------------------------
(* Init and types. *)

Result(n) == [check : Checks, status : Statuses, inventory : Inventories[n] \cup {NoInventory}]

Report(n) ==
    [checks : Seq(Result(n)),
     findings : Seq([check : Checks, status : {"Pass", "Attention", "Fail", "Info"}]),
     health : -1..100,
     coverage : [total : Nat, errored : Nat]]

TypeOK ==
    /\ next \in 1..Cardinality(Nodes) + Slots
    /\ slot \in [1..Slots -> Nodes \cup {0}]
    /\ drifted \in BOOLEAN
    /\ out \in [Nodes -> {"none", "report", "error"}]
    /\ \A n \in Nodes : reports[n] \in IF out[n] = "report" THEN Report(n) ELSE {NoReport}
    /\ pc \in [Nodes -> {"waiting", "connecting", "checking", "over"}]
    /\ at \in [Nodes -> 1..Len(Catalog) + 1]
    /\ try \in [Nodes -> 1..2]
    /\ \A n \in Nodes : results[n] \in Seq(Result(n))
    /\ conn \in [Nodes -> {"none", "own", "shared"}]
    /\ worker \in [Nodes -> {"none", "own", "shared"}]
    /\ lostTouch \in [Nodes -> BOOLEAN]

Init ==
    /\ next = 1
    /\ slot = [s \in 1..Slots |-> 0]
    /\ drifted = FALSE
    /\ out = [n \in Nodes |-> "none"]
    /\ reports = [n \in Nodes |-> NoReport]
    /\ pc = [n \in Nodes |-> "waiting"]
    /\ at = [n \in Nodes |-> 1]
    /\ try = [n \in Nodes |-> 1]
    /\ results = [n \in Nodes |-> <<>>]
    /\ conn = [n \in Nodes |-> "none"]
    /\ worker = [n \in Nodes |-> "none"]
    /\ lostTouch = [n \in Nodes |-> FALSE]

-------------------------------------------------------------------------------
(* The script. *)

\* New-HcServer into $server; when it throws, the old connection stays.
ResetHcServer(n, old) ==
    \/ /\ conn' = [conn EXCEPT ![n] = "own"]
       /\ lostTouch' = [lostTouch EXCEPT ![n] = FALSE]
    \/ /\ conn' = [conn EXCEPT ![n] = old]
       /\ lostTouch' = [lostTouch EXCEPT ![n] = old = "shared"]

\* A worker holds the connection that is in $server when it is made; it may fail to open.
NewHcWorkerRunspace(n) ==
    \E held \in {conn'[n], "none"} : worker' = [worker EXCEPT ![n] = held]

ResetHcConnection(n) ==
    /\ ResetHcServer(n, conn[n])
    /\ IF worker[n] = "none" THEN UNCHANGED worker ELSE NewHcWorkerRunspace(n)

Record(n, status, inventory) ==
    /\ results' = [results EXCEPT ![n] =
                      Append(@, [check |-> at[n], status |-> status, inventory |-> inventory])]
    /\ at' = [at EXCEPT ![n] = @ + 1]
    /\ try' = [try EXCEPT ![n] = 1]

\* What a check with no chance to run is replaced by.
Skipped(check) ==
    \/ check.kind = "os" /\ Host = "none"
    \/ check.kind = "sa" /\ UseSql

\* The status of a check that came back: graded, nothing found, or one of the rows that say
\* the check could not look (__sa_error) or decided not to (__sa_unavailable, __hc_skip).
Outcomes(check) ==
    CASE check.kind = "os" -> Grades \cup {"empty"} \cup (IF Host = "local" THEN {"skipped"} ELSE {})
      [] check.kind = "sa" -> Grades \cup {"pass", "error", "skipped"}
      [] check.kind = "blitz" -> Grades \cup {"pass", "skipped"}
      [] check.kind = "offenders" -> Grades \cup {"pass"}
      [] check.kind = "graded" -> Grades \cup {"empty"}
      [] check.kind \in {"plain", "inventory"} -> {"ok", "empty"}

AtCheck(n) == pc[n] = "checking" /\ at[n] \in Checks

Connect(n) ==
    /\ pc[n] = "connecting"
    /\ pc' = [pc EXCEPT ![n] = "checking"]
    /\ conn' = [conn EXCEPT ![n] = "own"]
    /\ IF PerCheckCap THEN NewHcWorkerRunspace(n) ELSE UNCHANGED worker
    /\ UNCHANGED <<sweepVars, at, try, results, lostTouch>>

Skip(n) ==
    /\ AtCheck(n) /\ Skipped(Catalog[at[n]])
    /\ Record(n, "skipped", NoInventory)
    /\ UNCHANGED <<sweepVars, pc, conn, worker, lostTouch>>

Return(n) ==
    /\ AtCheck(n) /\ ~Skipped(Catalog[at[n]])
    /\ \E status \in Outcomes(Catalog[at[n]]) :
           IF Catalog[at[n]].kind = "inventory" /\ status = "ok"
           THEN \E inventory \in Inventories[n] : Record(n, status, inventory)
           ELSE Record(n, status, NoInventory)
    /\ UNCHANGED <<sweepVars, pc, conn, worker, lostTouch>>

\* NOT_APPLICABLE_PS_RE, or any other exception.
Throw(n) ==
    /\ AtCheck(n) /\ ~Skipped(Catalog[at[n]])
    /\ \E status \in {"skipped", "error"} : Record(n, status, NoInventory)
    /\ UNCHANGED <<sweepVars, pc, conn, worker, lostTouch>>

\* Mutant: -le for -lt.
LoseConnectionTwice(n) ==
    /\ AtCheck(n) /\ ~Skipped(Catalog[at[n]])
    /\ ResetHcConnection(n)
    /\ IF try[n] <= 2
       THEN try' = [try EXCEPT ![n] = @ + 1] /\ UNCHANGED <<at, results>>
       ELSE Record(n, "error", NoInventory)
    /\ UNCHANGED <<sweepVars, pc>>

\* Mutant: the first failure is recorded, and the check is tried again.
LoseConnectionRecording(n) ==
    /\ AtCheck(n) /\ ~Skipped(Catalog[at[n]])
    /\ ResetHcConnection(n)
    /\ results' = [results EXCEPT ![n] =
                      Append(@, [check |-> at[n], status |-> "error", inventory |-> NoInventory])]
    /\ IF try[n] < 2
       THEN try' = [try EXCEPT ![n] = 2] /\ UNCHANGED at
       ELSE try' = [try EXCEPT ![n] = 1] /\ at' = [at EXCEPT ![n] = @ + 1]
    /\ UNCHANGED <<sweepVars, pc>>

\* CONN_STATE_PS_RE: reconnect, and try once more.
LoseConnection(n) ==
    /\ AtCheck(n) /\ ~Skipped(Catalog[at[n]])
    /\ ResetHcConnection(n)
    /\ IF try[n] < 2
       THEN try' = [try EXCEPT ![n] = 2] /\ UNCHANGED <<at, results>>
       ELSE Record(n, "error", NoInventory)
    /\ UNCHANGED <<sweepVars, pc>>

\* Mutant: the worker is replaced, the connection is not.
TimeOutKeepingServer(n) ==
    /\ AtCheck(n) /\ ~Skipped(Catalog[at[n]]) /\ worker[n] # "none"
    /\ conn' = [conn EXCEPT ![n] = "shared"]
    /\ NewHcWorkerRunspace(n)
    /\ Record(n, "error", NoInventory)
    /\ UNCHANGED <<sweepVars, pc, lostTouch>>

\* The cap: the check is abandoned in its worker, and may go on using the connection.  Without
\* a worker a check runs inline and has no cap.
TimeOut(n) ==
    /\ AtCheck(n) /\ ~Skipped(Catalog[at[n]]) /\ worker[n] # "none"
    /\ ResetHcServer(n, "shared")
    /\ NewHcWorkerRunspace(n)
    /\ Record(n, "error", NoInventory)
    /\ UNCHANGED <<sweepVars, pc>>

\* Abandoned checks end at last.
Release(n) ==
    /\ "shared" \in {conn[n], worker[n]}
    /\ conn' = [conn EXCEPT ![n] = "own"]
    /\ worker' = [worker EXCEPT ![n] = IF @ = "shared" THEN "own" ELSE @]
    /\ lostTouch' = [lostTouch EXCEPT ![n] = FALSE]
    /\ UNCHANGED <<sweepVars, pc, at, try, results>>

-------------------------------------------------------------------------------
(* The sweep. *)

\* Mutant: the index is read now, and counted up when the node is done.
PullLate(s) ==
    /\ slot[s] = 0 /\ next <= Cardinality(Nodes)
    /\ slot' = [slot EXCEPT ![s] = next]
    /\ next' = IF \E t \in 1..Slots : slot[t] = next THEN next + 1 ELSE next
    /\ pc' = [pc EXCEPT ![next] = IF @ = "waiting" THEN "connecting" ELSE @]
    /\ UNCHANGED <<drifted, out, reports, at, try, results, conn, worker, lostTouch>>

\* A slot takes the next index, and starts its script.
Pull(s) ==
    /\ slot[s] = 0 /\ next <= Cardinality(Nodes)
    /\ slot' = [slot EXCEPT ![s] = next]
    /\ next' = next + 1
    /\ pc' = [pc EXCEPT ![next] = "connecting"]
    /\ UNCHANGED <<drifted, out, reports, at, try, results, conn, worker, lostTouch>>

Settle(s, result) ==
    /\ out' = [out EXCEPT ![slot[s]] = IF result = NoReport THEN "error" ELSE "report"]
    /\ reports' = [reports EXCEPT ![slot[s]] = result]
    /\ slot' = [slot EXCEPT ![s] = 0]

\* The script's process is gone, and what it holds with it, an abandoned check included.
Exit(n) ==
    /\ pc' = [pc EXCEPT ![n] = "over"]
    /\ at' = [at EXCEPT ![n] = 1]
    /\ try' = [try EXCEPT ![n] = 1]
    /\ results' = [results EXCEPT ![n] = <<>>]
    /\ conn' = [conn EXCEPT ![n] = "none"]
    /\ worker' = [worker EXCEPT ![n] = "none"]
    /\ lostTouch' = [lostTouch EXCEPT ![n] = FALSE]

\* The script prints its results and exits; runOne() keeps the report at the node's index.
Finish(s) ==
    /\ slot[s] # 0 /\ at[slot[s]] = Len(Catalog) + 1
    /\ Settle(s, ReportOf(results[slot[s]]))
    /\ Exit(slot[s])
    /\ UNCHANGED <<next, drifted>>

\* Mutant: an error is not caught, and ends the slot's loop.
DieThrowing(s) ==
    /\ slot[s] # 0 /\ pc[slot[s]] # "over"
    /\ Exit(slot[s])
    /\ UNCHANGED sweepVars

\* New-HcServer throws, the process is killed on HEALTHCHECK_TIMEOUT_SECONDS, or its output is
\* unusable: nothing of what the script found is left, and runOne() keeps the error.
Die(s) ==
    /\ slot[s] # 0 /\ pc[slot[s]] # "over"
    /\ Settle(s, NoReport)
    /\ Exit(slot[s])
    /\ UNCHANGED <<next, drifted>>

ApplyReplicaJobDrift ==
    /\ next > Cardinality(Nodes) /\ \A s \in 1..Slots : slot[s] = 0
    /\ ~drifted
    /\ drifted' = TRUE
    /\ reports' = [n \in Nodes |-> IF Comparable(n) THEN Regraded(n) ELSE reports[n]]
    /\ UNCHANGED <<next, slot, out, scriptVars>>

\* The subject of runReportCli(): only the nodes that have a report are looked at.
Subject ==
    LET reported == {n \in Nodes : out[n] = "report"}
        some(status) == \E n \in reported : status \in Range([i \in DOMAIN reports[n].findings |->
                                                                 reports[n].findings[i].status])
        coverage == [total |-> SumFunction([n \in reported |-> reports[n].coverage.total]),
                     errored |-> SumFunction([n \in reported |-> reports[n].coverage.errored])]
    IN  [worst |-> IF some("Fail") THEN "CRITICAL" ELSE IF some("Attention") THEN "WARNING" ELSE "OK",
         incomplete |-> IsDegraded(coverage)]

-------------------------------------------------------------------------------

Step(n) ==
    Connect(n) \/ Skip(n) \/ Return(n) \/ Throw(n) \/ LoseConnection(n) \/ TimeOut(n) \/ Release(n)

Next ==
    \/ \E s \in 1..Slots : Pull(s) \/ Finish(s) \/ Die(s)
    \/ \E n \in Nodes : Step(n)
    \/ ApplyReplicaJobDrift

\* Node's callbacks run, and each script's timer fires unless it is over before.
Spec ==
    /\ Init /\ [][Next]_vars
    /\ \A s \in 1..Slots : WF_vars(Pull(s)) /\ WF_vars(Die(s))
    /\ WF_vars(ApplyReplicaJobDrift)

-------------------------------------------------------------------------------
(* Properties. *)

\* The slots never share a node, and a node that reports does so with one result for each check,
\* in the order of the catalog, however many attempts the checks took.
ReportIsWhole ==
    /\ \A s, t \in 1..Slots : slot[s] = slot[t] /\ slot[s] # 0 => s = t
    /\ \A n \in Nodes : out[n] = "report" =>
           /\ Len(reports[n].checks) = Len(Catalog)
           /\ \A k \in Checks : reports[n].checks[k].check = k

\* A check starts on no connection an abandoned check may still be using, unless reconnecting
\* failed.
NoSharedConnection ==
    \A n \in Nodes : "shared" \in {conn[n], worker[n]} => lostTouch[n]

\* "by looking at nothing": a node has full health only if some check of it ran and passed; and
\* then a tenth of its checks not having run shows.
NoUnearnedAllClear ==
    \A n \in Nodes : out[n] = "report" /\ reports[n].health = 100 =>
        /\ \E k \in Checks : reports[n].checks[k].status = "pass"
        /\ 10 * Cardinality({k \in Checks : reports[n].checks[k].status = "error"}) >= Len(Catalog)
               => IsDegraded(reports[n].coverage)

\* "Both nodes of a pair get the finding, each from its own side", and the same one, when each
\* is the only partner of the other; and a report's health is that of the findings it shows.
PairGradedAlike ==
    drifted =>
        \A m, n \in Nodes, k \in Checks :
            /\ Partners[n] = {m} /\ Partners[m] = {n} /\ out[n] = "report" /\ out[m] = "report"
            /\ Catalog[k].kind = "inventory"
            => LET status(x) == reports[x].findings[k].status
                   whole(x) == LET inventory == reports[x].checks[k].inventory
                               IN  inventory # NoInventory /\ inventory.complete
               IN  /\ status(m) = status(n)
                   /\ whole(m) /\ whole(n) => status(m) # "Info"
                   /\ reports[m].health = ScoreFindings(reports[m].findings)

\* Every sweep ends, with a report or an error for each node.
SweepEnds == <>(drifted /\ \A n \in Nodes : out[n] # "none")

\* "it must never be possible to send [OK] for a run that could not look": not of a tenth of
\* the checks of its targets.
OkWasLookedAt ==
    drifted /\ (\E n \in Nodes : out[n] = "report") /\ Subject = [worst |-> "OK", incomplete |-> FALSE] =>
        LET ran == [n \in Nodes |-> IF out[n] = "report"
                                    THEN reports[n].coverage.total - reports[n].coverage.errored ELSE 0]
        IN  10 * SumFunction(ran) > 9 * Cardinality(Nodes) * Len(Catalog)

===============================================================================
