# TLA+ models of mssql-data-api

The repository deploys two MCP endpoints. `dab-mcp` is configuration for a
third-party image. `dba-mcp` (`services/dba-mcp/`) is a TypeScript server, and
all of the repository's own run-time behaviour is there: it talks to a fleet of
SQL Server instances through pooled connections and to PowerShell (dbatools)
through a long-lived process and through one-shot scripts. These modules model
that server: the parts whose behaviour is concurrent and long-lived (the
PowerShell supervisor, the connection pools, the resolution of the primary of a
region), the tool calls that use them, the scripts that run work on a host, and
the health check of the fleet.

## Inventory

Paths are relative to `services/dba-mcp/src/` unless they begin with `ci/`,
`scripts/`, `deploy/` or `config/`.

| Component | State | Operations | What is hard | What makes it correct |
|---|---|---|---|---|
| PowerShell supervisor, `pwshWorker.ts` | process slot, pending calls, next id, input buffer, restart count; processes and pipes | start, call, timeout, onData, onExit, onSpawnError, stop | exits and output of an old process arriving while its replacement serves; timeout against answer; reads after an await; hung processes | each call settled once, with its own rows; one process; losses counted once; nobody waits for ever |
| Connection pools and catalog fallback, `connectionManager.ts` | pool cache, catalog info of each pool, retirement timers | getPool, probe, pool error, retirement, queryInstance, executeWrite | two misses dialling at once; pools that outlive their cache entry; an instance that falls sick and recovers | own login and intent; no refused pool served; healthy pools kept; recovery picked up; warning exactly when on `master` |
| Region primary, `connectionManager.ts` | primaryCache (a minute), serverNameCache (for ever) | resolveRegionPrimary, getServerName, invalidatePrimaryCache, get_current_primary | failover within the minute; a resolution in flight across an invalidation; a node whose name changed | a refresh names a node that was primary since it asked; nodes that are down do not matter; an old entry goes |
| Warning scope and fan-out, `connectionManager.ts`, `tools.ts` | one Map per tool call | roTool, noteCatalogFallback, noteRowCap, fan_out_query | concurrent calls sharing pools; one node of several failing | a notice reaches its own call and no other |
| Row cap, `connectionManager.ts` | none | applyRowLimit, capRows, finishQuery | off by one at the cap | a result cut at the cap is said to be cut, and no other |
| Write transaction, `connectionManager.ts` | the transaction | executeWrite | an error in the statement, in commit or in rollback | the transaction of a dry run is never committed; what is reported committed is |
| Credentials, `connectionManager.ts`, `credentialStore.ts` | OS credential memo, OBO token cache | getOsCred, credentialFor, getOboSqlToken | a failed read taken for an absent entry; tokens near expiry | a failure to read is never remembered |
| HTTP sessions and rate limiter, `index.ts`, `auth.ts` | session Map, hit windows | POST, GET, DELETE, onclose, pruning | close racing requests; windows pruned while counting | the Map holds the live sessions; at most N requests in a window |
| One-shot PowerShell, `dbatools.ts` | settled flag, timer, script file | runPowerShell | timeout, cap, error and close racing | file and timer there exactly while the promise is open |
| Transient Agent jobs, `dbatools.ts` | jobs and one output file on the server | transientJobGuard, generate_cluster_log, get_host_event_log | the kill against the `finally`; concurrent calls sharing a file | no job is left unless a step overran; a running one is not touched; what is returned is new |
| Check runner, `dbatools.ts` (generated PowerShell) | worker runspace, connection | Invoke-CheckWithTimeout, Reset-HcConnection, the retry loop | an abandoned worker holding the connection | one result per check; no check on an abandoned runspace |
| Health sweep, `dbatools.ts`, `reportCli.ts` | next index, results | run_health_check, runHealthReport, applyReplicaJobDrift | slots pulling work while nodes fail | each node once, at its own index |
| Scoring, `dbatools.ts` | none | toFinding, scoreFindings, coverageOf, triageOf | empty categories, rounding | no full health for having looked at nothing |
| Live-diagnostics fallback, `dbatoolsFirst.ts` | none | withFallback | the worker failing in the middle of an incident | a worker failure never makes a tool fail |
| Query guards, `safety.ts` | none | stripNoise, validateQuery, validateWriteQuery | nesting of comments and strings | comments and literals do not change the verdict |
| Vendored copy, `scripts/sync-dba-mcp.mjs`, `ci/gate-vendor-drift.sh` | tree, pin, hash | sync, gate, `--write` | a crash between copy and pin | a green gate means the tree hashes to the pin |
| CI gates, `ci/*.sh` | none | one pass over JSON | - | - |
| Diagnostic tools, `tools.ts`, `dbatools.ts` | none | queries, worker calls and scripts, together or in turn | one of several fails; a result is cut on the way | an answer says what it lacks (but where the code cuts without a word), and fails only for what it needs |
| Check catalog, report, `dbatools.ts` | none | - | - | data and layout |
| `config/`, `deploy/`, `seed/`, `proposed-procs/` | declarative | - | - | - |

How they interact. A tool handler (registered through `roTool`) runs in a
warning scope and calls `queryInstance` or `executeWrite`, which call `getPool`,
which resolves a `<region>-primary` alias (itself through `getPool`) and takes
credentials from the request or the process. Live-diagnostic tools may first
try `PwshWorker.call` and fall back to `queryInstance`. Health checks and the
host tools run one-shot scripts. Over HTTP many such calls are interleaved in
one Node process; between two `await`s nothing else runs.

`PROJECT.json` lists the same components with their status, and under `hazards`
each hard case at its line, with the properties that cover it.

## Modules

| Module | What it is |
|---|---|
| `CallService` | abstract specification of `PwshWorker.call()` |
| `PwshWorker` | the supervisor, its processes and their pipes |
| `PwshWorkerProofs` | inductive invariant of `PwshWorker`, and the theorems that follow from it |
| `PwshWorkerRefinement` | what the pipes and the buffer may hold; `PwshWorker` implements `CallService` |
| `ConnectionPools` | `getPool` and the queries made on what it returns |
| `ConnectionPoolsProofs` | inductive invariant of `ConnectionPools`, and its theorems |
| `RegionPrimary` | `resolveRegionPrimary`, `getServerName`, their caches and the refresh |
| `RegionPrimaryProofs` | inductive invariant of `RegionPrimary`, and its theorems |
| `ToolPlans` | what each tool waits for, and the arithmetic of the row cap |
| `ToolCalls` | calls in flight: their plans, their warning scopes, their answers, the write transaction |
| `ToolPlansProofs` | lemmas: what the plans of all tools have in common |
| `ToolCallsProofs` | inductive invariant of `ToolCalls`, and its theorems |
| `HostScripts` | `runPowerShell` and the scripts with a transient Agent job |
| `HostScriptsProofs` | inductive invariant of `HostScripts`, and its theorems |
| `HealthCheck` | the sweep, the script of a node, scores and the comparison of partners |
| `HealthCheckProofs` | invariants of `HealthCheck`, and its theorems |
| `MCPwshWorker`, `MCConnectionPools` | symmetry sets for TLC |
| `MCToolCalls`, `MCHealthCheck` | deployments and menus; catalog, partners and inventories, for TLC |

How they fit. `PwshWorker` is what a `worker` step of `ToolCalls` waits for,
`ConnectionPools` decides on which pool a `query` step runs, `RegionPrimary` is
its `resolve` step, and a `script` step is a `runPowerShell`. `ToolCalls` leaves
the outcomes of these steps open, which is the composition: whatever the other
component may do there, it does. So its properties do not depend on the others'
runs, and the state spaces stay small. `HealthCheck` leaves open in the same way
how the process of a script ends (`Finish`, `Die`).

### PwshWorker

A step is one macrotask of Node (a `data`, `exit` or `error` event, a timer),
one continuation after an `await`, or one step of a process.

| Code | Model |
|---|---|
| `proc`, `pending`, `nextId`, `buf`, `restarts` | variables of these names; `pending` is a set of entries, keyed by id in `Put` and `Deliver` |
| the timer closures | `timers`: the closure of a timeout is the entry it was armed for |
| the promise a caller holds | `phase` (idle, starting, waiting, answered, failed), `rowsOf` |
| the ChildProcess | `os`; its stdin is `inbox`, its stdout `out`. A process is named by the call whose `start()` spawned it |
| a response line | two fragments, the second with the newline, so that a chunk or a death can end inside it |
| `call()` | `InvokeRunning`, or `InvokeStarting` then `Resume` after the await of `start()`, or `StartThrows`. `Submit` is the part from the queue check on: refused, written, or thrown by `write` |
| `setTimeout` callback | `TimerFire` |
| `onData` | `OnData`, one fragment at a time; `Deliver` is its loop body |
| `onExit`, `onSpawnError`, `settle` | `OnExit`, `OnSpawnError`, `Settle` |
| `stop()` | `Stop` |
| the boot script's loop | `RunRequest` |
| the process ending | `Die`, which may lose the last fragments it wrote |

`MicrotasksDrained` keeps events and timers from running before the
continuation of a `start()` and before the `error` event of a failed spawn,
which Node emits with `process.nextTick`. A killed process (`signalled`) may go
on running for any time, answer, or never end. A response is dropped unless the
line is one whole response, as `JSON.parse` does; its rows are represented by
the call they belong to. Left out: the contents of rows, stderr tails, temp
directories, the wording of errors.

`CallService` keeps the status of each call and how often its cmdlet was run.
The mapping reads `starting` and `waiting` as `open`. `Fail` settles several
calls in one step, because the loss of one process does.

### ConnectionPools

One instance of the fleet. A step is the code between two awaits, so `getPool`
is: `Hit`; or `Miss`, then `Connected`, `CatalogRefused` or `ConnectFailed`,
then on the fallback path `ConnectedToMaster` and one of the two outcomes of the
probe. `Retire` is the retirement timer and `PoolError` the pool's error
handler; both can fire after the pool left the cache. `Succeed` and `FailQuery`
are `queryInstance` (or `executeWrite`) up to the result of the tool.
`CatalogFlips` takes the database offline and brings it back; a catalog that is
`missing` is a misspelt fleet entry and stays so. Whether a node that is dialled
sees the sick or the healthy replica is not told apart: `catalog` is what the
dial finds, and the probe may always find nothing conclusive.

`caller[c]` is the login of a call, whether the password (or token) it came with
is right, and the intent. `CacheKey` is login and intent, as in the code
(687, 716): the password (705-706) is used to dial and no part of the key. So a
call with a wrong password may `Hit` the pool of its login, and one that has to
dial is refused, by either catalog; a refused login takes the fallback path too,
because to `getPool` it looks like a database that cannot be opened.
`PoolMatchesCall` asks for the same login, the same intent and a dialler whose
password was right, which is what the code gives. Left out:
refusals before any state is read (unknown instance, witness, no credential),
the length of the retirement window, TLS.

### RegionPrimary

One region. A step is the code between two awaits. A tool call either uses the
alias (`Hit`, `Miss`) or is `get_current_primary` with `refresh` (`Refresh`, which
clears the entry and begins to resolve in the same turn); it may do so again and
again. The outer loop asks candidate `cand[c]` who is primary (`Told`,
`NotTold`), the inner loop reads the name of node `at[c]` (`Named`, `NotNamed`),
and a match is cached and returned (`Found`). Any query may fail at any time.
`Failover` moves the role to another node, to a server outside the fleet file
(`Others`) or to nobody. Time passes in `Tick`; the model keeps how old the entry
is and how long ago the last failover was, both only up to `Ttl`, so no clock
grows. `seen[c]` is a history variable: the primaries there were while call `c`
was resolving, and `NoNode` as well if a query to the primary failed. Assumed of
SQL Server: a node that names a primary names the one there is when it answers.
Nodes are numbered in the order of the fleet file and keep their server names.

### ToolPlans and ToolCalls

A plan is what a handler awaits: a sequence of stages, each of them the steps
that run under one `Promise.all` or alone. There is one definition for each tool
of `tools.ts`, and for those of `dbatools.ts` that only ask. A step says which
instance it goes to, how many rows are asked for and kept (`cap`, `limit`,
`asked`), whether a cut is noted in the scope (`noteTruncation`) or reported by
the handler itself (`worded`), and whether the handler goes on without it
(`optional`: a `catch`, an `allSettled`), and whether the handler or its script
may cut what comes back without saying so (`trims`). A stage may end the handler early
(`stop`) and may be inside a `try` whose `catch` goes another way (`caught`,
`rescue`: `withFallback`, and tools that try a newer view first).

| Code | Model |
|---|---|
| the registered tools | `Registered`, by toolset, transport and `write` |
| the handler up to its first await | `Ask`, or `Refuse` for a guard |
| the Map of `catalogFallbackScope` | `scope[c]`, a set of notices; `Collect` is `noteCatalogFallback` and `noteRowCap` |
| `applyRowLimit`, `capRows`, `finishQuery`, `noteResultSets` | `ApplyRowLimit`, `CapRows`, `Outcomes` of a step |
| a query returns, fails | `QueryEnds`; `OptionalFails`, `StepFails` |
| `Promise.all` rejects while others are in flight | `Abort`; what is left goes to `orphans` and ends in `OrphanEnds` |
| `withRowCapWarnings` and the rest of `roTool` | `Answer` |
| `executeWrite` | `BeginTx`, `RunStatement`, `EndTx` |
| rows a handler or script leaves out itself | `Trims`, recorded in `short` |

`tx` is where the transaction is (open, its statement ran, over) and `lasts`, a
history variable, what of the write is committed: nothing, what the statement
committed by itself, or all. `RunStatement` may leave the second, because the
statement may be the `EXEC` of a procedure with a COMMIT of its own, which a
rollback does not undo (connectionManager.ts:1107-1109 says so). `EndTx` with
`commit` leaves all. A commit whose confirmation is lost may have happened: the
answer is an error and `lasts` is either.

Where the code cuts without a word, a step says so in `trims`: `execute_write`
keeps the first result set (connectionManager.ts:1135) and shows 50 rows of it,
or 20 of a dry run (tools.ts:716, 721); `get_dbatools_command_help`,
`run_dbatools_command`, `run_diagnostic_query`, `read_error_log`,
`read_cluster_reports` and `get_host_dll_versions` stop at a number of rows or
files in their scripts; `read_sql_dump` at a number of lines (dbatools.ts:7931).
These losses are recorded like any other, and `LossIsSaid` excepts them by name.

After a `Promise.all` has failed and the call was answered, a late query can
still note a warning (`OrphanEnds`). Only a fallback pool is noted there: the
Map it goes into has been read. Row counts are compared, rows are not kept. Multiple result
sets are noted only for the user's own SQL, as in the code. A plan names one
instance for all its steps: that a handler resolves an alias for the worker and
`queryInstance` resolves it again is a hazard without a property.

### HostScripts

All calls go to one node and are of one tool. `promise`, `script` and `timer`
are what `runPowerShell` keeps; `Launch`, `LaunchFails`, `TimerFires`,
`FailsEarly` and `Close` are its events. `pc` is where the generated script is:
`Boot` (pwsh starting up), `Connect` (which sweeps leftovers), `Create`, `Start`, `Poll`, `Read`, and
`Remove`, its `finally`. `JobEnds` is the job on the host, which the kill of the
script does not stop. Time is a count of ticks. There are two clocks, as in the
code: `clock` counts from the spawn, where Node arms the kill timer
(dbatools.ts:221), and the script measures its budget from `t0`, which its first
line sets once pwsh runs it (249). So the budget begins later than the timeout,
by the time of `Boot`, and the reserve has to pay for that. `due` is how long the present
step may still take, and `overran` remembers that a step took longer, or that a
removal failed. Calls outside `Measured` may hang in any step.

`RoomAssumption` states what the reserves of `transientJobGuard` are for: the
start of pwsh (`BootMax`), a poll and the calls up to the end of the `finally`
fit into them. It also needs a
timeout of at least 55 s. A smaller `DBATOOLS_TIMEOUT_SECONDS` is accepted by the
code, and then the 30 s floor of the budget may reach past the kill.

Left out: `_cleanupAllScripts`, which removes files when the Node process ends;
filters and the text of events.

### HealthCheck

`next` and `slot` are the shared counter and the loops of `run_health_check`
(`runHealthReport` is the case of one slot). `pc`, `at`, `try`, `results`,
`conn` and `worker` are the script of a node: `Connect`, then for each check
`Skip`, `Return`, `Throw`, `LoseConnection` (reconnect and try once more) or
`TimeOut` (abandon the check with its runspace and connection). A connection is
`shared` while an abandoned check may still be using it; `Release` is that check
ending. The script prints its results only at its end (`Finish`), so a killed
one (`Die`) loses them all. `ApplyReplicaJobDrift` compares the inventories of
Agent jobs when every node is done, and grades findings again. `Subject` is
`runReportCli`'s. An evaluator is the set of statuses it may give.
`buildHealthCheckScript`, which puts the text of the script together before
`runOne`'s `try` begins (dbatools.ts:7493), is taken not to throw: if it did, the
slot would end and with it the whole sweep.

Left out: triage, `describe`, remediations, HTML and mail, which read findings
and change none; the T-SQL and cmdlets of the checks.

Two things to know when reading its properties. The health of a category and
the mean over categories are rounded, each by itself, so with as many checks as
the real catalog has a node may show 100 with a finding of low priority that is
not a pass: the code promises nothing else, and `NoUnearnedAllClear` therefore
asks that something passed and that what did not run shows. And
`PairGradedAlike` is about pairs: in a chain of three availability groups, in
which the middle node has two partners, the ends compare with one node and the
middle with two.

## Runs

| Run | Instance | Result |
|---|---|---|
| `PwshWorkerSafety` | 3 calls, `MaxQueue` 2, `MaxRestarts` 1, symmetry | nine properties hold; 1.2 million states |
| `PwshWorkerLiveness` | 2 calls, `MaxQueue` 2, `MaxRestarts` 0, `FairSpec` | `EveryCallSettles` holds |
| `PwshWorkerFraming` | 2 calls, `MaxQueue` 2, `MaxRestarts` 1 | `AnswerReachesCaller` is violated, see below |
| `ConnectionPoolsSafety` | 3 calls, 2 logins, passwords right and wrong, both intents, 2 flips of the catalog, symmetry | six properties hold; 1.1 million states |
| `ConnectionPoolsLiveness` | 3 calls, 1 login, 1 flip, `FairSpec` | `RecoveryIsPickedUp` holds |
| `ConnectionPoolsWarning` | 2 calls, 1 login, 1 flip | `EveryResultIsWarned` is violated, see below |
| `RegionPrimarySafety` | 2 nodes and a stranger, 2 calls (1 refreshing), `Ttl` 2, `FairSpec` | four properties hold, `StaleEntryGoes` among them; 1.1 million states |
| `RegionPrimaryStale` | the same | `FailoverSeenInTime` is violated, see below |
| `ToolCalls` | 2 instances, 3 deployments; a call of any tool beside `describe_object` or `execute_write`, `FairSpec` | eight properties hold; 0.2 million states |
| `HostScripts` | 2 calls of `get_host_event_log`, one timed, one not; `Timeout` 10, `Hour` 11 | five properties hold; 7.9 million states |
| `HealthCheck` | 3 nodes, 2 of them partners, 2 slots, 3 checks | six properties hold, `SweepEnds` among them; 0.8 million states |
| `HealthCheckSubject` | the same with one slot | `OkWasLookedAt` is violated, see below |

What the runs ask:

- `PwshWorkerSafety`, `PwshWorkerLiveness`: is every call settled once, with its
  own rows, whatever its process does; are timers, entries, losses and the queue
  exact; does the worker implement `CallService`?
- `ConnectionPoolsSafety`, `ConnectionPoolsLiveness`: does a caller only get a
  pool it may have, is the warning exact, is a healthy pool kept and a recovery
  picked up?
- `RegionPrimarySafety`: is the answer of a refresh current, do nodes that are
  down hide the primary, does an old entry go?
- `ToolCalls`: do warnings stay with their call (`NoticesAreOwn`) and reach its
  answer, for reads that returned from `master` and writes that began there
  (`FallbackIsSaid`; for reads that fail see `ConnectionPoolsWarning`); is
  everything missing from an answer mentioned (`LossIsSaid`), and nothing else
  (`CutIsReal`); does a call fail only for what it needs (`ErrorHasCause`); is a
  commit that is reported a commit, and the transaction of a dry run never
  committed (`WriteReportIsTrue`); is every call answered? `LossIsSaid` leaves
  out the silent cuts listed above, and the query of `get_job_status` against
  msdb, which asks not to be noted and has a `TOP` of its own.
- `HostScripts`: does the race to settle leave a file or a timer behind
  (`ScriptFileIsCleanedUp`), does a kill leave a job (`TimeoutLeavesNoJob`), does
  a sweep touch a job in use (`SweepSparesLiveJobs`), can old events be returned
  as new (`EventsAreNew`)?
- `HealthCheck`: one result for each check of each node (`ReportIsWhole`), on
  connections nobody else uses (`NoSharedConnection`), no full health for having
  looked at nothing (`NoUnearnedAllClear`), partners graded alike
  (`PairGradedAlike`), and an end (`SweepEnds`).

Why the bounds are enough. With three calls a process can be lost while a
second one serves and a third call is made, so an old exit, an old answer and an
old timer all meet a replacement; `MaxQueue` 2 is reached with a third call at
the door, and `MaxRestarts` 1 lets the third call find the worker given up. Two
calls are enough for the first violation: one on the process that dies, one on
its replacement. Three calls on one key give a pool that is replaced, the one
that replaces it and a caller that uses either; two logins and two intents give
four keys. `MaxFlips` 2 lets the catalog fall sick and recover, or the reverse.
Two nodes are what a failover needs, and give both loops
something to get past; a `Ttl` of 2 tells using an entry from renewing it.
In `ToolCalls` the second call is of a tool whose scope holds every kind of
notice, which is what a leak into the first would need; two instances are what
a fan-out and a notice for the wrong instance need. The row counts are the
code's own caps, and of a result only whether it is below, at or above them is
enumerated. In `HostScripts` the times keep the order of the real ones
(`BootMax`, `StepMax`, `PollMax` < `Margin` < `Reserve` < `Timeout` < `Hour`) with
the room exactly used up, the start of pwsh included, so a tick less of reserve breaks `TimeoutLeavesNoJob`; the call
whose steps are not timed leaves the leftovers the other sweeps. In
`HealthCheck` two slots and three nodes make a slot take a second node; of the
three checks one is skipped, one is graded and one is compared.
The theorems show that for the safety properties the bounds do not matter.

In the models without `Tick`, and in `HostScripts`, every call is made once, so
the machine comes to rest when they are settled: the runs do not check
deadlock, and that nothing rests too early is what the liveness properties
check. Runs with a liveness property use no symmetry.

### Fairness

`PwshWorker`: weak fairness of `Resume`, `OnSpawnError` and of firing some
expired timer. These are Node's own queues; a continuation or a timer that is
due runs. Nothing is assumed of a process: it need not answer, die, or obey
`kill()`, nor need its output be read. So `EveryCallSettles` rests on the
timeouts alone. No order among timers is assumed.

`ConnectionPools`: weak fairness of the outcome of each await, which
`connectionTimeout` and `requestTimeout` (connectionManager.ts:743-744) bound,
and of `setTimeout`. The catalog is under no fairness: `RecoveryIsPickedUp`
speaks of runs in which it stays open from some time on.

`RegionPrimary`: weak fairness of the outcome of each await, for the same
reason, and of `Tick`. Failovers are under no fairness, and `StaleEntryGoes`
speaks of runs in which they end.

`ToolCalls`: weak fairness of the end of some awaited step of each call. The
two timeouts bound a query, the worker's timer a worker call
(`PwshWorkerLiveness`), the timer of `runPowerShell` a script.

`HealthCheck`: weak fairness of a slot taking its next node, of the timer that
kills a script, and of the comparison. A script need never finish.

`HostScripts` has no liveness property: that a call which is pending has a timer
armed is an invariant there (`ScriptFileIsCleanedUp`).

### Findings

- `PwshWorkerFraming`. The comment at pwshWorker.ts:322-323 gives as a reason to
  kill a process on timeout that a half-consumed stdout would desynchronise the
  framing. The half line is not in the pipe, it is in `buf`, and `buf` is never
  reset. In the trace a process writes the first half of a line and dies; a call
  starts a replacement; the replacement's first answer is appended to the half
  line, does not parse, and is dropped. Its call is only settled by its timeout,
  which kills a healthy process and counts another loss. `AnswerReachesCaller`
  asks only about answers read when every earlier process is reaped and its
  output read.
- `ConnectionPoolsWarning`. connectionManager.ts:238 says that the warning has
  to reach every tool result, and index.ts:68-69 tells clients how to read its
  absence. A read that fails (connectionManager.ts:1087) throws before
  `catalogFallback` is called at 1093, so the error result carries no warning,
  and on `master` an unqualified name makes failing the likely outcome.
  `executeWrite` does the opposite: it notes the fallback before it begins.
  `WarnedIffOnMaster` is what does hold: for successes, and for writes that fail.
- `RegionPrimaryStale`. connectionManager.ts:964-965 says that a failover
  refreshes within a minute. In the trace a resolution is told of the old
  primary, the role moves, time passes while names are read, and then the old
  primary is written to the cache with a full minute to live (line 1013). The
  same happens when a resolution is overtaken by a newer one or by a refresh.
  What does hold: the caller of a refresh itself gets a node that was primary
  since it asked (`RefreshIsCurrent`), and old entries go in the end
  (`StaleEntryGoes`).
- `HealthCheckSubject`. reportCli.ts:49-50 says that it must never be possible to
  send `[OK]` for a run that could not look. A target whose script fails is left
  out of the reports, and the coverage that decides on the subject is counted
  over the reports that are left: with two of three targets dead and the third
  healthy the subject is `[OK]`.

Three disagreements have no run of their own.

- The comments at connectionManager.ts:684-686 and 715 say that two callers
  never share a pool. The key has the login's name and not the password, and a
  hit returns the connected pool (718) without looking at what the call brought:
  a second call under the same name, with another password, is served the pool
  of the first. What holds is `PoolMatchesCall`.
- A dry run reports "nothing changed" (tools.ts:718), which a procedure with a
  COMMIT of its own makes untrue. The comment above `executeWrite` says so
  (1107-1109), the answer of the tool does not. What holds is
  `WriteReportIsTrue`.
- `generate_cluster_log` promises a fresh log (dbatools.ts:7676-7687) but does
  not look at the outcome of its job (7763), so when the job fails the file of
  an earlier or a concurrent call is returned. With `Tool = "clog"` in
  `HostScripts.cfg` TLC refutes `EventsAreNew`. For `get_host_event_log`, which
  does look, the property holds; a concurrent call may still return the events
  another one has just collected, which are newer than its own start and within
  what the property allows.

## Proofs

TLAPS checks every theorem for any finite set of calls, any set of logins
and all limits. The assumptions are those named in the modules:
`CallsAssumption` (finitely many calls, `NoProc` is not one), `LimitsAssumption`
(`MaxQueue` positive, `MaxRestarts` a natural number), `PoolsAssumption` and
`RegionAssumption` (at least one node, `Ttl` positive), `TimesAssumption` and
`RoomAssumption` of `HostScripts`, `DeploymentsAssumption` of `ToolCalls` (a
deployment is a record of its four switches), and `NodesAssumption`, `CatalogAssumption` and
`PartnersAssumption` of `HealthCheck` (partners are mutual, inventories are about
the same jobs, at most one check collects them).

**PwshWorker, bookkeeping** (`PwshWorkerProofs`). `IInv` adds to `TypeOK`:

- `Ledger`: timers and pending entries are the same set; every entry belongs to
  a waiting call and every waiting call has one; ids and calls are distinct, ids
  below `nextId`; entries name processes whose end was not handled yet. No conjunct
  can be left out: that a timeout deletes just its own entry needs distinct ids,
  that `settle` strands nobody needs that entries name the process.
- `Processes`: the slot holds a process neither told to end nor reaped, any
  process still `running` is in the slot, and a call not yet made has spawned
  nothing.
- `Bounded`: the queue limit, by cardinality of `pending`.

Each action is shown to preserve each group, and the action properties follow
from the same invariant. `WithinRestarts`, inductive with the types alone, bounds
the losses in a row by `MaxRestarts + 1`; from it follows `GivingUpIsFinal`. That
one needs the queue to be empty: an answer that a lost process still wrote to its
pipe counts, and forgives the losses, even after the worker gave up.

**PwshWorker, what is on the wire** (`PwshWorkerRefinement`). `Wire` says that
a request or fragment in a pipe carries an id below `nextId`, which no entry
shares unless it is for the same call; that a request in a pipe is the only one
of its call and has not run; and that a fragment exists only for a cmdlet that
has run, once. What `buf` holds need not be known: a line counts only if both its
halves agree, and the second comes from a pipe. It needs `IInv`, for
the freshness of ids, and gives `OwnRows`. With both, every step of `PwshWorker`
is a step of `CallService` or leaves its variables alone: `Refinement`. Its part on
the cmdlets alone, that none runs twice for a call, is `CmdletsRunOnce`.

**ConnectionPools** (`ConnectionPoolsProofs`). `IInv` adds to `TypeOK` that what
is cached or in use was served by its own dialler under the same key, and dialled
with a password the server took; that a
dial in progress has served nothing yet, that a cached pool on `master`
has its timer, that an erred pool is not in the cache unless it is on `master`
(it may fail while it is being probed, before it is cached), and that `warned`
is exact for calls that ended. From it follows what the recovery of a catalog rests
on besides fairness: a pool that left the cache never returns (`EvictedStaysOut`,
since only a call that was not served yet registers a pool), and with the catalog
open no new connection to `master` is on its way (`NothingNewOnMaster`), while each
that is cached has its timer. A dial with a wrong password is not on its way
(`HeadedForMaster`): the open catalog refuses it, and so does `master`.

**RegionPrimary** (`RegionPrimaryProofs`). Every clause of `IInv` is about one call:
while it resolves, the present primary is in `seen`, and so is the one it was
told of; and as long as `seen` is a single node, neither loop has got past that
node. A step changes one call (`OthersSame`) except for a failover, which makes
`seen` larger for every call under way. Two more theorems use the same invariant.
`EntriesAreOwnFinds`: what is written to the cache was the primary while its writer
resolved, which is as much as can be said of an entry (`FailoverSeenInTime` is
violated). `ResolutionsAreShort`: each answer lowers `Rank`, the number of answers a
resolution can still wait for, so `N * (N + 1)` answers are the most; it needs
`NamesFromFirst`, without which a candidate could be asked with names half read.

**HostScripts** (`HostScriptsProofs`), for any number of calls and any times that
satisfy `TimesAssumption` and `RoomAssumption`. `IInv` adds to `TypeOK`, for each
call: file and timer exist exactly while the promise is pending (`CleanedUp`);
a running script is pending, and its job is not older than it is (`JobIsYoung`,
from which a job in use is never an hour old); whoever wrote the file had
succeeded, and what a call found there when it started is not its own
(`FileIsEarned`); and the ticks used, plus those the present step may take, plus
what is `Ahead` of it up to the end of the `finally`, stay below the timeout,
which counts from the spawn, and not from `t0` as the budget does, unless a step overran (`JobIsInTime`). The last is the argument behind the
constants of `transientJobGuard`. Without `Ahead` it is not inductive: a step that
ends in time says nothing of the next, whose own time must still be there.

**ToolCalls**, the plans (`ToolPlansProofs`). The properties of calls hold because of
what the plans say, tool by tool. The lemmas go through all of them once and show
that each is a `ReadPath` or a `WritePath`: the stages are not empty; every step is a
`SoundStep`, which keeps all the rows it asks for or reports a cut, apart from what
its `trims` names; either every
stage falls back to the same DMV path, or a rescue only does again what the path
does (`OneFallback`). A tool added to the server as such a path is covered by the
rest of the proof. `OutcomeIsTold` is the arithmetic of the row cap, for any cap and limit: a sound query
that loses rows has a notice or says so, and no other does.

**ToolCalls**, the calls (`ToolCallsProofs`), for any number of calls, any instances,
deployments and menus. `CallInv` says four things of one call, and a step changes
nothing of the others (`Touches`):

- `Shape`: what is asked is such a path, what remains is at a stage of it or of the
  rescue of one (`OnCourse`), and a call awaits steps of its present stage exactly
  while it is unanswered.
- `InTx`: only a write has a transaction, which is open at most until the answer;
  nothing lasts before the statement ran; a commit that was answered `ok` lasts, and
  of a dry run at most what its statement committed by itself.
- `Records`: the scope is `Complete` at every moment, and the answer from when it is
  given: each notice is of this call and has its loss, each instance in
  `stray` has its notice, and each loss its notice or its words, unless it is trimmed. That the scope is complete,
  and not only the answer, is what makes it inductive.
- `Caused`: an error has among the failed steps one that its last way needs. That a
  failure before the rescue is not taken for the cause rests on `OneFallback`.

They give all safety properties of the run. `CallsNeverHang` is the safety part of
`EveryCallSettles`: an unanswered call awaits a step for which the code has an end in
the present state, in each state of a transaction as well. `AnswersAreFinal` says that
the late end of a query that a `Promise.all` left in flight changes no answer.

**HealthCheck** (`HealthCheckProofs`), for any nodes, slots, catalog and
inventories. `ConnInv` gives `NoSharedConnection`. `SlotInv` (a slot holds a node
below `next`, no two the same), `ResultsInv` (what a script has collected are the
checks before `at`, in order) and `ReportsInv` give `ReportIsWhole`. For
`PairGradedAlike`, `GradedInv` adds that a report is what `ReportOf` makes of its
checks, that before the comparison an inventory is there exactly when its check
is `ok`, and that after it no slot is busy; the comparison itself is symmetric
(`DriftsBothWays`), which is where the assumption enters that all inventories
speak of the same jobs. `TypesInv` has the types of the rest.

The scores are means, that is sums over sets of any size. The community modules
define a sum by recursion on a set, and the induction theorems of the library take a
predicate, which the provers cannot instantiate. `SubsetInduction` takes a set
instead: a set that has every subset of a finite `S` whose proper subsets it has, has
`S`. It rests on the library's theorem that the proper subsets of a finite set are
well founded. With it the sums of a function over the subsets of a set are shown to
agree (`SumsAgree`) and to exist (`SumsExist`), so a sum obeys its recursion
(`SumStep`); `SumBound` and `SumOfOnes` bound it. So the health of a category and of a
node is at most the best score among its findings (`ScoreBound`), hence at most 100,
and at most 60 where nothing passed (`NoPassNoHealth`), which gives
`NoUnearnedAllClear`.

`ProgressInv` (a node has no outcome exactly while it is still to be taken or in a
slot, and a script in a slot is not over) gives the safety part of `SweepEnds`,
`SweepNeverHangs`, and that an outcome is final (`OutcomesAreFinal`).

Every safety property of a passing run is stated by a theorem. Only model-checked are
the liveness properties, which are outside what the prover handles:
`EveryCallSettles` of `PwshWorker` and of `ToolCalls`, `RecoveryIsPickedUp`,
`StaleEntryGoes` and `SweepEnds`. For each of them the theorems above have the part
that is safety: that somebody who waits has a timer or a step that can end
(`TimersAreExact` and `NobodyStranded`, `CallsNeverHang`, `SweepNeverHangs`), or that
what is due comes nearer (`MasterIsAbandoned`, `ResolutionsAreShort`).

## Not modelled

- Credentials and the token cache: maps that are only filled after a success,
  over calls of libraries. What matters of them, whose login a pool has
  and whether its password was right, is in `ConnectionPools`.
- HTTP sessions and the rate limiter: the transport of the MCP SDK keeps the
  sessions and calls `onclose`; the limiter is one counter per address.
- `safety.ts`, `schemaDocs.ts`, `dumpPaths.ts`: functions of text, without state.
  That a guard refuses is an action of `ToolCalls`; what it refuses is not
  modelled.
- The check catalog, its evaluators and remediations, and the HTML: data and
  layout.
- The copy script and the CI gates, and everything declarative: one pass each.
- Within `ConnectionPools`: TLS, and refusals before any state is read.

`PROJECT.json` gives the status and the reason for each component.

## What could follow

1. A composition of `RegionPrimary` with `ToolCalls`, in which each query
   resolves the alias again, for the hazard of an answer that mixes two nodes.
2. Names that move in `RegionPrimary` (`serverNameCache` never expires).
3. The cluster log as a run of its own, if `HostScripts` is given both tools.
4. The rate limiter and the session map, if the server takes over their
   bookkeeping from the SDK.

## Running

    tlc -config PwshWorkerSafety.cfg MCPwshWorker
    tlc -config HostScripts.cfg HostScripts
    tlapm HostScriptsProofs.tla

Each `.cfg` belongs to the module `PROJECT.json` names under `runs`. The
operators commented as mutants are never used by a specification: each is the
body of the definition after it with a plausible mistake, and the property named
in `PROJECT.json` fails when it takes that definition's place.
