------------------------------ MODULE HostScripts ------------------------------
(***************************************************************************)
(* The tools that run work on a host through a transient SQL Agent job:    *)
(* get_host_event_log and generate_cluster_log of                          *)
(* services/dba-mcp/src/dbatools.ts, with runPowerShell(), which starts    *)
(* their script and kills it on a timeout, and transientJobGuard(), which  *)
(* keeps the script shorter than that and sweeps the jobs a kill left.     *)
(*                                                                         *)
(* All calls go to one node and are of one of the two tools: calls of the  *)
(* other share neither the prefix of the jobs' names nor the file the jobs *)
(* write, whose name is fixed.  The job of a call has a random name, so it *)
(* is named by the call.  Time is a count of ticks.                        *)
(***************************************************************************)
EXTENDS Naturals, FiniteSets

CONSTANTS Calls,
          Timeout,      \* timeoutSec of runPowerShell
          Reserve,      \* what the script's budget is shorter by: 25 s
          MinBudget,    \* the least budget: 30 s
          Margin,       \* no job is created later than this before the budget ends: 15 s
          BootMax,      \* how long pwsh takes to come to the script's first line, unless it overruns
          StepMax,      \* how long one call to the server takes, unless it overruns
          PollMax,      \* how long one poll takes, its sleep included, unless it overruns
          Tool,         \* "evt", get_host_event_log, or "clog", generate_cluster_log
          Measured,     \* the calls whose steps are timed; the others may take any time
          Hour,         \* the age at which a job is taken for a leftover
          NoCall

Budget == IF Timeout - Reserve > MinBudget THEN Timeout - Reserve ELSE MinBudget

ASSUME CallsAssumption ==
    Measured \subseteq Calls /\ NoCall \notin Calls /\ Tool \in {"evt", "clog"}
ASSUME TimesAssumption ==
    /\ {Timeout, Reserve, MinBudget, Margin, BootMax, StepMax, PollMax, Hour} \subseteq Nat \ {0}
    /\ Reserve < Timeout /\ Margin < MinBudget
    /\ Timeout < Hour

\* The timeout is at least 55 s, which a configured DBATOOLS_TIMEOUT_SECONDS need not be, and
\* the two reserves are enough for what is still to be done when they begin and for the start
\* of pwsh, which the timeout counts and the budget does not.
ASSUME RoomAssumption ==
    /\ MinBudget <= Timeout - Reserve
    /\ BootMax + PollMax + 3 * StepMax <= Reserve
    /\ BootMax + 6 * StepMax + PollMax < Reserve + Margin

Never == Timeout + 1    \* `due` of a step that has no deadline

VARIABLES
    \* runPowerShell(), in Node
    promise,    \* promise[c]: none, pending, resolved or rejected
    script,     \* script[c]: the temp .ps1 exists
    timer,      \* timer[c]: the timeout is armed
    \* the script, in pwsh
    pc,         \* pc[c]: what it is doing
    clock,      \* clock[c]: ticks since it was spawned
    t0,         \* t0[c]: the clock when the script's first line ran, until it stops polling
    due,        \* due[c]: ticks its current step may still take, if none overran
    overran,    \* overran[c]: it took longer than BootMax, StepMax or PollMax, or a removal failed
    got,        \* got[c]: the call whose file it read
    \* the node
    job,        \* job[c]: the Agent job exists
    age,        \* age[c]: ticks since it was created, up to Hour
    work,       \* work[c]: what the job does on the host: none, running, succeeded or failed
    file,       \* the call whose job wrote the tool's file last
    before      \* before[c]: what the file held when c's job was started

nodeVars == <<promise, script, timer>>
pwshVars == <<pc, clock, t0, due, overran, got>>
hostVars == <<job, age, work, file, before>>
vars == <<nodeVars, pwshVars, hostVars>>

-------------------------------------------------------------------------------

\* Those in which a job of the script's own may exist.
JobSteps == {"create", "start", "poll", "read", "remove"}
Steps == {"boot", "connect"} \cup JobSteps
Live(c) == pc[c] \in Steps

TypeOK ==
    /\ promise \in [Calls -> {"none", "pending", "resolved", "rejected"}]
    /\ script \in [Calls -> BOOLEAN]
    /\ timer \in [Calls -> BOOLEAN]
    /\ pc \in [Calls -> Steps \cup {"idle", "exited", "killed"}]
    /\ clock \in [Calls -> 0..Timeout]
    /\ t0 \in [Calls -> 0..Timeout]
    /\ due \in [Calls -> 0..Never]
    /\ overran \in [Calls -> BOOLEAN]
    /\ got \in [Calls -> Calls \cup {NoCall}]
    /\ job \in [Calls -> BOOLEAN]
    /\ age \in [Calls -> 0..Hour]
    /\ work \in [Calls -> {"none", "running", "succeeded", "failed"}]
    /\ file \in Calls \cup {NoCall}
    /\ before \in [Calls -> Calls \cup {NoCall}]

Init ==
    /\ promise = [c \in Calls |-> "none"]
    /\ script = [c \in Calls |-> FALSE]
    /\ timer = [c \in Calls |-> FALSE]
    /\ pc = [c \in Calls |-> "idle"]
    /\ clock = [c \in Calls |-> 0]
    /\ t0 = [c \in Calls |-> 0]
    /\ due = [c \in Calls |-> Never]
    /\ overran = [c \in Calls |-> c \notin Measured]
    /\ got = [c \in Calls |-> NoCall]
    /\ job = [c \in Calls |-> FALSE]
    /\ age = [c \in Calls |-> 0]
    /\ work = [c \in Calls |-> "none"]
    /\ file = NoCall
    /\ before = [c \in Calls |-> NoCall]

-------------------------------------------------------------------------------
(* runPowerShell(). *)

\* How long a step should take: `start` adds the job's step too, `read` may try another encoding,
\* connecting may take any time.
Time(step) ==
    CASE step = "boot" -> BootMax
      [] step = "connect" -> Never
      [] step = "poll" -> PollMax
      [] step \in {"start", "read"} -> 2 * StepMax
      [] OTHER -> StepMax

\* Whether it is in time matters to a script only until it stops polling.
Goto(c, step) ==
    /\ pc' = [pc EXCEPT ![c] = step]
    /\ due' = [due EXCEPT ![c] = IF overran[c] THEN Never ELSE Time(step)]
    /\ t0' = [t0 EXCEPT ![c] = CASE step = "connect" -> clock[c]
                                 [] step \in {"read", "remove"} -> 0
                                 [] OTHER -> t0[c]]

\* The script is written to a temp file, pwsh is spawned and its timeout armed.
Launch(c) ==
    /\ promise[c] = "none"
    /\ promise' = [promise EXCEPT ![c] = "pending"]
    /\ script' = [script EXCEPT ![c] = TRUE]
    /\ timer' = [timer EXCEPT ![c] = TRUE]
    /\ Goto(c, "boot")
    /\ UNCHANGED <<clock, overran, got, hostVars>>

\* The temp file cannot be written.
LaunchFails(c) ==
    /\ promise[c] = "none"
    /\ promise' = [promise EXCEPT ![c] = "rejected"]
    /\ UNCHANGED <<script, timer, pwshVars, hostVars>>

\* The script is over: what only matters while it runs is forgotten.
Over(c, how) ==
    /\ pc' = [pc EXCEPT ![c] = how]
    /\ clock' = [clock EXCEPT ![c] = 0]
    /\ t0' = [t0 EXCEPT ![c] = 0]
    /\ due' = [due EXCEPT ![c] = Never]
    /\ got' = [got EXCEPT ![c] = NoCall]

Kill(c) == IF Live(c) THEN Over(c, "killed") ELSE UNCHANGED <<pc, clock, t0, due, got>>

\* Mutant: cleanup() is left to the close event, which then finds the promise settled.
FailNoCleanup(c) ==
    /\ promise' = [promise EXCEPT ![c] = "rejected"]
    /\ Kill(c)
    /\ UNCHANGED script

\* fail(): the process is killed, the script file removed, the promise rejected.
Fail(c) ==
    /\ promise' = [promise EXCEPT ![c] = "rejected"]
    /\ Kill(c)
    /\ script' = [script EXCEPT ![c] = FALSE]

TimerFires(c) ==
    /\ timer[c] /\ clock[c] = Timeout
    /\ timer' = [timer EXCEPT ![c] = FALSE]
    /\ IF promise[c] = "pending" THEN Fail(c) ELSE UNCHANGED <<promise, script, pc, clock, t0, due, got>>
    /\ \/ UNCHANGED <<job, age>>
       \/ /\ pc[c] = "create"   \* the request was on its way
          /\ job' = [job EXCEPT ![c] = TRUE]
          /\ age' = [age EXCEPT ![c] = 0]
    /\ UNCHANGED <<overran, work, file, before>>

\* pwsh cannot be started, or prints more than MAX_BUFFER_BYTES.
FailsEarly(c) ==
    /\ promise[c] = "pending"
    /\ \/ pc[c] = "boot" /\ clock[c] = 0
       \/ pc[c] = "exited"
    /\ timer' = [timer EXCEPT ![c] = FALSE]
    /\ Fail(c)
    /\ UNCHANGED <<overran, hostVars>>

\* Mutant: the timer is only disarmed with the promise still open.
CloseKeepsTimer(c) ==
    /\ pc[c] \in {"exited", "killed"} /\ (timer[c] \/ promise[c] = "pending")
    /\ IF promise[c] = "pending"
       THEN /\ promise' = [promise EXCEPT ![c] = "resolved"]
            /\ script' = [script EXCEPT ![c] = FALSE]
       ELSE UNCHANGED <<promise, script>>
    /\ UNCHANGED <<timer, pwshVars, hostVars>>

\* The close event of a process that has gone.
Close(c) ==
    /\ pc[c] \in {"exited", "killed"} /\ (timer[c] \/ promise[c] = "pending")
    /\ timer' = [timer EXCEPT ![c] = FALSE]
    /\ IF promise[c] = "pending"
       THEN /\ promise' = [promise EXCEPT ![c] = "resolved"]
            /\ script' = [script EXCEPT ![c] = FALSE]
       ELSE UNCHANGED <<promise, script>>
    /\ UNCHANGED <<pwshVars, hostVars>>

-------------------------------------------------------------------------------
(* The script.  Every step of it may throw; from `create` on that leads to the finally. *)

\* Mutant: whatever has the tool's prefix is a leftover.
LeftoversAll == {d \in Calls : job[d]}

\* pwsh has started, and the script's first line takes the time.
Boot(c) ==
    /\ pc[c] = "boot"
    /\ Goto(c, "connect")
    /\ UNCHANGED <<nodeVars, clock, overran, got, hostVars>>

\* What the sweep finds: jobs of this tool, by their prefix, an hour old by the server's clock.
Leftovers == {d \in Calls : job[d] /\ age[d] >= Hour}

\* Mutant: the job is created however late it is.
EarlyEnoughAlways(c) == TRUE

EarlyEnough(c) == clock[c] - t0[c] <= Budget - Margin

\* The leftovers are removed, or some of them, an error being ignored; then no job is
\* created if all this took too long.
Connect(c) ==
    /\ pc[c] = "connect"
    /\ \/ /\ \E gone \in SUBSET Leftovers : job' = [d \in Calls |-> job[d] /\ d \notin gone]
          /\ IF EarlyEnough(c)
             THEN Goto(c, "create") /\ UNCHANGED <<clock, got>>
             ELSE Over(c, "exited")
       \/ Over(c, "exited") /\ UNCHANGED job
    /\ UNCHANGED <<nodeVars, overran, age, work, file, before>>

Create(c) ==
    /\ pc[c] = "create"
    /\ \/ /\ job' = [job EXCEPT ![c] = TRUE]
          /\ age' = [age EXCEPT ![c] = 0]
          /\ Goto(c, "start")
       \/ Goto(c, "remove") /\ UNCHANGED <<job, age>>
    /\ UNCHANGED <<nodeVars, clock, overran, got, work, file, before>>

Start(c) ==
    /\ pc[c] = "start"
    /\ \/ /\ job[c]
          /\ work' = [work EXCEPT ![c] = "running"]
          /\ before' = [before EXCEPT ![c] = file]
          /\ Goto(c, "poll")
       \/ Goto(c, "remove") /\ UNCHANGED <<work, before>>
    /\ UNCHANGED <<nodeVars, clock, overran, got, job, age, file>>

\* Mutant: only the number of tries bounds the polling.
InBudgetAlways(c) == TRUE

InBudget(c) == clock[c] - t0[c] < Budget

\* Mutant: get_host_event_log too reads the file of a job that failed.
ReadableAnyway(c) == work[c] \in {"succeeded", "failed"}

\* get_host_event_log looks at LastRunOutcome, generate_cluster_log only for the end.
Readable(c) == work[c] = "succeeded" \/ (work[c] = "failed" /\ Tool = "clog")

\* A poll: goes on while the job runs, within the budget and a number of tries.
Poll(c) ==
    /\ pc[c] = "poll"
    /\ \/ work[c] = "running" /\ InBudget(c) /\ Goto(c, "poll")
       \/ work[c] = "running" /\ Goto(c, "remove")
       \/ Readable(c) /\ Goto(c, "read")
       \/ work[c] # "running" /\ ~Readable(c) /\ Goto(c, "remove")
    /\ UNCHANGED <<nodeVars, clock, overran, got, hostVars>>

\* OPENROWSET on the file.
Read(c) ==
    /\ pc[c] = "read"
    /\ got' = [got EXCEPT ![c] = file] \/ UNCHANGED got
    /\ Goto(c, "remove")
    /\ UNCHANGED <<nodeVars, clock, overran, hostVars>>

\* The finally; an error of the removal is ignored.
Remove(c) ==
    /\ pc[c] = "remove"
    /\ Over(c, "exited")
    /\ \/ job' = [job EXCEPT ![c] = FALSE] /\ UNCHANGED overran
       \/ overran' = [overran EXCEPT ![c] = TRUE] /\ UNCHANGED job
    /\ UNCHANGED <<nodeVars, age, work, file, before>>

-------------------------------------------------------------------------------
(* The node, and time. *)

\* The job's step ends on the host, the job being removed meanwhile or not.  What fails in
\* generate_cluster_log is mostly caught, and written to the file as well.
JobEnds(c) ==
    /\ work[c] = "running"
    /\ \/ /\ work' = [work EXCEPT ![c] = "succeeded"]
          /\ file' = c
       \/ work' = [work EXCEPT ![c] = "failed"] /\ UNCHANGED file
    /\ UNCHANGED <<nodeVars, pwshVars, job, age, before>>

\* Mutant: the clock runs on past a timer that is due.
TickPastTimeout ==
    /\ \E c \in Calls : Live(c)
    /\ clock' = [c \in Calls |-> IF Live(c) THEN clock[c] + 1 ELSE clock[c]]
    /\ UNCHANGED <<nodeVars, pc, t0, due, overran, got, hostVars>>

\* The server's clock goes on; a timer that is due fires first.
Tick ==
    /\ \A c \in Calls : ~(timer[c] /\ clock[c] = Timeout)
    /\ \E c \in Calls : (Live(c) /\ clock[c] < Timeout) \/ (job[c] /\ age[c] < Hour)
    /\ clock' = [c \in Calls |-> IF Live(c) /\ clock[c] < Timeout THEN clock[c] + 1 ELSE clock[c]]
    /\ due' = [c \in Calls |-> IF Live(c) /\ due[c] \in 1..Timeout THEN due[c] - 1 ELSE Never]
    /\ overran' = [c \in Calls |-> overran[c] \/ (Live(c) /\ due[c] = 0)]
    /\ age' = [c \in Calls |-> IF job[c] /\ age[c] < Hour THEN age[c] + 1 ELSE age[c]]
    /\ UNCHANGED <<nodeVars, pc, t0, got, job, work, file, before>>

-------------------------------------------------------------------------------

NodeStep(c) == TimerFires(c) \/ Close(c)

ScriptStep(c) ==
    Boot(c) \/ Connect(c) \/ Create(c) \/ Start(c) \/ Poll(c) \/ Read(c) \/ Remove(c)

Next ==
    \/ \E c \in Calls : Launch(c) \/ LaunchFails(c) \/ FailsEarly(c) \/ NodeStep(c) \/ ScriptStep(c) \/ JobEnds(c)
    \/ Tick

Spec == Init /\ [][Next]_vars

-------------------------------------------------------------------------------
(* Properties. *)

\* A call has its script file, and a timer that will settle it, exactly while it is pending:
\* whichever of timeout, close, output cap and spawn error comes first leaves neither behind.
ScriptFileIsCleanedUp ==
    \A c \in Calls :
        /\ script[c] <=> promise[c] = "pending"
        /\ timer[c] <=> promise[c] = "pending"

\* "so the finally always gets to run": a script that is killed leaves a job behind only if
\* pwsh started, or a call to the server took, longer than its reserves are made for.
TimeoutLeavesNoJob ==
    \A c \in Calls : job[c] /\ ~Live(c) => overran[c]

\* No sweep removes the job of a call that is still running.
SweepSparesLiveJobs ==
    [][\A c \in Calls : job[c] /\ ~job'[c] /\ Live(c) => pc[c] = "remove"]_vars

\* What get_host_event_log returns was written to the file after its own job was started,
\* not by a call before it.
EventsAreNew ==
    \A c \in Calls : Tool = "evt" /\ got[c] # NoCall => got[c] # before[c]

===============================================================================
