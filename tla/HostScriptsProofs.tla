--------------------------- MODULE HostScriptsProofs ---------------------------
(***************************************************************************)
(* Proofs about HostScripts, for any number of calls, any times that leave *)
(* the room RoomAssumption asks for, and both tools.                       *)
(***************************************************************************)
EXTENDS HostScripts, TLAPS

USE CallsAssumption, TimesAssumption

LEMMA BudgetIsNat == Budget \in Nat /\ MinBudget <= Budget /\ Never \in Nat
BY DEF Budget, Never

LEMMA TimeIsNat == \A step \in Steps : Time(step) \in 0..Never
<1>1. StepMax + StepMax <= Timeout /\ PollMax <= Timeout
  BY RoomAssumption
<1> QED
  BY <1>1, RoomAssumption DEF Time, Steps, JobSteps, Never

-------------------------------------------------------------------------------
(* Types. *)

LEMMA KillTypes ==
    ASSUME TypeOK, NEW c \in Calls, Kill(c)
    PROVE  /\ pc' \in [Calls -> Steps \cup {"idle", "exited", "killed"}]
           /\ clock' \in [Calls -> 0..Timeout] /\ t0' \in [Calls -> 0..Timeout]
           /\ due' \in [Calls -> 0..Never]
           /\ got' \in [Calls -> Calls \cup {NoCall}]
BY BudgetIsNat DEF TypeOK, Kill, Over

LEMMA GotoTypes ==
    ASSUME TypeOK, NEW c \in Calls, \E step \in Steps : Goto(c, step)
    PROVE  /\ pc' \in [Calls -> Steps \cup {"idle", "exited", "killed"}]
           /\ due' \in [Calls -> 0..Never] /\ t0' \in [Calls -> 0..Timeout]
<1>1. Never \in 0..Never
  BY BudgetIsNat DEF Never
<1> QED
  BY <1>1, TimeIsNat DEF TypeOK, Goto

LEMMA TimerTypes ==
    ASSUME TypeOK, NEW c \in Calls, TimerFires(c)
    PROVE  TypeOK'
<1>1. /\ promise' \in [Calls -> {"none", "pending", "resolved", "rejected"}]
      /\ script' \in [Calls -> BOOLEAN]
  <2>1. CASE promise[c] = "pending"
    <3>1. promise' = [promise EXCEPT ![c] = "rejected"] /\ script' = [script EXCEPT ![c] = FALSE]
      BY <2>1, Zenon DEF TimerFires, Fail
    <3> QED
      BY <3>1 DEF TypeOK
  <2>2. CASE promise[c] # "pending"
    BY <2>2 DEF TypeOK, TimerFires
  <2> QED
    BY <2>1, <2>2
<1>2. /\ pc' \in [Calls -> Steps \cup {"idle", "exited", "killed"}] /\ clock' \in [Calls -> 0..Timeout]
      /\ t0' \in [Calls -> 0..Timeout]
      /\ due' \in [Calls -> 0..Never] /\ got' \in [Calls -> Calls \cup {NoCall}]
  <2>1. CASE promise[c] = "pending"
    BY <2>1, KillTypes DEF TimerFires, Fail
  <2>2. CASE promise[c] # "pending"
    BY <2>2 DEF TypeOK, TimerFires
  <2> QED
    BY <2>1, <2>2
<1>3. job' \in [Calls -> BOOLEAN] /\ age' \in [Calls -> 0..Hour]
  <2>1. job \in [Calls -> BOOLEAN] /\ age \in [Calls -> 0..Hour] /\ 0 \in 0..Hour
    BY DEF TypeOK
  <2>2. CASE UNCHANGED <<job, age>>
    BY <2>1, <2>2
  <2>3. CASE job' = [job EXCEPT ![c] = TRUE] /\ age' = [age EXCEPT ![c] = 0]
    BY <2>1, <2>3
  <2> QED
    BY <2>2, <2>3 DEF TimerFires
<1> QED
  BY <1>1, <1>2, <1>3 DEF TypeOK, TimerFires

LEMMA CreateTypes ==
    ASSUME TypeOK, NEW c \in Calls, Create(c)
    PROVE  TypeOK'
<1>1. job' \in [Calls -> BOOLEAN] /\ age' \in [Calls -> 0..Hour]
  <2>1. job \in [Calls -> BOOLEAN] /\ age \in [Calls -> 0..Hour] /\ 0 \in 0..Hour
    BY DEF TypeOK
  <2>2. CASE UNCHANGED <<job, age>>
    BY <2>1, <2>2
  <2>3. CASE job' = [job EXCEPT ![c] = TRUE] /\ age' = [age EXCEPT ![c] = 0]
    BY <2>1, <2>3
  <2> QED
    BY <2>2, <2>3 DEF Create
<1>2. \E step \in Steps : Goto(c, step)
  BY DEF Create, Steps, JobSteps
<1> QED
  BY <1>1, <1>2, GotoTypes DEF TypeOK, Create, nodeVars

LEMMA TypeStep == TypeOK /\ [Next]_vars => TypeOK'
<1> SUFFICES ASSUME TypeOK, [Next]_vars
             PROVE  TypeOK'
  OBVIOUS
<1> USE DEF TypeOK, Steps, JobSteps, nodeVars, pwshVars, hostVars
<1>1. 0 \in 0..Timeout /\ 0 \in 0..Hour /\ Never \in 0..Never
  BY DEF Never
<1>3. ASSUME NEW c \in Calls, Launch(c) \/ LaunchFails(c)
      PROVE  TypeOK'
  <2>1. CASE Launch(c)
    BY <2>1, GotoTypes DEF Launch
  <2>2. CASE LaunchFails(c)
    BY <2>2 DEF LaunchFails
  <2> QED
    BY <1>3, <2>1, <2>2
<1>4. ASSUME NEW c \in Calls, FailsEarly(c)
      PROVE  TypeOK'
  BY <1>1, <1>4, KillTypes DEF FailsEarly, Fail
<1>5. ASSUME NEW c \in Calls, TimerFires(c)
      PROVE  TypeOK'
  BY <1>5, TimerTypes
<1>6. ASSUME NEW c \in Calls, Close(c)
      PROVE  TypeOK'
  BY <1>6 DEF Close
<1>7. ASSUME NEW c \in Calls, Boot(c) \/ Connect(c)
      PROVE  TypeOK'
  <2>0. CASE Boot(c)
    BY <2>0, GotoTypes DEF Boot
  <2>1. CASE Over(c, "exited") /\ UNCHANGED job
    BY <1>1, <1>7, <2>0, <2>1 DEF Connect, Over
  <2>2. CASE job' \in [Calls -> BOOLEAN] /\ Over(c, "exited")
    BY <1>1, <1>7, <2>0, <2>2 DEF Connect, Over
  <2>3. CASE job' \in [Calls -> BOOLEAN] /\ Goto(c, "create") /\ UNCHANGED <<clock, got>>
    BY <1>7, <2>0, <2>3, GotoTypes DEF Connect
  <2> QED
    BY <1>7, <2>0, <2>1, <2>2, <2>3 DEF Connect
<1>8. ASSUME NEW c \in Calls, Create(c) \/ Start(c)
      PROVE  TypeOK'
  <2>1. CASE Create(c)
    BY <2>1, CreateTypes
  <2>2. CASE Start(c)
    BY <1>1, <2>2, GotoTypes DEF Start
  <2> QED
    BY <1>8, <2>1, <2>2
<1>9. ASSUME NEW c \in Calls, Poll(c) \/ Read(c)
      PROVE  TypeOK'
  <2>1. \E step \in Steps : Goto(c, step)
    BY <1>9 DEF Poll, Read
  <2> QED
    BY <1>9, <2>1, GotoTypes DEF Poll, Read
<1>10. ASSUME NEW c \in Calls, Remove(c)
       PROVE  TypeOK'
  BY <1>1, <1>10 DEF Remove, Over
<1>11. ASSUME NEW c \in Calls, JobEnds(c)
       PROVE  TypeOK'
  BY <1>11 DEF JobEnds
<1>12. CASE Tick
  <2>1. clock' \in [Calls -> 0..Timeout]
    BY <1>12 DEF Tick
  <2>2. due' \in [Calls -> 0..Never]
    BY <1>12, BudgetIsNat DEF Tick, Never
  <2>3. age' \in [Calls -> 0..Hour]
    BY <1>12 DEF Tick
  <2>4. overran' \in [Calls -> BOOLEAN]
    BY <1>12 DEF Tick
  <2> QED
    BY <1>12, <2>1, <2>2, <2>3, <2>4 DEF Tick
<1>13. CASE UNCHANGED vars
  BY <1>13 DEF vars
<1> QED
  BY <1>3, <1>4, <1>5, <1>6, <1>7, <1>8, <1>9, <1>10, <1>11, <1>12, <1>13
     DEF Next, NodeStep, ScriptStep

LEMMA InitTypes == Init => TypeOK
BY BudgetIsNat DEF Init, TypeOK, Never

\* Promises, files, timers, scripts and jobs keep their types, and no clock passes the timeout.
THEOREM TypeCorrect == Spec => []TypeOK
BY InitTypes, TypeStep, PTL DEF Spec

-------------------------------------------------------------------------------
(* What holds of the calls in every state. *)

CleanedUp(c) ==
    /\ script[c] <=> promise[c] = "pending"
    /\ timer[c] <=> promise[c] = "pending"

\* A script runs only for a call that is pending; its own job is younger than the script.
JobIsYoung(c) ==
    /\ Live(c) => promise[c] = "pending"
    /\ promise[c] = "none" => pc[c] = "idle"
    /\ pc[c] \in {"idle", "boot", "connect"} => ~job[c]
    /\ Live(c) /\ job[c] => age[c] <= clock[c]

\* Who wrote the file had succeeded, and what c found there was not its own.
FileIsEarned(c) ==
    /\ file = c => work[c] = "succeeded"
    /\ before[c] \in Calls => work[before[c]] = "succeeded"
    /\ work[c] = "succeeded" => file # before[c]
    /\ pc[c] \in {"idle", "boot", "connect", "create", "start"} => work[c] = "none"
    /\ Tool = "evt" /\ pc[c] = "read" => work[c] = "succeeded"
    /\ got[c] # NoCall => pc[c] = "remove"
    /\ Tool = "evt" /\ got[c] # NoCall => got[c] # before[c]

\* What the script has still to do after its current step, and ends in the finally.
Ahead(step) ==
    CASE step = "create" -> PollMax + 5 * StepMax
      [] step = "start"  -> PollMax + 3 * StepMax
      [] step = "poll"   -> 3 * StepMax
      [] step = "read"   -> StepMax
      [] OTHER           -> 0

\* A call none of whose steps overran begins by BootMax, and is done before the timeout.
JobIsInTime(c) ==
    /\ c \notin Measured => overran[c]
    /\ job[c] /\ ~Live(c) => overran[c]
    /\ ~Live(c) => clock[c] = 0
    /\ t0[c] <= BootMax \/ overran[c]
    /\ pc[c] = "boot" /\ ~overran[c] => clock[c] + due[c] <= BootMax
    /\ pc[c] \in JobSteps /\ ~overran[c] => clock[c] + due[c] + Ahead(pc[c]) < Timeout

IInv ==
    /\ TypeOK
    /\ \A c \in Calls : CleanedUp(c) /\ JobIsYoung(c) /\ FileIsEarned(c) /\ JobIsInTime(c)

-------------------------------------------------------------------------------
(* A step keeps each of them. *)

LEMMA CleanedUpStep ==
    ASSUME IInv, [Next]_vars, NEW d \in Calls
    PROVE  CleanedUp(d)'
<1> USE DEF CleanedUp
<1>0. /\ CleanedUp(d)
      /\ promise \in [Calls -> {"none", "pending", "resolved", "rejected"}]
      /\ script \in [Calls -> BOOLEAN] /\ timer \in [Calls -> BOOLEAN]
      /\ promise[d] = "none" => ~Live(d)
  BY DEF IInv, TypeOK, JobIsYoung, Live, Steps, JobSteps
<1>1. CASE \E c \in Calls : Launch(c) \/ LaunchFails(c)
  BY <1>0, <1>1 DEF Launch, LaunchFails
<1>2. ASSUME NEW c \in Calls, TimerFires(c)
      PROVE  CleanedUp(d)'
  <2>1. CASE promise[c] = "pending"
    <3>1. /\ promise' = [promise EXCEPT ![c] = "rejected"] /\ script' = [script EXCEPT ![c] = FALSE]
          /\ timer' = [timer EXCEPT ![c] = FALSE]
      BY <1>2, <2>1, Zenon DEF TimerFires, Fail
    <3> QED
      BY <1>0, <3>1
  <2>2. CASE promise[c] # "pending"
    <3>1. UNCHANGED <<promise, script>> /\ timer' = [timer EXCEPT ![c] = FALSE]
      BY <1>2, <2>2, Zenon DEF TimerFires
    <3> QED
      BY <1>0, <2>2, <3>1
  <2> QED
    BY <2>1, <2>2
<1>3. ASSUME NEW c \in Calls, FailsEarly(c) \/ Close(c)
      PROVE  CleanedUp(d)'
  BY <1>0, <1>3 DEF FailsEarly, Fail, Close
<1>4. CASE UNCHANGED nodeVars
  BY <1>0, <1>4 DEF nodeVars
<1>5. ASSUME NEW c \in Calls, ScriptStep(c) \/ JobEnds(c)
      PROVE  UNCHANGED nodeVars
  BY <1>5, Zenon DEF ScriptStep, Boot, Connect, Create, Start, Poll, Read, Remove, JobEnds
<1>6. Tick \/ UNCHANGED vars => UNCHANGED nodeVars
  BY DEF Tick, vars
<1> QED
  BY <1>1, <1>2, <1>3, <1>4, <1>5, <1>6 DEF Next, NodeStep

LEMMA JobIsYoungStep ==
    ASSUME IInv, [Next]_vars, NEW d \in Calls
    PROVE  JobIsYoung(d)'
<1> USE DEF JobIsYoung, Live, Steps, JobSteps
<1>1. /\ JobIsYoung(d) /\ CleanedUp(d)
      /\ promise \in [Calls -> {"none", "pending", "resolved", "rejected"}]
      /\ pc \in [Calls -> Steps \cup {"idle", "exited", "killed"}]
      /\ clock \in [Calls -> 0..Timeout] /\ job \in [Calls -> BOOLEAN] /\ age \in [Calls -> 0..Hour]
  BY DEF IInv, TypeOK
<1>2. ASSUME NEW c \in Calls, Launch(c) \/ LaunchFails(c)
      PROVE  JobIsYoung(d)'
  BY <1>1, <1>2 DEF Launch, LaunchFails, Goto, pwshVars, hostVars
<1>3. ASSUME NEW c \in Calls, Fail(c) \/ UNCHANGED <<promise, pc, clock>>
      PROVE  /\ promise' = [promise EXCEPT ![c] = promise'[c]]
             /\ promise'[c] \in {promise[c], "rejected"}
             /\ \/ UNCHANGED <<pc, clock>>
                \/ /\ promise'[c] = "rejected" /\ Live(c)
                   /\ pc' = [pc EXCEPT ![c] = "killed"] /\ clock' = [clock EXCEPT ![c] = 0]
             /\ promise'[c] # promise[c] => ~Live(c)'
  <2>1. CASE Fail(c) /\ Live(c)
    BY <1>1, <2>1 DEF Fail, Kill, Over
  <2>2. CASE Fail(c) /\ ~Live(c)
    BY <1>1, <2>2 DEF Fail, Kill
  <2>3. CASE UNCHANGED <<promise, pc, clock>>
    BY <1>1, <2>3
  <2> QED
    BY <1>3, <2>1, <2>2, <2>3
<1>4. ASSUME NEW c \in Calls, TimerFires(c)
      PROVE  JobIsYoung(d)'
  <2>1. Fail(c) \/ UNCHANGED <<promise, pc, clock>>
    BY <1>4, Zenon DEF TimerFires
  <2>2. \/ UNCHANGED <<job, age>>
        \/ /\ pc[c] = "create"
           /\ job' = [job EXCEPT ![c] = TRUE] /\ age' = [age EXCEPT ![c] = 0]
    BY <1>4 DEF TimerFires
  <2> QED
    BY <1>1, <1>3, <2>1, <2>2
<1>5. ASSUME NEW c \in Calls, FailsEarly(c)
      PROVE  JobIsYoung(d)'
  BY <1>1, <1>3, <1>5 DEF FailsEarly, hostVars
<1>6. ASSUME NEW c \in Calls, Close(c)
      PROVE  JobIsYoung(d)'
  BY <1>1, <1>6 DEF Close, pwshVars, hostVars
<1>14. ASSUME NEW c \in Calls, Boot(c)
       PROVE  JobIsYoung(d)'
  BY <1>1, <1>14 DEF Boot, Goto, nodeVars, hostVars
<1>7. ASSUME NEW c \in Calls, Connect(c)
      PROVE  JobIsYoung(d)'
  <2>1. job'[d] => job[d]
    BY <1>1, <1>7 DEF Connect
  <2>2. (Goto(c, "create") /\ UNCHANGED clock) \/ Over(c, "exited")
    BY <1>7, Zenon DEF Connect
  <2>3. \/ pc' = [pc EXCEPT ![c] = "create"] /\ UNCHANGED clock
        \/ pc' = [pc EXCEPT ![c] = "exited"] /\ clock' = [clock EXCEPT ![c] = 0]
    BY <2>2 DEF Goto, Over
  <2> QED
    BY <1>1, <1>7, <2>1, <2>3 DEF Connect, nodeVars
<1>8. ASSUME NEW c \in Calls, Create(c)
      PROVE  JobIsYoung(d)'
  BY <1>1, <1>8 DEF Create, Goto, nodeVars
<1>9. ASSUME NEW c \in Calls, Start(c) \/ Poll(c) \/ Read(c)
      PROVE  JobIsYoung(d)'
  <2>1. /\ UNCHANGED <<promise, clock, job, age>> /\ pc[c] \in JobSteps
        /\ \E step \in JobSteps : pc' = [pc EXCEPT ![c] = step]
    BY <1>9 DEF Start, Poll, Read, Goto, nodeVars, hostVars
  <2> QED
    BY <1>1, <2>1
<1>10. ASSUME NEW c \in Calls, Remove(c)
       PROVE  JobIsYoung(d)'
  BY <1>1, <1>10 DEF Remove, Over, nodeVars
<1>11. ASSUME NEW c \in Calls, JobEnds(c)
       PROVE  JobIsYoung(d)'
  BY <1>1, <1>11 DEF JobEnds, nodeVars, pwshVars
<1>12. CASE Tick
  <2>1. /\ clock'[d] = IF Live(d) /\ clock[d] < Timeout THEN clock[d] + 1 ELSE clock[d]
        /\ age'[d] = IF job[d] /\ age[d] < Hour THEN age[d] + 1 ELSE age[d]
        /\ UNCHANGED <<promise, pc, job>>
        /\ ~(timer[d] /\ clock[d] = Timeout)
    BY <1>12 DEF Tick, nodeVars
  <2> QED
    BY <1>1, <2>1 DEF CleanedUp
<1>13. CASE UNCHANGED vars
  BY <1>1, <1>13 DEF vars, nodeVars, pwshVars, hostVars
<1> QED
  BY <1>2, <1>4, <1>5, <1>6, <1>7, <1>8, <1>9, <1>10, <1>11, <1>12, <1>13, <1>14
     DEF Next, NodeStep, ScriptStep

LEMMA FileIsEarnedStep ==
    ASSUME IInv, [Next]_vars, NEW d \in Calls
    PROVE  FileIsEarned(d)'
<1> USE DEF FileIsEarned
<1>1. /\ \A c \in Calls : FileIsEarned(c) /\ JobIsYoung(c)
      /\ pc \in [Calls -> Steps \cup {"idle", "exited", "killed"}]
      /\ got \in [Calls -> Calls \cup {NoCall}]
      /\ work \in [Calls -> {"none", "running", "succeeded", "failed"}]
      /\ file \in Calls \cup {NoCall} /\ before \in [Calls -> Calls \cup {NoCall}]
  BY DEF IInv, TypeOK
<1>2. ASSUME NEW c \in Calls, Launch(c) \/ LaunchFails(c)
      PROVE  FileIsEarned(d)'
  <2>1. /\ UNCHANGED <<got, work, file, before>> /\ pc[c] = "idle"
        /\ UNCHANGED pc \/ pc' = [pc EXCEPT ![c] = "boot"]
    BY <1>1, <1>2 DEF Launch, LaunchFails, Goto, pwshVars, hostVars, JobIsYoung
  <2> QED
    BY <1>1, <2>1
<1>3. ASSUME NEW c \in Calls, NEW how \in {"exited", "killed"},
             Over(c, how) \/ UNCHANGED <<pc, got>>, UNCHANGED <<work, file, before>>
      PROVE  FileIsEarned(d)'
  BY <1>1, <1>3 DEF Over
<1>4. ASSUME NEW c \in Calls, TimerFires(c) \/ FailsEarly(c) \/ Close(c) \/ Remove(c)
      PROVE  FileIsEarned(d)'
  <2>1. /\ UNCHANGED <<work, file, before>>
        /\ Over(c, "killed") \/ Over(c, "exited") \/ UNCHANGED <<pc, got>>
    BY <1>4, Zenon DEF TimerFires, FailsEarly, Fail, Kill, Close, Remove, pwshVars, hostVars
  <2> QED
    BY <1>3, <2>1
<1>5. ASSUME NEW c \in Calls, Boot(c) \/ Connect(c) \/ Create(c)
      PROVE  FileIsEarned(d)'
  <2>1. UNCHANGED <<work, file, before>> /\ pc[c] \in {"boot", "connect", "create"}
    BY <1>5, Zenon DEF Boot, Connect, Create, hostVars
  <2>2. \/ Over(c, "exited")
        \/ Goto(c, "connect") /\ UNCHANGED got
        \/ Goto(c, "create") /\ UNCHANGED got
        \/ Goto(c, "start") /\ UNCHANGED got
        \/ Goto(c, "remove") /\ UNCHANGED got
    BY <1>5, Zenon DEF Boot, Connect, Create
  <2>3. CASE Over(c, "exited")
    BY <1>3, <2>1, <2>3
  <2>4. CASE UNCHANGED got /\ \E step \in {"connect", "create", "start", "remove"} : pc' = [pc EXCEPT ![c] = step]
    BY <1>1, <2>1, <2>4
  <2> QED
    BY <2>2, <2>3, <2>4 DEF Goto
<1>6. ASSUME NEW c \in Calls, Start(c)
      PROVE  FileIsEarned(d)'
  <2>1. /\ pc[c] = "start" /\ UNCHANGED <<got, file>>
        /\ \/ /\ work' = [work EXCEPT ![c] = "running"]
              /\ before' = [before EXCEPT ![c] = file]
              /\ pc' = [pc EXCEPT ![c] = "poll"]
           \/ pc' = [pc EXCEPT ![c] = "remove"] /\ UNCHANGED <<work, before>>
    BY <1>6 DEF Start, Goto
  <2>2. file \in Calls => work[file] = "succeeded"
    BY <1>1
  <2>3. work[c] = "none"
    BY <1>1, <2>1
  <2>4. \A b \in Calls : work[b] = "succeeded" => work'[b] = "succeeded"
    BY <1>1, <2>1, <2>3
  <2>5. before'[d] \in Calls => work'[before'[d]] = "succeeded"
    BY <1>1, <2>1, <2>2, <2>4
  <2>6. got[c] = NoCall
    BY <1>1, <2>1
  <2> QED
    BY <1>1, <2>1, <2>3, <2>4, <2>5, <2>6
<1>7. ASSUME NEW c \in Calls, Poll(c)
      PROVE  FileIsEarned(d)'
  <2>1. /\ pc[c] = "poll" /\ UNCHANGED <<got, work, file, before>>
        /\ \E step \in {"poll", "remove", "read"} :
              /\ pc' = [pc EXCEPT ![c] = step]
              /\ Tool = "evt" /\ step = "read" => work[c] = "succeeded"
    BY <1>7 DEF Poll, Goto, Readable, hostVars
  <2> QED
    BY <1>1, <2>1
<1>8. ASSUME NEW c \in Calls, Read(c)
      PROVE  FileIsEarned(d)'
  <2>1. /\ pc[c] = "read" /\ UNCHANGED <<work, file, before>>
        /\ pc' = [pc EXCEPT ![c] = "remove"]
        /\ got' = [got EXCEPT ![c] = file] \/ UNCHANGED got
    BY <1>8 DEF Read, Goto, hostVars
  <2> QED
    BY <1>1, <2>1
<1>9. ASSUME NEW c \in Calls, JobEnds(c)
      PROVE  FileIsEarned(d)'
  <2>1. /\ UNCHANGED <<pc, got, before>> /\ work[c] = "running"
        /\ \/ work' = [work EXCEPT ![c] = "succeeded"] /\ file' = c
           \/ work' = [work EXCEPT ![c] = "failed"] /\ UNCHANGED file
    BY <1>9, Zenon DEF JobEnds, pwshVars
  <2>2. \A b \in Calls : work[b] = "succeeded" => work'[b] = "succeeded"
    BY <1>1, <2>1
  <2>3. before[d] # c /\ (c # d /\ file # d => file' # d)
    BY <1>1, <2>1, CallsAssumption
  <2> QED
    BY <1>1, <2>1, <2>2, <2>3
<1>10. CASE Tick \/ UNCHANGED vars
  <2>1. UNCHANGED <<pc, got, work, file, before>>
    BY <1>10, Zenon DEF Tick, vars, pwshVars, hostVars
  <2> QED
    BY <1>1, <2>1
<1> QED
  BY <1>2, <1>4, <1>5, <1>6, <1>7, <1>8, <1>9, <1>10 DEF Next, NodeStep, ScriptStep

LEMMA JobIsInTimeStep ==
    ASSUME IInv, [Next]_vars, NEW d \in Calls
    PROVE  JobIsInTime(d)'
<1> USE RoomAssumption DEF JobIsInTime, Ahead, Live, Steps, JobSteps
<1>1. /\ \A c \in Calls : JobIsInTime(c) /\ JobIsYoung(c) /\ CleanedUp(c)
      /\ pc \in [Calls -> Steps \cup {"idle", "exited", "killed"}]
      /\ clock \in [Calls -> 0..Timeout] /\ due \in [Calls -> 0..Never]
      /\ overran \in [Calls -> BOOLEAN] /\ job \in [Calls -> BOOLEAN]
      /\ t0 \in [Calls -> 0..Timeout]
  BY DEF IInv, TypeOK
<1>2. /\ Budget = Timeout - Reserve /\ Never = Timeout + 1
      /\ {Timeout, Reserve, MinBudget, Margin, BootMax, StepMax, PollMax} \subseteq Nat \ {0}
  <2>1. Timeout \in Nat /\ Reserve \in Nat /\ MinBudget \in Nat
    OBVIOUS
  <2>2. MinBudget <= Timeout - Reserve
    OBVIOUS
  <2>3. Budget = Timeout - Reserve
    BY <2>1, <2>2 DEF Budget
  <2> QED
    BY <2>3 DEF Never
<1>3. ASSUME NEW c \in Calls, pc'[c] \in {"exited", "killed"}, clock'[c] = 0, t0'[c] = 0,
             overran'[c] = overran[c], job'[c] => job[c], job[c] => overran[c]
      PROVE  JobIsInTime(c)'
  BY <1>1, <1>2, <1>3
<1>4. ASSUME NEW c \in Calls,
             pc'[c] = pc[c], clock'[c] = clock[c], t0'[c] = t0[c], due'[c] = due[c],
             overran'[c] = overran[c], job'[c] => job[c]
      PROVE  JobIsInTime(c)'
  BY <1>1, <1>4
<1>5. ASSUME NEW c \in Calls, Launch(c) \/ LaunchFails(c)
      PROVE  JobIsInTime(d)'
  <2>1. /\ UNCHANGED <<clock, overran, job>> /\ pc[c] = "idle"
        /\ UNCHANGED <<pc, t0, due>> \/ Goto(c, "boot")
    BY <1>1, <1>5, Zenon DEF Launch, LaunchFails, pwshVars, hostVars, JobIsYoung
  <2>2. CASE UNCHANGED <<pc, t0, due>>
    BY <1>4, <2>1, <2>2
  <2>3. CASE Goto(c, "boot")
    <3>1. CASE d = c
      BY <1>1, <1>2, <2>1, <2>3, <3>1 DEF Goto, Time, JobIsYoung
    <3>2. CASE d # c
      BY <1>1, <1>4, <2>1, <2>3, <3>2 DEF Goto
    <3> QED
      BY <3>1, <3>2
  <2> QED
    BY <2>1, <2>2, <2>3
<1>6. ASSUME NEW c \in Calls, TimerFires(c)
      PROVE  JobIsInTime(d)'
  <2>1. /\ clock[c] = Timeout /\ UNCHANGED overran
        /\ Over(c, "killed") \/ UNCHANGED <<pc, clock, t0, due>>
        /\ UNCHANGED job \/ (pc[c] = "create" /\ job' = [job EXCEPT ![c] = TRUE])
    BY <1>6, Zenon DEF TimerFires, Fail, Kill
  <2>2. pc[c] \in JobSteps => overran[c]
    BY <1>1, <1>2, <2>1
  <2>3. (job[c] => overran[c]) /\ Live(c)
    BY <1>1, <1>2, <2>1, <2>2 DEF JobIsYoung
  <2>4. CASE d = c
    BY <1>1, <1>2, <2>1, <2>2, <2>3, <2>4 DEF Over
  <2>5. CASE d # c
    BY <1>1, <1>4, <2>1, <2>5 DEF Over
  <2> QED
    BY <2>4, <2>5
<1>7. ASSUME NEW c \in Calls, FailsEarly(c)
      PROVE  JobIsInTime(d)'
  <2>1. /\ UNCHANGED <<overran, job>> /\ pc[c] \in {"boot", "exited"}
        /\ (Live(c) /\ Over(c, "killed")) \/ UNCHANGED <<pc, clock, t0, due>>
    BY <1>7, Zenon DEF FailsEarly, Fail, Kill, hostVars
  <2>2. CASE Live(c) /\ Over(c, "killed")
    BY <1>1, <1>3, <1>4, <2>1, <2>2 DEF Over, JobIsYoung
  <2>3. CASE UNCHANGED <<pc, clock, t0, due>>
    BY <1>4, <2>1, <2>3
  <2> QED
    BY <2>1, <2>2, <2>3
<1>15. ASSUME NEW c \in Calls, Boot(c)
       PROVE  JobIsInTime(d)'
  <2>1. UNCHANGED <<clock, overran, job>> /\ pc[c] = "boot" /\ Goto(c, "connect")
    BY <1>15 DEF Boot, hostVars
  <2>2. CASE d # c
    BY <1>1, <1>4, <2>1, <2>2 DEF Goto
  <2>3. CASE d = c
    BY <1>1, <1>2, <2>1, <2>3 DEF Goto, JobIsYoung
  <2> QED
    BY <2>2, <2>3
<1>8. ASSUME NEW c \in Calls, Connect(c)
      PROVE  JobIsInTime(d)'
  <2>1. job'[d] => job[d]
    BY <1>1, <1>8 DEF Connect
  <2>2. /\ pc[c] = "connect" /\ UNCHANGED overran
        /\ (EarlyEnough(c) /\ Goto(c, "create") /\ UNCHANGED clock) \/ Over(c, "exited")
    BY <1>8, Zenon DEF Connect
  <2>3. CASE d # c
    BY <1>1, <1>4, <2>1, <2>2, <2>3 DEF Goto, Over
  <2>4. CASE d = c /\ Over(c, "exited")
    BY <1>1, <1>3, <2>1, <2>2, <2>4 DEF Over, JobIsYoung
  <2>5. CASE d = c /\ EarlyEnough(c) /\ Goto(c, "create") /\ UNCHANGED clock
    BY <1>1, <1>2, <2>1, <2>2, <2>5 DEF Goto, EarlyEnough, Time
  <2> QED
    BY <2>2, <2>3, <2>4, <2>5
<1>9. ASSUME NEW c \in Calls, Create(c) \/ Start(c) \/ Poll(c) \/ Read(c)
      PROVE  JobIsInTime(d)'
  <2>1. /\ UNCHANGED <<clock, overran>> /\ pc[c] \in {"create", "start", "poll", "read"}
        /\ UNCHANGED job \/ job' = [job EXCEPT ![c] = TRUE]
    BY <1>9, Zenon DEF Create, Start, Poll, Read, hostVars
  <2>2. \/ Goto(c, "remove")
        \/ pc[c] = "create" /\ Goto(c, "start")
        \/ pc[c] = "start" /\ Goto(c, "poll")
        \/ pc[c] = "poll" /\ Goto(c, "poll") /\ InBudget(c)
        \/ pc[c] = "poll" /\ Goto(c, "read")
    BY <1>9, Zenon DEF Create, Start, Poll, Read
  <2>3. CASE d # c
    BY <1>1, <1>4, <2>1, <2>2, <2>3 DEF Goto
  <2>4. CASE d = c
    <3>1. pc'[c] \in JobSteps
      BY <1>1, <2>2 DEF Goto
    <3>2. ~overran[c] => c \in Measured
      BY <1>1
    <3>3. \A step \in Steps : Goto(c, step) /\ ~overran[c] => pc'[c] = step /\ due'[c] = Time(step)
      BY <1>1, <3>2 DEF Goto
    <3>5. t0[c] <= BootMax \/ overran[c]
      BY <1>1
    <3>6. t0'[c] \in {0, t0[c]}
      BY <1>1, <2>2 DEF Goto
    <3>4. ~overran[c] => clock[c] + due'[c] + Ahead(pc'[c]) < Timeout
      <4>1. ~overran[c] => clock[c] + due[c] + Ahead(pc[c]) < Timeout
        BY <1>1, <2>1
      <4>2. CASE Goto(c, "remove")
        BY <1>1, <1>2, <2>1, <3>3, <4>1, <4>2 DEF Time
      <4>3. CASE pc[c] = "create" /\ Goto(c, "start")
        BY <1>1, <1>2, <3>3, <4>1, <4>3 DEF Time
      <4>4. CASE pc[c] = "start" /\ Goto(c, "poll")
        BY <1>1, <1>2, <3>3, <4>1, <4>4 DEF Time
      <4>5. CASE Goto(c, "poll") /\ InBudget(c)
        BY <1>1, <1>2, <3>3, <3>5, <4>5 DEF Time, InBudget
      <4>6. CASE pc[c] = "poll" /\ Goto(c, "read")
        BY <1>1, <1>2, <3>3, <4>1, <4>6 DEF Time
      <4> QED
        BY <2>2, <4>2, <4>3, <4>4, <4>5, <4>6
    <3> QED
      BY <1>1, <1>2, <2>1, <2>4, <3>1, <3>4, <3>5, <3>6
  <2> QED
    BY <2>3, <2>4
<1>10. ASSUME NEW c \in Calls, Remove(c)
       PROVE  JobIsInTime(d)'
  BY <1>1, <1>3, <1>4, <1>10 DEF Remove, Over
<1>11. CASE Tick
  <2>1. /\ clock'[d] = IF Live(d) /\ clock[d] < Timeout THEN clock[d] + 1 ELSE clock[d]
        /\ due'[d] = IF Live(d) /\ due[d] \in 1..Timeout THEN due[d] - 1 ELSE Never
        /\ overran'[d] = (overran[d] \/ (Live(d) /\ due[d] = 0))
        /\ UNCHANGED <<pc, t0, job>>
    BY <1>11 DEF Tick
  <2>2. /\ d \notin Measured => overran'[d]
        /\ job'[d] /\ ~Live(d)' => overran'[d]
        /\ ~Live(d)' => clock'[d] = 0
        /\ t0'[d] <= BootMax \/ overran'[d]
    BY <1>1, <2>1
  <2>4. ASSUME pc'[d] = "boot", ~overran'[d]
        PROVE  clock'[d] + due'[d] <= BootMax
    <3>1. pc[d] = "boot" /\ Live(d) /\ due[d] # 0 /\ clock[d] + due[d] <= BootMax
      BY <1>1, <2>1, <2>4
    <3>2. due[d] \in 1..Timeout /\ clock[d] < Timeout
      BY <1>1, <1>2, <3>1
    <3> QED
      BY <1>1, <1>2, <2>1, <3>1, <3>2
  <2>3. ASSUME pc'[d] \in JobSteps, ~overran'[d]
        PROVE  clock'[d] + due'[d] + Ahead(pc'[d]) < Timeout
    <3>1. pc[d] \in JobSteps /\ Live(d) /\ due[d] # 0 /\ pc'[d] = pc[d]
      BY <2>1, <2>3
    <3>2. clock[d] + due[d] + Ahead(pc[d]) < Timeout
      BY <1>1, <2>1, <2>3, <3>1
    <3>3. Ahead(pc[d]) \in Nat
      BY <1>2, <3>1
    <3>4. clock[d] \in Nat /\ due[d] \in Nat
      BY <1>1, <1>2
    <3> HIDE DEF Ahead
    <3>5. due[d] \in 1..Timeout /\ clock[d] < Timeout
      BY <1>2, <3>1, <3>2, <3>3, <3>4
    <3>6. clock'[d] = clock[d] + 1 /\ due'[d] = due[d] - 1
      BY <2>1, <3>1, <3>5
    <3> QED
      BY <1>2, <3>1, <3>2, <3>3, <3>4, <3>6
  <2> QED
    BY <2>2, <2>3, <2>4
<1>12. CASE UNCHANGED <<pc, clock, t0, due, overran, job>>
  BY <1>4, <1>12
<1>13. ASSUME NEW c \in Calls, Close(c) \/ JobEnds(c)
       PROVE  UNCHANGED <<pc, clock, t0, due, overran, job>>
  BY <1>13, Zenon DEF Close, JobEnds, pwshVars, hostVars
<1>14. UNCHANGED vars => UNCHANGED <<pc, clock, t0, due, overran, job>>
  BY DEF vars, pwshVars, hostVars
<1> QED
  BY <1>5, <1>6, <1>7, <1>8, <1>9, <1>10, <1>11, <1>12, <1>13, <1>14, <1>15
     DEF Next, NodeStep, ScriptStep

-------------------------------------------------------------------------------
(* The theorems. *)

LEMMA IInvHolds == Spec => []IInv
<1>1. Init => IInv
  <2>1. Init => TypeOK
    BY InitTypes
  <2>2. Init => \A c \in Calls : CleanedUp(c) /\ JobIsYoung(c)
    BY DEF Init, CleanedUp, JobIsYoung, Live, Steps, JobSteps
  <2>3. Init => \A c \in Calls : FileIsEarned(c)
    BY DEF Init, FileIsEarned
  <2>4. Init => \A c \in Calls : JobIsInTime(c)
    <3>1. 0 <= BootMax
      OBVIOUS
    <3> QED
      BY <3>1 DEF Init, JobIsInTime, Live, Steps, JobSteps
  <2> QED
    BY <2>1, <2>2, <2>3, <2>4 DEF IInv
<1>2. IInv /\ [Next]_vars => IInv'
  BY TypeStep, CleanedUpStep, JobIsYoungStep, FileIsEarnedStep, JobIsInTimeStep DEF IInv
<1> QED
  BY <1>1, <1>2, PTL DEF Spec

\* Whichever of timeout, close, output cap and spawn error comes first in runPowerShell(), the
\* script file and the timer are gone when the promise is settled, and are there until then.
THEOREM ScriptsAreCleanedUp == Spec => []ScriptFileIsCleanedUp
<1>1. IInv => ScriptFileIsCleanedUp
  BY DEF IInv, CleanedUp, ScriptFileIsCleanedUp
<1> QED
  BY <1>1, IInvHolds, PTL

\* For any times that leave the room of RoomAssumption, the deadline of transientJobGuard()
\* lets the finally run before the kill: a job is left only by a call that overran.
THEOREM KillLeavesNoJob == Spec => []TimeoutLeavesNoJob
<1>1. IInv => TimeoutLeavesNoJob
  BY DEF IInv, JobIsInTime, TimeoutLeavesNoJob
<1> QED
  BY <1>1, IInvHolds, PTL

\* get_host_event_log never returns what was in the output file when its job was started.
THEOREM ReturnedEventsAreNew == Spec => []EventsAreNew
<1>1. IInv => EventsAreNew
  BY DEF IInv, FileIsEarned, EventsAreNew
<1> QED
  BY <1>1, IInvHolds, PTL

\* The hour the sweep waits is longer than any script lives, so it finds no job in use.
THEOREM SweepsSpareLiveJobs == Spec => SweepSparesLiveJobs
<1>1. ASSUME IInv, Next, NEW d \in Calls, job[d], ~job'[d], Live(d)
      PROVE  pc[d] = "remove"
  <2>1. /\ job \in [Calls -> BOOLEAN] /\ age[d] <= clock[d]
        /\ clock \in [Calls -> 0..Timeout] /\ age \in [Calls -> 0..Hour]
    BY <1>1 DEF IInv, TypeOK, JobIsYoung
  <2>2. d \notin Leftovers
    BY <1>1, <2>1 DEF Leftovers
  <2>3. ASSUME NEW c \in Calls, Connect(c)
        PROVE  FALSE
    BY <1>1, <2>2, <2>3 DEF Connect
  <2>4. ASSUME NEW c \in Calls, TimerFires(c) \/ Create(c)
        PROVE  FALSE
    <3>1. UNCHANGED job \/ job' = [job EXCEPT ![c] = TRUE]
      BY <2>4, Zenon DEF TimerFires, Create
    <3> QED
      BY <1>1, <2>1, <3>1
  <2>5. ASSUME NEW c \in Calls, Remove(c)
        PROVE  pc[d] = "remove"
    BY <1>1, <2>1, <2>5 DEF Remove
  <2>6. ASSUME NEW c \in Calls,
               \/ Launch(c) \/ LaunchFails(c) \/ FailsEarly(c) \/ Close(c)
               \/ Boot(c) \/ Start(c) \/ Poll(c) \/ Read(c) \/ JobEnds(c)
        PROVE  UNCHANGED job
    BY <2>6, Zenon DEF Boot, Launch, LaunchFails, FailsEarly, Close, Start, Poll, Read, JobEnds, hostVars
  <2>7. Tick => UNCHANGED job
    BY DEF Tick
  <2> QED
    BY <1>1, <2>3, <2>4, <2>5, <2>6, <2>7 DEF Next, NodeStep, ScriptStep
<1>2. IInv /\ [Next]_vars => [\A c \in Calls : job[c] /\ ~job'[c] /\ Live(c) => pc[c] = "remove"]_vars
  BY <1>1
<1> QED
  BY <1>2, IInvHolds, PTL DEF Spec, SweepSparesLiveJobs

===============================================================================
