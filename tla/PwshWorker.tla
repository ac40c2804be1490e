------------------------------ MODULE PwshWorker ------------------------------
(***************************************************************************)
(* The supervisor of the one long-lived pwsh process behind every dbatools *)
(* tool: services/dba-mcp/src/pwshWorker.ts.  A request is one line on the *)
(* process's stdin, a response one line on its stdout; the process answers *)
(* one request at a time, in order.  A call that times out kills the       *)
(* process, and the next call starts another, so the exit and the output   *)
(* of an old process can still arrive while its replacement is serving.    *)
(*                                                                         *)
(* Node runs one callback at a time.  A step here is one macrotask (a data *)
(* or exit event, a timer), one continuation, or one step of a process.    *)
(* A process is named by the call whose start() spawned it: a call spawns  *)
(* at most one.  A response line is two fragments, so that a chunk, or the *)
(* death of its writer, may end in the middle of it.                       *)
(***************************************************************************)
EXTENDS Naturals, Sequences, FiniteSets

CONSTANTS Calls,        \* the invocations of call(), each made at most once
          MaxQueue,     \* opts.maxQueue
          MaxRestarts,  \* opts.maxRestarts
          NoProc        \* null, for the process slot

ASSUME CallsAssumption == IsFiniteSet(Calls) /\ NoProc \notin Calls
ASSUME LimitsAssumption == MaxQueue \in Nat \ {0} /\ MaxRestarts \in Nat

VARIABLES
    \* the fields of the PwshWorker object
    proc,       \* the process new calls are written to, or NoProc
    pending,    \* the Map of outstanding calls, as a set of entries
    nextId,     \* the id the next request will carry
    buf,        \* stdout read so far of an unfinished line, for all processes
    restarts,   \* processes lost since the last successful answer
    timers,     \* the armed timeouts, one closure each
    \* the callers' side
    phase,      \* phase[c]: where the promise of call c stands
    rowsOf,     \* rowsOf[c]: the call whose rows c was resolved with, or NoProc
    \* the processes
    os,         \* os[p]: state of process p
    inbox,      \* inbox[p]: requests in its stdin pipe
    out,        \* out[p]: fragments in its stdout pipe, not yet read by Node
    ran         \* ran[c]: how often the cmdlet of call c was run

nodeVars == <<proc, pending, nextId, buf, restarts, timers>>
callVars == <<phase, rowsOf>>
osVars == <<os, inbox, out, ran>>
vars == <<nodeVars, callVars, osVars>>

-------------------------------------------------------------------------------

Entry == [id : Nat, call : Calls, proc : Calls]
Request == [id : Nat, call : Calls]
\* A piece of a response: the line's newline is in the `last` one.
Fragment == [id : Nat, call : Calls, ok : BOOLEAN, last : BOOLEAN]

\* starting: awaiting start(), before the id is taken; waiting: in `pending`.
Phases == {"idle", "starting", "waiting", "answered", "failed"}

\* stillborn: spawn failed, its 'error' event is due; signalled: kill() was called;
\* dead: gone, its 'exit' event is due; reaped: that event has been handled.
OsStates == {"unborn", "running", "signalled", "stillborn", "dead", "reaped"}

TypeOK ==
    /\ proc \in Calls \cup {NoProc}
    /\ pending \subseteq Entry
    /\ nextId \in Nat
    /\ buf \in Seq(Fragment)
    /\ restarts \in Nat
    /\ timers \subseteq Entry
    /\ phase \in [Calls -> Phases]
    /\ rowsOf \in [Calls -> Calls \cup {NoProc}]
    /\ os \in [Calls -> OsStates]
    /\ inbox \in [Calls -> Seq(Request)]
    /\ out \in [Calls -> Seq(Fragment)]
    /\ ran \in [Calls -> Nat]

Init ==
    /\ proc = NoProc
    /\ pending = {}
    /\ nextId = 1
    /\ buf = <<>>
    /\ restarts = 0
    /\ timers = {}
    /\ phase = [c \in Calls |-> "idle"]
    /\ rowsOf = [c \in Calls |-> NoProc]
    /\ os = [p \in Calls |-> "unborn"]
    /\ inbox = [p \in Calls |-> <<>>]
    /\ out = [p \in Calls |-> <<>>]
    /\ ran = [c \in Calls |-> 0]

-------------------------------------------------------------------------------
(* Pieces the handlers share. *)

\* Promise reactions and process.nextTick callbacks run before the next event or
\* timer: nothing is between a start() and the continuation of its caller, and no
\* spawn failure is unreported.
MicrotasksDrained == /\ \A c \in Calls : phase[c] # "starting"
                     /\ \A p \in Calls : os[p] # "stillborn"

\* reject() of the promises of some entries; settling a settled promise is a no-op.
Reject(entries) ==
    phase' = [c \in Calls |->
                IF phase[c] = "waiting" /\ \E e \in entries : e.call = c
                THEN "failed" ELSE phase[c]]

\* Mutant: the loss is counted by whoever notices it, the slot's owner or not.
DisownCountingTwice(p) ==
    /\ proc' = IF proc = p THEN NoProc ELSE proc
    /\ restarts' = restarts + 1

\* Mutant: the restarts left are counted down in a field that counts them up.
DisownCountingDown(p) ==
    IF proc = p THEN proc' = NoProc /\ restarts' = restarts - 1
                ELSE UNCHANGED <<proc, restarts>>

\* The slot is emptied, and the loss counted, only if p is the process in it.
Disown(p) ==
    IF proc = p THEN proc' = NoProc /\ restarts' = restarts + 1
                ELSE UNCHANGED <<proc, restarts>>

\* kill() of a process: a signal, which a process that is gone ignores.
Kill(p) == os' = [os EXCEPT ![p] = IF @ = "running" THEN "signalled" ELSE @]

Alive(p) == os[p] \in {"running", "signalled"}
-------------------------------------------------------------------------------
(* call(), from a caller's first line to the request written on stdin. *)

FailCall(c) == phase' = [phase EXCEPT ![c] = "failed"]

\* pending.set(id, ...): an entry of the same id would be overwritten.
Put(e) == {f \in pending : f.id # e.id} \cup {e}

\* Mutant: ids are handed out without being used up.
FreshIdReused == nextId

\* nextId++
FreshId == nextId + 1

\* Mutant: the queue may grow one past its limit.
QueueFullLate == Cardinality(pending) > MaxQueue

QueueFull == Cardinality(pending) >= MaxQueue

\* call() from its queue check on.  A pipe whose reader is gone swallows the
\* request (EPIPE comes later, and is ignored) or throws in write().
Submit(c) ==
    \/ /\ QueueFull
       /\ FailCall(c)
       /\ UNCHANGED <<pending, nextId, timers, inbox>>
    \/ LET e == [id |-> nextId, call |-> c, proc |-> proc] IN
       /\ ~QueueFull
       /\ nextId' = FreshId
       /\ pending' = Put(e)
       /\ timers' = timers \cup {e}
       /\ phase' = [phase EXCEPT ![c] = "waiting"]
       /\ inbox' = IF Alive(proc)
                   THEN [inbox EXCEPT ![proc] = Append(@, [id |-> e.id, call |-> c])]
                   ELSE inbox
    \/ /\ ~QueueFull /\ ~Alive(proc)
       /\ nextId' = FreshId
       /\ FailCall(c)
       /\ UNCHANGED <<pending, timers, inbox>>

\* A call that finds a process goes straight to its queue check.
InvokeRunning(c) ==
    /\ phase[c] = "idle"
    /\ proc # NoProc
    /\ Submit(c)
    /\ UNCHANGED <<proc, buf, restarts, rowsOf, os, out, ran>>

\* A call that finds none starts one, and its start() is awaited: the slot is
\* filled now, the call goes on in Resume.
InvokeStarting(c) ==
    /\ phase[c] = "idle"
    /\ proc = NoProc
    /\ restarts <= MaxRestarts
    /\ proc' = c
    /\ \E born \in {"running", "stillborn"} : os' = [os EXCEPT ![c] = born]
    /\ phase' = [phase EXCEPT ![c] = "starting"]
    /\ UNCHANGED <<pending, nextId, buf, restarts, timers, rowsOf, inbox, out, ran>>

\* start() throws: always once too many processes in a row were lost, and before that
\* when the boot script cannot be written to the temporary directory.
StartThrows(c) ==
    /\ phase[c] = "idle"
    /\ proc = NoProc
    /\ FailCall(c)
    /\ UNCHANGED <<nodeVars, rowsOf, osVars>>

\* The code after the await reads the slot again: it may have been emptied, by
\* stop() or by a spawn failure.
Resume(c) ==
    /\ phase[c] = "starting"
    /\ \/ proc = NoProc /\ FailCall(c) /\ UNCHANGED <<pending, nextId, timers, inbox>>
       \/ proc # NoProc /\ Submit(c)
    /\ UNCHANGED <<proc, buf, restarts, rowsOf, os, out, ran>>

-------------------------------------------------------------------------------
(* Events. *)

\* Mutant: the timeout abandons the process to its hung cmdlet, and only disowns it.
TimerFireNoKill(e) ==
    /\ MicrotasksDrained
    /\ e \in timers
    /\ timers' = timers \ {e}
    /\ pending' = {f \in pending : f.id # e.id}
    /\ Disown(e.proc)
    /\ Reject({e})
    /\ UNCHANGED <<nextId, buf, rowsOf, osVars>>

\* Mutant: the timeout kills the process and leaves the slot to its exit event.
TimerFireNoDisown(e) ==
    /\ MicrotasksDrained
    /\ e \in timers
    /\ timers' = timers \ {e}
    /\ pending' = {f \in pending : f.id # e.id}
    /\ Kill(e.proc)
    /\ Reject({e})
    /\ UNCHANGED <<proc, restarts, nextId, buf, rowsOf, inbox, out, ran>>

\* Mutant: the timeout cleans up and does not reject its own call.
TimerFireSilent(e) ==
    /\ MicrotasksDrained
    /\ e \in timers
    /\ timers' = timers \ {e}
    /\ pending' = {f \in pending : f.id # e.id}
    /\ Kill(e.proc)
    /\ Disown(e.proc)
    /\ UNCHANGED <<phase, nextId, buf, rowsOf, inbox, out, ran>>

\* The timeout of a call: the handler looks at nothing but its own closure.
TimerFire(e) ==
    /\ MicrotasksDrained
    /\ e \in timers
    /\ timers' = timers \ {e}
    /\ pending' = {f \in pending : f.id # e.id}
    /\ Kill(e.proc)
    /\ Disown(e.proc)
    /\ Reject({e})
    /\ UNCHANGED <<nextId, buf, rowsOf, inbox, out, ran>>

\* Mutant: every outstanding call is failed, whichever process it was sent to.
StragglersAll(p) == pending

\* The calls a lost process still owed an answer.
Stragglers(p) == {e \in pending : e.proc = p}

\* Mutant: the timers of the failed calls are left armed.
SettleTimersArmed(p) ==
    /\ Disown(p)
    /\ pending' = pending \ Stragglers(p)
    /\ UNCHANGED timers
    /\ Reject(Stragglers(p))
    /\ os' = [os EXCEPT ![p] = "reaped"]
    /\ UNCHANGED <<nextId, buf, rowsOf, inbox, out, ran>>

\* Mutant: a process that was disowned already has nothing left to settle.
SettleOwnerOnly(p) ==
    LET failed == IF proc = p THEN Stragglers(p) ELSE {} IN
    /\ Disown(p)
    /\ pending' = pending \ failed
    /\ timers' = timers \ failed
    /\ Reject(failed)
    /\ os' = [os EXCEPT ![p] = "reaped"]
    /\ UNCHANGED <<nextId, buf, rowsOf, inbox, out, ran>>

\* A process is done for good: what was sent to it is failed.
Settle(p) ==
    /\ Disown(p)
    /\ pending' = pending \ Stragglers(p)
    /\ timers' = timers \ Stragglers(p)
    /\ Reject(Stragglers(p))
    /\ os' = [os EXCEPT ![p] = "reaped"]
    /\ UNCHANGED <<nextId, buf, rowsOf, inbox, out, ran>>

\* onExit(): may come before the last of the process's output has been read.
OnExit(p) == MicrotasksDrained /\ os[p] = "dead" /\ Settle(p)

\* onSpawnError(): emitted by process.nextTick, so before any other event.
OnSpawnError(p) == os[p] = "stillborn" /\ Settle(p)

\* The answer carried by a finished line, matched by id alone; an answer from a
\* process that was given up on counts like any other.
Deliver(f) ==
    LET found == {e \in pending : e.id = f.id} IN
    /\ pending' = pending \ found
    /\ timers' = timers \ found
    /\ IF found # {} /\ f.ok THEN restarts' = 0 ELSE UNCHANGED restarts
    /\ phase' = [c \in Calls |-> IF ~\E e \in found : e.call = c THEN phase[c]
                                 ELSE IF f.ok THEN "answered" ELSE "failed"]
    /\ rowsOf' = [c \in Calls |-> IF f.ok /\ \E e \in found : e.call = c
                                  THEN f.call ELSE rowsOf[c]]

\* What is between two newlines parses only if it is one whole response.
IsResponse(line) == /\ Len(line) = 2
                    /\ line[1] = [line[2] EXCEPT !.last = FALSE]

\* onData(), one fragment at a time: a larger chunk is several of these.
OnData(p) ==
    /\ MicrotasksDrained
    /\ out[p] # <<>>
    /\ out' = [out EXCEPT ![p] = Tail(@)]
    /\ LET f == Head(out[p]) IN
       \/ /\ ~f.last
          /\ buf' = Append(buf, f)
          /\ UNCHANGED <<pending, timers, restarts, phase, rowsOf>>
       \/ /\ f.last
          /\ buf' = <<>>
          /\ IF IsResponse(Append(buf, f)) THEN Deliver(f)
             ELSE UNCHANGED <<pending, timers, restarts, phase, rowsOf>>
    /\ UNCHANGED <<proc, nextId, os, inbox, ran>>

\* stop(): not counted as a loss, and what was sent is left to the exit event.
Stop ==
    /\ proc # NoProc
    /\ proc' = NoProc
    /\ Kill(proc)
    /\ UNCHANGED <<pending, nextId, buf, restarts, timers, callVars, inbox, out, ran>>

-------------------------------------------------------------------------------
(* The processes: the read-run-answer loop of the boot script. *)

\* Mutant: the loop answers a request without taking its line off the pipe.
RunRequestAgain(p) ==
    /\ Alive(p) /\ inbox[p] # <<>>
    /\ LET r == Head(inbox[p]) IN
       /\ \E ok \in BOOLEAN :
            LET half(last) == [id |-> r.id, call |-> r.call, ok |-> ok, last |-> last]
            IN  out' = [out EXCEPT ![p] = @ \o <<half(FALSE), half(TRUE)>>]
       /\ ran' = [ran EXCEPT ![r.call] = @ + 1]
    /\ UNCHANGED <<nodeVars, callVars, os, inbox>>

\* One request is run and its one line written; ok is the cmdlet's outcome.
RunRequest(p) ==
    /\ Alive(p) /\ inbox[p] # <<>>
    /\ LET r == Head(inbox[p]) IN
       /\ \E ok \in BOOLEAN :
            LET half(last) == [id |-> r.id, call |-> r.call, ok |-> ok, last |-> last]
            IN  out' = [out EXCEPT ![p] = @ \o <<half(FALSE), half(TRUE)>>]
       /\ ran' = [ran EXCEPT ![r.call] = @ + 1]
    /\ inbox' = [inbox EXCEPT ![p] = Tail(@)]
    /\ UNCHANGED <<nodeVars, callVars, os>>

\* The process ends, by itself or by the signal, perhaps in the middle of a line.
Die(p) ==
    /\ Alive(p)
    /\ os' = [os EXCEPT ![p] = "dead"]
    /\ inbox' = [inbox EXCEPT ![p] = <<>>]
    /\ \E lost \in {0, 1, 2} :
         /\ lost <= Len(out[p])
         /\ out' = [out EXCEPT ![p] = SubSeq(@, 1, Len(@) - lost)]
    /\ UNCHANGED <<nodeVars, callVars, ran>>

-------------------------------------------------------------------------------

Next ==
    \/ \E c \in Calls : \/ InvokeRunning(c) \/ InvokeStarting(c) \/ StartThrows(c)
                        \/ Resume(c)
    \/ \E e \in timers : TimerFire(e)
    \/ \E p \in Calls : \/ OnData(p) \/ OnExit(p) \/ OnSpawnError(p)
                        \/ RunRequest(p) \/ Die(p)
    \/ Stop

\* Node runs what is due: continuations, spawn failures, expired timers.  Nothing
\* is assumed of a process: it may hang, and ignore the signal that should end it.
Fairness ==
    /\ \A c \in Calls : WF_vars(Resume(c)) /\ WF_vars(OnSpawnError(c))
    /\ WF_vars(\E e \in timers : TimerFire(e))

Spec == Init /\ [][Next]_vars
FairSpec == Spec /\ Fairness

-------------------------------------------------------------------------------
(* Properties. *)

\* Exactly the outstanding calls have a timer armed.  A timer left behind by a
\* settled call would kill a healthy process, a call without one could hang.
TimersMatchPending == timers = pending

\* A promise is waiting just when an entry can still settle it, and no entry is for a
\* process whose end was already handled: nothing but its own timeout would fail it.
NoStrandedCall ==
    /\ \A c \in Calls : phase[c] = "waiting" <=> \E e \in pending : e.call = c
    /\ \A e \in pending : os[e.proc] # "reaped"

\* New calls are never written to a process that was killed or is known to be gone.
SlotIsUsable == proc # NoProc => os[proc] \in {"running", "stillborn", "dead"}

\* A process nobody will write to again has been told to end: however calls, timeouts
\* and restarts interleave there is no second pwsh running on the host.
NoOrphanProcess == \A p \in Calls : os[p] = "running" => p = proc

\* The slot and the processes of the host agree: what the slot names can be written to, and
\* what it does not name has been told to end.
SlotIsTheProcess == SlotIsUsable /\ NoOrphanProcess

\* At most maxQueue calls are outstanding, those of lost processes included.
QueueBound == Cardinality(pending) <= MaxQueue

\* Rows are handed to the call that asked for them, and only after its cmdlet ran.
OwnRows == \A c \in Calls : phase[c] = "answered" => rowsOf[c] = c /\ ran[c] > 0

\* The end of a process costs at most one restart, whether the timeout, the exit event
\* or stop() came first; only a successful answer forgives the losses.
EachLossCountedOnce ==
    [][restarts' # restarts => \/ restarts' = 0 /\ \E c \in Calls : phase'[c] = "answered" /\ phase[c] = "waiting"
                               \/ /\ restarts' = restarts + 1
                                  /\ proc # NoProc /\ proc' = NoProc]_vars

\* The late end of a process already replaced leaves the replacement's slot, its
\* outstanding calls and the restart count alone.
LateExitIsHarmless ==
    [][\A p \in Calls : p # proc /\ os[p] # "reaped" /\ os'[p] = "reaped" =>
         /\ UNCHANGED <<proc, restarts>>
         /\ {e \in pending : e.proc # p} = pending']_vars

\* Once every earlier process is gone and its output read, a whole response of the one
\* now serving, to a call still outstanding, settles that call.  The timeout kills the
\* process because "a half-consumed stdout stream would desynchronise the framing": the
\* half line is in `buf`, which the replacement inherits.
EarlierProcessesGone ==
    \A q \in Calls \ {proc} : os[q] \in {"unborn", "reaped"} /\ out[q] = <<>>

AnswerReachesCaller ==
    [][\A e \in pending :
         LET f == Head(out[proc]) IN
         /\ EarlierProcessesGone
         /\ e.proc = proc /\ out[proc] # <<>>
         /\ f.id = e.id /\ f.last
         /\ out'[proc] = Tail(out[proc]) /\ UNCHANGED os
         => e \notin pending']_vars

\* The detailed machine does what CallService promises: each call is settled once, its
\* cmdlet is run at most once, and rows come only from a cmdlet that was run.
StatusOf == [c \in Calls |-> IF phase[c] \in {"starting", "waiting"} THEN "open" ELSE phase[c]]
Service == INSTANCE CallService WITH status <- StatusOf
ImplementsService == Service!Spec

\* No call waits for ever, even on a process that neither answers nor dies.
EveryCallSettles == Service!AllSettle
===============================================================================
