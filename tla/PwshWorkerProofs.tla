--------------------------- MODULE PwshWorkerProofs ---------------------------
(***************************************************************************)
(* Proofs about PwshWorker, for every set of calls and all limits.         *)
(***************************************************************************)
EXTENDS PwshWorker, FiniteSetTheorems, SequenceTheorems, TLAPS

-------------------------------------------------------------------------------
(* Type correctness. *)

\* What the shared pieces do to the types they touch.
LEMMA DisownType ==
    ASSUME TypeOK, NEW p \in Calls, Disown(p)
    PROVE  proc' \in Calls \cup {NoProc} /\ restarts' \in Nat
BY DEF Disown, TypeOK

LEMMA SubmitType ==
    ASSUME TypeOK, NEW c \in Calls, proc # NoProc, Submit(c)
    PROVE  /\ pending' \subseteq Entry /\ timers' \subseteq Entry
           /\ nextId' \in Nat
           /\ phase' \in [Calls -> Phases]
           /\ inbox' \in [Calls -> Seq(Request)]
<1> DEFINE e == [id |-> nextId, call |-> c, proc |-> proc]
<1>1. proc \in Calls /\ e \in Entry
  BY DEF TypeOK, Entry
<1>2. [id |-> e.id, call |-> c] \in Request
  BY <1>1 DEF Request, TypeOK
<1>3. Put(e) \subseteq Entry
  BY <1>1 DEF Put, TypeOK
<1>4. CASE QueueFull /\ FailCall(c) /\ UNCHANGED <<pending, nextId, timers, inbox>>
  BY <1>4 DEF TypeOK, FailCall, Phases
<1>5. CASE /\ nextId' = FreshId
           /\ pending' = Put(e)
           /\ timers' = timers \cup {e}
           /\ phase' = [phase EXCEPT ![c] = "waiting"]
           /\ inbox' = IF Alive(proc)
                       THEN [inbox EXCEPT ![proc] = Append(@, [id |-> e.id, call |-> c])]
                       ELSE inbox
  BY <1>1, <1>2, <1>3, <1>5 DEF TypeOK, FreshId, Phases
<1>6. CASE nextId' = FreshId /\ FailCall(c) /\ UNCHANGED <<pending, timers, inbox>>
  BY <1>6 DEF TypeOK, FailCall, FreshId, Phases
<1> QED
  BY <1>4, <1>5, <1>6 DEF Submit

LEMMA SettleType ==
    ASSUME TypeOK, NEW p \in Calls, Settle(p)
    PROVE  TypeOK'
<1>1. proc' \in Calls \cup {NoProc} /\ restarts' \in Nat
  BY DisownType DEF Settle
<1>2. os' \in [Calls -> OsStates]
  BY DEF TypeOK, Settle, OsStates
<1>3. phase' \in [Calls -> Phases]
  BY DEF TypeOK, Settle, Reject, Phases
<1> QED
  BY <1>1, <1>2, <1>3 DEF TypeOK, Settle

LEMMA TypeStep == TypeOK /\ [Next]_vars => TypeOK'
<1> SUFFICES ASSUME TypeOK, [Next]_vars
             PROVE  TypeOK'
  OBVIOUS
<1>1. ASSUME NEW c \in Calls, InvokeRunning(c)
      PROVE  TypeOK'
  BY <1>1, SubmitType DEF TypeOK, InvokeRunning
<1>2. ASSUME NEW c \in Calls, InvokeStarting(c)
      PROVE  TypeOK'
  BY <1>2 DEF TypeOK, InvokeStarting, Phases, OsStates
<1>3. ASSUME NEW c \in Calls, StartThrows(c)
      PROVE  TypeOK'
  BY <1>3 DEF TypeOK, StartThrows, FailCall, Phases, nodeVars, osVars
<1>4. ASSUME NEW c \in Calls, Resume(c)
      PROVE  TypeOK'
  <2>1. CASE proc = NoProc /\ FailCall(c) /\ UNCHANGED <<pending, nextId, timers, inbox>>
    BY <1>4, <2>1 DEF TypeOK, Resume, FailCall, Phases
  <2>2. CASE proc # NoProc /\ Submit(c)
    BY <1>4, <2>2, SubmitType DEF TypeOK, Resume
  <2> QED
    BY <1>4, <2>1, <2>2 DEF Resume
<1>5. ASSUME NEW e \in timers, TimerFire(e)
      PROVE  TypeOK'
  <2>1. e.proc \in Calls
    BY DEF TypeOK, Entry
  <2>2. proc' \in Calls \cup {NoProc} /\ restarts' \in Nat
    BY <1>5, <2>1, DisownType DEF TimerFire
  <2>3. phase' \in [Calls -> Phases]
    BY <1>5 DEF TypeOK, TimerFire, Reject, Phases
  <2>4. os' \in [Calls -> OsStates]
    BY <1>5, <2>1 DEF TypeOK, TimerFire, Kill, OsStates
  <2> QED
    BY <1>5, <2>2, <2>3, <2>4 DEF TypeOK, TimerFire
<1>6. ASSUME NEW p \in Calls, OnData(p)
      PROVE  TypeOK'
  <2> DEFINE f == Head(out[p])
  <2>1. f \in Fragment /\ Tail(out[p]) \in Seq(Fragment)
    BY <1>6 DEF OnData, TypeOK
  <2>2. out' \in [Calls -> Seq(Fragment)]
    BY <1>6, <2>1 DEF OnData, TypeOK
  <2>3. ASSUME Deliver(f)
        PROVE  /\ pending' \subseteq Entry /\ timers' \subseteq Entry
               /\ restarts' \in Nat
               /\ phase' \in [Calls -> Phases]
               /\ rowsOf' \in [Calls -> Calls \cup {NoProc}]
    <3>1. f.call \in Calls
      BY <2>1 DEF Fragment
    <3>2. pending' \subseteq Entry /\ timers' \subseteq Entry /\ restarts' \in Nat
      BY <2>3 DEF Deliver, TypeOK
    <3>3. phase' \in [Calls -> Phases]
      BY <2>3 DEF Deliver, TypeOK, Phases
    <3>4. rowsOf' \in [Calls -> Calls \cup {NoProc}]
      BY <2>3, <3>1 DEF Deliver, TypeOK
    <3> QED
      BY <3>2, <3>3, <3>4
  <2>4. /\ pending' \subseteq Entry /\ timers' \subseteq Entry
        /\ restarts' \in Nat
        /\ phase' \in [Calls -> Phases]
        /\ rowsOf' \in [Calls -> Calls \cup {NoProc}]
    BY <1>6, <2>3 DEF OnData, TypeOK
  <2>5. buf' \in Seq(Fragment)
    <3>1. buf' = Append(buf, f) \/ buf' = <<>>
      BY <1>6 DEF OnData
    <3>2. Append(buf, f) \in Seq(Fragment)
      BY <2>1 DEF TypeOK
    <3>3. <<>> \in Seq(Fragment)
      BY EmptySeq
    <3> HIDE DEF f
    <3> QED
      BY <3>1, <3>2, <3>3
  <2> QED
    BY <1>6, <2>2, <2>4, <2>5 DEF OnData, TypeOK
<1>7. ASSUME NEW p \in Calls, OnExit(p)
      PROVE  TypeOK'
  BY <1>7, SettleType DEF OnExit
<1>8. ASSUME NEW p \in Calls, OnSpawnError(p)
      PROVE  TypeOK'
  BY <1>8, SettleType DEF OnSpawnError
<1>9. ASSUME NEW p \in Calls, RunRequest(p)
      PROVE  TypeOK'
  <2>1. Head(inbox[p]) \in Request /\ Tail(inbox[p]) \in Seq(Request)
    BY <1>9 DEF RunRequest, TypeOK
  <2>2. PICK ok \in BOOLEAN :
          out' = [out EXCEPT ![p] = @ \o
                    << [id |-> Head(inbox[p]).id, call |-> Head(inbox[p]).call,
                        ok |-> ok, last |-> FALSE],
                       [id |-> Head(inbox[p]).id, call |-> Head(inbox[p]).call,
                        ok |-> ok, last |-> TRUE] >>]
    BY <1>9 DEF RunRequest
  <2>3. << [id |-> Head(inbox[p]).id, call |-> Head(inbox[p]).call,
            ok |-> ok, last |-> FALSE],
           [id |-> Head(inbox[p]).id, call |-> Head(inbox[p]).call,
            ok |-> ok, last |-> TRUE] >> \in Seq(Fragment)
    BY <2>1 DEF Request, Fragment
  <2>4. out' \in [Calls -> Seq(Fragment)]
    BY <2>2, <2>3 DEF TypeOK
  <2>5. inbox' \in [Calls -> Seq(Request)]
    BY <1>9, <2>1 DEF RunRequest, TypeOK
  <2>6. ran' = [ran EXCEPT ![Head(inbox[p]).call] = @ + 1]
    BY <1>9 DEF RunRequest
  <2>7. Head(inbox[p]).call \in Calls
    BY <2>1 DEF Request
  <2>8. ran' \in [Calls -> Nat]
    BY <2>6, <2>7 DEF TypeOK
  <2> QED
    BY <1>9, <2>4, <2>5, <2>8 DEF RunRequest, TypeOK, nodeVars, callVars
<1>10. ASSUME NEW p \in Calls, Die(p)
       PROVE  TypeOK'
  <2>1. PICK lost \in {0, 1, 2} :
          /\ lost <= Len(out[p])
          /\ out' = [out EXCEPT ![p] = SubSeq(@, 1, Len(@) - lost)]
    BY <1>10 DEF Die
  <2>2. SubSeq(out[p], 1, Len(out[p]) - lost) \in Seq(Fragment)
    BY <2>1, SubSeqProperties DEF TypeOK
  <2>3. out' \in [Calls -> Seq(Fragment)]
    BY <2>1, <2>2 DEF TypeOK
  <2>4. inbox' \in [Calls -> Seq(Request)] /\ os' \in [Calls -> OsStates]
    BY <1>10 DEF Die, TypeOK, OsStates
  <2> QED
    BY <1>10, <2>3, <2>4 DEF Die, TypeOK, nodeVars, callVars
<1>11. ASSUME Stop
       PROVE  TypeOK'
  BY <1>11 DEF Stop, Kill, TypeOK, OsStates, callVars
<1>12. CASE UNCHANGED vars
  BY <1>12 DEF TypeOK, vars, nodeVars, callVars, osVars
<1> QED
  BY <1>1, <1>2, <1>3, <1>4, <1>5, <1>6, <1>7, <1>8, <1>9, <1>10, <1>11, <1>12 DEF Next

\* The state stays well typed.
THEOREM TypeCorrect == Spec => []TypeOK
<1>1. Init => TypeOK
  BY DEF Init, TypeOK, Phases, OsStates
<1> QED
  BY <1>1, TypeStep, PTL DEF Spec

-------------------------------------------------------------------------------
(* The inductive invariant behind the safety properties. *)

\* An entry is of a call that waits, to a process whose end is still to be handled.
EntriesOpen ==
    \A e \in pending : /\ phase[e.call] = "waiting"
                       /\ os[e.proc] \notin {"unborn", "reaped"}
                       /\ e.id < nextId

WaitingHasEntry == \A c \in Calls : phase[c] = "waiting" => \E e \in pending : e.call = c

EntriesDistinct ==
    \A e, f \in pending : e.id = f.id \/ e.call = f.call => e = f

\* What the Map, the timers and the promises know of each other.
Ledger == TimersMatchPending /\ EntriesOpen /\ WaitingHasEntry /\ EntriesDistinct

\* What is known of the processes; a name is not used before its call is made.
Processes ==
    /\ SlotIsUsable
    /\ NoOrphanProcess
    /\ \A c \in Calls : phase[c] = "idle" => os[c] = "unborn"

Bounded == IsFiniteSet(pending) /\ QueueBound

IInv == TypeOK /\ Ledger /\ Processes /\ Bounded

\* What a call refused at the door leaves alone.
LEMMA FailKeepsLedger ==
    ASSUME TypeOK, Ledger, NEW c \in Calls, phase[c] \in {"idle", "starting"},
           FailCall(c), UNCHANGED <<pending, timers, os>>, nextId' >= nextId, nextId' \in Nat
    PROVE  Ledger'
<1>1. \A d \in Calls : phase'[d] = "waiting" <=> phase[d] = "waiting"
  BY DEF FailCall, TypeOK
<1>2. \A e \in pending : e.call \in Calls /\ e.proc \in Calls /\ e.id \in Nat
  BY DEF TypeOK, Entry
<1>3. TimersMatchPending' /\ EntriesDistinct'
  BY DEF Ledger, TimersMatchPending, EntriesDistinct
<1>4. EntriesOpen'
  BY <1>1, <1>2 DEF Ledger, EntriesOpen, TypeOK
<1>5. WaitingHasEntry'
  BY <1>1 DEF Ledger, WaitingHasEntry
<1> QED
  BY <1>3, <1>4, <1>5 DEF Ledger

\* A request is sent: one more entry, of a fresh id and a call that had none.
LEMMA SubmitKeeps ==
    ASSUME TypeOK, Ledger, Processes, Bounded,
           NEW c \in Calls, phase[c] \in {"idle", "starting"}, proc # NoProc,
           Submit(c), UNCHANGED os
    PROVE  Ledger' /\ Bounded'
<1> DEFINE e == [id |-> nextId, call |-> c, proc |-> proc]
<1>1. nextId \in Nat /\ proc \in Calls /\ e \in Entry
  BY DEF TypeOK, Entry
<1>2. \A f \in pending : /\ f.call \in Calls /\ f.proc \in Calls /\ f.id \in Nat
                         /\ f.id < nextId /\ f.call # c
  BY DEF TypeOK, Entry, Ledger, EntriesOpen
<1>3. CASE QueueFull /\ FailCall(c) /\ UNCHANGED <<pending, nextId, timers, inbox>>
  BY <1>3, <1>1, FailKeepsLedger DEF Bounded, QueueBound
<1>4. CASE ~QueueFull /\ nextId' = FreshId /\ FailCall(c)
           /\ UNCHANGED <<pending, timers, inbox>>
  BY <1>4, <1>1, FailKeepsLedger DEF Bounded, QueueBound, FreshId
<1>5. CASE /\ ~QueueFull
           /\ nextId' = FreshId
           /\ pending' = Put(e)
           /\ timers' = timers \cup {e}
           /\ phase' = [phase EXCEPT ![c] = "waiting"]
  <2>1. pending' = pending \cup {e}
    BY <1>2, <1>5 DEF Put
  <2>2. \A d \in Calls : phase'[d] = IF d = c THEN "waiting" ELSE phase[d]
    BY <1>5 DEF TypeOK
  <2>3. nextId' = nextId + 1
    BY <1>5 DEF FreshId
  <2>4. os[proc] \notin {"unborn", "reaped"}
    BY DEF Processes, SlotIsUsable
  <2>5. e.id = nextId /\ e.call = c /\ e.proc = proc
    OBVIOUS
  <2> HIDE DEF e
  <2>6. TimersMatchPending'
    BY <2>1, <1>5 DEF Ledger, TimersMatchPending
  <2>7. EntriesOpen'
    BY <1>1, <1>2, <2>1, <2>2, <2>3, <2>4, <2>5 DEF Ledger, EntriesOpen
  <2>8. WaitingHasEntry'
    BY <2>1, <2>2, <2>5 DEF Ledger, WaitingHasEntry
  <2>9. EntriesDistinct'
    BY <1>2, <2>1, <2>5 DEF Ledger, EntriesDistinct
  <2>10. Bounded'
    <3>1. e \notin pending
      BY <1>2, <2>5
    <3>2. IsFiniteSet(pending') /\ Cardinality(pending') = Cardinality(pending) + 1
      BY <2>1, <3>1, FS_AddElement DEF Bounded
    <3>3. Cardinality(pending) \in Nat
      BY FS_CardinalityType DEF Bounded
    <3> QED
      BY <3>2, <3>3, <1>5, LimitsAssumption DEF Bounded, QueueBound, QueueFull
  <2> QED
    BY <2>6, <2>7, <2>8, <2>9, <2>10 DEF Ledger
<1> QED
  BY <1>3, <1>4, <1>5 DEF Submit

\* Calls are settled: their entries and timers go, and nobody else's.
LEMMA SettlingKeeps ==
    ASSUME TypeOK, Ledger, Bounded, NEW D \in SUBSET pending,
           pending' = pending \ D, timers' = timers \ D, UNCHANGED nextId,
           \A c \in Calls : IF \E e \in D : e.call = c
                            THEN phase'[c] \in {"answered", "failed"}
                            ELSE phase'[c] = phase[c],
           \A e \in pending \ D : os'[e.proc] \notin {"unborn", "reaped"}
    PROVE  Ledger' /\ Bounded'
<1>1. \A e \in pending : e.call \in Calls
  BY DEF TypeOK, Entry
<1>2. \A e \in pending \ D : ~ \E f \in D : f.call = e.call
  BY DEF Ledger, EntriesDistinct
<1>3. TimersMatchPending' /\ EntriesDistinct'
  BY DEF Ledger, TimersMatchPending, EntriesDistinct
<1>4. EntriesOpen'
  BY <1>1, <1>2 DEF Ledger, EntriesOpen
<1>5. WaitingHasEntry'
  BY DEF Ledger, WaitingHasEntry
<1>6. Bounded'
  <2>1. IsFiniteSet(pending') /\ Cardinality(pending') <= Cardinality(pending)
    BY FS_Subset DEF Bounded
  <2>2. Cardinality(pending) \in Nat /\ Cardinality(pending') \in Nat
    BY <2>1, FS_CardinalityType DEF Bounded
  <2> QED
    BY <2>1, <2>2, LimitsAssumption DEF Bounded, QueueBound
<1> QED
  BY <1>3, <1>4, <1>5, <1>6 DEF Ledger

\* The end of a process.
LEMMA SettleKeeps ==
    ASSUME TypeOK, Ledger, Processes, Bounded,
           NEW p \in Calls, os[p] \in {"stillborn", "dead"}, Settle(p)
    PROVE  Ledger' /\ Processes' /\ Bounded'
<1>1. \A q \in Calls : os'[q] = IF q = p THEN "reaped" ELSE os[q]
  BY DEF Settle, TypeOK
<1>2. \A e \in pending : e.call \in Calls /\ e.proc \in Calls
  BY DEF TypeOK, Entry
<1>3. Stragglers(p) \in SUBSET pending
  BY DEF Stragglers
<1>4. \A c \in Calls : IF \E e \in Stragglers(p) : e.call = c
                       THEN phase'[c] = "failed" ELSE phase'[c] = phase[c]
  BY <1>3 DEF Settle, Reject, Ledger, EntriesOpen
<1>5. \A e \in pending \ Stragglers(p) : os'[e.proc] \notin {"unborn", "reaped"}
  BY <1>1, <1>2 DEF Stragglers, Ledger, EntriesOpen
<1>6. Ledger' /\ Bounded'
  <2>1. pending' = pending \ Stragglers(p) /\ timers' = timers \ Stragglers(p) /\ nextId' = nextId
    BY DEF Settle
  <2> QED
    BY <1>3, <1>4, <1>5, <2>1, SettlingKeeps
<1>7. Processes'
  <2>1. proc' = IF proc = p THEN NoProc ELSE proc
    BY DEF Settle, Disown
  <2>2. \A c \in Calls : phase'[c] = "idle" => phase[c] = "idle"
    BY <1>4
  <2>3. proc \in Calls \cup {NoProc}
    BY DEF TypeOK
  <2>4. SlotIsUsable'
    BY <1>1, <2>1, <2>3 DEF Processes, SlotIsUsable
  <2>5. NoOrphanProcess'
    BY <1>1, <2>1 DEF Processes, NoOrphanProcess
  <2> QED
    BY <1>1, <2>2, <2>4, <2>5 DEF Processes
<1> QED
  BY <1>6, <1>7

\* Every step of the worker, of a process and of stop() keeps the invariant.
LEMMA Inductive == IInv /\ [Next]_vars => IInv'
<1> SUFFICES ASSUME TypeOK, Ledger, Processes, Bounded, [Next]_vars
             PROVE  Ledger' /\ Processes' /\ Bounded'
  BY TypeStep DEF IInv
<1> USE DEF Phases
<1>a. \A e \in pending : e.call \in Calls /\ e.proc \in Calls /\ e.id \in Nat
  BY DEF TypeOK, Entry
<1>b. proc \in Calls \cup {NoProc} /\ nextId \in Nat
  BY DEF TypeOK
<1>1. ASSUME NEW c \in Calls, InvokeRunning(c)
      PROVE  Ledger' /\ Processes' /\ Bounded'
  <2>1. Ledger' /\ Bounded'
    BY <1>1, SubmitKeeps DEF InvokeRunning
  <2>2. \A d \in Calls : phase'[d] = "idle" => phase[d] = "idle"
    BY <1>1 DEF InvokeRunning, Submit, FailCall, TypeOK
  <2> QED
    BY <1>1, <2>1, <2>2 DEF InvokeRunning, Processes, SlotIsUsable, NoOrphanProcess
<1>2. ASSUME NEW c \in Calls, InvokeStarting(c)
      PROVE  Ledger' /\ Processes' /\ Bounded'
  <2>1. /\ phase[c] = "idle" /\ proc = NoProc /\ proc' = c
        /\ UNCHANGED <<pending, timers, nextId>>
        /\ \A d \in Calls : phase'[d] = IF d = c THEN "starting" ELSE phase[d]
        /\ \A q \in Calls : q # c => os'[q] = os[q]
        /\ os'[c] \in {"running", "stillborn"}
    BY <1>2 DEF InvokeStarting, TypeOK
  <2>2. \A e \in pending : e.call # c /\ e.proc # c
    BY <2>1 DEF Ledger, EntriesOpen, Processes
  <2>3. TimersMatchPending' /\ EntriesDistinct' /\ Bounded'
    BY <2>1 DEF Ledger, TimersMatchPending, EntriesDistinct, Bounded, QueueBound
  <2>4. EntriesOpen'
    BY <1>a, <2>1, <2>2 DEF Ledger, EntriesOpen
  <2>5. WaitingHasEntry'
    BY <2>1 DEF Ledger, WaitingHasEntry
  <2>6. Processes'
    BY <2>1, CallsAssumption DEF Processes, SlotIsUsable, NoOrphanProcess
  <2> QED
    BY <2>3, <2>4, <2>5, <2>6 DEF Ledger
<1>3. ASSUME NEW c \in Calls, StartThrows(c)
      PROVE  Ledger' /\ Processes' /\ Bounded'
  <2>1. Ledger'
    BY <1>3, <1>b, FailKeepsLedger DEF StartThrows, nodeVars, osVars
  <2>2. Processes'
    BY <1>3 DEF StartThrows, nodeVars, osVars, FailCall, TypeOK, Processes,
                SlotIsUsable, NoOrphanProcess
  <2> QED
    BY <1>3, <2>1, <2>2 DEF StartThrows, nodeVars, Bounded, QueueBound
<1>4. ASSUME NEW c \in Calls, Resume(c)
      PROVE  Ledger' /\ Processes' /\ Bounded'
  <2>1. UNCHANGED <<proc, os>> /\ phase[c] = "starting"
    BY <1>4 DEF Resume
  <2>2. \A d \in Calls : phase'[d] = "idle" => phase[d] = "idle"
    BY <1>4 DEF Resume, Submit, FailCall, TypeOK
  <2>3. Processes'
    BY <2>1, <2>2 DEF Processes, SlotIsUsable, NoOrphanProcess
  <2>4. CASE proc = NoProc /\ FailCall(c) /\ UNCHANGED <<pending, nextId, timers, inbox>>
    BY <1>b, <2>1, <2>3, <2>4, FailKeepsLedger DEF Bounded, QueueBound
  <2>5. CASE proc # NoProc /\ Submit(c)
    BY <2>1, <2>3, <2>5, SubmitKeeps
  <2> QED
    BY <1>4, <2>4, <2>5 DEF Resume
<1>5. ASSUME NEW e \in timers, TimerFire(e)
      PROVE  Ledger' /\ Processes' /\ Bounded'
  <2>1. e \in pending
    BY DEF Ledger, TimersMatchPending
  <2>2. {f \in pending : f.id # e.id} = pending \ {e}
    BY <2>1 DEF Ledger, EntriesDistinct
  <2>3. \A d \in Calls : IF \E f \in {e} : f.call = d
                         THEN phase'[d] = "failed" ELSE phase'[d] = phase[d]
    BY <1>5, <2>1 DEF TimerFire, Reject, Ledger, EntriesOpen
  <2>4. \A q \in Calls : os'[q] = IF q = e.proc /\ os[q] = "running" THEN "signalled" ELSE os[q]
    BY <1>5 DEF TimerFire, Kill, TypeOK
  <2>5. \A f \in pending \ {e} : os'[f.proc] \notin {"unborn", "reaped"}
    BY <1>a, <2>4 DEF Ledger, EntriesOpen
  <2>6. pending' = pending \ {e} /\ timers' = timers \ {e} /\ nextId' = nextId
    BY <1>5, <2>2 DEF TimerFire
  <2>7. Ledger' /\ Bounded'
    BY <2>1, <2>3, <2>5, <2>6, SettlingKeeps
  <2>8. proc' = IF proc = e.proc THEN NoProc ELSE proc
    BY <1>5 DEF TimerFire, Disown
  <2>9. \A d \in Calls : phase'[d] = "idle" => phase[d] = "idle"
    BY <2>3
  <2>10. Processes'
    <3>1. SlotIsUsable'
      BY <1>b, <2>4, <2>8 DEF Processes, SlotIsUsable
    <3>2. NoOrphanProcess'
      BY <1>a, <2>1, <2>4, <2>8 DEF Processes, NoOrphanProcess
    <3>3. \A d \in Calls : phase'[d] = "idle" => os'[d] = "unborn"
      BY <2>4, <2>9 DEF Processes
    <3> QED
      BY <3>1, <3>2, <3>3 DEF Processes
  <2> QED
    BY <2>7, <2>10
<1>6. ASSUME NEW p \in Calls, OnData(p)
      PROVE  Ledger' /\ Processes' /\ Bounded'
  <2>1. UNCHANGED <<proc, nextId, os>>
    BY <1>6 DEF OnData
  <2>2. CASE UNCHANGED <<pending, timers, phase>>
    BY <2>1, <2>2 DEF Ledger, TimersMatchPending, EntriesOpen, WaitingHasEntry,
                      EntriesDistinct, Processes, SlotIsUsable, NoOrphanProcess,
                      Bounded, QueueBound
  <2>3. ASSUME NEW f, Deliver(f)
        PROVE  Ledger' /\ Processes' /\ Bounded'
    <3> DEFINE found == {e \in pending : e.id = f.id}
    <3>1. pending' = pending \ found /\ timers' = timers \ found
      BY <2>3 DEF Deliver
    <3>2. \A d \in Calls : IF \E e \in found : e.call = d
                           THEN phase'[d] \in {"answered", "failed"}
                           ELSE phase'[d] = phase[d]
      BY <2>3 DEF Deliver
    <3>3. found \in SUBSET pending
      OBVIOUS
    <3> HIDE DEF found
    <3>4. \A e \in pending \ found : os'[e.proc] \notin {"unborn", "reaped"}
      BY <2>1 DEF Ledger, EntriesOpen
    <3>5. Ledger' /\ Bounded'
      BY <2>1, <3>1, <3>2, <3>3, <3>4, SettlingKeeps
    <3>6. \A d \in Calls : phase'[d] = "idle" => phase[d] = "idle"
      BY <3>2
    <3>7. Processes'
      BY <2>1, <3>6 DEF Processes, SlotIsUsable, NoOrphanProcess
    <3> QED
      BY <3>5, <3>7
  <2> QED
    BY <1>6, <2>2, <2>3 DEF OnData
<1>7. ASSUME NEW p \in Calls, OnExit(p)
      PROVE  Ledger' /\ Processes' /\ Bounded'
  BY <1>7, SettleKeeps DEF OnExit
<1>8. ASSUME NEW p \in Calls, OnSpawnError(p)
      PROVE  Ledger' /\ Processes' /\ Bounded'
  BY <1>8, SettleKeeps DEF OnSpawnError
<1>9. ASSUME NEW p \in Calls, RunRequest(p)
      PROVE  Ledger' /\ Processes' /\ Bounded'
  BY <1>9 DEF RunRequest, nodeVars, callVars, Ledger, TimersMatchPending, EntriesOpen,
              WaitingHasEntry, EntriesDistinct, Processes, SlotIsUsable,
              NoOrphanProcess, Bounded, QueueBound
<1>10. ASSUME NEW p \in Calls, Die(p)
       PROVE  Ledger' /\ Processes' /\ Bounded'
  <2>1. UNCHANGED <<nodeVars, callVars>> /\ os[p] \in {"running", "signalled"}
    BY <1>10 DEF Die, Alive
  <2>2. \A q \in Calls : os'[q] = IF q = p THEN "dead" ELSE os[q]
    BY <1>10 DEF Die, TypeOK
  <2>3. Ledger' /\ Bounded'
    BY <1>a, <2>1, <2>2 DEF nodeVars, callVars, Ledger, TimersMatchPending, EntriesOpen,
                            WaitingHasEntry, EntriesDistinct, Bounded, QueueBound
  <2>4. Processes'
    BY <1>b, <2>1, <2>2 DEF nodeVars, callVars, Processes, SlotIsUsable, NoOrphanProcess
  <2> QED
    BY <2>3, <2>4
<1>11. ASSUME Stop
       PROVE  Ledger' /\ Processes' /\ Bounded'
  <2>1. UNCHANGED <<pending, nextId, timers, phase>> /\ proc # NoProc /\ proc' = NoProc
    BY <1>11 DEF Stop, callVars
  <2>2. \A q \in Calls :
          os'[q] = IF q = proc /\ os[q] = "running" THEN "signalled" ELSE os[q]
    BY <1>11 DEF Stop, Kill, TypeOK
  <2>3. Ledger' /\ Bounded'
    BY <1>a, <2>1, <2>2 DEF Ledger, TimersMatchPending, EntriesOpen, WaitingHasEntry,
                            EntriesDistinct, Bounded, QueueBound
  <2>4. Processes'
    BY <1>b, <2>1, <2>2 DEF Processes, SlotIsUsable, NoOrphanProcess
  <2> QED
    BY <2>3, <2>4
<1>12. CASE UNCHANGED vars
  BY <1>12 DEF vars, nodeVars, callVars, osVars, Ledger, TimersMatchPending, EntriesOpen,
               WaitingHasEntry, EntriesDistinct, Processes, SlotIsUsable,
               NoOrphanProcess, Bounded, QueueBound
<1> QED
  BY <1>1, <1>2, <1>3, <1>4, <1>5, <1>6, <1>7, <1>8, <1>9, <1>10, <1>11, <1>12 DEF Next

LEMMA Invariant == Spec => []IInv
<1>1. Init => IInv
  <2>1. Init => TypeOK /\ Ledger /\ Processes
    BY CallsAssumption DEF Init, TypeOK, Phases, OsStates, Ledger, TimersMatchPending,
      EntriesOpen, WaitingHasEntry, EntriesDistinct, Processes, SlotIsUsable, NoOrphanProcess
  <2>2. Init => Bounded
    BY FS_EmptySet, LimitsAssumption DEF Init, Bounded, QueueBound
  <2> QED
    BY <2>1, <2>2 DEF IInv
<1> QED
  BY <1>1, Inductive, PTL DEF Spec

\* A timer is armed for exactly the calls that are outstanding, in every interleaving of
\* answers, timeouts, exits and restarts.
THEOREM TimersAreExact == Spec => []TimersMatchPending
<1>1. IInv => TimersMatchPending
  BY DEF IInv, Ledger
<1> QED
  BY <1>1, Invariant, PTL

\* No promise is left that only a timeout could settle.
THEOREM NobodyStranded == Spec => []NoStrandedCall
<1>1. IInv => NoStrandedCall
  BY DEF IInv, Ledger, EntriesOpen, WaitingHasEntry, NoStrandedCall
<1> QED
  BY <1>1, Invariant, PTL

\* Calls are written only to a process that was not told to end.
THEOREM SlotUsable == Spec => []SlotIsUsable
<1>1. IInv => SlotIsUsable
  BY DEF IInv, Processes
<1> QED
  BY <1>1, Invariant, PTL

\* At most one process is left running on the host.
THEOREM NoOrphans == Spec => []NoOrphanProcess
<1>1. IInv => NoOrphanProcess
  BY DEF IInv, Processes
<1> QED
  BY <1>1, Invariant, PTL

\* The two together: the one process the slot names is the one process that runs.
THEOREM SlotMatches == Spec => []SlotIsTheProcess
<1> QED
  BY SlotUsable, NoOrphans, PTL DEF SlotIsTheProcess

\* The queue keeps its limit.
THEOREM QueueBounded == Spec => []QueueBound
<1>1. IInv => QueueBound
  BY DEF IInv, Bounded
<1> QED
  BY <1>1, Invariant, PTL

-------------------------------------------------------------------------------
(* What a step may never do. *)

\* The restart budget is charged once per lost process, by whichever of its timeout and
\* its exit comes first, and forgiven by a successful answer only.
THEOREM LossesCountedOnce == Spec => EachLossCountedOnce
<1> DEFINE Charge == restarts' # restarts =>
                       \/ restarts' = 0 /\ \E c \in Calls : phase'[c] = "answered" /\ phase[c] = "waiting"
                       \/ restarts' = restarts + 1 /\ proc # NoProc /\ proc' = NoProc
<1>1. IInv /\ [Next]_vars => Charge
  <2> SUFFICES ASSUME IInv, [Next]_vars, restarts' # restarts
               PROVE  Charge
    OBVIOUS
  <2>1. ASSUME NEW p \in Calls, Disown(p)
        PROVE  Charge
    BY <2>1, CallsAssumption DEF Disown
  <2>2. ASSUME NEW e \in timers, TimerFire(e)
        PROVE  Charge
    BY <2>1, <2>2 DEF TimerFire, IInv, TypeOK, Entry
  <2>3. ASSUME NEW p \in Calls, Settle(p)
        PROVE  Charge
    BY <2>1, <2>3 DEF Settle
  <2>4. ASSUME NEW p \in Calls, OnData(p)
        PROVE  Charge
    <3>1. PICK f : Deliver(f)
      BY <2>4 DEF OnData
    <3>2. PICK e \in pending : e.id = f.id /\ f.ok /\ restarts' = 0
      BY <3>1 DEF Deliver
    <3>3. e.call \in Calls /\ phase[e.call] = "waiting"
      BY DEF IInv, Ledger, EntriesOpen, TypeOK, Entry
    <3>4. phase'[e.call] = "answered"
      BY <3>1, <3>2, <3>3 DEF Deliver
    <3> QED
      BY <3>2, <3>3, <3>4
  <2> QED
    BY <2>2, <2>3, <2>4
       DEF Next, InvokeRunning, InvokeStarting, StartThrows, Resume, OnExit, OnSpawnError,
           RunRequest, Die, Stop, vars, nodeVars
<1> QED
  BY <1>1, Invariant, PTL DEF Spec, EachLossCountedOnce

\* The exit of a process that was replaced touches nothing that is its successor's.
THEOREM LateExits == Spec => LateExitIsHarmless
<1> DEFINE Harmless ==
      \A p \in Calls : p # proc /\ os[p] # "reaped" /\ os'[p] = "reaped" =>
        /\ UNCHANGED <<proc, restarts>>
        /\ {e \in pending : e.proc # p} = pending'
<1>1. TypeOK /\ [Next]_vars => Harmless
  <2> SUFFICES ASSUME TypeOK, [Next]_vars, NEW p \in Calls,
                      p # proc, os[p] # "reaped", os'[p] = "reaped"
               PROVE  UNCHANGED <<proc, restarts>> /\ {e \in pending : e.proc # p} = pending'
    OBVIOUS
  <2>1. ASSUME NEW q \in Calls, Settle(q)
        PROVE  UNCHANGED <<proc, restarts>> /\ {e \in pending : e.proc # p} = pending'
    <3>1. q = p
      BY <2>1 DEF Settle, TypeOK
    <3> QED
      BY <2>1, <3>1 DEF Settle, Disown, Stragglers
  <2>2. ASSUME NEW q, Kill(q)
        PROVE  FALSE
    BY <2>2 DEF Kill, TypeOK
  <2>3. CASE UNCHANGED os
    BY <2>3
  <2>4. ASSUME NEW c \in Calls, InvokeStarting(c) \/ Die(c)
        PROVE  FALSE
    BY <2>4 DEF InvokeStarting, Die, TypeOK
  <2> QED
    BY <2>1, <2>2, <2>3, <2>4
       DEF Next, InvokeRunning, StartThrows, Resume, TimerFire, OnData, OnExit,
           OnSpawnError, RunRequest, Stop, vars, osVars
<1> QED
  BY <1>1, TypeCorrect, PTL DEF Spec, LateExitIsHarmless

-------------------------------------------------------------------------------
(* The restart budget. *)

\* A process is in the slot only while there are restarts left, so what is counted goes at
\* most one past them.
WithinRestarts ==
    /\ restarts <= MaxRestarts + 1
    /\ proc # NoProc => restarts <= MaxRestarts

\* Too many processes were lost in a row, and no answer of theirs is awaited any more.
GaveUp == restarts > MaxRestarts /\ pending = {}

GivingUpIsFinal ==
    [][GaveUp => /\ GaveUp' /\ proc' = NoProc
                 /\ \A p \in Calls : os[p] = "unborn" => os'[p] = "unborn"]_vars

LEMMA DisownWithin ==
    ASSUME TypeOK, WithinRestarts, NEW p \in Calls, Disown(p)
    PROVE  WithinRestarts'
BY LimitsAssumption, CallsAssumption DEF TypeOK, WithinRestarts, Disown

LEMMA WithinStep == TypeOK /\ WithinRestarts /\ [Next]_vars => WithinRestarts'
<1> SUFFICES ASSUME TypeOK, WithinRestarts, [Next]_vars
             PROVE  WithinRestarts'
  OBVIOUS
<1>1. ASSUME NEW c \in Calls, InvokeStarting(c)
      PROVE  WithinRestarts'
  BY <1>1 DEF InvokeStarting, WithinRestarts
<1>2. ASSUME NEW e \in timers, TimerFire(e)
      PROVE  WithinRestarts'
  BY <1>2, DisownWithin DEF TimerFire, TypeOK, Entry
<1>3. ASSUME NEW p \in Calls, OnExit(p) \/ OnSpawnError(p)
      PROVE  WithinRestarts'
  BY <1>3, DisownWithin DEF OnExit, OnSpawnError, Settle
<1>4. ASSUME NEW p \in Calls, OnData(p)
      PROVE  WithinRestarts'
  <2>1. proc' = proc /\ restarts' \in {0, restarts}
    BY <1>4 DEF OnData, Deliver
  <2> QED
    BY <2>1, LimitsAssumption DEF TypeOK, WithinRestarts
<1>5. CASE Stop
  BY <1>5 DEF Stop, WithinRestarts
<1>6. CASE UNCHANGED <<proc, restarts>>
  BY <1>6 DEF WithinRestarts
<1> QED
  BY <1>1, <1>2, <1>3, <1>4, <1>5, <1>6
     DEF Next, InvokeRunning, StartThrows, Resume, RunRequest, Die, vars, nodeVars

\* However losses, late answers and stop() interleave, no more than MaxRestarts + 1 processes
\* are lost in a row, and none runs when the restarts are used up.
THEOREM RestartsAreBounded == Spec => []WithinRestarts
<1>1. Init => WithinRestarts
  BY LimitsAssumption DEF Init, WithinRestarts
<1> QED
  BY <1>1, WithinStep, TypeCorrect, PTL DEF Spec

\* "gives up for good": with the restarts used up no process is started any more, unless an
\* answer still awaited from a lost one forgives the losses.
THEOREM GivingUpLasts == Spec => GivingUpIsFinal
<1>1. ASSUME IInv, WithinRestarts, [Next]_vars, GaveUp
      PROVE  /\ GaveUp' /\ proc' = NoProc
             /\ \A p \in Calls : os[p] = "unborn" => os'[p] = "unborn"
  <2>1. proc = NoProc /\ timers = {} /\ ~(restarts <= MaxRestarts)
    BY <1>1, LimitsAssumption DEF GaveUp, WithinRestarts, IInv, Ledger, TimersMatchPending, TypeOK
  <2>2. ASSUME NEW c \in Calls, InvokeRunning(c) \/ InvokeStarting(c)
        PROVE  FALSE
    BY <2>1, <2>2 DEF InvokeRunning, InvokeStarting
  <2>3. ASSUME NEW c \in Calls, StartThrows(c) \/ Resume(c) \/ RunRequest(c)
        PROVE  UNCHANGED <<proc, pending, restarts, os>>
    BY <2>1, <2>3 DEF StartThrows, Resume, RunRequest, nodeVars, osVars
  <2>4. ASSUME NEW p \in Calls, OnData(p)
        PROVE  UNCHANGED <<proc, pending, restarts, os>>
    <3>1. ASSUME NEW f, Deliver(f)
          PROVE  UNCHANGED <<pending, restarts>>
      BY <1>1, <3>1 DEF Deliver, GaveUp
    <3> QED
      BY <2>4, <3>1 DEF OnData
  <2>5. ASSUME NEW p \in Calls, OnExit(p) \/ OnSpawnError(p)
        PROVE  /\ UNCHANGED <<proc, pending, restarts>>
               /\ \A q \in Calls : os[q] = "unborn" => os'[q] = "unborn"
    <3>1. Settle(p) /\ os[p] \in {"dead", "stillborn"}
      BY <2>5 DEF OnExit, OnSpawnError
    <3>2. UNCHANGED <<proc, pending, restarts>>
      BY <1>1, <2>1, <3>1, CallsAssumption DEF Settle, Disown, GaveUp
    <3>3. \A q \in Calls : os[q] = "unborn" => os'[q] = "unborn"
      BY <1>1, <3>1 DEF Settle, IInv, TypeOK
    <3> QED
      BY <3>2, <3>3
  <2>6. ASSUME NEW p \in Calls, Die(p)
        PROVE  /\ UNCHANGED <<proc, pending, restarts>>
               /\ \A q \in Calls : os[q] = "unborn" => os'[q] = "unborn"
    BY <1>1, <2>6 DEF Die, Alive, nodeVars, IInv, TypeOK
  <2>7. CASE UNCHANGED vars
    BY <2>1, <2>7, <1>1 DEF vars, nodeVars, osVars, GaveUp
  <2>8. ~Stop /\ ~(\E e \in timers : TimerFire(e))
    BY <2>1 DEF Stop
  <2>9. /\ UNCHANGED <<proc, pending, restarts>>
        /\ \A q \in Calls : os[q] = "unborn" => os'[q] = "unborn"
    BY <1>1, <2>2, <2>3, <2>4, <2>5, <2>6, <2>7, <2>8 DEF Next, vars, nodeVars, osVars
  <2> QED
    BY <1>1, <2>1, <2>9 DEF GaveUp
<1> QED
  BY <1>1, Invariant, RestartsAreBounded, PTL DEF Spec, GivingUpIsFinal
===============================================================================
