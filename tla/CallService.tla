----------------------------- MODULE CallService -----------------------------
(***************************************************************************)
(* What callers of PwshWorker.call() (pwshWorker.ts) may rely on, with the *)
(* processes, the pipes and the restarts left out: every call that is made *)
(* is settled exactly once, with rows only if its cmdlet really ran, and a *)
(* cmdlet never runs twice for one call.  It may run after its call has    *)
(* failed: a timeout does not undo what was already sent.                  *)
(***************************************************************************)
CONSTANT Calls          \* the invocations of call()

VARIABLES status,       \* status[c]: where the promise of call c stands
          ran           \* ran[c]: how often the cmdlet of call c was run

vars == <<status, ran>>

Init == /\ status = [c \in Calls |-> "idle"]
        /\ ran = [c \in Calls |-> 0]

Make(c) == /\ status[c] = "idle"
           /\ status' = [status EXCEPT ![c] = "open"]
           /\ UNCHANGED ran

Run(c) == /\ status[c] # "idle"
          /\ ran[c] = 0
          /\ ran' = [ran EXCEPT ![c] = 1]
          /\ UNCHANGED status

Answer(c) == /\ status[c] = "open"
             /\ ran[c] = 1
             /\ status' = [status EXCEPT ![c] = "answered"]
             /\ UNCHANGED ran

\* One loss fails every call sent to the lost process at once; a call refused at
\* the door goes from idle to failed.
Fail == /\ \E lost \in (SUBSET Calls) \ {{}} :
             /\ \A c \in lost : status[c] \in {"idle", "open"}
             /\ status' = [c \in Calls |-> IF c \in lost THEN "failed" ELSE status[c]]
        /\ UNCHANGED ran

Next == \/ \E c \in Calls : Make(c) \/ Run(c) \/ Answer(c)
        \/ Fail

Spec == Init /\ [][Next]_vars

\* Every call that was made is settled.
AllSettle == \A c \in Calls : status[c] = "open" ~> status[c] \in {"answered", "failed"}
==============================================================================
