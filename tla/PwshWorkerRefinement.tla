------------------------- MODULE PwshWorkerRefinement -------------------------
(***************************************************************************)
(* PwshWorker implements CallService, and rows reach the call that asked   *)
(* for them: proofs for every set of calls and all limits.  They rest on   *)
(* the invariant of PwshWorkerProofs and on what the pipes may hold.       *)
(***************************************************************************)
EXTENDS PwshWorkerProofs

-------------------------------------------------------------------------------
(* Items of a sequence that grew or shrank. *)

LEMMA ItemsOfHeadTail ==
    ASSUME NEW S, NEW s \in Seq(S), s # <<>>
    PROVE  /\ 1 \in DOMAIN s /\ Head(s) = s[1] /\ Head(s) \in S
           /\ \A i \in DOMAIN Tail(s) : i + 1 \in DOMAIN s /\ Tail(s)[i] = s[i + 1] /\ i \in Nat \ {0}
<1>1. Len(s) \in Nat \ {0} /\ DOMAIN s = 1..Len(s)
  BY EmptySeq, LenProperties
<1>2. Head(s) = s[1] /\ Head(s) \in S
  BY HeadTailProperties
<1>3. Len(Tail(s)) = Len(s) - 1 /\ DOMAIN Tail(s) = 1..Len(Tail(s))
  BY HeadTailProperties, LenProperties
<1>4. \A i \in 1..Len(Tail(s)) : Tail(s)[i] = s[i + 1]
  BY HeadTailProperties
<1> QED
  BY <1>1, <1>2, <1>3, <1>4

LEMMA ItemsOfAppend ==
    ASSUME NEW S, NEW s \in Seq(S), NEW x \in S
    PROVE  \A i \in DOMAIN Append(s, x) :
             \/ i \in DOMAIN s /\ Append(s, x)[i] = s[i]
             \/ i = Len(s) + 1 /\ Append(s, x)[i] = x
BY AppendProperties, LenProperties

LEMMA ItemsOfPair ==
    ASSUME NEW S, NEW s \in Seq(S), NEW x \in S, NEW y \in S
    PROVE  \A i \in DOMAIN (s \o <<x, y>>) :
             \/ i \in DOMAIN s /\ (s \o <<x, y>>)[i] = s[i]
             \/ (s \o <<x, y>>)[i] \in {x, y}
<1>1. <<x, y>> \in Seq(S) /\ Len(<<x, y>>) = 2 /\ <<x, y>>[1] = x /\ <<x, y>>[2] = y
  OBVIOUS
<1> QED
  BY <1>1, ConcatProperties, LenProperties

LEMMA ItemsOfPrefix ==
    ASSUME NEW S, NEW s \in Seq(S), NEW n \in Nat, n <= Len(s)
    PROVE  \A i \in DOMAIN SubSeq(s, 1, Len(s) - n) :
             i \in DOMAIN s /\ SubSeq(s, 1, Len(s) - n)[i] = s[i]
<1>1. Len(s) \in Nat /\ DOMAIN s = 1..Len(s)
  BY LenProperties
<1> QED
  BY <1>1, SubSeqProperties, LenProperties

-------------------------------------------------------------------------------
(* What is in the pipes. *)

\* An id in a pipe was handed out, and is nobody's but the call's it came from.
Known(r, next, entries) ==
    r.id < next /\ \A e \in entries : e.id = r.id => e.call = r.call

Submitted == {"waiting", "answered", "failed"}

\* A request in a pipe is the only one of its call, sent and not run yet.
Requests ==
    /\ \A p \in Calls : \A i \in DOMAIN inbox[p] :
         /\ Known(inbox[p][i], nextId, pending)
         /\ ran[inbox[p][i].call] = 0
         /\ phase[inbox[p][i].call] \in Submitted
    /\ \A p, q \in Calls : \A i \in DOMAIN inbox[p], j \in DOMAIN inbox[q] :
         inbox[p][i].call = inbox[q][j].call => p = q /\ i = j

\* A fragment in a pipe was written by a cmdlet that was run.
Fragments ==
    \A p \in Calls : \A i \in DOMAIN out[p] :
      Known(out[p][i], nextId, pending) /\ ran[out[p][i].call] = 1

\* A cmdlet is run at most once, and not before its request was sent.
RunOnce ==
    \A c \in Calls : /\ ran[c] \in {0, 1}
                     /\ phase[c] \notin Submitted => ran[c] = 0

Wire == Requests /\ Fragments /\ RunOnce /\ OwnRows

\* A step that leaves the cmdlets alone, takes nothing but whole items from the
\* pipes, and moves calls only forward.
LEMMA QuietKeeps ==
    ASSUME TypeOK, Requests, Fragments, RunOnce,
           UNCHANGED <<inbox, ran>>,
           nextId' \in Nat, nextId' >= nextId,
           \A e \in pending' : e \in pending \/ e.id >= nextId,
           \A c \in Calls : phase[c] \in Submitted => phase'[c] \in Submitted,
           \A c \in Calls : ran[c] = 1 => phase'[c] \in Submitted
    PROVE  Requests' /\ RunOnce' /\ (out' = out => Fragments')
<1>1. \A r : r.id \in Nat /\ Known(r, nextId, pending) => Known(r, nextId', pending')
  BY DEF Known, TypeOK
<1>2. \A p \in Calls : \A i \in DOMAIN inbox[p] : inbox[p][i] \in Request
  BY DEF TypeOK
<1>3. \A p \in Calls : \A i \in DOMAIN out[p] : out[p][i] \in Fragment
  BY DEF TypeOK
<1>4. Requests'
  BY <1>1, <1>2 DEF Requests, Request
<1>5. RunOnce'
  BY DEF RunOnce
<1>6. out' = out => Fragments'
  BY <1>1, <1>3 DEF Fragments, Fragment
<1> QED
  BY <1>4, <1>5, <1>6

\* A request joins the pipe of the process in the slot.
LEMMA SubmitWire ==
    ASSUME IInv, Wire, NEW c \in Calls, phase[c] \in {"idle", "starting"}, proc # NoProc,
           Submit(c), UNCHANGED <<rowsOf, out, ran>>
    PROVE  Wire'
<1> DEFINE r == [id |-> nextId, call |-> c]
<1>1. TypeOK /\ Ledger /\ proc \in Calls /\ nextId \in Nat
  BY DEF IInv, TypeOK
<1>2. ran[c] = 0
  BY DEF Wire, RunOnce, Submitted
<1>3. phase'[c] \in {"waiting", "failed"} /\ \A d \in Calls : d # c => phase'[d] = phase[d]
  BY <1>1 DEF Submit, FailCall, TypeOK
<1>4. OwnRows'
  BY <1>3 DEF Wire, OwnRows
<1>5. \A d \in Calls : phase[d] \in Submitted \/ ran[d] = 1 => phase'[d] \in Submitted
  BY <1>2, <1>3 DEF Submitted, Wire, RunOnce
<1>6. /\ nextId' \in Nat /\ nextId' >= nextId
      /\ \A e \in pending' : e \in pending \/ e.id >= nextId
  BY <1>1 DEF Submit, FreshId, Put
<1>7. CASE inbox' = inbox
  BY <1>1, <1>4, <1>5, <1>6, <1>7, QuietKeeps DEF Wire
<1>8. CASE /\ nextId' = nextId + 1
           /\ pending' = Put([id |-> nextId, call |-> c, proc |-> proc])
           /\ inbox' = [inbox EXCEPT ![proc] = Append(@, r)]
  <2>1. \A x : x.id \in Nat /\ Known(x, nextId, pending) => Known(x, nextId', pending')
    BY <1>1, <1>6, <1>8 DEF Known
  <2>2. Known(r, nextId', pending')
    <3>1. \A e \in pending : e.id # nextId
      BY <1>1 DEF Ledger, EntriesOpen, TypeOK, Entry
    <3>2. \A e \in pending' : e.id = nextId => e.call = c
      BY <1>8, <3>1 DEF Put
    <3> QED
      BY <1>1, <1>8, <3>2 DEF Known
  <2>3. \A q \in Calls : \A i \in DOMAIN inbox[q] : /\ inbox[q][i] \in Request
                                                    /\ inbox[q][i].call # c
    <3>1. \A q \in Calls : inbox[q] \in Seq(Request)
      BY <1>1 DEF TypeOK
    <3>2. \A q \in Calls : \A i \in DOMAIN inbox[q] : inbox[q][i] \in Request
      BY <3>1, LenProperties
    <3>3. phase[c] \notin Submitted
      BY DEF Submitted
    <3> QED
      BY <3>2, <3>3 DEF Wire, Requests
  <2>4. \A q \in Calls : \A i \in DOMAIN inbox'[q] :
          \/ i \in DOMAIN inbox[q] /\ inbox'[q][i] = inbox[q][i]
          \/ q = proc /\ i = Len(inbox[proc]) + 1 /\ inbox'[q][i] = r
    <3>1. r \in Request /\ \A q \in Calls : inbox[q] \in Seq(Request)
      BY <1>1 DEF TypeOK, Request
    <3> HIDE DEF r
    <3>2. \A q \in Calls : inbox'[q] = IF q = proc THEN Append(inbox[q], r) ELSE inbox[q]
      BY <1>1, <1>8 DEF TypeOK
    <3> TAKE q \in Calls
    <3>3. CASE q = proc
      <4>1. \A i \in DOMAIN Append(inbox[q], r) :
              \/ i \in DOMAIN inbox[q] /\ Append(inbox[q], r)[i] = inbox[q][i]
              \/ i = Len(inbox[q]) + 1 /\ Append(inbox[q], r)[i] = r
        BY <3>1, ItemsOfAppend
      <4> QED
        BY <3>2, <3>3, <4>1
    <3>4. CASE q # proc
      BY <3>2, <3>4
    <3> QED
      BY <3>3, <3>4
  <2>5. \A q \in Calls : \A i \in DOMAIN inbox'[q] :
          Known(inbox'[q][i], nextId', pending') /\ ran[inbox'[q][i].call] = 0 /\ phase'[inbox'[q][i].call] \in Submitted
    BY <1>2, <1>3, <1>5, <2>1, <2>2, <2>3, <2>4 DEF Wire, Requests, Request, Submitted
  <2>6. \A q, t \in Calls : \A i \in DOMAIN inbox'[q], j \in DOMAIN inbox'[t] :
          inbox'[q][i].call = inbox'[t][j].call => q = t /\ i = j
    <3>1. r.call = c
      OBVIOUS
    <3> HIDE DEF r
    <3> QED
      BY <2>3, <2>4, <3>1 DEF Wire, Requests
  <2>7. Requests'
    BY <2>5, <2>6 DEF Requests
  <2>8. Fragments'
    <3>1. \A q \in Calls : \A i \in DOMAIN out[q] : out[q][i] \in Fragment
      BY <1>1 DEF TypeOK
    <3> QED
      BY <2>1, <3>1 DEF Wire, Fragments, Fragment
  <2>9. RunOnce'
    BY <1>5 DEF Wire, RunOnce
  <2> QED
    BY <1>4, <2>7, <2>8, <2>9 DEF Wire
<1> QED
  BY <1>7, <1>8 DEF Submit, FreshId

LEMMA WireInductive == IInv /\ Wire /\ [Next]_vars => Wire'
<1> SUFFICES ASSUME IInv, Wire, [Next]_vars
             PROVE  Wire'
  OBVIOUS
<1>a. TypeOK /\ nextId \in Nat
  BY DEF IInv, TypeOK
<1>b. Requests /\ Fragments /\ RunOnce /\ OwnRows
  BY DEF Wire
\* Steps that only settle calls, or start one.
<1>c. ASSUME UNCHANGED <<nextId, inbox, out, ran, rowsOf>>, pending' \subseteq pending,
             \A c \in Calls : \/ phase'[c] = phase[c]
                              \/ phase[c] \notin Submitted /\ ran[c] = 0 /\ phase'[c] # "answered"
                              \/ phase[c] \in Submitted /\ phase'[c] = "failed"
      PROVE  Wire'
  <2>1. \A c \in Calls : phase[c] \in Submitted => phase'[c] \in Submitted
    BY <1>c DEF Submitted
  <2>2. \A c \in Calls : ran[c] = 1 => phase'[c] \in Submitted
    BY <1>b, <1>c, <2>1 DEF RunOnce
  <2>3. Requests' /\ RunOnce' /\ Fragments'
    BY <1>a, <1>b, <1>c, <2>1, <2>2, QuietKeeps
  <2>4. OwnRows'
    BY <1>b, <1>c DEF OwnRows
  <2> QED
    BY <2>3, <2>4 DEF Wire
<1>1. ASSUME NEW c \in Calls, InvokeRunning(c)
      PROVE  Wire'
  BY <1>1, SubmitWire DEF InvokeRunning
<1>2. ASSUME NEW c \in Calls, InvokeStarting(c)
      PROVE  Wire'
  <2>1. ran[c] = 0 /\ \A d \in Calls : phase'[d] = IF d = c THEN "starting" ELSE phase[d]
    BY <1>2, <1>a, <1>b DEF InvokeStarting, RunOnce, Submitted, TypeOK
  <2> QED
    BY <1>2, <1>c, <2>1 DEF InvokeStarting, Submitted
<1>3. ASSUME NEW c \in Calls, StartThrows(c)
      PROVE  Wire'
  <2>1. ran[c] = 0 /\ \A d \in Calls : phase'[d] = IF d = c THEN "failed" ELSE phase[d]
    BY <1>3, <1>a, <1>b DEF StartThrows, FailCall, RunOnce, Submitted, TypeOK
  <2> QED
    BY <1>3, <1>c, <2>1 DEF StartThrows, Submitted, nodeVars, osVars
<1>4. ASSUME NEW c \in Calls, Resume(c)
      PROVE  Wire'
  <2>1. CASE proc # NoProc /\ Submit(c)
    BY <1>4, <2>1, SubmitWire DEF Resume
  <2>2. CASE proc = NoProc /\ FailCall(c) /\ UNCHANGED <<pending, nextId, timers, inbox>>
    <3>1. /\ phase[c] = "starting" /\ ran[c] = 0
          /\ \A d \in Calls : phase'[d] = IF d = c THEN "failed" ELSE phase[d]
      BY <1>4, <2>2, <1>a, <1>b DEF Resume, FailCall, RunOnce, Submitted, TypeOK
    <3> QED
      BY <1>4, <2>2, <1>c, <3>1 DEF Resume, Submitted
  <2> QED
    BY <1>4, <2>1, <2>2 DEF Resume
<1>5. ASSUME NEW e \in timers, TimerFire(e)
      PROVE  Wire'
  BY <1>5, <1>c DEF TimerFire, Reject, Submitted
<1>6. ASSUME NEW p \in Calls, OnData(p)
      PROVE  Wire'
  <2> DEFINE f == Head(out[p])
  <2>1. /\ 1 \in DOMAIN out[p] /\ f = out[p][1] /\ f.call \in Calls
        /\ Known(f, nextId, pending) /\ ran[f.call] = 1
    <3>1. out[p] \in Seq(Fragment) /\ out[p] # <<>>
      BY <1>6, <1>a DEF OnData, TypeOK
    <3>2. 1 \in DOMAIN out[p] /\ f = out[p][1] /\ f \in Fragment
      BY <3>1, ItemsOfHeadTail
    <3> HIDE DEF f
    <3> QED
      BY <1>b, <3>2 DEF Fragments, Fragment
  <2>2. \A q \in Calls : \A i \in DOMAIN out'[q] :
          \E j \in DOMAIN out[q] : out'[q][i] = out[q][j]
    <3>1. out[p] \in Seq(Fragment) /\ out[p] # <<>>
      BY <1>6, <1>a DEF OnData, TypeOK
    <3>2. \A q \in Calls : out'[q] = IF q = p THEN Tail(out[q]) ELSE out[q]
      BY <1>6, <1>a DEF OnData, TypeOK
    <3> TAKE q \in Calls
    <3>3. CASE q = p
      <4>1. \A i \in DOMAIN Tail(out[q]) : /\ i + 1 \in DOMAIN out[q]
                                           /\ Tail(out[q])[i] = out[q][i + 1]
        BY <3>1, <3>3, ItemsOfHeadTail
      <4> QED
        BY <3>2, <3>3, <4>1
    <3>4. CASE q # p
      BY <3>2, <3>4
    <3> QED
      BY <3>3, <3>4
  <2>3. UNCHANGED <<nextId, inbox, ran>>
    BY <1>6 DEF OnData
  <2>4. CASE UNCHANGED <<pending, phase, rowsOf>>
    BY <1>a, <1>b, <2>2, <2>3, <2>4
       DEF Wire, Requests, Fragments, Known, RunOnce, OwnRows
  <2>5. CASE Deliver(f)
    <3> HIDE DEF f
    <3>1. pending' \subseteq pending
      BY <2>5 DEF Deliver
    <3>2. \A e \in pending : e.id = f.id => e.call = f.call /\ phase[e.call] = "waiting"
      BY <2>1 DEF Known, IInv, Ledger, EntriesOpen
    <3>3. \A c \in Calls : \/ phase'[c] = phase[c] /\ rowsOf'[c] = rowsOf[c]
                           \/ /\ c = f.call /\ phase[c] = "waiting"
                              /\ phase'[c] \in {"answered", "failed"}
                              /\ phase'[c] = "answered" => rowsOf'[c] = c
      BY <2>5, <3>2 DEF Deliver
    <3>4. Requests' /\ RunOnce'
      BY <1>a, <1>b, <2>3, <3>1, <3>3, QuietKeeps DEF Submitted, RunOnce
    <3>5. OwnRows'
      BY <1>b, <2>1, <2>3, <3>3 DEF OwnRows
    <3>6. Fragments'
      BY <1>b, <2>2, <2>3, <3>1 DEF Fragments, Known
    <3> QED
      BY <3>4, <3>5, <3>6 DEF Wire
  <2> QED
    BY <1>6, <2>4, <2>5 DEF OnData
<1>7. ASSUME NEW p \in Calls, Settle(p)
      PROVE  Wire'
  BY <1>7, <1>c DEF Settle, Reject, Submitted
<1>8. ASSUME NEW p \in Calls, RunRequest(p)
      PROVE  Wire'
  <2> DEFINE r == Head(inbox[p])
  <2>1. /\ 1 \in DOMAIN inbox[p] /\ r = inbox[p][1] /\ r \in Request
    BY <1>8, <1>a DEF RunRequest, TypeOK
  <2>2. r.call \in Calls /\ Known(r, nextId, pending) /\ ran[r.call] = 0 /\ phase[r.call] \in Submitted
    BY <1>b, <2>1 DEF Requests, Request
  <2>3. /\ UNCHANGED <<nextId, pending, phase, rowsOf>>
        /\ inbox' = [inbox EXCEPT ![p] = Tail(@)]
        /\ ran' = [ran EXCEPT ![r.call] = @ + 1]
    BY <1>8 DEF RunRequest, nodeVars, callVars
  <2>4. PICK ok \in BOOLEAN :
          out' = [out EXCEPT ![p] = @ \o
                    << [id |-> r.id, call |-> r.call, ok |-> ok, last |-> FALSE],
                       [id |-> r.id, call |-> r.call, ok |-> ok, last |-> TRUE] >>]
    BY <1>8 DEF RunRequest
  <2>5. \A q \in Calls : \A i \in DOMAIN out'[q] :
          \/ i \in DOMAIN out[q] /\ out'[q][i] = out[q][i]
          \/ out'[q][i].id = r.id /\ out'[q][i].call = r.call
    <3> DEFINE half(last) == [id |-> r.id, call |-> r.call, ok |-> ok, last |-> last]
    <3>1. \A q \in Calls : out[q] \in Seq(Fragment)
      BY <1>a DEF TypeOK
    <3>2. half(FALSE) \in Fragment /\ half(TRUE) \in Fragment
      BY <2>1 DEF Request, Fragment
    <3>3. \A q \in Calls :
            out'[q] = IF q = p THEN out[q] \o <<half(FALSE), half(TRUE)>> ELSE out[q]
      BY <1>a, <2>4 DEF TypeOK
    <3>4. /\ half(FALSE).id = r.id /\ half(FALSE).call = r.call
          /\ half(TRUE).id = r.id /\ half(TRUE).call = r.call
      OBVIOUS
    <3> HIDE DEF half
    <3>5. \A q \in Calls : \A i \in DOMAIN out'[q] :
            \/ i \in DOMAIN out[q] /\ out'[q][i] = out[q][i]
            \/ out'[q][i] \in {half(FALSE), half(TRUE)}
      <4> TAKE q \in Calls
      <4>1. CASE q = p
        <5>1. \A i \in DOMAIN (out[q] \o <<half(FALSE), half(TRUE)>>) :
                \/ /\ i \in DOMAIN out[q]
                   /\ (out[q] \o <<half(FALSE), half(TRUE)>>)[i] = out[q][i]
                \/ (out[q] \o <<half(FALSE), half(TRUE)>>)[i] \in {half(FALSE), half(TRUE)}
          BY <3>1, <3>2, ItemsOfPair
        <5> QED
          BY <3>3, <4>1, <5>1
      <4>2. CASE q # p
        BY <3>3, <4>2
      <4> QED
        BY <4>1, <4>2
    <3> QED
      BY <3>4, <3>5
  <2>6. /\ \A i \in DOMAIN inbox'[p] : /\ i + 1 \in DOMAIN inbox[p]
                                      /\ inbox'[p][i] = inbox[p][i + 1]
                                      /\ i \in Nat \ {0}
        /\ \A q \in Calls \ {p} : inbox'[q] = inbox[q]
    <3>1. inbox[p] \in Seq(Request) /\ inbox[p] # <<>>
      BY <1>8, <1>a DEF RunRequest, TypeOK
    <3>2. inbox'[p] = Tail(inbox[p]) /\ \A q \in Calls \ {p} : inbox'[q] = inbox[q]
      BY <1>a, <2>3 DEF TypeOK
    <3>3. \A i \in DOMAIN Tail(inbox[p]) : /\ i + 1 \in DOMAIN inbox[p]
                                           /\ Tail(inbox[p])[i] = inbox[p][i + 1]
                                           /\ i \in Nat \ {0}
      BY <3>1, ItemsOfHeadTail
    <3> QED
      BY <3>2, <3>3
  <2> HIDE DEF r
  <2>7. \A c \in Calls : ran'[c] = IF c = r.call THEN 1 ELSE ran[c]
    BY <1>a, <2>2, <2>3 DEF TypeOK
  <2>8. \A q \in Calls : \A i \in DOMAIN inbox'[q] : inbox'[q][i].call # r.call
    <3> SUFFICES ASSUME NEW q \in Calls, NEW i \in DOMAIN inbox'[q]
                 PROVE  inbox'[q][i].call # r.call
      OBVIOUS
    <3>1. CASE q = p
      <4>1. i + 1 \in DOMAIN inbox[p] /\ inbox'[p][i] = inbox[p][i + 1] /\ i + 1 # 1
        BY <2>6, <3>1
      <4> QED
        BY <1>b, <2>1, <3>1, <4>1 DEF Requests
    <3>2. CASE q # p
      BY <1>b, <2>1, <2>6, <3>2 DEF Requests
    <3> QED
      BY <3>1, <3>2
  <2>9. Requests'
    <3>1. \A q \in Calls : \A i \in DOMAIN inbox'[q] :
            \E j \in DOMAIN inbox[q] : inbox'[q][i] = inbox[q][j]
      BY <2>6
    <3>2. \A q \in Calls : \A i \in DOMAIN inbox[q] : inbox[q][i].call \in Calls
      <4>1. \A q \in Calls : inbox[q] \in Seq(Request)
        BY <1>a DEF TypeOK
      <4>2. \A q \in Calls : inbox[q] \in [1..Len(inbox[q]) -> Request]
        BY <4>1, LenProperties
      <4> QED
        BY <4>2 DEF Request
    <3>3. \A q \in Calls : \A i \in DOMAIN inbox'[q] :
            /\ Known(inbox'[q][i], nextId', pending')
            /\ ran'[inbox'[q][i].call] = 0
            /\ phase'[inbox'[q][i].call] \in Submitted
      BY <1>b, <2>3, <2>7, <2>8, <3>1, <3>2 DEF Requests
    <3>4. ASSUME NEW q \in Calls, NEW t \in Calls,
                 NEW i \in DOMAIN inbox'[q], NEW j \in DOMAIN inbox'[t],
                 inbox'[q][i].call = inbox'[t][j].call
          PROVE  q = t /\ i = j
      <4>1. CASE q = p /\ t = p
        BY <1>b, <2>6, <3>4, <4>1 DEF Requests
      <4>2. CASE q # p /\ t = p
        BY <1>b, <2>6, <3>4, <4>2 DEF Requests
      <4>3. CASE q = p /\ t # p
        BY <1>b, <2>6, <3>4, <4>3 DEF Requests
      <4>4. CASE q # p /\ t # p
        BY <1>b, <2>6, <3>4, <4>4 DEF Requests
      <4> QED
        BY <4>1, <4>2, <4>3, <4>4
    <3> QED
      BY <3>3, <3>4 DEF Requests
  <2>10. Fragments'
    <3>1. \A q \in Calls : \A i \in DOMAIN out[q] : out[q][i].call \in Calls
      <4>1. \A q \in Calls : out[q] \in Seq(Fragment)
        BY <1>a DEF TypeOK
      <4>2. \A q \in Calls : out[q] \in [1..Len(out[q]) -> Fragment]
        BY <4>1, LenProperties
      <4> QED
        BY <4>2 DEF Fragment
    <3> QED
      BY <1>b, <2>2, <2>3, <2>5, <2>7, <3>1 DEF Fragments, Known
  <2>11. RunOnce' /\ OwnRows'
    BY <1>b, <2>2, <2>3, <2>7 DEF RunOnce, OwnRows
  <2> QED
    BY <2>9, <2>10, <2>11 DEF Wire
<1>9. ASSUME NEW p \in Calls, Die(p)
      PROVE  Wire'
  <2>1. UNCHANGED <<nextId, pending, phase, rowsOf, ran>>
    BY <1>9 DEF Die, nodeVars, callVars
  <2>2. \A q \in Calls : \A i \in DOMAIN out'[q] : i \in DOMAIN out[q] /\ out'[q][i] = out[q][i]
    <3>1. PICK lost \in {0, 1, 2} :
            lost <= Len(out[p]) /\ out' = [out EXCEPT ![p] = SubSeq(@, 1, Len(@) - lost)]
      BY <1>9 DEF Die
    <3>2. \A q \in Calls : out[q] \in Seq(Fragment)
      BY <1>a DEF TypeOK
    <3>3. \A i \in DOMAIN SubSeq(out[p], 1, Len(out[p]) - lost) :
            i \in DOMAIN out[p] /\ SubSeq(out[p], 1, Len(out[p]) - lost)[i] = out[p][i]
      BY <3>1, <3>2, ItemsOfPrefix
    <3>4. \A q \in Calls : out'[q] = IF q = p THEN SubSeq(out[p], 1, Len(out[p]) - lost) ELSE out[q]
      BY <1>a, <3>1 DEF TypeOK
    <3> QED
      BY <3>3, <3>4
  <2>3. \A q \in Calls : \A i \in DOMAIN inbox'[q] : i \in DOMAIN inbox[q] /\ inbox'[q][i] = inbox[q][i]
    <3>1. \A q \in Calls : inbox'[q] = IF q = p THEN <<>> ELSE inbox[q]
      BY <1>9, <1>a DEF Die, TypeOK
    <3>2. DOMAIN <<>> = {}
      BY EmptySeq, LenProperties
    <3> QED
      BY <3>1, <3>2
  <2> QED
    BY <1>b, <2>1, <2>2, <2>3 DEF Wire, Requests, Fragments, Known, RunOnce, OwnRows
<1>10. ASSUME UNCHANGED <<nextId, pending, phase, rowsOf, inbox, out, ran>>
       PROVE  Wire'
  BY <1>b, <1>10 DEF Wire, Requests, Fragments, Known, RunOnce, OwnRows
<1>11. CASE Stop
  BY <1>10, <1>11 DEF Stop, callVars
<1>12. CASE UNCHANGED vars
  BY <1>10, <1>12 DEF vars, nodeVars, callVars, osVars
<1> QED
  BY <1>1, <1>2, <1>3, <1>4, <1>5, <1>6, <1>7, <1>8, <1>9, <1>11, <1>12
     DEF Next, OnExit, OnSpawnError

LEMMA WireInvariant == Spec => [](IInv /\ Wire)
<1>1. Init => Wire
  <2>1. ASSUME Init PROVE \A p \in Calls : DOMAIN inbox[p] = {} /\ DOMAIN out[p] = {}
    BY <2>1, EmptySeq, LenProperties DEF Init
  <2>2. ASSUME Init
        PROVE  \A c \in Calls : phase[c] = "idle" /\ ran[c] = 0
    BY <2>2 DEF Init
  <2> QED
    BY <2>1, <2>2 DEF Wire, Requests, Fragments, RunOnce, OwnRows, Submitted
<1> QED
  BY <1>1, WireInductive, Invariant, PTL DEF Spec

\* Rows are never handed to another call than the one whose cmdlet produced them, late
\* answers of processes that were given up on included.
THEOREM RowsAreOwn == Spec => []OwnRows
<1>1. Wire => OwnRows
  BY DEF Wire
<1> QED
  BY <1>1, WireInvariant, PTL

\* No cmdlet is run twice for one call, nor before the call is in the queue: killing a process
\* and starting another never sends a request again.
THEOREM CmdletsRunOnce == Spec => []RunOnce
<1>1. Wire => RunOnce
  BY DEF Wire
<1> QED
  BY <1>1, WireInvariant, PTL

-------------------------------------------------------------------------------
(* The refinement. *)

\* A step that moves one call, or none.
LEMMA CallStep ==
    ASSUME NEW c \in Calls, UNCHANGED ran,
           \A d \in Calls \ {c} : phase'[d] = phase[d],
           \/ phase'[c] = phase[c]
           \/ phase[c] = "idle" /\ phase'[c] \in {"starting", "waiting", "failed"}
           \/ phase[c] = "starting" /\ phase'[c] \in {"waiting", "failed"}
           \/ phase[c] = "waiting" /\ phase'[c] = "failed"
           \/ phase[c] = "waiting" /\ phase'[c] = "answered" /\ ran[c] = 1
    PROVE  [Service!Next]_(Service!vars)
<1>1. StatusOf' = [StatusOf EXCEPT ![c] = StatusOf'[c]]
  BY DEF StatusOf
<1>2. CASE StatusOf'[c] = StatusOf[c]
  BY <1>2 DEF StatusOf, Service!vars
<1>3. CASE StatusOf[c] = "idle" /\ StatusOf'[c] = "open"
  BY <1>1, <1>3 DEF Service!Next, Service!Make
<1>4. CASE StatusOf[c] \in {"idle", "open"} /\ StatusOf'[c] = "failed"
  <2>1. {c} \in (SUBSET Calls) \ {{}}
    OBVIOUS
  <2>2. StatusOf' = [d \in Calls |-> IF d \in {c} THEN "failed" ELSE StatusOf[d]]
    BY <1>4 DEF StatusOf
  <2> QED
    BY <1>4, <2>1, <2>2 DEF Service!Next, Service!Fail
<1>5. CASE StatusOf[c] = "open" /\ StatusOf'[c] = "answered" /\ ran[c] = 1
  BY <1>1, <1>5 DEF Service!Next, Service!Answer
<1> QED
  BY <1>2, <1>3, <1>4, <1>5 DEF StatusOf

\* A step that fails the calls in `lost`, if any.
LEMMA LossStep ==
    ASSUME NEW lost \in SUBSET Calls, UNCHANGED ran,
           \A c \in lost : phase[c] = "waiting" /\ phase'[c] = "failed",
           \A c \in Calls \ lost : phase'[c] = phase[c]
    PROVE  [Service!Next]_(Service!vars)
<1>1. StatusOf' = [c \in Calls |-> IF c \in lost THEN "failed" ELSE StatusOf[c]]
  BY DEF StatusOf
<1>2. \A c \in lost : StatusOf[c] = "open"
  BY DEF StatusOf
<1>3. CASE lost = {}
  BY <1>3 DEF StatusOf, Service!vars
<1>4. CASE lost # {}
  BY <1>1, <1>2, <1>4 DEF Service!Next, Service!Fail
<1> QED
  BY <1>3, <1>4

LEMMA SubmitPhases ==
    ASSUME TypeOK, NEW c \in Calls, Submit(c)
    PROVE  /\ \A d \in Calls \ {c} : phase'[d] = phase[d]
           /\ phase'[c] \in {"waiting", "failed"}
BY DEF TypeOK, Submit, FailCall

LEMMA StepSimulation == IInv /\ Wire /\ [Next]_vars => [Service!Next]_(Service!vars)
<1> SUFFICES ASSUME IInv, Wire, [Next]_vars
             PROVE  [Service!Next]_(Service!vars)
  OBVIOUS
<1>a. TypeOK /\ EntriesOpen /\ EntriesDistinct /\ timers = pending
  BY DEF IInv, Ledger, TimersMatchPending
<1>1. ASSUME NEW c \in Calls, InvokeRunning(c)
      PROVE  [Service!Next]_(Service!vars)
  BY <1>1, <1>a, SubmitPhases, CallStep DEF InvokeRunning
<1>2. ASSUME NEW c \in Calls, InvokeStarting(c)
      PROVE  [Service!Next]_(Service!vars)
  <2>1. /\ phase[c] = "idle" /\ UNCHANGED ran
        /\ \A d \in Calls : phase'[d] = IF d = c THEN "starting" ELSE phase[d]
    BY <1>2, <1>a DEF InvokeStarting, TypeOK
  <2> QED
    BY <2>1, CallStep
<1>3. ASSUME NEW c \in Calls, StartThrows(c)
      PROVE  [Service!Next]_(Service!vars)
  <2>1. /\ phase[c] = "idle" /\ UNCHANGED ran
        /\ \A d \in Calls : phase'[d] = IF d = c THEN "failed" ELSE phase[d]
    BY <1>3, <1>a DEF StartThrows, FailCall, TypeOK, osVars
  <2> QED
    BY <2>1, CallStep
<1>4. ASSUME NEW c \in Calls, Resume(c)
      PROVE  [Service!Next]_(Service!vars)
  <2>1. /\ phase[c] = "starting" /\ UNCHANGED ran
        /\ \A d \in Calls \ {c} : phase'[d] = phase[d]
        /\ phase'[c] \in {"waiting", "failed"}
    BY <1>4, <1>a, SubmitPhases DEF Resume, FailCall, TypeOK
  <2> QED
    BY <2>1, CallStep
<1>5. ASSUME NEW e \in timers, TimerFire(e)
      PROVE  [Service!Next]_(Service!vars)
  <2>1. /\ e.call \in Calls /\ phase[e.call] = "waiting" /\ UNCHANGED ran
        /\ \A d \in Calls : phase'[d] = IF d = e.call THEN "failed" ELSE phase[d]
    BY <1>5, <1>a DEF TimerFire, Reject, TypeOK, Entry, EntriesOpen
  <2> QED
    BY <2>1, CallStep
<1>6. ASSUME NEW p \in Calls, OnData(p)
      PROVE  [Service!Next]_(Service!vars)
  <2> DEFINE f == Head(out[p])
  <2>1. f.call \in Calls /\ Known(f, nextId, pending) /\ ran[f.call] = 1
    <3>1. out[p] \in Seq(Fragment) /\ out[p] # <<>>
      BY <1>6, <1>a DEF OnData, TypeOK
    <3>2. 1 \in DOMAIN out[p] /\ f = out[p][1] /\ f \in Fragment
      BY <3>1, ItemsOfHeadTail
    <3> HIDE DEF f
    <3> QED
      BY <3>2 DEF Wire, Fragments, Fragment
  <2>2. UNCHANGED ran
    BY <1>6 DEF OnData
  <2>3. CASE UNCHANGED phase
    BY <2>2, <2>3 DEF StatusOf, Service!vars
  <2>4. CASE Deliver(f)
    <3> HIDE DEF f
    <3>1. \A e \in pending : e.id = f.id => e.call = f.call /\ phase[e.call] = "waiting"
      BY <1>a, <2>1 DEF Known, EntriesOpen
    <3>2. /\ \A d \in Calls \ {f.call} : phase'[d] = phase[d]
          /\ \/ phase'[f.call] = phase[f.call]
             \/ phase[f.call] = "waiting" /\ phase'[f.call] \in {"answered", "failed"}
      BY <2>1, <2>4, <3>1 DEF Deliver
    <3> QED
      BY <2>1, <2>2, <3>2, CallStep
  <2> QED
    BY <1>6, <2>3, <2>4 DEF OnData
<1>7. ASSUME NEW p \in Calls, Settle(p)
      PROVE  [Service!Next]_(Service!vars)
  <2> DEFINE lost == {c \in Calls : \E e \in Stragglers(p) : e.call = c}
  <2>1. \A c \in lost : phase[c] = "waiting"
    BY <1>a DEF Stragglers, EntriesOpen
  <2>2. /\ \A c \in lost : phase'[c] = "failed"
        /\ \A c \in Calls \ lost : phase'[c] = phase[c]
    BY <1>7, <2>1 DEF Settle, Reject
  <2>3. UNCHANGED ran /\ lost \in SUBSET Calls
    BY <1>7 DEF Settle
  <2> HIDE DEF lost
  <2> QED
    BY <2>1, <2>2, <2>3, LossStep
<1>8. ASSUME NEW p \in Calls, RunRequest(p)
      PROVE  [Service!Next]_(Service!vars)
  <2> DEFINE r == Head(inbox[p])
  <2>1. /\ r.call \in Calls /\ ran[r.call] = 0 /\ phase[r.call] \in Submitted
    <3>1. inbox[p] \in Seq(Request) /\ inbox[p] # <<>>
      BY <1>8, <1>a DEF RunRequest, TypeOK
    <3>2. 1 \in DOMAIN inbox[p] /\ r = inbox[p][1] /\ r \in Request
      BY <3>1, ItemsOfHeadTail
    <3> HIDE DEF r
    <3> QED
      BY <3>2 DEF Wire, Requests, Request
  <2>2. ran' = [ran EXCEPT ![r.call] = @ + 1] /\ UNCHANGED phase
    BY <1>8 DEF RunRequest, callVars
  <2> HIDE DEF r
  <2>3. ran' = [ran EXCEPT ![r.call] = 1]
    BY <1>a, <2>1, <2>2 DEF TypeOK
  <2>4. StatusOf[r.call] # "idle" /\ StatusOf' = StatusOf
    BY <2>1, <2>2 DEF StatusOf, Submitted
  <2> QED
    BY <2>1, <2>3, <2>4 DEF Service!Next, Service!Run
<1>9. ASSUME UNCHANGED <<phase, ran>>
      PROVE  [Service!Next]_(Service!vars)
  BY <1>9 DEF StatusOf, Service!vars
<1>10. ASSUME NEW p \in Calls, Die(p)
       PROVE  [Service!Next]_(Service!vars)
  BY <1>9, <1>10 DEF Die, callVars
<1>11. CASE Stop
  BY <1>9, <1>11 DEF Stop, callVars, osVars
<1>12. CASE UNCHANGED vars
  BY <1>9, <1>12 DEF vars, callVars, osVars
<1> QED
  BY <1>1, <1>2, <1>3, <1>4, <1>5, <1>6, <1>7, <1>8, <1>10, <1>11, <1>12
     DEF Next, OnExit, OnSpawnError

\* Whatever processes, pipes and timers do, callers see what CallService promises: every
\* call is settled at most once, no cmdlet runs twice for one call, and rows come only
\* from a cmdlet that was run.
THEOREM Refinement == Spec => ImplementsService
<1>1. Init => Service!Init
  BY DEF Init, StatusOf, Service!Init
<1> QED
  BY <1>1, StepSimulation, WireInvariant, PTL DEF Spec, ImplementsService, Service!Spec
===============================================================================
