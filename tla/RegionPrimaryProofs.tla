-------------------------- MODULE RegionPrimaryProofs --------------------------
(***************************************************************************)
(* Proofs about RegionPrimary, for any number of nodes, calls and ticks.   *)
(***************************************************************************)
EXTENDS RegionPrimary, TLAPS

-------------------------------------------------------------------------------
(* The inductive invariant. *)

\* A call that is under way has noted the primary there is.
PrimaryIsSeen == \A c \in Calls : Pending(c) => primary \in seen[c]

\* So it has the primary it was told of, even if that one lost the role since.
ToldIsSeen == \A c \in Calls : phase[c] = "naming" => told[c] \in seen[c]

\* While the primary stays and answers, a call has not got past it in either loop.
NotPastPrimary ==
    \A c \in Calls, n \in Nodes : seen[c] = {n} =>
      /\ phase[c] # "failed"
      /\ Pending(c) => cand[c] <= n
      /\ phase[c] = "naming" => at[c] <= n

\* The names are read from the first on for each candidate.
NamesFromFirst == \A c \in Calls : phase[c] = "asking" => at[c] = 1

IInv == TypeOK /\ NamesFromFirst /\ PrimaryIsSeen /\ ToldIsSeen /\ NotPastPrimary /\ RefreshIsCurrent

USE RegionAssumption

\* Asking the next candidate keeps the types of what it changes.
LEMMA NextCandidateType ==
    ASSUME TypeOK, NEW c \in Calls, NextCandidate(c)
    PROVE  /\ phase' \in [Calls -> Phases]
           /\ cand' \in [Calls -> Nodes]
           /\ told' \in [Calls -> Servers]
           /\ at' \in [Calls -> Nodes]
<1>1. NoNode \in Servers /\ 1 \in Nodes
  BY DEF Servers, Nodes
<1>2. cand[c] < N => cand[c] + 1 \in Nodes
  BY DEF TypeOK, Nodes
<1> QED
  BY <1>1, <1>2 DEF NextCandidate, TypeOK, Phases

LEMMA NextNameType ==
    ASSUME TypeOK, NEW c \in Calls, NextName(c)
    PROVE  /\ phase' \in [Calls -> Phases]
           /\ cand' \in [Calls -> Nodes]
           /\ told' \in [Calls -> Servers]
           /\ at' \in [Calls -> Nodes]
<1>1. at[c] < N => at[c] + 1 \in Nodes
  BY DEF TypeOK, Nodes
<1>2. CASE at[c] < N
  BY <1>1, <1>2 DEF NextName, TypeOK
<1>3. CASE ~(at[c] < N)
  BY <1>3, NextCandidateType DEF NextName
<1> QED
  BY <1>2, <1>3

LEMMA BeginType ==
    ASSUME TypeOK, NEW c \in Calls, Begin(c)
    PROVE  /\ phase' \in [Calls -> Phases]
           /\ cand' \in [Calls -> Nodes]
           /\ told' \in [Calls -> Servers]
           /\ at' \in [Calls -> Nodes]
           /\ result' \in [Calls -> Nodes \cup {NoNode}]
           /\ seen' \in [Calls -> SUBSET Servers]
<1>1. NoNode \in Servers /\ 1 \in Nodes
  BY DEF Servers, Nodes
<1> QED
  BY <1>1 DEF Begin, TypeOK, Phases

LEMMA TypeStep == TypeOK /\ [Next]_vars => TypeOK'
<1> SUFFICES ASSUME TypeOK, [Next]_vars
             PROVE  TypeOK'
  OBVIOUS
<1>1. ASSUME NEW c \in Calls, Hit(c)
      PROVE  TypeOK'
  BY <1>1 DEF TypeOK, Hit, cacheVars, Phases
<1>2. ASSUME NEW c \in Calls, Miss(c)
      PROVE  TypeOK'
  BY <1>2, BeginType DEF TypeOK, Miss, cacheVars
<1>3. ASSUME NEW c \in Calls, Refresh(c)
      PROVE  TypeOK'
  BY <1>3, BeginType DEF TypeOK, Refresh
<1>4. ASSUME NEW c \in Calls, Told(c)
      PROVE  TypeOK'
  BY <1>4 DEF TypeOK, Told, cacheVars, Phases
<1>5. ASSUME NEW c \in Calls, NEW n \in Nodes, Missed(c, n)
      PROVE  seen' \in [Calls -> SUBSET Servers]
  BY <1>5 DEF TypeOK, Missed, Servers
<1>6. ASSUME NEW c \in Calls, NotTold(c)
      PROVE  TypeOK'
  <2>1. cand[c] \in Nodes
    BY DEF TypeOK
  <2> QED
    BY <1>5, <1>6, <2>1, NextCandidateType DEF TypeOK, NotTold, cacheVars
<1>7. ASSUME NEW c \in Calls, NotNamed(c)
      PROVE  TypeOK'
  <2>1. at[c] \in Nodes
    BY DEF TypeOK
  <2> QED
    BY <1>5, <1>7, <2>1, NextNameType DEF TypeOK, NotNamed, cacheVars
<1>8. ASSUME NEW c \in Calls, Named(c)
      PROVE  TypeOK'
  <2>1. at[c] \in Nodes /\ known' \subseteq Nodes
    BY <1>8 DEF TypeOK, Named
  <2>2. CASE told[c] = at[c]
    BY <1>8, <2>1, <2>2 DEF TypeOK, Named, Found, Phases
  <2>3. CASE told[c] # at[c]
    BY <1>8, <2>1, <2>3, NextNameType DEF TypeOK, Named
  <2> QED
    BY <2>2, <2>3
<1>9. CASE Failover
  BY <1>9 DEF TypeOK, Failover, cacheVars
<1>10. CASE Tick
  BY <1>10 DEF TypeOK, Tick, callVars
<1>11. CASE UNCHANGED vars
  BY <1>11 DEF TypeOK, vars, cacheVars, callVars
<1> QED
  BY <1>1, <1>2, <1>3, <1>4, <1>6, <1>7, <1>8, <1>9, <1>10, <1>11 DEF Next, Answer

-------------------------------------------------------------------------------
(* What one call's step does, for that call and for the others. *)

\* Everything the invariant says of a single call.
CallInv(c) ==
    /\ phase[c] = "asking" => at[c] = 1
    /\ Pending(c) => primary \in seen[c]
    /\ phase[c] = "naming" => told[c] \in seen[c]
    /\ \A n \in Nodes : seen[c] = {n} =>
         /\ phase[c] # "failed"
         /\ Pending(c) => cand[c] <= n
         /\ phase[c] = "naming" => at[c] <= n
    /\ c \in Refreshers /\ phase[c] = "resolved" => result[c] \in seen[c]

LEMMA ByCall == IInv <=> TypeOK /\ \A c \in Calls : CallInv(c)
BY DEF IInv, NamesFromFirst, PrimaryIsSeen, ToldIsSeen, NotPastPrimary, RefreshIsCurrent, CallInv

\* What a step leaves alone of a call.
Same(d) == /\ phase'[d] = phase[d] /\ cand'[d] = cand[d] /\ told'[d] = told[d]
           /\ at'[d] = at[d] /\ result'[d] = result[d] /\ seen'[d] = seen[d]

LEMMA SameKeeps ==
    ASSUME NEW d \in Calls, CallInv(d), Same(d), primary' = primary
    PROVE  CallInv(d)'
BY DEF CallInv, Same, Pending

LEMMA OthersSame ==
    ASSUME TypeOK, NEW c \in Calls, NEW d \in Calls \ {c},
           Hit(c) \/ Miss(c) \/ Refresh(c) \/ Answer(c)
    PROVE  Same(d) /\ primary' = primary
<1>1. CASE Hit(c) \/ Miss(c) \/ Refresh(c)
  BY <1>1 DEF TypeOK, Hit, Miss, Refresh, Begin, Same
<1>2. CASE Told(c)
  BY <1>2 DEF TypeOK, Told, Same
<1>3. CASE NotTold(c)
  BY <1>3 DEF TypeOK, NotTold, Missed, NextCandidate, Same
<1>4. CASE Named(c)
  BY <1>4 DEF TypeOK, Named, Found, NextName, NextCandidate, Same
<1>5. CASE NotNamed(c)
  BY <1>5 DEF TypeOK, NotNamed, Missed, NextName, NextCandidate, Same
<1> QED
  BY <1>1, <1>2, <1>3, <1>4, <1>5 DEF Answer

LEMMA BeginKeeps ==
    ASSUME TypeOK, NEW c \in Calls, Begin(c), primary' = primary
    PROVE  CallInv(c)'
<1>1. /\ phase'[c] = "asking" /\ cand'[c] = 1 /\ at'[c] = 1 /\ seen'[c] = {primary}
  BY DEF TypeOK, Begin
<1>2. \A n \in Nodes : 1 <= n
  BY DEF Nodes
<1> QED
  BY <1>1, <1>2 DEF CallInv, Pending

\* Getting past a node that was not the primary, or was one that did not answer.
LEMMA NextCandidateKeeps ==
    ASSUME TypeOK, NEW c \in Calls, NextCandidate(c), primary' = primary, result' = result,
           primary \in seen'[c],
           \A n \in Nodes : seen'[c] = {n} => cand[c] <= n /\ cand[c] # n
    PROVE  CallInv(c)'
<1>1. cand[c] \in 1..N /\ \A n \in Nodes : n \in 1..N
  BY DEF TypeOK, Nodes
<1>2. CASE cand[c] < N
  <2>1. phase'[c] = "asking" /\ cand'[c] = cand[c] + 1 /\ at'[c] = 1
    BY <1>2 DEF TypeOK, NextCandidate
  <2>2. \A n \in Nodes : seen'[c] = {n} => cand'[c] <= n
    BY <1>1, <2>1
  <2> QED
    BY <2>1, <2>2 DEF CallInv, Pending
<1>3. CASE ~(cand[c] < N)
  <2>1. phase'[c] = "failed"
    BY <1>3 DEF TypeOK, NextCandidate
  <2>2. \A n \in Nodes : seen'[c] # {n}
    BY <1>1, <1>3
  <2> QED
    BY <2>1, <2>2 DEF CallInv, Pending
<1> QED
  BY <1>2, <1>3

LEMMA NextNameKeeps ==
    ASSUME TypeOK, NEW c \in Calls, NextName(c), primary' = primary, result' = result,
           phase[c] = "naming", primary \in seen'[c], told[c] \in seen'[c],
           \A n \in Nodes : seen'[c] = {n} => cand[c] <= n /\ at[c] <= n /\ at[c] # n
    PROVE  CallInv(c)'
<1>1. cand[c] \in 1..N /\ at[c] \in 1..N /\ \A n \in Nodes : n \in 1..N
  BY DEF TypeOK, Nodes
<1>2. CASE at[c] < N
  <2>1. phase'[c] = "naming" /\ cand'[c] = cand[c] /\ told'[c] = told[c] /\ at'[c] = at[c] + 1
    BY <1>2 DEF TypeOK, NextName
  <2>2. \A n \in Nodes : seen'[c] = {n} => at'[c] <= n
    BY <1>1, <2>1
  <2> QED
    BY <2>1, <2>2 DEF CallInv, Pending
<1>3. CASE ~(at[c] < N)
  <2>1. \A n \in Nodes : seen'[c] # {n}
    BY <1>1, <1>3
  <2> QED
    BY <1>3, <2>1, NextCandidateKeeps DEF NextName
<1> QED
  BY <1>2, <1>3

\* A query that failed is noted if it was the primary's.
LEMMA MissedNotes ==
    ASSUME TypeOK, NEW c \in Calls, NEW m \in Nodes, Missed(c, m)
    PROVE  /\ seen[c] \subseteq seen'[c]
           /\ \A n \in Nodes : seen'[c] = {n} /\ primary \in seen[c] => seen[c] = {n} /\ m # n
<1>1. CASE m = primary
  <2>1. NoNode \in seen'[c] /\ seen[c] \subseteq seen'[c]
    BY <1>1 DEF TypeOK, Missed
  <2> QED
    BY <2>1
<1>2. CASE m # primary
  BY <1>2 DEF Missed
<1> QED
  BY <1>1, <1>2

LEMMA AnswerKeeps ==
    ASSUME TypeOK, NEW c \in Calls, CallInv(c), Answer(c)
    PROVE  CallInv(c)'
<1>1. CASE Told(c)
  <2>1. /\ phase'[c] = "naming" /\ told'[c] = primary
        /\ UNCHANGED <<primary, cand, at, result, seen>>
        /\ Pending(c)
    BY <1>1 DEF TypeOK, Told, Pending
  <2>2. ASSUME NEW n \in Nodes, seen[c] = {n}
        PROVE  at[c] <= n
    BY <1>1, <2>2 DEF Told, CallInv, Nodes
  <2> QED
    BY <2>1, <2>2 DEF CallInv, Pending
<1>2. CASE NotTold(c)
  <2>1. cand[c] \in Nodes /\ Missed(c, cand[c]) /\ Pending(c) /\ primary \in seen[c]
    BY <1>2 DEF TypeOK, NotTold, CallInv, Pending
  <2>2. primary \in seen'[c]
    BY <2>1, MissedNotes
  <2>3. \A n \in Nodes : seen'[c] = {n} => cand[c] <= n /\ cand[c] # n
    BY <2>1, MissedNotes DEF CallInv
  <2> QED
    BY <1>2, <2>2, <2>3, NextCandidateKeeps DEF NotTold
<1>3. CASE Named(c)
  <2>1. phase[c] = "naming" /\ Pending(c) /\ UNCHANGED <<primary, seen>>
    BY <1>3 DEF Named, Pending
  <2>2. CASE told[c] = at[c]
    <3>1. phase'[c] = "resolved" /\ result'[c] = told[c]
      BY <1>3, <2>2 DEF TypeOK, Named, Found
    <3> QED
      BY <2>1, <3>1 DEF CallInv, Pending
  <2>3. CASE told[c] # at[c]
    <3>1. NextName(c) /\ result' = result
      BY <1>3, <2>3 DEF Named
    <3>2. \A n \in Nodes : seen'[c] = {n} => cand[c] <= n /\ at[c] <= n /\ at[c] # n
      BY <2>1, <2>3 DEF CallInv
    <3>3. primary \in seen'[c] /\ told[c] \in seen'[c]
      BY <2>1 DEF CallInv
    <3> QED
      BY <2>1, <3>1, <3>2, <3>3, NextNameKeeps
  <2> QED
    BY <2>2, <2>3
<1>4. CASE NotNamed(c)
  <2>1. /\ phase[c] = "naming" /\ at[c] \in Nodes /\ Missed(c, at[c]) /\ Pending(c)
        /\ primary \in seen[c] /\ told[c] \in seen[c]
    BY <1>4 DEF TypeOK, NotNamed, CallInv, Pending
  <2>2. primary \in seen'[c] /\ told[c] \in seen'[c]
    BY <2>1, MissedNotes
  <2>3. \A n \in Nodes : seen'[c] = {n} => cand[c] <= n /\ at[c] <= n /\ at[c] # n
    BY <2>1, MissedNotes DEF CallInv
  <2> QED
    BY <1>4, <2>1, <2>2, <2>3, NextNameKeeps DEF NotNamed
<1> QED
  BY <1>1, <1>2, <1>3, <1>4 DEF Answer

LEMMA HitKeeps ==
    ASSUME TypeOK, NEW c \in Calls, CallInv(c), Hit(c)
    PROVE  CallInv(c)'
<1>1. phase'[c] = "resolved" /\ c \notin Refreshers /\ seen' = seen
  BY DEF TypeOK, Hit
<1> QED
  BY <1>1 DEF CallInv, Pending

LEMMA FailoverKeeps ==
    ASSUME TypeOK, NEW c \in Calls, CallInv(c), Failover
    PROVE  CallInv(c)'
<1>1. /\ UNCHANGED <<phase, cand, told, at, result>>
      /\ primary' # primary
      /\ seen'[c] = IF Pending(c) THEN seen[c] \cup {primary'} ELSE seen[c]
  BY DEF Failover, TypeOK
<1>2. CASE Pending(c)
  <2>1. \A n \in Nodes : seen'[c] # {n}
    BY <1>1, <1>2 DEF CallInv
  <2> QED
    BY <1>1, <1>2, <2>1 DEF CallInv, Pending
<1>3. CASE ~Pending(c)
  BY <1>1, <1>3 DEF CallInv, Pending
<1> QED
  BY <1>2, <1>3

-------------------------------------------------------------------------------
(* The theorems. *)

LEMMA InitIInv == Init => IInv
<1> SUFFICES ASSUME Init PROVE IInv
  OBVIOUS
<1>1. NoNode \in Servers /\ 1 \in Nodes
  BY DEF Servers, Nodes
<1>2. TypeOK
  BY <1>1 DEF Init, TypeOK, Phases
<1>3. \A c \in Calls : CallInv(c)
  BY DEF Init, CallInv, Pending
<1> QED
  BY <1>2, <1>3, ByCall

LEMMA NextIInv == IInv /\ [Next]_vars => IInv'
<1> SUFFICES ASSUME IInv, [Next]_vars
             PROVE  IInv'
  OBVIOUS
<1>1. TypeOK /\ TypeOK' /\ \A c \in Calls : CallInv(c)
  BY TypeStep, ByCall DEF IInv
<1>2. ASSUME NEW c \in Calls, Hit(c) \/ Miss(c) \/ Refresh(c) \/ Answer(c), NEW d \in Calls
      PROVE  CallInv(d)'
  <2>1. CASE d # c
    BY <1>1, <1>2, <2>1, OthersSame, SameKeeps
  <2>2. CASE Hit(c)
    BY <1>1, <2>1, <2>2, HitKeeps
  <2>3. CASE Miss(c) \/ Refresh(c)
    BY <1>1, <2>1, <2>3, BeginKeeps DEF Miss, Refresh
  <2>4. CASE Answer(c)
    BY <1>1, <2>1, <2>4, AnswerKeeps
  <2> QED
    BY <1>2, <2>2, <2>3, <2>4
<1>3. ASSUME Failover, NEW d \in Calls
      PROVE  CallInv(d)'
  BY <1>1, <1>3, FailoverKeeps
<1>4. ASSUME Tick \/ UNCHANGED vars, NEW d \in Calls
      PROVE  CallInv(d)'
  <2>1. Same(d) /\ primary' = primary
    BY <1>4 DEF Tick, vars, callVars, Same
  <2> QED
    BY <1>1, <2>1, SameKeeps
<1>5. \A d \in Calls : CallInv(d)'
  BY <1>2, <1>3, <1>4 DEF Next
<1>6. IInv' <=> TypeOK' /\ \A d \in Calls : CallInv(d)'
  BY DEF IInv, NamesFromFirst, PrimaryIsSeen, ToldIsSeen, NotPastPrimary, RefreshIsCurrent, CallInv
<1> QED
  BY <1>1, <1>5, <1>6

LEMMA Invariance == Spec => []IInv
BY InitIInv, NextIInv, PTL DEF Spec

\* The caches and the calls keep their types.
THEOREM TypeCorrect == Spec => []TypeOK
<1>1. IInv => TypeOK
  BY DEF IInv
<1> QED
  BY <1>1, Invariance, PTL

\* A refresh of get_current_primary never returns a node that lost the role before the
\* refresh was asked for, however many resolutions write the cache meanwhile.
THEOREM RefreshesAreCurrent == Spec => []RefreshIsCurrent
<1>1. IInv => RefreshIsCurrent
  BY DEF IInv
<1> QED
  BY <1>1, Invariance, PTL

\* However many nodes of the region are down, a resolution fails only if the primary
\* moved or could not be queried.
THEOREM OneNodeSuffices == Spec => []OneGoodNodeSuffices
<1>1. IInv => OneGoodNodeSuffices
  BY DEF IInv, NotPastPrimary, OneGoodNodeSuffices
<1> QED
  BY <1>1, Invariance, PTL

-------------------------------------------------------------------------------
(* What a resolution leaves in the cache. *)

\* A new entry, or a new lease of the one there is, is written by a resolution that has just come
\* to that node and that saw it be the primary.
Earned ==
    \E c \in Calls :
        /\ phase[c] = "naming" /\ phase'[c] = "resolved"
        /\ result'[c] = cached' /\ cached' \in seen[c]

EntriesAreEarned == [][cached' \notin {cached, NoNode} \/ age' < age => Earned]_vars

\* Whichever calls write the cache in between, an entry always comes from a node that was the
\* primary while the call that wrote it ran; a hit never prolongs it.
THEOREM EntriesAreOwnFinds == Spec => EntriesAreEarned
<1>1. ASSUME IInv, [Next]_vars, cached' \notin {cached, NoNode} \/ age' < age
      PROVE  Earned
  <2>1. age \in 0..Ttl /\ IInv /\ TypeOK /\ \A c \in Calls : CallInv(c)
    BY <1>1, ByCall DEF IInv, TypeOK
  <2>2. ~Failover /\ ~Tick /\ ~UNCHANGED vars
    BY <1>1, <2>1 DEF Failover, Tick, vars, cacheVars
  <2>3. PICK c \in Calls : Hit(c) \/ Miss(c) \/ Refresh(c) \/ Answer(c)
    BY <1>1, <2>2 DEF Next
  <2>4. ~(Hit(c) \/ Miss(c) \/ Refresh(c) \/ Told(c) \/ NotTold(c) \/ NotNamed(c))
    BY <1>1, <2>1 DEF Hit, Miss, Refresh, Told, NotTold, NotNamed, cacheVars
  <2>5. Named(c) /\ told[c] = at[c]
    BY <1>1, <2>1, <2>3, <2>4 DEF Answer, Named
  <2>6. phase[c] = "naming" /\ told[c] \in seen[c]
    BY <2>1, <2>5 DEF Named, CallInv
  <2>7. phase'[c] = "resolved" /\ result'[c] = at[c] /\ cached' = at[c]
    BY <2>1, <2>5 DEF Named, Found, TypeOK
  <2> QED
    BY <2>5, <2>6, <2>7 DEF Earned
<1> QED
  BY <1>1, Invariance, PTL DEF Spec, EntriesAreEarned

-------------------------------------------------------------------------------
(* How long a resolution lasts. *)

\* How many more answers a resolution can wait for: one for each name it has not read, and for
\* each candidate it has not asked one of its own and the names again.
Rank(c) ==
    CASE phase[c] = "asking" -> (N - cand[c]) * (N + 1) + N + 1
      [] phase[c] = "naming" -> (N - cand[c]) * (N + 1) + N + 1 - at[c]
      [] OTHER -> 0

\* A step is no step of a resolution that is under way, or brings its end nearer.
Advances(c) ==
    \/ phase'[c] = phase[c] /\ cand'[c] = cand[c] /\ at'[c] = at[c]
    \/ Rank(c)' < Rank(c)

AnswersAdvance == [][\A c \in Calls : Pending(c) => Rank(c) \in 1..N * (N + 1) /\ Advances(c)]_vars

LEMMA CandidatesLeft ==
    ASSUME NEW i \in Nodes
    PROVE  /\ (N - i) * (N + 1) \in Nat
           /\ (N - i) * (N + 1) + N + 1 <= N * (N + 1)
           /\ i < N => (N - (i + 1)) * (N + 1) = (N - i) * (N + 1) - (N + 1)
BY DEF Nodes

LEMMA RankBound ==
    ASSUME TypeOK, NEW c \in Calls, Pending(c)
    PROVE  Rank(c) \in 1..N * (N + 1)
<1>1. cand[c] \in Nodes /\ at[c] \in 1..N /\ N * (N + 1) \in Nat
  BY DEF TypeOK, Nodes
<1> DEFINE left == (N - cand[c]) * (N + 1)
<1>2. left \in Nat /\ left + N + 1 <= N * (N + 1)
  BY <1>1, CandidatesLeft
<1>3. Rank(c) = left + N + 1 \/ Rank(c) = left + N + 1 - at[c]
  BY DEF Rank, Pending
<1> HIDE DEF left
<1> QED
  BY <1>1, <1>2, <1>3

LEMMA NextCandidateIsNearer ==
    ASSUME TypeOK, NEW c \in Calls, Pending(c), NextCandidate(c)
    PROVE  Rank(c)' < Rank(c)
<1>1. cand[c] \in Nodes /\ at[c] \in 1..N /\ N * (N + 1) \in Nat
  BY DEF TypeOK, Nodes
<1> DEFINE left == (N - cand[c]) * (N + 1)
<1>2. left \in Nat /\ (cand[c] < N => (N - (cand[c] + 1)) * (N + 1) = left - (N + 1))
  BY <1>1, CandidatesLeft
<1>3. Rank(c) = left + N + 1 \/ Rank(c) = left + N + 1 - at[c]
  BY DEF Rank, Pending
<1>4. CASE cand[c] < N
  <2>1. phase'[c] = "asking" /\ cand'[c] = cand[c] + 1
    BY <1>4 DEF TypeOK, NextCandidate
  <2>2. Rank(c)' = (N - (cand[c] + 1)) * (N + 1) + N + 1
    BY <2>1 DEF Rank
  <2>3. Rank(c)' = left - (N + 1) + N + 1
    BY <1>2, <1>4, <2>2
  <2> HIDE DEF left
  <2> QED
    BY <1>1, <1>2, <1>3, <2>3
<1>5. CASE ~(cand[c] < N)
  <2>1. phase'[c] = "failed"
    BY <1>5 DEF TypeOK, NextCandidate
  <2>2. Rank(c)' = 0
    BY <2>1 DEF Rank
  <2> HIDE DEF left
  <2> QED
    BY <1>1, <1>2, <1>3, <2>2
<1> QED
  BY <1>4, <1>5

LEMMA NextNameIsNearer ==
    ASSUME TypeOK, NEW c \in Calls, phase[c] = "naming", NextName(c)
    PROVE  Rank(c)' < Rank(c)
<1>1. cand[c] \in Nodes /\ at[c] \in 1..N
  BY DEF TypeOK, Nodes
<1> DEFINE left == (N - cand[c]) * (N + 1)
<1>2. left \in Nat
  BY <1>1, CandidatesLeft
<1>3. CASE at[c] < N
  <2>1. phase'[c] = "naming" /\ cand'[c] = cand[c] /\ at'[c] = at[c] + 1
    BY <1>3 DEF TypeOK, NextName
  <2>2. Rank(c) = left + N + 1 - at[c] /\ Rank(c)' = left + N + 1 - (at[c] + 1)
    BY <2>1 DEF Rank
  <2> HIDE DEF left
  <2> QED
    BY <1>1, <1>2, <2>2
<1>4. CASE ~(at[c] < N)
  BY <1>4, NextCandidateIsNearer DEF NextName, Pending
<1> QED
  BY <1>3, <1>4

\* Ending a resolution, and hearing who is primary from the candidate that was asked.
LEMMA ResolvedIsNearer ==
    ASSUME TypeOK, NEW c \in Calls, Pending(c), phase'[c] = "resolved"
    PROVE  Rank(c)' < Rank(c)
<1>1. Rank(c)' = 0
  BY DEF Rank
<1>2. Rank(c) \in 1..N * (N + 1) /\ N * (N + 1) \in Nat
  BY RankBound
<1> QED
  BY <1>1, <1>2

LEMMA ToldIsNearer ==
    ASSUME TypeOK, NEW c \in Calls, Told(c), CallInv(c)
    PROVE  Rank(c)' < Rank(c)
<1>1. /\ phase[c] = "asking" /\ phase'[c] = "naming"
      /\ cand'[c] = cand[c] /\ at'[c] = 1
  BY DEF TypeOK, Told, CallInv
<1> DEFINE left == (N - cand[c]) * (N + 1)
<1>2. left \in Nat
  BY CandidatesLeft DEF TypeOK
<1>3. Rank(c) = left + N + 1 /\ Rank(c)' = left + N + 1 - 1
  BY <1>1 DEF Rank
<1> HIDE DEF left
<1> QED
  BY <1>2, <1>3

\* Each answer brings the resolution nearer its end, whatever fails and however often the primary
\* moves meanwhile: with N nodes, it has ended after N * (N + 1) answers.
THEOREM ResolutionsAreShort == Spec => AnswersAdvance
<1>1. ASSUME IInv, [Next]_vars, NEW c \in Calls, Pending(c)
      PROVE  Advances(c)
  <2>1. TypeOK /\ CallInv(c)
    BY <1>1, ByCall DEF IInv
  <2>2. CASE Answer(c)
    <3>1. CASE Told(c)
      BY <2>1, <3>1, ToldIsNearer DEF Advances
    <3>2. CASE NotTold(c)
      BY <1>1, <2>1, <3>2, NextCandidateIsNearer DEF NotTold, Advances
    <3>3. CASE Named(c)
      <4>1. CASE told[c] = at[c]
        <5>1. phase'[c] = "resolved"
          BY <2>1, <3>3, <4>1 DEF TypeOK, Named, Found
        <5> QED
          BY <1>1, <2>1, <5>1, ResolvedIsNearer DEF Advances
      <4>2. CASE told[c] # at[c]
        BY <2>1, <3>3, <4>2, NextNameIsNearer DEF Named, Advances
      <4> QED
        BY <4>1, <4>2
    <3>4. CASE NotNamed(c)
      BY <2>1, <3>4, NextNameIsNearer DEF NotNamed, Advances
    <3> QED
      BY <2>2, <3>1, <3>2, <3>3, <3>4 DEF Answer
  <2>3. CASE Hit(c) \/ Miss(c) \/ Refresh(c)
    BY <1>1, <2>3 DEF Hit, Miss, Refresh
  <2>4. ASSUME NEW d \in Calls \ {c}, Hit(d) \/ Miss(d) \/ Refresh(d) \/ Answer(d)
        PROVE  Advances(c)
    BY <2>1, <2>4, OthersSame DEF Same, Advances
  <2>5. CASE Failover \/ Tick \/ UNCHANGED vars
    BY <2>5 DEF Failover, Tick, vars, callVars, Advances
  <2> QED
    BY <1>1, <2>2, <2>3, <2>4, <2>5 DEF Next
<1>2. IInv => TypeOK
  BY DEF IInv
<1>3. IInv /\ [Next]_vars => \A c \in Calls : Pending(c) => Rank(c) \in 1..N * (N + 1) /\ Advances(c)
  BY <1>1, <1>2, RankBound
<1> QED
  BY <1>3, Invariance, PTL DEF Spec, AnswersAdvance
===============================================================================
