------------------------- MODULE ConnectionPoolsProofs -------------------------
(***************************************************************************)
(* Proofs about ConnectionPools, for every set of calls and of logins, any *)
(* number of catalog failures, and with the fallback on or off.            *)
(***************************************************************************)
EXTENDS ConnectionPools, TLAPS

-------------------------------------------------------------------------------
(* The inductive invariant. *)

Served == {"querying", "ok", "error"}

\* A pool in the cache was dialled, and is used, by the call it is named after.
CachedIsServed ==
    \A k \in Keys : pools[k] # NoPool => CacheKey(pools[k]) = k /\ uses[pools[k]] = pools[k]

\* So is every pool a query runs on; a call has none before getPool() returned.
UsedIsServed ==
    \A c \in Calls : uses[c] # NoPool =>
      /\ phase[c] \in Served
      /\ uses[uses[c]] = uses[c]
      /\ CacheKey(uses[c]) = CacheKey(c)
      /\ caller[uses[c]].valid

\* How far the dialling call must have come for its pool to be in each of the sets.
Progress ==
    /\ \A p \in closed : phase[p] = "error" /\ uses[p] = NoPool
    /\ \A p \in onMaster \cup erred : phase[p] \in Served \cup {"probing"}
    /\ \A p \in Calls : phase[p] = "probing" => p \in onMaster /\ caller[p].valid
    /\ retiring \subseteq onMaster
    /\ \A c \in warned : phase[c] \in {"ok", "error"}

\* A pool that failed is only cached again if it failed while it was being probed.
ErredIsGone == \A k \in Keys : pools[k] \in erred => pools[k] \in onMaster

IInv == /\ TypeOK /\ CachedIsServed /\ UsedIsServed /\ Progress /\ ErredIsGone
        /\ FallbackWillRetire /\ WarnedIffOnMaster

USE PoolsAssumption

LEMMA KeyTypes ==
    ASSUME TypeOK, NEW c \in Calls
    PROVE  CacheKey(c) \in Keys
BY DEF TypeOK, CacheKey, Callers, Keys

LEMMA TypeStep == TypeOK /\ [Next]_vars => TypeOK'
<1> SUFFICES ASSUME TypeOK, [Next]_vars
             PROVE  TypeOK'
  OBVIOUS
<1> USE DEF TypeOK, Phases, Goto, cacheVars, callVars
<1>1. ASSUME NEW c \in Calls, Hit(c) \/ Miss(c)
      PROVE  TypeOK'
  BY <1>1, KeyTypes DEF Hit, Miss, Serve
<1>2. ASSUME NEW c \in Calls, Dials(c)
      PROVE  TypeOK'
  BY <1>2, KeyTypes DEF Dials, Connected, CatalogRefused, ConnectFailed, ConnectedToMaster,
                        Register, Serve
<1>3. ASSUME NEW c \in Calls, Probes(c)
      PROVE  TypeOK'
  BY <1>3, KeyTypes DEF Probes, ProbeFindsNoSuchCatalog, ProbeKeepsFallback,
                        Register, ArmRetirement, Serve
<1>4. ASSUME NEW c \in Calls, Queries(c)
      PROVE  TypeOK'
  BY <1>4 DEF Queries, Succeed, FailQuery, NoteFallback
<1>5. ASSUME NEW p \in Calls, Retire(p) \/ PoolError(p)
      PROVE  TypeOK'
  BY <1>5, KeyTypes DEF Retire, PoolError, Evict
<1>6. CASE CatalogFlips
  BY <1>6 DEF CatalogFlips
<1>7. CASE UNCHANGED vars
  BY <1>7 DEF vars
<1> QED
  BY <1>1, <1>2, <1>3, <1>4, <1>5, <1>6, <1>7 DEF Next

\* Logins, pools and sets keep their types.
THEOREM TypeCorrect == Spec => []TypeOK
<1>1. Init => TypeOK
  BY DEF Init, TypeOK, Phases
<1> QED
  BY <1>1, TypeStep, PTL DEF Spec

-------------------------------------------------------------------------------
(* Every step keeps the invariant. *)

\* A pool enters the cache, and its dialler's query: Connected, ProbeKeepsFallback.
LEMMA RegisterKeeps ==
    ASSUME IInv, NEW c \in Calls, phase[c] \in {"dialling", "probing"},
           Register(c), Serve(c, c), UNCHANGED <<closed, erred, caller, warned, onMaster>>,
           \/ phase[c] = "dialling" /\ UNCHANGED retiring
           \/ phase[c] = "probing" /\ ArmRetirement(c),
           phase[c] = "dialling" => caller[c].valid
    PROVE  /\ CachedIsServed' /\ UsedIsServed' /\ Progress' /\ ErredIsGone'
           /\ FallbackWillRetire' /\ WarnedIffOnMaster'
<1> USE DEF Served
<1>1. /\ pools' = [k \in Keys |-> IF k = CacheKey(c) THEN c ELSE pools[k]]
      /\ uses' = [d \in Calls |-> IF d = c THEN c ELSE uses[d]]
      /\ phase' = [d \in Calls |-> IF d = c THEN "querying" ELSE phase[d]]
  BY DEF IInv, TypeOK, Register, Serve, Goto
<1>2. /\ pools \in [Keys -> Calls \cup {NoPool}] /\ uses \in [Calls -> Calls \cup {NoPool}]
      /\ caller' = caller /\ CacheKey(c) \in Keys /\ closed \subseteq Calls /\ erred \subseteq Calls
      /\ onMaster \subseteq Calls /\ warned \subseteq Calls /\ retiring \subseteq Calls
  BY KeyTypes DEF IInv, TypeOK
<1>3. uses[c] = NoPool /\ c # NoPool /\ caller[c].valid
  BY DEF IInv, UsedIsServed, Progress
<1>4. \A d \in Calls : uses[d] # c
  BY <1>2, <1>3 DEF IInv, UsedIsServed
<1>5. CachedIsServed'
  BY <1>1, <1>2 DEF IInv, CachedIsServed, CacheKey
<1>6. UsedIsServed'
  BY <1>1, <1>2, <1>3, <1>4 DEF IInv, UsedIsServed, CacheKey
<1>7. Progress'
  BY <1>1, <1>2 DEF IInv, Progress, ArmRetirement
<1>8. ErredIsGone' /\ FallbackWillRetire'
  <2>1. phase[c] = "dialling" => c \notin onMaster \cup erred
    BY DEF IInv, Progress
  <2>2. phase[c] = "probing" => c \in onMaster /\ c \in retiring'
    BY DEF IInv, Progress, ArmRetirement
  <2>3. retiring \subseteq retiring'
    BY DEF ArmRetirement
  <2> QED
    BY <1>1, <2>1, <2>2, <2>3 DEF IInv, ErredIsGone, FallbackWillRetire
<1>9. WarnedIffOnMaster'
  BY <1>1 DEF IInv, WarnedIffOnMaster
<1> QED
  BY <1>5, <1>6, <1>7, <1>8, <1>9

\* A call moves on before it has a pool, and the cache stays as it is.
LEMMA WaitKeeps ==
    ASSUME IInv, NEW c \in Calls, NEW next \in Phases, Goto(c, next),
           UNCHANGED <<pools, retiring, erred, caller, uses, warned>>,
           \/ /\ phase[c] = "idle" /\ next = "dialling" /\ UNCHANGED <<onMaster, closed>>
           \/ /\ phase[c] \in {"dialling", "redialling"} /\ next \in {"redialling", "error"}
              /\ UNCHANGED <<onMaster, closed>>
           \/ /\ phase[c] = "redialling" /\ next = "probing"
              /\ onMaster' = onMaster \cup {c} /\ caller[c].valid /\ UNCHANGED closed
           \/ /\ phase[c] = "probing" /\ next = "error"
              /\ closed' = closed \cup {c} /\ UNCHANGED onMaster
    PROVE  /\ CachedIsServed' /\ UsedIsServed' /\ Progress' /\ ErredIsGone'
           /\ FallbackWillRetire' /\ WarnedIffOnMaster'
<1> USE DEF Served
<1>1. phase' = [d \in Calls |-> IF d = c THEN next ELSE phase[d]]
  BY DEF IInv, TypeOK, Goto
<1>2. /\ pools \in [Keys -> Calls \cup {NoPool}] /\ uses \in [Calls -> Calls \cup {NoPool}]
      /\ closed \subseteq Calls /\ erred \subseteq Calls
      /\ onMaster \subseteq Calls /\ warned \subseteq Calls
  BY DEF IInv, TypeOK
<1>3. uses[c] = NoPool /\ c # NoPool
  BY DEF IInv, UsedIsServed
<1>4. /\ \A d \in Calls : uses[d] # c
      /\ \A k \in Keys : pools[k] # c
  BY <1>2, <1>3 DEF IInv, UsedIsServed, CachedIsServed
<1>5. CachedIsServed' /\ UsedIsServed'
  BY <1>1, <1>2, <1>3 DEF IInv, CachedIsServed, UsedIsServed, CacheKey
<1>6. Progress'
  BY <1>1, <1>2, <1>3 DEF IInv, Progress
<1>7. ErredIsGone' /\ FallbackWillRetire'
  BY <1>4 DEF IInv, ErredIsGone, FallbackWillRetire
<1>8. WarnedIffOnMaster'
  BY <1>1, <1>3, <1>4 DEF IInv, WarnedIffOnMaster
<1> QED
  BY <1>5, <1>6, <1>7, <1>8

\* A cached pool is dropped, by its timer or by its error.
LEMMA EvictKeeps ==
    ASSUME IInv, NEW p \in Calls, Evict(p), UNCHANGED <<onMaster, closed, callVars>>,
           \/ retiring' = retiring \ {p} /\ UNCHANGED erred
           \/ /\ erred' = erred \cup {p} /\ UNCHANGED retiring
              /\ phase[p] = "probing" \/ uses[p] = p
    PROVE  /\ CachedIsServed' /\ UsedIsServed' /\ Progress' /\ ErredIsGone'
           /\ FallbackWillRetire' /\ WarnedIffOnMaster'
<1>1. UNCHANGED <<phase, caller, uses, warned>>
  BY DEF callVars
<1>2. \A k \in Keys : pools'[k] = IF pools[k] = p THEN NoPool ELSE pools[k]
  <2>1. pools' = [k \in Keys |-> IF k = CacheKey(p) /\ pools[k] = p THEN NoPool ELSE pools[k]]
    BY KeyTypes DEF IInv, TypeOK, Evict
  <2>2. \A k \in Keys : pools[k] = p => k = CacheKey(p)
    BY DEF IInv, CachedIsServed
  <2> QED
    BY <2>1, <2>2
<1>3. CachedIsServed' /\ UsedIsServed'
  BY <1>1, <1>2 DEF IInv, CachedIsServed, UsedIsServed, CacheKey
<1>4. Progress'
  BY <1>1 DEF IInv, Progress, UsedIsServed
<1>5. ErredIsGone' /\ FallbackWillRetire'
  <2>1. NoPool \notin onMaster /\ NoPool \notin erred /\ NoPool \notin erred'
    BY DEF IInv, TypeOK
  <2> QED
    BY <1>2, <2>1 DEF IInv, ErredIsGone, FallbackWillRetire
<1>6. WarnedIffOnMaster'
  BY <1>1 DEF IInv, WarnedIffOnMaster
<1> QED
  BY <1>3, <1>4, <1>5, <1>6

LEMMA Inductive == IInv /\ [Next]_vars => IInv'
<1> SUFFICES ASSUME IInv, [Next]_vars
             PROVE  /\ CachedIsServed' /\ UsedIsServed' /\ Progress' /\ ErredIsGone'
                    /\ FallbackWillRetire' /\ WarnedIffOnMaster'
  BY TypeStep DEF IInv
<1> DEFINE Kept == /\ CachedIsServed' /\ UsedIsServed' /\ Progress' /\ ErredIsGone'
                   /\ FallbackWillRetire' /\ WarnedIffOnMaster'
<1>a. /\ pools \in [Keys -> Calls \cup {NoPool}] /\ uses \in [Calls -> Calls \cup {NoPool}]
      /\ phase \in [Calls -> Phases] /\ caller \in [Calls -> Callers]
  BY DEF IInv, TypeOK
<1>1. ASSUME NEW c \in Calls, Hit(c)
      PROVE  Kept
  <2> DEFINE p == pools[CacheKey(c)]
  <2>1. /\ phase[c] = "idle" /\ p # NoPool /\ CacheKey(c) \in Keys
        /\ phase' = [d \in Calls |-> IF d = c THEN "querying" ELSE phase[d]]
        /\ uses' = [d \in Calls |-> IF d = c THEN p ELSE uses[d]]
        /\ UNCHANGED <<cacheVars, caller, warned>>
    BY <1>1, <1>a, KeyTypes DEF IInv, Hit, Serve, Goto
  <2>2. p \in Calls /\ uses[p] = p /\ CacheKey(p) = CacheKey(c) /\ caller[p].valid /\ p # c
    BY <1>a, <2>1 DEF IInv, CachedIsServed, UsedIsServed, Served
  <2>3. uses[c] = NoPool
    BY <2>1 DEF IInv, UsedIsServed, Served
  <2> HIDE DEF p
  <2>4. CachedIsServed'
    BY <1>a, <2>1, <2>3 DEF IInv, CachedIsServed, cacheVars, CacheKey
  <2>5. UsedIsServed'
    BY <1>a, <2>1, <2>2, <2>3 DEF IInv, UsedIsServed, Served, CacheKey
  <2>6. Progress' /\ ErredIsGone' /\ FallbackWillRetire'
    BY <1>a, <2>1 DEF IInv, TypeOK, Progress, ErredIsGone, FallbackWillRetire, Served, cacheVars
  <2>7. WarnedIffOnMaster'
    BY <2>1 DEF IInv, WarnedIffOnMaster, cacheVars
  <2> QED
    BY <2>4, <2>5, <2>6, <2>7
<1>2. ASSUME NEW c \in Calls, Miss(c)
      PROVE  Kept
  BY <1>2, WaitKeeps DEF Miss, Phases, cacheVars
<1>3. ASSUME NEW c \in Calls, Dials(c)
      PROVE  Kept
  <2>1. CASE Connected(c)
    BY <2>1, RegisterKeeps DEF Connected
  <2>2. CASE CatalogRefused(c)
    BY <2>2, WaitKeeps DEF CatalogRefused, Phases, cacheVars
  <2>3. CASE ConnectFailed(c)
    BY <2>3, WaitKeeps DEF ConnectFailed, Phases, cacheVars
  <2>4. CASE ConnectedToMaster(c)
    BY <2>4, WaitKeeps DEF ConnectedToMaster, Phases
  <2> QED
    BY <1>3, <2>1, <2>2, <2>3, <2>4 DEF Dials
<1>4. ASSUME NEW c \in Calls, Probes(c)
      PROVE  Kept
  <2>1. CASE ProbeFindsNoSuchCatalog(c)
    BY <2>1, WaitKeeps DEF ProbeFindsNoSuchCatalog, Phases
  <2>2. CASE ProbeKeepsFallback(c)
    BY <2>2, RegisterKeeps DEF ProbeKeepsFallback
  <2> QED
    BY <1>4, <2>1, <2>2 DEF Probes
<1>5. ASSUME NEW c \in Calls, Queries(c)
      PROVE  Kept
  <2>1. PICK done \in {"ok", "error"} :
          /\ phase[c] = "querying"
          /\ phase' = [d \in Calls |-> IF d = c THEN done ELSE phase[d]]
          /\ UNCHANGED <<cacheVars, caller, uses>>
          /\ \/ warned' = IF uses[c] \in onMaster THEN warned \cup {c} ELSE warned
             \/ done = "error" /\ caller[c].intent # "write" /\ UNCHANGED warned
    BY <1>5, <1>a DEF Queries, Succeed, FailQuery, NoteFallback, Goto
  <2>2. CachedIsServed' /\ UsedIsServed'
    BY <1>a, <2>1 DEF IInv, CachedIsServed, UsedIsServed, Served, cacheVars, CacheKey
  <2>3. Progress' /\ ErredIsGone' /\ FallbackWillRetire'
    BY <1>a, <2>1 DEF IInv, TypeOK, Progress, ErredIsGone, FallbackWillRetire, Served, cacheVars
  <2>4. c \notin warned
    BY <2>1 DEF IInv, Progress
  <2>5. WarnedIffOnMaster'
    BY <1>a, <2>1, <2>4 DEF IInv, WarnedIffOnMaster, cacheVars
  <2> QED
    BY <2>2, <2>3, <2>5
<1>6. ASSUME NEW p \in Calls, Retire(p) \/ PoolError(p)
      PROVE  Kept
  BY <1>6, EvictKeeps DEF Retire, PoolError
<1>7. CASE CatalogFlips \/ UNCHANGED vars
  BY <1>7 DEF CatalogFlips, vars, cacheVars, callVars, IInv, CachedIsServed, UsedIsServed,
              Progress, ErredIsGone, FallbackWillRetire, WarnedIffOnMaster, CacheKey
<1> QED
  BY <1>1, <1>2, <1>3, <1>4, <1>5, <1>6, <1>7 DEF Next

LEMMA Invariant == Spec => []IInv
<1>1. Init => IInv
  BY DEF Init, IInv, TypeOK, Phases, CachedIsServed, UsedIsServed, Progress, ErredIsGone,
         FallbackWillRetire, WarnedIffOnMaster
<1> QED
  BY <1>1, Inductive, PTL DEF Spec

-------------------------------------------------------------------------------
(* What follows. *)

\* However hits, misses, dials, errors and timers interleave, a query runs on a pool of
\* its caller's login name and intent, which a call with that login's password has dialled.
THEOREM PoolsAreOwn == Spec => []PoolMatchesCall
<1>1. IInv => PoolMatchesCall
  BY DEF IInv, UsedIsServed, PoolMatchesCall, CacheKey
<1> QED
  BY <1>1, Invariant, PTL

\* A connection that was refused, and closed, never reaches a caller.
THEOREM ClosedStaysOut == Spec => []ClosedIsNeverServed
<1>1. IInv => ClosedIsNeverServed
  BY DEF IInv, TypeOK, CachedIsServed, UsedIsServed, Progress, ClosedIsNeverServed
<1> QED
  BY <1>1, Invariant, PTL

\* No cached connection to master is without its retirement timer.
THEOREM FallbackRetires == Spec => []FallbackWillRetire
<1>1. IInv => FallbackWillRetire
  BY DEF IInv
<1> QED
  BY <1>1, Invariant, PTL

\* The warning on a result is about the connection the query really ran on.
THEOREM WarningIsExact == Spec => []WarnedIffOnMaster
<1>1. IInv => WarnedIffOnMaster
  BY DEF IInv
<1> QED
  BY <1>1, Invariant, PTL

\* A late error or timer of one pool never evicts another, healthy one.
THEOREM HealthySurvives == Spec => HealthyPoolSurvivesLateEvents
<1> DEFINE Survives == \A k \in Keys : LET p == pools[k] IN
                         p \in Calls \ onMaster /\ pools'[k] = NoPool => p \in erred' \ erred
<1>1. IInv /\ [Next]_vars => Survives
  <2> SUFFICES ASSUME IInv, [Next]_vars, NEW k \in Keys,
                      pools[k] \in Calls \ onMaster, pools'[k] = NoPool
               PROVE  pools[k] \in erred' \ erred
    OBVIOUS
  <2>1. pools \in [Keys -> Calls \cup {NoPool}] /\ pools[k] \notin erred /\ pools[k] # NoPool
    BY DEF IInv, TypeOK, ErredIsGone
  <2>2. ASSUME NEW p \in Calls, Evict(p)
        PROVE  pools[k] = p
    BY <2>1, <2>2 DEF Evict
  <2>3. ASSUME NEW p \in Calls, Retire(p)
        PROVE  FALSE
    BY <2>2, <2>3 DEF Retire, IInv, Progress
  <2>4. ASSUME NEW p \in Calls, PoolError(p)
        PROVE  pools[k] \in erred' \ erred
    BY <2>1, <2>2, <2>4 DEF PoolError
  <2>5. ASSUME NEW c \in Calls, Register(c)
        PROVE  FALSE
    BY <2>1, <2>5 DEF Register
  <2>6. CASE UNCHANGED pools
    BY <2>1, <2>6
  <2> QED
    BY <2>3, <2>4, <2>5, <2>6
       DEF Next, Hit, Miss, Dials, Connected, CatalogRefused, ConnectFailed,
           ConnectedToMaster, Probes, ProbeFindsNoSuchCatalog, ProbeKeepsFallback, Queries,
           Succeed, FailQuery, CatalogFlips, vars, cacheVars
<1> QED
  BY <1>1, Invariant, PTL DEF Spec, HealthyPoolSurvivesLateEvents

-------------------------------------------------------------------------------
(* What makes the recovery of the catalog be picked up, short of fairness: no pool comes *)
(* back to the cache, and no new one on master is on its way once the catalog is open.   *)

EvictedStaysOut ==
    [][\A k \in Keys, p \in Calls : uses[p] = p /\ pools[k] # p => pools'[k] # p]_vars

\* A connection to master is in the cache, or may still come to it; master refuses a login
\* that the catalog refused for its password.
HeadedForMaster(c) == \/ phase[c] \in {"redialling", "probing"} /\ caller[c].valid
                      \/ c \in onMaster /\ \E k \in Keys : pools[k] = c

NothingNewOnMaster ==
    [][catalog = "open" => \A c \in Calls : HeadedForMaster(c)' => HeadedForMaster(c)]_vars

\* What a step may put in the cache is the pool of a call that was about to be served.
LEMMA NewInCache ==
    ASSUME IInv, [Next]_vars, NEW k \in Keys, NEW p \in Calls, pools'[k] = p
    PROVE  \/ pools[k] = p
           \/ phase[p] \in {"dialling", "probing"} /\ (phase[p] = "dialling" => catalog = "open" /\ UNCHANGED onMaster)
<1>1. pools \in [Keys -> Calls \cup {NoPool}]
  BY DEF IInv, TypeOK
<1>2. ASSUME NEW c \in Calls, Connected(c) \/ ProbeKeepsFallback(c)
      PROVE  \/ pools[k] = p
             \/ phase[p] \in {"dialling", "probing"} /\ (phase[p] = "dialling" => catalog = "open" /\ UNCHANGED onMaster)
  <2>1. pools[k] = p \/ p = c
    BY <1>1, <1>2 DEF Connected, ProbeKeepsFallback, Register
  <2> QED
    BY <1>2, <2>1 DEF Connected, ProbeKeepsFallback
<1>3. ASSUME NEW c \in Calls, Retire(c) \/ PoolError(c)
      PROVE  pools[k] = p
  BY <1>1, <1>3 DEF Retire, PoolError, Evict
<1>4. CASE UNCHANGED pools
  BY <1>4
<1> QED
  BY <1>2, <1>3, <1>4
     DEF Next, Hit, Miss, Dials, CatalogRefused, ConnectFailed, ConnectedToMaster, Probes,
         ProbeFindsNoSuchCatalog, Queries, Succeed, FailQuery, CatalogFlips, vars, cacheVars

\* A pool that was retired, failed or was overtaken is never served to a new call again.
THEOREM EvictedPoolsStayOut == Spec => EvictedStaysOut
<1>1. ASSUME IInv, [Next]_vars, NEW k \in Keys, NEW p \in Calls, uses[p] = p, pools[k] # p
      PROVE  pools'[k] # p
  <2>1. phase[p] \in Served
    BY <1>1 DEF IInv, UsedIsServed
  <2> QED
    BY <1>1, <2>1, NewInCache DEF Served
<1>2. IInv /\ [Next]_vars => \A k \in Keys, p \in Calls : uses[p] = p /\ pools[k] # p => pools'[k] # p
  BY <1>1
<1> QED
  BY <1>2, Invariant, PTL DEF Spec, EvictedStaysOut

\* While the catalog can be opened, the connections to master only become fewer; each has its
\* retirement timer (FallbackRetires) or a probe that is still to be answered.
THEOREM MasterIsAbandoned == Spec => NothingNewOnMaster
<1>1. ASSUME IInv, [Next]_vars, catalog = "open", NEW c \in Calls, HeadedForMaster(c)'
      PROVE  HeadedForMaster(c)
  <2>a. caller' = caller
    BY <1>1 DEF Next, Hit, Miss, Dials, Connected, CatalogRefused, ConnectFailed,
         ConnectedToMaster, Probes, ProbeFindsNoSuchCatalog, ProbeKeepsFallback, Queries,
         Succeed, FailQuery, Retire, PoolError, CatalogFlips, vars, callVars
  <2>1. ASSUME phase'[c] \in {"redialling", "probing"}, caller'[c].valid
        PROVE  phase[c] \in {"redialling", "probing"} /\ caller[c].valid
    <3>1. phase \in [Calls -> Phases]
      BY <1>1 DEF IInv, TypeOK
    <3>2. ASSUME NEW d \in Calls,
                 Hit(d) \/ Miss(d) \/ Connected(d) \/ ConnectFailed(d) \/ Probes(d) \/ Queries(d)
          PROVE  phase'[c] = phase[c]
      BY <2>1, <3>1, <3>2 DEF Hit, Miss, Connected, ConnectFailed, Probes, ProbeFindsNoSuchCatalog,
         ProbeKeepsFallback, Queries, Succeed, FailQuery, Serve, Goto
    <3>3. ASSUME NEW d \in Calls, ConnectedToMaster(d)
          PROVE  phase'[c] = phase[c] \/ phase[c] = "redialling"
      BY <3>1, <3>3 DEF ConnectedToMaster, Goto
    <3>4. ASSUME NEW d \in Calls, CatalogRefused(d)
          PROVE  phase'[c] = phase[c]
      BY <1>1, <2>a, <2>1, <3>1, <3>4 DEF CatalogRefused, Goto
    <3> QED
      BY <1>1, <2>a, <2>1, <3>2, <3>3, <3>4
         DEF Next, Dials, Retire, PoolError, CatalogFlips, vars, callVars
  <2>2. ASSUME c \in onMaster'
        PROVE  c \in onMaster \/ phase[c] = "redialling"
    <3>1. ASSUME NEW d \in Calls, ConnectedToMaster(d)
          PROVE  c \in onMaster \/ phase[c] = "redialling"
      BY <2>2, <3>1 DEF ConnectedToMaster
    <3> QED
      BY <1>1, <2>2, <3>1
         DEF Next, Hit, Miss, Dials, Connected, CatalogRefused, ConnectFailed, Probes,
             ProbeFindsNoSuchCatalog, ProbeKeepsFallback, Queries, Succeed, FailQuery,
             Retire, PoolError, CatalogFlips, vars, cacheVars
  <2>3. ASSUME c \in onMaster', NEW k \in Keys, pools'[k] = c
        PROVE  HeadedForMaster(c)
    <3>1. CASE pools[k] = c
      BY <1>1, <2>2, <2>3, <3>1
         DEF HeadedForMaster, IInv, CachedIsServed, UsedIsServed, Served
    <3>2. CASE phase[c] = "probing"
      BY <1>1, <3>2 DEF HeadedForMaster, IInv, Progress
    <3>3. CASE phase[c] = "dialling" /\ UNCHANGED onMaster
      BY <1>1, <2>3, <3>3 DEF IInv, Progress, Served
    <3> QED
      BY <1>1, <2>3, <3>1, <3>2, <3>3, NewInCache
  <2> QED
    BY <1>1, <2>1, <2>3 DEF HeadedForMaster
<1>2. IInv /\ [Next]_vars =>
        (catalog = "open" => \A c \in Calls : HeadedForMaster(c)' => HeadedForMaster(c))
  BY <1>1
<1> QED
  BY <1>2, Invariant, PTL DEF Spec, NothingNewOnMaster
===============================================================================
