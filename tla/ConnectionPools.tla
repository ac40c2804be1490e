--------------------------- MODULE ConnectionPools ---------------------------
(***************************************************************************)
(* getPool() and the queries made on what it returns, for one instance of  *)
(* the fleet: services/dba-mcp/src/connectionManager.ts.  Pools are cached *)
(* per login name and intent; the password of a call is used to dial, and  *)
(* is not looked at when its key has a pool.  When the configured catalog  *)
(* cannot be opened the instance is dialled again on `master`, and the     *)
(* pool that results is served, with a warning, until a timer drops it     *)
(* from the cache.  Nothing stops two calls that miss from dialling at     *)
(* once, and a pool outlives its cache entry: its errors and its timer can *)
(* fire after another pool has taken its place.                            *)
(*                                                                         *)
(* A step is the code between two awaits.  A pool is named by the call     *)
(* that dialled it: a call dials at most one that is kept.  Witness hosts, *)
(* unknown instances and missing credentials are refused before any of     *)
(* this state is touched, and are left out.                                *)
(***************************************************************************)
EXTENDS Naturals, FiniteSets

CONSTANTS Calls,            \* the tool calls, each making one query or one write
          Logins,           \* the names of the logins they run as
          FallbackEnabled,  \* CATALOG_FALLBACK_ENABLED, and a catalog that is not master
          MaxFlips,         \* bound: how often the catalog falls sick or recovers
          NoPool

ASSUME PoolsAssumption == /\ NoPool \notin Calls
                          /\ FallbackEnabled \in BOOLEAN
                          /\ MaxFlips \in Nat

VARIABLES
    catalog,    \* the configured database, as the instance has it
    flips,      \* changes of `catalog` so far
    pools,      \* the cache: pools[k], or NoPool
    onMaster,   \* pools whose poolCatalogInfo says they are on the fallback catalog
    closed,     \* pools that were close()d
    retiring,   \* pools with a retirement timer armed
    erred,      \* pools that have emitted an error
    phase,      \* phase[c]: where getPool(), or the query, of call c awaits
    caller,     \* caller[c]: whose call c is, and for what
    uses,       \* uses[c]: the pool its query runs on
    warned      \* calls whose result carries the catalog warning

cacheVars == <<pools, onMaster, closed, retiring, erred>>
callVars == <<phase, caller, uses, warned>>
vars == <<catalog, flips, cacheVars, callVars>>

-------------------------------------------------------------------------------

Intents == {"read", "write"}
Keys == [login : Logins, intent : Intents]

\* valid: whether the server accepts the password, or token, that comes with the call.
Callers == [login : Logins, valid : BOOLEAN, intent : Intents]

\* dialling: connecting to the configured catalog; redialling: to master; probing: asking
\* sys.databases about the catalog, on a pool not in the cache yet.
Phases == {"idle", "dialling", "redialling", "probing", "querying", "ok", "error"}

TypeOK ==
    /\ catalog \in {"open", "sick", "missing"}
    /\ flips \in 0..MaxFlips
    /\ pools \in [Keys -> Calls \cup {NoPool}]
    /\ onMaster \subseteq Calls /\ closed \subseteq Calls
    /\ retiring \subseteq Calls /\ erred \subseteq Calls
    /\ phase \in [Calls -> Phases]
    /\ caller \in [Calls -> Callers]
    /\ uses \in [Calls -> Calls \cup {NoPool}]
    /\ warned \subseteq Calls

\* "missing" is a misspelt fleet entry: no such database on any replica, for ever.
Init ==
    /\ catalog \in {"open", "sick", "missing"}
    /\ flips = 0
    /\ pools = [k \in Keys |-> NoPool]
    /\ onMaster = {} /\ closed = {} /\ retiring = {} /\ erred = {}
    /\ phase = [c \in Calls |-> "idle"]
    /\ caller \in [Calls -> Callers]
    /\ uses = [c \in Calls |-> NoPool]
    /\ warned = {}

Goto(c, p) == phase' = [phase EXCEPT ![c] = p]

-------------------------------------------------------------------------------
(* getPool() *)

\* Mutant: the intent is left out of the cache key.
KeyWithoutIntent(c) == [login |-> caller[c].login, intent |-> "read"]

\* `${identity}::${instance}`, with #rw for the pool that may write.  The identity is the
\* login's name, or the oid of an Entra user: the password is no part of it.
CacheKey(c) == [login |-> caller[c].login, intent |-> caller[c].intent]

Serve(c, p) == /\ Goto(c, "querying")
               /\ uses' = [uses EXCEPT ![c] = p]

Hit(c) ==
    /\ phase[c] = "idle"
    /\ pools[CacheKey(c)] # NoPool /\ pools[CacheKey(c)] \notin closed
    /\ Serve(c, pools[CacheKey(c)])
    /\ UNCHANGED <<catalog, flips, cacheVars, caller, warned>>

Miss(c) ==
    /\ phase[c] = "idle"
    /\ pools[CacheKey(c)] = NoPool \/ pools[CacheKey(c)] \in closed
    /\ Goto(c, "dialling")
    /\ UNCHANGED <<catalog, flips, cacheVars, caller, uses, warned>>

\* Mutant: the pool is stored under the login alone, where no lookup finds it.
RegisterByLogin(c) ==
    pools' = [k \in Keys \cup {CacheKey(c).login} |-> IF k \in Keys THEN pools[k] ELSE c]

\* pools.set(): whoever connects last has its pool in the cache.
Register(c) == pools' = [pools EXCEPT ![CacheKey(c)] = c]

\* connect() succeeds: registered and returned without another await.
Connected(c) ==
    /\ phase[c] = "dialling"
    /\ catalog = "open" /\ caller[c].valid
    /\ Register(c)
    /\ Serve(c, c)
    /\ UNCHANGED <<catalog, flips, onMaster, closed, retiring, erred, caller, warned>>

\* connect() fails in a way that may mean only the database is sick; a login that fails
\* looks the same.
CatalogRefused(c) ==
    /\ phase[c] = "dialling"
    /\ catalog # "open" \/ ~caller[c].valid
    /\ FallbackEnabled
    /\ Goto(c, "redialling")
    /\ UNCHANGED <<catalog, flips, cacheVars, caller, uses, warned>>

\* connect() fails in any other way, to either catalog.
ConnectFailed(c) ==
    /\ phase[c] \in {"dialling", "redialling"}
    /\ Goto(c, "error")
    /\ UNCHANGED <<catalog, flips, cacheVars, caller, uses, warned>>

\* Mutant: the pool is put in the cache as soon as it is connected.
ConnectedToMasterEarly(c) ==
    /\ phase[c] = "redialling" /\ caller[c].valid
    /\ onMaster' = onMaster \cup {c}
    /\ Register(c)
    /\ Goto(c, "probing")
    /\ UNCHANGED <<catalog, flips, closed, retiring, erred, caller, uses, warned>>

ConnectedToMaster(c) ==
    /\ phase[c] = "redialling" /\ caller[c].valid
    /\ onMaster' = onMaster \cup {c}
    /\ Goto(c, "probing")
    /\ UNCHANGED <<catalog, flips, pools, closed, retiring, erred, caller, uses, warned>>

\* The database does not exist, and the login can see that: closed, and refused.
ProbeFindsNoSuchCatalog(c) ==
    /\ phase[c] = "probing"
    /\ catalog = "missing"
    /\ closed' = closed \cup {c}
    /\ Goto(c, "error")
    /\ UNCHANGED <<catalog, flips, pools, onMaster, retiring, erred, caller, uses, warned>>

\* Mutant: one retirement timer per key, the one already armed.
ArmOncePerKey(c) ==
    retiring' = IF \E p \in retiring : CacheKey(p) = CacheKey(c)
                THEN retiring ELSE retiring \cup {c}

\* Mutant: only the first pool that falls back is retired.
ArmFirstOnly(c) == retiring' = IF onMaster \subseteq {c} THEN {c} ELSE retiring

\* setTimeout(): every pool that is kept on master has its own timer.
ArmRetirement(c) == retiring' = retiring \cup {c}

\* Any other answer, and no answer, keeps the connection: it is cached and served, and
\* will be retired.  A login that sees only system databases cannot tell "missing".
ProbeKeepsFallback(c) ==
    /\ phase[c] = "probing"
    /\ Register(c)
    /\ ArmRetirement(c)
    /\ Serve(c, c)
    /\ UNCHANGED <<catalog, flips, onMaster, closed, erred, caller, warned>>

\* Mutant: the timer deletes the key without looking whose pool is there now.
RetireUnguarded(p) ==
    /\ p \in retiring
    /\ retiring' = retiring \ {p}
    /\ pools' = [pools EXCEPT ![CacheKey(p)] = NoPool]
    /\ UNCHANGED <<catalog, flips, onMaster, closed, erred, callVars>>

\* Drops p from the cache, if it is p that is there.
Evict(p) == pools' = [pools EXCEPT ![CacheKey(p)] = IF @ = p THEN NoPool ELSE @]

\* The retirement timer: dropped, not closed, for the requests still running on it.
Retire(p) ==
    /\ p \in retiring
    /\ retiring' = retiring \ {p}
    /\ Evict(p)
    /\ UNCHANGED <<catalog, flips, onMaster, closed, erred, callVars>>

\* The pool's "error" event, at any time after it was connected.
PoolError(p) ==
    /\ phase[p] = "probing" \/ uses[p] = p
    /\ erred' = erred \cup {p}
    /\ Evict(p)
    /\ UNCHANGED <<catalog, flips, onMaster, closed, retiring, callVars>>

-------------------------------------------------------------------------------
(* queryInstance() and executeWrite(), down to the result the tool returns. *)

\* Mutant: the warning is looked up by cache key, in what is cached now.
NoteFromCache(c) ==
    warned' = IF pools[CacheKey(c)] \in onMaster THEN warned \cup {c} ELSE warned

\* catalogFallback() for the pool at hand; the tool wrapper puts it on the result.
NoteFallback(c) ==
    warned' = IF uses[c] \in onMaster THEN warned \cup {c} ELSE warned

Succeed(c) ==
    /\ phase[c] = "querying"
    /\ Goto(c, "ok")
    /\ NoteFallback(c)
    /\ UNCHANGED <<catalog, flips, cacheVars, caller, uses>>

\* A read notes the fallback after its query, a write before it begins: only a write
\* that fails still carries the warning.
FailQuery(c) ==
    /\ phase[c] = "querying"
    /\ Goto(c, "error")
    /\ IF caller[c].intent = "write" THEN NoteFallback(c) ELSE UNCHANGED warned
    /\ UNCHANGED <<catalog, flips, cacheVars, caller, uses>>

-------------------------------------------------------------------------------
(* The instance: its database is taken offline, or is brought back. *)

CatalogFlips ==
    /\ catalog # "missing"
    /\ flips < MaxFlips
    /\ catalog' = IF catalog = "open" THEN "sick" ELSE "open"
    /\ flips' = flips + 1
    /\ UNCHANGED <<cacheVars, callVars>>

-------------------------------------------------------------------------------

Dials(c) == Connected(c) \/ CatalogRefused(c) \/ ConnectFailed(c) \/ ConnectedToMaster(c)
Probes(c) == ProbeFindsNoSuchCatalog(c) \/ ProbeKeepsFallback(c)
Queries(c) == Succeed(c) \/ FailQuery(c)

Next ==
    \/ \E c \in Calls : \/ Hit(c) \/ Miss(c)
                        \/ Dials(c) \/ Probes(c) \/ Queries(c)
                        \/ Retire(c) \/ PoolError(c)
    \/ CatalogFlips

\* connectionTimeout and requestTimeout bound every await; setTimeout fires.
Fairness == \A c \in Calls : /\ WF_vars(Dials(c)) /\ WF_vars(Probes(c))
                             /\ WF_vars(Queries(c)) /\ WF_vars(Retire(c))

Spec == Init /\ [][Next]_vars
FairSpec == Spec /\ Fairness

-------------------------------------------------------------------------------
(* Properties. *)

\* A query runs on a pool that a call of the same login, and for the same intent, has dialled
\* with the password of that login: no write on a ReadOnly pool, nothing under another login.
\* It need not be the query's own call that showed the password: a call whose own is wrong
\* finds the pool of its login as well.
PoolMatchesCall ==
    \A c \in Calls : uses[c] # NoPool =>
      LET dialler == caller[uses[c]]
      IN  dialler.valid /\ dialler.login = caller[c].login /\ dialler.intent = caller[c].intent

\* A pool that was refused and closed is in nobody's hands and not in the cache.
ClosedIsNeverServed ==
    /\ \A k \in Keys : pools[k] \notin closed
    /\ \A c \in Calls : uses[c] \notin closed

\* A pool on the configured catalog loses its place only to its own error or to a newer
\* pool: never to the late error or the retirement timer of one that came before it.
HealthyPoolSurvivesLateEvents ==
    [][\A k \in Keys : LET p == pools[k] IN
         p \in Calls \ onMaster /\ pools'[k] = NoPool => p \in erred' \ erred]_vars

\* Every fallback pool in the cache has a timer that will take it out, also the one that
\* overwrote, or was overwritten by, another call's pool of the same key.
FallbackWillRetire == \A k \in Keys : pools[k] \in onMaster => pools[k] \in retiring

\* A tool call that succeeded is warned exactly if its query ran on master, although the
\* pool may have been replaced in the cache while it ran; so is a write that failed.
WarnedIffOnMaster ==
    \A c \in Calls :
      phase[c] = "ok" \/ (phase[c] = "error" /\ uses[c] # NoPool /\ caller[c].intent = "write")
        => (c \in warned <=> uses[c] \in onMaster)

\* What the server tells its clients: no warning on a result, no query on master.
EveryResultIsWarned ==
    \A c \in Calls : phase[c] \in {"ok", "error"} /\ uses[c] \in onMaster => c \in warned

\* Once the database is back for good, no caller is left on master for ever.
RecoveryIsPickedUp ==
    <>[](catalog = "open") => <>[](\A k \in Keys : pools[k] \notin onMaster)
===============================================================================
