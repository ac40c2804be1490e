---------------------------- MODULE RegionPrimary ----------------------------
(***************************************************************************)
(* resolveRegionPrimary() for one region: the alias "<region>-primary" is  *)
(* resolved to the node that is the primary of the availability group now. *)
(* services/dba-mcp/src/connectionManager.ts, with its two caches and the  *)
(* refresh of get_current_primary (tools.ts).                              *)
(*                                                                         *)
(* A resolution asks one node after another who is primary, then reads the *)
(* server name of one node after another until one matches.  Every query   *)
(* is awaited, and may fail, while failovers happen and other resolutions  *)
(* run.  A step is the code between two awaits.  Nodes are named by their  *)
(* place in the fleet file, and each by the server name it reports.        *)
(***************************************************************************)
EXTENDS Naturals

CONSTANTS N,            \* the region's candidate nodes are 1..N
          Others,       \* servers of the group that are not in the fleet file
          Calls,        \* tool calls that use the alias, again and again
          Refreshers,   \* those that are get_current_primary with refresh
          Ttl,          \* PRIMARY_CACHE_TTL_MS, in ticks
          NoNode

Nodes == 1..N

ASSUME RegionAssumption == /\ N \in Nat \ {0}
                           /\ Ttl \in Nat \ {0}
                           /\ Refreshers \subseteq Calls
                           /\ NoNode \notin Nodes \cup Others
                           /\ Nodes \cap Others = {}

VARIABLES
    primary,    \* the primary, or NoNode during a failover
    quiet,      \* ticks since the last failover, up to Ttl
    cached,     \* primaryCache: the node cached for the region
    age,        \* ticks since it was cached, up to Ttl, when it has expired
    known,      \* serverNameCache: the nodes whose name was learned
    phase,      \* phase[c]: what call c awaits, or how it ended
    cand,       \* cand[c]: the node it asks for the primary
    told,       \* told[c]: the primary that node named
    at,         \* at[c]: the node whose name it reads
    result,     \* result[c]: the node it resolved to
    seen        \* seen[c]: every primary since it began; NoNode, if one could not be queried

cacheVars == <<cached, age, known>>
callVars == <<phase, cand, told, at, result, seen>>
vars == <<primary, quiet, cacheVars, callVars>>

-------------------------------------------------------------------------------

Servers == Nodes \cup Others \cup {NoNode}
Phases == {"idle", "asking", "naming", "resolved", "failed"}

TypeOK ==
    /\ primary \in Servers
    /\ quiet \in 0..Ttl
    /\ cached \in Nodes \cup {NoNode}
    /\ age \in 0..Ttl
    /\ known \subseteq Nodes
    /\ phase \in [Calls -> Phases]
    /\ cand \in [Calls -> Nodes]
    /\ told \in [Calls -> Servers]
    /\ at \in [Calls -> Nodes]
    /\ result \in [Calls -> Nodes \cup {NoNode}]
    /\ seen \in [Calls -> SUBSET Servers]

Init ==
    /\ primary \in Servers
    /\ quiet = Ttl
    /\ cached = NoNode /\ age = Ttl /\ known = {}
    /\ phase = [c \in Calls |-> "idle"]
    /\ cand = [c \in Calls |-> 1]
    /\ told = [c \in Calls |-> NoNode]
    /\ at = [c \in Calls |-> 1]
    /\ result = [c \in Calls |-> NoNode]
    /\ seen = [c \in Calls |-> {}]

Pending(c) == phase[c] \in {"asking", "naming"}

-------------------------------------------------------------------------------
(* The call, and what it finds in the cache. *)

Fresh == cached # NoNode /\ age < Ttl

\* The first candidate is asked.
Begin(c) ==
    /\ phase' = [phase EXCEPT ![c] = "asking"]
    /\ cand' = [cand EXCEPT ![c] = 1]
    /\ told' = [told EXCEPT ![c] = NoNode]
    /\ at' = [at EXCEPT ![c] = 1]
    /\ result' = [result EXCEPT ![c] = NoNode]
    /\ seen' = [seen EXCEPT ![c] = {primary}]

\* Mutant: each use of the entry prolongs it.
HitProlonging(c) ==
    /\ c \notin Refreshers /\ ~Pending(c)
    /\ Fresh
    /\ age' = 0
    /\ phase' = [phase EXCEPT ![c] = "resolved"]
    /\ result' = [result EXCEPT ![c] = cached]
    /\ UNCHANGED <<primary, quiet, cached, known, cand, told, at, seen>>

Hit(c) ==
    /\ c \notin Refreshers /\ ~Pending(c)
    /\ Fresh
    /\ phase' = [phase EXCEPT ![c] = "resolved"]
    /\ result' = [result EXCEPT ![c] = cached]
    /\ UNCHANGED <<primary, quiet, cacheVars, cand, told, at, seen>>

Miss(c) ==
    /\ c \notin Refreshers /\ ~Pending(c)
    /\ ~Fresh
    /\ Begin(c)
    /\ UNCHANGED <<primary, quiet, cacheVars>>

\* invalidatePrimaryCache(), and in the same turn the resolution, which misses.
Refresh(c) ==
    /\ c \in Refreshers /\ ~Pending(c)
    /\ cached' = NoNode /\ age' = Ttl
    /\ Begin(c)
    /\ UNCHANGED <<primary, quiet, known>>

-------------------------------------------------------------------------------
(* The resolution. *)

\* Mutant: the loop runs one candidate too far.
NextCandidateTooFar(c) ==
    /\ IF cand[c] <= N
       THEN /\ cand' = [cand EXCEPT ![c] = @ + 1]
            /\ phase' = [phase EXCEPT ![c] = "asking"]
       ELSE /\ phase' = [phase EXCEPT ![c] = "failed"]
            /\ UNCHANGED cand
    /\ told' = [told EXCEPT ![c] = NoNode]
    /\ at' = [at EXCEPT ![c] = 1]

\* An error with this candidate is kept for the message, and the next one is asked.
NextCandidate(c) ==
    /\ IF cand[c] < N
       THEN /\ cand' = [cand EXCEPT ![c] = @ + 1]
            /\ phase' = [phase EXCEPT ![c] = "asking"]
       ELSE /\ phase' = [phase EXCEPT ![c] = "failed"]
            /\ UNCHANGED cand
    /\ told' = [told EXCEPT ![c] = NoNode]
    /\ at' = [at EXCEPT ![c] = 1]

\* The next node's name is read; a primary that matches no node is an error.
NextName(c) ==
    IF at[c] < N
    THEN at' = [at EXCEPT ![c] = @ + 1] /\ UNCHANGED <<phase, cand, told>>
    ELSE NextCandidate(c)

\* A query to node n did not answer.
Missed(c, n) ==
    seen' = IF n = primary THEN [seen EXCEPT ![c] = @ \cup {NoNode}] ELSE seen

\* The candidate names the primary: itself, or another it knows the state of.
Told(c) ==
    /\ phase[c] = "asking"
    /\ primary # NoNode
    /\ told' = [told EXCEPT ![c] = primary]
    /\ phase' = [phase EXCEPT ![c] = "naming"]
    /\ UNCHANGED <<primary, quiet, cacheVars, cand, at, result, seen>>

\* The candidate cannot be queried, or has no row of a primary.
NotTold(c) ==
    /\ phase[c] = "asking"
    /\ Missed(c, cand[c])
    /\ NextCandidate(c)
    /\ UNCHANGED <<primary, quiet, cacheVars, result>>

\* Mutant: the node that was asked is taken for the one it named.
FoundCandidate(c) ==
    /\ cached' = cand[c] /\ age' = 0
    /\ result' = [result EXCEPT ![c] = cand[c]]
    /\ phase' = [phase EXCEPT ![c] = "resolved"]

\* The node is cached, from now on, and returned.
Found(c) ==
    /\ cached' = at[c] /\ age' = 0
    /\ result' = [result EXCEPT ![c] = at[c]]
    /\ phase' = [phase EXCEPT ![c] = "resolved"]

\* getServerName() answers, from its cache or from the node.
Named(c) ==
    /\ phase[c] = "naming"
    /\ known' = known \cup {at[c]}
    /\ IF told[c] = at[c]
       THEN Found(c) /\ UNCHANGED <<cand, told, at>>
       ELSE NextName(c) /\ UNCHANGED <<cached, age, result>>
    /\ UNCHANGED <<primary, quiet, seen>>

\* Mutant: a name that cannot be read ends the attempt with this candidate.
NotNamedThrows(c) ==
    /\ phase[c] = "naming"
    /\ at[c] \notin known
    /\ Missed(c, at[c])
    /\ NextCandidate(c)
    /\ UNCHANGED <<primary, quiet, cacheVars, result>>

\* It cannot read the name, which then matches nothing.
NotNamed(c) ==
    /\ phase[c] = "naming"
    /\ at[c] \notin known
    /\ Missed(c, at[c])
    /\ NextName(c)
    /\ UNCHANGED <<primary, quiet, cacheVars, result>>

-------------------------------------------------------------------------------
(* The availability group, and time. *)

Failover ==
    /\ primary' \in Servers \ {primary}
    /\ quiet' = 0
    /\ seen' = [c \in Calls |-> IF Pending(c) THEN seen[c] \cup {primary'} ELSE seen[c]]
    /\ UNCHANGED <<cacheVars, phase, cand, told, at, result>>

Tick ==
    /\ age < Ttl \/ quiet < Ttl
    /\ age' = IF age < Ttl THEN age + 1 ELSE Ttl
    /\ quiet' = IF quiet < Ttl THEN quiet + 1 ELSE Ttl
    /\ UNCHANGED <<primary, cached, known, callVars>>

-------------------------------------------------------------------------------

Answer(c) == Told(c) \/ NotTold(c) \/ Named(c) \/ NotNamed(c)

Next ==
    \/ \E c \in Calls : Hit(c) \/ Miss(c) \/ Refresh(c) \/ Answer(c)
    \/ Failover
    \/ Tick

\* connectionTimeout and requestTimeout bound every query; time passes.
Fairness == WF_vars(Tick) /\ \A c \in Calls : WF_vars(Answer(c))

Spec == Init /\ [][Next]_vars
FairSpec == Spec /\ Fairness

-------------------------------------------------------------------------------
(* Properties. *)

\* What a refresh returns was the primary at some time after the refresh was asked for,
\* whatever was cached before and whatever other resolutions write meanwhile.
RefreshIsCurrent ==
    \A c \in Refreshers : phase[c] = "resolved" => result[c] \in seen[c]

\* A resolution fails only if there was a failover, or the primary itself could not be
\* queried: other nodes that are down, or do not know the primary, are got over.
OneGoodNodeSuffices ==
    \A c \in Calls : phase[c] = "failed" => ~\E n \in Nodes : seen[c] = {n}

\* "a failover during a session refreshes within a minute": no entry that would be
\* served names a node that has not been primary for longer than an entry lives.
FailoverSeenInTime == Fresh /\ quiet = Ttl => cached = primary

\* When failovers have come to an end, no call is sent to an old primary for ever.
StaleEntryGoes ==
    \A n \in Nodes : <>[](primary = n) => <>[](Fresh => cached = n)
===============================================================================
