----------------------------- MODULE MCToolCalls -----------------------------
EXTENDS ToolCalls, TLC
CONSTANTS c1, c2

\* DBA servers on stdio with and without DBATOOLS_FIRST, an engineering one, and one on HTTP.
MCDeployments ==
    {[http |-> FALSE, first |-> TRUE, dba |-> TRUE, write |-> FALSE],
     [http |-> FALSE, first |-> FALSE, dba |-> FALSE, write |-> TRUE],
     [http |-> TRUE, first |-> TRUE, dba |-> TRUE, write |-> FALSE]}

\* One call of any tool; beside it one of the tools whose scopes hold every kind of notice.
MCMenu ==
    c1 :> UNION {DOMAIN AppTools(i) \cup DOMAIN WriteTools(i)
                 \cup DOMAIN DmvTools(d, i) \cup DOMAIN HostTools(i) : d \in MCDeployments, i \in Instances}
    @@ c2 :> {"describe_object", "execute_write"}
==============================================================================
