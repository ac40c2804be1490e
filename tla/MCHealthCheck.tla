----------------------------- MODULE MCHealthCheck -----------------------------
EXTENDS HealthCheck

MCNodes == 1..3

\* Of the first two checks only the second counts; the third may lower the same category.
MCCatalog ==
    <<[kind |-> "os", category |-> "Host", priority |-> "High"],
      [kind |-> "sa", category |-> "Reliability", priority |-> "High"],
      [kind |-> "inventory", category |-> "Reliability", priority |-> "Medium"]>>

MCPartners == [n \in MCNodes |-> IF n = 3 THEN {} ELSE {3 - n}]

\* The first node has the job on or off, the second may send only part of its inventory.
Inventory(state, complete) == [jobs |-> [job \in {"j"} |-> state], complete |-> complete]
MCInventories ==
    <<{Inventory("live", TRUE), Inventory("off", TRUE)},
      {Inventory(state, complete) : state \in {"live", "changed"}, complete \in BOOLEAN} \ {Inventory("live", FALSE)},
      {Inventory("live", TRUE)}>>
MCRunning == {"live", "changed"}

===============================================================================
