-------------------------- MODULE ResultCapability ---------------------------
(***************************************************************************)
(* What DiscoveryWebSession promises about its opaque result ids: an id is *)
(* good for one fetch, in the run that issued it, one fetch at a time, and *)
(* for none once the session is closed.                                    *)
(***************************************************************************)
CONSTANT Ids

VARIABLES
  state,  \* "unissued", "issued", "inuse" or "spent"
  open

capabilityVars == <<state, open>>

In(s) == {i \in Ids : state[i] = s}

CapabilityInit == state = [i \in Ids |-> "unissued"] /\ open = TRUE

\* The trusted search results of one answer get fresh ids.
Issue(S) ==
  /\ open
  /\ S \subseteq In("unissued")
  /\ state' = [i \in Ids |-> IF i \in S THEN "issued" ELSE state[i]]
  /\ UNCHANGED open

Use(i) ==
  /\ open
  /\ state[i] = "issued"
  /\ In("inuse") = {}
  /\ state' = [state EXCEPT ![i] = "inuse"]
  /\ UNCHANGED open

\* Whatever the fetch led to, the id is used up.
Spend(i) ==
  /\ state[i] = "inuse"
  /\ state' = [state EXCEPT ![i] = "spent"]
  /\ UNCHANGED open

Shut ==
  /\ In("inuse") = {}
  /\ open' = FALSE
  /\ state' = [i \in Ids |-> IF state[i] = "issued" THEN "spent" ELSE state[i]]

CapabilityNext ==
  \/ \E S \in SUBSET Ids : Issue(S)
  \/ \E i \in Ids : Use(i) \/ Spend(i)
  \/ Shut

CapabilitySpec == CapabilityInit /\ [][CapabilityNext]_capabilityVars
=============================================================================
