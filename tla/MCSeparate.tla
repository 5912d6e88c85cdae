------------------------------ MODULE MCSeparate ------------------------------
(***************************************************************************)
(* The components that share no state with any other, for TLC: a behaviour *)
(* is one of Health, Access, Peers, Paging or Jobs, while the others stay  *)
(* where they began.  What they would do side by side is only the product. *)
(***************************************************************************)
EXTENDS Health, Access, Peers, Paging, Jobs, TLC

CONSTANTS p1, p2, p3

\* Three replicas, two of which have clocks that are wrong.
Clocks == p1 :> 0 @@ p2 :> 1 @@ p3 :> 2

VARIABLE part   \* the component that runs

vars == <<part, healthVars, accessVars, peersVars, pagingVars, jobVars>>

Init ==
    /\ part \in {"health", "access", "peers", "paging", "jobs"}
    /\ HealthInit /\ AccessInit /\ PeersInit /\ PagingInit /\ JobInit

Next ==
    /\ UNCHANGED part
    /\ \/ /\ part = "health"
          /\ HealthNext
          /\ UNCHANGED <<accessVars, peersVars, pagingVars, jobVars>>
       \/ /\ part = "access"
          /\ AccessNext
          /\ UNCHANGED <<healthVars, peersVars, pagingVars, jobVars>>
       \/ /\ part = "peers"
          /\ PeersNext
          /\ UNCHANGED <<healthVars, accessVars, pagingVars, jobVars>>
       \/ /\ part = "paging"
          /\ PagingNext
          /\ UNCHANGED <<healthVars, accessVars, peersVars, jobVars>>
       \/ /\ part = "jobs"
          /\ JobNext
          /\ UNCHANGED <<healthVars, accessVars, peersVars, pagingVars>>

Spec == Init /\ [][Next]_vars /\ (part = "health" => HealthFairness)

\* Every variable of the five keeps its type.
TypeOK ==
    /\ HealthTypeOK /\ AccessTypeOK /\ PeersTypeOK /\ PagingTypeOK
    /\ job \in JobSet /\ other \in JobSet /\ startedIn \in Eras /\ readIn \in Eras
=============================================================================
