----------------------------- MODULE AgentLife ------------------------------
(***************************************************************************)
(* An agent in its cluster, from the installation on: the first pod's      *)
(* bootstrap, registration, and self-updates that replace the pod.  Only a *)
(* registered agent changes the Deployment, so that every later pod finds  *)
(* a cluster in which all objects exist; applying them again changes       *)
(* nothing there and is one step.                                          *)
(***************************************************************************)
EXTENDS Bootstrap, SelfUpdate

lifeVars == <<bootVars, updateVars>>

LifeInit == BootInit /\ UpdateInit

BootPhase == boot # "serving" /\ BootNext /\ UNCHANGED updateVars

UpdatePhase == boot = "serving" /\ UpdateNext /\ UNCHANGED bootVars

LifeNext ==
    \/ BootPhase \/ UpdatePhase
    \/ ServerReplaced /\ UNCHANGED bootVars

LifeSpec == LifeInit /\ [][LifeNext]_lifeVars

\* The process runs and is restarted, the API server finishes what it accepts,
\* every agent and the Deployment's controller keep running.
FairLifeSpec ==
    /\ LifeSpec
    /\ WF_lifeVars(BootStep /\ UNCHANGED updateVars)
    /\ WF_lifeVars(Establish /\ UNCHANGED updateVars)
    /\ WF_lifeVars(Publish /\ UNCHANGED updateVars)
    /\ WF_lifeVars(boot = "serving" /\ Controller /\ UNCHANGED bootVars)
    /\ \A v \in Versions :
          WF_lifeVars(/\ boot = "serving" /\ UNCHANGED bootVars
                      /\ \E p \in pods : p.version = v /\ AgentStep(p))
-----------------------------------------------------------------------------
\* Every variable has the shape of the value it stands for.
LifeTypeOK == BootTypeOK /\ UpdateTypeOK

\* An agent registers and serves tunnel traffic only once the whole
\* infrastructure is in place (bootstrap.go: "in place before the agent starts
\* serving"), however many attempts failed half-way and whichever pod it is,
\* unless the bootstrap is disabled.
ServesComplete == enabled /\ (\E p \in pods : p.pc # "bootstrap") => Objects \subseteq applied
=============================================================================
