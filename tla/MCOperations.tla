----------------------------- MODULE MCOperations -----------------------------
(***************************************************************************)
(* What keeps the backend at work, on small instances: each behaviour is   *)
(* of the deployment script (AutoDeploy; three commits of any kind) or of  *)
(* the background jobs (JobManager; two jobs in a registry for one).       *)
(* At rest neither has a step that its fairness would ask for.             *)
(***************************************************************************)
EXTENDS AutoDeploy

CONSTANTS MaxJobs, PersistEvery, Stages, NumJobs, MaxLines, MaxCrashes, MaxTorn, LongLines

VARIABLES scene, jobs, disk, task, child, lines, serving, poller, jobFaults, evicted

Jobs == INSTANCE JobManager WITH faults <- jobFaults

ASSUME JobsAssumption == Jobs!JobAssumption

jobVars == <<jobs, disk, task, child, lines, serving, poller, jobFaults, evicted>>

MCInit == scene \in {"deploy", "jobs"} /\ Init /\ Jobs!Init

MCNext == \/ scene = "deploy" /\ Next /\ UNCHANGED <<scene, jobVars>>
          \/ scene = "jobs" /\ Jobs!Next /\ UNCHANGED <<scene, vars>>

MCSpec == /\ MCInit /\ [][MCNext]_<<scene, vars, jobVars>>
          /\ Fairness /\ Jobs!Fairness

-----------------------------------------------------------------------------
\* JobManager's properties: a verdict that was shown is right and stays, and every
\* browser that polls is told one.
VerdictStands == Jobs!VerdictStands
EveryPollerIsTold == Jobs!EveryPollerIsTold
=============================================================================
