------------------------------ MODULE AutoDeploy ------------------------------
(***************************************************************************)
(* The pull deployment of the backend: infra/vm-autodeploy.sh, started     *)
(* every two minutes by systemd, the service unit it restarts, and the     *)
(* manual "vm.sh deploy", which takes no lock.                             *)
(*                                                                         *)
(* Commits of main are numbered; history is linear, so a pull always fast- *)
(* forwards.  git pull fetches again: it takes whatever main is by then.   *)
(* The virtual environment is not modelled, the unit's "uv run" syncs it   *)
(* at every start.                                                         *)
(***************************************************************************)
EXTENDS Naturals, FiniteSetsExt

CONSTANTS MaxCommit,    \* bound: commits pushed to main
          MaxFaults,    \* bound: kills of the script (TimeoutStartSec), missed health checks
                        \* and crashes of healthy code, manual deployments and restarts
          StartBurst    \* StartLimitBurst: starts systemd allows in StartLimitIntervalSec

ASSUME DeployAssumption ==
    /\ MaxCommit \in Nat /\ MaxFaults \in Nat
    /\ StartBurst \in Nat \ {0}

VARIABLES
    kind,       \* the commits of main: "docs", "good" or "bad" (never gets healthy)
    ci,         \* per commit: "none" (or still running), "success", "failure"
    head,       \* HEAD of the checkout on the VM
    running,    \* the commit the backend process was started from
    up,         \* /health answers "database":"healthy"
    alive,      \* there is a backend process, or systemd is about to start one
    starts,     \* starts counted in systemd's present interval
    pc,         \* the script: "idle", "gate", "pull", "restart", "wait", "reset",
                \* "restart again", "wait again"
    local,      \* LOCAL
    remote,     \* REMOTE
    op,         \* vm.sh deploy: "idle", "restart" or "wait"
    faults,     \* faults and manual operations so far
    mishaps     \* history: what has gone wrong around the script

repo == <<kind, ci>>
service == <<running, up, alive, starts>>
script == <<pc, local, remote>>
vars == <<repo, head, service, script, op, faults, mishaps>>

Mishaps == {"overtaken",    \* the pull brought a commit newer than the one checked
            "killed",       \* the script was killed between its pull and its end
            "hiccup",       \* healthy code missed its health check
            "refused",      \* systemd refused the script's restart
            "given up",     \* systemd refused to start healthy code again after a crash
            "manual"}       \* somebody deployed or restarted by hand

Commits == 0 .. MaxCommit
Main == Max(DOMAIN kind)

\* The commit that last changed the backend, seen from commit c.
Code(c) == Max({d \in 0 .. c : kind[d] # "docs"})

Init == /\ kind = [c \in {0} |-> "good"]
        /\ ci = [c \in {0} |-> "success"]
        /\ head = 0
        /\ running = 0
        /\ up = TRUE
        /\ alive = TRUE
        /\ starts = 0
        /\ pc = "idle"
        /\ local = 0
        /\ remote = 0
        /\ op = "idle"
        /\ faults = 0
        /\ mishaps = {}

-----------------------------------------------------------------------------
Fault == faults < MaxFaults /\ faults' = faults + 1

\* GitHub

Push(k) ==
    /\ Main < MaxCommit
    /\ kind' = [c \in 0 .. Main + 1 |-> IF c \in DOMAIN kind THEN kind[c] ELSE k]
    /\ ci' = [c \in 0 .. Main + 1 |-> IF c \in DOMAIN ci THEN ci[c] ELSE "none"]
    /\ UNCHANGED <<head, service, script, op, faults, mishaps>>

CiEnds(c, verdict) ==
    /\ ci[c] = "none"
    /\ ci' = [ci EXCEPT ![c] = verdict]
    /\ UNCHANGED <<kind, head, service, script, op, faults, mishaps>>

-----------------------------------------------------------------------------
\* The service: a start takes the code that is checked out.

Start == /\ starts < StartBurst
         /\ starts' = starts + 1
         /\ running' = head
         /\ alive' = TRUE
         /\ up' = FALSE

\* The start limit is hit: whatever ran is stopped, and the unit stays down until
\* somebody starts it in another interval.
Refused == /\ starts = StartBurst
           /\ alive' = FALSE
           /\ up' = FALSE
           /\ UNCHANGED <<running, starts>>

\* StartLimitIntervalSec is over.
IntervalEnds ==
    /\ starts > 0
    /\ starts' = 0
    /\ UNCHANGED <<repo, head, running, up, alive, script, op, faults, mishaps>>

GetsHealthy == kind[Code(running)] = "good"

\* The backend has loaded its models and reaches its database.
BecomeHealthy ==
    /\ alive /\ ~up
    /\ GetsHealthy
    /\ up' = TRUE
    /\ UNCHANGED <<repo, head, running, alive, starts, script, op, faults, mishaps>>

\* Restart=always, within the limit.  Broken code may end as often as it is started.
Crash ==
    /\ alive
    /\ IF GetsHealthy
         THEN Fault
         ELSE UNCHANGED faults
    /\ \/ Start /\ UNCHANGED mishaps
       \/ Refused /\ mishaps' = IF GetsHealthy THEN mishaps \cup {"given up"} ELSE mishaps
    /\ UNCHANGED <<repo, head, script, op>>

-----------------------------------------------------------------------------
\* vm-autodeploy.sh.  What it has found out is gone when it exits.

Goto(step) == pc' = step /\ UNCHANGED <<local, remote>>
Exit == pc' = "idle" /\ local' = 0 /\ remote' = 0

\* git fetch; LOCAL and REMOTE differ.
Poll ==
    /\ pc = "idle"
    /\ head # Main
    /\ pc' = "gate"
    /\ local' = head
    /\ remote' = Main
    /\ UNCHANGED <<repo, head, service, op, faults, mishaps>>

\* Mutated: only a failed CI run stops the deployment.
GateUnlessFailed ==
    /\ pc = "gate"
    /\ IF ci[remote] = "failure" THEN Exit ELSE Goto("pull")
    /\ UNCHANGED <<repo, head, service, op, faults, mishaps>>

\* The CI gate: only success goes on, anything else waits for the next tick.
Gate ==
    /\ pc = "gate"
    /\ IF ci[remote] = "success" THEN Goto("pull") ELSE Exit
    /\ UNCHANGED <<repo, head, service, op, faults, mishaps>>

\* git diff --name-only names a file of the backend.
TouchesBackend(from, to) == \E c \in from + 1 .. to : kind[c] # "docs"

\* CHANGED is the difference up to REMOTE; git pull goes to main as it is now.
Pull ==
    /\ pc = "pull"
    /\ head' = Main
    /\ IF TouchesBackend(local, remote) THEN Goto("restart") ELSE Exit
    /\ mishaps' = IF Main = remote THEN mishaps ELSE mishaps \cup {"overtaken"}
    /\ UNCHANGED <<repo, service, op, faults>>

\* sudo systemctl restart midas-backend || return 1
Restart ==
    /\ \/ /\ Start
          /\ \/ pc = "restart" /\ Goto("wait")
             \/ pc = "restart again" /\ Goto("wait again")
          /\ UNCHANGED mishaps
       \/ /\ Refused
          /\ \/ pc = "restart" /\ Goto("reset")
             \/ pc = "restart again" /\ Exit
          /\ mishaps' = mishaps \cup {"refused"}
    /\ UNCHANGED <<repo, head, op, faults>>

\* restart_and_wait succeeds; the script is done.
HealthSeen ==
    /\ pc \in {"wait", "wait again"}
    /\ up
    /\ Exit
    /\ UNCHANGED <<repo, head, service, op, faults, mishaps>>

\* Forty probes without an answer, for broken code, without a process or by bad luck.
Unhealthy ==
    /\ ~up
    /\ IF GetsHealthy /\ alive
         THEN /\ Fault
              /\ mishaps' = mishaps \cup {"hiccup"}
         ELSE UNCHANGED <<faults, mishaps>>

HealthMissing ==
    /\ Unhealthy
    /\ \/ pc = "wait" /\ Goto("reset")
       \/ pc = "wait again" /\ Exit
    /\ UNCHANGED <<repo, head, service, op>>

\* Mutated: forgets to check the old commit out again.
ResetNothing ==
    /\ pc = "reset"
    /\ Goto("restart again")
    /\ UNCHANGED <<repo, head, service, op, faults, mishaps>>

\* git reset --hard LOCAL
Reset ==
    /\ pc = "reset"
    /\ head' = local
    /\ Goto("restart again")
    /\ UNCHANGED <<repo, service, op, faults, mishaps>>

\* TimeoutStartSec, or the VM goes down: the lock goes with the process.
Kill ==
    /\ pc # "idle"
    /\ Fault
    /\ mishaps' = IF pc \in {"gate", "pull"} THEN mishaps ELSE mishaps \cup {"killed"}
    /\ Exit
    /\ UNCHANGED <<repo, head, service, op>>

Script == Poll \/ Gate \/ Pull \/ Restart \/ HealthSeen \/ HealthMissing \/ Reset

-----------------------------------------------------------------------------
\* vm.sh deploy and vm.sh restart: no lock, no CI gate, no rollback.

\* deploy pulls first, restart does not.
ManualBegin ==
    /\ op = "idle"
    /\ Fault
    /\ mishaps' = mishaps \cup {"manual"}
    /\ head' \in {Main, head}
    /\ op' = "restart"
    /\ UNCHANGED <<repo, service, script>>

ManualRestart ==
    /\ op = "restart"
    /\ \/ Start /\ op' = "wait"
       \/ Refused /\ op' = "idle"
    /\ UNCHANGED <<repo, head, script, faults, mishaps>>

\* wait_healthy, in time or not.
ManualEnd ==
    /\ op = "wait"
    /\ op' = "idle"
    /\ UNCHANGED <<repo, head, service, script, faults, mishaps>>

Manual == ManualBegin \/ ManualRestart \/ ManualEnd

-----------------------------------------------------------------------------
Next == \/ \E k \in {"docs", "good", "bad"} : Push(k)
        \/ \E c \in DOMAIN ci, verdict \in {"success", "failure"} : CiEnds(c, verdict)
        \/ BecomeHealthy \/ Crash \/ IntervalEnds
        \/ Script
        \/ Kill
        \/ Manual

Spec == Init /\ [][Next]_vars

\* The timer keeps firing and a running script proceeds; CI runs end; code that can
\* get healthy does; systemd's interval ends; a manual deployment, once begun, is finished.
Fairness == /\ WF_vars(Script)
            /\ WF_vars(BecomeHealthy) /\ WF_vars(IntervalEnds)
            /\ WF_vars(ManualRestart) /\ WF_vars(ManualEnd)
            /\ \A c \in Commits : WF_vars(\E verdict \in {"success", "failure"} :
                                              c \in DOMAIN ci /\ CiEnds(c, verdict))

FairSpec == Spec /\ Fairness

-----------------------------------------------------------------------------
TypeOK ==
    /\ DOMAIN kind = 0 .. Main /\ DOMAIN ci = 0 .. Main
    /\ \A c \in 0 .. Main : /\ kind[c] \in {"docs", "good", "bad"}
                            /\ ci[c] \in {"none", "success", "failure"}
    /\ head \in 0 .. Main /\ running \in 0 .. Main
    /\ local \in 0 .. Main /\ remote \in 0 .. Main
    /\ up \in BOOLEAN /\ alive \in BOOLEAN
    /\ up => GetsHealthy /\ alive
    /\ starts \in 0 .. StartBurst
    /\ pc \in {"idle", "gate", "pull", "restart", "wait", "reset", "restart again", "wait again"}
    /\ op \in {"idle", "restart", "wait"}
    /\ mishaps \subseteq Mishaps

(* "CI 통과한 커밋만 배포한다": the backend never runs a commit that CI has not
   passed, as long as no pull is overtaken by a push and nobody deploys by hand. *)
RunsCheckedUnlessOvertaken ==
    /\ TypeOK
    /\ mishaps \cap {"overtaken", "manual"} = {} => ci[running] = "success"

Undisturbed == mishaps \subseteq {"hiccup"}
Deployable == ci[Main] = "success" /\ kind[Code(Main)] = "good"
Current == alive /\ Code(running) = Code(Main)

(* "main 이 움직이면 스스로 배포한다", "스스로 복구한다": unless a push, a kill or a
   manual deployment comes in between, or healthy code itself crashes into systemd's start
   limit, good code that has passed CI ends up running once main stops moving: through missed
   health checks, crashes and restarts that systemd refused after broken code had used up its
   starts.  And however often broken code that passed CI is deployed and rolled back, the
   service comes back, as long as systemd has refused no restart. *)
RecoversUnlessMishap ==
    /\ <>[]Deployable => <>[](mishaps \subseteq {"hiccup", "refused"} => Current)
    /\ []<>(Undisturbed => up)
=============================================================================
