---------------------------- MODULE OperationsProofs ----------------------------
(***************************************************************************)
(* What runs beside the requests, for all bounds.  The deployment script:  *)
(* any number of commits, faults and manual deployments.  The background   *)
(* jobs: any number of jobs, sizes of the registry, lines, crashes and     *)
(* torn files.  The market caches: any number of requests, any lifetime    *)
(* and any clock.  The market load: any interval, any period asked for and *)
(* any sequence of failures.                                               *)
(***************************************************************************)
EXTENDS MCOperations, MarketCache, MarketIngest, CollectionLemmas

(***************************************************************************)
(* The deployment.  RunsCheckedUnlessOvertaken speaks of the commit that   *)
(* runs.  A start takes what is checked out, and a roll-back checks out    *)
(* what was before, so that both have to be known to have passed as well,  *)
(* and the commit to be pulled from the gate on.                           *)
(***************************************************************************)
Undisputed == mishaps \cap {"overtaken", "manual"} = {}
Passed(c) == ci[c] = "success"

DeployInv ==
    /\ TypeOK
    /\ Main \in Nat
    /\ kind[0] = "good"
    /\ op # "idle" => "manual" \in mishaps
    /\ Undisputed => /\ Passed(running)
                     /\ Passed(head)
                     /\ pc # "idle" => Passed(local)
                     /\ pc = "pull" => Passed(remote)

-----------------------------------------------------------------------------
\* A push adds a commit behind the others and changes none of them.
LEMMA PushEffect ==
  ASSUME DeployInv, NEW k \in {"docs", "good", "bad"}, Push(k)
  PROVE  /\ Main' = Main + 1
         /\ DOMAIN kind' = 0 .. Main + 1 /\ DOMAIN ci' = 0 .. Main + 1
         /\ \A c \in 0 .. Main : kind'[c] = kind[c] /\ ci'[c] = ci[c]
         /\ kind'[Main + 1] = k /\ ci'[Main + 1] = "none"
<1>1. DOMAIN kind = 0 .. Main /\ DOMAIN ci = 0 .. Main /\ Main \in Nat
  BY DEF DeployInv, TypeOK
<1>2. /\ kind' = [c \in 0 .. Main + 1 |-> IF c \in DOMAIN kind THEN kind[c] ELSE k]
      /\ ci' = [c \in 0 .. Main + 1 |-> IF c \in DOMAIN ci THEN ci[c] ELSE "none"]
  BY DEF Push
<1>3. DOMAIN kind' = 0 .. Main + 1
  BY <1>2
<1>4. Main' = Main + 1
  BY <1>1, <1>3, MaxOfInterval DEF Main
<1>5. Main + 1 \notin 0 .. Main /\ \A c \in 0 .. Main : c \in 0 .. Main + 1
  BY <1>1
<1> QED BY <1>1, <1>2, <1>3, <1>4, <1>5

\* The commit that last changed the backend is one of those up to c, and does not depend
\* on later ones.
LEMMA CodeStays ==
  ASSUME DeployInv, NEW c \in 0 .. Main, \A d \in 0 .. Main : kind'[d] = kind[d]
  PROVE  /\ Code(c) \in 0 .. Main
         /\ Code(c) = Max({d \in 0 .. c : kind'[d] # "docs"})
<1> DEFINE T == {d \in 0 .. c : kind[d] # "docs"}
<1>1. \A d \in 0 .. c : d \in 0 .. Main
  BY DEF DeployInv
<1>2. {d \in 0 .. c : kind'[d] # "docs"} = T
  BY <1>1
<1>3. T # {} /\ T \subseteq Nat /\ c \in Nat /\ \A d \in T : d <= c
  BY DEF DeployInv
<1>4. Max(T) \in T
  BY <1>3, MaxIsGreatest
<1>5. Code(c) = Max(T)
  BY DEF Code
<1> QED BY <1>1, <1>2, <1>4, <1>5

\* What runs, is checked out or is to be pulled is as old as before, and judged as before.
LEMMA PushKeeps ==
  ASSUME DeployInv, NEW k \in {"docs", "good", "bad"}, Push(k)
  PROVE  DeployInv'
<1>1. UNCHANGED <<head, running, up, alive, starts, pc, local, remote, op, faults, mishaps>>
  BY DEF Push, script, service
<1>2. Main \in Nat /\ Main' = Main + 1
  BY PushEffect DEF DeployInv
<1>0. \A c \in 0 .. Main : c \in 0 .. Main + 1
  BY <1>2
<1>3. head \in 0 .. Main /\ running \in 0 .. Main /\ local \in 0 .. Main /\ remote \in 0 .. Main
  BY DEF DeployInv, TypeOK
<1>4. \A c \in 0 .. Main : kind'[c] = kind[c] /\ ci'[c] = ci[c]
  BY PushEffect
<1>5. \A c \in 0 .. Main' : /\ kind'[c] \in {"docs", "good", "bad"}
                            /\ ci'[c] \in {"none", "success", "failure"}
  <2> TAKE c \in 0 .. Main'
  <2>1. CASE c \in 0 .. Main
    BY <2>1, <1>4 DEF DeployInv, TypeOK
  <2>2. CASE c = Main + 1
    BY <2>2, PushEffect
  <2> QED BY <2>1, <2>2, <1>2
<1>6. GetsHealthy' = GetsHealthy
  <2> DEFINE code == Code(running)
             codeThen == Max({d \in 0 .. running : kind'[d] # "docs"})
  <2>1. code \in 0 .. Main /\ code = codeThen
    BY <1>3, <1>4, CodeStays
  <2>2. Code(running)' = codeThen
    BY <1>1 DEF Code
  <2> HIDE DEF code, codeThen
  <2>3. kind'[Code(running)'] = kind[code]
    BY <2>1, <2>2, <1>4
  <2> QED BY <2>3 DEF GetsHealthy, code
<1>7. DOMAIN kind' = 0 .. Main' /\ DOMAIN ci' = 0 .. Main'
  BY <1>2, PushEffect
<1>8. TypeOK'
  BY <1>0, <1>1, <1>2, <1>3, <1>5, <1>6, <1>7 DEF DeployInv, TypeOK
<1>9. kind'[0] = "good"
  BY <1>2, <1>4 DEF DeployInv
<1>10. \A c \in 0 .. Main : Passed(c) => Passed(c)'
  BY <1>4 DEF Passed
<1> QED BY <1>1, <1>2, <1>3, <1>8, <1>9, <1>10 DEF DeployInv, Undisputed, Passed

\* A CI run ends: what has passed has passed.
LEMMA CiEndsKeeps ==
  ASSUME DeployInv, NEW c \in DOMAIN ci, NEW verdict \in {"success", "failure"}, CiEnds(c, verdict)
  PROVE  DeployInv'
<1>1. /\ ci[c] = "none" /\ ci' = [ci EXCEPT ![c] = verdict]
      /\ UNCHANGED <<kind, head, running, up, alive, starts, pc, local, remote, op, faults, mishaps>>
  BY DEF CiEnds, script, service
<1>2. Main' = Main /\ GetsHealthy' = GetsHealthy
  BY <1>1 DEF Main, GetsHealthy, Code
<1>3. TypeOK'
  BY <1>1, <1>2 DEF DeployInv, TypeOK
<1>4. \A d \in 0 .. Main : ci[d] = "success" => ci'[d] = "success"
  BY <1>1 DEF DeployInv, TypeOK
<1> QED BY <1>1, <1>2, <1>3, <1>4 DEF DeployInv, TypeOK, Undisputed, Passed

\* Every other step leaves the repository alone.  A start may change what runs, and then
\* /health does not answer yet.
LEMMA OthersKeepTypes ==
  ASSUME DeployInv, UNCHANGED repo,
         head' \in 0 .. Main, running' \in 0 .. Main, local' \in 0 .. Main, remote' \in 0 .. Main,
         up' \in BOOLEAN, alive' \in BOOLEAN, starts' \in 0 .. StartBurst,
         up' => GetsHealthy /\ running' = running /\ alive',
         pc' \in {"idle", "gate", "pull", "restart", "wait", "reset", "restart again", "wait again"},
         op' \in {"idle", "restart", "wait"}, mishaps' \subseteq Mishaps
  PROVE  TypeOK' /\ Main' = Main /\ kind' = kind /\ ci' = ci
<1>1. kind' = kind /\ ci' = ci
  BY DEF repo
<1>2. Main' = Main
  BY <1>1 DEF Main
<1>3. up' => GetsHealthy'
  BY <1>1 DEF GetsHealthy, Code
<1> QED BY <1>1, <1>2, <1>3 DEF DeployInv, TypeOK

\* A start counts up to the limit, and takes what is checked out.
LEMMA StartTypes ==
  ASSUME DeployInv, Start \/ Refused
  PROVE  /\ up' = FALSE /\ alive' \in BOOLEAN /\ starts' \in 0 .. StartBurst
         /\ running' \in {running, head}
<1>1. starts \in 0 .. StartBurst /\ StartBurst \in Nat
  BY DeployAssumption DEF DeployInv, TypeOK
<1>2. up' = FALSE /\ alive' \in BOOLEAN /\ running' \in {running, head}
  BY DEF Start, Refused
<1>3. starts' \in 0 .. StartBurst
  <2>1. CASE Start
    <3>1. starts' = starts + 1 /\ starts < StartBurst
      BY <2>1 DEF Start
    <3> QED BY <1>1, <3>1
  <2>2. CASE Refused
    BY <1>1, <2>2 DEF Refused
  <2> QED BY <2>1, <2>2
<1> QED BY <1>2, <1>3

\* The service starts and stops without choosing what it runs.
LEMMA ServiceKeeps ==
  ASSUME DeployInv, BecomeHealthy \/ Crash \/ IntervalEnds
  PROVE  DeployInv'
<1> DEFINE Kept == TypeOK' /\ Main' = Main /\ kind' = kind /\ ci' = ci
<1>1. TypeOK /\ Main \in Nat /\ StartBurst \in Nat
  BY DeployAssumption DEF DeployInv
<1>2. CASE BecomeHealthy
  <2>1. Kept
    BY <1>1, <1>2, OthersKeepTypes DEF BecomeHealthy, script, TypeOK
  <2> QED BY <1>2, <2>1 DEF BecomeHealthy, script, DeployInv, Undisputed, Passed
<1>3. CASE Crash
  <2>1. /\ UNCHANGED <<repo, head, pc, local, remote, op>>
        /\ mishaps' = mishaps \/ mishaps' = mishaps \cup {"given up"}
        /\ Start \/ Refused
    BY <1>3 DEF Crash, script
  <2>2. /\ up' = FALSE /\ alive' \in BOOLEAN /\ starts' \in 0 .. StartBurst
        /\ running' \in {running, head}
    BY <2>1, StartTypes
  <2>3. Kept
    BY <1>1, <2>1, <2>2, OthersKeepTypes DEF TypeOK, Mishaps
  <2>4. Undisputed' = Undisputed
    BY <2>1 DEF Undisputed
  <2> QED BY <2>1, <2>2, <2>3, <2>4 DEF DeployInv, Passed
<1>4. CASE IntervalEnds
  <2>1. starts' \in 0 .. StartBurst
    BY <1>1, <1>4 DEF IntervalEnds
  <2>2. Kept
    BY <1>1, <1>4, <2>1, OthersKeepTypes DEF IntervalEnds, script, TypeOK
  <2> QED BY <1>4, <2>2 DEF IntervalEnds, script, DeployInv, Undisputed, Passed
<1> QED BY <1>2, <1>3, <1>4

\* The script: what it checks out has passed the gate, or is what was checked out before.
LEMMA ScriptKeeps ==
  ASSUME DeployInv, Script \/ Kill
  PROVE  DeployInv'
<1> DEFINE Kept == TypeOK' /\ Main' = Main /\ kind' = kind /\ ci' = ci
<1>1. TypeOK /\ Main \in Nat /\ Main \in 0 .. Main /\ 0 \in 0 .. Main
  BY DEF DeployInv
<1>2. CASE Poll
  <2>1. Kept
    BY <1>1, <1>2, OthersKeepTypes DEF Poll, service, TypeOK
  <2> QED BY <1>2, <2>1 DEF Poll, service, DeployInv, Undisputed, Passed
<1>3. CASE Gate
  <2>1. Kept
    BY <1>1, <1>3, OthersKeepTypes DEF Gate, Goto, Exit, service, TypeOK
  <2> QED BY <1>3, <2>1 DEF Gate, Goto, Exit, service, DeployInv, Undisputed, Passed
<1>4. CASE Pull
  <2>1. Kept
    BY <1>1, <1>4, OthersKeepTypes DEF Pull, Goto, Exit, service, TypeOK, Mishaps
  <2>2. Undisputed' => Undisputed /\ Main = remote
    BY <1>4 DEF Pull, Undisputed
  <2> QED BY <1>4, <2>1, <2>2 DEF Pull, Goto, Exit, service, DeployInv, Passed
<1>5. CASE Restart
  <2>1. /\ UNCHANGED <<repo, head, op>>
        /\ mishaps' = mishaps \/ mishaps' = mishaps \cup {"refused"}
        /\ Start \/ Refused
        /\ Exit \/ \E step \in {"wait", "wait again", "reset"} : Goto(step)
    BY <1>5 DEF Restart
  <2>2. /\ up' = FALSE /\ alive' \in BOOLEAN /\ starts' \in 0 .. StartBurst
        /\ running' \in {running, head}
    BY <2>1, StartTypes
  <2>3. Kept
    BY <1>1, <2>1, <2>2, OthersKeepTypes DEF Goto, Exit, TypeOK, Mishaps
  <2>4. Undisputed' = Undisputed
    BY <2>1 DEF Undisputed
  <2>5. (pc' # "idle" => pc # "idle" /\ local' = local) /\ pc' # "pull"
    BY <1>5 DEF Restart, Goto, Exit
  <2> QED BY <2>1, <2>2, <2>3, <2>4, <2>5 DEF DeployInv, Passed
<1>6. CASE HealthSeen
  <2>1. Kept
    BY <1>1, <1>6, OthersKeepTypes DEF HealthSeen, Exit, service, TypeOK
  <2> QED BY <1>6, <2>1 DEF HealthSeen, Exit, service, DeployInv, Undisputed, Passed
<1>7. CASE HealthMissing
  <2>1. mishaps' = mishaps \/ mishaps' = mishaps \cup {"hiccup"}
    BY <1>7 DEF HealthMissing, Unhealthy
  <2>2. Kept
    BY <1>1, <1>7, <2>1, OthersKeepTypes DEF HealthMissing, Goto, Exit, service, TypeOK, Mishaps
  <2>3. Undisputed' = Undisputed
    BY <2>1 DEF Undisputed
  <2> QED BY <1>7, <2>1, <2>2, <2>3 DEF HealthMissing, Goto, Exit, service, DeployInv, Passed
<1>8. CASE Reset
  <2>1. Kept
    BY <1>1, <1>8, OthersKeepTypes DEF Reset, Goto, service, TypeOK
  <2> QED BY <1>8, <2>1 DEF Reset, Goto, service, DeployInv, Undisputed, Passed
<1>9. CASE Kill
  <2>1. mishaps' = mishaps \/ mishaps' = mishaps \cup {"killed"}
    BY <1>9 DEF Kill
  <2>2. Kept
    BY <1>1, <1>9, <2>1, OthersKeepTypes DEF Kill, Exit, service, TypeOK, Mishaps
  <2>3. Undisputed' = Undisputed
    BY <2>1 DEF Undisputed
  <2> QED BY <1>9, <2>1, <2>2, <2>3 DEF Kill, Exit, service, DeployInv, Passed
<1> QED BY <1>2, <1>3, <1>4, <1>5, <1>6, <1>7, <1>8, <1>9 DEF Script

\* Deployments by hand go round the gate, and are on record as such.
LEMMA ManualKeeps ==
  ASSUME DeployInv, Manual
  PROVE  DeployInv'
<1> DEFINE Kept == TypeOK' /\ Main' = Main /\ kind' = kind /\ ci' = ci
<1>1. TypeOK /\ Main \in Nat /\ Main \in 0 .. Main
  BY DEF DeployInv
<1>2. CASE ManualBegin
  <2>1. Kept
    BY <1>1, <1>2, OthersKeepTypes DEF ManualBegin, script, service, TypeOK, Mishaps
  <2>2. "manual" \in mishaps' /\ ~Undisputed'
    BY <1>2 DEF ManualBegin, Undisputed
  <2> QED BY <1>2, <2>1, <2>2 DEF ManualBegin, DeployInv, Passed
<1>3. CASE ManualRestart
  <2>1. /\ UNCHANGED <<repo, head, pc, local, remote, mishaps>> /\ op = "restart"
        /\ Start \/ Refused
        /\ op' \in {"idle", "wait"}
    BY <1>3 DEF ManualRestart, script
  <2>2. /\ up' = FALSE /\ alive' \in BOOLEAN /\ starts' \in 0 .. StartBurst
        /\ running' \in {running, head}
    BY <2>1, StartTypes
  <2>3. Kept
    BY <1>1, <2>1, <2>2, OthersKeepTypes DEF TypeOK
  <2> QED BY <2>1, <2>2, <2>3 DEF DeployInv, Undisputed, Passed
<1>4. CASE ManualEnd
  <2>1. Kept
    BY <1>1, <1>4, OthersKeepTypes DEF ManualEnd, script, service, TypeOK
  <2> QED BY <1>4, <2>1 DEF ManualEnd, script, service, DeployInv, Undisputed, Passed
<1> QED BY <1>2, <1>3, <1>4 DEF Manual

\* However many commits are pushed, scripts killed, health checks missed and commits rolled
\* back: unless a pull is overtaken or somebody deploys by hand, what runs has passed CI.
THEOREM OnlyCheckedCodeRuns == Spec => []RunsCheckedUnlessOvertaken
<1>1. Init => DeployInv
  <2> SUFFICES ASSUME Init PROVE DeployInv
    OBVIOUS
  <2>1. DOMAIN kind = 0 .. 0 /\ DOMAIN ci = 0 .. 0 /\ kind[0] = "good" /\ ci[0] = "success"
    BY DEF Init
  <2>2. Main = 0
    BY <2>1, MaxOfInterval DEF Main
  <2>3. GetsHealthy
    <3>1. {d \in 0 .. 0 : kind[d] # "docs"} = 0 .. 0
      BY <2>1
    <3>2. Code(0) = 0
      BY <3>1, MaxOfInterval DEF Code
    <3> QED BY <2>1, <3>2 DEF Init, GetsHealthy
  <2>4. TypeOK
    BY <2>1, <2>2, <2>3, DeployAssumption DEF Init, TypeOK, Mishaps
  <2> QED BY <2>1, <2>2, <2>4 DEF Init, DeployInv, Passed
<1>2. DeployInv /\ [Next]_vars => DeployInv'
  <2> SUFFICES ASSUME DeployInv, [Next]_vars PROVE DeployInv'
    OBVIOUS
  <2>1. CASE UNCHANGED vars
    BY <2>1 DEF vars, repo, service, script, DeployInv, TypeOK, Main, GetsHealthy, Code, Undisputed, Passed
  <2> QED BY <2>1, PushKeeps, CiEndsKeeps, ServiceKeeps, ScriptKeeps, ManualKeeps DEF Next
<1>3. DeployInv => RunsCheckedUnlessOvertaken
  BY DEF DeployInv, RunsCheckedUnlessOvertaken, Undisputed, Passed
<1> QED BY <1>1, <1>2, <1>3, PTL DEF Spec

-----------------------------------------------------------------------------
(***************************************************************************)
(* The jobs.  What the user was told stays true across a restart because   *)
(* the file says the same as the memory of every job that is over, if all  *)
(* files were written; and a success is told only of a process that has    *)
(* exited with 0, so that neither memory nor file may speak of one before. *)
(***************************************************************************)
Told(j) == poller[j] \in Jobs!Final
AtWork(j) == task[j] \in {"spawning", "reading"}
AllWritten == jobFaults.torn = 0

\* What the file of a job will say of it after a restart.
Saved(j, status) ==
    j \in DOMAIN disk /\ disk[j] # Jobs!None /\ Jobs!Loaded(disk[j]).status = status

JobInv(j) ==
    /\ task[j] = "new" => /\ j \notin DOMAIN jobs /\ j \notin DOMAIN disk
                          /\ poller[j] = "off" /\ child[j] = "none"
    /\ task[j] = "spawning" => child[j] = "none"
    /\ AtWork(j) => /\ serving /\ ~Told(j)
                    /\ j \in DOMAIN jobs /\ jobs[j].status = "running"
    /\ j \in DOMAIN jobs /\ jobs[j].status = "running" => task[j] # "over" \/ jobFaults.long > 0
    /\ Told(j) => task[j] = "over"
    /\ \/ j \in DOMAIN jobs /\ jobs[j].status = "succeeded"
       \/ j \in DOMAIN disk /\ disk[j].status = "succeeded"
       \/ poller[j] = "succeeded"
       => child[j] = "exit 0"
    /\ AllWritten => /\ j \in DOMAIN jobs /\ jobs[j].status \in Jobs!Final => Saved(j, jobs[j].status)
                     /\ Told(j) => Saved(j, poller[j])
                     /\ Told(j) /\ j \in DOMAIN jobs => jobs[j].status = poller[j]

JobsInv ==
    /\ Jobs!TypeOK
    /\ jobFaults \in [crash : Nat, torn : Nat, long : Nat]
    /\ \A j \in Jobs!Ids : JobInv(j)

\* Nothing the invariant says of job j is disturbed.
Untouched(j) ==
    /\ task'[j] = task[j] /\ child'[j] = child[j] /\ poller'[j] = poller[j]
    /\ j \in DOMAIN jobs' <=> j \in DOMAIN jobs
    /\ j \in DOMAIN jobs => jobs'[j] = jobs[j]
    /\ j \in DOMAIN disk' <=> j \in DOMAIN disk
    /\ j \in DOMAIN disk => disk'[j] = disk[j]

\* A step that leaves a job alone, on disk and in memory, leaves it in order.
LEMMA UntouchedKeeps ==
  ASSUME NEW j \in Jobs!Ids, JobInv(j), Untouched(j), serving' = serving,
         jobFaults'.long > 0 \/ jobFaults'.long = jobFaults.long, AllWritten' => AllWritten
  PROVE  JobInv(j)'
<1>1. Told(j)' = Told(j) /\ AtWork(j)' = AtWork(j)
  BY DEF Untouched, Told, AtWork, Jobs!Final
<1>2. ASSUME NEW s, Saved(j, s) PROVE Saved(j, s)'
  BY <1>2 DEF Untouched, Saved, Jobs!Loaded
<1> QED BY <1>1, <1>2 DEF JobInv, Untouched

\* persist() writes one file, or spoils it, or leaves it, and counts that.
LEMMA PersistEffect ==
  ASSUME JobsInv, NEW j \in Jobs!Ids, NEW rec \in Jobs!Record, Jobs!Persist(j, rec)
  PROVE  /\ DOMAIN disk' \subseteq Jobs!Ids
         /\ \A i \in DOMAIN disk' : disk'[i] \in Jobs!Record \cup {Jobs!None}
         /\ \A i \in Jobs!Ids \ {j} : /\ i \in DOMAIN disk' <=> i \in DOMAIN disk
                                      /\ i \in DOMAIN disk => disk'[i] = disk[i]
         /\ j \in DOMAIN disk' => \/ disk'[j] \in {rec, Jobs!None}
                                  \/ j \in DOMAIN disk /\ disk'[j] = disk[j]
         /\ jobFaults' \in [crash : Nat, torn : Nat, long : Nat]
         /\ jobFaults'.long = jobFaults.long
         /\ AllWritten' => AllWritten /\ j \in DOMAIN disk' /\ disk'[j] = rec
<1>1. /\ DOMAIN disk \subseteq Jobs!Ids /\ \A i \in DOMAIN disk : disk[i] \in Jobs!Record \cup {Jobs!None}
      /\ jobFaults \in [crash : Nat, torn : Nat, long : Nat]
  BY DEF JobsInv, Jobs!TypeOK
<1>2. ASSUME NEW r \in Jobs!Record \cup {Jobs!None}, disk' = Jobs!With(disk, j, r)
      PROVE  /\ DOMAIN disk' \subseteq Jobs!Ids
             /\ \A i \in DOMAIN disk' : disk'[i] \in Jobs!Record \cup {Jobs!None}
             /\ \A i \in Jobs!Ids \ {j} : /\ i \in DOMAIN disk' <=> i \in DOMAIN disk
                                          /\ i \in DOMAIN disk => disk'[i] = disk[i]
             /\ j \in DOMAIN disk' /\ disk'[j] = r
  BY <1>1, <1>2 DEF Jobs!With
<1>3. CASE disk' = Jobs!With(disk, j, rec) /\ UNCHANGED jobFaults
  BY <1>1, <1>2, <1>3 DEF AllWritten
<1>4. CASE /\ jobFaults' = [jobFaults EXCEPT !.torn = @ + 1]
           /\ \/ disk' = Jobs!With(disk, j, Jobs!None)
              \/ UNCHANGED disk
  <2>1. /\ jobFaults' \in [crash : Nat, torn : Nat, long : Nat]
        /\ jobFaults'.long = jobFaults.long /\ ~AllWritten'
    BY <1>1, <1>4 DEF AllWritten
  <2>2. CASE disk' = Jobs!With(disk, j, Jobs!None)
    BY <1>2, <2>1, <2>2
  <2>3. CASE UNCHANGED disk
    BY <1>1, <2>1, <2>3
  <2> QED BY <1>4, <2>2, <2>3
<1> QED BY <1>3, <1>4 DEF Jobs!Persist

\* The job start() makes room with is over.
LEMMA EvictedIsOver ==
  ASSUME JobsInv, NEW i \in Jobs!EvictedNow
  PROVE  i \in DOMAIN jobs /\ jobs[i].status \in Jobs!Final
<1>1. Jobs!Completed \subseteq Nat
  <2>1. DOMAIN jobs \subseteq 1 .. NumJobs
    BY DEF JobsInv, Jobs!TypeOK, Jobs!Ids
  <2>2. 1 .. NumJobs \subseteq Nat
    BY JobsAssumption DEF Jobs!JobAssumption
  <2> QED BY <2>1, <2>2 DEF Jobs!Completed
<1>2. Jobs!Completed # {} /\ i = Min(Jobs!Completed)
  BY DEF Jobs!EvictedNow, Jobs!Min, Min
<1>3. i \in Jobs!Completed
  BY <1>1, <1>2, MinIsLeast
<1> QED BY <1>3 DEF Jobs!Completed

\* A job starts as running, on disk too unless the file is torn.
LEMMA StartJobKeeps ==
  ASSUME JobsInv, NEW j \in Jobs!Ids, Jobs!StartJob(j)
  PROVE  JobsInv'
<1> DEFINE rec == Jobs!Running
<1>1. rec \in Jobs!Record /\ rec.status = "running"
  BY DEF Jobs!Running, Jobs!Record
<1>2. Jobs!TypeOK /\ JobInv(j)
  BY DEF JobsInv
<1>3. j \notin Jobs!EvictedNow /\ j \notin DOMAIN jobs /\ child[j] = "none"
  BY <1>2, EvictedIsOver DEF JobInv, Jobs!StartJob
<1>4. /\ DOMAIN jobs' = (DOMAIN jobs \ Jobs!EvictedNow) \cup {j}
      /\ jobs'[j] = rec
      /\ \A i \in DOMAIN jobs \ Jobs!EvictedNow : jobs'[i] = jobs[i]
  <2>1. jobs' = Jobs!With(Jobs!Restrict(jobs, DOMAIN jobs \ Jobs!EvictedNow), j, rec)
    BY DEF Jobs!StartJob
  <2> QED BY <1>3, <2>1 DEF Jobs!With, Jobs!Restrict
<1>5. Jobs!Persist(j, rec)
  BY DEF Jobs!StartJob
<1>6. Jobs!TypeOK'
  <2>1. \A i \in DOMAIN jobs' : i \in Jobs!Ids /\ jobs'[i] \in Jobs!Record
    BY <1>1, <1>2, <1>4 DEF Jobs!TypeOK
  <2>2. evicted' \subseteq Jobs!Ids
    BY <1>2, EvictedIsOver DEF Jobs!StartJob, Jobs!TypeOK
  <2> QED BY <1>1, <1>2, <1>5, <2>1, <2>2, PersistEffect DEF Jobs!TypeOK, Jobs!StartJob
<1>7. JobInv(j)'
  <2>1. task'[j] = "spawning" /\ child'[j] = "none" /\ poller'[j] = "polling" /\ serving'
    BY <1>2, <1>3 DEF Jobs!StartJob, Jobs!TypeOK
  <2>2. j \in DOMAIN disk' => disk'[j].status # "succeeded"
    <3>1. j \notin DOMAIN disk
      BY <1>2 DEF JobInv, Jobs!StartJob
    <3> QED BY <1>1, <1>5, <3>1, PersistEffect DEF Jobs!None
  <2> QED BY <1>1, <1>4, <2>1, <2>2 DEF JobInv, Told, AtWork, Jobs!Final
<1>8. ASSUME NEW i \in Jobs!Ids \ {j} PROVE JobInv(i)'
  <2>1. /\ JobInv(i) /\ serving' = serving /\ jobFaults'.long = jobFaults.long
        /\ AllWritten' => AllWritten
    BY <1>1, <1>5, PersistEffect DEF JobsInv, Jobs!StartJob
  <2>2. /\ task'[i] = task[i] /\ child'[i] = child[i] /\ poller'[i] = poller[i]
        /\ i \in DOMAIN disk' <=> i \in DOMAIN disk
        /\ i \in DOMAIN disk => disk'[i] = disk[i]
    BY <1>1, <1>2, <1>5, PersistEffect DEF Jobs!StartJob, Jobs!TypeOK
  <2>3. CASE i \notin Jobs!EvictedNow
    BY <1>4, <2>1, <2>2, <2>3, UntouchedKeeps DEF Untouched
  <2>4. CASE i \in Jobs!EvictedNow
    <3>1. i \notin DOMAIN jobs' /\ ~AtWork(i) /\ task[i] # "new"
      BY <1>4, <2>1, <2>4, EvictedIsOver DEF JobInv, Jobs!Final
    <3>2. AtWork(i)' = AtWork(i) /\ Told(i)' = Told(i)
      BY <2>2 DEF AtWork, Told, Jobs!Final
    <3>3. ASSUME NEW s, Saved(i, s) PROVE Saved(i, s)'
      BY <2>2, <3>3 DEF Saved, Jobs!Loaded
    <3> QED BY <2>1, <2>2, <3>1, <3>2, <3>3 DEF JobInv
  <2> QED BY <2>3, <2>4
<1>9. jobFaults' \in [crash : Nat, torn : Nat, long : Nat]
  BY <1>1, <1>5, PersistEffect
<1> QED BY <1>6, <1>7, <1>8, <1>9 DEF JobsInv, Jobs!Ids

\* A torn file tells no status of a job.
LEMMA NoneStatus == Jobs!None.status = "none"
BY DEF Jobs!None

\* When a task ends, memory and, if it could be written, the file say how.
LEMMA FinishKeeps ==
  ASSUME JobsInv, NEW j \in Jobs!Ids, NEW rec \in Jobs!Record, AtWork(j), Jobs!Finish(j, rec),
         rec.status \in Jobs!Final, rec.status = "succeeded" => child'[j] = "exit 0",
         child[j] = "exit 0" => child'[j] = "exit 0",
         \A i \in Jobs!Ids \ {j} : child'[i] = child[i],
         child' \in [Jobs!Ids -> {"none", "alive", "stuck", "exit 0", "exit 1", "killed"}],
         UNCHANGED <<lines, serving, poller, evicted>>
  PROVE  JobsInv'
<1>1. Jobs!TypeOK /\ JobInv(j)
  BY DEF JobsInv
<1>2. Jobs!Persist(j, rec)
  BY DEF Jobs!Finish
<1>3. DOMAIN jobs' = DOMAIN jobs /\ jobs'[j] = rec /\ \A i \in DOMAIN jobs \ {j} : jobs'[i] = jobs[i]
  BY <1>1 DEF Jobs!Finish, JobInv
<1>4. j \in DOMAIN jobs /\ task'[j] = "over" /\ \A i \in Jobs!Ids \ {j} : task'[i] = task[i]
  BY <1>1 DEF Jobs!Finish, JobInv, Jobs!TypeOK
<1>5. Jobs!TypeOK'
  <2>1. task' \in [Jobs!Ids -> {"new", "spawning", "reading", "over"}]
    BY <1>1 DEF Jobs!Finish, Jobs!TypeOK
  <2>2. \A i \in DOMAIN jobs' : i \in Jobs!Ids /\ jobs'[i] \in Jobs!Record
    BY <1>1, <1>3 DEF Jobs!TypeOK
  <2> QED BY <1>1, <1>2, <2>1, <2>2, PersistEffect DEF Jobs!TypeOK
<1>6. JobInv(j)'
  <2>1. ~Told(j)' /\ ~AtWork(j)' /\ task'[j] # "new"
    BY <1>1, <1>4 DEF Told, AtWork, JobInv
  <2>2. j \in DOMAIN disk' /\ disk'[j].status = "succeeded" => child'[j] = "exit 0"
    <3>1. j \in DOMAIN disk /\ disk[j].status = "succeeded" => child[j] = "exit 0"
      BY <1>1 DEF JobInv
    <3>2. j \in DOMAIN disk' => \/ disk'[j] \in {rec, Jobs!None}
                                \/ j \in DOMAIN disk /\ disk'[j] = disk[j]
      BY <1>2, PersistEffect
    <3> QED BY <3>1, <3>2, NoneStatus
  <2>3. AllWritten' => Saved(j, rec.status)'
    <3>1. rec.status \in {"succeeded", "failed"}
      BY DEF Jobs!Final
    <3>2. rec # Jobs!None /\ rec.status # "running"
      BY <3>1, NoneStatus
    <3>3. AllWritten' => j \in DOMAIN disk' /\ disk'[j] = rec
      BY <1>2, PersistEffect
    <3> QED BY <3>2, <3>3 DEF Saved, Jobs!Loaded
  <2> QED BY <1>3, <1>4, <2>1, <2>2, <2>3 DEF JobInv, Told, Jobs!Final
<1>7. ASSUME NEW i \in Jobs!Ids \ {j} PROVE JobInv(i)'
  <2>1. /\ JobInv(i) /\ serving' = serving /\ jobFaults'.long = jobFaults.long
        /\ AllWritten' => AllWritten
    BY <1>2, PersistEffect DEF JobsInv
  <2>2. Untouched(i)
    BY <1>2, <1>3, <1>4, PersistEffect DEF Untouched
  <2> QED BY <2>1, <2>2, UntouchedKeeps
<1>8. jobFaults' \in [crash : Nat, torn : Nat, long : Nat]
  BY <1>2, PersistEffect
<1> QED BY <1>5, <1>6, <1>7, <1>8 DEF JobsInv, Jobs!Ids

\* The child of a job starts, or the job has failed before it had one.
LEMMA SpawnKeeps ==
  ASSUME JobsInv, NEW j \in Jobs!Ids, Jobs!Spawn(j)
  PROVE  JobsInv'
<1>1. Jobs!TypeOK /\ JobInv(j) /\ AtWork(j) /\ \A i \in Jobs!Ids : JobInv(i)
  BY DEF JobsInv, Jobs!Spawn, AtWork
<1>2. CASE /\ task' = [task EXCEPT ![j] = "reading"]
           /\ child' = [child EXCEPT ![j] = "alive"]
           /\ UNCHANGED <<jobs, disk, jobFaults, lines, serving, poller, evicted>>
  <2>1. Jobs!TypeOK'
    BY <1>1, <1>2 DEF Jobs!TypeOK
  <2>2. JobInv(j)'
    <3>1. /\ child[j] = "none" /\ task'[j] = "reading" /\ AtWork(j)' /\ Told(j)' = Told(j)
      BY <1>1, <1>2 DEF Jobs!TypeOK, JobInv, Jobs!Spawn, AtWork, Told, Jobs!Final
    <3>2. ASSUME NEW s, Saved(j, s) PROVE Saved(j, s)'
      BY <1>2, <3>2 DEF Saved, Jobs!Loaded
    <3> QED BY <1>1, <1>2, <3>1, <3>2 DEF JobInv, AllWritten
  <2>3. ASSUME NEW i \in Jobs!Ids \ {j} PROVE JobInv(i)'
    BY <1>1, <1>2, UntouchedKeeps DEF Untouched, AllWritten, Jobs!TypeOK
  <2> QED BY <1>2, <2>1, <2>2, <2>3 DEF JobsInv, Jobs!Ids
<1>3. CASE Jobs!Finish(j, [status |-> "failed", progress |-> 0]) /\ UNCHANGED child
  <2>1. [status |-> "failed", progress |-> 0] \in Jobs!Record
    BY DEF Jobs!Record, Jobs!Final
  <2>2. UNCHANGED <<lines, serving, poller, evicted>>
    BY DEF Jobs!Spawn
  <2> QED BY <1>1, <1>3, <2>1, <2>2, FinishKeeps DEF Jobs!TypeOK, Jobs!Final
<1> QED BY <1>2, <1>3 DEF Jobs!Spawn

\* What a job is said to have done so far is a percentage, also by a line without a stage.
LEMMA ProgressIsPercentage ==
  ASSUME JobsInv, NEW j \in Jobs!Ids
  PROVE  /\ Jobs!Progress(j) \in 0 .. 100
         /\ \A n \in 0 .. Stages : Jobs!Estimate(n) \in 0 .. 100
<1>1. Jobs!Progress(j) \in 0 .. 100
  <2>1. ASSUME j \in DOMAIN jobs PROVE jobs[j].progress \in 0 .. 100
    BY <2>1 DEF JobsInv, Jobs!TypeOK, Jobs!Record
  <2> QED BY <2>1 DEF Jobs!Progress
<1>2. ASSUME NEW n \in 0 .. Stages PROVE Jobs!Estimate(n) \in 0 .. 100
  <2>1. Stages \in Nat \ {0} /\ n * 100 \in Nat
    BY JobsAssumption DEF Jobs!JobAssumption
  <2>2. (n * 100) \div Stages \in Nat
    BY <2>1
  <2>3. Jobs!Min({99, (n * 100) \div Stages}) = Min({99, (n * 100) \div Stages})
    BY DEF Jobs!Min, Min
  <2>4. Min({99, (n * 100) \div Stages})
          = IF 99 <= (n * 100) \div Stages THEN 99 ELSE (n * 100) \div Stages
    BY <2>2, MinOfTwo
  <2>5. Jobs!Estimate(n) = Min({99, (n * 100) \div Stages})
    BY <2>3 DEF Jobs!Estimate
  <2> QED BY <2>2, <2>4, <2>5
<1> QED BY <1>1, <1>2

\* A line that is read only moves the progress of a running job.
LEMMA ReadLineKeeps ==
  ASSUME JobsInv, NEW j \in Jobs!Ids, NEW n \in 0 .. Stages, Jobs!ReadLine(j, n)
  PROVE  JobsInv'
<1> DEFINE rec == [status |-> "running",
                   progress |-> IF n = 0 THEN Jobs!Progress(j) ELSE Jobs!Estimate(n)]
<1>1. Jobs!TypeOK /\ JobInv(j) /\ AtWork(j) /\ \A i \in Jobs!Ids : JobInv(i)
  BY DEF JobsInv, Jobs!ReadLine, AtWork
<1>2. rec \in Jobs!Record /\ rec.status = "running"
  BY ProgressIsPercentage DEF Jobs!Record
<1>3. /\ jobs' = [jobs EXCEPT ![j] = rec] /\ j \in DOMAIN jobs
      /\ lines' = [lines EXCEPT ![j] = @ + 1] /\ lines[j] < MaxLines
      /\ Jobs!Persist(j, rec) \/ UNCHANGED <<disk, jobFaults>>
      /\ UNCHANGED <<task, child, serving, poller, evicted>>
  BY <1>1 DEF JobInv, Jobs!ReadLine
<1> HIDE DEF rec
<1>4. /\ DOMAIN disk' \subseteq Jobs!Ids
      /\ \A i \in DOMAIN disk' : disk'[i] \in Jobs!Record \cup {Jobs!None}
      /\ \A i \in Jobs!Ids \ {j} : /\ i \in DOMAIN disk' <=> i \in DOMAIN disk
                                   /\ i \in DOMAIN disk => disk'[i] = disk[i]
      /\ j \in DOMAIN disk' => \/ disk'[j] \in {rec, Jobs!None}
                               \/ j \in DOMAIN disk /\ disk'[j] = disk[j]
      /\ jobFaults' \in [crash : Nat, torn : Nat, long : Nat]
      /\ jobFaults'.long = jobFaults.long
      /\ AllWritten' => AllWritten
  <2>1. CASE Jobs!Persist(j, rec)
    BY <1>2, <2>1, PersistEffect
  <2>2. CASE UNCHANGED <<disk, jobFaults>>
    BY <2>2 DEF JobsInv, Jobs!TypeOK, AllWritten
  <2> QED BY <1>3, <2>1, <2>2
<1>5. Jobs!TypeOK'
  <2>1. DOMAIN jobs' = DOMAIN jobs /\ \A i \in DOMAIN jobs' : jobs'[i] \in Jobs!Record
    BY <1>1, <1>2, <1>3 DEF Jobs!TypeOK
  <2>2. lines' \in [Jobs!Ids -> 0 .. MaxLines]
    <3>1. MaxLines \in Nat /\ lines \in [Jobs!Ids -> 0 .. MaxLines]
      BY <1>1, JobsAssumption DEF Jobs!JobAssumption, Jobs!TypeOK
    <3> QED BY <1>3, <3>1
  <2> QED BY <1>1, <1>3, <1>4, <2>1, <2>2 DEF Jobs!TypeOK
<1>6. JobInv(j)'
  <2>1. AtWork(j)' /\ ~Told(j)' /\ jobs'[j] = rec /\ task' = task /\ poller' = poller /\ child' = child
    BY <1>1, <1>3 DEF AtWork, JobInv, Told, Jobs!Final
  <2>2. j \in DOMAIN disk' /\ disk'[j].status = "succeeded" => child[j] = "exit 0"
    BY <1>1, <1>2, <1>4, NoneStatus DEF JobInv
  <2> QED BY <1>1, <1>2, <1>3, <2>1, <2>2 DEF JobInv, Told, AtWork, Jobs!Final
<1>7. ASSUME NEW i \in Jobs!Ids \ {j} PROVE JobInv(i)'
  <2>1. Untouched(i)
    BY <1>3, <1>4 DEF Untouched
  <2> QED BY <1>1, <1>3, <1>4, <2>1, UntouchedKeeps
<1> QED BY <1>4, <1>5, <1>6, <1>7 DEF JobsInv, Jobs!Ids

\* The verdict follows from how the child ended.
LEMMA ReapKeeps ==
  ASSUME JobsInv, NEW j \in Jobs!Ids, Jobs!Reap(j)
  PROVE  JobsInv'
<1>1. Jobs!TypeOK /\ AtWork(j) /\ Jobs!Finish(j, Jobs!Verdict(j))
      /\ UNCHANGED <<child, lines, serving, poller, evicted>>
  BY DEF JobsInv, Jobs!Reap, AtWork
<1>2. /\ Jobs!Verdict(j) \in Jobs!Record /\ Jobs!Verdict(j).status \in Jobs!Final
      /\ Jobs!Verdict(j).status = "succeeded" => child[j] = "exit 0"
  <2>1. CASE child[j] = "exit 0"
    <3>1. Jobs!Verdict(j) = [status |-> "succeeded", progress |-> 100]
      BY <2>1 DEF Jobs!Verdict
    <3>2. Jobs!Verdict(j) \in Jobs!Record
      BY <3>1 DEF Jobs!Record, Jobs!Final
    <3>3. Jobs!Verdict(j).status \in Jobs!Final
      BY <3>1 DEF Jobs!Final
    <3> QED BY <2>1, <3>2, <3>3
  <2>2. CASE child[j] # "exit 0"
    <3>1. Jobs!Verdict(j) = [status |-> "failed", progress |-> Jobs!Progress(j)]
      BY <2>2 DEF Jobs!Verdict
    <3> QED BY <3>1, ProgressIsPercentage DEF Jobs!Record, Jobs!Final
  <2> QED BY <2>1, <2>2
<1> QED BY <1>1, <1>2, FinishKeeps DEF Jobs!TypeOK

\* The subprocess and the reader's death disturb neither memory nor files.
LEMMA ChildKeeps ==
  ASSUME JobsInv, NEW j \in Jobs!Ids, Jobs!LongLine(j) \/ Jobs!Ends(j)
  PROVE  JobsInv'
<1>1. Jobs!TypeOK /\ JobInv(j) /\ \A i \in Jobs!Ids : JobInv(i)
  BY DEF JobsInv
<1>2. /\ child[j] = "alive" /\ UNCHANGED <<jobs, disk, lines, serving, poller, evicted>>
      /\ child' \in [Jobs!Ids -> {"none", "alive", "stuck", "exit 0", "exit 1", "killed"}]
      /\ \A i \in Jobs!Ids \ {j} : child'[i] = child[i]
  BY <1>1 DEF Jobs!LongLine, Jobs!Ends, Jobs!Exit, Jobs!TypeOK
<1>3. /\ task' \in [Jobs!Ids -> {"new", "spawning", "reading", "over"}]
      /\ \A i \in Jobs!Ids \ {j} : task'[i] = task[i]
      /\ \/ task' = task /\ UNCHANGED jobFaults
         \/ /\ AtWork(j) /\ task'[j] = "over"
            /\ jobFaults' = [jobFaults EXCEPT !.long = @ + 1]
  BY <1>1 DEF Jobs!LongLine, Jobs!Ends, Jobs!Exit, Jobs!TypeOK, AtWork
<1>4. /\ jobFaults' \in [crash : Nat, torn : Nat, long : Nat]
      /\ jobFaults'.long > 0 \/ jobFaults'.long = jobFaults.long
      /\ task' # task => jobFaults'.long > 0
      /\ AllWritten' = AllWritten
  BY <1>3 DEF JobsInv, AllWritten
<1>5. Jobs!TypeOK'
  BY <1>1, <1>2, <1>3 DEF Jobs!TypeOK
<1>6. JobInv(j)'
  <2>1. Told(j)' = Told(j) /\ \A s : Saved(j, s) => Saved(j, s)'
    BY <1>2 DEF Told, Jobs!Final, Saved, Jobs!Loaded
  <2>2. task[j] \notin {"new", "spawning"}
    BY <1>1, <1>2 DEF JobInv
  <2>3. task'[j] # "new" /\ task'[j] # "spawning" /\ (AtWork(j)' => AtWork(j))
        /\ (task[j] = "over" => task'[j] = "over")
    BY <1>3, <2>2 DEF AtWork
  <2>4. ~Told(j)' \/ task'[j] = "over"
    BY <1>1, <2>1, <2>3 DEF JobInv
  <2>5. task'[j] # "over" \/ jobFaults'.long > 0 \/ UNCHANGED <<task, jobFaults>>
    BY <1>3, <1>4
  <2> QED BY <1>1, <1>2, <1>4, <2>1, <2>2, <2>3, <2>4, <2>5 DEF JobInv, Jobs!Final
<1>7. ASSUME NEW i \in Jobs!Ids \ {j} PROVE JobInv(i)'
  <2>1. Untouched(i)
    BY <1>2, <1>3 DEF Untouched
  <2> QED BY <1>1, <1>2, <1>4, <2>1, UntouchedKeeps
<1> QED BY <1>4, <1>5, <1>6, <1>7 DEF JobsInv, Jobs!Ids

\* A crash leaves the files and what the users saw.
LEMMA CrashKeeps ==
  ASSUME JobsInv, Jobs!Crash
  PROVE  JobsInv'
<1>1. Jobs!TypeOK /\ \A i \in Jobs!Ids : JobInv(i)
  BY DEF JobsInv
<1>2. DOMAIN jobs' = {} /\ UNCHANGED <<disk, lines, poller, evicted>> /\ serving' = FALSE
  BY DEF Jobs!Crash
<1>3. \A i \in Jobs!Ids : /\ task'[i] = IF task[i] = "new" THEN "new" ELSE "over"
                          /\ child'[i] = IF child[i] \in {"alive", "stuck"} THEN "killed" ELSE child[i]
  BY DEF Jobs!Crash
<1>4. jobFaults' \in [crash : Nat, torn : Nat, long : Nat] /\ AllWritten' = AllWritten
  BY DEF JobsInv, Jobs!Crash, AllWritten
<1>5. Jobs!TypeOK'
  <2>1. task' \in [Jobs!Ids -> {"new", "spawning", "reading", "over"}]
    BY DEF Jobs!Crash
  <2>2. child' \in [Jobs!Ids -> {"none", "alive", "stuck", "exit 0", "exit 1", "killed"}]
    BY <1>1 DEF Jobs!Crash, Jobs!TypeOK
  <2> QED BY <1>1, <1>2, <2>1, <2>2 DEF Jobs!TypeOK
<1>6. ASSUME NEW i \in Jobs!Ids PROVE JobInv(i)'
  <2>1. JobInv(i) /\ Told(i)' = Told(i) /\ ~AtWork(i)' /\ \A s : Saved(i, s) => Saved(i, s)'
    BY <1>1, <1>2, <1>3 DEF Told, AtWork, Jobs!Final, Saved, Jobs!Loaded
  <2> QED BY <1>2, <1>3, <1>4, <2>1 DEF JobInv
<1> QED BY <1>4, <1>5, <1>6 DEF JobsInv, Jobs!Ids

\* After a restart every job that is known is over, and as its file says.
LEMMA RestartKeeps ==
  ASSUME JobsInv, Jobs!Restart
  PROVE  JobsInv'
<1>1. Jobs!TypeOK /\ \A i \in Jobs!Ids : JobInv(i)
  BY DEF JobsInv
<1>2. ~serving /\ serving' = TRUE /\ UNCHANGED <<disk, task, child, lines, poller, jobFaults, evicted>>
  BY DEF Jobs!Restart
<1>3. /\ DOMAIN jobs' = {i \in DOMAIN disk : disk[i] # Jobs!None}
      /\ \A i \in DOMAIN jobs' : jobs'[i] = Jobs!Loaded(disk[i])
  BY DEF Jobs!Restart
<1>4. ASSUME NEW i \in DOMAIN jobs'
      PROVE  i \in Jobs!Ids /\ jobs'[i] \in Jobs!Record /\ jobs'[i].status \in Jobs!Final
             /\ (jobs'[i].status = "succeeded" => disk[i].status = "succeeded")
  <2>1. i \in Jobs!Ids /\ disk[i] \in Jobs!Record /\ jobs'[i] = Jobs!Loaded(disk[i])
    BY <1>1, <1>3 DEF Jobs!TypeOK
  <2>2. CASE disk[i].status = "running"
    <3>1. jobs'[i] = [disk[i] EXCEPT !.status = "failed"]
      BY <2>1, <2>2 DEF Jobs!Loaded
    <3> QED BY <2>1, <3>1 DEF Jobs!Record, Jobs!Final
  <2>3. CASE disk[i].status # "running"
    BY <2>1, <2>3 DEF Jobs!Record, Jobs!Loaded, Jobs!Final
  <2> QED BY <2>1, <2>2, <2>3
<1>5. Jobs!TypeOK'
  BY <1>1, <1>2, <1>4 DEF Jobs!TypeOK
<1>6. ASSUME NEW i \in Jobs!Ids PROVE JobInv(i)'
  <2>1. JobInv(i) /\ Told(i)' = Told(i) /\ ~AtWork(i)' /\ \A s : Saved(i, s)' <=> Saved(i, s)
    BY <1>1, <1>2 DEF JobInv, Told, AtWork, Jobs!Final, Saved, Jobs!Loaded
  <2>2. i \in DOMAIN jobs' => Saved(i, jobs'[i].status) /\ \A s : Saved(i, s) => s = jobs'[i].status
    BY <1>3 DEF Saved
  <2>3. i \in DOMAIN jobs' => i \in DOMAIN disk /\ jobs'[i].status # "running"
    BY <1>3, <1>4 DEF Jobs!Final
  <2> QED BY <1>2, <1>4, <2>1, <2>2, <2>3 DEF JobInv, AllWritten
<1> QED BY <1>2, <1>5, <1>6 DEF JobsInv, Jobs!Ids

\* A browser is told what the memory says.
LEMMA PollKeeps ==
  ASSUME JobsInv, NEW j \in Jobs!Ids, Jobs!Poll(j)
  PROVE  JobsInv'
<1>1. Jobs!TypeOK /\ JobInv(j) /\ \A i \in Jobs!Ids : JobInv(i)
  BY DEF JobsInv
<1>2. /\ j \in DOMAIN jobs /\ jobs[j].status \in Jobs!Final
      /\ poller' = [poller EXCEPT ![j] = jobs[j].status] /\ poller[j] = "polling"
      /\ UNCHANGED <<jobs, disk, task, child, lines, serving, jobFaults, evicted>>
  BY DEF Jobs!Poll
<1>3. Jobs!TypeOK'
  BY <1>1, <1>2 DEF Jobs!TypeOK
<1>4. JobInv(j)'
  <2>1. poller'[j] = jobs[j].status /\ AtWork(j)' = AtWork(j) /\ task[j] # "new" /\ task[j] = "over"
    BY <1>1, <1>2 DEF JobInv, Jobs!TypeOK, AtWork, Jobs!Final
  <2>2. \A s : Saved(j, s)' <=> Saved(j, s)
    BY <1>2 DEF Saved, Jobs!Loaded
  <2> QED BY <1>1, <1>2, <2>1, <2>2 DEF JobInv, Told, AllWritten, Jobs!Final, AtWork
<1>5. ASSUME NEW i \in Jobs!Ids \ {j} PROVE JobInv(i)'
  BY <1>1, <1>2, UntouchedKeeps DEF Untouched, AllWritten, Jobs!TypeOK
<1> QED BY <1>2, <1>3, <1>4, <1>5 DEF JobsInv, Jobs!Ids

\* However many jobs, crashes, torn files and evictions there are: a job is shown as running
\* exactly while a task will end it (or its reader died), a success is told only of a process
\* that exited with 0, and what the user was told stays so if every file could be written.
THEOREM VerdictsStand == Jobs!Spec => []VerdictStands
<1>1. Jobs!Init => JobsInv
  <2> SUFFICES ASSUME Jobs!Init PROVE JobsInv
    OBVIOUS
  <2>1. DOMAIN jobs = {} /\ DOMAIN disk = {} /\ MaxLines \in Nat
    BY JobsAssumption DEF Jobs!Init, Jobs!JobAssumption
  <2>2. Jobs!TypeOK
    BY <2>1 DEF Jobs!Init, Jobs!TypeOK
  <2>3. ASSUME NEW j \in Jobs!Ids PROVE JobInv(j)
    BY <2>1 DEF Jobs!Init, JobInv, Told, AtWork, Jobs!Final
  <2> QED BY <2>2, <2>3 DEF JobsInv, Jobs!Init
<1>2. JobsInv /\ [Jobs!Next]_(Jobs!vars) => JobsInv'
  <2> SUFFICES ASSUME JobsInv, [Jobs!Next]_(Jobs!vars) PROVE JobsInv'
    OBVIOUS
  <2>1. CASE UNCHANGED Jobs!vars
    <3>1. Jobs!TypeOK' /\ jobFaults' \in [crash : Nat, torn : Nat, long : Nat]
      BY <2>1 DEF JobsInv, Jobs!TypeOK, Jobs!vars
    <3>2. ASSUME NEW j \in Jobs!Ids PROVE JobInv(j)'
      BY <2>1, UntouchedKeeps DEF JobsInv, Untouched, Jobs!vars, AllWritten
    <3> QED BY <3>1, <3>2 DEF JobsInv, Jobs!Ids
  <2> QED BY <2>1, StartJobKeeps, SpawnKeeps, ReadLineKeeps, ReapKeeps, ChildKeeps, CrashKeeps,
             RestartKeeps, PollKeeps DEF Jobs!Next, Jobs!Work
<1>3. JobsInv => VerdictStands
  <2> SUFFICES ASSUME JobsInv PROVE VerdictStands
    OBVIOUS
  <2>1. Jobs!RunningIffTaskAlive
    BY DEF JobsInv, JobInv, AtWork, Jobs!RunningIffTaskAlive
  <2> QED BY <2>1 DEF JobsInv, JobInv, VerdictStands, Jobs!VerdictStands, Told, AllWritten
<1> QED BY <1>1, <1>2, <1>3, PTL DEF Jobs!Spec

-----------------------------------------------------------------------------

(***************************************************************************)
(* A cache whose flag is up has an update under way that will take it      *)
(* down, so that it can never stand still for good.  FlagHasUpdate is      *)
(* inductive together with the types: the flag goes up with an update of   *)
(* the same step, and an update ends with the flag down, unless it is the  *)
(* one of the boot, which nobody had counted on.                           *)
(***************************************************************************)
(* The stage of an update: every step but its last leaves it under way.    *)
LEMMA GoKeeps ==
  ASSUME NEW u \in Updates, CacheTypeOK, flag => \E r \in Requests : upd[r].pc # "off",
         NEW stage \in {"fetch", "publish", "stamp", "failed", "fill", "finally"},
         Go(u, stage), flag' = flag
  PROVE  /\ upd' \in [Updates -> [pc : {"off", "fetch", "publish", "stamp", "failed", "fill", "finally"},
                                  began : 0..MaxTime]]
         /\ flag' => \E r \in Requests : upd'[r].pc # "off"
<1>1. upd' = [upd EXCEPT ![u] = [upd[u] EXCEPT !.pc = stage]]
  BY DEF Go
<1>2. upd' \in [Updates -> [pc : {"off", "fetch", "publish", "stamp", "failed", "fill", "finally"},
                            began : 0..MaxTime]]
  BY <1>1 DEF CacheTypeOK
<1>3. ASSUME NEW r \in Requests, upd[r].pc # "off" PROVE upd'[r].pc # "off"
  BY <1>1, <1>3 DEF CacheTypeOK, Updates
<1> QED BY <1>2, <1>3

(* Every reachable state is of its types, and a flag that is up has its    *)
(* update: no request is kept from starting one for ever.                  *)
THEOREM FlagIsKept == CacheSpec => []FlagHasUpdate
<1>1. CacheInit => FlagHasUpdate
  <2> SUFFICES ASSUME CacheInit PROVE FlagHasUpdate
    OBVIOUS
  <2>1. flag \in BOOLEAN /\ crossed \in BOOLEAN /\ overlapped \in BOOLEAN /\ ~flag
    BY Zenon DEF CacheInit
  <2>2. CacheTypeOK
    BY <2>1, MarketCacheAssumption DEF CacheInit, CacheTypeOK, Updates, Sources
  <2> QED BY <2>1, <2>2 DEF FlagHasUpdate
<1>2. FlagHasUpdate /\ [CacheNext]_cacheVars => FlagHasUpdate'
  <2> SUFFICES ASSUME FlagHasUpdate, [CacheNext]_cacheVars PROVE FlagHasUpdate'
    OBVIOUS
  <2> USE MarketCacheAssumption
  <2>0. CacheTypeOK /\ (flag => \E r \in Requests : upd[r].pc # "off")
    BY DEF FlagHasUpdate
  <2>1. ASSUME NEW r \in Requests, Ask(r) PROVE FlagHasUpdate'
    BY <2>0, <2>1 DEF Ask, FlagHasUpdate, CacheTypeOK, Updates
  <2>2. ASSUME NEW r \in Requests, FillSample(r) PROVE FlagHasUpdate'
    BY <2>0, <2>2 DEF FillSample, At, FlagHasUpdate, CacheTypeOK, Updates, Sources
  <2>3. ASSUME NEW r \in Requests, CheckExpiry(r) PROVE FlagHasUpdate'
    BY <2>0, <2>3 DEF CheckExpiry, FlagHasUpdate, CacheTypeOK, Updates
  <2>4. ASSUME NEW r \in Requests, StartUpdate(r) PROVE FlagHasUpdate'
    <3>1. CASE MayStart
      <4>1. flag' \in BOOLEAN /\ overlapped' \in BOOLEAN
        BY <2>0, <2>4, <3>1, Zenon DEF StartUpdate, CacheTypeOK
      <4>2. upd' = [upd EXCEPT ![r] = [pc |-> "fetch", began |-> clock]]
        BY <2>4, <3>1 DEF StartUpdate
      <4>3. upd'[r].pc # "off"
        BY <2>0, <4>2 DEF CacheTypeOK, Updates
      <4>4. CacheTypeOK'
        BY <2>0, <2>4, <4>1, <4>2 DEF StartUpdate, At, CacheTypeOK, Updates
      <4> QED BY <4>3, <4>4 DEF FlagHasUpdate
    <3>2. CASE ~MayStart
      BY <2>0, <2>4, <3>2 DEF StartUpdate, At, FlagHasUpdate, CacheTypeOK, Updates
    <3> QED BY <3>1, <3>2
  <2>5. ASSUME NEW r \in Requests, Answer(r) PROVE FlagHasUpdate'
    BY <2>0, <2>5 DEF Answer, FlagHasUpdate, CacheTypeOK, Updates
  <2>6. ASSUME NEW u \in Updates, Fetch(u) PROVE FlagHasUpdate'
    BY <2>0, <2>6, GoKeeps DEF Fetch, FlagHasUpdate, CacheTypeOK
  <2>7. ASSUME NEW u \in Updates, Publish(u) PROVE FlagHasUpdate'
    <3>1. Go(u, "stamp") /\ flag' = flag
      BY <2>7 DEF Publish
    <3>2. data' \in [src : Sources, at : 0..MaxTime] /\ crossed' \in BOOLEAN
      BY <2>0, <2>7 DEF Publish, CacheTypeOK, Sources
    <3> QED BY <2>0, <2>7, <3>1, <3>2, GoKeeps DEF Publish, FlagHasUpdate, CacheTypeOK
  <2>8. ASSUME NEW u \in Updates, Stamp(u) PROVE FlagHasUpdate'
    BY <2>0, <2>8, GoKeeps DEF Stamp, FlagHasUpdate, CacheTypeOK
  <2>9. ASSUME NEW u \in Updates, Failed(u) PROVE FlagHasUpdate'
    BY <2>0, <2>9, GoKeeps DEF Failed, FlagHasUpdate, CacheTypeOK
  <2>10. ASSUME NEW u \in Updates, FillFallback(u) PROVE FlagHasUpdate'
    BY <2>0, <2>10, GoKeeps DEF FillFallback, FlagHasUpdate, CacheTypeOK, Sources
  <2>11. ASSUME NEW u \in Updates, Finally(u) PROVE FlagHasUpdate'
    <3>1. CASE which = "heat" \/ u # Boot
      <4>1. flag' \in BOOLEAN /\ ~flag'
        BY <2>11, <3>1, Zenon DEF Finally, FlagAfter
      <4>2. CacheTypeOK'
        BY <2>0, <2>11, <4>1 DEF Finally, CacheTypeOK
      <4> QED BY <4>1, <4>2 DEF FlagHasUpdate
    <3>2. CASE which # "heat" /\ u = Boot
      <4>1. flag' = flag
        BY <2>11, <3>2, Zenon DEF Finally, FlagAfter
      <4>2. upd' = [upd EXCEPT ![u] = [pc |-> "off", began |-> 0]]
        BY <2>11 DEF Finally
      <4>3. \A r \in Requests : upd'[r].pc = upd[r].pc
        BY <2>0, <3>2, <4>2 DEF CacheTypeOK, Updates
      <4>4. CacheTypeOK'
        BY <2>0, <2>11, <4>1, <4>2 DEF Finally, CacheTypeOK
      <4> QED BY <2>0, <4>1, <4>3, <4>4 DEF FlagHasUpdate
    <3> QED BY <3>1, <3>2
  <2>12. CASE CacheTick
    BY <2>0, <2>12 DEF CacheTick, FlagHasUpdate, CacheTypeOK
  <2>13. CASE UNCHANGED cacheVars
    BY <2>0, <2>13 DEF cacheVars, FlagHasUpdate, CacheTypeOK
  <2> QED BY <2>1, <2>2, <2>3, <2>4, <2>5, <2>6, <2>7, <2>8, <2>9, <2>10, <2>11, <2>12, <2>13 DEF CacheNext
<1> QED BY <1>1, <1>2, PTL DEF CacheSpec

-----------------------------------------------------------------------------
(***************************************************************************)
(* What the cache shows gets no older.  Live quotes are safe from the      *)
(* sample when nobody is about to fill the cache with it (NobodyFills),    *)
(* and updates publish in the order in which they began when there is only *)
(* ever one: as long as no request has started one beside that of the      *)
(* boot, an update of a request has the flag (OneUpdate).                  *)
(***************************************************************************)
NobodyFills == data.src = "live" /\ ~crossed =>
    /\ \A r \in Requests : req[r].pc # "sample"
    /\ \A u \in Updates : upd[u].pc # "fill"

OneUpdate == ~overlapped =>
    /\ \A u, v \in Updates : upd[u].pc # "off" /\ upd[v].pc # "off" => u = v
    /\ \A r \in Requests : upd[r].pc # "off" => flag
    /\ data.src = "live" => \A u \in Updates : upd[u].pc # "off" => data.at <= upd[u].began

Past == data.at <= clock /\ \A u \in Updates : upd[u].began <= clock

OrderInv == NobodyFills /\ OneUpdate /\ Past
CacheInv == FlagHasUpdate /\ OrderInv

\* A stage of an update that shows nothing new starts no update and leaves the order alone.
LEMMA GoKeepsOrder ==
  ASSUME CacheInv, NEW u \in Updates, upd[u].pc # "off",
         NEW stage \in {"publish", "stamp", "failed", "fill", "finally"}, Go(u, stage),
         UNCHANGED <<clock, flag, req, crossed, overlapped>>,
         data' = data \/ data' = [src |-> "sample", at |-> 0],
         stage = "fill" => Empty /\ data' = data
  PROVE  OrderInv'
<1>1. CacheTypeOK /\ NobodyFills /\ OneUpdate /\ Past
  BY DEF CacheInv, OrderInv, FlagHasUpdate
<1>2. /\ \A v \in Updates : upd'[v].pc = (IF v = u THEN stage ELSE upd[v].pc) /\ upd'[v].began = upd[v].began
      /\ \A v \in Updates : upd'[v].pc # "off" <=> upd[v].pc # "off"
  BY <1>1 DEF Go, CacheTypeOK
<1>3. clock \in Nat /\ (data'.src = "live" => data' = data)
  BY <1>1 DEF CacheTypeOK
<1>4. NobodyFills'
  BY <1>1, <1>2, <1>3 DEF NobodyFills, Empty
<1>5. OneUpdate'
  BY <1>1, <1>2, <1>3, Zenon DEF OneUpdate, Updates
<1>6. Past'
  BY <1>1, <1>2, <1>3 DEF Past
<1> QED BY <1>4, <1>5, <1>6 DEF OrderInv

\* A request that starts no update.
LEMMA AskingKeepsOrder ==
  ASSUME CacheInv, UNCHANGED <<clock, flag, upd, crossed, overlapped>>,
         data' = data \/ data' = [src |-> "sample", at |-> 0],
         \A r \in Requests : req'[r].pc = "sample" => req[r].pc = "sample" \/ (Empty /\ data' = data)
  PROVE  OrderInv'
<1>1. CacheTypeOK /\ NobodyFills /\ OneUpdate /\ Past
  BY DEF CacheInv, OrderInv, FlagHasUpdate
<1>2. clock \in Nat /\ (data'.src = "live" => data' = data)
  BY <1>1 DEF CacheTypeOK
<1>3. NobodyFills'
  BY <1>1, <1>2 DEF NobodyFills, Empty
<1>4. OneUpdate'
  BY <1>1, <1>2, Zenon DEF OneUpdate, Updates
<1>5. Past'
  BY <1>1, <1>2 DEF Past
<1> QED BY <1>3, <1>4, <1>5 DEF OrderInv

\* An update starts when there is no other, or it is on record that the boot's still ran.
LEMMA StartKeepsOrder ==
  ASSUME CacheInv, NEW r \in Requests, StartUpdate(r)
  PROVE  OrderInv'
<1>1. /\ CacheTypeOK /\ NobodyFills /\ OneUpdate /\ Past
      /\ UNCHANGED <<clock, data, crossed>> /\ At(r, "answer")
  BY DEF CacheInv, OrderInv, FlagHasUpdate, StartUpdate
<1>2. \A q \in Requests : req'[q].pc = "sample" => req[q].pc = "sample"
  BY <1>1 DEF At, CacheTypeOK
<1>3. CASE ~MayStart
  BY <1>1, <1>2, <1>3, AskingKeepsOrder DEF StartUpdate
<1>4. CASE MayStart
  <2>1. /\ flag' = TRUE /\ upd' = [upd EXCEPT ![r] = [pc |-> "fetch", began |-> clock]]
        /\ overlapped' = (overlapped \/ upd[Boot].pc # "off")
    BY <1>4 DEF StartUpdate
  <2>2. /\ upd'[r].pc = "fetch" /\ upd'[r].began = clock
        /\ \A v \in Updates \ {r} : upd'[v] = upd[v]
    BY <1>1, <2>1 DEF CacheTypeOK, Updates
  <2>3. NobodyFills'
    BY <1>1, <1>2, <2>2 DEF NobodyFills
  <2>4. ~overlapped' => ~overlapped /\ upd[Boot].pc = "off"
    BY <2>1, Zenon
  <2>5. ~overlapped' => \A v \in Updates \ {r} : upd'[v].pc = "off"
    BY <1>1, <1>4, <2>2, <2>4 DEF OneUpdate, MayStart, Updates
  <2>6. OneUpdate'
    <3>1. data.at <= upd'[r].began
      BY <1>1, <2>2 DEF Past
    <3>2. \A v \in Updates : upd'[v].pc # "off" /\ ~overlapped' => v = r
      BY <2>5
    <3> QED BY <1>1, <2>1, <3>1, <3>2, Zenon DEF OneUpdate
  <2>7. Past'
    BY <1>1, <2>2 DEF Past, CacheTypeOK
  <2> QED BY <2>3, <2>6, <2>7 DEF OrderInv
<1> QED BY <1>3, <1>4

\* What is published is no older than what it replaces, and on record if someone is about
\* to fill the cache.
LEMMA PublishKeepsOrder ==
  ASSUME CacheInv, NEW u \in Updates, Publish(u)
  PROVE  /\ OrderInv'
         /\ data'.src = "live"
         /\ data.src = "live" /\ ~overlapped => data'.at >= data.at
<1>1. /\ CacheTypeOK /\ NobodyFills /\ OneUpdate /\ Past
      /\ upd[u].pc = "publish" /\ UNCHANGED <<clock, flag, req, overlapped>>
      /\ data' = [src |-> "live", at |-> upd[u].began]
      /\ upd' = [upd EXCEPT ![u].pc = "stamp"]
  BY DEF CacheInv, OrderInv, FlagHasUpdate, Publish, Go
<1>2. crossed' = (\/ crossed
                  \/ \E r \in Requests : req[r].pc = "sample"
                  \/ \E v \in Updates \ {u} : upd[v].pc = "fill")
  BY DEF Publish
<1>3. /\ \A v \in Updates : upd'[v].pc = (IF v = u THEN "stamp" ELSE upd[v].pc) /\ upd'[v].began = upd[v].began
      /\ \A v \in Updates : upd'[v].pc # "off" <=> upd[v].pc # "off"
      /\ data'.src = "live" /\ data'.at = upd[u].began /\ upd[u].began \in Nat /\ data.at \in Nat
  BY <1>1 DEF CacheTypeOK
<1>4. NobodyFills'
  BY <1>1, <1>2, <1>3 DEF NobodyFills
<1>5. OneUpdate'
  BY <1>1, <1>3 DEF OneUpdate, Updates
<1>6. Past'
  BY <1>1, <1>3 DEF Past
<1>7. data.src = "live" /\ ~overlapped => data'.at >= data.at
  BY <1>1, <1>3 DEF OneUpdate
<1> QED BY <1>3, <1>4, <1>5, <1>6, <1>7 DEF OrderInv

\* An update that ends takes down the flag of nobody else, while there is only one.
LEMMA FinallyKeepsOrder ==
  ASSUME CacheInv, NEW u \in Updates, Finally(u)
  PROVE  OrderInv'
<1>1. /\ CacheTypeOK /\ NobodyFills /\ OneUpdate /\ Past /\ upd[u].pc = "finally"
      /\ flag' = FlagAfter(u) /\ UNCHANGED <<clock, data, req, crossed, overlapped>>
      /\ upd' = [upd EXCEPT ![u] = [pc |-> "off", began |-> 0]]
  BY DEF CacheInv, OrderInv, FlagHasUpdate, Finally
<1>2. upd'[u] = [pc |-> "off", began |-> 0] /\ \A v \in Updates \ {u} : upd'[v] = upd[v]
  BY <1>1 DEF CacheTypeOK
<1>3. NobodyFills'
  BY <1>1, <1>2 DEF NobodyFills
<1>4. OneUpdate'
  <2> SUFFICES ASSUME ~overlapped PROVE OneUpdate'
    BY <1>1 DEF OneUpdate
  <2>1. \A v \in Updates : upd'[v].pc = "off"
    BY <1>1, <1>2 DEF OneUpdate
  <2> QED BY <2>1 DEF OneUpdate, Updates
<1>5. Past'
  BY <1>1, <1>2 DEF Past, CacheTypeOK
<1> QED BY <1>3, <1>4, <1>5 DEF OrderInv

\* However many requests, lifetimes and failures there are: live quotes once shown are not
\* taken back for the sample, unless someone was about to fill the cache when they came, nor
\* for older quotes, unless an update was started beside the one of the boot.
THEOREM QuotesGetNoOlder == CacheSpec => OnlyNewerReplacesLive
<1> DEFINE Keeps == data.src = "live" => /\ data'.src = "live" \/ crossed
                                         /\ data'.src = "live" /\ ~overlapped' => data'.at >= data.at
<1>1. CacheInit => OrderInv
  <2> SUFFICES ASSUME CacheInit PROVE OrderInv
    OBVIOUS
  <2>1. /\ \A r \in Requests : upd[r].pc = "off" /\ Boot \notin Requests
        /\ \A u \in Updates : upd[u].began <= 1 /\ upd[u].pc # "fill"
        /\ data.src = "none" /\ data.at = 0 /\ clock = 1
    BY MarketCacheAssumption DEF CacheInit, Updates
  <2> QED BY <2>1 DEF OrderInv, NobodyFills, OneUpdate, Past, Updates
<1>2. CacheInv /\ [CacheNext]_cacheVars => OrderInv' /\ Keeps
  <2> SUFFICES ASSUME CacheInv, [CacheNext]_cacheVars PROVE OrderInv' /\ Keeps
    OBVIOUS
  <2>0. CacheTypeOK /\ OrderInv /\ data.at \in Nat
    BY DEF CacheInv, FlagHasUpdate, CacheTypeOK
  <2>1. data' = data => Keeps
    BY <2>0
  <2>2. ASSUME NEW r \in Requests, Ask(r) \/ CheckExpiry(r) \/ Answer(r) PROVE OrderInv' /\ Keeps
    <3>1. UNCHANGED <<clock, data, flag, upd, crossed, overlapped>>
      BY <2>2 DEF Ask, CheckExpiry, Answer
    <3>2. \A q \in Requests : req'[q].pc = "sample" => req[q].pc = "sample" \/ Empty
      BY <2>0, <2>2 DEF Ask, CheckExpiry, Answer, CacheTypeOK
    <3> QED BY <2>1, <3>1, <3>2, AskingKeepsOrder
  <2>3. ASSUME NEW r \in Requests, FillSample(r) PROVE OrderInv' /\ Keeps
    <3>1. /\ UNCHANGED <<clock, flag, upd, crossed, overlapped>> /\ data' = [src |-> "sample", at |-> 0]
          /\ \A q \in Requests : req'[q].pc = "sample" => req[q].pc = "sample"
      BY <2>0, <2>3 DEF FillSample, At, CacheTypeOK
    <3>2. data.src = "live" => crossed
      BY <2>0, <2>3 DEF FillSample, OrderInv, NobodyFills
    <3>3. OrderInv'
      <4>1. \A q \in Requests : req'[q].pc = "sample" => req[q].pc = "sample" \/ (Empty /\ data' = data)
        BY <3>1
      <4>2. data' = data \/ data' = [src |-> "sample", at |-> 0]
        BY <3>1
      <4> HIDE DEF Keeps
      <4> QED BY <3>1, <4>1, <4>2, AskingKeepsOrder, Zenon
    <3>4. data'.src # "live"
      BY <3>1
    <3> QED BY <3>2, <3>3, <3>4
  <2>4. ASSUME NEW r \in Requests, StartUpdate(r) PROVE OrderInv' /\ Keeps
    <3>1. data' = data
      BY <2>4 DEF StartUpdate
    <3> QED BY <2>1, <2>4, <3>1, StartKeepsOrder
  <2>5. ASSUME NEW u \in Updates, Fetch(u) \/ Stamp(u) \/ Failed(u) PROVE OrderInv' /\ Keeps
    <3>1. /\ upd[u].pc # "off" /\ UNCHANGED <<clock, data, flag, req, crossed, overlapped>>
          /\ \E stage \in {"publish", "stamp", "failed", "fill", "finally"} : Go(u, stage) /\ (stage = "fill" => Empty)
      BY <2>5 DEF Fetch, Stamp, Failed, FillsAfterFailure
    <3> QED BY <2>1, <3>1, GoKeepsOrder
  <2>6. ASSUME NEW u \in Updates, FillFallback(u) PROVE OrderInv' /\ Keeps
    <3>1. /\ upd[u].pc = "fill" /\ UNCHANGED <<clock, flag, req, crossed, overlapped>>
          /\ data' = [src |-> "sample", at |-> 0] /\ Go(u, "finally")
      BY <2>6 DEF FillFallback
    <3>2. data.src = "live" => crossed
      BY <2>0, <3>1 DEF OrderInv, NobodyFills
    <3> QED BY <3>1, <3>2, GoKeepsOrder
  <2>7. ASSUME NEW u \in Updates, Publish(u) PROVE OrderInv' /\ Keeps
    <3>1. overlapped' = overlapped
      BY <2>7 DEF Publish
    <3> QED BY <2>7, <3>1, PublishKeepsOrder
  <2>8. ASSUME NEW u \in Updates, Finally(u) PROVE OrderInv' /\ Keeps
    <3>1. data' = data
      BY <2>8 DEF Finally
    <3> QED BY <2>1, <2>8, <3>1, FinallyKeepsOrder
  <2>9. CASE CacheTick
    <3>1. clock' = clock + 1 /\ UNCHANGED <<data, flag, upd, req, crossed, overlapped>>
      BY <2>9 DEF CacheTick
    <3>2. Past'
      BY <2>0, <3>1 DEF OrderInv, Past, CacheTypeOK
    <3> QED BY <2>0, <2>1, <3>1, <3>2 DEF OrderInv, NobodyFills, OneUpdate, Updates
  <2>10. CASE UNCHANGED cacheVars
    BY <2>0, <2>1, <2>10 DEF OrderInv, NobodyFills, OneUpdate, Past, Updates, cacheVars
  <2> QED BY <2>2, <2>3, <2>4, <2>5, <2>6, <2>7, <2>8, <2>9, <2>10 DEF CacheNext
<1>3. CacheSpec => []CacheInv
  BY <1>1, <1>2, FlagIsKept, PTL DEF CacheInv, CacheSpec
<1> QED BY <1>2, <1>3, PTL DEF CacheSpec, OnlyNewerReplacesLive

-----------------------------------------------------------------------------
(***************************************************************************)
(* The market load.  A value can go wrong in three ways: a run has fetched *)
(* a bar that still moves and saves it later than another run has saved    *)
(* the close (Harmless); another source stood in (stoodIn); or no run that *)
(* went through without a failure came while a day could be corrected.     *)
(* Settled is inductive because one such run puts every day of its window  *)
(* right, and the days before it were right after the run before.          *)
(***************************************************************************)
Table == [Targets -> [Days -> {"none", "forming", "final", "proxy"}]]

ServerStates == [pc : {"down", "asleep", "check", "fetch", "save"}, wake : Int, rows : Table, failed : BOOLEAN]
CliStates == [pc : {"off", "save", "done"}, rows : Table, left : Int]

\* No value passes for final before it is.
True(rows) == \A t \in Targets, d \in Days : rows[t][d] = "final" => Published(t, d, now)

\* Rows yet to be saved replace no close by a bar that still moves.
Harmless(rows) == \A t \in Targets, d \in Days : rows[t][d] = "forming" => stored[t][d] # "final"

Settled ==
    \A t \in Targets \ stoodIn, d \in Days :
       2 * d + Prompt <= clean /\ Published(t, d, 2 * d + Prompt) => stored[t][d] = "final"

IngestTyped ==
    /\ now \in Nat /\ clean \in Nat /\ clean <= now
    /\ stored \in Table
    /\ server \in ServerStates /\ cli \in CliStates

IngestInv ==
    /\ IngestTyped
    /\ True(stored)
    /\ server.pc = "save" => /\ True(server.rows)
                             /\ ~server.failed => server.rows = FetchAll(WindowStart, Day(now), {})
                             /\ ~overtaken => Harmless(server.rows)
    /\ cli.pc = "save" => True(cli.rows) /\ (~overtaken => Harmless(cli.rows))
    /\ ~gapped => now - clean <= Correctable
    /\ ~gapped /\ ~overtaken => Settled

-----------------------------------------------------------------------------
\* Half days and days.
LEMMA DayBounds ==
  ASSUME NEW t \in Nat
  PROVE  Day(t) \in Nat /\ 2 * Day(t) <= t /\ t <= 2 * Day(t) + 1
BY DEF Day

\* When a day's value is seen and final; final once, it is final ever after.
LEMMA PublishedStays ==
  ASSUME NEW t \in Targets, NEW d \in Days
  PROVE  /\ d \in Nat /\ FirstSeen[t][d] \in Nat /\ FinalFrom[t][d] \in Nat
         /\ 2 * d <= FirstSeen[t][d] /\ FirstSeen[t][d] <= FinalFrom[t][d]
         /\ \A s, u \in Int : s <= u /\ Published(t, d, s) => Published(t, d, u)
<1>1. FirstSeen[t] \in [Days -> Nat] /\ FinalFrom[t] \in [Days -> Nat]
  BY MarketIngestAssumption
<1>2. d \in Nat /\ FirstSeen[t][d] \in Nat /\ FinalFrom[t][d] \in Nat
  <2>1. d \in Nat
    BY DEF Days
  <2> QED BY <1>1, <2>1
<1>3. 2 * d <= FirstSeen[t][d] /\ FirstSeen[t][d] <= FinalFrom[t][d]
  BY MarketIngestAssumption
<1> QED BY <1>2, <1>3 DEF Published

\* What a run fetches is true, and what it fetches as still moving is not published.
LEMMA FetchEffect ==
  ASSUME now \in Nat, NEW from \in Int, NEW to \in Int, NEW failed
  PROVE  LET rows == FetchAll(from, to, failed)
         IN  /\ rows \in Table
             /\ \A t \in Targets, d \in Days : /\ rows[t][d] = "final" => Published(t, d, now)
                                               /\ rows[t][d] = "forming" => ~Published(t, d, now)
<1> SUFFICES ASSUME NEW t \in Targets
             PROVE  LET row == FetchTarget(t, from, to, failed)
                    IN  /\ row \in [Days -> {"none", "forming", "final", "proxy"}]
                        /\ \A d \in Days : /\ row[d] = "final" => Published(t, d, now)
                                           /\ row[d] = "forming" => ~Published(t, d, now)
  BY DEF FetchAll, Table
<1> DEFINE own == [d \in Days |-> IF Source(t) \in failed \/ t = "index" THEN "none"
                                  ELSE Official(t, from, to, d)]
           other == [d \in Days |-> IF t = "rate" \/ "Yahoo" \in failed THEN NoSource(from, to, d)
                                     ELSE Yahoo(t, from, to, d)]
           Right(row) == /\ row \in [Days -> {"none", "forming", "final", "proxy"}]
                         /\ \A d \in Days : /\ row[d] = "final" => Published(t, d, now)
                                            /\ row[d] = "forming" => ~Published(t, d, now)
<1>1. Right(own)
  BY DEF Official, Shown
<1>2. Right(other)
  BY DEF Yahoo, NoSource, Shown
<1>3. FetchTarget(t, from, to, failed) = own \/ FetchTarget(t, from, to, failed) = other
  BY DEF FetchTarget
<1> QED BY <1>1, <1>2, <1>3

\* A run without a failure finds every final value of its window.
LEMMA CleanFetch ==
  ASSUME now \in Nat, NEW t \in Targets, NEW d \in Days, d >= WindowStart, Published(t, d, now)
  PROVE  FetchAll(WindowStart, Day(now), {})[t][d] = "final"
<1> DEFINE own == [e \in Days |-> IF Source(t) \in {} \/ t = "index" THEN "none"
                                  ELSE Official(t, WindowStart, Day(now), e)]
<1>1. d \in Nat /\ d <= Day(now) /\ (t = "index" => d < Day(now)) /\ Shown(t, d) = "final"
  <2>1. d \in Nat /\ FinalFrom[t][d] \in Nat /\ FinalFrom[t][d] <= now /\ 2 * d <= FinalFrom[t][d]
    BY PublishedStays DEF Published
  <2>2. t = "index" => 2 * d + 2 <= FinalFrom[t][d]
    BY MarketIngestAssumption
  <2>3. d <= Day(now) /\ (t = "index" => d < Day(now))
    <3>1. Day(now) \in Nat /\ 2 * Day(now) <= now /\ now <= 2 * Day(now) + 1
      BY DayBounds
    <3> QED BY <2>1, <2>2, <3>1
  <2> QED BY <2>1, <2>3 DEF Shown
<1>2. FetchAll(WindowStart, Day(now), {})[t] = FetchTarget(t, WindowStart, Day(now), {})
  BY DEF FetchAll
<1>3. CASE t = "index"
  <2>1. ~\E e \in Days : own[e] # "none"
    BY <1>3
  <2>2. FetchTarget(t, WindowStart, Day(now), {})[d] = Yahoo(t, WindowStart, Day(now), d)
    BY <1>3, <2>1 DEF FetchTarget
  <2>3. Yahoo(t, WindowStart, Day(now), d) = "final"
    BY <1>1, <1>3 DEF Yahoo
  <2> QED BY <1>2, <2>2, <2>3
<1>4. CASE t # "index"
  <2>1. own[d] = "final"
    BY <1>1, <1>4 DEF Official
  <2>2. \E e \in Days : own[e] # "none"
    BY <2>1
  <2>3. FetchTarget(t, WindowStart, Day(now), {}) = own
    BY <2>2 DEF FetchTarget
  <2> QED BY <1>2, <2>1, <2>3
<1> QED BY <1>3, <1>4

\* What a save does to the table: final values stay, unless another source stood in or another
\* run came between.
LEMMA UpsertEffect ==
  ASSUME stored \in Table, True(stored), NEW rows \in Table, True(rows), NEW targets \in SUBSET Targets,
         stored' = Upsert(rows, targets), now' = now, Stood(rows) \cap targets \subseteq stoodIn',
         ~overtaken' => Harmless(rows)
  PROVE  /\ stored' \in Table /\ True(stored)'
         /\ \A t \in Targets, d \in Days :
              stored[t][d] = "final" => stored'[t][d] = "final" \/ t \in stoodIn' \/ overtaken'
         /\ \A t \in targets, d \in Days : rows[t][d] # "none" => stored'[t][d] = rows[t][d]
         /\ Harmless(rows) => Harmless(rows)'
<1>1. \A t \in Targets, d \in Days :
         stored'[t][d] = IF t \in targets /\ rows[t][d] # "none" THEN rows[t][d] ELSE stored[t][d]
  BY DEF Upsert
<1>2. stored' \in Table
  BY DEF Upsert, Table
<1>3. True(stored)'
  BY <1>1 DEF True
<1>4. ASSUME NEW t \in Targets, NEW d \in Days, stored[t][d] = "final", t \notin stoodIn', ~overtaken'
      PROVE  stored'[t][d] = "final"
  <2>1. rows[t][d] # "forming"
    BY <1>4 DEF Harmless
  <2>2. t \in targets => rows[t][d] # "proxy"
    BY <1>4 DEF Stood
  <2>3. rows[t][d] \in {"none", "forming", "final", "proxy"}
    BY DEF Table
  <2> QED BY <1>1, <1>4, <2>1, <2>2, <2>3
<1>5. Harmless(rows) => Harmless(rows)'
  BY <1>1 DEF Harmless
<1> QED BY <1>1, <1>2, <1>3, <1>4, <1>5

\* Days no run asks for any more could last be corrected before the last clean run.
LEMMA OldIsClean ==
  ASSUME IngestTyped, now - clean <= Correctable, NEW d \in Days, d < WindowStart
  PROVE  2 * d + Prompt <= clean
<1>1. d \in Nat /\ Lookback \in Nat /\ Prompt \in Nat /\ now \in Nat /\ clean \in Nat
  BY MarketIngestAssumption DEF Days, IngestTyped
<1>2. 2 * Day(now) <= now /\ Day(now) \in Nat
  BY <1>1, DayBounds
<1> QED BY <1>1, <1>2 DEF WindowStart, Correctable

\* A step that saves nothing and lets no time pass.
LEMMA NothingSaved ==
  ASSUME IngestInv, UNCHANGED <<now, stored, clean, gapped, stoodIn, overtaken>>,
         server' \in ServerStates, cli' \in CliStates,
         \/ server' = server
         \/ server'.pc # "save"
         \/ /\ True(server'.rows) /\ Harmless(server'.rows)
            /\ ~server'.failed => server'.rows = FetchAll(WindowStart, Day(now), {}),
         \/ cli'.pc = cli.pc /\ cli'.rows = cli.rows
         \/ cli'.pc # "save"
         \/ True(cli'.rows) /\ Harmless(cli'.rows)
  PROVE  IngestInv'
<1>1. IngestTyped'
  BY DEF IngestInv, IngestTyped
<1>2. True(stored)' /\ (~gapped' => now' - clean' <= Correctable)
  BY DEF IngestInv, True
<1>3. Settled' <=> Settled
  BY DEF Settled
<1>4. server'.pc = "save" => /\ True(server.rows)'
                             /\ ~server'.failed => server'.rows = FetchAll(WindowStart, Day(now), {})
                             /\ ~overtaken' => Harmless(server.rows)'
  BY DEF IngestInv, True, Harmless
<1>5. cli'.pc = "save" => True(cli.rows)' /\ (~overtaken' => Harmless(cli.rows)')
  BY DEF IngestInv, True, Harmless
<1>6. FetchAll(WindowStart, Day(now), {})' = FetchAll(WindowStart, Day(now), {})
  BY DEF FetchAll, FetchTarget, Official, Yahoo, NoSource, Shown, Seen, Published, Source, WindowStart
<1> QED BY <1>1, <1>2, <1>3, <1>4, <1>5, <1>6 DEF IngestInv, Correctable

\* No close is lost in a step, but to another source or another run.
CloseStays == \A t \in Targets, d \in Days :
                 stored[t][d] = "final" => stored'[t][d] = "final" \/ t \in stoodIn' \/ overtaken'

\* The state of the sleeping loop.
LEMMA SleepTyped ==
  ASSUME now \in Nat, Sleep
  PROVE  server' \in ServerStates
<1>1. Nothing \in Table /\ now + Interval \in Int
  BY MarketIngestAssumption DEF Nothing, Table
<1> QED BY <1>1 DEF Sleep, ServerStates

\* The loop saves: a run without a failure puts its window right and leaves the days before
\* it as they were.
LEMMA SaveWindowKeeps ==
  ASSUME IngestInv, SaveWindow
  PROVE  IngestInv' /\ CloseStays
<1>1. /\ server.pc = "save" /\ server'.pc = "asleep" /\ UNCHANGED <<now, cli, gapped>>
      /\ IngestTyped /\ True(stored) /\ server.rows \in Table /\ True(server.rows)
  BY DEF SaveWindow, Sleep, IngestInv, IngestTyped, ServerStates
<1>t. server' \in ServerStates /\ cli' \in CliStates
  BY <1>1, SleepTyped DEF SaveWindow, IngestTyped
<1>2. CASE UNCHANGED <<stored, stoodIn, overtaken, clean>>
  BY <1>1, <1>t, <1>2, NothingSaved DEF CloseStays
<1>3. CASE /\ stored' = Upsert(server.rows, Targets)
           /\ stoodIn' = stoodIn \union Stood(server.rows)
           /\ overtaken' = (overtaken \/ cli.pc = "save")
           /\ clean' = IF server.failed THEN clean ELSE now
  <2>1. ~overtaken' => ~overtaken /\ cli.pc # "save"
    BY <1>3, Zenon
  <2>2. ~overtaken' => Harmless(server.rows)
    BY <1>1, <2>1 DEF IngestInv
  <2>3. Stood(server.rows) \cap Targets \subseteq stoodIn' /\ stoodIn \subseteq stoodIn'
    BY <1>3
  <2>4. /\ stored' \in Table /\ True(stored)' /\ CloseStays
        /\ \A t \in Targets, d \in Days : server.rows[t][d] # "none" => stored'[t][d] = server.rows[t][d]
    <3>1. PICK rows \in Table : rows = server.rows
      BY <1>1
    <3>2. /\ stored \in Table /\ True(rows) /\ stored' = Upsert(rows, Targets) /\ now' = now
          /\ Stood(rows) \cap Targets \subseteq stoodIn' /\ (~overtaken' => Harmless(rows))
      BY <1>1, <1>3, <2>2, <2>3, <3>1 DEF IngestTyped
    <3>3. /\ stored' \in Table /\ True(stored)' /\ CloseStays
          /\ \A t \in Targets, d \in Days : rows[t][d] # "none" => stored'[t][d] = rows[t][d]
      BY <1>1, <3>2, UpsertEffect DEF CloseStays
    <3> QED BY <3>1, <3>3
  <2>5. clean' \in {clean, now} /\ now \in Nat /\ clean \in Nat /\ clean <= now
    BY <1>1, <1>3 DEF IngestTyped
  <2>6. IngestTyped'
    BY <1>1, <1>t, <2>4, <2>5 DEF IngestTyped
  <2>7. ~gapped' => now' - clean' <= Correctable
    <3>1. ~gapped' => now - clean <= Correctable
      BY <1>1 DEF IngestInv
    <3>2. now' = now
      BY <1>1
    <3>3. CASE clean' = clean
      BY <3>1, <3>2, <3>3, Zenon
    <3>4. CASE clean' = now
      <4>1. now' - clean' = 0
        BY <2>5, <3>2, <3>4
      <4>2. 0 <= Correctable
        BY MarketIngestAssumption DEF Correctable
      <4> QED BY <4>1, <4>2
    <3> QED BY <2>5, <3>3, <3>4
  <2>8. ASSUME ~gapped', ~overtaken' PROVE Settled'
    <3>1. Settled /\ now - clean <= Correctable
      BY <1>1, <2>1, <2>8 DEF IngestInv
    <3> SUFFICES ASSUME NEW t \in Targets \ stoodIn', NEW d \in Days,
                        2 * d + Prompt <= clean', Published(t, d, 2 * d + Prompt)
                 PROVE  stored'[t][d] = "final"
      BY DEF Settled
    <3>2. CASE 2 * d + Prompt <= clean
      BY <2>3, <2>4, <2>8, <3>1, <3>2 DEF Settled, CloseStays
    <3>3. CASE ~(2 * d + Prompt <= clean)
      <4>1. clean' = now /\ ~server.failed
        BY <1>3, <3>3
      <4>2. server.rows = FetchAll(WindowStart, Day(now), {})
        BY <1>1, <4>1 DEF IngestInv
      <4>3. d \in Int /\ WindowStart \in Int
        BY <2>5, DayBounds, MarketIngestAssumption DEF Days, WindowStart
      <4>4. d >= WindowStart
        BY <1>1, <3>1, <3>3, <4>3, OldIsClean
      <4>5. server.rows[t][d] = "final"
        <5>1. d \in Nat /\ Prompt \in Int /\ now \in Int /\ 2 * d + Prompt <= now
          BY <2>5, <4>1, PublishedStays, MarketIngestAssumption
        <5>2. Published(t, d, now)
          BY <5>1, PublishedStays
        <5> QED BY <2>5, <4>2, <4>4, <5>2, CleanFetch
      <4> QED BY <2>4, <4>5
    <3> QED BY <3>2, <3>3
  <2>9. cli'.pc = "save" => True(cli.rows)' /\ overtaken'
    BY <1>1, <2>1 DEF IngestInv, True
  <2> QED BY <1>1, <2>1, <2>4, <2>6, <2>7, <2>8, <2>9 DEF IngestInv, Correctable
<1> QED BY <1>2, <1>3 DEF SaveWindow

\* The command line saves a batch, or loses it.
LEMMA CliSaveKeeps ==
  ASSUME IngestInv, CliSave
  PROVE  IngestInv' /\ CloseStays
<1>1. /\ cli.pc = "save" /\ cli'.pc = cli.pc /\ cli'.rows = cli.rows
      /\ UNCHANGED <<now, server, clean, gapped>>
      /\ IngestTyped /\ True(stored) /\ cli.rows \in Table /\ True(cli.rows)
  BY DEF CliSave, IngestInv, IngestTyped, CliStates
<1>t. cli' \in CliStates
  BY DEF CliSave, IngestInv, IngestTyped, CliStates
<1>2. CASE UNCHANGED <<stored, stoodIn, overtaken>>
  BY <1>1, <1>t, <1>2, NothingSaved DEF CloseStays, IngestTyped
<1>3. ASSUME NEW batch \in SUBSET Targets,
             /\ stored' = Upsert(cli.rows, batch)
             /\ stoodIn' = stoodIn \union (Stood(cli.rows) \intersect batch)
             /\ overtaken' = (overtaken \/ server.pc = "save")
      PROVE  IngestInv' /\ CloseStays
  <2>1. ~overtaken' => ~overtaken /\ server.pc # "save"
    BY <1>3, Zenon
  <2>2. ~overtaken' => Harmless(cli.rows)
    BY <1>1, <2>1 DEF IngestInv
  <2>3. Stood(cli.rows) \cap batch \subseteq stoodIn' /\ stoodIn \subseteq stoodIn'
    BY <1>3
  <2>4. /\ stored' \in Table /\ True(stored)' /\ CloseStays
        /\ Harmless(cli.rows) => Harmless(cli.rows)'
    <3>1. PICK rows \in Table : rows = cli.rows
      BY <1>1
    <3>2. /\ stored \in Table /\ True(rows) /\ stored' = Upsert(rows, batch) /\ now' = now
          /\ Stood(rows) \cap batch \subseteq stoodIn' /\ (~overtaken' => Harmless(rows))
      BY <1>1, <1>3, <2>2, <2>3, <3>1 DEF IngestTyped
    <3>3. /\ stored' \in Table /\ True(stored)' /\ CloseStays
          /\ Harmless(rows) => Harmless(rows)'
      BY <1>1, <3>2, UpsertEffect DEF CloseStays
    <3> QED BY <1>1, <3>1, <3>3 DEF Harmless
  <2>5. IngestTyped'
    BY <1>1, <1>t, <2>4 DEF IngestTyped
  <2>6. ~gapped' => now' - clean' <= Correctable
    BY <1>1 DEF IngestInv
  <2>7. ~gapped' /\ ~overtaken' => Settled'
    BY <1>1, <2>1, <2>3, <2>4 DEF IngestInv, Settled, CloseStays
  <2>8. True(cli.rows)' /\ (~overtaken' => Harmless(cli.rows)')
    BY <1>1, <2>2, <2>4 DEF True, Harmless
  <2>9. server'.pc = "save" =>
            /\ True(server.rows)' /\ overtaken'
            /\ ~server'.failed => server'.rows = FetchAll(WindowStart, Day(now), {})'
    <3>1. FetchAll(WindowStart, Day(now), {})' = FetchAll(WindowStart, Day(now), {})
      BY <1>1 DEF FetchAll, FetchTarget, Official, Yahoo, NoSource, Shown, Seen, Published, Source, WindowStart
    <3> QED BY <1>1, <2>1, <3>1 DEF IngestInv, True
  <2> QED BY <1>1, <2>4, <2>5, <2>6, <2>7, <2>8, <2>9 DEF IngestInv, Correctable
<1> DEFINE next == {Batches[Len(Batches) - cli.left + 1]}
<1>4. CASE /\ stored' = Upsert(cli.rows, next)
           /\ stoodIn' = stoodIn \union (Stood(cli.rows) \intersect next)
           /\ overtaken' = (overtaken \/ server.pc = "save")
  <2> HIDE DEF next
  <2>1. Upsert(cli.rows, next) = Upsert(cli.rows, next \cap Targets)
    BY DEF Upsert
  <2>2. Stood(cli.rows) \intersect next = Stood(cli.rows) \intersect (next \cap Targets)
    BY DEF Stood
  <2> QED BY <1>3, <1>4, <2>1, <2>2
<1> QED BY <1>2, <1>4 DEF CliSave

\* A run has fetched its rows, and nobody has saved since.
LEMMA FetchKeeps ==
  ASSUME IngestInv, FetchWindow \/ CliFetch
  PROVE  IngestInv' /\ CloseStays
<1>1. now \in Nat /\ Day(now) \in Int /\ WindowStart \in Int /\ 1 \in Int /\ True(stored)
  BY DayBounds, MarketIngestAssumption DEF IngestInv, IngestTyped, WindowStart
<1>2. ASSUME NEW from \in Int, NEW failed
      PROVE  LET rows == FetchAll(from, Day(now), failed)
             IN  rows \in Table /\ True(rows) /\ Harmless(rows)
  BY <1>1, <1>2, FetchEffect DEF True, Harmless
<1>3. UNCHANGED <<now, stored, clean, gapped, stoodIn, overtaken>>
  BY DEF FetchWindow, CliFetch
<1>4. CASE FetchWindow
  <2>1. PICK failed \in Failures :
           LET rows == FetchAll(WindowStart, Day(now), failed)
           IN  IF HasRows(rows, Targets)
               THEN server' = [server EXCEPT !.pc = "save", !.rows = rows, !.failed = failed # {}]
               ELSE Sleep
    BY <1>4 DEF FetchWindow
  <2>2. PICK rows : rows = FetchAll(WindowStart, Day(now), failed)
    OBVIOUS
  <2>3. rows \in Table /\ True(rows) /\ Harmless(rows)
    BY <1>1, <1>2, <2>2
  <2>4. server' \in ServerStates /\ (server'.pc # "save" \/ (server'.rows = rows /\ server'.failed = (failed # {})))
    <3>1. CASE HasRows(rows, Targets)
      BY <2>1, <2>2, <2>3, <3>1 DEF IngestInv, IngestTyped, ServerStates
    <3>2. CASE ~HasRows(rows, Targets)
      BY <1>1, <2>1, <2>2, <3>2, SleepTyped DEF Sleep
    <3> QED BY <3>1, <3>2
  <2>5. cli' \in CliStates /\ cli'.pc = cli.pc /\ cli'.rows = cli.rows
    BY <1>4 DEF FetchWindow, IngestInv, IngestTyped
  <2>6. \/ server'.pc # "save"
        \/ /\ True(server'.rows) /\ Harmless(server'.rows)
           /\ ~server'.failed => server'.rows = FetchAll(WindowStart, Day(now), {})
    BY <2>2, <2>3, <2>4
  <2>7. IngestInv'
    <3>1. CASE server'.pc # "save"
      BY <1>3, <2>4, <2>5, <3>1, NothingSaved
    <3>2. CASE /\ True(server'.rows) /\ Harmless(server'.rows)
               /\ ~server'.failed => server'.rows = FetchAll(WindowStart, Day(now), {})
      BY <1>3, <2>4, <2>5, <3>2, NothingSaved
    <3> QED BY <2>6, <3>1, <3>2
  <2> QED BY <1>3, <2>7 DEF CloseStays
<1>5. CASE CliFetch
  <2>1. PICK from \in {1, Day(now)}, failed \in {{}, {"FRED"}} :
           LET rows == FetchAll(from, Day(now), failed)
           IN  IF HasRows(rows, Targets)
               THEN cli' = [pc |-> "save", rows |-> rows, left |-> Len(Batches)]
               ELSE cli' = [cli EXCEPT !.pc = "done"]
    BY <1>5 DEF CliFetch
  <2>2. PICK rows : rows = FetchAll(from, Day(now), failed)
    OBVIOUS
  <2>3. rows \in Table /\ True(rows) /\ Harmless(rows)
    BY <1>1, <1>2, <2>2
  <2>4. cli' \in CliStates /\ (cli'.pc # "save" \/ cli'.rows = rows)
    BY <2>1, <2>2, <2>3 DEF IngestInv, IngestTyped, CliStates, Batches
  <2>5. server' = server /\ server \in ServerStates
    BY <1>5 DEF CliFetch, IngestInv, IngestTyped
  <2> QED BY <1>3, <2>3, <2>4, <2>5, NothingSaved DEF CloseStays
<1> QED BY <1>4, <1>5

\* Steps that neither fetch nor save.
LEMMA WaitingKeeps ==
  ASSUME IngestInv, Check \/ Stop \/ ServerStart \/ CliEnd \/ UNCHANGED ingestVars
  PROVE  IngestInv' /\ CloseStays
<1>1. UNCHANGED <<now, stored, clean, gapped, stoodIn, overtaken>>
  BY DEF Check, Stop, ServerStart, CliEnd, ingestVars
<1>2. Nothing \in Table /\ now \in Nat /\ server \in ServerStates /\ cli \in CliStates
  BY DEF Nothing, Table, IngestInv, IngestTyped
<1>3. server' \in ServerStates /\ (server' = server \/ server'.pc # "save")
  <2>1. CASE Check
    BY <1>2, <2>1, SleepTyped DEF Check, Sleep, ServerStates
  <2>2. CASE Stop
    BY <1>2, <2>2 DEF Stop, ServerStates
  <2>3. CASE ServerStart
    BY <1>2, <2>3 DEF ServerStart, ServerStates
  <2>4. CASE CliEnd \/ UNCHANGED ingestVars
    BY <1>2, <2>4 DEF CliEnd, ingestVars
  <2> QED BY <2>1, <2>2, <2>3, <2>4
<1>4. cli' \in CliStates /\ ((cli'.pc = cli.pc /\ cli'.rows = cli.rows) \/ cli'.pc # "save")
  BY <1>2 DEF Check, Stop, ServerStart, CliEnd, CliStates, ingestVars
<1> QED BY <1>1, <1>3, <1>4, NothingSaved DEF CloseStays

\* Time passes while the loop is not running: what was published stays published.
LEMMA TimeKeeps ==
  ASSUME IngestInv, IngestTick
  PROVE  IngestInv' /\ CloseStays
<1>1. /\ now' = now + 1 /\ now \in Nat /\ server.pc # "save"
      /\ gapped' = (gapped \/ now' - clean > Correctable)
      /\ UNCHANGED <<stored, server, cli, clean, stoodIn, overtaken>>
  BY DEF IngestTick, IngestInv, IngestTyped
<1>2. \A t \in Targets, d \in Days : Published(t, d, now) => Published(t, d, now')
  BY <1>1, PublishedStays
<1>3. IngestTyped'
  BY <1>1 DEF IngestInv, IngestTyped
<1>4. ASSUME NEW rows, True(rows) PROVE \A t \in Targets, d \in Days : rows[t][d] = "final" => Published(t, d, now')
  BY <1>2, <1>4 DEF True
<1>5. ~gapped' => ~gapped /\ now' - clean' <= Correctable
  <2>1. ~gapped' => ~gapped /\ ~(now' - clean > Correctable)
    BY <1>1, Zenon
  <2> QED BY <1>1, <1>3, <2>1, MarketIngestAssumption DEF IngestTyped, Correctable
<1>6. True(stored)' /\ (cli'.pc = "save" => True(cli.rows)')
  BY <1>1, <1>4 DEF IngestInv, True
<1>7. /\ Settled => Settled'
      /\ \A rows : Harmless(rows) => \A t \in Targets, d \in Days : rows[t][d] = "forming" => stored'[t][d] # "final"
  BY <1>1 DEF Settled, Harmless
<1>8. Harmless(cli.rows) => Harmless(cli.rows)'
  BY <1>1 DEF Harmless
<1> QED BY <1>1, <1>3, <1>5, <1>6, <1>7, <1>8 DEF IngestInv, CloseStays, Correctable

\* Every step.
LEMMA IngestStep ==
  ASSUME IngestInv, [IngestNext]_ingestVars
  PROVE  IngestInv' /\ CloseStays
BY SaveWindowKeeps, CliSaveKeeps, FetchKeeps, WaitingKeeps, TimeKeeps DEF IngestNext

\* The back-filled table is right.
LEMMA IngestStarts == IngestInit => IngestInv
<1> SUFFICES ASSUME IngestInit PROVE IngestInv
  OBVIOUS
<1>1. now = 4 /\ clean = 4 /\ server.pc = "check" /\ cli.pc = "off"
  BY DEF IngestInit, FirstNow
<1>2. \A t \in Targets, d \in Days : stored[t][d] = IF Published(t, d, 4) THEN "final" ELSE "none"
  BY DEF IngestInit, FirstNow
<1>3. stored \in Table
  BY DEF IngestInit, Table
<1>4. True(stored)
  BY <1>1, <1>2 DEF True
<1>5. Settled
  <2> SUFFICES ASSUME NEW t \in Targets, NEW d \in Days, 2 * d + Prompt <= 4, Published(t, d, 2 * d + Prompt)
               PROVE  stored[t][d] = "final"
    BY <1>1 DEF Settled
  <2>1. Published(t, d, 4)
    <3>1. 2 * d + Prompt \in Int
      BY PublishedStays, MarketIngestAssumption
    <3> QED BY <3>1, PublishedStays
  <2> QED BY <1>2, <2>1
<1>6. IngestTyped
  BY <1>1, <1>3 DEF IngestTyped, IngestInit, FirstNow, ServerStates, CliStates, Nothing, Table
<1>7. now - clean <= Correctable
  BY <1>1, MarketIngestAssumption DEF Correctable
<1> QED BY <1>1, <1>4, <1>5, <1>6, <1>7 DEF IngestInv

\* The table is true and its old days settled, in every reachable state.
LEMMA IngestInvariant == IngestSpec => []IngestInv
<1>1. IngestInv /\ [IngestNext]_ingestVars => IngestInv'
  BY IngestStep
<1> QED BY <1>1, IngestStarts, PTL DEF IngestSpec

\* Whatever the interval, the period asked for and the failures: a day no run asks for any
\* more holds its final value, if that came promptly, unless for as long as it could be
\* corrected no run went through without a failure, another source stood in or a run saved
\* what it had fetched before another one.
THEOREM OldDaysHoldTheirClose == IngestSpec => []SettledUnlessGapped
<1>1. IngestInv => SettledUnlessGapped
  <2> SUFFICES ASSUME IngestInv, ~gapped, ~overtaken, NEW t \in Targets \ stoodIn, NEW d \in Days,
                      d < WindowStart, Published(t, d, 2 * d + Prompt)
               PROVE  stored[t][d] = "final"
    BY DEF SettledUnlessGapped
  <2>1. IngestTyped /\ Settled /\ now - clean <= Correctable
    BY DEF IngestInv
  <2>2. 2 * d + Prompt <= clean
    BY <2>1, OldIsClean
  <2> QED BY <2>1, <2>2 DEF Settled
<1> QED BY <1>1, IngestInvariant, PTL

\* No step of any run replaces a close, unless another source stood in or a run saved what
\* it had fetched before another one.
THEOREM ClosesStay == IngestSpec => FinalStaysUnlessOvertaken
<1>1. IngestInv /\ [IngestNext]_ingestVars => CloseStays
  BY IngestStep
<1>2. CloseStays => [CloseStays]_ingestVars
  OBVIOUS
<1> QED BY <1>1, IngestInvariant, PTL DEF IngestSpec, FinalStaysUnlessOvertaken, CloseStays

=============================================================================
