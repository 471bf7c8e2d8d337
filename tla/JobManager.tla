------------------------------ MODULE JobManager ------------------------------
(***************************************************************************)
(* Background jobs: JobManager of backend/app/services/jobs.py, its files  *)
(* in data/jobs, the CLI subprocess and the reader task of each job, and   *)
(* the browser that polls it (frontend/src/components/JobProgress.tsx).    *)
(*                                                                         *)
(* Everything of the manager runs on one event loop, so a step ends where  *)
(* the code awaits.  Jobs are numbered by created_at.  A restart of the    *)
(* service kills the subprocesses with it (systemd control group).         *)
(***************************************************************************)
EXTENDS Naturals, FiniteSetsExt, Functions

CONSTANTS MaxJobs,      \* _MAX_JOBS
          PersistEvery, \* the reader persists every so many lines
          Stages,       \* m of the "[n/m]" lines
          NumJobs,      \* bound: calls of start()
          MaxLines,     \* bound: lines of one subprocess
          MaxCrashes,   \* bound: crashes of the server
          MaxTorn,      \* bound: persists that fail or are cut off by a crash
          LongLines     \* bound: lines longer than the reader's buffer

JobAssumption ==
    /\ MaxJobs \in Nat \ {0} /\ PersistEvery \in Nat \ {0} /\ Stages \in Nat \ {0}
    /\ NumJobs \in Nat /\ MaxLines \in Nat /\ MaxCrashes \in Nat
    /\ MaxTorn \in Nat /\ LongLines \in Nat

VARIABLES
    jobs,       \* _jobs: job id -> status and progress
    disk,       \* data/jobs/<id>.json: what it says; torn files hold None
    task,       \* per job: "new", "spawning", "reading", "over"
    child,      \* per job, the subprocess: "none", "alive", "stuck", "exit 0", "exit 1", "killed"
    lines,      \* per job: lines read, as the reader counts them
    serving,    \* the server is up
    poller,     \* per job, the browser: "off", "polling" or the final status it was shown
    faults,     \* crashes, torn files and long lines so far
    evicted     \* history: jobs dropped by start()

vars == <<jobs, disk, task, child, lines, serving, poller, faults, evicted>>

None == [status |-> "none", progress |-> 0]
Ids == 1 .. NumJobs
Running == [status |-> "running", progress |-> 0]
Final == {"succeeded", "failed"}

Init == /\ jobs = [j \in {} |-> None]
        /\ disk = [j \in {} |-> None]
        /\ task = [j \in Ids |-> "new"]
        /\ child = [j \in Ids |-> "none"]
        /\ lines = [j \in Ids |-> 0]
        /\ serving = TRUE
        /\ poller = [j \in Ids |-> "off"]
        /\ faults = [crash |-> 0, torn |-> 0, long |-> 0]
        /\ evicted = {}

With(f, j, rec) == [i \in DOMAIN f \cup {j} |-> IF i = j THEN rec ELSE f[i]]

\* persist(): errors are swallowed; write_text() truncates before it writes.
Persist(j, rec) ==
    \/ disk' = With(disk, j, rec) /\ UNCHANGED faults
    \/ /\ faults.torn < MaxTorn
       /\ faults' = [faults EXCEPT !.torn = @ + 1]
       /\ \/ disk' = With(disk, j, None)
          \/ UNCHANGED disk

Completed == {j \in DOMAIN jobs : jobs[j].status \in Final}

\* The job start() makes room with.
EvictedNow ==
    IF Cardinality(DOMAIN jobs) >= MaxJobs /\ Completed # {} THEN {Min(Completed)} ELSE {}

StartJob(j) ==
    /\ serving
    /\ task[j] = "new"
    /\ \A i \in Ids : i < j => task[i] # "new"
    /\ jobs' = With(Restrict(jobs, DOMAIN jobs \ EvictedNow), j, Running)
    /\ evicted' = evicted \cup EvictedNow
    /\ Persist(j, Running)
    /\ task' = [task EXCEPT ![j] = "spawning"]
    /\ poller' = [poller EXCEPT ![j] = "polling"]
    /\ UNCHANGED <<child, lines, serving>>

\* The task's end: the final status, in memory (unless evicted) and on disk.
Finish(j, rec) ==
    /\ jobs' = IF j \in DOMAIN jobs THEN [jobs EXCEPT ![j] = rec] ELSE jobs
    /\ Persist(j, rec)
    /\ task' = [task EXCEPT ![j] = "over"]

Progress(j) == IF j \in DOMAIN jobs THEN jobs[j].progress ELSE 0

Spawn(j) ==
    /\ serving
    /\ task[j] = "spawning"
    /\ \/ /\ task' = [task EXCEPT ![j] = "reading"]
          /\ child' = [child EXCEPT ![j] = "alive"]
          /\ UNCHANGED <<jobs, disk, faults>>
       \/ /\ Finish(j, [status |-> "failed", progress |-> 0])
          /\ UNCHANGED child
    /\ UNCHANGED <<lines, serving, poller, evicted>>

\* The progress a "[n/Stages]" line stands for.
Estimate(n) == Min({99, (n * 100) \div Stages})

\* The reader takes a line of the subprocess; n = 0 stands for a line without stage.
ReadLine(j, n) ==
    LET rec == [status |-> "running",
                progress |-> IF n = 0 THEN Progress(j) ELSE Estimate(n)]
    IN  /\ serving
        /\ task[j] = "reading"
        /\ child[j] = "alive"
        /\ lines[j] < MaxLines
        /\ lines' = [lines EXCEPT ![j] = @ + 1]
        /\ jobs' = IF j \in DOMAIN jobs THEN [jobs EXCEPT ![j] = rec] ELSE jobs
        /\ IF lines'[j] % PersistEvery = 0
             THEN Persist(j, rec)
             ELSE UNCHANGED <<disk, faults>>
        /\ UNCHANGED <<task, child, serving, poller, evicted>>

\* A line beyond the buffer limit: readline() raises, the task dies, and the
\* subprocess ends unattended or blocks as soon as the pipe is full.
LongLine(j) ==
    /\ serving
    /\ task[j] = "reading"
    /\ child[j] = "alive"
    /\ faults.long < LongLines
    /\ faults' = [faults EXCEPT !.long = @ + 1]
    /\ task' = [task EXCEPT ![j] = "over"]
    /\ \E c \in {"alive", "stuck"} : child' = [child EXCEPT ![j] = c]
    /\ UNCHANGED <<jobs, disk, lines, serving, poller, evicted>>

Exit(j, code) ==
    /\ child[j] = "alive"
    /\ child' = [child EXCEPT ![j] = code]
    /\ UNCHANGED <<jobs, disk, task, lines, serving, poller, faults, evicted>>

Verdict(j) == IF child[j] = "exit 0" THEN [status |-> "succeeded", progress |-> 100]
              ELSE [status |-> "failed", progress |-> Progress(j)]

\* Mutated: the final state is kept in memory only.
ReapUnsaved(j) ==
    /\ serving
    /\ task[j] = "reading"
    /\ child[j] \in {"exit 0", "exit 1"}
    /\ jobs' = IF j \in DOMAIN jobs THEN [jobs EXCEPT ![j] = Verdict(j)] ELSE jobs
    /\ task' = [task EXCEPT ![j] = "over"]
    /\ UNCHANGED <<disk, child, lines, serving, poller, faults, evicted>>

\* End of output; proc.wait() gives the exit code.
Reap(j) ==
    /\ serving
    /\ task[j] = "reading"
    /\ child[j] \in {"exit 0", "exit 1"}
    /\ Finish(j, Verdict(j))
    /\ UNCHANGED <<child, lines, serving, poller, evicted>>

Crash ==
    /\ serving
    /\ faults.crash < MaxCrashes
    /\ faults' = [faults EXCEPT !.crash = @ + 1]
    /\ serving' = FALSE
    /\ jobs' = [j \in {} |-> None]
    /\ task' = [j \in Ids |-> IF task[j] = "new" THEN "new" ELSE "over"]
    /\ child' = [j \in Ids |-> IF child[j] \in {"alive", "stuck"} THEN "killed" ELSE child[j]]
    /\ UNCHANGED <<disk, lines, poller, evicted>>

\* Mutated: jobs are loaded as the files say.
LoadedAsIs(rec) == rec

\* A job that was running is over; the file keeps saying "running".
Loaded(rec) == IF rec.status = "running" THEN [rec EXCEPT !.status = "failed"] ELSE rec

\* _load_persisted(): every readable file, evicted or not.
Restart ==
    /\ ~serving
    /\ serving' = TRUE
    /\ jobs' = [j \in {i \in DOMAIN disk : disk[i] # None} |-> Loaded(disk[j])]
    /\ UNCHANGED <<disk, task, child, lines, poller, faults, evicted>>

\* GET .../jobs/{id}: an unknown job is an error, and the browser tries again.
Poll(j) ==
    /\ serving
    /\ poller[j] = "polling"
    /\ j \in DOMAIN jobs
    /\ jobs[j].status \in Final
    /\ poller' = [poller EXCEPT ![j] = jobs[j].status]
    /\ UNCHANGED <<jobs, disk, task, child, lines, serving, faults, evicted>>

Work(j) == Spawn(j) \/ Reap(j)

Ends(j) == \E code \in {"exit 0", "exit 1"} : Exit(j, code)

Next == \/ \E j \in Ids : \/ StartJob(j) \/ Work(j) \/ Ends(j) \/ Poll(j) \/ LongLine(j)
                          \/ \E n \in 0 .. Stages : ReadLine(j, n)
        \/ Crash \/ Restart

Spec == Init /\ [][Next]_vars

\* The event loop runs every task, subprocesses end, systemd restarts the server,
\* the browser keeps polling.
Fairness == /\ WF_vars(Restart)
            /\ \A j \in Ids : WF_vars(Work(j)) /\ WF_vars(Ends(j)) /\ WF_vars(Poll(j))

FairSpec == Spec /\ Fairness

-----------------------------------------------------------------------------
Record == [status : {"running"} \cup Final, progress : 0 .. 100]

TypeOK ==
    /\ DOMAIN jobs \subseteq Ids /\ \A j \in DOMAIN jobs : jobs[j] \in Record
    /\ DOMAIN disk \subseteq Ids /\ \A j \in DOMAIN disk : disk[j] \in Record \cup {None}
    /\ task \in [Ids -> {"new", "spawning", "reading", "over"}]
    /\ child \in [Ids -> {"none", "alive", "stuck", "exit 0", "exit 1", "killed"}]
    /\ lines \in [Ids -> 0 .. MaxLines]
    /\ serving \in BOOLEAN
    /\ poller \in [Ids -> {"off", "polling"} \cup Final]
    /\ evicted \subseteq Ids

(* A job is shown as running exactly as long as a task is at work that will end it
   (status: running | succeeded | failed), also after a restart that found it running on
   disk, and it is not dropped before; but the task dies of a line beyond its buffer. *)
RunningIffTaskAlive ==
    \A j \in Ids :
        /\ task[j] \in {"spawning", "reading"} => j \in DOMAIN jobs /\ jobs[j].status = "running"
        /\ j \in DOMAIN jobs /\ jobs[j].status = "running" => task[j] # "over" \/ faults.long > 0

(* The user is told success only of a job whose process succeeded, and what the user was
   told stays true of the job, across crashes and restarts, as long as every file could be
   written. *)
VerdictStands ==
    /\ TypeOK
    /\ RunningIffTaskAlive
    /\ \A j \in Ids :
        /\ poller[j] = "succeeded" => child[j] = "exit 0"
        /\ poller[j] \in Final /\ j \in DOMAIN jobs /\ faults.torn = 0 => jobs[j].status = poller[j]

(* Every browser that polls a job is told its end, unless the job was evicted or its
   file or its reader was lost. *)
EveryPollerIsTold ==
    \A j \in Ids : (poller[j] = "polling")
        ~> (poller[j] \in Final \/ j \in evicted \/ faults.torn > 0 \/ faults.long > 0)
=============================================================================
