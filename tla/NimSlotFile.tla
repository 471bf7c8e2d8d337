------------------------------ MODULE NimSlotFile ------------------------------
(***************************************************************************)
(* reserve() of shared/utils/nim_rate_limit.py as the processes that share *)
(* one key's slot file execute it, system call by system call.             *)
(*                                                                         *)
(*   now = time.time()          ReadClock   (before the lock is asked for) *)
(*   open(path, "a+b"), flock   Lock                                       *)
(*   f.read(), prune, insort    ReadSlots                                  *)
(*   f.seek(0); f.truncate()    Truncate                                   *)
(*   f.write(...)               (fills the process's own file buffer)      *)
(*   flock(LOCK_UN)             Unlock                                     *)
(*   end of the with block      Flush       (close() writes the buffer)    *)
(*                                                                         *)
(* The file is opened for appending, so Flush appends to whatever the file *)
(* holds by then.  A process may be killed at any point (Kill): the kernel *)
(* drops its lock and its buffer is gone.                                  *)
(***************************************************************************)
EXTENDS SlotMath, SequencesExt

CONSTANTS Procs,        \* processes (or threads) that reserve with this key
          MaxTime,      \* bound: the last clock value
          MaxGrants,    \* bound: how many calls of reserve() a run makes
          MaxFaults     \* bound: how many kills and write failures a run has

None == "none"

ASSUME SlotFileAssumption ==
    /\ MaxTime \in Nat /\ MaxGrants \in Nat /\ MaxFaults \in Nat
    /\ None \notin Procs

VARIABLES
    clock,      \* wall-clock time
    file,       \* the slot file: the lists appended to it, in order
    holder,     \* the process that holds the flock, or None
    pc,         \* where each process is in reserve()
    now,        \* the time.time() it read
    start,      \* the start it decided on
    buf,        \* its file buffer after f.write
    granted,    \* history: every start handed out
    latest,     \* history: the latest time the file was pruned with
    faults,     \* history: kills and write failures so far
    spoilt      \* history: what has already gone wrong, a subset of Mishaps

local == <<pc, now, start, buf>>
vars == <<clock, file, holder, local, granted, latest, faults, spoilt>>

Steps == {"idle", "opening", "locked", "read", "truncated", "unlocked"}

\* The three ways in which calls of reserve() can disturb one another.
Mishaps == {"unflushed",    \* the lock was taken before the last holder's flush
            "stale clock",  \* the file was pruned with a later time than the reader's
            "lost buffer"}  \* the only copy of the list was lost before the flush

Init == /\ clock = 0
        /\ file = <<>>
        /\ holder = None
        /\ pc = [p \in Procs |-> "idle"]
        /\ now = [p \in Procs |-> 0]
        /\ start = [p \in Procs |-> 0]
        /\ buf = [p \in Procs |-> <<>>]
        /\ granted = <<>>
        /\ latest = 0
        /\ faults = 0
        /\ spoilt = {}

Tick == /\ clock < MaxTime
        /\ clock' = clock + 1
        /\ UNCHANGED <<file, holder, local, granted, latest, faults, spoilt>>

Busy == {p \in Procs : pc[p] # "idle"}

\* The locals of reserve() are gone when it returns.
Return(p) == /\ pc' = [pc EXCEPT ![p] = "idle"]
             /\ now' = [now EXCEPT ![p] = 0]
             /\ start' = [start EXCEPT ![p] = 0]
             /\ buf' = [buf EXCEPT ![p] = <<>>]

Goto(p, step) == pc' = [pc EXCEPT ![p] = step]

\* reserve() begins with now = time.time().
ReadClock(p) ==
    /\ pc[p] = "idle"
    /\ Len(granted) + Cardinality(Busy) < MaxGrants
    /\ Goto(p, "opening")
    /\ now' = [now EXCEPT ![p] = clock]
    /\ UNCHANGED <<clock, file, holder, start, buf, granted, latest, faults, spoilt>>

\* open() raises OSError: the call goes ahead without a reservation.
OpenFails(p) ==
    /\ pc[p] = "opening"
    /\ Return(p)
    /\ UNCHANGED <<clock, file, holder, granted, latest, faults, spoilt>>

Note(mishap, happened) == spoilt' = IF happened THEN spoilt \cup {mishap} ELSE spoilt

Lock(p) ==
    /\ pc[p] = "opening"
    /\ holder = None
    /\ holder' = p
    /\ Goto(p, "locked")
    /\ Note("unflushed", \E q \in Procs : pc[q] = "unlocked")
    /\ UNCHANGED <<clock, file, now, start, buf, granted, latest, faults>>

\* sorted(): each place holds the value that has fewer entries below it than the place's
\* number, and no fewer up to it.
Sorted(s) ==
    [i \in DOMAIN s |-> CHOOSE v \in Range(s) :
        /\ Cardinality({j \in DOMAIN s : s[j] < v}) < i
        /\ i <= Cardinality({j \in DOMAIN s : s[j] <= v})]

\* Everything between f.read() and f.seek(0) happens in the process's memory.
ReadSlots(p) ==
    LET live == Live(Sorted(file), now[p])
    IN  /\ pc[p] = "locked"
        /\ start' = [start EXCEPT ![p] = StartFor(live, now[p])]
        /\ buf' = [buf EXCEPT ![p] = Insort(live, StartFor(live, now[p]))]
        /\ Goto(p, "read")
        /\ latest' = Max({latest, now[p]})
        /\ Note("stale clock", now[p] < latest)
        /\ UNCHANGED <<clock, file, holder, now, granted, faults>>

\* Mutated: the file is not truncated, so the list is appended to the old one.
TruncateMissing(p) ==
    /\ pc[p] = "read"
    /\ Goto(p, "truncated")
    /\ granted' = Append(granted, start[p])
    /\ UNCHANGED <<clock, file, holder, now, start, buf, latest, faults, spoilt>>

\* f.seek(0); f.truncate(); the f.write() that follows only fills the buffer.
Truncate(p) ==
    /\ pc[p] = "read"
    /\ file' = <<>>
    /\ Goto(p, "truncated")
    /\ granted' = Append(granted, start[p])
    /\ UNCHANGED <<clock, holder, now, start, buf, latest, faults, spoilt>>

Unlock(p) ==
    /\ pc[p] = "truncated"
    /\ holder' = None
    /\ Goto(p, "unlocked")
    /\ UNCHANGED <<clock, file, now, start, buf, granted, latest, faults, spoilt>>

\* The with block ends: close() writes the buffer at the end of the file.
Flush(p) ==
    /\ pc[p] = "unlocked"
    /\ file' = file \o buf[p]
    /\ Return(p)
    /\ UNCHANGED <<clock, holder, granted, latest, faults, spoilt>>

\* close() raises OSError (disk full): reserve() returns 0.0 without a record.
FlushFails(p) ==
    /\ faults < MaxFaults
    /\ pc[p] = "unlocked"
    /\ faults' = faults + 1
    /\ Return(p)
    /\ Note("lost buffer", TRUE)
    /\ UNCHANGED <<clock, file, holder, granted, latest>>

\* Mutated: the lock outlives the process that held it.
KillKeepsLock(p) ==
    /\ faults < MaxFaults
    /\ p \in Busy
    /\ faults' = faults + 1
    /\ Return(p)
    /\ Note("lost buffer", pc[p] \in {"truncated", "unlocked"})
    /\ UNCHANGED <<clock, file, holder, granted, latest>>

\* SIGKILL (a service restart kills the job subprocesses with the server).
Kill(p) ==
    /\ faults < MaxFaults
    /\ p \in Busy
    /\ faults' = faults + 1
    /\ holder' = IF holder = p THEN None ELSE holder
    /\ Return(p)
    /\ Note("lost buffer", pc[p] \in {"truncated", "unlocked"})
    /\ UNCHANGED <<clock, file, granted, latest>>

Reserve(p) == \/ ReadClock(p) \/ OpenFails(p) \/ Lock(p) \/ ReadSlots(p)
              \/ Truncate(p) \/ Unlock(p) \/ Flush(p) \/ FlushFails(p)

Next == Tick \/ \E p \in Procs : Reserve(p) \/ Kill(p)

\* A process inside the critical section keeps running, and flock() does not
\* pass a waiter over for ever.
Fairness ==
    \A p \in Procs :
        /\ WF_vars(ReadSlots(p) \/ Truncate(p) \/ Unlock(p) \/ Flush(p) \/ FlushFails(p))
        /\ SF_vars(Lock(p))

Spec == Init /\ [][Next]_vars

FairSpec == Spec /\ Fairness

-----------------------------------------------------------------------------
TypeOK ==
    /\ clock \in 0 .. MaxTime
    /\ file \in Seq(Nat)
    /\ holder \in Procs \cup {None}
    /\ pc \in [Procs -> Steps]
    /\ now \in [Procs -> 0 .. MaxTime]
    /\ start \in [Procs -> Nat]
    /\ buf \in [Procs -> Seq(Nat)]
    /\ granted \in Seq(Nat)
    /\ latest \in 0 .. MaxTime
    /\ faults \in 0 .. MaxFaults
    /\ spoilt \subseteq Mishaps

StartsIn(from) == {i \in DOMAIN granted : granted[i] \in from .. from + Window - 1}

(* From whichever process reserve() is called, no window holds more than rpm
   reservations (nim_rate_limit.py, module docstring). *)
WindowHolds == \A i \in DOMAIN granted : Cardinality(StartsIn(granted[i])) <= Limit

(* Every call of reserve() returns, also when other processes keep reserving
   and when a process dies holding the lock. *)
EveryCallReturns == \A p \in Procs : pc[p] = "opening" ~> pc[p] = "idle"

-----------------------------------------------------------------------------
(* Until the first mishap the protocol of any number of processes implements the
   ledger, step by step: the ledger's clock is the time the file was last pruned
   with, its slots are the list being written from the truncate to the flush. *)
Writers == {p \in Procs : pc[p] \in {"truncated", "unlocked"}}

Ledger == INSTANCE NimLedger
    WITH clock <- latest,
         slots <- IF Writers = {} THEN file ELSE buf[CHOOSE p \in Writers : TRUE]

ImplementsLedgerUntilMishap ==
    /\ []TypeOK
    /\ Ledger!Init /\ [][spoilt' = {} => [Ledger!Next]_(Ledger!vars)]_vars
=============================================================================
