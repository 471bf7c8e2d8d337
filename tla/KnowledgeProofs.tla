---------------------------- MODULE KnowledgeProofs ----------------------------
(***************************************************************************)
(* What holds of the documents and of the graph built from them, for any   *)
(* files, any bounds and any number of processes: first of the merging of  *)
(* entities (EntityMerge), then of the passages, their embeddings and      *)
(* their chunks (KnowledgeBase).  Each part ends in the theorem that its   *)
(* inductive invariant carries.                                            *)
(***************************************************************************)
EXTENDS MCKnowledge, CollectionLemmas, SequenceTheorems, FiniteSetTheorems, TLAPS

(* The merging of entities. *)

Job == [pc : {"new", "judging", "reading out", "copying out", "copying in", "done"},
        pairs : SUBSET SUBSET Names, merged : SUBSET Names, count : Nat,
        keep : SUBSET Names, del : SUBSET Names, todo : SUBSET Merge!Edge]

Merging(job) == job.pc \in {"reading out", "copying out", "copying in"}

\* A session under way knows which two nodes it merges, and never merged one of them before.
JobOK(job) ==
    /\ IsFiniteSet(job.merged) /\ job.count = Cardinality(job.merged)
    /\ \A p \in job.pairs : IsFiniteSet(p) /\ Cardinality(p) = 2
    /\ ~Merging(job) => job.del = {}
    /\ Merging(job) => \E k, d \in Names \ job.merged : k # d /\ job.keep = {k} /\ job.del = {d}

MergeTypes ==
    /\ nodes \subseteq Names /\ IsFiniteSet(nodes)
    /\ edges \subseteq Merge!Edge /\ told \subseteq Merge!Edge /\ late \subseteq edges
    /\ overlapped \in BOOLEAN
    /\ \A e \in edges : {e[1], e[2]} \cap Names \subseteq nodes
    /\ sessions \in [Sessions -> Job]
    /\ \A s \in Sessions : JobOK(sessions[s])

\* What is left to do of a merge that runs alone: its nodes are there; what has been said of the
\* node to delete is on the list or has been copied, as has by now all that points to it.
AloneOK(job) ==
    /\ \A p \in Merge!Candidates(job) : p \subseteq nodes
    /\ job.pc \in {"judging", "reading out"} => late = {}
    /\ Merging(job) => \A k \in job.keep, d \in job.del :
          /\ k \in nodes /\ d \in nodes
          /\ job.pc = "copying out" =>
                /\ \A e \in job.todo : e \in edges /\ e[1] = d
                /\ \A e \in late : e[1] = d
                /\ \A e \in told \ late : e[1] = d => e \in job.todo \/ <<k, e[2]>> \in edges \ late
          /\ job.pc = "copying in" =>
                /\ \A e \in job.todo : e \in edges /\ e[2] = d
                /\ \A e \in told \ late : e[1] = d => <<k, e[2]>> \in edges \ late
                /\ \A e \in edges \ late : e[2] = d /\ e[1] \in Names => e \in job.todo \/ <<e[1], k>> \in edges

Alone == /\ \A s, r \in Merge!Busy : s = r
         /\ Merge!Busy = {} => late = {}
         /\ \A s \in Merge!Busy : AloneOK(sessions[s])
         /\ Merge!Entities(told) \subseteq edges

MergeInv == MergeTypes /\ (~overlapped => Alone)

\* Cardinality is the same operator in the instance.
LEMMA SameCardinality ==
  ASSUME NEW S
  PROVE  Merge!Cardinality(S) = Cardinality(S)
BY DEF Merge!Cardinality, Cardinality

\* What Set does.
LEMMA SetIs ==
  ASSUME sessions \in [Sessions -> Job], NEW s \in Sessions, NEW job \in Job, Merge!Set(s, job)
  PROVE  /\ sessions' \in [Sessions -> Job]
         /\ \A r \in Sessions : sessions'[r] = IF r = s THEN job ELSE sessions[r]
BY DEF Merge!Set

\* The nodes of a merge are what its session says.
LEMMA KeepDel ==
  ASSUME NEW s \in Sessions, sessions \in [Sessions -> Job], JobOK(sessions[s]), Merging(sessions[s])
  PROVE  /\ Merge!Keep(s) \in Names \ sessions[s].merged /\ Merge!Del(s) \in Names \ sessions[s].merged
         /\ Merge!Keep(s) # Merge!Del(s)
         /\ sessions[s].keep = {Merge!Keep(s)} /\ sessions[s].del = {Merge!Del(s)}
<1>1. PICK k \in Names \ sessions[s].merged, d \in Names \ sessions[s].merged :
         k # d /\ sessions[s].keep = {k} /\ sessions[s].del = {d}
  BY DEF JobOK
<1>2. Merge!Keep(s) = k /\ Merge!Del(s) = d
  BY <1>1 DEF Merge!Keep, Merge!Del
<1> QED BY <1>1, <1>2

\* The two nodes of a pair.
LEMMA PairIs ==
  ASSUME NEW p, IsFiniteSet(p), Cardinality(p) = 2, NEW k \in p
  PROVE  \E d : d # k /\ p \ {k} = {d} /\ p = {k, d}
<1>1. IsFiniteSet(p \ {k}) /\ Cardinality(p \ {k}) = 2 - 1
  BY FS_RemoveElement
<1>2. Cardinality(p \ {k}) = 1
  BY <1>1
<1>3. \E d : p \ {k} = {d}
  BY <1>1, <1>2, FS_Singleton
<1> QED BY <1>3

\* Whatever a session does next, it does with a job of its own kind.
LEMMA FetchStep ==
  ASSUME MergeTypes, NEW s \in Sessions, Merge!Fetch(s)
  PROVE  \E job \in Job :
            /\ Merge!Set(s, job) /\ JobOK(job) /\ job.pc = "judging"
            /\ job.merged = {} /\ \A p \in job.pairs : p \subseteq nodes
<1> DEFINE pairs == {p \in SUBSET nodes : Merge!Cardinality(p) = 2}
           new == Merge!Waiting
           job == [new EXCEPT !.pc = "judging", !.pairs = pairs]
<1>1. Merge!Set(s, job)
  BY DEF Merge!Fetch
<1>2. \A p \in pairs : p \subseteq nodes /\ IsFiniteSet(p) /\ Cardinality(p) = 2
  BY SameCardinality, FS_Subset DEF MergeTypes
<1>3. pairs \in SUBSET SUBSET Names
  BY DEF MergeTypes
<1>4. new \in Job /\ new.merged = {} /\ new.count = 0 /\ new.del = {}
  BY DEF Merge!Waiting, Job
<1> HIDE DEF pairs, new
<1>5. /\ job \in Job /\ job.pc = "judging" /\ job.pairs = pairs /\ job.merged = {} /\ job.count = 0
      /\ job.del = {}
  BY <1>3, <1>4 DEF Job
<1> HIDE DEF job
<1>6. JobOK(job)
  BY <1>2, <1>5, FS_EmptySet DEF JobOK, Merging
<1> QED BY <1>1, <1>2, <1>5, <1>6

\* See FetchStep.
LEMMA JudgeStep ==
  ASSUME MergeTypes, NEW s \in Sessions, Merge!Judge(s)
  PROVE  \E job \in Job :
            /\ Merge!Set(s, job) /\ JobOK(job) /\ job.pc = "reading out" /\ job.merged = sessions[s].merged
            /\ Merge!Candidates(job) \subseteq Merge!Candidates(sessions[s])
            /\ \E p \in Merge!Candidates(sessions[s]) : p = job.keep \cup job.del
<1> DEFINE old == sessions[s]
<1>0. old \in Job /\ JobOK(old) /\ old.pc = "judging"
  BY DEF MergeTypes, Merge!Judge
<1>a. PICK pair \in Merge!Candidates(old) : \E k \in pair :
         Merge!Set(s, [old EXCEPT !.pc = "reading out", !.pairs = @ \ {pair},
                                  !.keep = {k}, !.del = pair \ {k}])
  BY DEF Merge!Judge
<1>1. PICK k \in pair :
         Merge!Set(s, [old EXCEPT !.pc = "reading out", !.pairs = @ \ {pair},
                                  !.keep = {k}, !.del = pair \ {k}])
  BY <1>a
<1> DEFINE job == [old EXCEPT !.pc = "reading out", !.pairs = @ \ {pair}, !.keep = {k}, !.del = pair \ {k}]
<1>2. pair \in old.pairs /\ pair \cap old.merged = {} /\ pair \subseteq Names
  <2>1. pair \in old.pairs /\ pair \cap old.merged = {}
    BY DEF Merge!Candidates
  <2>2. old.pairs \subseteq SUBSET Names
    BY <1>0 DEF Job
  <2> QED BY <2>1, <2>2
<1>3. PICK d : d # k /\ pair \ {k} = {d} /\ pair = {k, d}
  <2>1. IsFiniteSet(pair) /\ Cardinality(pair) = 2
    BY <1>0, <1>2 DEF JobOK
  <2> QED BY <2>1, PairIs
<1>4. k \in Names \ old.merged /\ d \in Names \ old.merged
  BY <1>2, <1>3
<1>5. /\ job \in Job /\ job.pc = "reading out" /\ job.merged = old.merged /\ job.count = old.count
      /\ job.pairs = old.pairs \ {pair} /\ job.keep = {k} /\ job.del = {d}
  BY <1>0, <1>3, <1>4 DEF Job
<1>6. Merge!Set(s, job)
  BY <1>1
<1> HIDE DEF job, old
<1>7. JobOK(job)
  BY <1>0, <1>3, <1>4, <1>5 DEF JobOK, Merging
<1>8. Merge!Candidates(job) \subseteq Merge!Candidates(old)
  BY <1>5 DEF Merge!Candidates
<1>9. pair = job.keep \cup job.del
  BY <1>3, <1>5
<1> QED BY <1>1, <1>5, <1>6, <1>7, <1>8, <1>9 DEF old

\* A merge that goes on stays a merge of the same nodes.
LEMMA SameMerge ==
  ASSUME NEW old \in Job, JobOK(old), NEW job \in Job, Merging(old), Merging(job),
         job.pairs = old.pairs, job.merged = old.merged, job.count = old.count,
         job.keep = old.keep, job.del = old.del
  PROVE  JobOK(job) /\ Merge!Candidates(job) = Merge!Candidates(old)
BY DEF JobOK, Merge!Candidates

\* See FetchStep.
LEMMA DeleteStep ==
  ASSUME MergeTypes, NEW s \in Sessions, Merge!Delete(s)
  PROVE  \E job \in Job :
            /\ Merge!Set(s, job) /\ JobOK(job) /\ job.pc = "judging" /\ job.pairs = sessions[s].pairs
            /\ job.merged = sessions[s].merged \cup {Merge!Del(s)}
<1> DEFINE old == sessions[s]
           d == Merge!Del(s)
           n == old.count + 1
           m == old.merged \cup {d}
           job == [old EXCEPT !.pc = "judging", !.count = n, !.merged = m, !.keep = {}, !.del = {}]
<1>0. old \in Job /\ JobOK(old)
  BY DEF MergeTypes
<1>1. Merge!Set(s, job) /\ old.pc = "copying in"
  BY DEF Merge!Delete
<1>2. d \in Names \ old.merged
  BY <1>0, <1>1, KeepDel DEF Merging, MergeTypes
<1> HIDE DEF d
<1>a. n \in Nat /\ m \in SUBSET Names
  <2>1. old.count \in Nat /\ old.merged \in SUBSET Names
    BY <1>0 DEF Job
  <2> HIDE DEF old
  <2> QED BY <2>1, <1>2
<1> HIDE DEF n, m
<1>3. /\ job \in Job /\ job.pc = "judging" /\ job.pairs = old.pairs /\ job.merged = m
      /\ job.count = n /\ job.del = {}
  BY <1>0, <1>a DEF Job
<1> HIDE DEF job, old
<1>4. IsFiniteSet(job.merged) /\ Cardinality(job.merged) = Cardinality(old.merged) + 1
  BY <1>0, <1>2, <1>3, FS_AddElement DEF JobOK, m
<1>5. JobOK(job)
  BY <1>0, <1>3, <1>4 DEF JobOK, Merging, n
<1> QED BY <1>1, <1>3, <1>5 DEF d, old, m

\* See FetchStep.
LEMMA FailStep ==
  ASSUME MergeTypes, NEW s \in Sessions, Merge!Fail(s)
  PROVE  /\ Merging(sessions[s])
         /\ \E job \in Job :
               /\ Merge!Set(s, job) /\ JobOK(job) /\ job.pc = "judging" /\ job.pairs = sessions[s].pairs
               /\ job.merged = sessions[s].merged
<1> DEFINE old == sessions[s]
           job == [old EXCEPT !.pc = "judging", !.keep = {}, !.del = {}, !.todo = {}]
<1>0. old \in Job /\ JobOK(old)
  BY DEF MergeTypes
<1>1. Merge!Set(s, job) /\ old.del # {}
  BY DEF Merge!Fail
<1>2. Merging(old)
  BY <1>0, <1>1 DEF JobOK
<1>3. /\ job \in Job /\ job.pc = "judging" /\ job.pairs = old.pairs /\ job.merged = old.merged
      /\ job.count = old.count /\ job.del = {}
  BY <1>0 DEF Job
<1> HIDE DEF job, old
<1>4. JobOK(job)
  BY <1>0, <1>3 DEF JobOK, Merging
<1> QED BY <1>1, <1>2, <1>3, <1>4 DEF old

\* See FetchStep.
LEMMA EndStep ==
  ASSUME MergeTypes, NEW s \in Sessions, Merge!End(s)
  PROVE  \E job \in Job : Merge!Set(s, job) /\ JobOK(job) /\ job.pc = "done"
<1> DEFINE old == sessions[s]
           job == [old EXCEPT !.pc = "done", !.pairs = {}]
<1>0. old \in Job /\ JobOK(old) /\ old.pc = "judging"
  BY DEF MergeTypes, Merge!End
<1>1. Merge!Set(s, job)
  BY DEF Merge!End
<1>3. /\ job \in Job /\ job.pc = "done" /\ job.pairs = {} /\ job.merged = old.merged
      /\ job.count = old.count /\ job.del = old.del
  BY <1>0 DEF Job
<1> HIDE DEF job, old
<1>4. JobOK(job)
  BY <1>0, <1>3 DEF JobOK, Merging
<1> QED BY <1>1, <1>3, <1>4

\* Of sessions that do not overlap only the one that acts has to be looked at.
LEMMA OneSession ==
  ASSUME MergeInv, NEW s \in Merge!Busy, NEW job \in Job, Merge!Set(s, job), JobOK(job),
         overlapped' = overlapped,
         nodes' \subseteq Names, IsFiniteSet(nodes'), edges' \subseteq Merge!Edge, told' \subseteq Merge!Edge,
         late' \subseteq edges', \A e \in edges' : {e[1], e[2]} \cap Names \subseteq nodes',
         Alone => /\ Merge!Entities(told)' \subseteq edges'
                  /\ job.pc \in {"new", "done"} => late' = {}
                  /\ job.pc \notin {"new", "done"} => AloneOK(job)'
  PROVE  MergeInv'
<1>1. /\ s \in Sessions /\ sessions \in [Sessions -> Job] /\ sessions[s].pc \notin {"new", "done"}
      /\ \A r \in Sessions : JobOK(sessions[r])
  BY DEF MergeInv, MergeTypes, Merge!Busy
<1>2. /\ sessions' \in [Sessions -> Job]
      /\ \A r \in Sessions : sessions'[r] = IF r = s THEN job ELSE sessions[r]
  BY <1>1, SetIs
<1>3. \A r \in Sessions : JobOK(sessions'[r])
  BY <1>1, <1>2
<1>4. MergeTypes'
  BY <1>2, <1>3 DEF MergeTypes, MergeInv
<1>5. ASSUME ~overlapped' PROVE Alone'
  <2>1. Alone
    BY <1>5 DEF MergeInv
  <2>2. \A r \in Sessions \ {s} : sessions[r].pc \in {"new", "done"}
    BY <2>1, <1>1 DEF Alone, Merge!Busy
  <2>3. Merge!Busy' = IF job.pc \in {"new", "done"} THEN {} ELSE {s}
    BY <2>2, <1>1, <1>2 DEF Merge!Busy
  <2>4. Merge!Busy' = {} \/ (Merge!Busy' = {s} /\ job.pc \notin {"new", "done"})
    BY <2>3
  <2>5. sessions'[s] = job
    BY <1>1, <1>2
  <2>6. CASE Merge!Busy' = {}
    BY <2>1, <2>3, <2>6 DEF Alone
  <2>7. CASE Merge!Busy' = {s} /\ job.pc \notin {"new", "done"}
    <3>1. AloneOK(sessions[s])'
      BY <2>1, <2>5, <2>7
    <3> QED BY <2>1, <2>7, <3>1 DEF Alone
  <2> QED BY <2>4, <2>6, <2>7
<1> QED BY <1>4, <1>5 DEF MergeInv

\* What the invariant says of a session under way.
LEMMA BusyIs ==
  ASSUME MergeInv, NEW s \in Merge!Busy
  PROVE  /\ s \in Sessions /\ sessions[s] \in Job /\ JobOK(sessions[s])
         /\ sessions[s].pc \in {"judging", "reading out", "copying out", "copying in"}
         /\ sessions \in [Sessions -> Job]
         /\ nodes \subseteq Names /\ IsFiniteSet(nodes)
         /\ edges \subseteq Merge!Edge /\ told \subseteq Merge!Edge /\ late \subseteq edges
         /\ \A e \in edges : {e[1], e[2]} \cap Names \subseteq nodes
<1>1. s \in Sessions /\ sessions[s] \in Job /\ sessions[s].pc \notin {"new", "done"}
  BY DEF MergeInv, MergeTypes, Merge!Busy
<1>2. sessions[s].pc \in {"judging", "reading out", "copying out", "copying in"}
  BY <1>1 DEF Job
<1> QED BY <1>1, <1>2 DEF MergeInv, MergeTypes

\* One case of MergeStep.
LEMMA JudgeKeeps ==
  ASSUME MergeInv, NEW s \in Sessions, Merge!Judge(s)
  PROVE  MergeInv'
<1>0. s \in Merge!Busy
  BY DEF Merge!Judge, Merge!Busy
<1>1. PICK job \in Job :
         /\ Merge!Set(s, job) /\ JobOK(job) /\ job.pc = "reading out" /\ job.merged = sessions[s].merged
         /\ Merge!Candidates(job) \subseteq Merge!Candidates(sessions[s])
         /\ \E p \in Merge!Candidates(sessions[s]) : p = job.keep \cup job.del
  BY JudgeStep DEF MergeInv
<1>2. UNCHANGED <<nodes, edges, told, late, overlapped>>
  BY DEF Merge!Judge, Merge!history
<1>3. ASSUME Alone PROVE AloneOK(job)' /\ Merge!Entities(told) \subseteq edges
  <2>1. AloneOK(sessions[s]) /\ sessions[s].pc = "judging"
    BY <1>0, <1>3 DEF Alone, Merge!Judge
  <2>2. late = {} /\ \A p \in Merge!Candidates(sessions[s]) : p \subseteq nodes
    BY <2>1 DEF AloneOK
  <2>3. \A k \in job.keep, d \in job.del : k \in nodes /\ d \in nodes
    BY <1>1, <2>2
  <2>4. Merge!Entities(told) \subseteq edges
    BY <1>3 DEF Alone
  <2> QED BY <1>1, <1>2, <2>2, <2>3, <2>4 DEF AloneOK
<1>4. Merge!Entities(told)' = Merge!Entities(told)
  BY <1>2 DEF Merge!Entities
<1> QED BY <1>0, <1>1, <1>2, <1>3, <1>4, BusyIs, OneSession

\* Session s goes on with the merge of d into k.
GoesOn(s, job, k, d) ==
    /\ k \in Names /\ d \in Names /\ k # d
    /\ k = Merge!Keep(s) /\ sessions[s].keep = {k} /\ job.keep = {k}
    /\ d = Merge!Del(s) /\ sessions[s].del = {d} /\ job.del = {d}
    /\ Merge!Candidates(job) = Merge!Candidates(sessions[s])
    /\ s \in Merge!Busy /\ Merging(sessions[s])
    /\ job \in Job /\ JobOK(job) /\ Merge!Set(s, job)

\* See FetchStep; the job is that of a merge of two nodes, the same as before.
LEMMA ReadStep ==
  ASSUME MergeInv, NEW s \in Sessions, Merge!ReadOut(s) \/ Merge!ReadIn(s)
  PROVE  \E job, k, d :
            /\ GoesOn(s, job, k, d)
            /\ \/ /\ Merge!ReadOut(s) /\ job.pc = "copying out"
                  /\ \A e : e \in job.todo <=> e \in edges /\ e[1] = d
               \/ /\ Merge!ReadIn(s) /\ job.pc = "copying in"
                  /\ \A e : e \in job.todo <=> e \in edges /\ e[2] = d
<1> DEFINE old == sessions[s]
<1>0. s \in Merge!Busy /\ Merging(old)
  BY DEF Merge!ReadOut, Merge!ReadIn, Merge!Busy, Merging
<1>1. /\ old \in Job /\ JobOK(old) /\ edges \subseteq Merge!Edge
      /\ \E k, d \in Names : k = Merge!Keep(s) /\ d = Merge!Del(s) /\ old.keep = {k} /\ old.del = {d} /\ k # d
  BY <1>0, BusyIs, KeepDel
<1>2. PICK k, d \in Names : k = Merge!Keep(s) /\ d = Merge!Del(s) /\ old.keep = {k} /\ old.del = {d} /\ k # d
  BY <1>1
<1>3. CASE Merge!ReadOut(s)
  <2> DEFINE todo == {e \in edges : e[1] = d}
             job == [old EXCEPT !.pc = "copying out", !.todo = todo]
  <2>1. Merge!Set(s, job)
    BY <1>3, <1>2 DEF Merge!ReadOut
  <2>2. todo \in SUBSET Merge!Edge
    BY <1>1
  <2> HIDE DEF old, todo
  <2>3. /\ job \in Job /\ job.pc = "copying out" /\ job.todo = todo /\ job.pairs = old.pairs
        /\ job.merged = old.merged /\ job.keep = old.keep /\ job.del = old.del /\ job.count = old.count
    BY <1>1, <2>2 DEF Job
  <2> HIDE DEF job
  <2>4. JobOK(job) /\ Merge!Candidates(job) = Merge!Candidates(old)
    BY <1>0, <1>1, <2>3, SameMerge DEF Merging
  <2>5. GoesOn(s, job, k, d)
    BY <1>0, <1>2, <2>1, <2>3, <2>4 DEF GoesOn, old
  <2>6. \A e : e \in job.todo <=> e \in edges /\ e[1] = d
    BY <2>3 DEF todo
  <2> WITNESS job, k, d
  <2> QED BY <1>3, <2>3, <2>5, <2>6
<1>4. CASE Merge!ReadIn(s)
  <2> DEFINE todo == {e \in edges : e[2] = d}
             job == [old EXCEPT !.pc = "copying in", !.todo = todo]
  <2>1. Merge!Set(s, job)
    BY <1>4, <1>2 DEF Merge!ReadIn
  <2>2. todo \in SUBSET Merge!Edge
    BY <1>1
  <2> HIDE DEF old, todo
  <2>3. /\ job \in Job /\ job.pc = "copying in" /\ job.todo = todo /\ job.pairs = old.pairs
        /\ job.merged = old.merged /\ job.keep = old.keep /\ job.del = old.del /\ job.count = old.count
    BY <1>1, <2>2 DEF Job
  <2> HIDE DEF job
  <2>4. JobOK(job) /\ Merge!Candidates(job) = Merge!Candidates(old)
    BY <1>0, <1>1, <2>3, SameMerge DEF Merging
  <2>5. GoesOn(s, job, k, d)
    BY <1>0, <1>2, <2>1, <2>3, <2>4 DEF GoesOn, old
  <2>6. \A e : e \in job.todo <=> e \in edges /\ e[2] = d
    BY <2>3 DEF todo
  <2> WITNESS job, k, d
  <2> QED BY <1>4, <2>3, <2>5, <2>6
<1> QED BY <1>3, <1>4

\* One case of MergeStep.
LEMMA ReadKeeps ==
  ASSUME MergeInv, NEW s \in Sessions, Merge!ReadOut(s) \/ Merge!ReadIn(s)
  PROVE  MergeInv'
<1>1. PICK job, k, d :
         /\ GoesOn(s, job, k, d)
         /\ \/ /\ Merge!ReadOut(s) /\ job.pc = "copying out"
               /\ \A e : e \in job.todo <=> e \in edges /\ e[1] = d
            \/ /\ Merge!ReadIn(s) /\ job.pc = "copying in"
               /\ \A e : e \in job.todo <=> e \in edges /\ e[2] = d
  BY ReadStep
<1>2. UNCHANGED <<nodes, edges, told, late, overlapped>>
  BY DEF Merge!ReadOut, Merge!ReadIn, Merge!history
<1>3. /\ s \in Merge!Busy /\ Merging(sessions[s]) /\ job \in Job /\ JobOK(job) /\ Merge!Set(s, job)
      /\ k \in Names /\ d \in Names /\ job.keep = {k} /\ job.del = {d} /\ sessions[s].keep = {k} /\ sessions[s].del = {d}
      /\ Merge!Candidates(job) = Merge!Candidates(sessions[s])
  BY <1>1 DEF GoesOn
<1>4. ASSUME Alone PROVE AloneOK(job)'
  <2>1. AloneOK(sessions[s]) /\ Merge!Entities(told) \subseteq edges
    BY <1>3, <1>4 DEF Alone
  <2>2. /\ k \in nodes /\ d \in nodes /\ \A p \in Merge!Candidates(job) : p \subseteq nodes
    BY <1>3, <2>1 DEF AloneOK
  <2>3. CASE Merge!ReadOut(s)
    <3>1. late = {} /\ job.pc = "copying out" /\ \A e : e \in job.todo <=> e \in edges /\ e[1] = d
      BY <1>1, <2>1, <2>3 DEF AloneOK, Merge!ReadOut, Merge!ReadIn
    <3>2. \A e \in told : e[1] = d => e \in edges
      BY <1>3, <2>1 DEF Merge!Entities
    <3> QED BY <1>2, <1>3, <2>2, <3>1, <3>2 DEF AloneOK
  <2>4. CASE Merge!ReadIn(s)
    <3>1. /\ job.pc = "copying in" /\ \A e : e \in job.todo <=> e \in edges /\ e[2] = d
          /\ sessions[s].pc = "copying out" /\ sessions[s].todo = {}
      BY <1>1, <2>4 DEF Merge!ReadOut, Merge!ReadIn
    <3>2. \A e \in told \ late : e[1] = d => <<k, e[2]>> \in edges \ late
      BY <1>3, <2>1, <3>1 DEF AloneOK
    <3> QED BY <1>2, <1>3, <2>2, <3>1, <3>2 DEF AloneOK
  <2> QED BY <1>1, <2>3, <2>4
<1>5. Merge!Entities(told)' = Merge!Entities(told)
  BY <1>2 DEF Merge!Entities
<1>6. job.pc \notin {"new", "done"} /\ (Alone => Merge!Entities(told) \subseteq edges)
  BY <1>1 DEF Alone
<1> QED BY <1>2, <1>3, <1>4, <1>5, <1>6, BusyIs, OneSession

\* See ReadStep.
LEMMA CopyStep ==
  ASSUME MergeInv, NEW s \in Sessions, Merge!CopyOut(s) \/ Merge!CopyIn(s)
  PROVE  \E job, k, d, e :
            /\ GoesOn(s, job, k, d)
            /\ e \in sessions[s].todo /\ job.todo = sessions[s].todo \ {e} /\ job.pc = sessions[s].pc
            /\ \/ job.pc = "copying out" /\ edges' = Merge!Merged(k, e[2])
               \/ job.pc = "copying in" /\ edges' = Merge!Merged(e[1], k)
<1> DEFINE old == sessions[s]
<1>0. s \in Merge!Busy /\ Merging(old) /\ old.pc \in {"copying out", "copying in"}
  BY DEF Merge!CopyOut, Merge!CopyIn, Merge!Busy, Merging
<1>1. /\ old \in Job /\ JobOK(old)
      /\ \E k, d \in Names : k = Merge!Keep(s) /\ d = Merge!Del(s) /\ old.keep = {k} /\ old.del = {d} /\ k # d
  BY <1>0, BusyIs, KeepDel
<1>2. PICK k, d \in Names : k = Merge!Keep(s) /\ d = Merge!Del(s) /\ old.keep = {k} /\ old.del = {d} /\ k # d
  BY <1>1
<1>3. PICK e \in old.todo : /\ Merge!Set(s, [old EXCEPT !.todo = @ \ {e}])
                            /\ \/ old.pc = "copying out" /\ edges' = Merge!Merged(k, e[2])
                               \/ old.pc = "copying in" /\ edges' = Merge!Merged(e[1], k)
  BY <1>2 DEF Merge!CopyOut, Merge!CopyIn
<1> DEFINE job == [old EXCEPT !.todo = @ \ {e}]
<1>4. Merge!Set(s, job)
  BY <1>3
<1> HIDE DEF old
<1>5. /\ job \in Job /\ job.pc = old.pc /\ job.todo = old.todo \ {e} /\ job.pairs = old.pairs
      /\ job.merged = old.merged /\ job.keep = old.keep /\ job.del = old.del /\ job.count = old.count
  BY <1>1 DEF Job
<1> HIDE DEF job
<1>6. JobOK(job) /\ Merge!Candidates(job) = Merge!Candidates(old)
  BY <1>0, <1>1, <1>5, SameMerge DEF Merging
<1>7. GoesOn(s, job, k, d)
  BY <1>0, <1>2, <1>4, <1>5, <1>6 DEF GoesOn, old
<1> WITNESS job, k, d, e
<1> QED BY <1>3, <1>5, <1>7 DEF old

\* One case of MergeStep.
LEMMA CopyKeeps ==
  ASSUME MergeInv, NEW s \in Sessions, Merge!CopyOut(s) \/ Merge!CopyIn(s)
  PROVE  MergeInv'
<1>1. PICK job, k, d, e :
         /\ GoesOn(s, job, k, d)
         /\ e \in sessions[s].todo /\ job.todo = sessions[s].todo \ {e} /\ job.pc = sessions[s].pc
         /\ \/ job.pc = "copying out" /\ edges' = Merge!Merged(k, e[2])
            \/ job.pc = "copying in" /\ edges' = Merge!Merged(e[1], k)
  BY CopyStep
<1>2. UNCHANGED <<nodes, told, late, overlapped>>
  BY DEF Merge!CopyOut, Merge!CopyIn, Merge!history
<1>3. /\ s \in Merge!Busy /\ Merging(sessions[s]) /\ job \in Job /\ JobOK(job) /\ Merge!Set(s, job)
      /\ k \in Names /\ d \in Names /\ k # d /\ job.keep = {k} /\ job.del = {d}
      /\ sessions[s].keep = {k} /\ sessions[s].del = {d}
      /\ Merge!Candidates(job) = Merge!Candidates(sessions[s])
  BY <1>1 DEF GoesOn
<1>4. e \in Merge!Edge /\ sessions[s].todo \subseteq Merge!Edge
  BY <1>1, <1>3, BusyIs DEF Job
<1>5. PICK x, y :
         /\ x \in Names \cup Chunks /\ y \in Names
         /\ {x, y} \subseteq nodes => edges' = edges \cup {<<x, y>>}
         /\ {x, y} \subseteq nodes \/ edges' = edges
         /\ job.pc = "copying out" => (x = k /\ y = e[2])
         /\ job.pc = "copying in" => (x = e[1] /\ y = k)
  <2>1. e[1] \in Names \cup Chunks /\ e[2] \in Names
    BY <1>4 DEF Merge!Edge
  <2>2. CASE job.pc = "copying out"
    <3> WITNESS k, e[2]
    <3> QED BY <1>1, <1>3, <2>1, <2>2 DEF Merge!Merged
  <2>3. CASE job.pc = "copying in"
    <3> WITNESS e[1], k
    <3> QED BY <1>1, <1>3, <2>1, <2>3 DEF Merge!Merged
  <2> QED BY <1>1, <2>2, <2>3
<1>5a. /\ edges \subseteq edges' /\ \A f \in edges' : f \in edges \/ (f[1] = x /\ f[2] = y /\ f = <<x, y>> /\ {x, y} \subseteq nodes)
  <2>1. <<x, y>>[1] = x /\ <<x, y>>[2] = y
    OBVIOUS
  <2>2. CASE {x, y} \subseteq nodes
    BY <1>5, <2>1, <2>2
  <2>3. CASE ~({x, y} \subseteq nodes)
    BY <1>5, <2>3
  <2> QED BY <2>2, <2>3
<1>6. /\ edges \subseteq edges' /\ edges' \subseteq Merge!Edge /\ late \subseteq edges'
      /\ \A f \in edges' : {f[1], f[2]} \cap Names \subseteq nodes
  <2>1. <<x, y>> \in Merge!Edge
    BY <1>5 DEF Merge!Edge
  <2>2. \A f \in edges' : f \in Merge!Edge
    BY <1>3, <1>5a, <2>1, BusyIs
  <2>3. \A f \in edges' : {f[1], f[2]} \cap Names \subseteq nodes
    BY <1>3, <1>5a, BusyIs
  <2>4. late \subseteq edges'
    BY <1>3, <1>5a, BusyIs
  <2> QED BY <1>5a, <2>2, <2>3, <2>4
<1>7. ASSUME Alone PROVE AloneOK(job)'
  <2>1. AloneOK(sessions[s])
    BY <1>3, <1>7 DEF Alone
  <2>2. /\ k \in nodes /\ d \in nodes /\ \A p \in Merge!Candidates(job) : p \subseteq nodes
    BY <1>3, <2>1 DEF AloneOK
  <2>3. CASE job.pc = "copying out"
    <3>1. /\ \A f \in sessions[s].todo : f \in edges /\ f[1] = d
          /\ \A f \in late : f[1] = d
          /\ \A f \in told \ late : f[1] = d => f \in sessions[s].todo \/ <<k, f[2]>> \in edges \ late
      BY <1>1, <1>3, <2>1, <2>3 DEF AloneOK
    <3>2. e[2] \in nodes
      BY <1>1, <1>4, <3>1, <1>3, BusyIs DEF Merge!Edge
    <3>3. <<k, e[2]>> \in edges' \ late
      BY <1>3, <1>5, <2>2, <2>3, <3>1, <3>2
    <3>4. \A f \in told \ late : f[1] = d => f \in job.todo \/ <<k, f[2]>> \in edges' \ late
      BY <1>1, <1>6, <3>1, <3>3
    <3>5. \A f \in job.todo : f \in edges' /\ f[1] = d
      BY <1>1, <1>6, <3>1
    <3> QED BY <1>2, <1>3, <2>2, <2>3, <3>1, <3>4, <3>5 DEF AloneOK
  <2>4. CASE job.pc = "copying in"
    <3>1. /\ \A f \in sessions[s].todo : f \in edges /\ f[2] = d
          /\ \A f \in told \ late : f[1] = d => <<k, f[2]>> \in edges \ late
          /\ \A f \in edges \ late : f[2] = d /\ f[1] \in Names => f \in sessions[s].todo \/ <<f[1], k>> \in edges
      BY <1>1, <1>3, <2>1, <2>4 DEF AloneOK
    <3>2. e[1] \in Names => <<e[1], k>> \in edges'
      <4>1. e[1] \in Names => e[1] \in nodes
        BY <1>1, <1>3, <3>1, BusyIs
      <4> QED BY <1>5, <2>2, <2>4, <4>1
    <3>3. \A f \in edges' \ late : f[2] = d => f \in edges
      BY <1>3, <1>5, <1>5a, <2>4
    <3>4. \A f \in edges' \ late : f[2] = d /\ f[1] \in Names => f \in job.todo \/ <<f[1], k>> \in edges'
      BY <1>1, <1>6, <3>1, <3>2, <3>3
    <3>5. \A f \in job.todo : f \in edges' /\ f[2] = d
      BY <1>1, <1>6, <3>1
    <3>6. \A f \in told \ late : f[1] = d => <<k, f[2]>> \in edges' \ late
      BY <1>6, <3>1
    <3> QED BY <1>2, <1>3, <2>2, <2>4, <3>4, <3>5, <3>6 DEF AloneOK
  <2> QED BY <1>1, <2>3, <2>4
<1>8. job.pc \notin {"new", "done"} /\ (Alone => Merge!Entities(told) \subseteq edges)
  BY <1>1 DEF Alone
<1>9. Merge!Entities(told)' = Merge!Entities(told)
  BY <1>2 DEF Merge!Entities
<1>10. Alone => Merge!Entities(told)' \subseteq edges'
  BY <1>6, <1>8, <1>9
<1> QED BY <1>2, <1>3, <1>6, <1>7, <1>8, <1>10, BusyIs, OneSession

\* One case of MergeStep.
LEMMA FailKeeps ==
  ASSUME MergeInv, NEW s \in Sessions, Merge!Fail(s)
  PROVE  MergeInv'
<1>1. /\ Merging(sessions[s])
      /\ \E job \in Job :
            /\ Merge!Set(s, job) /\ JobOK(job) /\ job.pc = "judging" /\ job.pairs = sessions[s].pairs
            /\ job.merged = sessions[s].merged
  BY FailStep DEF MergeInv
<1>2. PICK job \in Job :
         /\ Merge!Set(s, job) /\ JobOK(job) /\ job.pc = "judging" /\ job.pairs = sessions[s].pairs
         /\ job.merged = sessions[s].merged
  BY <1>1
<1>3. s \in Merge!Busy
  BY <1>1 DEF Merging, Merge!Busy
<1>4. UNCHANGED <<nodes, edges, told, overlapped>> /\ late' = {}
  BY DEF Merge!Fail
<1>5. Alone => AloneOK(job)' /\ Merge!Entities(told) \subseteq edges
  <2>1. Alone => AloneOK(sessions[s]) /\ Merge!Entities(told) \subseteq edges
    BY <1>3 DEF Alone
  <2>2. Merge!Candidates(job) = Merge!Candidates(sessions[s])
    BY <1>2 DEF Merge!Candidates
  <2> QED BY <1>2, <1>4, <2>1, <2>2 DEF AloneOK, Merging
<1>6. Merge!Entities(told)' = Merge!Entities(told)
  BY <1>4 DEF Merge!Entities
<1> QED BY <1>2, <1>3, <1>4, <1>5, <1>6, BusyIs, OneSession

\* One case of MergeStep.
LEMMA EndKeeps ==
  ASSUME MergeInv, NEW s \in Sessions, Merge!End(s)
  PROVE  MergeInv'
<1>1. PICK job \in Job : Merge!Set(s, job) /\ JobOK(job) /\ job.pc = "done"
  BY EndStep DEF MergeInv
<1>2. s \in Merge!Busy /\ sessions[s].pc = "judging"
  BY DEF Merge!End, Merge!Busy
<1>3. UNCHANGED <<nodes, edges, told, late, overlapped>>
  BY DEF Merge!End, Merge!history
<1>4. Alone => late = {} /\ Merge!Entities(told) \subseteq edges
  BY <1>2 DEF Alone, AloneOK
<1>5. Merge!Entities(told)' = Merge!Entities(told)
  BY <1>3 DEF Merge!Entities
<1> QED BY <1>1, <1>2, <1>3, <1>4, <1>5, BusyIs, OneSession

\* Whether an edge comes too late for the only session that is under way.
LEMMA LateForOne ==
  ASSUME MergeTypes, Alone, NEW e, NEW s \in Merge!Busy,
         \E r \in Sessions : Merge!LateFor(r, e)
  PROVE  Merge!LateFor(s, e)
<1>1. PICK r \in Sessions : Merge!LateFor(r, e)
  OBVIOUS
<1>2. r \in Merge!Busy
  BY <1>1 DEF Merge!LateFor, Merge!Busy
<1> QED BY <1>1, <1>2 DEF Alone

\* One case of MergeStep.
LEMMA AddFactKeeps ==
  ASSUME MergeInv, NEW e \in Merge!Edge, Merge!AddFact(e)
  PROVE  MergeInv'
<1>1. /\ e \notin edges /\ nodes' = nodes \cup ({e[1], e[2]} \cap Names) /\ edges' = edges \cup {e}
      /\ told' = told \cup {e} /\ sessions' = sessions /\ overlapped' = overlapped
      /\ late' = IF \E s \in Sessions : Merge!LateFor(s, e) THEN late \cup {e} ELSE late
  BY DEF Merge!AddFact
<1>2. MergeTypes'
  <2>1. IsFiniteSet(nodes')
    <3>0. {e[1]} = {} \cup {e[1]} /\ {e[1], e[2]} = {e[1]} \cup {e[2]}
      OBVIOUS
    <3>1. IsFiniteSet({e[1], e[2]})
      <4>1. IsFiniteSet({e[1]})
        BY <3>0, FS_EmptySet, FS_AddElement
      <4> QED BY <3>0, <4>1, FS_AddElement
    <3>2. IsFiniteSet({e[1], e[2]} \cap Names)
      BY <3>1, FS_Intersection
    <3> QED BY <1>1, <3>2, FS_Union DEF MergeInv, MergeTypes
  <2>2. \A f \in edges' : {f[1], f[2]} \cap Names \subseteq nodes'
    BY <1>1 DEF MergeInv, MergeTypes
  <2>3. \A s \in Sessions : JobOK(sessions'[s])
    BY <1>1 DEF MergeInv, MergeTypes
  <2>4. late' \subseteq edges' /\ edges' \subseteq Merge!Edge /\ told' \subseteq Merge!Edge /\ nodes' \subseteq Names
    BY <1>1 DEF MergeInv, MergeTypes
  <2> QED BY <1>1, <2>1, <2>2, <2>3, <2>4 DEF MergeInv, MergeTypes
<1>3. ASSUME ~overlapped' PROVE Alone'
  <2>1. Alone /\ MergeTypes
    BY <1>1, <1>3 DEF MergeInv
  <2>2. Merge!Busy' = Merge!Busy
    BY <1>1 DEF Merge!Busy
  <2>3. Merge!Entities(told)' \subseteq edges'
    BY <1>1, <2>1 DEF Alone, Merge!Entities
  <2>4. Merge!Busy = {} => late' = {}
    <3>1. ASSUME NEW r \in Sessions, Merge!LateFor(r, e) PROVE r \in Merge!Busy
      BY <3>1 DEF Merge!LateFor, Merge!Busy
    <3> QED BY <1>1, <2>1, <3>1 DEF Alone
  <2>5. ASSUME NEW s \in Merge!Busy PROVE AloneOK(sessions[s])'
    <3> DEFINE old == sessions[s]
    <3>1. s \in Sessions /\ old \in Job /\ JobOK(old) /\ AloneOK(old) /\ late \subseteq edges
      BY <2>1, <2>5, BusyIs DEF MergeInv, Alone
    <3>2. PICK job : job = old
      OBVIOUS
    <3>3. job \in Job /\ JobOK(job) /\ AloneOK(job)
      BY <3>1, <3>2
    <3>4. late' = IF Merge!LateFor(s, e) THEN late \cup {e} ELSE late
      BY <1>1, <2>1, <2>5, <3>1, LateForOne
    <3>5. \A p \in Merge!Candidates(job) : p \subseteq nodes'
      BY <1>1, <3>3 DEF AloneOK
    <3>6. job.pc \in {"judging", "reading out"} => late' = {}
      BY <3>2, <3>3, <3>4 DEF AloneOK, Merge!LateFor
    <3>7. ASSUME Merging(job), NEW k \in job.keep, NEW d \in job.del
          PROVE  /\ k \in nodes' /\ d \in nodes'
                 /\ job.pc = "copying out" =>
                       /\ \A f \in job.todo : f \in edges' /\ f[1] = d
                       /\ \A f \in late' : f[1] = d
                       /\ \A f \in told' \ late' : f[1] = d => f \in job.todo \/ <<k, f[2]>> \in edges' \ late'
                 /\ job.pc = "copying in" =>
                       /\ \A f \in job.todo : f \in edges' /\ f[2] = d
                       /\ \A f \in told' \ late' : f[1] = d => <<k, f[2]>> \in edges' \ late'
                       /\ \A f \in edges' \ late' :
                             f[2] = d /\ f[1] \in Names => f \in job.todo \/ <<f[1], k>> \in edges'
      <4>1. d = Merge!Del(s) /\ k = Merge!Keep(s) /\ k # d
        BY <3>1, <3>2, <3>7, <2>1, KeepDel DEF MergeTypes
      <4>2. k \in nodes' /\ d \in nodes'
        BY <1>1, <3>3, <3>7 DEF AloneOK
      <4>3. CASE job.pc = "copying out"
        <5>1. Merge!LateFor(s, e) <=> e[1] = d
          BY <3>2, <4>1, <4>3 DEF Merge!LateFor
        <5>2. /\ \A f \in job.todo : f \in edges /\ f[1] = d
              /\ \A f \in late : f[1] = d
              /\ \A f \in told \ late : f[1] = d => f \in job.todo \/ <<k, f[2]>> \in edges \ late
          BY <3>3, <3>7, <4>3 DEF AloneOK
        <5>3. \A f \in told' \ late' : f[1] = d => f \in told \ late
          BY <1>1, <3>4, <5>1
        <5>4. \A f \in edges \ late : f \in edges' \ late'
          BY <1>1, <3>4
        <5>5. \A f \in late' : f[1] = d
          BY <3>4, <5>1, <5>2
        <5> QED BY <1>1, <4>2, <4>3, <5>2, <5>3, <5>4, <5>5
      <4>4. CASE job.pc = "copying in"
        <5>1. Merge!LateFor(s, e) <=> e[1] = d \/ e[2] = d
          BY <3>2, <4>1, <4>4 DEF Merge!LateFor
        <5>2. /\ \A f \in job.todo : f \in edges /\ f[2] = d
              /\ \A f \in told \ late : f[1] = d => <<k, f[2]>> \in edges \ late
              /\ \A f \in edges \ late : f[2] = d /\ f[1] \in Names => f \in job.todo \/ <<f[1], k>> \in edges
          BY <3>3, <3>7, <4>4 DEF AloneOK
        <5>3. \A f \in told' \ late' : f[1] = d => f \in told \ late
          BY <1>1, <3>4, <5>1
        <5>4. \A f \in edges \ late : f \in edges' \ late'
          BY <1>1, <3>4
        <5>5. \A f \in edges' \ late' : f[2] = d => f \in edges \ late
          BY <1>1, <3>4, <5>1
        <5> QED BY <1>1, <4>2, <4>4, <5>2, <5>3, <5>4, <5>5
      <4> QED BY <3>7, <4>2, <4>3, <4>4 DEF Merging
    <3>8. AloneOK(job)'
      BY <3>5, <3>6, <3>7 DEF AloneOK
    <3> QED BY <1>1, <3>2, <3>8
  <2>6. \A s, r \in Merge!Busy : s = r
    BY <2>1 DEF Alone
  <2> QED BY <2>2, <2>3, <2>4, <2>5, <2>6 DEF Alone
<1> QED BY <1>2, <1>3 DEF MergeInv

\* One case of MergeStep.
LEMMA DeleteKeeps ==
  ASSUME MergeInv, NEW s \in Sessions, Merge!Delete(s)
  PROVE  MergeInv'
<1>1. PICK job \in Job :
         /\ Merge!Set(s, job) /\ JobOK(job) /\ job.pc = "judging" /\ job.pairs = sessions[s].pairs
         /\ job.merged = sessions[s].merged \cup {Merge!Del(s)}
  BY DeleteStep DEF MergeInv
<1>2. s \in Merge!Busy /\ Merging(sessions[s]) /\ sessions[s].pc = "copying in" /\ sessions[s].todo = {}
  BY DEF Merge!Delete, Merge!Busy, Merging
<1>3. PICK k, d \in Names : /\ k = Merge!Keep(s) /\ d = Merge!Del(s) /\ k # d
                            /\ sessions[s].keep = {k} /\ sessions[s].del = {d}
  BY <1>2, BusyIs, KeepDel
<1>4. /\ nodes' = nodes \ {d} /\ edges' = {e \in edges : d \notin {e[1], e[2]}}
      /\ late' = {} /\ overlapped' = overlapped
      /\ told' = {<<Merge!Renamed(e[1], s), Merge!Renamed(e[2], s)>> : e \in told \ late}
  BY <1>3 DEF Merge!Delete
<1>5. \A x : Merge!Renamed(x, s) = IF x = d THEN k ELSE x
  BY <1>3 DEF Merge!Renamed
<1>6. \A f \in told' : \E e \in told \ late : f = <<IF e[1] = d THEN k ELSE e[1], IF e[2] = d THEN k ELSE e[2]>>
  BY <1>4, <1>5
<1>7. told' \subseteq Merge!Edge
  <2>1. \A e \in told : e[1] \in Names \cup Chunks /\ e[2] \in Names
    BY <1>2, BusyIs DEF Merge!Edge
  <2> QED BY <1>3, <1>6, <2>1 DEF Merge!Edge
<1>8. /\ nodes' \subseteq Names /\ IsFiniteSet(nodes') /\ edges' \subseteq Merge!Edge /\ late' \subseteq edges'
      /\ \A e \in edges' : {e[1], e[2]} \cap Names \subseteq nodes'
  <2>1. IsFiniteSet(nodes')
    BY <1>2, <1>4, BusyIs, FS_Subset
  <2> QED BY <1>2, <1>4, <2>1, BusyIs
<1>9. ASSUME Alone PROVE AloneOK(job)' /\ Merge!Entities(told)' \subseteq edges'
  <2>1. AloneOK(sessions[s]) /\ Merge!Entities(told) \subseteq edges
    BY <1>2, <1>9 DEF Alone
  <2>2. /\ \A p \in Merge!Candidates(sessions[s]) : p \subseteq nodes
        /\ \A e \in told \ late : e[1] = d => <<k, e[2]>> \in edges \ late
        /\ \A e \in edges \ late : e[2] = d /\ e[1] \in Names => <<e[1], k>> \in edges
    BY <1>2, <1>3, <2>1 DEF AloneOK
  <2>3. \A p \in Merge!Candidates(job) : p \subseteq nodes'
    BY <1>1, <1>3, <1>4, <2>2 DEF Merge!Candidates
  <2>4. AloneOK(job)'
    BY <1>1, <1>4, <2>3 DEF AloneOK, Merging
  <2>5. ASSUME NEW f \in told', f[1] \in Names PROVE f \in edges'
    <3>1. PICK e \in told \ late : f = <<IF e[1] = d THEN k ELSE e[1], IF e[2] = d THEN k ELSE e[2]>>
      BY <1>6
    <3>2. /\ f[1] = (IF e[1] = d THEN k ELSE e[1]) /\ f[2] = (IF e[2] = d THEN k ELSE e[2])
          /\ e[1] \in Names /\ e[2] \in Names /\ e = <<e[1], e[2]>> /\ e \in edges
      <4>0. e \in Merge!Edge
        BY <1>2, BusyIs
      <4>1. e = <<e[1], e[2]>> /\ e[2] \in Names
        BY <4>0 DEF Merge!Edge
      <4>2. f[1] = (IF e[1] = d THEN k ELSE e[1]) /\ f[2] = (IF e[2] = d THEN k ELSE e[2])
        BY <3>1
      <4>3. e[1] \in Names
        BY <1>3, <2>5, <4>2
      <4> QED BY <2>1, <4>1, <4>2, <4>3 DEF Merge!Entities
    <3>3. f \in edges
      <4>1. CASE e[1] = d
        <5>1. <<k, e[2]>> \in edges \ late
          BY <2>2, <4>1
        <5>2. CASE e[2] = d
          <6>1. <<k, d>>[1] = k /\ <<k, d>>[2] = d
            OBVIOUS
          <6>2. <<k, k>> \in edges
            BY <1>3, <2>2, <5>1, <5>2, <6>1
          <6> QED BY <3>1, <4>1, <5>2, <6>2
        <5>3. CASE e[2] # d
          BY <3>1, <4>1, <5>1, <5>3
        <5> QED BY <5>2, <5>3
      <4>2. CASE e[1] # d /\ e[2] = d
        BY <2>2, <3>1, <3>2, <4>2
      <4>3. CASE e[1] # d /\ e[2] # d
        BY <3>1, <3>2, <4>3
      <4> QED BY <4>1, <4>2, <4>3
    <3> QED BY <1>3, <1>4, <3>2, <3>3
  <2> QED BY <2>4, <2>5 DEF Merge!Entities
<1>10. job.pc \notin {"new", "done"}
  BY <1>1
<1> QED BY <1>1, <1>2, <1>4, <1>7, <1>8, <1>9, <1>10, OneSession

\* One case of MergeStep.
LEMMA FetchKeeps ==
  ASSUME MergeInv, NEW s \in Sessions, Merge!Fetch(s)
  PROVE  MergeInv'
<1>1. PICK job \in Job :
         /\ Merge!Set(s, job) /\ JobOK(job) /\ job.pc = "judging"
         /\ job.merged = {} /\ \A p \in job.pairs : p \subseteq nodes
  BY FetchStep DEF MergeInv
<1>2. /\ UNCHANGED <<nodes, edges, told, late>> /\ overlapped' = (overlapped \/ Merge!Busy # {})
      /\ sessions[s].pc = "new"
  BY DEF Merge!Fetch
<1>3. /\ sessions' \in [Sessions -> Job]
      /\ \A r \in Sessions : sessions'[r] = IF r = s THEN job ELSE sessions[r]
  BY <1>1, SetIs DEF MergeInv, MergeTypes
<1>4. MergeTypes'
  <2>1. \A r \in Sessions : JobOK(sessions'[r])
    BY <1>1, <1>3 DEF MergeInv, MergeTypes
  <2>2. overlapped' \in BOOLEAN
    BY <1>2
  <2> QED BY <1>2, <1>3, <2>1, <2>2 DEF MergeInv, MergeTypes
<1>5. ASSUME ~overlapped' PROVE Alone'
  <2>1. ~overlapped /\ Merge!Busy = {}
    BY <1>2, <1>5
  <2>2. late = {} /\ Merge!Entities(told) \subseteq edges
    BY <2>1 DEF MergeInv, Alone
  <2>3. Merge!Busy' = {s}
    BY <1>1, <1>3, <2>1 DEF Merge!Busy
  <2>4. AloneOK(job)'
    BY <1>1, <1>2, <2>2 DEF AloneOK, Merging, Merge!Candidates
  <2>5. Merge!Entities(told)' \subseteq edges'
    BY <1>2, <2>2 DEF Merge!Entities
  <2>6. sessions'[s] = job
    BY <1>3
  <2> QED BY <2>3, <2>4, <2>5, <2>6 DEF Alone
<1> QED BY <1>4, <1>5 DEF MergeInv

\* Every step of a builder or a session keeps the invariant.
LEMMA MergeStep ==
  ASSUME MergeInv, [Merge!Next]_Merge!vars
  PROVE  MergeInv'
<1>1. CASE UNCHANGED Merge!vars
  <2>1. UNCHANGED <<nodes, edges, sessions, told, late, overlapped>>
    BY <1>1 DEF Merge!vars, Merge!history
  <2>2. MergeTypes'
    BY <2>1 DEF MergeInv, MergeTypes
  <2>3. Merge!Busy' = Merge!Busy /\ Merge!Entities(told)' = Merge!Entities(told)
    BY <2>1 DEF Merge!Busy, Merge!Entities
  <2>4. ASSUME NEW s \in Merge!Busy, AloneOK(sessions[s]) PROVE AloneOK(sessions[s])'
    <3>1. PICK job : job = sessions[s]
      OBVIOUS
    <3>2. AloneOK(job)
      BY <2>4, <3>1
    <3>3. AloneOK(job)'
      BY <2>1, <3>2, Zenon DEF AloneOK, Merging, Merge!Candidates
    <3> QED BY <2>1, <3>1, <3>3
  <2>5. Alone => Alone'
    BY <2>1, <2>3, <2>4 DEF Alone
  <2> QED BY <2>1, <2>2, <2>5 DEF MergeInv
<1>2. ASSUME NEW e \in Merge!Edge, Merge!AddFact(e) PROVE MergeInv'
  BY <1>2, AddFactKeeps
<1>3. ASSUME NEW s \in Sessions,
             \/ Merge!Fetch(s) \/ Merge!Judge(s) \/ Merge!ReadOut(s) \/ Merge!CopyOut(s) \/ Merge!ReadIn(s)
             \/ Merge!CopyIn(s) \/ Merge!Delete(s) \/ Merge!Fail(s) \/ Merge!End(s)
      PROVE  MergeInv'
  BY <1>3, FetchKeeps, JudgeKeeps, ReadKeeps, CopyKeeps, DeleteKeeps, FailKeeps, EndKeeps
<1> QED BY <1>1, <1>2, <1>3 DEF Merge!Next

\* The invariant of the merging of entities.
LEMMA MergeIsInvariant == Merge!Spec => []MergeInv
<1>1. Merge!Init => MergeInv
  <2> SUFFICES ASSUME Merge!Init PROVE MergeInv
    OBVIOUS
  <2>1. Merge!Waiting \in Job /\ JobOK(Merge!Waiting) /\ Merge!Waiting.pc = "new"
    <3>1. Merge!Waiting \in Job /\ Merge!Waiting.pc = "new" /\ Merge!Waiting.merged = {}
          /\ Merge!Waiting.count = 0 /\ Merge!Waiting.del = {} /\ Merge!Waiting.pairs = {}
      BY DEF Merge!Waiting, Job
    <3> QED BY <3>1, FS_EmptySet DEF JobOK, Merging
  <2>2. MergeTypes
    BY <2>1, FS_EmptySet DEF Merge!Init, MergeTypes
  <2>3. Alone
    BY <2>1 DEF Merge!Init, Alone, Merge!Busy, Merge!Entities
  <2> QED BY <2>2, <2>3 DEF MergeInv
<1>2. MergeInv /\ [Merge!Next]_Merge!vars => MergeInv'
  BY MergeStep
<1> QED BY <1>1, <1>2, PTL DEF Merge!Spec

\* EntityMerge's property, for any names, chunks and sessions: what the graph says of its entities
\* survives their merging, except what comes too late for a merge and while sessions overlap.
THEOREM FactsSurvive == Merge!Spec => []FactsSurviveUnlessLate
<1>1. MergeInv => FactsSurviveUnlessLate
  <2> SUFFICES ASSUME MergeInv PROVE FactsSurviveUnlessLate
    OBVIOUS
  <2>1. ASSUME NEW s \in Sessions
        PROVE  /\ sessions[s].pc \in {"new", "judging", "reading out", "copying out", "copying in", "done"}
               /\ sessions[s].count = Merge!Cardinality(sessions[s].merged)
    BY SameCardinality DEF MergeInv, MergeTypes, Job, JobOK
  <2>2. Merge!TypeOK
    BY <2>1 DEF MergeInv, MergeTypes, Merge!TypeOK
  <2> QED BY <2>2 DEF MergeInv, Alone, FactsSurviveUnlessLate, Merge!FactsSurviveUnlessLate
<1> QED BY <1>1, MergeIsInvariant, PTL

-----------------------------------------------------------------------------
(* The document store. *)

Counts == [Ids -> [Texts -> Nat]]
Docs == UNION {[D -> Texts] : D \in SUBSET Ids}
IngestJob == [pc : {"parsed", "upserted", "done"}, source : Sources, text : Texts]
BuildJob == [pc : {"loaded", "building", "done"}, docs : Docs, todo : SUBSET Ids, written : SUBSET Ids,
             tries : [Ids -> Nat]]
CleanJob == [pc : {"read", "matched", "rows deleted", "done"}, rows : SUBSET Ids, chunks : Counts]

StoreTypes ==
    /\ uploads \in 0 .. MaxUploads
    /\ raw \in [Files -> 0 .. uploads] /\ pieces \in [Texts -> 0 .. MaxPieces]
    /\ passages \in [Ids -> [text : Texts \cup {None}, emb : Texts \cup {None}]]
    /\ \A p \in Ids : passages[p].text = None => passages[p].emb = None
    /\ checkpoints \subseteq Ids /\ graph \in Counts
    /\ reused \subseteq Ids /\ cleaned \subseteq reused /\ crossed \in BOOLEAN
    /\ deletes \in Nat /\ faults \in Nat
    /\ ingests \in Seq(IngestJob) /\ backfills \in Seq(Docs) /\ builds \in Seq(BuildJob) /\ cleanups \in Seq(CleanJob)

\* The text of a passage is t, or has been replaced.
IsOrWas(p, t) == p \in reused \/ (p \in Rows /\ passages[p].text = t)

\* What processes have read is right as long as no text has been replaced.
IngestOK(job) ==
    /\ job.text <= uploads
    /\ job.pc = "upserted" => \A p \in PassagesOf(job.source, job.text) : IsOrWas(p, job.text)

BackfillOK(docs) == \A p \in DOMAIN docs : IsOrWas(p, docs[p])

\* What a build has added is in the graph, until a clean-up takes it out.
BuildOK(job) ==
    /\ job.pc = "done" => job = Built
    /\ job.pc = "loaded" => job.todo = {} /\ \A p \in Ids : job.tries[p] = 0
    /\ job.todo \subseteq DOMAIN job.docs /\ job.written \subseteq DOMAIN job.docs
    /\ \A p \in job.todo : job.tries[p] < MaxRetries
    /\ \A p \in DOMAIN job.docs : IsOrWas(p, job.docs[p])
    /\ \A p \in job.written \ cleaned : graph[p][job.docs[p]] > 0

\* A clean-up notes chunks of its rows alone, and they are there.
CleanOK(job) ==
    /\ job.pc = "done" => job = CleanedUp
    /\ \A p \in job.rows : p \in Rows \cup reused
    /\ job.pc = "rows deleted" => job.rows \subseteq cleaned
    /\ \A p \in Ids, t \in Texts : /\ job.chunks[p][t] <= graph[p][t]
                                   /\ p \notin job.rows => job.chunks[p][t] = 0

JobsOK ==
    /\ \A i \in DOMAIN ingests : IngestOK(ingests[i])
    /\ \A i \in DOMAIN backfills : BackfillOK(backfills[i])
    /\ \A i \in DOMAIN builds : BuildOK(builds[i])
    /\ \A i \in DOMAIN cleanups : CleanOK(cleanups[i])
    /\ \A i, j \in DOMAIN cleanups : cleanups[i].pc # "done" /\ cleanups[j].pc # "done" => i = j

TablesOK ==
    /\ \A p \in Rows \ reused : passages[p].emb \in {None, passages[p].text}
    /\ \A p \in checkpoints : p \in Rows \cup reused
    /\ \A p \in checkpoints \ cleaned : \E t \in Texts : graph[p][t] > 0
    /\ \A p \in (checkpoints \cap Rows) \ reused : graph[p][passages[p].text] > 0

\* How often a build has tried to add a passage, and whether it may try again.
Open(job, p) == job.pc = "loaded" \/ (job.pc = "building" /\ p \in job.todo)
Tries(job, p) == job.tries[p] + IF p \in job.written THEN 1 ELSE 0

\* Each chunk comes from an attempt of its own, known by its build and its number.
FromAttempts(p, t, from) ==
    /\ from \subseteq (DOMAIN builds) \X (1 .. MaxRetries)
    /\ graph[p][t] <= Cardinality(from)
    /\ \A i \in DOMAIN builds : Open(builds[i], p) =>
           \A n \in 1 .. MaxRetries : <<i, n>> \in from => n <= Tries(builds[i], p)
ChunksOK ==
    /\ Len(builds) <= MaxBuilds
    /\ \A p \in Ids, t \in Texts : \E from \in SUBSET ((DOMAIN builds) \X (1 .. MaxRetries)) : FromAttempts(p, t, from)

\* The processes under way.
Ingesting == {i \in DOMAIN ingests : ingests[i].pc # "done"}
Backfilling == {i \in DOMAIN backfills : backfills[i] # <<>>}
Building == {i \in DOMAIN builds : builds[i].pc # "done"}
Cleaning == {i \in DOMAIN cleanups : cleanups[i].pc # "done"}

\* While no process fails or overlaps another: what holds of the tables when no ingestion, build or
\* clean-up is under way ...
Embedded == \A p \in Rows : passages[p].emb \in {None, passages[p].text}
AddedOnce == \A p \in Ids, t \in Texts : graph[p][t] <= 1 /\ (graph[p][t] > 0 => p \in checkpoints)
TakenOut == deletes = 0 => \A p \in cleaned \ Rows, t \in Texts : graph[p][t] = 0

\* ... and how far the one has got that is.
IngestRuns(job) ==
    LET rows == IF job.pc = "upserted" THEN PassagesOf(job.source, job.text) ELSE {}
    IN  /\ \A p \in Rows \ rows : passages[p].emb \in {None, passages[p].text}
        /\ \A p \in rows : p \in Rows /\ passages[p].text = job.text
BackfillRuns(docs) == \A p \in DOMAIN docs : p \in Rows /\ passages[p].text = docs[p]
BuildRuns(job) ==
    /\ \A p \in DOMAIN job.docs : p \in Rows
    /\ \A p \in job.todo : p \notin checkpoints
    /\ \A p \in Ids, t \in Texts :
          graph[p][t] <= 1 /\ (graph[p][t] > 0 => p \in checkpoints \/ p \in job.written \cap job.todo)
CleanRuns(job) ==
    /\ job.pc # "read" => \A p \in job.rows, t \in Texts : job.chunks[p][t] = graph[p][t]
    /\ deletes = 0 => \A p \in cleaned \ Rows : \/ \A t \in Texts : graph[p][t] = 0
                                                \/ job.pc = "rows deleted" /\ p \in job.rows

CalmOK ==
    \/ /\ Ingesting = {} /\ Backfilling = {} /\ Building = {} /\ Cleaning = {}
       /\ Embedded /\ AddedOnce /\ TakenOut
    \/ /\ \E i \in DOMAIN ingests : Ingesting = {i} /\ IngestRuns(ingests[i])
       /\ Backfilling = {} /\ Building = {} /\ Cleaning = {}
       /\ AddedOnce /\ TakenOut
    \/ /\ \E i \in DOMAIN backfills : Backfilling = {i} /\ BackfillRuns(backfills[i])
       /\ Ingesting = {} /\ Building = {} /\ Cleaning = {}
       /\ Embedded /\ AddedOnce /\ TakenOut
    \/ /\ \E i \in DOMAIN builds : Building = {i} /\ BuildRuns(builds[i])
       /\ Ingesting = {} /\ Backfilling = {} /\ Cleaning = {}
       /\ Embedded /\ TakenOut
    \/ /\ \E i \in DOMAIN cleanups : Cleaning = {i} /\ CleanRuns(cleanups[i])
       /\ Ingesting = {} /\ Backfilling = {} /\ Building = {}
       /\ Embedded /\ AddedOnce

DocumentInv == StoreTypes /\ JobsOK /\ TablesOK /\ ChunksOK /\ (Calm => CalmOK)

\* What every step keeps of the texts that have been read and of the chunks that have been added.
Kept ==
    /\ uploads <= uploads' /\ \A t \in Texts : t <= uploads => pieces'[t] = pieces[t]
    /\ \A p \in Ids, t \in Texts : IsOrWas(p, t) => IsOrWas(p, t)'
    /\ \A p \in Ids : p \in Rows \cup reused => p \in (Rows \cup reused)'
    /\ reused \subseteq reused' /\ cleaned \subseteq cleaned'
    /\ \A p \in Ids \ cleaned', t \in Texts : graph[p][t] <= graph'[p][t]

\* Passages of an upload are passages.
LEMMA PassagesOfAreIds ==
  ASSUME StoreTypes, NEW source \in Sources, NEW text \in Texts
  PROVE  PassagesOf(source, text) \subseteq Ids
<1>1. pieces[text] \in 0 .. MaxPieces /\ MaxPieces \in Nat
  BY BoundAssumption DEF StoreTypes
<1>2. 1 .. pieces[text] \subseteq 1 .. MaxPieces
  BY <1>1
<1> QED BY <1>2 DEF PassagesOf, Ids

\* What is right of a process stays right when others take a step.
LEMMA IngestStays ==
  ASSUME StoreTypes, StoreTypes', Kept, NEW job \in IngestJob, IngestOK(job)
  PROVE  IngestOK(job)'
<1>1. job.text \in Texts /\ job.source \in Sources /\ job.text <= uploads
  BY DEF IngestOK, IngestJob
<1>2. uploads \in Nat /\ uploads' \in Nat /\ job.text \in Nat /\ uploads <= uploads'
  <2>1. uploads \in 0 .. MaxUploads /\ uploads' \in 0 .. MaxUploads
    BY DEF StoreTypes
  <2>2. job.text \in Nat
    BY <1>1 DEF Texts
  <2> QED BY <2>1, <2>2, BoundAssumption DEF Kept
<1>3. job.text <= uploads'
  BY <1>1, <1>2
<1>4. PassagesOf(job.source, job.text)' = PassagesOf(job.source, job.text)
  BY <1>1 DEF Kept, PassagesOf
<1>5. PassagesOf(job.source, job.text) \subseteq Ids
  BY <1>1, PassagesOfAreIds
<1> QED BY <1>1, <1>3, <1>4, <1>5 DEF IngestOK, Kept

\* See IngestStays.
LEMMA BackfillStays ==
  ASSUME Kept, NEW docs \in Docs, BackfillOK(docs)
  PROVE  BackfillOK(docs)'
<1>1. \A p \in DOMAIN docs : p \in Ids /\ docs[p] \in Texts
  BY DEF Docs
<1> QED BY <1>1 DEF BackfillOK, Kept

\* See IngestStays.
LEMMA BuildStays ==
  ASSUME StoreTypes, StoreTypes', Kept, NEW job \in BuildJob, BuildOK(job)
  PROVE  BuildOK(job)'
<1>1. \A p \in DOMAIN job.docs : p \in Ids /\ job.docs[p] \in Texts
  BY DEF BuildJob, Docs
<1>2. \A p \in job.written \ cleaned' : graph'[p][job.docs[p]] > 0
  <2> SUFFICES ASSUME NEW p \in job.written \ cleaned' PROVE graph'[p][job.docs[p]] > 0
    OBVIOUS
  <2>1. p \in Ids \ cleaned' /\ p \notin cleaned /\ job.docs[p] \in Texts
    BY <1>1 DEF BuildOK, Kept
  <2> DEFINE m == graph[p][job.docs[p]]
             n == graph'[p][job.docs[p]]
  <2>2. m > 0 /\ m <= n /\ m \in Nat /\ n \in Nat
    BY <2>1 DEF BuildOK, Kept, StoreTypes, Counts
  <2> HIDE DEF m, n
  <2>3. n > 0
    BY <2>2
  <2> QED BY <2>3 DEF n
<1>3. \A p \in DOMAIN job.docs : IsOrWas(p, job.docs[p])'
  BY <1>1 DEF BuildOK, Kept
<1>4. /\ job.pc = "done" => job = Built
      /\ job.todo \subseteq DOMAIN job.docs /\ job.written \subseteq DOMAIN job.docs
      /\ \A p \in job.todo : job.tries[p] < MaxRetries
  BY DEF BuildOK
<1>5. Built' = Built
  BY DEF Built, NoTries
<1> QED BY <1>2, <1>3, <1>4, <1>5 DEF BuildOK

\* See IngestStays.
LEMMA CleanStays ==
  ASSUME Kept, NEW job \in CleanJob, CleanOK(job),
         \A p \in Ids, t \in Texts : job.chunks[p][t] <= graph'[p][t]
  PROVE  CleanOK(job)'
<1>1. job.rows \subseteq Ids
  BY DEF CleanJob
<1>2. CleanedUp' = CleanedUp
  BY DEF CleanedUp, NoChunks
<1> QED BY <1>1, <1>2 DEF CleanOK, Kept

\* Lists of which every entry is an old one or right.
IngestsMove == \A i \in DOMAIN ingests' : \/ i \in DOMAIN ingests /\ ingests'[i] = ingests[i]
                                         \/ IngestOK(ingests[i])'
BackfillsMove == \A i \in DOMAIN backfills' : \/ i \in DOMAIN backfills /\ backfills'[i] = backfills[i]
                                             \/ BackfillOK(backfills[i])'
BuildsMove == \A i \in DOMAIN builds' : \/ i \in DOMAIN builds /\ builds'[i] = builds[i]
                                       \/ BuildOK(builds[i])'
CleanupsMove ==
    /\ \A i \in DOMAIN cleanups' : \/ /\ i \in DOMAIN cleanups /\ cleanups'[i] = cleanups[i]
                                      /\ \A p \in Ids, t \in Texts : cleanups[i].chunks[p][t] <= graph'[p][t]
                                   \/ CleanOK(cleanups[i])'
    /\ \A i, j \in DOMAIN cleanups' : cleanups'[i].pc # "done" /\ cleanups'[j].pc # "done" => i = j

\* Then all of them are right.
LEMMA JobsStay ==
  ASSUME StoreTypes, StoreTypes', JobsOK, Kept, IngestsMove, BackfillsMove, BuildsMove, CleanupsMove
  PROVE  JobsOK'
<1>1. \A i \in DOMAIN ingests' : IngestOK(ingests[i])'
  <2> SUFFICES ASSUME NEW i \in DOMAIN ingests' PROVE IngestOK(ingests[i])'
    OBVIOUS
  <2>1. PICK job : job = ingests'[i]
    OBVIOUS
  <2>2. CASE i \in DOMAIN ingests /\ ingests'[i] = ingests[i]
    <3>1. job \in IngestJob /\ IngestOK(job)
      BY <2>1, <2>2 DEF StoreTypes, JobsOK
    <3> QED BY <2>1, <3>1, IngestStays
  <2> QED BY <2>2 DEF IngestsMove
<1>2. \A i \in DOMAIN backfills' : BackfillOK(backfills[i])'
  <2> SUFFICES ASSUME NEW i \in DOMAIN backfills' PROVE BackfillOK(backfills[i])'
    OBVIOUS
  <2>1. PICK job : job = backfills'[i]
    OBVIOUS
  <2>2. CASE i \in DOMAIN backfills /\ backfills'[i] = backfills[i]
    <3>1. job \in Docs /\ BackfillOK(job)
      BY <2>1, <2>2 DEF StoreTypes, JobsOK
    <3> QED BY <2>1, <3>1, BackfillStays
  <2> QED BY <2>2 DEF BackfillsMove
<1>3. \A i \in DOMAIN builds' : BuildOK(builds[i])'
  <2> SUFFICES ASSUME NEW i \in DOMAIN builds' PROVE BuildOK(builds[i])'
    OBVIOUS
  <2>1. PICK job : job = builds'[i]
    OBVIOUS
  <2>2. CASE i \in DOMAIN builds /\ builds'[i] = builds[i]
    <3>1. job \in BuildJob /\ BuildOK(job)
      BY <2>1, <2>2 DEF StoreTypes, JobsOK
    <3> QED BY <2>1, <3>1, BuildStays
  <2> QED BY <2>2 DEF BuildsMove
<1>4. \A i \in DOMAIN cleanups' : CleanOK(cleanups[i])'
  <2> SUFFICES ASSUME NEW i \in DOMAIN cleanups' PROVE CleanOK(cleanups[i])'
    OBVIOUS
  <2>1. PICK job : job = cleanups'[i]
    OBVIOUS
  <2>2. CASE /\ i \in DOMAIN cleanups /\ cleanups'[i] = cleanups[i]
             /\ \A p \in Ids, t \in Texts : cleanups[i].chunks[p][t] <= graph'[p][t]
    <3>1. job \in CleanJob /\ CleanOK(job) /\ \A p \in Ids, t \in Texts : job.chunks[p][t] <= graph'[p][t]
      BY <2>1, <2>2 DEF StoreTypes, JobsOK
    <3> QED BY <2>1, <3>1, CleanStays
  <2> QED BY <2>2 DEF CleanupsMove
<1> QED BY <1>1, <1>2, <1>3, <1>4 DEF JobsOK, CleanupsMove

\* Checkpoints stay right.
LEMMA TablesStay ==
  ASSUME StoreTypes, StoreTypes', TablesOK, Kept, checkpoints' = checkpoints,
         \A p \in (Rows \ reused)' : passages'[p].emb \in {None, passages'[p].text}
  PROVE  TablesOK'
<1>1. \A p \in checkpoints' : p \in (Rows \cup reused)'
  BY DEF TablesOK, Kept, StoreTypes
<1>2. ASSUME NEW p \in Ids \ cleaned', NEW t \in Texts, graph[p][t] > 0 PROVE graph'[p][t] > 0
  <2> DEFINE m == graph[p][t]
             n == graph'[p][t]
  <2>1. m > 0 /\ m <= n /\ m \in Nat /\ n \in Nat
    BY <1>2 DEF Kept, StoreTypes, Counts
  <2> HIDE DEF m, n
  <2>2. n > 0
    BY <2>1
  <2> QED BY <2>2 DEF n
<1>3. \A p \in checkpoints' \ cleaned' : \E t \in Texts : graph'[p][t] > 0
  BY <1>2 DEF TablesOK, Kept, StoreTypes
<1>4. ASSUME NEW p \in (checkpoints' \cap Rows') \ reused' PROVE graph'[p][passages'[p].text] > 0
  <2>1. p \in Ids /\ p \in checkpoints /\ p \notin reused' /\ cleaned' \subseteq reused'
    BY <1>4 DEF StoreTypes
  <2>2. p \notin reused
    BY <2>1 DEF Kept
  <2>3. p \in Rows /\ passages[p].text \in Texts
    BY <2>1, <2>2 DEF TablesOK, StoreTypes, Rows
  <2>4. PICK t \in Texts : t = passages[p].text
    BY <2>3
  <2>5. IsOrWas(p, t)'
    BY <2>1, <2>3, <2>4 DEF Kept, IsOrWas
  <2>6. passages'[p].text = t
    BY <2>1, <2>5 DEF IsOrWas
  <2>7. graph[p][t] > 0
    BY <2>1, <2>2, <2>3, <2>4 DEF TablesOK
  <2> QED BY <1>2, <2>1, <2>4, <2>6, <2>7
<1> QED BY <1>1, <1>3, <1>4 DEF TablesOK

\* Chunks stay the work of attempts when none is added; ...
LEMMA ChunksStay ==
  ASSUME StoreTypes, StoreTypes', ChunksOK, Len(builds') <= MaxBuilds, DOMAIN builds \subseteq DOMAIN builds',
         \A i \in DOMAIN builds, p \in Ids : Open(builds'[i], p) =>
            Open(builds[i], p) /\ Tries(builds[i], p) <= Tries(builds'[i], p),
         \A p \in Ids, t \in Texts : graph'[p][t] <= graph[p][t]
  PROVE  ChunksOK'
<1> SUFFICES ASSUME NEW p \in Ids, NEW t \in Texts
             PROVE  \E from \in SUBSET ((DOMAIN builds') \X (1 .. MaxRetries)) : FromAttempts(p, t, from)'
  BY DEF ChunksOK
<1>1. PICK from \in SUBSET ((DOMAIN builds) \X (1 .. MaxRetries)) : FromAttempts(p, t, from)
  BY DEF ChunksOK
<1>2. from \subseteq (DOMAIN builds') \X (1 .. MaxRetries)
  OBVIOUS
<1>3. graph'[p][t] <= Cardinality(from)
  <2>1. IsFiniteSet(from)
    <3>1. IsFiniteSet(DOMAIN builds) /\ IsFiniteSet(1 .. MaxRetries)
      <4>1. DOMAIN builds = 1 .. Len(builds) /\ Len(builds) \in Nat /\ MaxRetries \in Nat
        BY BoundAssumption DEF StoreTypes
      <4> QED BY <4>1, FS_Interval
    <3> QED BY <3>1, FS_Product, FS_Subset
  <2>2. Cardinality(from) \in Nat
    BY <2>1, FS_CardinalityType
  <2> DEFINE c == Cardinality(from)
             m == graph[p][t]
             n == graph'[p][t]
  <2>3. n <= m /\ m <= c /\ c \in Nat /\ m \in Nat /\ n \in Nat
    BY <1>1, <2>2 DEF FromAttempts, StoreTypes, Counts
  <2> HIDE DEF c, m, n
  <2>4. n <= c
    BY <2>3
  <2> QED BY <2>4 DEF n, c
<1>4. ASSUME NEW i \in DOMAIN builds', Open(builds'[i], p), NEW n \in 1 .. MaxRetries, <<i, n>> \in from
      PROVE  n <= Tries(builds'[i], p)
  <2>1. i \in DOMAIN builds
    BY <1>4
  <2>2. Open(builds[i], p) /\ Tries(builds[i], p) <= Tries(builds'[i], p)
    BY <1>4, <2>1
  <2>3. n <= Tries(builds[i], p)
    BY <1>1, <1>4, <2>1, <2>2 DEF FromAttempts
  <2>4. Tries(builds[i], p) \in Nat /\ Tries(builds'[i], p) \in Nat /\ n \in Nat
    <3>1. builds[i] \in BuildJob /\ builds'[i] \in BuildJob
      <4>1. builds \in Seq(BuildJob) /\ builds' \in Seq(BuildJob)
        BY DEF StoreTypes
      <4> QED BY <1>4, <2>1, <4>1
    <3>2. builds[i].tries[p] \in Nat /\ builds'[i].tries[p] \in Nat
      BY <3>1 DEF BuildJob
    <3> QED BY <3>2 DEF Tries
  <2> QED BY <2>2, <2>3, <2>4
<1>5. FromAttempts(p, t, from)'
  BY <1>2, <1>3, <1>4 DEF FromAttempts
<1> QED BY <1>2, <1>5

\* ... and when an attempt of a build adds one.
LEMMA ChunkAdded ==
  ASSUME StoreTypes, StoreTypes', ChunksOK, Len(builds') <= MaxBuilds, DOMAIN builds' = DOMAIN builds,
         NEW i \in DOMAIN builds, NEW q \in Ids, Open(builds[i], q),
         q \notin builds[i].written, builds[i].tries[q] < MaxRetries,
         \A j \in DOMAIN builds \ {i} : builds'[j] = builds[j],
         \A p \in Ids : Open(builds'[i], p) =>
            Open(builds[i], p) /\ Tries(builds'[i], p) = Tries(builds[i], p) + (IF p = q THEN 1 ELSE 0),
         \A p \in Ids, t \in Texts : /\ graph'[p][t] <= graph[p][t] + 1
                                     /\ p # q => graph'[p][t] <= graph[p][t]
  PROVE  ChunksOK'
<1> SUFFICES ASSUME NEW p \in Ids, NEW t \in Texts
             PROVE  \E from \in SUBSET ((DOMAIN builds') \X (1 .. MaxRetries)) : FromAttempts(p, t, from)'
  BY DEF ChunksOK
<1>1. PICK from \in SUBSET ((DOMAIN builds) \X (1 .. MaxRetries)) : FromAttempts(p, t, from)
  BY DEF ChunksOK
<1>2. IsFiniteSet(from) /\ Cardinality(from) \in Nat
  <2>1. IsFiniteSet(DOMAIN builds) /\ IsFiniteSet(1 .. MaxRetries)
    <3>1. DOMAIN builds = 1 .. Len(builds) /\ Len(builds) \in Nat /\ MaxRetries \in Nat
      BY BoundAssumption DEF StoreTypes
    <3> QED BY <3>1, FS_Interval
  <2>2. IsFiniteSet(from)
    BY <2>1, FS_Product, FS_Subset
  <2> QED BY <2>2, FS_CardinalityType
<1>3. \A j \in DOMAIN builds : \A x \in Ids :
         builds[j] \in BuildJob /\ builds'[j] \in BuildJob /\ Tries(builds[j], x) \in Nat /\ Tries(builds'[j], x) \in Nat
  <2> SUFFICES ASSUME NEW j \in DOMAIN builds, NEW x \in Ids
               PROVE  builds[j] \in BuildJob /\ builds'[j] \in BuildJob
                      /\ Tries(builds[j], x) \in Nat /\ Tries(builds'[j], x) \in Nat
    OBVIOUS
  <2>1. builds[j] \in BuildJob /\ builds'[j] \in BuildJob
    <3>1. builds \in Seq(BuildJob) /\ builds' \in Seq(BuildJob)
      BY DEF StoreTypes
    <3> QED BY <3>1
  <2>2. builds[j].tries[x] \in Nat /\ builds'[j].tries[x] \in Nat
    BY <2>1 DEF BuildJob
  <2> QED BY <2>1, <2>2 DEF Tries
<1>4. graph[p][t] \in Nat /\ graph'[p][t] \in Nat /\ graph[p][t] <= Cardinality(from)
  BY <1>1 DEF FromAttempts, StoreTypes, Counts
<1>5. CASE p # q
  <2>1. graph'[p][t] <= graph[p][t]
    BY <1>5
  <2>2. graph'[p][t] <= Cardinality(from)
    BY <1>2, <1>4, <2>1
  <2>3. ASSUME NEW j \in DOMAIN builds', Open(builds'[j], p), NEW n \in 1 .. MaxRetries, <<j, n>> \in from
        PROVE  n <= Tries(builds'[j], p)
    <3>1. Open(builds[j], p) /\ Tries(builds[j], p) = Tries(builds'[j], p)
      BY <1>3, <1>5, <2>3
    <3> QED BY <1>1, <2>3, <3>1 DEF FromAttempts
  <2>4. FromAttempts(p, t, from)'
    BY <2>2, <2>3 DEF FromAttempts
  <2> QED BY <2>4
<1>6. CASE p = q
  <2>0. PICK n : n = Tries(builds[i], q) + 1
    OBVIOUS
  <2> DEFINE more == from \cup {<<i, n>>}
  <2>1. Tries(builds[i], q) = builds[i].tries[q]
    BY <1>3 DEF Tries, BuildJob
  <2>2. n \in 1 .. MaxRetries
    <3>1. builds[i].tries[q] \in Nat /\ MaxRetries \in Nat
      BY <1>3, BoundAssumption DEF BuildJob
    <3> QED BY <2>0, <2>1, <3>1
  <2>3. <<i, n>> \notin from
    <3>1. <<i, n>> \in from => n <= Tries(builds[i], q)
      BY <1>1, <1>6, <2>2 DEF FromAttempts
    <3>2. Tries(builds[i], q) \in Nat
      BY <1>3
    <3> QED BY <2>0, <3>1, <3>2
  <2>4. Cardinality(more) = Cardinality(from) + 1
    BY <1>2, <2>3, FS_AddElement
  <2>5. more \in SUBSET ((DOMAIN builds') \X (1 .. MaxRetries))
    BY <2>2
  <2> HIDE DEF more
  <2>6. graph'[p][t] <= Cardinality(more)
    <3>1. graph'[p][t] <= graph[p][t] + 1
      OBVIOUS
    <3> QED BY <1>2, <1>4, <2>4, <3>1
  <2>7. ASSUME NEW j \in DOMAIN builds', Open(builds'[j], p), NEW m \in 1 .. MaxRetries, <<j, m>> \in more
        PROVE  m <= Tries(builds'[j], p)
    <3>1. CASE j # i
      <4>1. builds'[j] = builds[j] /\ <<j, m>> \in from
        BY <2>7, <3>1 DEF more
      <4> QED BY <1>1, <2>7, <4>1 DEF FromAttempts
    <3>2. CASE j = i
      <4>1. Tries(builds'[i], p) = n
        BY <1>6, <2>0, <2>7, <3>2
      <4>2. CASE m = n
        BY <3>2, <4>1, <4>2, <2>2
      <4>3. CASE m # n
        <5>1. <<i, m>> \in from
          BY <2>7, <3>2, <4>3 DEF more
        <5>2. m <= Tries(builds[i], q)
          BY <1>1, <1>6, <5>1, <2>7 DEF FromAttempts
        <5>3. Tries(builds[i], q) \in Nat /\ m \in Nat /\ n = Tries(builds[i], q) + 1
          BY <1>3, <2>0
        <5>4. m <= n
          BY <5>2, <5>3
        <5> QED BY <3>2, <4>1, <5>4
      <4> QED BY <4>2, <4>3
    <3> QED BY <3>1, <3>2
  <2>8. FromAttempts(p, t, more)'
    BY <2>5, <2>6, <2>7 DEF FromAttempts
  <2> QED BY <2>5, <2>8
<1> QED BY <1>5, <1>6

\* When nothing runs, no process is under way.
LEMMA NothingRuns ==
  ASSUME StoreTypes, Running = 0 \/ ~(Running > 0)
  PROVE  Ingesting = {} /\ Backfilling = {} /\ Building = {} /\ Cleaning = {}
<1>1. \A n \in Nat : IsFiniteSet(1 .. n)
  BY FS_Interval
<1>2. IsFiniteSet(DOMAIN ingests) /\ IsFiniteSet(DOMAIN backfills) /\ IsFiniteSet(DOMAIN builds)
      /\ IsFiniteSet(DOMAIN cleanups)
  BY <1>1 DEF StoreTypes
<1>3. IsFiniteSet(Ingesting) /\ IsFiniteSet(Backfilling) /\ IsFiniteSet(Building) /\ IsFiniteSet(Cleaning)
  <2>1. /\ Ingesting \subseteq DOMAIN ingests /\ Backfilling \subseteq DOMAIN backfills
        /\ Building \subseteq DOMAIN builds /\ Cleaning \subseteq DOMAIN cleanups
    BY DEF Ingesting, Backfilling, Building, Cleaning
  <2> QED BY <1>2, <2>1, FS_Subset
<1>4. Running = Cardinality(Ingesting) + Cardinality(Backfilling) + Cardinality(Building) + Cardinality(Cleaning)
  BY DEF Running, Ingesting, Backfilling, Building, Cleaning
<1>5. /\ Cardinality(Ingesting) \in Nat /\ Cardinality(Backfilling) \in Nat
      /\ Cardinality(Building) \in Nat /\ Cardinality(Cleaning) \in Nat
  BY <1>3, FS_CardinalityType
<1>6. /\ Cardinality(Ingesting) = 0 /\ Cardinality(Backfilling) = 0
      /\ Cardinality(Building) = 0 /\ Cardinality(Cleaning) = 0
  <2> DEFINE a == Cardinality(Ingesting)
             b == Cardinality(Backfilling)
             c == Cardinality(Building)
             d == Cardinality(Cleaning)
  <2>1. a \in Nat /\ b \in Nat /\ c \in Nat /\ d \in Nat /\ ~(a + b + c + d > 0)
    <3>1. a + b + c + d = Running /\ a \in Nat /\ b \in Nat /\ c \in Nat /\ d \in Nat
      BY <1>4, <1>5
    <3> HIDE DEF a, b, c, d
    <3> QED BY <3>1
  <2> HIDE DEF a, b, c, d
  <2>2. a = 0 /\ b = 0 /\ c = 0 /\ d = 0
    BY <2>1
  <2> QED BY <2>2 DEF a, b, c, d
<1> QED BY <1>3, <1>6, FS_EmptySet

\* A process that begins while no other has failed or overlapped another begins alone.
LEMMA BeginsAlone ==
  ASSUME DocumentInv, Launch, faults' = faults, Calm'
  PROVE  /\ Ingesting = {} /\ Backfilling = {} /\ Building = {} /\ Cleaning = {}
         /\ Embedded /\ AddedOnce /\ TakenOut
<1>1. Calm /\ ~(Running > 0)
  BY DEF Launch, Calm
<1>2. Ingesting = {} /\ Backfilling = {} /\ Building = {} /\ Cleaning = {}
  BY <1>1, NothingRuns DEF DocumentInv
<1> QED BY <1>1, <1>2 DEF DocumentInv, CalmOK

\* And it goes on alone.
LEMMA OnlyIngest ==
  ASSUME CalmOK, NEW i \in Ingesting
  PROVE  /\ Ingesting = {i} /\ Backfilling = {} /\ Building = {} /\ Cleaning = {}
         /\ IngestRuns(ingests[i]) /\ AddedOnce /\ TakenOut
BY DEF CalmOK

\* See OnlyIngest.
LEMMA OnlyBackfill ==
  ASSUME CalmOK, NEW i \in Backfilling
  PROVE  /\ Ingesting = {} /\ Backfilling = {i} /\ Building = {} /\ Cleaning = {}
         /\ BackfillRuns(backfills[i]) /\ Embedded /\ AddedOnce /\ TakenOut
BY DEF CalmOK

\* See OnlyIngest.
LEMMA OnlyBuild ==
  ASSUME CalmOK, NEW i \in Building
  PROVE  /\ Ingesting = {} /\ Backfilling = {} /\ Building = {i} /\ Cleaning = {}
         /\ BuildRuns(builds[i]) /\ Embedded /\ TakenOut
BY DEF CalmOK

\* See OnlyIngest.
LEMMA OnlyCleanup ==
  ASSUME CalmOK, NEW i \in Cleaning
  PROVE  /\ Ingesting = {} /\ Backfilling = {} /\ Building = {} /\ Cleaning = {i}
         /\ CleanRuns(cleanups[i]) /\ Embedded /\ AddedOnce
BY DEF CalmOK

\* Rows that keep their texts, and tables that are left alone, keep what the invariant says of them.
LEMMA KeptWhenTextsStay ==
  ASSUME StoreTypes, uploads' = uploads, pieces' = pieces, reused' = reused, cleaned' = cleaned, graph' = graph,
         Rows' = Rows, \A p \in Rows : passages'[p].text = passages[p].text
  PROVE  Kept
<1>1. uploads <= uploads'
  BY BoundAssumption DEF StoreTypes
<1>2. \A p \in Ids, t \in Texts : graph[p][t] \in Nat
  BY DEF StoreTypes, Counts
<1>3. \A p \in Ids, t \in Texts : graph[p][t] <= graph'[p][t]
  BY <1>2
<1> QED BY <1>1, <1>3 DEF Kept, IsOrWas

\* What each kind of process leaves alone.
LEMMA Unmoved ==
  ASSUME StoreTypes, JobsOK
  PROVE  /\ ingests' = ingests => IngestsMove
         /\ backfills' = backfills => BackfillsMove
         /\ builds' = builds => BuildsMove
         /\ cleanups' = cleanups /\ graph' = graph => CleanupsMove
BY DEF IngestsMove, BackfillsMove, BuildsMove, CleanupsMove, JobsOK, CleanOK

\* One case of DocumentStep.
LEMMA UploadKeeps ==
  ASSUME DocumentInv, NEW f \in Files, Upload(f)
  PROVE  DocumentInv'
<1>1. /\ uploads < MaxUploads /\ uploads' = uploads + 1 /\ raw' = [raw EXCEPT ![f] = uploads + 1]
      /\ \E n \in 1 .. MaxPieces : pieces' = [pieces EXCEPT ![uploads + 1] = n]
      /\ passages' = passages /\ checkpoints' = checkpoints /\ graph' = graph
      /\ ingests' = ingests /\ backfills' = backfills /\ builds' = builds /\ cleanups' = cleanups
      /\ deletes' = deletes /\ faults' = faults /\ reused' = reused /\ cleaned' = cleaned /\ crossed' = crossed
  BY DEF Upload, tables, procs, history
<1>2. StoreTypes /\ JobsOK /\ TablesOK /\ ChunksOK
  BY DEF DocumentInv
<1>3. uploads \in Nat /\ MaxUploads \in Nat /\ MaxPieces \in Nat /\ uploads + 1 \in 0 .. MaxUploads
  BY <1>1, <1>2, BoundAssumption DEF StoreTypes
<1>4. raw' \in [Files -> 0 .. uploads']
  <2>1. 0 .. uploads \subseteq 0 .. uploads' /\ uploads + 1 \in 0 .. uploads'
    BY <1>1, <1>3
  <2> QED BY <1>1, <1>2, <2>1 DEF StoreTypes
<1>5. pieces' \in [Texts -> 0 .. MaxPieces]
  <2>1. 1 .. MaxPieces \subseteq 0 .. MaxPieces
    BY <1>3
  <2> QED BY <1>1, <1>2, <2>1 DEF StoreTypes
<1>6. \A t \in Texts : t <= uploads => pieces'[t] = pieces[t]
  <2>1. \A t \in Texts : t <= uploads => t # uploads + 1
    BY <1>3 DEF Texts
  <2> QED BY <1>1, <1>2, <2>1 DEF StoreTypes
<1>7. StoreTypes'
  BY <1>1, <1>2, <1>3, <1>4, <1>5 DEF StoreTypes, Counts, IngestJob, BuildJob, CleanJob, Docs
<1>8. Rows' = Rows
  BY <1>1 DEF Rows
<1>9. Kept
  <2>1. \A p \in Ids, t \in Texts : graph[p][t] \in Nat
    BY <1>2 DEF StoreTypes, Counts
  <2>2. \A p \in Ids, t \in Texts : graph[p][t] <= graph'[p][t]
    BY <1>1, <2>1
  <2>3. uploads <= uploads'
    BY <1>1, <1>3
  <2> QED BY <1>1, <1>6, <1>8, <2>2, <2>3 DEF Kept, IsOrWas
<1>10. JobsOK'
  BY <1>1, <1>2, <1>7, <1>9, Unmoved, JobsStay
<1>11. TablesOK'
  BY <1>1, <1>8, <1>2 DEF TablesOK
<1>12. ChunksOK'
  BY <1>1, <1>2 DEF ChunksOK, FromAttempts
<1>13. ASSUME Calm' PROVE CalmOK'
  <2>1. CalmOK
    BY <1>1, <1>13 DEF Calm, DocumentInv
  <2>2. /\ Ingesting' = Ingesting /\ Backfilling' = Backfilling /\ Building' = Building /\ Cleaning' = Cleaning
        /\ Embedded' = Embedded /\ AddedOnce' = AddedOnce /\ TakenOut' = TakenOut
    BY <1>1, <1>8 DEF Ingesting, Backfilling, Building, Cleaning, Embedded, AddedOnce, TakenOut
  <2>3. ASSUME NEW i \in DOMAIN ingests, IngestRuns(ingests[i]) PROVE IngestRuns(ingests[i])'
    <3>1. PICK job : job = ingests[i]
      OBVIOUS
    <3>2. job \in IngestJob /\ IngestOK(job)
      BY <1>2, <3>1 DEF StoreTypes, JobsOK
    <3>2a. job.text \in Texts /\ job.text <= uploads
      BY <3>2 DEF IngestJob, IngestOK
    <3>3. PassagesOf(job.source, job.text)' = PassagesOf(job.source, job.text)
      BY <1>6, <3>2a DEF PassagesOf
    <3>4. IngestRuns(job)'
      BY <1>1, <1>8, <2>3, <3>1, <3>3 DEF IngestRuns
    <3> QED BY <1>1, <3>1, <3>4
  <2>4. ASSUME NEW i \in DOMAIN backfills, BackfillRuns(backfills[i]) PROVE BackfillRuns(backfills[i])'
    BY <1>1, <1>8, <2>4 DEF BackfillRuns
  <2>5. ASSUME NEW i \in DOMAIN builds, BuildRuns(builds[i]) PROVE BuildRuns(builds[i])'
    BY <1>1, <1>8, <2>5 DEF BuildRuns
  <2>6. ASSUME NEW i \in DOMAIN cleanups, CleanRuns(cleanups[i]) PROVE CleanRuns(cleanups[i])'
    BY <1>1, <1>8, <2>6 DEF CleanRuns
  <2> QED BY <1>1, <2>1, <2>2, <2>3, <2>4, <2>5, <2>6 DEF CalmOK
<1> QED BY <1>7, <1>10, <1>11, <1>12, <1>13 DEF DocumentInv

\* One case of DocumentStep.
LEMMA IngestKeeps ==
  ASSUME DocumentInv, NEW f \in Files, Ingest(f)
  PROVE  DocumentInv'
<1>1. /\ Launch /\ raw[f] # None
      /\ ingests' = Append(ingests, [pc |-> "parsed", source |-> Stem[f], text |-> raw[f]])
      /\ raw' = raw /\ pieces' = pieces /\ uploads' = uploads
      /\ passages' = passages /\ checkpoints' = checkpoints /\ graph' = graph
      /\ backfills' = backfills /\ builds' = builds /\ cleanups' = cleanups
      /\ deletes' = deletes /\ faults' = faults /\ reused' = reused /\ cleaned' = cleaned /\ crossed' \in BOOLEAN
  BY DEF Ingest, Launch, tables, store
<1>2. StoreTypes /\ JobsOK /\ TablesOK /\ ChunksOK
  BY DEF DocumentInv
<1>3. raw[f] \in Texts /\ raw[f] <= uploads /\ Stem[f] \in Sources
  <2>1. raw[f] \in 0 .. uploads /\ uploads \in 0 .. MaxUploads /\ MaxUploads \in Nat
    BY <1>2, BoundAssumption DEF StoreTypes
  <2> QED BY <1>1, <2>1 DEF None, Texts, Sources
<1>4. PICK job : job = [pc |-> "parsed", source |-> Stem[f], text |-> raw[f]]
  OBVIOUS
<1>5. job \in IngestJob /\ job.pc = "parsed" /\ job.text <= uploads
  BY <1>3, <1>4 DEF IngestJob
<1>6. /\ ingests' \in Seq(IngestJob) /\ Len(ingests) + 1 \in DOMAIN ingests' /\ ingests'[Len(ingests) + 1] = job
      /\ \A i \in DOMAIN ingests : i \in DOMAIN ingests' /\ ingests'[i] = ingests[i]
      /\ \A i \in DOMAIN ingests' : i \in DOMAIN ingests \/ i = Len(ingests) + 1
  BY <1>1, <1>2, <1>4, <1>5, AppendIs DEF StoreTypes
<1>7. StoreTypes'
  BY <1>1, <1>2, <1>6 DEF StoreTypes, Counts, IngestJob, BuildJob, CleanJob, Docs
<1>8. Rows' = Rows
  BY <1>1 DEF Rows
<1>9. Kept
  BY <1>1, <1>2, <1>8, KeptWhenTextsStay
<1>10. IngestsMove
  <2>1. IngestOK(job)'
    BY <1>1, <1>5 DEF IngestOK
  <2> QED BY <1>6, <2>1 DEF IngestsMove
<1>11. JobsOK'
  BY <1>1, <1>2, <1>7, <1>9, <1>10, Unmoved, JobsStay
<1>12. TablesOK'
  BY <1>1, <1>8, <1>2 DEF TablesOK
<1>13. ChunksOK'
  BY <1>1, <1>2 DEF ChunksOK, FromAttempts
<1>14. ASSUME Calm' PROVE CalmOK'
  <2>1. /\ Ingesting = {} /\ Backfilling = {} /\ Building = {} /\ Cleaning = {}
        /\ Embedded /\ AddedOnce /\ TakenOut
    BY <1>1, <1>14, BeginsAlone
  <2>2. /\ Backfilling' = {} /\ Building' = {} /\ Cleaning' = {}
        /\ AddedOnce' /\ TakenOut'
    BY <1>1, <1>8, <2>1 DEF Backfilling, Building, Cleaning, AddedOnce, TakenOut
  <2>3. Ingesting' = {Len(ingests) + 1}
    BY <1>5, <1>6, <2>1 DEF Ingesting
  <2>4. IngestRuns(job)'
    BY <1>1, <1>5, <1>8, <2>1 DEF IngestRuns, Embedded
  <2> QED BY <1>6, <2>2, <2>3, <2>4 DEF CalmOK
<1> QED BY <1>7, <1>11, <1>12, <1>13, <1>14 DEF DocumentInv

\* What an ingestion under way works on.
LEMMA IngestIs ==
  ASSUME DocumentInv, NEW i \in DOMAIN ingests
  PROVE  /\ ingests[i] \in IngestJob /\ IngestOK(ingests[i])
         /\ ingests[i].source \in Sources /\ ingests[i].text \in Texts /\ ingests[i].text # None
         /\ PassagesOf(ingests[i].source, ingests[i].text) \subseteq Ids
         /\ \A p \in PassagesOf(ingests[i].source, ingests[i].text) : p[1] = ingests[i].source
<1>1. ingests[i] \in IngestJob /\ IngestOK(ingests[i])
  BY DEF DocumentInv, StoreTypes, JobsOK
<1>2. ingests[i].source \in Sources /\ ingests[i].text \in Texts
  BY <1>1 DEF IngestJob
<1>3. ingests[i].text # None
  BY <1>2 DEF Texts, None
<1>4. \A p \in PassagesOf(ingests[i].source, ingests[i].text) : p[1] = ingests[i].source
  BY DEF PassagesOf
<1> QED BY <1>1, <1>2, <1>3, <1>4, PassagesOfAreIds DEF DocumentInv

\* One case of DocumentStep.
LEMMA UpsertKeeps ==
  ASSUME DocumentInv, NEW i \in DOMAIN ingests, Upsert(i)
  PROVE  DocumentInv'
<1> DEFINE old == ingests[i]
<1>1. /\ raw' = raw /\ pieces' = pieces /\ uploads' = uploads /\ checkpoints' = checkpoints /\ graph' = graph
      /\ backfills' = backfills /\ builds' = builds /\ cleanups' = cleanups
      /\ deletes' = deletes /\ faults' = faults /\ cleaned' = cleaned /\ crossed' = crossed
      /\ old.pc = "parsed" /\ reused' = reused \cup {p \in Rows : p[1] = old.source}
      /\ ingests' = [ingests EXCEPT ![i].pc = "upserted"]
      /\ passages' = [p \in Ids |-> IF p \in PassagesOf(old.source, old.text)
                                       THEN [passages[p] EXCEPT !.text = old.text] ELSE passages[p]]
  BY DEF Upsert, store
<1>2. StoreTypes /\ JobsOK /\ TablesOK /\ ChunksOK
  BY DEF DocumentInv
<1>3. PICK job, rows, text : /\ job = [old EXCEPT !.pc = "upserted"] /\ text = old.text
                             /\ rows = PassagesOf(old.source, old.text)
  OBVIOUS
<1>4. /\ text \in Texts /\ text # None /\ rows \subseteq Ids /\ text <= uploads
      /\ \A p \in rows : p[1] = old.source
  BY <1>3, IngestIs DEF IngestOK
<1>5. job \in IngestJob /\ job.pc = "upserted" /\ job.text = text /\ job.source = old.source
  BY <1>3, IngestIs DEF IngestJob
<1>6. /\ ingests' \in Seq(IngestJob) /\ DOMAIN ingests' = DOMAIN ingests
      /\ \A j \in DOMAIN ingests : ingests'[j] = IF j = i THEN job ELSE ingests[j]
  <2>1. ingests' = [ingests EXCEPT ![i] = job]
    BY <1>1, <1>2, <1>3 DEF StoreTypes
  <2> QED BY <1>2, <1>5, <2>1, PutIs DEF StoreTypes
<1>7. /\ passages' \in [Ids -> [text : Texts \cup {None}, emb : Texts \cup {None}]]
      /\ \A p \in Ids : /\ passages'[p].text = IF p \in rows THEN text ELSE passages[p].text
                        /\ passages'[p].emb = passages[p].emb
  BY <1>1, <1>2, <1>3, <1>4 DEF StoreTypes
<1>8. Rows' = Rows \cup rows
  BY <1>4, <1>7 DEF Rows
<1>9. StoreTypes'
  <2>1. \A p \in Ids : passages'[p].text = None => passages'[p].emb = None
    BY <1>2, <1>4, <1>7 DEF StoreTypes
  <2>2. reused' \subseteq Ids /\ cleaned' \subseteq reused'
    BY <1>1, <1>2 DEF StoreTypes, Rows
  <2> QED BY <1>1, <1>2, <1>6, <1>7, <2>1, <2>2 DEF StoreTypes, Counts, IngestJob, BuildJob, CleanJob, Docs
<1>10. \A p \in rows : p \in Rows => p \in reused'
  BY <1>1, <1>4
<1>11. Kept
  <2>1. uploads <= uploads' /\ \A p \in Ids, t \in Texts : graph[p][t] <= graph'[p][t]
    <3>1. uploads \in Nat /\ \A p \in Ids, t \in Texts : graph[p][t] \in Nat
      BY <1>2, BoundAssumption DEF StoreTypes, Counts
    <3> QED BY <1>1, <3>1
  <2>2. \A p \in Ids, t \in Texts : IsOrWas(p, t) => IsOrWas(p, t)'
    BY <1>1, <1>7, <1>8, <1>10 DEF IsOrWas
  <2> QED BY <1>1, <1>8, <2>1, <2>2 DEF Kept
<1>12. IngestsMove
  <2>1. \A p \in rows : IsOrWas(p, text)'
    BY <1>4, <1>7, <1>8 DEF IsOrWas
  <2>2. PassagesOf(job.source, job.text)' = rows
    BY <1>1, <1>3, <1>5 DEF PassagesOf
  <2>3. IngestOK(job)'
    BY <1>1, <1>4, <1>5, <2>1, <2>2 DEF IngestOK
  <2> QED BY <1>6, <2>3 DEF IngestsMove
<1>13. JobsOK'
  BY <1>1, <1>2, <1>9, <1>11, <1>12, Unmoved, JobsStay
<1>14. TablesOK'
  <2>1. \A p \in (Rows \ reused)' : passages'[p].emb \in {None, passages'[p].text}
    <3> SUFFICES ASSUME NEW p \in (Rows \ reused)' PROVE passages'[p].emb \in {None, passages'[p].text}
      OBVIOUS
    <3>1. p \in Ids
      BY DEF Rows
    <3>2. CASE p \in Rows
      BY <1>1, <1>2, <1>7, <1>10, <3>1, <3>2 DEF TablesOK
    <3>3. CASE p \notin Rows
      BY <1>2, <1>7, <3>1, <3>3 DEF StoreTypes, Rows
    <3> QED BY <3>2, <3>3
  <2> QED BY <1>1, <1>2, <1>9, <1>11, <2>1, TablesStay
<1>15. ChunksOK'
  BY <1>1, <1>2 DEF ChunksOK, FromAttempts
<1>16. ASSUME Calm' PROVE CalmOK'
  <2>1. CalmOK /\ i \in Ingesting
    BY <1>1, <1>16 DEF Calm, DocumentInv, Ingesting
  <2>2. /\ Ingesting = {i} /\ Backfilling = {} /\ Building = {} /\ Cleaning = {}
        /\ IngestRuns(old) /\ AddedOnce /\ TakenOut
    BY <2>1, OnlyIngest
  <2>3. Backfilling' = {} /\ Building' = {} /\ Cleaning' = {} /\ AddedOnce' /\ TakenOut'
    BY <1>1, <1>8, <2>2 DEF Backfilling, Building, Cleaning, AddedOnce, TakenOut
  <2>4. Ingesting' = {i}
    BY <1>5, <1>6, <2>2 DEF Ingesting
  <2>5. PassagesOf(job.source, job.text)' = rows
    BY <1>1, <1>3, <1>5 DEF PassagesOf
  <2>6. \A p \in Rows : passages[p].emb \in {None, passages[p].text}
    BY <1>1, <2>2 DEF IngestRuns
  <2>7. IngestRuns(job)'
    <3>1. \A p \in Rows' \ rows : passages'[p].emb \in {None, passages'[p].text}
      BY <1>7, <1>8, <2>6 DEF Rows
    <3>2. \A p \in rows : p \in Rows' /\ passages'[p].text = job.text
      BY <1>4, <1>5, <1>7, <1>8
    <3> QED BY <1>5, <2>5, <3>1, <3>2 DEF IngestRuns
  <2> QED BY <1>6, <2>3, <2>4, <2>7 DEF CalmOK
<1> QED BY <1>9, <1>13, <1>14, <1>15, <1>16 DEF DocumentInv

\* One case of DocumentStep.
LEMMA EmbedKeeps ==
  ASSUME DocumentInv, NEW i \in DOMAIN ingests, Embed(i)
  PROVE  DocumentInv'
<1> DEFINE old == ingests[i]
<1>1. /\ raw' = raw /\ pieces' = pieces /\ uploads' = uploads /\ checkpoints' = checkpoints /\ graph' = graph
      /\ backfills' = backfills /\ builds' = builds /\ cleanups' = cleanups
      /\ deletes' = deletes /\ faults' = faults /\ reused' = reused /\ cleaned' = cleaned /\ crossed' = crossed
      /\ old.pc = "upserted" /\ ingests' = [ingests EXCEPT ![i].pc = "done"]
      /\ passages' = [p \in Ids |-> IF p \in PassagesOf(old.source, old.text) \cap Rows
                                       THEN [passages[p] EXCEPT !.emb = old.text] ELSE passages[p]]
  BY DEF Embed, store, history
<1>2. StoreTypes /\ JobsOK /\ TablesOK /\ ChunksOK
  BY DEF DocumentInv
<1>3. PICK job, rows, text : /\ job = [old EXCEPT !.pc = "done"] /\ text = old.text
                             /\ rows = PassagesOf(old.source, old.text)
  OBVIOUS
<1>4. /\ text \in Texts /\ text # None /\ rows \subseteq Ids /\ text <= uploads
      /\ \A p \in rows : IsOrWas(p, text)
  BY <1>1, <1>3, IngestIs DEF IngestOK
<1>5. job \in IngestJob /\ job.pc = "done" /\ job.text = text
  BY <1>3, IngestIs DEF IngestJob
<1>6. /\ ingests' \in Seq(IngestJob) /\ DOMAIN ingests' = DOMAIN ingests
      /\ \A j \in DOMAIN ingests : ingests'[j] = IF j = i THEN job ELSE ingests[j]
  <2>1. ingests' = [ingests EXCEPT ![i] = job]
    BY <1>1, <1>2, <1>3 DEF StoreTypes
  <2> QED BY <1>2, <1>5, <2>1, PutIs DEF StoreTypes
<1>7. /\ passages' \in [Ids -> [text : Texts \cup {None}, emb : Texts \cup {None}]]
      /\ \A p \in Ids : /\ passages'[p].text = passages[p].text
                        /\ passages'[p].emb = IF p \in rows \cap Rows THEN text ELSE passages[p].emb
  BY <1>1, <1>2, <1>3, <1>4 DEF StoreTypes
<1>8. Rows' = Rows
  BY <1>7 DEF Rows
<1>9. StoreTypes'
  <2>1. \A p \in Ids : passages'[p].text = None => passages'[p].emb = None
    BY <1>2, <1>4, <1>7 DEF StoreTypes, Rows
  <2> QED BY <1>1, <1>2, <1>6, <1>7, <2>1 DEF StoreTypes, Counts, IngestJob, BuildJob, CleanJob, Docs
<1>10. Kept
  <2>1. \A p \in Rows : passages'[p].text = passages[p].text
    BY <1>7 DEF Rows
  <2> QED BY <1>1, <1>2, <1>8, <2>1, KeptWhenTextsStay
<1>11. IngestsMove
  <2>1. IngestOK(job)'
    BY <1>1, <1>4, <1>5 DEF IngestOK
  <2> QED BY <1>6, <2>1 DEF IngestsMove
<1>12. JobsOK'
  BY <1>1, <1>2, <1>9, <1>10, <1>11, Unmoved, JobsStay
<1>13. TablesOK'
  <2>1. \A p \in (Rows \ reused)' : passages'[p].emb \in {None, passages'[p].text}
    <3> SUFFICES ASSUME NEW p \in (Rows \ reused)' PROVE passages'[p].emb \in {None, passages'[p].text}
      OBVIOUS
    <3>1. p \in Ids /\ p \in Rows \ reused
      BY <1>1, <1>8 DEF Rows
    <3>2. CASE p \in rows
      BY <1>4, <1>7, <3>1, <3>2 DEF IsOrWas
    <3>3. CASE p \notin rows
      BY <1>2, <1>7, <3>1, <3>3 DEF TablesOK
    <3> QED BY <3>2, <3>3
  <2> QED BY <1>1, <1>2, <1>9, <1>10, <2>1, TablesStay
<1>14. ChunksOK'
  BY <1>1, <1>2 DEF ChunksOK, FromAttempts
<1>15. ASSUME Calm' PROVE CalmOK'
  <2>1. CalmOK /\ i \in Ingesting
    BY <1>1, <1>15 DEF Calm, DocumentInv, Ingesting
  <2>2. /\ Ingesting = {i} /\ Backfilling = {} /\ Building = {} /\ Cleaning = {}
        /\ IngestRuns(old) /\ AddedOnce /\ TakenOut
    BY <2>1, OnlyIngest
  <2>3. Backfilling' = {} /\ Building' = {} /\ Cleaning' = {} /\ AddedOnce' /\ TakenOut'
    BY <1>1, <1>8, <2>2 DEF Backfilling, Building, Cleaning, AddedOnce, TakenOut
  <2>4. Ingesting' = {}
    BY <1>5, <1>6, <2>2 DEF Ingesting
  <2>5. /\ \A p \in Rows \ rows : passages[p].emb \in {None, passages[p].text}
        /\ \A p \in rows : passages[p].text = text
    BY <1>1, <1>3, <2>2 DEF IngestRuns
  <2>6. Embedded'
    BY <1>4, <1>7, <1>8, <2>5 DEF Embedded, Rows
  <2> QED BY <2>3, <2>4, <2>6 DEF CalmOK
<1> QED BY <1>9, <1>12, <1>13, <1>14, <1>15 DEF DocumentInv

\* One case of DocumentStep.
LEMMA BackfillKeeps ==
  ASSUME DocumentInv, Backfill
  PROVE  DocumentInv'
<1>1. /\ Launch
      /\ backfills' = Append(backfills, [p \in {p \in Rows : passages[p].emb = None} |-> passages[p].text])
      /\ raw' = raw /\ pieces' = pieces /\ uploads' = uploads
      /\ passages' = passages /\ checkpoints' = checkpoints /\ graph' = graph
      /\ ingests' = ingests /\ builds' = builds /\ cleanups' = cleanups
      /\ deletes' = deletes /\ faults' = faults /\ reused' = reused /\ cleaned' = cleaned /\ crossed' \in BOOLEAN
  BY DEF Backfill, Launch, tables, store
<1>2. StoreTypes /\ JobsOK /\ TablesOK /\ ChunksOK
  BY DEF DocumentInv
<1>3. PICK bare : bare = {p \in Rows : passages[p].emb = None}
  OBVIOUS
<1>4. PICK docs : docs = [p \in bare |-> passages[p].text]
  OBVIOUS
<1>5. /\ DOMAIN docs = bare /\ bare \subseteq Rows /\ Rows \subseteq Ids
      /\ \A p \in bare : docs[p] = passages[p].text
  BY <1>3, <1>4 DEF Rows
<1>6. docs \in Docs
  <2>1. \A p \in bare : passages[p].text \in Texts
    BY <1>2, <1>5 DEF StoreTypes, Rows
  <2>2. docs \in [bare -> Texts]
    BY <1>4, <2>1
  <2> QED BY <1>5, <2>2 DEF Docs
<1>7. /\ backfills' \in Seq(Docs) /\ Len(backfills) + 1 \in DOMAIN backfills' /\ backfills'[Len(backfills) + 1] = docs
      /\ \A i \in DOMAIN backfills : i \in DOMAIN backfills' /\ backfills'[i] = backfills[i]
      /\ \A i \in DOMAIN backfills' : i \in DOMAIN backfills \/ i = Len(backfills) + 1
  <2>1. backfills' = Append(backfills, docs)
    BY <1>1, <1>3, <1>4
  <2> QED BY <1>2, <1>6, <2>1, AppendIs DEF StoreTypes
<1>8. StoreTypes'
  BY <1>1, <1>2, <1>7 DEF StoreTypes, Counts, IngestJob, BuildJob, CleanJob, Docs
<1>9. Rows' = Rows
  BY <1>1 DEF Rows
<1>10. Kept
  BY <1>1, <1>2, <1>9, KeptWhenTextsStay
<1>11. BackfillsMove
  <2>1. BackfillOK(docs)'
    BY <1>1, <1>5, <1>9 DEF BackfillOK, IsOrWas
  <2> QED BY <1>7, <2>1 DEF BackfillsMove
<1>12. JobsOK'
  BY <1>1, <1>2, <1>8, <1>10, <1>11, Unmoved, JobsStay
<1>13. TablesOK'
  BY <1>1, <1>9, <1>2 DEF TablesOK
<1>14. ChunksOK'
  BY <1>1, <1>2 DEF ChunksOK, FromAttempts
<1>15. ASSUME Calm' PROVE CalmOK'
  <2>1. /\ Ingesting = {} /\ Backfilling = {} /\ Building = {} /\ Cleaning = {}
        /\ Embedded /\ AddedOnce /\ TakenOut
    BY <1>1, <1>15, BeginsAlone
  <2>2. /\ Ingesting' = {} /\ Building' = {} /\ Cleaning' = {}
        /\ Embedded' /\ AddedOnce' /\ TakenOut'
    BY <1>1, <1>9, <2>1 DEF Ingesting, Building, Cleaning, Embedded, AddedOnce, TakenOut
  <2>3. Backfilling' = {Len(backfills) + 1} \/ Backfilling' = {}
    BY <1>7, <2>1 DEF Backfilling
  <2>4. BackfillRuns(docs)'
    BY <1>1, <1>5, <1>9 DEF BackfillRuns
  <2> QED BY <1>7, <2>2, <2>3, <2>4 DEF CalmOK
<1> QED BY <1>8, <1>12, <1>13, <1>14, <1>15 DEF DocumentInv

\* One case of DocumentStep.
LEMMA BackfillBatchKeeps ==
  ASSUME DocumentInv, NEW i \in DOMAIN backfills, BackfillBatch(i)
  PROVE  DocumentInv'
<1> DEFINE old == backfills[i]
<1>1. /\ raw' = raw /\ pieces' = pieces /\ uploads' = uploads /\ checkpoints' = checkpoints /\ graph' = graph
      /\ ingests' = ingests /\ builds' = builds /\ cleanups' = cleanups
      /\ deletes' = deletes /\ faults' = faults /\ reused' = reused /\ cleaned' = cleaned /\ crossed' = crossed
  BY DEF BackfillBatch, store, history
<1>2. StoreTypes /\ JobsOK /\ TablesOK /\ ChunksOK
  BY DEF DocumentInv
<1>3. PICK p \in DOMAIN old :
         /\ backfills' = [backfills EXCEPT ![i] = [q \in DOMAIN old \ {p} |-> old[q]]]
         /\ passages' = IF p \in Rows THEN [passages EXCEPT ![p].emb = old[p]] ELSE passages
  BY <1>2 DEF BackfillBatch, StoreTypes
<1>4. old \in Docs /\ BackfillOK(old)
  BY <1>2 DEF StoreTypes, JobsOK
<1>5. /\ \A q \in DOMAIN old : q \in Ids /\ old[q] \in Texts /\ IsOrWas(q, old[q])
      /\ p \in Ids /\ old[p] \in Texts
  BY <1>4 DEF Docs, BackfillOK
<1>6. PICK docs : docs = [q \in DOMAIN old \ {p} |-> old[q]]
  OBVIOUS
<1>7. docs \in Docs /\ DOMAIN docs = DOMAIN old \ {p} /\ \A q \in DOMAIN docs : docs[q] = old[q]
  <2>1. DOMAIN docs = DOMAIN old \ {p} /\ \A q \in DOMAIN docs : docs[q] = old[q]
    BY <1>6
  <2>2. docs \in [DOMAIN old \ {p} -> Texts] /\ DOMAIN old \ {p} \in SUBSET Ids
    BY <1>5, <1>6
  <2> QED BY <2>1, <2>2 DEF Docs
<1>8. /\ backfills' \in Seq(Docs) /\ DOMAIN backfills' = DOMAIN backfills
      /\ \A j \in DOMAIN backfills : backfills'[j] = IF j = i THEN docs ELSE backfills[j]
  <2>1. backfills' = [backfills EXCEPT ![i] = docs]
    BY <1>3, <1>6
  <2> QED BY <1>2, <1>7, <2>1, PutIs DEF StoreTypes
<1>9. /\ passages' \in [Ids -> [text : Texts \cup {None}, emb : Texts \cup {None}]]
      /\ \A q \in Ids : /\ passages'[q].text = passages[q].text
                        /\ passages'[q].emb = IF q = p /\ p \in Rows THEN old[p] ELSE passages[q].emb
  <2>1. PICK text : text = old[p]
    OBVIOUS
  <2>2. CASE p \in Rows
    BY <1>2, <1>3, <1>5, <2>1, <2>2 DEF StoreTypes
  <2>3. CASE p \notin Rows
    BY <1>2, <1>3, <2>3 DEF StoreTypes
  <2> QED BY <2>2, <2>3
<1>10. Rows' = Rows
  BY <1>9 DEF Rows
<1>11. StoreTypes'
  <2>1. \A q \in Ids : passages'[q].text = None => passages'[q].emb = None
    BY <1>2, <1>9 DEF StoreTypes, Rows
  <2> QED BY <1>1, <1>2, <1>8, <1>9, <2>1 DEF StoreTypes, Counts, IngestJob, BuildJob, CleanJob, Docs
<1>12. Kept
  <2>1. \A q \in Rows : passages'[q].text = passages[q].text
    BY <1>9 DEF Rows
  <2> QED BY <1>1, <1>2, <1>10, <2>1, KeptWhenTextsStay
<1>13. BackfillsMove
  <2>1. BackfillOK(docs)'
    BY <1>1, <1>5, <1>7, <1>9, <1>10 DEF BackfillOK, IsOrWas
  <2> QED BY <1>8, <2>1 DEF BackfillsMove
<1>14. JobsOK'
  BY <1>1, <1>2, <1>11, <1>12, <1>13, Unmoved, JobsStay
<1>15. TablesOK'
  <2>1. \A q \in (Rows \ reused)' : passages'[q].emb \in {None, passages'[q].text}
    BY <1>1, <1>2, <1>5, <1>9, <1>10 DEF TablesOK, IsOrWas, Rows
  <2> QED BY <1>1, <1>2, <1>11, <1>12, <2>1, TablesStay
<1>16. ChunksOK'
  BY <1>1, <1>2 DEF ChunksOK, FromAttempts
<1>17. ASSUME Calm' PROVE CalmOK'
  <2>1. CalmOK /\ i \in Backfilling
    BY <1>1, <1>3, <1>17 DEF Calm, DocumentInv, Backfilling
  <2>2. /\ Ingesting = {} /\ Backfilling = {i} /\ Building = {} /\ Cleaning = {}
        /\ BackfillRuns(old) /\ Embedded /\ AddedOnce /\ TakenOut
    BY <2>1, OnlyBackfill
  <2>3. Ingesting' = {} /\ Building' = {} /\ Cleaning' = {} /\ AddedOnce' /\ TakenOut'
    BY <1>1, <1>10, <2>2 DEF Ingesting, Building, Cleaning, AddedOnce, TakenOut
  <2>4. Backfilling' = {i} \/ Backfilling' = {}
    BY <1>8, <2>2 DEF Backfilling
  <2>5. Embedded'
    BY <1>5, <1>9, <1>10, <2>2 DEF Embedded, BackfillRuns, Rows
  <2>6. BackfillRuns(docs)'
    BY <1>5, <1>7, <1>9, <1>10, <2>2 DEF BackfillRuns
  <2> QED BY <1>8, <2>3, <2>4, <2>5, <2>6 DEF CalmOK
<1> QED BY <1>11, <1>14, <1>15, <1>16, <1>17 DEF DocumentInv

\* One build gets on, and changes at most the checkpoints and, by adding to it, the graph.
BuildTurns(i, job) ==
    /\ raw' = raw /\ pieces' = pieces /\ uploads' = uploads /\ passages' = passages
    /\ ingests' = ingests /\ backfills' = backfills /\ cleanups' = cleanups
    /\ deletes' = deletes /\ reused' = reused /\ cleaned' = cleaned /\ crossed' = crossed
    /\ builds' = [builds EXCEPT ![i] = job]
    /\ checkpoints' \subseteq Ids /\ graph' \in Counts
    /\ \A p \in Ids, t \in Texts : graph[p][t] <= graph'[p][t]
    /\ faults' = faults \/ faults' = faults + 1

\* What a build that gets on keeps, ...
LEMMA BuildTurnsKept ==
  ASSUME DocumentInv, NEW i \in DOMAIN builds, NEW job \in BuildJob, BuildTurns(i, job)
  PROVE  /\ StoreTypes' /\ Rows' = Rows /\ Kept
         /\ DOMAIN builds' = DOMAIN builds /\ Len(builds') = Len(builds)
         /\ \A j \in DOMAIN builds : builds'[j] = IF j = i THEN job ELSE builds[j]
<1>1. StoreTypes /\ JobsOK /\ TablesOK /\ ChunksOK
  BY DEF DocumentInv
<1>2. /\ raw' = raw /\ pieces' = pieces /\ uploads' = uploads /\ passages' = passages
      /\ ingests' = ingests /\ backfills' = backfills /\ cleanups' = cleanups
      /\ deletes' = deletes /\ reused' = reused /\ cleaned' = cleaned /\ crossed' = crossed
      /\ builds' = [builds EXCEPT ![i] = job] /\ checkpoints' \subseteq Ids /\ graph' \in Counts
      /\ \A p \in Ids, t \in Texts : graph[p][t] <= graph'[p][t]
  BY DEF BuildTurns
<1>3. faults' \in Nat
  BY <1>1 DEF StoreTypes, BuildTurns
<1>4. /\ builds' \in Seq(BuildJob) /\ DOMAIN builds' = DOMAIN builds /\ Len(builds') = Len(builds)
      /\ \A j \in DOMAIN builds : builds'[j] = IF j = i THEN job ELSE builds[j]
  BY <1>1, <1>2, PutIs DEF StoreTypes
<1>5. StoreTypes'
  BY <1>1, <1>2, <1>3, <1>4 DEF StoreTypes, Counts, IngestJob, BuildJob, CleanJob, Docs
<1>6. Rows' = Rows
  BY <1>2 DEF Rows
<1>7. Kept
  <2>1. uploads <= uploads'
    BY <1>1, <1>2, BoundAssumption DEF StoreTypes
  <2> QED BY <1>2, <1>6, <2>1 DEF Kept, IsOrWas
<1> QED BY <1>4, <1>5, <1>6, <1>7

\* ... if what it has become is right.
LEMMA BuildTurnsKeep ==
  ASSUME DocumentInv, NEW i \in DOMAIN builds, NEW job \in BuildJob, BuildTurns(i, job), BuildOK(job)'
  PROVE  /\ JobsOK'
         /\ checkpoints' = checkpoints => TablesOK'
         /\ (/\ graph' = graph
             /\ \A p \in Ids : Open(job, p) => Open(builds[i], p) /\ Tries(builds[i], p) <= Tries(job, p)) => ChunksOK'
<1>1. StoreTypes /\ JobsOK /\ TablesOK /\ ChunksOK
  BY DEF DocumentInv
<1>2. /\ passages' = passages /\ ingests' = ingests /\ backfills' = backfills /\ cleanups' = cleanups
      /\ reused' = reused /\ graph' \in Counts
      /\ \A p \in Ids, t \in Texts : graph[p][t] <= graph'[p][t]
  BY DEF BuildTurns
<1>3. /\ StoreTypes' /\ Rows' = Rows /\ Kept
      /\ DOMAIN builds' = DOMAIN builds /\ Len(builds') = Len(builds)
      /\ \A j \in DOMAIN builds : builds'[j] = IF j = i THEN job ELSE builds[j]
  BY BuildTurnsKept
<1>4. BuildsMove
  BY <1>3 DEF BuildsMove
<1>5. CleanupsMove
  <2>1. ASSUME NEW j \in DOMAIN cleanups, NEW p \in Ids, NEW t \in Texts
        PROVE  cleanups[j].chunks[p][t] <= graph'[p][t]
    <3> DEFINE a == cleanups[j].chunks[p][t]
               b == graph[p][t]
               c == graph'[p][t]
    <3>1. a <= b /\ b <= c
      BY <1>1, <1>2, <2>1 DEF JobsOK, CleanOK
    <3>2. a \in Nat /\ b \in Nat /\ c \in Nat
      <4>1. cleanups[j] \in CleanJob /\ graph \in Counts
        BY <1>1 DEF StoreTypes
      <4>2. cleanups[j].chunks \in Counts
        BY <4>1 DEF CleanJob
      <4> QED BY <1>2, <4>1, <4>2 DEF Counts
    <3> HIDE DEF a, b, c
    <3>3. a <= c
      BY <3>1, <3>2
    <3> QED BY <3>3 DEF a, c
  <2> QED BY <1>1, <1>2, <2>1 DEF CleanupsMove, JobsOK
<1>6. JobsOK'
  BY <1>1, <1>2, <1>3, <1>4, <1>5, Unmoved, JobsStay
<1>7. ASSUME checkpoints' = checkpoints PROVE TablesOK'
  <2>1. \A p \in (Rows \ reused)' : passages'[p].emb \in {None, passages'[p].text}
    BY <1>1, <1>2, <1>3 DEF TablesOK
  <2> QED BY <1>1, <1>3, <1>7, <2>1, TablesStay
<1>8. ASSUME graph' = graph, \A p \in Ids : Open(job, p) => Open(builds[i], p) /\ Tries(builds[i], p) <= Tries(job, p)
       PROVE  ChunksOK'
  <2>1. \A j \in DOMAIN builds, p \in Ids : Open(builds'[j], p) =>
            Open(builds[j], p) /\ Tries(builds[j], p) <= Tries(builds'[j], p)
    <3> SUFFICES ASSUME NEW j \in DOMAIN builds, NEW p \in Ids, Open(builds'[j], p)
                 PROVE  Open(builds[j], p) /\ Tries(builds[j], p) <= Tries(builds'[j], p)
      OBVIOUS
    <3>1. CASE j = i
      BY <1>3, <1>8, <3>1
    <3>2. CASE j # i
      <4>1. builds'[j] = builds[j] /\ builds[j] \in BuildJob
        BY <1>1, <1>3, <3>2 DEF StoreTypes
      <4>2. builds[j].tries[p] \in Nat
        BY <4>1 DEF BuildJob
      <4>3. Tries(builds[j], p) \in Nat
        BY <4>2 DEF Tries
      <4> QED BY <4>1, <4>3
    <3> QED BY <3>1, <3>2
  <2>2. \A p \in Ids, t \in Texts : graph'[p][t] <= graph[p][t]
    <3>1. \A p \in Ids, t \in Texts : graph[p][t] \in Nat
      BY <1>1 DEF StoreTypes, Counts
    <3> QED BY <1>8, <3>1
  <2>3. Len(builds') <= MaxBuilds /\ DOMAIN builds \subseteq DOMAIN builds'
    BY <1>1, <1>3 DEF ChunksOK
  <2> QED BY <1>1, <1>3, <2>1, <2>2, <2>3, ChunksStay
<1> QED BY <1>6, <1>7, <1>8

\* And it goes on alone, or ends.
LEMMA BuildGoesOnAlone ==
  ASSUME DocumentInv, NEW i \in DOMAIN builds, builds[i].pc # "done", NEW job \in BuildJob,
         BuildTurns(i, job), BuildOK(job)', faults' = faults, Calm',
         \A p \in Ids \ Rows : graph'[p] = graph[p],
         \/ job.pc # "done" /\ BuildRuns(job)'
         \/ job.pc = "done" /\ AddedOnce'
  PROVE  CalmOK'
<1>1. /\ passages' = passages /\ ingests' = ingests /\ backfills' = backfills /\ cleanups' = cleanups
      /\ deletes' = deletes /\ cleaned' = cleaned /\ crossed' = crossed
  BY DEF BuildTurns
<1>2. /\ Rows' = Rows /\ DOMAIN builds' = DOMAIN builds
      /\ \A j \in DOMAIN builds : builds'[j] = IF j = i THEN job ELSE builds[j]
  BY BuildTurnsKept
<1>3. CalmOK /\ i \in Building
  BY <1>1 DEF Calm, DocumentInv, Building
<1>4. /\ Ingesting = {} /\ Backfilling = {} /\ Building = {i} /\ Cleaning = {}
      /\ Embedded /\ TakenOut
  BY <1>3, OnlyBuild
<1>5. Ingesting' = {} /\ Backfilling' = {} /\ Cleaning' = {} /\ Embedded'
  BY <1>1, <1>2, <1>4 DEF Ingesting, Backfilling, Cleaning, Embedded
<1>6. TakenOut'
  <2>1. cleaned \subseteq Ids
    BY DEF DocumentInv, StoreTypes
  <2> QED BY <1>1, <1>2, <1>4, <2>1 DEF TakenOut
<1>7. CASE job.pc # "done" /\ BuildRuns(job)'
  <2>1. Building' = {i}
    BY <1>2, <1>4, <1>7 DEF Building
  <2> QED BY <1>2, <1>5, <1>6, <1>7, <2>1 DEF CalmOK
<1>8. CASE job.pc = "done" /\ AddedOnce'
  <2>1. Building' = {}
    BY <1>2, <1>4, <1>8 DEF Building
  <2> QED BY <1>5, <1>6, <1>8, <2>1 DEF CalmOK
<1> QED BY <1>7, <1>8

\* A build that has ended is a build, and right.
LEMMA BuiltIs == Built \in BuildJob /\ Built.pc = "done" /\ BuildOK(Built)' /\ \A p \in Ids : ~Open(Built, p)
<1>1. Built.docs \in Docs
  <2>1. <<>> \in [{} -> Texts]
    OBVIOUS
  <2> QED BY <2>1 DEF Built, Docs
<1>2. DOMAIN Built.docs = {}
  BY DEF Built
<1>3. Built' = Built
  BY DEF Built, NoTries
<1>4. Built.tries \in [Ids -> Nat]
  BY DEF Built, NoTries
<1> QED BY <1>1, <1>2, <1>3, <1>4 DEF Built, BuildJob, BuildOK, Open

\* What a build under way works on.
LEMMA BuildIs ==
  ASSUME DocumentInv, NEW i \in DOMAIN builds
  PROVE  /\ builds[i] \in BuildJob /\ BuildOK(builds[i])
         /\ builds[i].docs \in Docs /\ builds[i].tries \in [Ids -> Nat]
         /\ builds[i].todo \subseteq DOMAIN builds[i].docs /\ builds[i].written \subseteq DOMAIN builds[i].docs
         /\ \A p \in DOMAIN builds[i].docs : p \in Ids /\ builds[i].docs[p] \in Texts
         /\ \A p \in Ids : Tries(builds[i], p) \in Nat
<1>1. builds[i] \in BuildJob /\ BuildOK(builds[i])
  BY DEF DocumentInv, StoreTypes, JobsOK
<1>2. builds[i].docs \in Docs /\ builds[i].tries \in [Ids -> Nat]
  BY <1>1 DEF BuildJob
<1>3. \A p \in DOMAIN builds[i].docs : p \in Ids /\ builds[i].docs[p] \in Texts
  BY <1>2 DEF Docs
<1>4. \A p \in Ids : builds[i].tries[p] \in Nat
  BY <1>2
<1> QED BY <1>1, <1>2, <1>3, <1>4 DEF BuildOK, Tries

\* One case of DocumentStep.
LEMMA LoadKeeps ==
  ASSUME DocumentInv, Load
  PROVE  DocumentInv'
<1>1. /\ Launch /\ Len(builds) < MaxBuilds
      /\ builds' = Append(builds, [pc |-> "loaded", docs |-> [p \in Rows |-> passages[p].text],
                                   todo |-> {}, written |-> {}, tries |-> NoTries])
      /\ raw' = raw /\ pieces' = pieces /\ uploads' = uploads
      /\ passages' = passages /\ checkpoints' = checkpoints /\ graph' = graph
      /\ ingests' = ingests /\ backfills' = backfills /\ cleanups' = cleanups
      /\ deletes' = deletes /\ faults' = faults /\ reused' = reused /\ cleaned' = cleaned /\ crossed' \in BOOLEAN
  BY DEF Load, Launch, tables, store
<1>2. StoreTypes /\ JobsOK /\ TablesOK /\ ChunksOK
  BY DEF DocumentInv
<1>3. PICK docs : docs = [p \in Rows |-> passages[p].text]
  OBVIOUS
<1>4. /\ docs \in Docs /\ DOMAIN docs = Rows /\ Rows \subseteq Ids
      /\ \A p \in Rows : docs[p] = passages[p].text
  <2>1. \A p \in Rows : passages[p].text \in Texts
    BY <1>2 DEF StoreTypes, Rows
  <2>2. docs \in [Rows -> Texts] /\ Rows \subseteq Ids
    BY <1>3, <2>1 DEF Rows
  <2> QED BY <1>3, <2>2 DEF Docs
<1>5. PICK job : job = [pc |-> "loaded", docs |-> docs, todo |-> {}, written |-> {}, tries |-> NoTries]
  OBVIOUS
<1>6. NoTries \in [Ids -> Nat] /\ \A p \in Ids : NoTries[p] = 0
  BY DEF NoTries
<1>7. /\ job \in BuildJob /\ job.pc = "loaded" /\ job.docs = docs /\ job.todo = {} /\ job.written = {}
      /\ \A p \in Ids : job.tries[p] = 0
  BY <1>4, <1>5, <1>6 DEF BuildJob
<1>8. /\ builds' \in Seq(BuildJob) /\ Len(builds') = Len(builds) + 1
      /\ Len(builds) + 1 \in DOMAIN builds' /\ builds'[Len(builds) + 1] = job
      /\ \A i \in DOMAIN builds : i \in DOMAIN builds' /\ builds'[i] = builds[i]
      /\ \A i \in DOMAIN builds' : i \in DOMAIN builds \/ i = Len(builds) + 1
  <2>1. builds' = Append(builds, job)
    BY <1>1, <1>3, <1>5
  <2> QED BY <1>2, <1>7, <2>1, AppendIs DEF StoreTypes
<1>9. StoreTypes'
  BY <1>1, <1>2, <1>8 DEF StoreTypes, Counts, IngestJob, BuildJob, CleanJob, Docs
<1>10. Rows' = Rows
  BY <1>1 DEF Rows
<1>11. Kept
  BY <1>1, <1>2, <1>10, KeptWhenTextsStay
<1>12. BuildsMove
  <2>1. \A p \in Rows : IsOrWas(p, docs[p])'
    BY <1>1, <1>4, <1>10 DEF IsOrWas
  <2>2. BuildOK(job)'
    BY <1>4, <1>7, <2>1 DEF BuildOK
  <2> QED BY <1>8, <2>2 DEF BuildsMove
<1>13. JobsOK'
  BY <1>1, <1>2, <1>9, <1>11, <1>12, Unmoved, JobsStay
<1>14. TablesOK'
  BY <1>1, <1>10, <1>2 DEF TablesOK
<1>15. ChunksOK'
  <2>1. \A i \in DOMAIN builds, p \in Ids : Open(builds'[i], p) =>
            Open(builds[i], p) /\ Tries(builds[i], p) <= Tries(builds'[i], p)
    BY <1>8, BuildIs
  <2>2. \A p \in Ids, t \in Texts : graph'[p][t] <= graph[p][t]
    <3>1. \A p \in Ids, t \in Texts : graph[p][t] \in Nat
      BY <1>2 DEF StoreTypes, Counts
    <3> QED BY <1>1, <3>1
  <2>3. Len(builds') <= MaxBuilds
    BY <1>1, <1>2, <1>8, BoundAssumption DEF StoreTypes
  <2>4. DOMAIN builds \subseteq DOMAIN builds'
    BY <1>8
  <2> QED BY <1>2, <1>9, <2>1, <2>2, <2>3, <2>4, ChunksStay
<1>16. ASSUME Calm' PROVE CalmOK'
  <2>1. /\ Ingesting = {} /\ Backfilling = {} /\ Building = {} /\ Cleaning = {}
        /\ Embedded /\ AddedOnce /\ TakenOut
    BY <1>1, <1>16, BeginsAlone
  <2>2. /\ Ingesting' = {} /\ Backfilling' = {} /\ Cleaning' = {}
        /\ Embedded' /\ TakenOut'
    BY <1>1, <1>10, <2>1 DEF Ingesting, Backfilling, Cleaning, Embedded, TakenOut
  <2>3. Building' = {Len(builds) + 1}
    BY <1>7, <1>8, <2>1 DEF Building
  <2>4. BuildRuns(job)'
    BY <1>1, <1>4, <1>7, <1>10, <2>1 DEF BuildRuns, AddedOnce
  <2> QED BY <1>8, <2>2, <2>3, <2>4 DEF CalmOK
<1> QED BY <1>9, <1>13, <1>14, <1>15, <1>16 DEF DocumentInv

\* A build that has picked its targets is right, and picking them is no attempt.
LEMMA BegunIs ==
  ASSUME DocumentInv, NEW i \in DOMAIN builds, NEW old, old = builds[i], old.pc = "loaded",
         NEW targets \in SUBSET DOMAIN old.docs, NEW job, job = Begun(old, targets)
  PROVE  /\ job \in BuildJob /\ (Kept /\ StoreTypes' => BuildOK(job)')
         /\ \A p \in Ids : Open(job, p) => Open(old, p) /\ Tries(old, p) <= Tries(job, p)
         /\ \/ job = Built
            \/ job.pc = "building" /\ job.docs = old.docs /\ job.todo = targets /\ job.written = old.written
<1>1. CASE targets = {}
  <2>1. job = Built
    BY <1>1 DEF Begun
  <2> QED BY <2>1, BuiltIs
<1>2. CASE targets # {}
  <2>1. job = [old EXCEPT !.todo = targets, !.pc = "building"]
    BY <1>2 DEF Begun
  <2>2. /\ old \in BuildJob /\ BuildOK(old) /\ old.todo = {} /\ \A p \in Ids : old.tries[p] = 0
        /\ \A p \in DOMAIN old.docs : p \in Ids /\ old.docs[p] \in Texts
        /\ \A p \in Ids : Tries(old, p) \in Nat
    BY BuildIs DEF BuildOK
  <2>3. /\ job \in BuildJob /\ job.pc = "building" /\ job.docs = old.docs /\ job.todo = targets
        /\ job.written = old.written /\ job.tries = old.tries
    <3>1. targets \in SUBSET Ids
      BY <2>2
    <3> QED BY <2>1, <2>2, <3>1 DEF BuildJob
  <2>4. ASSUME Kept, StoreTypes' PROVE BuildOK(job)'
    <3>1. BuildOK(old)'
      BY <2>2, <2>4, BuildStays DEF DocumentInv
    <3>2. \A p \in targets : job.tries[p] < MaxRetries
      BY <2>2, <2>3, BoundAssumption
    <3> QED BY <2>3, <3>1, <3>2 DEF BuildOK
  <2>5. \A p \in Ids : Open(old, p) /\ Tries(old, p) <= Tries(job, p)
    BY <2>2, <2>3 DEF Open, Tries
  <2> QED BY <2>3, <2>4, <2>5
<1> QED BY <1>1, <1>2

\* Targets are passages the build has read and, unless the checkpoints could not be read, that have none.
LEMMA TargetsAre ==
  ASSUME NEW docs, NEW processed, NEW targets \in Targets(docs, processed)
  PROVE  targets \subseteq docs \ processed
BY DEF Targets

\* One case of DocumentStep.
LEMMA SelectKeeps ==
  ASSUME DocumentInv, NEW i \in DOMAIN builds, Select(i) \/ SelectBlind(i)
  PROVE  DocumentInv'
<1>0. PICK old : old = builds[i]
  OBVIOUS
<1>1. /\ raw' = raw /\ pieces' = pieces /\ uploads' = uploads /\ passages' = passages
      /\ ingests' = ingests /\ backfills' = backfills /\ cleanups' = cleanups
      /\ deletes' = deletes /\ reused' = reused /\ cleaned' = cleaned /\ crossed' = crossed
      /\ checkpoints' = checkpoints /\ graph' = graph /\ old.pc = "loaded"
  BY <1>0 DEF Select, SelectBlind, store, tables, history
<1>2. StoreTypes /\ TablesOK /\ ChunksOK /\ JobsOK
  BY DEF DocumentInv
<1>3. PICK targets \in SUBSET DOMAIN old.docs :
         /\ builds' = [builds EXCEPT ![i] = Begun(old, targets)]
         /\ \/ faults' = faults /\ targets \cap checkpoints = {}
            \/ faults' = faults + 1
  <2>1. CASE Select(i)
    <3>1. PICK targets \in Targets(DOMAIN old.docs, checkpoints) :
             builds' = [builds EXCEPT ![i] = Begun(old, targets)] /\ faults' = faults
      BY <1>0, <1>2, <2>1 DEF Select, StoreTypes
    <3>2. targets \subseteq DOMAIN old.docs \ checkpoints
      BY <3>1, TargetsAre
    <3> QED BY <3>1, <3>2
  <2>2. CASE SelectBlind(i)
    <3>1. PICK targets \in Targets(DOMAIN old.docs, {}) :
             builds' = [builds EXCEPT ![i] = Begun(old, targets)] /\ faults' = faults + 1
      BY <1>0, <1>2, <2>2 DEF SelectBlind, StoreTypes
    <3>2. targets \subseteq DOMAIN old.docs
      BY <3>1, TargetsAre
    <3> QED BY <3>1, <3>2
  <2> QED BY <2>1, <2>2
<1>4. PICK job : job = Begun(old, targets)
  OBVIOUS
<1>5. /\ job \in BuildJob /\ (Kept /\ StoreTypes' => BuildOK(job)')
      /\ \A p \in Ids : Open(job, p) => Open(old, p) /\ Tries(old, p) <= Tries(job, p)
      /\ \/ job = Built
         \/ job.pc = "building" /\ job.docs = old.docs /\ job.todo = targets /\ job.written = old.written
  BY <1>0, <1>1, <1>4, BegunIs
<1>6. BuildTurns(i, job)
  <2>1. \A p \in Ids, t \in Texts : graph[p][t] \in Nat
    BY <1>2 DEF StoreTypes, Counts
  <2>2. /\ \A p \in Ids, t \in Texts : graph[p][t] <= graph'[p][t]
        /\ checkpoints' \subseteq Ids /\ graph' \in Counts
    BY <1>1, <1>2, <2>1 DEF StoreTypes
  <2> QED BY <1>1, <1>3, <1>4, <2>2 DEF BuildTurns
<1>7. StoreTypes' /\ Rows' = Rows /\ Kept
  BY <1>5, <1>6, BuildTurnsKept
<1>8. BuildOK(job)'
  BY <1>5, <1>7
<1>9. JobsOK' /\ TablesOK' /\ ChunksOK'
  BY <1>0, <1>1, <1>5, <1>6, <1>8, BuildTurnsKeep
<1>10. ASSUME Calm' PROVE CalmOK'
  <2>1. faults' = faults /\ targets \cap checkpoints = {}
    BY <1>2, <1>3, <1>10 DEF Calm, StoreTypes
  <2>2. BuildRuns(old)
    <3>1. CalmOK /\ i \in Building
      BY <1>0, <1>1, <1>10, <2>1 DEF Calm, DocumentInv, Building
    <3> QED BY <1>0, <3>1, OnlyBuild
  <2>3. old.todo = {}
    BY <1>0, <1>1, BuildIs DEF BuildOK
  <2>4. \A p \in Ids, t \in Texts : graph[p][t] <= 1 /\ (graph[p][t] > 0 => p \in checkpoints)
    BY <2>2, <2>3 DEF BuildRuns
  <2>5. CASE job = Built
    <3>1. job.pc = "done" /\ AddedOnce'
      BY <1>1, <2>4, <2>5, BuiltIs DEF AddedOnce
    <3> QED BY <1>0, <1>1, <1>5, <1>6, <1>8, <1>10, <2>1, <3>1, BuildGoesOnAlone
  <2>6. CASE job.pc = "building" /\ job.docs = old.docs /\ job.todo = targets /\ job.written = old.written
    <3>1. BuildRuns(job)'
      BY <1>1, <1>7, <2>1, <2>2, <2>4, <2>6 DEF BuildRuns
    <3> QED BY <1>0, <1>1, <1>5, <1>6, <1>8, <1>10, <2>1, <2>6, <3>1, BuildGoesOnAlone
  <2> QED BY <1>5, <2>5, <2>6
<1> QED BY <1>7, <1>9, <1>10 DEF DocumentInv

\* The graph when an attempt to add a passage has got there.
LEMMA AddedIs ==
  ASSUME DocumentInv, NEW i \in DOMAIN builds, NEW p \in builds[i].todo
  PROVE  /\ p \in Ids /\ builds[i].docs[p] \in Texts /\ Added(i, p) \in Counts
         /\ \A q \in Ids, t \in Texts :
               Added(i, p)[q][t] = IF q = p /\ t = builds[i].docs[p] THEN graph[q][t] + 1 ELSE graph[q][t]
<1>1. p \in Ids /\ builds[i].docs[p] \in Texts /\ graph \in Counts
  BY BuildIs DEF DocumentInv, StoreTypes
<1>2. PICK text : text = builds[i].docs[p]
  OBVIOUS
<1>3. PICK more : more = [graph[p] EXCEPT ![text] = graph[p][text] + 1]
  OBVIOUS
<1>4. graph[p] \in [Texts -> Nat] /\ graph[p][text] \in Nat /\ text \in Texts
  BY <1>1, <1>2 DEF Counts
<1>5. more \in [Texts -> Nat] /\ \A t \in Texts : more[t] = IF t = text THEN graph[p][t] + 1 ELSE graph[p][t]
  BY <1>3, <1>4
<1>6. Added(i, p) = [graph EXCEPT ![p] = more]
  BY <1>1, <1>2, <1>3 DEF Added, Counts
<1>7. Added(i, p) \in Counts /\ \A q \in Ids : Added(i, p)[q] = IF q = p THEN more ELSE graph[q]
  BY <1>1, <1>5, <1>6 DEF Counts
<1> QED BY <1>1, <1>2, <1>5, <1>7

\* What adding a passage keeps of the graph.
LEMMA AddedKeeps ==
  ASSUME DocumentInv, NEW i \in DOMAIN builds, NEW p \in builds[i].todo, graph' \in {graph, Added(i, p)}
  PROVE  /\ graph' \in Counts
         /\ \A q \in Ids, t \in Texts : /\ graph[q][t] <= graph'[q][t]
                                        /\ graph'[q][t] <= graph[q][t] + 1
                                        /\ q # p => graph'[q][t] <= graph[q][t]
<1>1. \A q \in Ids, t \in Texts : graph[q][t] \in Nat
  BY DEF DocumentInv, StoreTypes, Counts
<1>2. graph' \in Counts
  BY AddedIs DEF DocumentInv, StoreTypes
<1>3. \A q \in Ids, t \in Texts : graph'[q][t] = graph[q][t] \/ (q = p /\ graph'[q][t] = graph[q][t] + 1)
  BY AddedIs
<1>4. \A m \in Nat : m <= m /\ m <= m + 1 /\ m + 1 <= m + 1
  OBVIOUS
<1> QED BY <1>1, <1>2, <1>3, <1>4

\* A build that is through with a passage is right.
LEMMA WithoutIs ==
  ASSUME DocumentInv, NEW i \in DOMAIN builds, NEW old, old = builds[i], old.pc = "building", NEW p \in old.todo,
         NEW job, job = Without(old, p)
  PROVE  /\ job \in BuildJob /\ (Kept /\ StoreTypes' => BuildOK(job)')
         /\ \A q \in Ids : Open(job, q) => Open(old, q) /\ q # p /\ Tries(job, q) = Tries(old, q)
         /\ \/ job = Built /\ old.todo = {p}
            \/ job.pc = "building" /\ job.docs = old.docs /\ job.todo = old.todo \ {p} /\ job.written = old.written
<1>1. CASE old.todo = {p}
  <2>1. job = Built
    BY <1>1 DEF Without
  <2> QED BY <1>1, <2>1, BuiltIs
<1>2. CASE old.todo # {p}
  <2>1. job = [old EXCEPT !.todo = old.todo \ {p}]
    BY <1>2, BuildIs DEF Without, BuildJob
  <2>2. old \in BuildJob /\ BuildOK(old)
    BY BuildIs
  <2>3. /\ job \in BuildJob /\ job.pc = "building" /\ job.docs = old.docs /\ job.todo = old.todo \ {p}
        /\ job.written = old.written /\ job.tries = old.tries
    BY <2>1, <2>2 DEF BuildJob
  <2>4. ASSUME Kept, StoreTypes' PROVE BuildOK(job)'
    <3>1. BuildOK(old)'
      BY <2>2, <2>4, BuildStays DEF DocumentInv
    <3> QED BY <2>3, <3>1 DEF BuildOK
  <2> QED BY <2>3, <2>4 DEF Open, Tries
<1> QED BY <1>1, <1>2

\* One case of DocumentStep.
LEMMA WriteKeeps ==
  ASSUME DocumentInv, NEW i \in DOMAIN builds, NEW p, Write(i, p)
  PROVE  DocumentInv'
<1>0. PICK old : old = builds[i]
  OBVIOUS
<1>1. /\ raw' = raw /\ pieces' = pieces /\ uploads' = uploads /\ passages' = passages
      /\ ingests' = ingests /\ backfills' = backfills /\ cleanups' = cleanups
      /\ deletes' = deletes /\ reused' = reused /\ cleaned' = cleaned /\ crossed' = crossed
      /\ checkpoints' = checkpoints /\ faults' = faults /\ graph' = Added(i, p)
      /\ old.pc = "building" /\ p \in old.todo /\ p \notin old.written
      /\ builds' = [builds EXCEPT ![i].written = @ \cup {p}]
  BY <1>0 DEF Write, store, history
<1>2. StoreTypes /\ TablesOK /\ ChunksOK /\ JobsOK
  BY DEF DocumentInv
<1>3. PICK job : job = [old EXCEPT !.written = old.written \cup {p}]
  OBVIOUS
<1>4. /\ old \in BuildJob /\ BuildOK(old) /\ p \in DOMAIN old.docs /\ p \in Ids /\ old.docs[p] \in Texts
      /\ old.tries[p] < MaxRetries /\ \A q \in Ids : Tries(old, q) \in Nat
  BY <1>0, <1>1, BuildIs DEF BuildOK
<1>5. /\ job \in BuildJob /\ job.pc = "building" /\ job.docs = old.docs /\ job.todo = old.todo
      /\ job.written = old.written \cup {p} /\ job.tries = old.tries
  BY <1>1, <1>3, <1>4 DEF BuildJob
<1>6. /\ graph' \in Counts
      /\ \A q \in Ids, t \in Texts : /\ graph[q][t] <= graph'[q][t]
                                     /\ graph'[q][t] <= graph[q][t] + 1
                                     /\ q # p => graph'[q][t] <= graph[q][t]
      /\ \A q \in Ids, t \in Texts : graph'[q][t] = IF q = p /\ t = old.docs[p] THEN graph[q][t] + 1 ELSE graph[q][t]
      /\ \A q \in Ids, t \in Texts : graph[q][t] \in Nat
  <2>1. p \in builds[i].todo /\ graph' \in {graph, Added(i, p)}
    BY <1>0, <1>1
  <2>2. /\ graph' \in Counts
        /\ \A q \in Ids, t \in Texts : /\ graph[q][t] <= graph'[q][t]
                                       /\ graph'[q][t] <= graph[q][t] + 1
                                       /\ q # p => graph'[q][t] <= graph[q][t]
    BY <2>1, AddedKeeps
  <2>3. \A q \in Ids, t \in Texts : graph'[q][t] = IF q = p /\ t = old.docs[p] THEN graph[q][t] + 1 ELSE graph[q][t]
    BY <1>0, <1>1, <2>1, AddedIs
  <2>4. \A q \in Ids, t \in Texts : graph[q][t] \in Nat
    BY <1>2 DEF StoreTypes, Counts
  <2> QED BY <2>2, <2>3, <2>4
<1>7. BuildTurns(i, job)
  <2>1. builds' = [builds EXCEPT ![i] = job]
    BY <1>0, <1>1, <1>2, <1>3 DEF StoreTypes
  <2> QED BY <1>1, <1>2, <1>6, <2>1 DEF BuildTurns, StoreTypes
<1>8. /\ StoreTypes' /\ Rows' = Rows /\ Kept /\ DOMAIN builds' = DOMAIN builds /\ Len(builds') = Len(builds)
      /\ \A j \in DOMAIN builds : builds'[j] = IF j = i THEN job ELSE builds[j]
  BY <1>5, <1>7, BuildTurnsKept
<1>9. BuildOK(job)'
  <2>1. BuildOK(old)'
    BY <1>2, <1>4, <1>8, BuildStays
  <2>2. graph'[p][old.docs[p]] > 0
    BY <1>4, <1>6
  <2> QED BY <1>1, <1>4, <1>5, <2>1, <2>2 DEF BuildOK
<1>10. JobsOK' /\ TablesOK'
  BY <1>1, <1>5, <1>7, <1>9, BuildTurnsKeep
<1>11. ChunksOK'
  <2>1. \A q \in Ids : Open(job, q) =>
            Open(old, q) /\ Tries(job, q) = Tries(old, q) + (IF q = p THEN 1 ELSE 0)
    <3> SUFFICES ASSUME NEW q \in Ids, Open(job, q)
                 PROVE  Open(old, q) /\ Tries(job, q) = Tries(old, q) + (IF q = p THEN 1 ELSE 0)
      OBVIOUS
    <3>1. old.tries[q] \in Nat
      BY <1>4 DEF BuildJob
    <3>2. Open(old, q)
      BY <1>1, <1>5 DEF Open
    <3> QED BY <1>1, <1>5, <3>1, <3>2 DEF Tries
  <2>2. Open(old, p) /\ Len(builds') <= MaxBuilds
    BY <1>1, <1>2, <1>8 DEF Open, ChunksOK
  <2>3. \A q \in Ids : Open(builds'[i], q) =>
            Open(builds[i], q) /\ Tries(builds'[i], q) = Tries(builds[i], q) + (IF q = p THEN 1 ELSE 0)
    BY <1>0, <1>8, <2>1
  <2>4. Open(builds[i], p) /\ p \notin builds[i].written /\ builds[i].tries[p] < MaxRetries
    BY <1>0, <1>1, <1>4, <2>2
  <2>5. \A j \in DOMAIN builds \ {i} : builds'[j] = builds[j]
    BY <1>8
  <2> QED BY <1>2, <1>4, <1>6, <1>8, <2>2, <2>3, <2>4, <2>5, ChunkAdded
<1>12. ASSUME Calm' PROVE CalmOK'
  <2>1. BuildRuns(old)
    <3>1. CalmOK /\ i \in Building
      BY <1>0, <1>1, <1>12 DEF Calm, DocumentInv, Building
    <3> QED BY <1>0, <3>1, OnlyBuild
  <2>2. p \in Rows /\ p \notin checkpoints
    BY <1>1, <1>4, <2>1 DEF BuildRuns
  <2>3. \A t \in Texts : graph[p][t] = 0
    <3>1. \A t \in Texts : ~(graph[p][t] > 0)
      BY <1>1, <1>4, <2>1, <2>2 DEF BuildRuns
    <3> QED BY <1>4, <1>6, <3>1
  <2>4. \A q \in Ids, t \in Texts :
           graph'[q][t] <= 1 /\ (graph'[q][t] > 0 => q \in checkpoints \/ q \in job.written \cap job.todo)
    <3> SUFFICES ASSUME NEW q \in Ids, NEW t \in Texts
                 PROVE  graph'[q][t] <= 1 /\ (graph'[q][t] > 0 => q \in checkpoints \/ q \in job.written \cap job.todo)
      OBVIOUS
    <3>1. CASE q = p
      <4>1. graph'[q][t] <= 1
        BY <1>6, <2>3, <3>1
      <4> QED BY <1>1, <1>5, <3>1, <4>1
    <3>2. CASE q # p
      <4>1. graph'[q][t] = graph[q][t]
        BY <1>6, <3>2
      <4> QED BY <1>5, <2>1, <4>1 DEF BuildRuns
    <3> QED BY <3>1, <3>2
  <2>5. BuildRuns(job)'
    BY <1>1, <1>5, <1>8, <2>1, <2>4 DEF BuildRuns
  <2>6. \A q \in Ids \ Rows : graph'[q] = graph[q]
    <3>1. ASSUME NEW q \in Ids, q # p PROVE graph'[q] = graph[q]
      <4>1. graph'[q] \in [Texts -> Nat] /\ graph[q] \in [Texts -> Nat]
        BY <1>2, <1>6 DEF StoreTypes, Counts
      <4>2. \A t \in Texts : graph'[q][t] = graph[q][t]
        BY <1>6, <3>1
      <4> QED BY <4>1, <4>2
    <3> QED BY <2>2, <3>1
  <2> QED BY <1>0, <1>1, <1>5, <1>7, <1>9, <1>12, <2>5, <2>6, BuildGoesOnAlone
<1> QED BY <1>8, <1>10, <1>11, <1>12 DEF DocumentInv

\* One case of DocumentStep.
LEMMA SaveKeeps ==
  ASSUME DocumentInv, NEW i \in DOMAIN builds, NEW p, Save(i, p)
  PROVE  DocumentInv'
<1>0. PICK old : old = builds[i]
  OBVIOUS
<1>1. /\ raw' = raw /\ pieces' = pieces /\ uploads' = uploads /\ passages' = passages
      /\ ingests' = ingests /\ backfills' = backfills /\ cleanups' = cleanups
      /\ deletes' = deletes /\ reused' = reused /\ cleaned' = cleaned /\ crossed' = crossed
      /\ \/ checkpoints' = checkpoints \cup {p} /\ faults' = faults
         \/ checkpoints' = checkpoints /\ faults' = faults + 1
      /\ graph' = graph /\ old.pc = "building" /\ p \in old.todo /\ p \in old.written
      /\ builds' = [builds EXCEPT ![i] = Without(@, p)]
  BY <1>0 DEF Save, store, history
<1>2. StoreTypes /\ TablesOK /\ ChunksOK /\ JobsOK
  BY DEF DocumentInv
<1>3. PICK job : job = Without(old, p)
  OBVIOUS
<1>4. old \in BuildJob /\ BuildOK(old) /\ p \in DOMAIN old.docs /\ p \in Ids /\ old.docs[p] \in Texts
  BY <1>0, <1>1, BuildIs
<1>5. /\ job \in BuildJob /\ (Kept /\ StoreTypes' => BuildOK(job)')
      /\ \A q \in Ids : Open(job, q) => Open(old, q) /\ q # p /\ Tries(job, q) = Tries(old, q)
      /\ \/ job = Built /\ old.todo = {p}
         \/ job.pc = "building" /\ job.docs = old.docs /\ job.todo = old.todo \ {p} /\ job.written = old.written
  BY <1>0, <1>1, <1>3, WithoutIs
<1>6. \A q \in Ids, t \in Texts : graph[q][t] \in Nat /\ graph[q][t] <= graph'[q][t]
  <2>1. \A q \in Ids, t \in Texts : graph[q][t] \in Nat
    BY <1>2 DEF StoreTypes, Counts
  <2> QED BY <1>1, <2>1
<1>7. BuildTurns(i, job)
  <2>1. builds' = [builds EXCEPT ![i] = job]
    BY <1>0, <1>1, <1>2, <1>3 DEF StoreTypes
  <2>2. checkpoints' \subseteq Ids /\ graph' \in Counts
    BY <1>1, <1>2, <1>4 DEF StoreTypes
  <2> QED BY <1>1, <1>6, <2>1, <2>2 DEF BuildTurns
<1>8. StoreTypes' /\ Rows' = Rows /\ Kept
  BY <1>5, <1>7, BuildTurnsKept
<1>9. BuildOK(job)'
  BY <1>5, <1>8
<1>10. JobsOK' /\ (checkpoints' = checkpoints => TablesOK')
  BY <1>5, <1>7, <1>9, BuildTurnsKeep
<1>11. ChunksOK'
  <2>1. \A q \in Ids : Tries(old, q) \in Nat
    BY <1>0, BuildIs
  <2>2. \A q \in Ids : Open(job, q) => Open(old, q) /\ Tries(old, q) <= Tries(job, q)
    BY <1>5, <2>1
  <2> QED BY <1>0, <1>1, <1>5, <1>7, <1>9, <2>2, BuildTurnsKeep
<1>12. ASSUME checkpoints' = checkpoints \cup {p} PROVE TablesOK'
  <2>1. p \in Rows \cup reused
    BY <1>4 DEF BuildOK, IsOrWas
  <2>2. p \notin cleaned => graph[p][old.docs[p]] > 0
    BY <1>1, <1>4 DEF BuildOK
  <2>3. p \in Rows \ reused => p \notin cleaned /\ passages[p].text = old.docs[p]
    BY <1>2, <1>4 DEF BuildOK, IsOrWas, StoreTypes
  <2> QED BY <1>1, <1>2, <1>4, <1>8, <1>12, <2>1, <2>2, <2>3 DEF TablesOK
<1>13. ASSUME Calm' PROVE CalmOK'
  <2>1. faults' = faults /\ checkpoints' = checkpoints \cup {p}
    BY <1>1, <1>2, <1>13 DEF Calm, StoreTypes
  <2>2. BuildRuns(old)
    <3>1. CalmOK /\ i \in Building
      BY <1>0, <1>1, <1>13, <2>1 DEF Calm, DocumentInv, Building
    <3> QED BY <1>0, <3>1, OnlyBuild
  <2>3. CASE job = Built /\ old.todo = {p}
    <3>1. job.pc = "done" /\ AddedOnce'
      BY <1>1, <2>1, <2>2, <2>3, BuiltIs DEF AddedOnce, BuildRuns
    <3> QED BY <1>0, <1>1, <1>5, <1>7, <1>9, <1>13, <2>1, <3>1, BuildGoesOnAlone
  <2>4. CASE job.pc = "building" /\ job.docs = old.docs /\ job.todo = old.todo \ {p} /\ job.written = old.written
    <3>1. BuildRuns(job)'
      BY <1>1, <1>8, <2>1, <2>2, <2>4 DEF BuildRuns
    <3> QED BY <1>0, <1>1, <1>5, <1>7, <1>9, <1>13, <2>1, <2>4, <3>1, BuildGoesOnAlone
  <2> QED BY <1>5, <2>3, <2>4
<1> QED BY <1>1, <1>8, <1>10, <1>11, <1>12, <1>13 DEF DocumentInv

\* One case of DocumentStep.
LEMMA AttemptFailsKeeps ==
  ASSUME DocumentInv, NEW i \in DOMAIN builds, NEW p, Fail(i, p)
  PROVE  DocumentInv'
<1>0. PICK old : old = builds[i]
  OBVIOUS
<1>1. /\ raw' = raw /\ pieces' = pieces /\ uploads' = uploads /\ passages' = passages
      /\ ingests' = ingests /\ backfills' = backfills /\ cleanups' = cleanups
      /\ deletes' = deletes /\ reused' = reused /\ cleaned' = cleaned /\ crossed' = crossed
      /\ checkpoints' = checkpoints /\ faults' = faults + 1 /\ graph' \in {graph, Added(i, p)}
      /\ old.pc = "building" /\ p \in old.todo /\ p \notin old.written
  BY <1>0 DEF Fail, store, history
<1>2. StoreTypes /\ TablesOK /\ ChunksOK /\ JobsOK
  BY DEF DocumentInv
<1>3. PICK tries : tries = [old.tries EXCEPT ![p] = old.tries[p] + 1]
  OBVIOUS
<1>4. PICK job : job = Retried(old, p)
  OBVIOUS
<1>5. /\ old \in BuildJob /\ BuildOK(old) /\ p \in DOMAIN old.docs /\ p \in Ids /\ old.docs[p] \in Texts
      /\ old.tries \in [Ids -> Nat] /\ old.tries[p] < MaxRetries /\ \A q \in Ids : Tries(old, q) \in Nat
  BY <1>0, <1>1, BuildIs DEF BuildOK
<1>6. tries \in [Ids -> Nat] /\ \A q \in Ids : tries[q] = IF q = p THEN old.tries[q] + 1 ELSE old.tries[q]
  <2>1. old.tries[p] + 1 \in Nat
    BY <1>5
  <2> QED BY <1>3, <1>5, <2>1
<1>7. builds' = [builds EXCEPT ![i] = job]
  BY <1>0, <1>2, <1>4 DEF Fail, StoreTypes
<1>8. /\ job \in BuildJob /\ (Kept /\ StoreTypes' => BuildOK(job)')
      /\ \A q \in Ids : Open(job, q) =>
            Open(old, q) /\ Tries(job, q) = Tries(old, q) + (IF q = p THEN 1 ELSE 0)
  <2>1. CASE old.tries[p] + 1 = MaxRetries
    <3>1. job = Without(old, p)
      BY <1>4, <2>1 DEF Retried
    <3>2. /\ job \in BuildJob /\ (Kept /\ StoreTypes' => BuildOK(job)')
          /\ \A q \in Ids : Open(job, q) => Open(old, q) /\ q # p /\ Tries(job, q) = Tries(old, q)
      BY <1>0, <1>1, <3>1, WithoutIs
    <3> QED BY <1>5, <3>2
  <2>2. CASE old.tries[p] + 1 # MaxRetries
    <3>1. job = [old EXCEPT !.tries = tries]
      BY <1>3, <1>4, <1>5, <2>2 DEF Retried, BuildJob
    <3>2. /\ job \in BuildJob /\ job.pc = "building" /\ job.docs = old.docs /\ job.todo = old.todo
          /\ job.written = old.written /\ job.tries = tries
      BY <1>1, <1>5, <1>6, <3>1 DEF BuildJob
    <3>3. \A q \in old.todo : tries[q] < MaxRetries
      <4>1. old.tries[p] + 1 < MaxRetries
        BY <1>5, <2>2, BoundAssumption
      <4>2. old.todo \subseteq Ids
        BY <1>5 DEF BuildJob
      <4> QED BY <1>5, <1>6, <4>1, <4>2 DEF BuildOK
    <3>4. ASSUME Kept, StoreTypes' PROVE BuildOK(job)'
      <4>1. BuildOK(old)'
        BY <1>2, <1>5, <3>4, BuildStays
      <4> QED BY <3>2, <3>3, <4>1 DEF BuildOK
    <3>5. \A q \in Ids : Open(job, q) => Open(old, q) /\ Tries(job, q) = Tries(old, q) + (IF q = p THEN 1 ELSE 0)
      <4> SUFFICES ASSUME NEW q \in Ids, Open(job, q)
                   PROVE  Open(old, q) /\ Tries(job, q) = Tries(old, q) + (IF q = p THEN 1 ELSE 0)
        OBVIOUS
      <4>1. old.tries[q] \in Nat
        BY <1>5
      <4>2. Open(old, q)
        BY <1>1, <3>2 DEF Open
      <4> QED BY <1>1, <1>6, <3>2, <4>1, <4>2 DEF Tries
    <3> QED BY <3>2, <3>4, <3>5
  <2> QED BY <2>1, <2>2
<1>9. /\ graph' \in Counts
      /\ \A q \in Ids, t \in Texts : /\ graph[q][t] <= graph'[q][t]
                                     /\ graph'[q][t] <= graph[q][t] + 1
                                     /\ q # p => graph'[q][t] <= graph[q][t]
  BY <1>0, <1>1, AddedKeeps
<1>10. BuildTurns(i, job)
  BY <1>1, <1>2, <1>7, <1>9 DEF BuildTurns, StoreTypes
<1>11. /\ StoreTypes' /\ Rows' = Rows /\ Kept /\ DOMAIN builds' = DOMAIN builds /\ Len(builds') = Len(builds)
       /\ \A j \in DOMAIN builds : builds'[j] = IF j = i THEN job ELSE builds[j]
  BY <1>8, <1>10, BuildTurnsKept
<1>12. JobsOK' /\ TablesOK'
  BY <1>1, <1>8, <1>10, <1>11, BuildTurnsKeep
<1>13. ChunksOK'
  <2>1. \A q \in Ids : Open(builds'[i], q) =>
            Open(builds[i], q) /\ Tries(builds'[i], q) = Tries(builds[i], q) + (IF q = p THEN 1 ELSE 0)
    BY <1>0, <1>8, <1>11
  <2>2. Open(builds[i], p) /\ p \notin builds[i].written /\ builds[i].tries[p] < MaxRetries
    BY <1>0, <1>1, <1>5 DEF Open
  <2>3. Len(builds') <= MaxBuilds /\ \A j \in DOMAIN builds \ {i} : builds'[j] = builds[j]
    BY <1>2, <1>11 DEF ChunksOK
  <2> QED BY <1>2, <1>5, <1>9, <1>11, <2>1, <2>2, <2>3, ChunkAdded
<1>14. ~Calm'
  BY <1>1, <1>2 DEF Calm, StoreTypes
<1> QED BY <1>11, <1>12, <1>13, <1>14 DEF DocumentInv

\* What a clean-up under way works on.
LEMMA CleanupIs ==
  ASSUME DocumentInv, NEW i \in DOMAIN cleanups
  PROVE  /\ cleanups[i] \in CleanJob /\ CleanOK(cleanups[i])
         /\ cleanups[i].rows \subseteq Ids /\ cleanups[i].chunks \in Counts
         /\ \A p \in Ids, t \in Texts : cleanups[i].chunks[p][t] \in Nat /\ graph[p][t] \in Nat
<1>1. cleanups[i] \in CleanJob /\ CleanOK(cleanups[i]) /\ graph \in Counts
  BY DEF DocumentInv, StoreTypes, JobsOK
<1>2. cleanups[i].rows \subseteq Ids /\ cleanups[i].chunks \in Counts
  BY <1>1 DEF CleanJob
<1> QED BY <1>1, <1>2 DEF Counts

\* A clean-up that has ended is a clean-up, and right.
LEMMA CleanedUpIs ==
  ASSUME \A p \in Ids, t \in Texts : graph'[p][t] \in Nat
  PROVE  /\ CleanedUp \in CleanJob /\ CleanedUp.pc = "done" /\ CleanOK(CleanedUp)'
         /\ NoChunks \in Counts /\ \A p \in Ids, t \in Texts : NoChunks[p][t] = 0
<1>1. NoChunks \in Counts /\ \A p \in Ids, t \in Texts : NoChunks[p][t] = 0
  BY DEF NoChunks, Counts
<1>2. CleanedUp' = CleanedUp
  BY DEF CleanedUp, NoChunks
<1>3. /\ CleanedUp \in CleanJob /\ CleanedUp.pc = "done" /\ CleanedUp.rows = {} /\ CleanedUp.chunks = NoChunks
  BY <1>1 DEF CleanedUp, CleanJob
<1>4. \A p \in Ids, t \in Texts : CleanedUp.chunks[p][t] <= graph'[p][t] /\ CleanedUp.chunks[p][t] = 0
  BY <1>1, <1>3
<1> QED BY <1>1, <1>2, <1>3, <1>4 DEF CleanOK

\* Clean-ups of which one has got on are right.
LEMMA CleanupsMoveAlone ==
  ASSUME DocumentInv, NEW i \in DOMAIN cleanups, cleanups[i].pc # "done", NEW job \in CleanJob, CleanOK(job)',
         cleanups' = [cleanups EXCEPT ![i] = job], \A p \in Ids, t \in Texts : graph'[p][t] \in Nat
  PROVE  /\ CleanupsMove /\ cleanups' \in Seq(CleanJob)
         /\ DOMAIN cleanups' = DOMAIN cleanups
         /\ \A j \in DOMAIN cleanups : cleanups'[j] = IF j = i THEN job ELSE cleanups[j]
<1>1. /\ cleanups' \in Seq(CleanJob) /\ DOMAIN cleanups' = DOMAIN cleanups
      /\ \A j \in DOMAIN cleanups : cleanups'[j] = IF j = i THEN job ELSE cleanups[j]
  BY PutIs DEF DocumentInv, StoreTypes
<1>2. \A j \in DOMAIN cleanups : cleanups[j].pc # "done" => j = i
  BY DEF DocumentInv, JobsOK
<1>3. ASSUME NEW j \in DOMAIN cleanups, j # i, NEW p \in Ids, NEW t \in Texts
      PROVE  cleanups[j].chunks[p][t] <= graph'[p][t]
  <2>1. cleanups[j] = CleanedUp
    BY <1>2, <1>3, CleanupIs DEF CleanOK
  <2>2. cleanups[j].chunks[p][t] = 0
    BY <2>1, CleanedUpIs DEF CleanedUp
  <2> QED BY <2>2
<1> QED BY <1>1, <1>2, <1>3 DEF CleanupsMove

\* One case of DocumentStep.
LEMMA CleanupKeeps ==
  ASSUME DocumentInv, Cleanup
  PROVE  DocumentInv'
<1>0. PICK junk : junk = {p \in Rows : <<p[2], passages[p].text>> \in Junk}
  OBVIOUS
<1>1. /\ Launch /\ \A i \in DOMAIN cleanups : cleanups[i].pc = "done"
      /\ cleanups' = Append(cleanups, [pc |-> "read", rows |-> junk, chunks |-> NoChunks])
      /\ raw' = raw /\ pieces' = pieces /\ uploads' = uploads
      /\ passages' = passages /\ checkpoints' = checkpoints /\ graph' = graph
      /\ ingests' = ingests /\ backfills' = backfills /\ builds' = builds
      /\ deletes' = deletes /\ faults' = faults /\ reused' = reused /\ cleaned' = cleaned /\ crossed' \in BOOLEAN
  BY <1>0 DEF Cleanup, Launch, tables, store
<1>2. StoreTypes /\ JobsOK /\ TablesOK /\ ChunksOK
  BY DEF DocumentInv
<1>3. junk \subseteq Rows /\ Rows \subseteq Ids
  BY <1>0 DEF Rows
<1>4. \A p \in Ids, t \in Texts : graph[p][t] \in Nat /\ graph'[p][t] \in Nat
  BY <1>1, <1>2 DEF StoreTypes, Counts
<1>5. NoChunks \in Counts /\ \A p \in Ids, t \in Texts : NoChunks[p][t] = 0
  BY <1>4, CleanedUpIs
<1>6. PICK job : job = [pc |-> "read", rows |-> junk, chunks |-> NoChunks]
  OBVIOUS
<1>7. job \in CleanJob /\ job.pc = "read" /\ job.rows = junk /\ job.chunks = NoChunks
  BY <1>3, <1>5, <1>6 DEF CleanJob
<1>8. /\ cleanups' \in Seq(CleanJob) /\ Len(cleanups) + 1 \in DOMAIN cleanups' /\ cleanups'[Len(cleanups) + 1] = job
      /\ \A i \in DOMAIN cleanups : i \in DOMAIN cleanups' /\ cleanups'[i] = cleanups[i]
      /\ \A i \in DOMAIN cleanups' : i \in DOMAIN cleanups \/ i = Len(cleanups) + 1
  BY <1>1, <1>2, <1>6, <1>7, AppendIs DEF StoreTypes
<1>9. StoreTypes'
  BY <1>1, <1>2, <1>8 DEF StoreTypes, Counts, IngestJob, BuildJob, CleanJob, Docs
<1>10. Rows' = Rows
  BY <1>1 DEF Rows
<1>11. Kept
  BY <1>1, <1>2, <1>10, KeptWhenTextsStay
<1>12. CleanupsMove
  <2>1. \A p \in Ids, t \in Texts : job.chunks[p][t] <= graph'[p][t] /\ job.chunks[p][t] = 0
    BY <1>4, <1>5, <1>7
  <2>2. CleanOK(job)'
    BY <1>3, <1>7, <1>10, <2>1 DEF CleanOK
  <2>3. \A i \in DOMAIN cleanups : \A p \in Ids, t \in Texts : cleanups[i].chunks[p][t] <= graph'[p][t]
    BY <1>1, CleanupIs DEF CleanOK
  <2>4. \A i \in DOMAIN cleanups' : cleanups'[i].pc # "done" => i = Len(cleanups) + 1
    BY <1>1, <1>8
  <2> QED BY <1>8, <2>2, <2>3, <2>4 DEF CleanupsMove
<1>13. JobsOK'
  BY <1>1, <1>2, <1>9, <1>11, <1>12, Unmoved, JobsStay
<1>14. TablesOK'
  BY <1>1, <1>10, <1>2 DEF TablesOK
<1>15. ChunksOK'
  BY <1>1, <1>2 DEF ChunksOK, FromAttempts
<1>16. ASSUME Calm' PROVE CalmOK'
  <2>1. /\ Ingesting = {} /\ Backfilling = {} /\ Building = {} /\ Cleaning = {}
        /\ Embedded /\ AddedOnce /\ TakenOut
    BY <1>1, <1>16, BeginsAlone
  <2>2. /\ Ingesting' = {} /\ Backfilling' = {} /\ Building' = {}
        /\ Embedded' /\ AddedOnce'
    BY <1>1, <1>10, <2>1 DEF Ingesting, Backfilling, Building, Embedded, AddedOnce
  <2>3. Cleaning' = {Len(cleanups) + 1}
    BY <1>1, <1>7, <1>8 DEF Cleaning
  <2>4. CleanRuns(job)'
    BY <1>1, <1>7, <1>10, <2>1 DEF CleanRuns, TakenOut
  <2> QED BY <1>8, <2>2, <2>3, <2>4 DEF CalmOK
<1> QED BY <1>9, <1>13, <1>14, <1>15, <1>16 DEF DocumentInv

\* One case of DocumentStep.
LEMMA MatchChunksKeeps ==
  ASSUME DocumentInv, NEW i \in DOMAIN cleanups, MatchChunks(i)
  PROVE  DocumentInv'
<1>0. PICK old : old = cleanups[i]
  OBVIOUS
<1>1. /\ raw' = raw /\ pieces' = pieces /\ uploads' = uploads
      /\ passages' = passages /\ checkpoints' = checkpoints /\ graph' = graph
      /\ ingests' = ingests /\ backfills' = backfills /\ builds' = builds
      /\ deletes' = deletes /\ faults' = faults /\ reused' = reused /\ cleaned' = cleaned /\ crossed' = crossed
      /\ old.pc = "read"
  BY <1>0 DEF MatchChunks, store, tables, history
<1>2. StoreTypes /\ JobsOK /\ TablesOK /\ ChunksOK
  BY DEF DocumentInv
<1>3. PICK chunks : chunks = [p \in Ids |-> IF p \in old.rows THEN graph[p] ELSE NoChunks[p]]
  OBVIOUS
<1>4. PICK job : job = [old EXCEPT !.pc = "matched", !.chunks = chunks]
  OBVIOUS
<1>5. old \in CleanJob /\ CleanOK(old) /\ old.rows \subseteq Ids
  BY <1>0, CleanupIs
<1>6. \A p \in Ids, t \in Texts : graph[p][t] \in Nat /\ graph'[p][t] \in Nat
  BY <1>1, <1>2 DEF StoreTypes, Counts
<1>7. NoChunks \in Counts /\ \A p \in Ids, t \in Texts : NoChunks[p][t] = 0
  BY <1>6, CleanedUpIs
<1>8. /\ chunks \in Counts
      /\ \A p \in Ids, t \in Texts : chunks[p][t] = IF p \in old.rows THEN graph[p][t] ELSE 0
  <2>1. \A p \in Ids : chunks[p] = IF p \in old.rows THEN graph[p] ELSE NoChunks[p]
    BY <1>3
  <2>2. chunks \in Counts
    BY <1>2, <1>3, <1>7 DEF StoreTypes, Counts
  <2> QED BY <1>7, <2>1, <2>2
<1>9. job \in CleanJob /\ job.pc = "matched" /\ job.rows = old.rows /\ job.chunks = chunks
  BY <1>4, <1>5, <1>8 DEF CleanJob
<1>10. cleanups' = [cleanups EXCEPT ![i] = job]
  BY <1>0, <1>2, <1>3, <1>4 DEF MatchChunks, StoreTypes
<1>11. Rows' = Rows
  BY <1>1 DEF Rows
<1>12. CleanOK(job)'
  <2>1. \A p \in Ids, t \in Texts : job.chunks[p][t] <= graph'[p][t] /\ (p \notin job.rows => job.chunks[p][t] = 0)
    BY <1>1, <1>6, <1>8, <1>9
  <2> QED BY <1>1, <1>5, <1>9, <1>11, <2>1 DEF CleanOK
<1>13. /\ CleanupsMove /\ cleanups' \in Seq(CleanJob) /\ DOMAIN cleanups' = DOMAIN cleanups
       /\ \A j \in DOMAIN cleanups : cleanups'[j] = IF j = i THEN job ELSE cleanups[j]
  BY <1>0, <1>1, <1>6, <1>9, <1>10, <1>12, CleanupsMoveAlone
<1>14. StoreTypes'
  BY <1>1, <1>2, <1>13 DEF StoreTypes, Counts, IngestJob, BuildJob, CleanJob, Docs
<1>15. Kept
  BY <1>1, <1>2, <1>11, KeptWhenTextsStay
<1>16. JobsOK'
  BY <1>1, <1>2, <1>13, <1>14, <1>15, Unmoved, JobsStay
<1>17. TablesOK'
  BY <1>1, <1>11, <1>2 DEF TablesOK
<1>18. ChunksOK'
  BY <1>1, <1>2 DEF ChunksOK, FromAttempts
<1>19. ASSUME Calm' PROVE CalmOK'
  <2>1. CalmOK /\ i \in Cleaning
    BY <1>0, <1>1, <1>19 DEF Calm, DocumentInv, Cleaning
  <2>2. /\ Ingesting = {} /\ Backfilling = {} /\ Building = {} /\ Cleaning = {i}
        /\ CleanRuns(old) /\ Embedded /\ AddedOnce
    BY <1>0, <2>1, OnlyCleanup
  <2>3. Ingesting' = {} /\ Backfilling' = {} /\ Building' = {} /\ Embedded' /\ AddedOnce'
    BY <1>1, <1>11, <2>2 DEF Ingesting, Backfilling, Building, Embedded, AddedOnce
  <2>4. Cleaning' = {i}
    BY <1>9, <1>13, <2>2 DEF Cleaning
  <2>5. deletes = 0 => \A p \in cleaned \ Rows, t \in Texts : graph[p][t] = 0
    BY <1>1, <2>2 DEF CleanRuns
  <2>6. \A p \in job.rows, t \in Texts : job.chunks[p][t] = graph[p][t]
    BY <1>5, <1>8, <1>9
  <2>7. CleanRuns(job)'
    BY <1>1, <1>11, <2>5, <2>6 DEF CleanRuns
  <2> QED BY <1>9, <1>13, <2>3, <2>4, <2>7 DEF CalmOK
<1> QED BY <1>14, <1>16, <1>17, <1>18, <1>19 DEF DocumentInv

\* One case of DocumentStep.
LEMMA DeleteRowsKeeps ==
  ASSUME DocumentInv, NEW i \in DOMAIN cleanups, DeleteRows(i)
  PROVE  DocumentInv'
<1>0. PICK old, rows : old = cleanups[i] /\ rows = cleanups[i].rows
  OBVIOUS
<1>1. /\ raw' = raw /\ pieces' = pieces /\ uploads' = uploads /\ checkpoints' = checkpoints /\ graph' = graph
      /\ ingests' = ingests /\ backfills' = backfills /\ builds' = builds
      /\ deletes' = deletes /\ faults' = faults /\ crossed' = crossed
      /\ old.pc = "matched" /\ cleanups' = [cleanups EXCEPT ![i].pc = "rows deleted"]
      /\ passages' = [p \in Ids |-> IF p \in rows THEN NoRow ELSE passages[p]]
      /\ reused' = reused \cup (rows \cap Rows) /\ cleaned' = cleaned \cup rows
  BY <1>0 DEF DeleteRows, store
<1>2. StoreTypes /\ JobsOK /\ TablesOK /\ ChunksOK
  BY DEF DocumentInv
<1>3. PICK job : job = [old EXCEPT !.pc = "rows deleted"]
  OBVIOUS
<1>4. /\ old \in CleanJob /\ CleanOK(old) /\ rows \subseteq Ids /\ rows = old.rows /\ rows \subseteq Rows \cup reused
      /\ \A p \in Ids, t \in Texts : graph[p][t] \in Nat
  <2>1. /\ old \in CleanJob /\ CleanOK(old) /\ old.rows \subseteq Ids
        /\ \A p \in Ids, t \in Texts : graph[p][t] \in Nat
    BY <1>0, CleanupIs
  <2>2. \A p \in old.rows : p \in Rows \cup reused
    BY <2>1 DEF CleanOK
  <2> QED BY <1>0, <2>1, <2>2
<1>5. job \in CleanJob /\ job.pc = "rows deleted" /\ job.rows = rows /\ job.chunks = old.chunks
  BY <1>3, <1>4 DEF CleanJob
<1>6. cleanups' = [cleanups EXCEPT ![i] = job]
  BY <1>0, <1>1, <1>2, <1>3 DEF StoreTypes
<1>7. /\ passages' \in [Ids -> [text : Texts \cup {None}, emb : Texts \cup {None}]]
      /\ \A p \in Ids : passages'[p] = IF p \in rows THEN NoRow ELSE passages[p]
  BY <1>1, <1>2, <1>4 DEF StoreTypes, NoRow
<1>8. Rows' = Rows \ rows
  BY <1>4, <1>7 DEF Rows, NoRow
<1>9. CleanOK(job)'
  BY <1>1, <1>4, <1>5, <1>8 DEF CleanOK
<1>10. /\ CleanupsMove /\ cleanups' \in Seq(CleanJob) /\ DOMAIN cleanups' = DOMAIN cleanups
       /\ \A j \in DOMAIN cleanups : cleanups'[j] = IF j = i THEN job ELSE cleanups[j]
  <2>1. \A p \in Ids, t \in Texts : graph'[p][t] \in Nat
    BY <1>1, <1>4
  <2> QED BY <1>0, <1>1, <1>5, <1>6, <1>9, <2>1, CleanupsMoveAlone
<1>11. StoreTypes'
  <2>1. \A p \in Ids : passages'[p].text = None => passages'[p].emb = None
    BY <1>2, <1>7 DEF StoreTypes, NoRow
  <2>2. reused' \subseteq Ids /\ cleaned' \subseteq reused'
    BY <1>1, <1>2, <1>4 DEF StoreTypes
  <2> QED BY <1>1, <1>2, <1>7, <1>10, <2>1, <2>2 DEF StoreTypes, Counts, IngestJob, BuildJob, CleanJob, Docs
<1>12. Kept
  <2>1. uploads <= uploads' /\ \A p \in Ids, t \in Texts : graph[p][t] <= graph'[p][t]
    <3>1. uploads \in Nat
      BY <1>2, BoundAssumption DEF StoreTypes
    <3>2. uploads <= uploads /\ \A p \in Ids, t \in Texts : graph[p][t] <= graph[p][t]
      BY <1>4, <3>1
    <3>3. uploads' = uploads /\ graph' = graph
      BY <1>1
    <3> QED BY <3>2, <3>3, Zenon
  <2>2. \A p \in Ids, t \in Texts : IsOrWas(p, t) => IsOrWas(p, t)'
    BY <1>1, <1>7, <1>8 DEF IsOrWas
  <2> QED BY <1>1, <1>4, <1>8, <2>1, <2>2 DEF Kept
<1>13. JobsOK'
  BY <1>1, <1>2, <1>10, <1>11, <1>12, Unmoved, JobsStay
<1>14. TablesOK'
  <2>1. \A p \in (Rows \ reused)' : passages'[p].emb \in {None, passages'[p].text}
    BY <1>1, <1>2, <1>7, <1>8 DEF TablesOK, Rows
  <2> QED BY <1>1, <1>2, <1>11, <1>12, <2>1, TablesStay
<1>15. ChunksOK'
  BY <1>1, <1>2 DEF ChunksOK, FromAttempts
<1>16. ASSUME Calm' PROVE CalmOK'
  <2>1. CalmOK /\ i \in Cleaning
    BY <1>0, <1>1, <1>16 DEF Calm, DocumentInv, Cleaning
  <2>2. /\ Ingesting = {} /\ Backfilling = {} /\ Building = {} /\ Cleaning = {i}
        /\ CleanRuns(old) /\ Embedded /\ AddedOnce
    BY <1>0, <2>1, OnlyCleanup
  <2>3. Ingesting' = {} /\ Backfilling' = {} /\ Building' = {} /\ AddedOnce'
    BY <1>1, <2>2 DEF Ingesting, Backfilling, Building, AddedOnce
  <2>4. Embedded'
    BY <1>7, <1>8, <2>2 DEF Embedded, Rows
  <2>5. Cleaning' = {i}
    BY <1>5, <1>10, <2>2 DEF Cleaning
  <2>6. \A p \in rows, t \in Texts : job.chunks[p][t] = graph[p][t]
    BY <1>1, <1>4, <1>5, <2>2 DEF CleanRuns
  <2>7. deletes = 0 => \A p \in cleaned \ Rows, t \in Texts : graph[p][t] = 0
    BY <1>1, <2>2 DEF CleanRuns
  <2>8. CleanRuns(job)'
    BY <1>1, <1>5, <1>8, <2>6, <2>7 DEF CleanRuns
  <2> QED BY <1>5, <1>10, <2>3, <2>4, <2>5, <2>8 DEF CalmOK
<1> QED BY <1>11, <1>13, <1>14, <1>15, <1>16 DEF DocumentInv

\* One case of DocumentStep.
LEMMA DeleteChunksKeeps ==
  ASSUME DocumentInv, NEW i \in DOMAIN cleanups, DeleteChunks(i)
  PROVE  DocumentInv'
<1>0. PICK old : old = cleanups[i]
  OBVIOUS
<1>1. /\ raw' = raw /\ pieces' = pieces /\ uploads' = uploads
      /\ passages' = passages /\ checkpoints' = checkpoints
      /\ ingests' = ingests /\ backfills' = backfills /\ builds' = builds
      /\ deletes' = deletes /\ faults' = faults /\ reused' = reused /\ cleaned' = cleaned /\ crossed' = crossed
      /\ old.pc = "rows deleted" /\ cleanups' = [cleanups EXCEPT ![i] = CleanedUp]
      /\ graph' = [p \in Ids |-> [t \in Texts |-> graph[p][t] - old.chunks[p][t]]]
  BY <1>0 DEF DeleteChunks, store, history
<1>2. StoreTypes /\ JobsOK /\ TablesOK /\ ChunksOK
  BY DEF DocumentInv
<1>3. /\ old \in CleanJob /\ CleanOK(old) /\ old.rows \subseteq cleaned
      /\ \A p \in Ids, t \in Texts : /\ old.chunks[p][t] \in Nat /\ graph[p][t] \in Nat
                                     /\ old.chunks[p][t] <= graph[p][t]
                                     /\ p \notin old.rows => old.chunks[p][t] = 0
  BY <1>0, <1>1, CleanupIs DEF CleanOK
<1>4. \A p \in Ids, t \in Texts : /\ graph'[p][t] = graph[p][t] - old.chunks[p][t]
                                  /\ graph'[p][t] \in Nat /\ graph'[p][t] <= graph[p][t]
                                  /\ p \notin old.rows => graph'[p][t] = graph[p][t]
  <2> SUFFICES ASSUME NEW p \in Ids, NEW t \in Texts
               PROVE  /\ graph'[p][t] = graph[p][t] - old.chunks[p][t]
                      /\ graph'[p][t] \in Nat /\ graph'[p][t] <= graph[p][t]
                      /\ p \notin old.rows => graph'[p][t] = graph[p][t]
    OBVIOUS
  <2>1. graph'[p][t] = graph[p][t] - old.chunks[p][t]
    BY <1>1
  <2> DEFINE m == graph[p][t]
             c == old.chunks[p][t]
  <2>2. m \in Nat /\ c \in Nat /\ c <= m /\ (p \notin old.rows => c = 0)
    BY <1>3
  <2> HIDE DEF m, c
  <2>3. m - c \in Nat /\ m - c <= m /\ (c = 0 => m - c = m)
    BY <2>2
  <2> QED BY <2>1, <2>2, <2>3 DEF m, c
<1>5. graph' \in Counts
  <2>1. \A p \in Ids, t \in Texts : graph[p][t] - old.chunks[p][t] \in Nat
    BY <1>4
  <2> QED BY <1>1, <2>1 DEF Counts
<1>6. CleanedUp \in CleanJob /\ CleanedUp.pc = "done" /\ CleanOK(CleanedUp)'
  BY <1>4, CleanedUpIs
<1>7. /\ CleanupsMove /\ cleanups' \in Seq(CleanJob) /\ DOMAIN cleanups' = DOMAIN cleanups
      /\ \A j \in DOMAIN cleanups : cleanups'[j] = IF j = i THEN CleanedUp ELSE cleanups[j]
  <2>1. PICK job : job = CleanedUp
    OBVIOUS
  <2>2. job \in CleanJob /\ CleanOK(job)' /\ cleanups' = [cleanups EXCEPT ![i] = job]
    <3>1. CleanedUp' = CleanedUp
      BY DEF CleanedUp, NoChunks
    <3> QED BY <1>1, <1>6, <2>1, <3>1
  <2>3. cleanups[i].pc # "done" /\ \A p \in Ids, t \in Texts : graph'[p][t] \in Nat
    BY <1>0, <1>1, <1>4
  <2>4. /\ CleanupsMove /\ cleanups' \in Seq(CleanJob) /\ DOMAIN cleanups' = DOMAIN cleanups
        /\ \A j \in DOMAIN cleanups : cleanups'[j] = IF j = i THEN job ELSE cleanups[j]
    BY <2>2, <2>3, CleanupsMoveAlone
  <2> QED BY <2>1, <2>4
<1>8. StoreTypes'
  BY <1>1, <1>2, <1>5, <1>7 DEF StoreTypes, Counts, IngestJob, BuildJob, CleanJob, Docs
<1>9. Rows' = Rows
  BY <1>1 DEF Rows
<1>10. Kept
  <2>1. uploads <= uploads'
    <3>1. uploads \in Nat
      BY <1>2, BoundAssumption DEF StoreTypes
    <3>2. uploads <= uploads
      BY <3>1
    <3>3. uploads' = uploads
      BY <1>1
    <3> QED BY <3>2, <3>3, Zenon
  <2>2. \A p \in Ids \ cleaned, t \in Texts : graph[p][t] \in Nat /\ graph'[p][t] = graph[p][t]
    BY <1>3, <1>4
  <2>3. \A p \in Ids \ cleaned, t \in Texts : graph[p][t] <= graph'[p][t]
    BY <2>2
  <2> QED BY <1>1, <1>9, <2>1, <2>3 DEF Kept, IsOrWas
<1>11. JobsOK'
  BY <1>1, <1>2, <1>7, <1>8, <1>10, Unmoved, JobsStay
<1>12. TablesOK'
  <2>1. \A p \in (Rows \ reused)' : passages'[p].emb \in {None, passages'[p].text}
    BY <1>1, <1>2, <1>9 DEF TablesOK
  <2> QED BY <1>1, <1>2, <1>8, <1>10, <2>1, TablesStay
<1>13. ChunksOK'
  <2>1. \A j \in DOMAIN builds, p \in Ids : Open(builds'[j], p) =>
            Open(builds[j], p) /\ Tries(builds[j], p) <= Tries(builds'[j], p)
    <3>1. \A j \in DOMAIN builds, p \in Ids : Tries(builds[j], p) \in Nat
      BY BuildIs
    <3>2. \A m \in Nat : m <= m
      OBVIOUS
    <3>3. \A j \in DOMAIN builds, p \in Ids : Tries(builds[j], p) <= Tries(builds[j], p)
      BY <3>1, <3>2
    <3> QED BY <1>1, <3>3
  <2>2. Len(builds') <= MaxBuilds /\ DOMAIN builds \subseteq DOMAIN builds'
    BY <1>1, <1>2 DEF ChunksOK
  <2>3. \A p \in Ids, t \in Texts : graph'[p][t] <= graph[p][t]
    BY <1>4
  <2> QED BY <1>2, <1>8, <2>1, <2>2, <2>3, ChunksStay
<1>14. ASSUME Calm' PROVE CalmOK'
  <2>1. CalmOK /\ i \in Cleaning
    BY <1>0, <1>1, <1>14 DEF Calm, DocumentInv, Cleaning
  <2>2. /\ Ingesting = {} /\ Backfilling = {} /\ Building = {} /\ Cleaning = {i}
        /\ CleanRuns(old) /\ Embedded /\ AddedOnce
    BY <1>0, <2>1, OnlyCleanup
  <2>3. Ingesting' = {} /\ Backfilling' = {} /\ Building' = {} /\ Embedded'
    BY <1>1, <1>9, <2>2 DEF Ingesting, Backfilling, Building, Embedded
  <2>4. Cleaning' = {}
    BY <1>6, <1>7, <2>2 DEF Cleaning
  <2>5. AddedOnce'
    <3> SUFFICES ASSUME NEW p \in Ids, NEW t \in Texts
                 PROVE  graph'[p][t] <= 1 /\ (graph'[p][t] > 0 => p \in checkpoints')
      BY DEF AddedOnce
    <3> DEFINE m == graph[p][t]
               n == graph'[p][t]
    <3>1. m \in Nat /\ n \in Nat /\ n <= m /\ m <= 1
      BY <1>3, <1>4, <2>2 DEF AddedOnce
    <3>2. m > 0 => p \in checkpoints'
      BY <1>1, <2>2 DEF AddedOnce
    <3> HIDE DEF m, n
    <3>3. n <= 1 /\ (n > 0 => p \in checkpoints')
      BY <3>1, <3>2
    <3> QED BY <3>3 DEF n
  <2>6. TakenOut'
    <3> SUFFICES ASSUME deletes = 0, NEW p \in cleaned \ Rows, NEW t \in Texts PROVE graph'[p][t] = 0
      BY <1>1, <1>9 DEF TakenOut
    <3>1. p \in Ids
      BY <1>2 DEF StoreTypes
    <3>2. CASE p \in old.rows
      <4>1. old.chunks[p][t] = graph[p][t]
        BY <1>1, <2>2, <3>2 DEF CleanRuns
      <4> QED BY <1>3, <1>4, <3>1, <4>1
    <3>3. CASE p \notin old.rows
      <4>1. graph[p][t] = 0
        BY <2>2, <3>3 DEF CleanRuns
      <4> QED BY <1>4, <3>1, <3>3, <4>1
    <3> QED BY <3>2, <3>3
  <2> QED BY <2>3, <2>4, <2>5, <2>6 DEF CalmOK
<1> QED BY <1>8, <1>11, <1>12, <1>13, <1>14 DEF DocumentInv

\* One case of DocumentStep: a process that dies is one that has ended.
LEMMA KillKeeps ==
  ASSUME DocumentInv, Kill
  PROVE  DocumentInv'
<1>1. /\ raw' = raw /\ pieces' = pieces /\ uploads' = uploads
      /\ passages' = passages /\ checkpoints' = checkpoints /\ graph' = graph
      /\ deletes' = deletes /\ faults' = faults + 1 /\ reused' = reused /\ cleaned' = cleaned /\ crossed' = crossed
  BY DEF Kill, store, tables, history
<1>2. StoreTypes /\ JobsOK /\ TablesOK /\ ChunksOK
  BY DEF DocumentInv
<1>3. Rows' = Rows
  BY <1>1 DEF Rows
<1>4. Kept
  BY <1>1, <1>2, <1>3, KeptWhenTextsStay
<1>5. ~Calm' /\ faults' \in Nat
  BY <1>1, <1>2 DEF Calm, StoreTypes
<1>6. \A p \in Ids, t \in Texts : graph'[p][t] \in Nat /\ graph[p][t] <= graph'[p][t]
  <2>1. \A p \in Ids, t \in Texts : graph[p][t] \in Nat
    BY <1>2 DEF StoreTypes, Counts
  <2> QED BY <1>1, <2>1
<1>7. TablesOK'
  BY <1>1, <1>3, <1>2 DEF TablesOK
<1>8. builds' = builds => ChunksOK'
  BY <1>1, <1>2 DEF ChunksOK, FromAttempts
<1>9. ASSUME NEW i \in DOMAIN ingests, ingests[i].pc # "done", ingests' = [ingests EXCEPT ![i].pc = "done"],
             UNCHANGED <<backfills, builds, cleanups>>
      PROVE  DocumentInv'
  <2>1. PICK old : old = ingests[i]
    OBVIOUS
  <2>2. PICK job : job = [old EXCEPT !.pc = "done"]
    OBVIOUS
  <2>3. old \in IngestJob /\ IngestOK(old)
    BY <2>1, IngestIs
  <2>4. job \in IngestJob /\ job.pc = "done" /\ job.text = old.text
    BY <2>2, <2>3 DEF IngestJob
  <2>5. /\ ingests' \in Seq(IngestJob) /\ DOMAIN ingests' = DOMAIN ingests
        /\ \A j \in DOMAIN ingests : ingests'[j] = IF j = i THEN job ELSE ingests[j]
    <3>1. ingests' = [ingests EXCEPT ![i] = job]
      BY <1>2, <1>9, <2>1, <2>2 DEF StoreTypes
    <3> QED BY <1>2, <2>4, <3>1, PutIs DEF StoreTypes
  <2>6. StoreTypes'
    BY <1>1, <1>2, <1>5, <1>9, <2>5 DEF StoreTypes, Counts, IngestJob, BuildJob, CleanJob, Docs
  <2>7. IngestsMove
    <3>1. IngestOK(job)'
      BY <1>1, <2>3, <2>4 DEF IngestOK
    <3> QED BY <2>5, <3>1 DEF IngestsMove
  <2>8. JobsOK'
    BY <1>1, <1>2, <1>4, <1>9, <2>6, <2>7, Unmoved, JobsStay
  <2> QED BY <1>5, <1>7, <1>8, <1>9, <2>6, <2>8 DEF DocumentInv
<1>10. ASSUME NEW i \in DOMAIN backfills, backfills' = [backfills EXCEPT ![i] = <<>>],
              UNCHANGED <<ingests, builds, cleanups>>
       PROVE  DocumentInv'
  <2>1. PICK docs : docs = <<>>
    OBVIOUS
  <2>2. docs \in Docs /\ DOMAIN docs = {}
    <3>1. docs \in [{} -> Texts]
      BY <2>1
    <3> QED BY <2>1, <3>1 DEF Docs
  <2>3. /\ backfills' \in Seq(Docs) /\ DOMAIN backfills' = DOMAIN backfills
        /\ \A j \in DOMAIN backfills : backfills'[j] = IF j = i THEN docs ELSE backfills[j]
    <3>1. backfills' = [backfills EXCEPT ![i] = docs]
      BY <1>10, <2>1
    <3> QED BY <1>2, <2>2, <3>1, PutIs DEF StoreTypes
  <2>4. StoreTypes'
    BY <1>1, <1>2, <1>5, <1>10, <2>3 DEF StoreTypes, Counts, IngestJob, BuildJob, CleanJob, Docs
  <2>5. BackfillsMove
    <3>1. BackfillOK(docs)'
      BY <2>2 DEF BackfillOK
    <3> QED BY <2>3, <3>1 DEF BackfillsMove
  <2>6. JobsOK'
    BY <1>1, <1>2, <1>4, <1>10, <2>4, <2>5, Unmoved, JobsStay
  <2> QED BY <1>5, <1>7, <1>8, <1>10, <2>4, <2>6 DEF DocumentInv
<1>11. ASSUME NEW i \in DOMAIN builds, builds' = [builds EXCEPT ![i] = Built],
              UNCHANGED <<ingests, backfills, cleanups>>
       PROVE  DocumentInv'
  <2>1. PICK job : job = Built
    OBVIOUS
  <2>2. job \in BuildJob /\ BuildOK(job)' /\ \A p \in Ids : ~Open(job, p)
    <3>1. Built' = Built
      BY DEF Built, NoTries
    <3> QED BY <2>1, <3>1, BuiltIs
  <2>3. BuildTurns(i, job)
    BY <1>1, <1>2, <1>6, <1>11, <2>1 DEF BuildTurns, StoreTypes
  <2>4. StoreTypes' /\ JobsOK' /\ ChunksOK'
    BY <1>1, <2>2, <2>3, BuildTurnsKept, BuildTurnsKeep
  <2> QED BY <1>5, <1>7, <2>4 DEF DocumentInv
<1>12. ASSUME NEW i \in DOMAIN cleanups, cleanups[i].pc # "done", cleanups' = [cleanups EXCEPT ![i] = CleanedUp],
              UNCHANGED <<ingests, backfills, builds>>
       PROVE  DocumentInv'
  <2>1. PICK job : job = CleanedUp
    OBVIOUS
  <2>2. job \in CleanJob /\ CleanOK(job)'
    <3>1. CleanedUp' = CleanedUp
      BY DEF CleanedUp, NoChunks
    <3> QED BY <1>6, <2>1, <3>1, CleanedUpIs
  <2>3. CleanupsMove /\ cleanups' \in Seq(CleanJob)
    BY <1>6, <1>12, <2>1, <2>2, CleanupsMoveAlone
  <2>4. StoreTypes'
    BY <1>1, <1>2, <1>5, <1>12, <2>3 DEF StoreTypes, Counts, IngestJob, BuildJob, CleanJob, Docs
  <2>5. JobsOK'
    BY <1>1, <1>2, <1>4, <1>12, <2>3, <2>4, Unmoved, JobsStay
  <2> QED BY <1>5, <1>7, <1>8, <1>12, <2>4, <2>5 DEF DocumentInv
<1> QED BY <1>9, <1>10, <1>11, <1>12 DEF Kill

\* One case of DocumentStep.
LEMMA DocumentDeleteKeeps ==
  ASSUME DocumentInv, NEW s \in Sources, Delete(s)
  PROVE  DocumentInv'
<1>1. /\ pieces' = pieces /\ uploads' = uploads /\ checkpoints' = checkpoints /\ graph' = graph
      /\ ingests' = ingests /\ backfills' = backfills /\ builds' = builds /\ cleanups' = cleanups
      /\ faults' = faults /\ cleaned' = cleaned /\ crossed' = (crossed \/ Running > 0) /\ deletes' = deletes + 1
      /\ passages' = [p \in Ids |-> IF p[1] = s THEN NoRow ELSE passages[p]]
      /\ raw' = [f \in Files |-> IF f = s THEN None ELSE raw[f]]
      /\ reused' = reused \cup {p \in Rows : p[1] = s}
  BY DEF Delete, procs
<1>2. StoreTypes /\ JobsOK /\ TablesOK /\ ChunksOK
  BY DEF DocumentInv
<1>3. uploads \in Nat /\ \A p \in Ids, t \in Texts : graph[p][t] \in Nat
  BY <1>2, BoundAssumption DEF StoreTypes, Counts
<1>4. /\ passages' \in [Ids -> [text : Texts \cup {None}, emb : Texts \cup {None}]]
      /\ \A p \in Ids : passages'[p] = IF p[1] = s THEN NoRow ELSE passages[p]
  BY <1>1, <1>2 DEF StoreTypes, NoRow
<1>5. Rows' = {p \in Rows : p[1] # s} /\ Rows \subseteq Ids
  BY <1>4 DEF Rows, NoRow
<1>6. StoreTypes'
  <2>1. \A p \in Ids : passages'[p].text = None => passages'[p].emb = None
    BY <1>2, <1>4 DEF StoreTypes, NoRow
  <2>2. reused' \subseteq Ids /\ cleaned' \subseteq reused'
    BY <1>1, <1>2, <1>5 DEF StoreTypes
  <2>3. raw' \in [Files -> 0 .. uploads']
    <3>1. None \in 0 .. uploads
      BY <1>3 DEF None
    <3> QED BY <1>1, <1>2, <3>1 DEF StoreTypes
  <2>4. deletes' \in Nat /\ crossed' \in BOOLEAN
    BY <1>1, <1>2 DEF StoreTypes
  <2> QED BY <1>1, <1>2, <1>4, <2>1, <2>2, <2>3, <2>4 DEF StoreTypes, Counts, IngestJob, BuildJob, CleanJob, Docs
<1>7. Kept
  <2>1. uploads <= uploads'
    BY <1>1, <1>3
  <2>2. \A p \in Ids, t \in Texts : graph[p][t] <= graph'[p][t]
    BY <1>1, <1>3
  <2>3. \A p \in Ids, t \in Texts : IsOrWas(p, t) => IsOrWas(p, t)'
    BY <1>1, <1>4, <1>5 DEF IsOrWas
  <2> QED BY <1>1, <1>5, <2>1, <2>2, <2>3 DEF Kept
<1>8. JobsOK'
  BY <1>1, <1>2, <1>6, <1>7, Unmoved, JobsStay
<1>9. TablesOK'
  <2>1. \A p \in (Rows \ reused)' : passages'[p].emb \in {None, passages'[p].text}
    BY <1>1, <1>2, <1>4, <1>5 DEF TablesOK
  <2> QED BY <1>1, <1>2, <1>6, <1>7, <2>1, TablesStay
<1>10. ChunksOK'
  BY <1>1, <1>2 DEF ChunksOK, FromAttempts
<1>11. ASSUME Calm' PROVE CalmOK'
  <2>1. Calm /\ ~(Running > 0)
    BY <1>1, <1>11 DEF Calm
  <2>2. Ingesting = {} /\ Backfilling = {} /\ Building = {} /\ Cleaning = {}
    BY <1>2, <2>1, NothingRuns
  <2>3. Embedded /\ AddedOnce
    BY <2>1, <2>2 DEF DocumentInv, CalmOK
  <2>4. Ingesting' = {} /\ Backfilling' = {} /\ Building' = {} /\ Cleaning' = {} /\ AddedOnce'
    BY <1>1, <2>2, <2>3 DEF Ingesting, Backfilling, Building, Cleaning, AddedOnce
  <2>5. Embedded'
    BY <1>4, <1>5, <2>3 DEF Embedded
  <2>6. TakenOut'
    <3>1. deletes' # 0
      BY <1>1, <1>2 DEF StoreTypes
    <3> QED BY <3>1 DEF TakenOut
  <2> QED BY <2>4, <2>5, <2>6 DEF CalmOK
<1> QED BY <1>6, <1>8, <1>9, <1>10, <1>11 DEF DocumentInv

\* A step in which nothing happens.
LEMMA DocumentStutters ==
  ASSUME DocumentInv, UNCHANGED vars
  PROVE  DocumentInv'
<1>1. /\ raw' = raw /\ pieces' = pieces /\ uploads' = uploads
      /\ passages' = passages /\ checkpoints' = checkpoints /\ graph' = graph
      /\ ingests' = ingests /\ backfills' = backfills /\ builds' = builds /\ cleanups' = cleanups
      /\ deletes' = deletes /\ faults' = faults /\ reused' = reused /\ cleaned' = cleaned /\ crossed' = crossed
  BY DEF vars, store, tables, procs, history
<1>2. StoreTypes /\ JobsOK /\ TablesOK /\ ChunksOK
  BY DEF DocumentInv
<1>3. Rows' = Rows
  BY <1>1 DEF Rows
<1>4. StoreTypes'
  BY <1>1, <1>2 DEF StoreTypes, Counts, IngestJob, BuildJob, CleanJob, Docs
<1>5. Kept
  BY <1>1, <1>2, <1>3, KeptWhenTextsStay
<1>6. JobsOK'
  BY <1>1, <1>2, <1>4, <1>5, Unmoved, JobsStay
<1>7. TablesOK'
  BY <1>1, <1>2, <1>3 DEF TablesOK
<1>8. ChunksOK'
  BY <1>1, <1>2 DEF ChunksOK, FromAttempts
<1>9. Calm' => CalmOK'
  <2>1. \A source \in Sources, text \in Texts : PassagesOf(source, text)' = PassagesOf(source, text)
    BY <1>1 DEF PassagesOf
  <2>2. /\ Ingesting' = Ingesting /\ Backfilling' = Backfilling /\ Building' = Building /\ Cleaning' = Cleaning
        /\ Embedded' = Embedded /\ AddedOnce' = AddedOnce /\ TakenOut' = TakenOut
    BY <1>1, <1>3 DEF Ingesting, Backfilling, Building, Cleaning, Embedded, AddedOnce, TakenOut
  <2>3. ASSUME NEW i \in DOMAIN ingests, IngestRuns(ingests[i]) PROVE IngestRuns(ingests[i])'
    <3>1. PICK job : job = ingests[i]
      OBVIOUS
    <3>2. PassagesOf(job.source, job.text)' = PassagesOf(job.source, job.text)
      BY <1>1 DEF PassagesOf
    <3>3. IngestRuns(job)'
      BY <1>1, <1>3, <2>3, <3>1, <3>2 DEF IngestRuns
    <3> QED BY <1>1, <3>1, <3>3
  <2>4. ASSUME NEW i \in DOMAIN backfills, BackfillRuns(backfills[i]) PROVE BackfillRuns(backfills[i])'
    BY <1>1, <1>3, <2>4 DEF BackfillRuns
  <2>5. ASSUME NEW i \in DOMAIN builds, BuildRuns(builds[i]) PROVE BuildRuns(builds[i])'
    BY <1>1, <1>3, <2>5 DEF BuildRuns
  <2>6. ASSUME NEW i \in DOMAIN cleanups, CleanRuns(cleanups[i]) PROVE CleanRuns(cleanups[i])'
    BY <1>1, <1>3, <2>6 DEF CleanRuns
  <2> HAVE Calm'
  <2>7. CalmOK
    BY <1>1 DEF Calm, DocumentInv
  <2> QED BY <1>1, <2>2, <2>3, <2>4, <2>5, <2>6, <2>7 DEF CalmOK
<1> QED BY <1>4, <1>6, <1>7, <1>8, <1>9 DEF DocumentInv

\* Every step of the document store keeps its invariant.
LEMMA DocumentStep ==
  ASSUME DocumentInv, [Next]_vars
  PROVE  DocumentInv'
<1>1. ASSUME NEW f \in Files, Upload(f) \/ Ingest(f) PROVE DocumentInv'
  BY <1>1, UploadKeeps, IngestKeeps
<1>2. ASSUME NEW i \in DOMAIN ingests, Upsert(i) \/ Embed(i) PROVE DocumentInv'
  BY <1>2, UpsertKeeps, EmbedKeeps
<1>3. ASSUME NEW i \in DOMAIN backfills, BackfillBatch(i) PROVE DocumentInv'
  BY <1>3, BackfillBatchKeeps
<1>4. ASSUME NEW i \in DOMAIN builds, Select(i) \/ SelectBlind(i) PROVE DocumentInv'
  BY <1>4, SelectKeeps
<1>5. ASSUME NEW i \in DOMAIN builds, NEW p \in builds[i].todo, Write(i, p) \/ Save(i, p) \/ Fail(i, p)
      PROVE  DocumentInv'
  BY <1>5, WriteKeeps, SaveKeeps, AttemptFailsKeeps
<1>6. ASSUME NEW i \in DOMAIN cleanups, MatchChunks(i) \/ DeleteRows(i) \/ DeleteChunks(i) PROVE DocumentInv'
  BY <1>6, MatchChunksKeeps, DeleteRowsKeeps, DeleteChunksKeeps
<1>7. ASSUME NEW s \in Sources, Delete(s) PROVE DocumentInv'
  BY <1>7, DocumentDeleteKeeps
<1>8. CASE Next
  BY <1>1, <1>2, <1>3, <1>4, <1>5, <1>6, <1>7, <1>8, BackfillKeeps, LoadKeeps, CleanupKeeps, KillKeeps DEF Next
<1> QED BY <1>8, DocumentStutters

\* With no document nothing is wrong.
LEMMA DocumentBegins == Init => DocumentInv
<1> SUFFICES ASSUME Init PROVE DocumentInv
  OBVIOUS
<1>1. /\ ingests = <<>> /\ backfills = <<>> /\ builds = <<>> /\ cleanups = <<>>
      /\ reused = {} /\ cleaned = {} /\ checkpoints = {} /\ crossed = FALSE /\ deletes = 0 /\ faults = 0
      /\ uploads = 0 /\ raw = [f \in Files |-> None] /\ pieces = [t \in Texts |-> 0]
      /\ passages = [p \in Ids |-> NoRow] /\ graph = NoChunks
  BY DEF Init
<1>2. Rows = {}
  BY <1>1 DEF Rows, NoRow
<1>3. graph \in Counts /\ \A p \in Ids, t \in Texts : graph[p][t] = 0
  BY <1>1 DEF NoChunks, Counts
<1>4. StoreTypes
  <2>1. uploads \in 0 .. MaxUploads /\ raw \in [Files -> 0 .. uploads] /\ pieces \in [Texts -> 0 .. MaxPieces]
    BY <1>1, BoundAssumption DEF None
  <2>2. /\ passages \in [Ids -> [text : Texts \cup {None}, emb : Texts \cup {None}]]
        /\ \A p \in Ids : passages[p].text = None => passages[p].emb = None
    BY <1>1 DEF NoRow
  <2>3. /\ ingests \in Seq(IngestJob) /\ backfills \in Seq(Docs) /\ builds \in Seq(BuildJob)
        /\ cleanups \in Seq(CleanJob)
    BY <1>1
  <2>4. /\ checkpoints \subseteq Ids /\ reused \subseteq Ids /\ cleaned \subseteq reused /\ crossed \in BOOLEAN
        /\ deletes \in Nat /\ faults \in Nat
    BY <1>1
  <2> QED BY <1>3, <2>1, <2>2, <2>3, <2>4 DEF StoreTypes
<1>5. DOMAIN ingests = {} /\ DOMAIN backfills = {} /\ DOMAIN builds = {} /\ DOMAIN cleanups = {} /\ Len(builds) = 0
  BY <1>1
<1>6. JobsOK /\ TablesOK
  BY <1>1, <1>2, <1>5 DEF JobsOK, TablesOK
<1>7. ChunksOK
  <2>1. ASSUME NEW p \in Ids, NEW t \in Texts PROVE FromAttempts(p, t, {})
    <3>1. Cardinality({}) = 0
      BY FS_EmptySet
    <3> QED BY <1>3, <3>1 DEF FromAttempts
  <2> QED BY <1>5, <2>1, BoundAssumption DEF ChunksOK
<1>8. CalmOK
  BY <1>1, <1>2, <1>3, <1>5
     DEF CalmOK, Ingesting, Backfilling, Building, Cleaning, Embedded, AddedOnce, TakenOut
<1> QED BY <1>4, <1>6, <1>7, <1>8 DEF DocumentInv

\* The inductive invariant of the document store.
LEMMA DocumentIsInvariant == Spec => []DocumentInv
BY DocumentBegins, DocumentStep, PTL DEF Spec

\* No part of a text is in the graph more often than builds have attempts.
LEMMA ChunksBounded ==
  ASSUME DocumentInv, NEW p \in Ids, NEW t \in Texts
  PROVE  graph[p][t] \in 0 .. MaxBuilds * MaxRetries
<1>1. PICK from \in SUBSET ((DOMAIN builds) \X (1 .. MaxRetries)) : FromAttempts(p, t, from)
  BY DEF DocumentInv, ChunksOK
<1>2. Len(builds) \in Nat /\ Len(builds) <= MaxBuilds /\ DOMAIN builds = 1 .. Len(builds)
      /\ MaxBuilds \in Nat /\ MaxRetries \in Nat
  BY BoundAssumption DEF DocumentInv, StoreTypes, ChunksOK
<1>3. IsFiniteSet(1 .. MaxBuilds) /\ IsFiniteSet(1 .. MaxRetries)
      /\ Cardinality(1 .. MaxBuilds) = MaxBuilds /\ Cardinality(1 .. MaxRetries) = MaxRetries
  <2>1. \A n \in Nat : IsFiniteSet(1 .. n) /\ Cardinality(1 .. n) = n
    <3> TAKE n \in Nat
    <3>1. Cardinality(1 .. n) = IF 1 > n THEN 0 ELSE n - 1 + 1
      BY FS_Interval
    <3> QED BY <3>1, FS_Interval
  <2> QED BY <1>2, <2>1
<1>4. /\ IsFiniteSet((1 .. MaxBuilds) \X (1 .. MaxRetries))
      /\ Cardinality((1 .. MaxBuilds) \X (1 .. MaxRetries)) = MaxBuilds * MaxRetries
  BY <1>3, FS_Product
<1>5. from \subseteq (1 .. MaxBuilds) \X (1 .. MaxRetries)
  BY <1>2
<1>6. /\ Cardinality(from) \in Nat /\ Cardinality(from) <= MaxBuilds * MaxRetries
      /\ MaxBuilds * MaxRetries \in Nat
  BY <1>4, <1>5, FS_Subset, FS_CardinalityType
<1>7. graph[p][t] \in Nat /\ graph[p][t] <= Cardinality(from)
  BY <1>1 DEF FromAttempts, DocumentInv, StoreTypes, Counts
<1> QED BY <1>6, <1>7

(* An embedding is that of the text beside it as long as the text never changed, however
   ingestions and backfills overlap; and, when no process fails or overlaps another, also
   after the text was replaced (bulk_upsert_emb_passages(), which keeps the embedding of a
   row, and the embedding that follows it). *)
THEOREM EmbeddingsHold == Spec => []EmbeddingIsOfText
<1>1. ASSUME DocumentInv PROVE EmbeddingIsOfText
  <2> SUFFICES ASSUME NEW p \in Rows, p \notin reused \/ (Calm /\ Running = 0)
               PROVE  passages[p].emb \in {None, passages[p].text}
    BY DEF EmbeddingIsOfText
  <2>1. CASE p \notin reused
    BY <1>1, <2>1 DEF DocumentInv, TablesOK
  <2>2. CASE Calm /\ Running = 0
    <3>1. Ingesting = {} /\ Backfilling = {} /\ Building = {} /\ Cleaning = {}
      BY <1>1, <2>2, NothingRuns DEF DocumentInv
    <3>2. Embedded
      BY <1>1, <2>2, <3>1 DEF DocumentInv, CalmOK
    <3> QED BY <3>2 DEF Embedded
  <2> QED BY <2>1, <2>2
<1> QED BY <1>1, DocumentIsInvariant, PTL

(* What the checkpoints list is in the graph, with the text it has as long as that never
   changed, whatever fails or dies between the two databases; when no process fails or
   overlaps another, once, and nothing is left in the graph of what a clean-up took out of
   the table (builder.py, cleanup_passages.py). *)
THEOREM BuildsHold == Spec => []BuiltOnce
<1>1. ASSUME DocumentInv PROVE BuiltOnce
  <2>1. StoreTypes /\ TablesOK
    BY <1>1 DEF DocumentInv
  <2>2. TypeOK
    <3>1. graph \in [Ids -> [Texts -> 0 .. MaxBuilds * MaxRetries]]
      <4>1. \A p \in Ids : graph[p] \in [Texts -> Nat]
        BY <2>1 DEF StoreTypes, Counts
      <4>2. \A p \in Ids : graph[p] \in [Texts -> 0 .. MaxBuilds * MaxRetries]
        BY <1>1, <4>1, ChunksBounded
      <4> QED BY <2>1, <4>2 DEF StoreTypes, Counts
    <3>2. raw \in [Files -> Texts \cup {None}]
      <4>1. 0 .. uploads \subseteq Texts \cup {None}
        <5>1. uploads \in 0 .. MaxUploads /\ MaxUploads \in Nat
          BY <2>1, BoundAssumption DEF StoreTypes
        <5> QED BY <5>1 DEF Texts, None
      <4> QED BY <2>1, <4>1 DEF StoreTypes
    <3>3. /\ passages \in [Ids -> [text : Texts \cup {None}, emb : Texts \cup {None}]]
          /\ \A p \in Ids : passages[p].text = None => passages[p].emb = None
          /\ checkpoints \subseteq Ids /\ reused \subseteq Ids /\ cleaned \subseteq Ids /\ crossed \in BOOLEAN
      BY <2>1 DEF StoreTypes
    <3> QED BY <3>1, <3>2, <3>3 DEF TypeOK
  <2>3. Calm => \A p \in Ids, t \in Texts : graph[p][t] <= 1
    BY <1>1 DEF DocumentInv, CalmOK, AddedOnce, BuildRuns
  <2>4. Calm /\ Running = 0 /\ deletes = 0 => \A p \in cleaned \ Rows, t \in Texts : graph[p][t] = 0
    <3> SUFFICES ASSUME Calm, Running = 0, deletes = 0
                 PROVE  \A p \in cleaned \ Rows, t \in Texts : graph[p][t] = 0
      OBVIOUS
    <3>1. Ingesting = {} /\ Backfilling = {} /\ Building = {} /\ Cleaning = {}
      BY <2>1, NothingRuns
    <3>2. TakenOut
      BY <1>1, <3>1 DEF DocumentInv, CalmOK
    <3> QED BY <3>2 DEF TakenOut
  <2> QED BY <2>1, <2>2, <2>3, <2>4 DEF BuiltOnce, TablesOK
<1> QED BY <1>1, DocumentIsInvariant, PTL
=============================================================================
