------------------------------ MODULE EntityMerge ------------------------------
(***************************************************************************)
(* Merging synonymous entities of the knowledge graph                      *)
(* (pipelines/knowledge_graph/entity_resolution.py) while builders add to  *)
(* it.  Every structured_query() is a transaction of its own, and a MATCH  *)
(* that finds nothing does nothing.  The entities modelled have one label. *)
(* Chunk nodes have no name.                                               *)
(***************************************************************************)
EXTENDS Naturals, FiniteSets

CONSTANTS Names,        \* names of entities
          Chunks,       \* chunk nodes
          Sessions,     \* run_resolution() calls: the daemon's and the command line's
          MaxFacts,     \* bound: edges the builders add
          MaxMerges,    \* bound: merges of a session
          MaxFails      \* bound: queries that raise

NamesAssumption == Names \cap Chunks = {}
BoundAssumption == /\ MaxFacts \in Nat /\ MaxMerges \in Nat /\ MaxFails \in Nat

VARIABLES nodes,        \* names of the entities in Neo4j
          edges,        \* relations, of one type
          facts,        \* edges added so far, counted
          sessions,
          fails,
          told,         \* history: every edge added, renamed by every merge since
          late,         \* history: edges added to a node that is being merged away, after
                        \* its relations in that direction have been read
          overlapped    \* history: two sessions have been under way at a time

history == <<told, late, overlapped>>
vars == <<nodes, edges, facts, sessions, fails, history>>

Edge == (Names \cup Chunks) \X Names

Waiting == [pc |-> "new", pairs |-> {}, merged |-> {}, count |-> 0, keep |-> {}, del |-> {},
            todo |-> {}]

Busy == {s \in Sessions : sessions[s].pc \notin {"new", "done"}}

Init == /\ nodes = {}
        /\ edges = {}
        /\ facts = 0
        /\ sessions = [s \in Sessions |-> Waiting]
        /\ fails = 0
        /\ told = {}
        /\ late = {}
        /\ overlapped = FALSE

Keep(s) == CHOOSE x \in sessions[s].keep : TRUE
Del(s) == CHOOSE x \in sessions[s].del : TRUE

\* The edge comes too late for the merge of s.
LateFor(s, e) ==
    \/ sessions[s].pc \in {"copying out", "copying in"} /\ e[1] = Del(s)
    \/ sessions[s].pc = "copying in" /\ e[2] = Del(s)

\* A builder adds an edge and the entities it needs.
AddFact(e) ==
    /\ facts < MaxFacts
    /\ e \notin edges
    /\ facts' = facts + 1
    /\ nodes' = nodes \cup ({e[1], e[2]} \cap Names)
    /\ edges' = edges \cup {e}
    /\ told' = told \cup {e}
    /\ late' = IF \E s \in Sessions : LateFor(s, e) THEN late \cup {e} ELSE late
    /\ UNCHANGED <<sessions, fails, overlapped>>

Set(s, job) == sessions' = [sessions EXCEPT ![s] = job]

\* _fetch_all_nodes(), and the candidate pairs.
Fetch(s) ==
    /\ sessions[s].pc = "new"
    /\ overlapped' = (overlapped \/ Busy # {})
    /\ Set(s, [Waiting EXCEPT !.pc = "judging", !.pairs = {p \in SUBSET nodes : Cardinality(p) = 2}])
    /\ UNCHANGED <<nodes, edges, facts, fails, told, late>>

\* The pairs left, without those of which a node has been merged in this session.
Candidates(job) == {p \in job.pairs : p \cap job.merged = {}}

\* The model calls a pair synonymous and prefers one of its names.
Judge(s) ==
    /\ sessions[s].pc = "judging"
    /\ sessions[s].count < MaxMerges
    /\ \E pair \in Candidates(sessions[s]) : \E keep \in pair :
          Set(s, [sessions[s] EXCEPT !.pc = "reading out", !.pairs = @ \ {pair},
                                     !.keep = {keep}, !.del = pair \ {keep}])
    /\ UNCHANGED <<nodes, edges, facts, fails, history>>

End(s) ==
    /\ sessions[s].pc = "judging"
    /\ Set(s, [sessions[s] EXCEPT !.pc = "done", !.pairs = {}])
    /\ UNCHANGED <<nodes, edges, facts, fails, history>>

\* _merge_nodes_neo4j(): the outgoing relations of the node to delete, ...
ReadOut(s) ==
    /\ sessions[s].pc = "reading out"
    /\ Set(s, [sessions[s] EXCEPT !.pc = "copying out",
                                  !.todo = {e \in edges : e[1] = Del(s)}])
    /\ UNCHANGED <<nodes, edges, facts, fails, history>>

\* MATCH both ends, by name, MERGE the relation.
Merged(from, to) == IF {from, to} \subseteq nodes THEN edges \cup {<<from, to>>} ELSE edges

\* ... copied one by one, ...
CopyOut(s) ==
    /\ sessions[s].pc = "copying out"
    /\ \E e \in sessions[s].todo :
          /\ edges' = Merged(Keep(s), e[2])
          /\ Set(s, [sessions[s] EXCEPT !.todo = @ \ {e}])
    /\ UNCHANGED <<nodes, facts, fails, history>>

\* Mutated: reads the outgoing relations again.
ReadInOut(s) ==
    /\ sessions[s].pc = "copying out"
    /\ sessions[s].todo = {}
    /\ Set(s, [sessions[s] EXCEPT !.pc = "copying in",
                                  !.todo = {e \in edges : e[1] = Del(s)}])
    /\ UNCHANGED <<nodes, edges, facts, fails, history>>

\* ... the incoming ones ...
ReadIn(s) ==
    /\ sessions[s].pc = "copying out"
    /\ sessions[s].todo = {}
    /\ Set(s, [sessions[s] EXCEPT !.pc = "copying in",
                                  !.todo = {e \in edges : e[2] = Del(s)}])
    /\ UNCHANGED <<nodes, edges, facts, fails, history>>

\* ... too (of a chunk's there is no name to match), ...
CopyIn(s) ==
    /\ sessions[s].pc = "copying in"
    /\ \E e \in sessions[s].todo :
          /\ edges' = Merged(e[1], Keep(s))
          /\ Set(s, [sessions[s] EXCEPT !.todo = @ \ {e}])
    /\ UNCHANGED <<nodes, facts, fails, history>>

Renamed(x, s) == IF x = Del(s) THEN Keep(s) ELSE x

\* ... and DETACH DELETE.
Delete(s) ==
    /\ sessions[s].pc = "copying in"
    /\ sessions[s].todo = {}
    /\ nodes' = nodes \ {Del(s)}
    /\ edges' = {e \in edges : Del(s) \notin {e[1], e[2]}}
    /\ told' = {<<Renamed(e[1], s), Renamed(e[2], s)>> : e \in told \ late}
    /\ late' = {}
    /\ Set(s, [sessions[s] EXCEPT !.pc = "judging", !.count = @ + 1,
                                  !.merged = @ \cup {Del(s)}, !.keep = {}, !.del = {}])
    /\ UNCHANGED <<facts, fails, overlapped>>

\* A query raises: the merge is given up where it is.
Fail(s) ==
    /\ sessions[s].del # {}
    /\ fails < MaxFails
    /\ fails' = fails + 1
    /\ Set(s, [sessions[s] EXCEPT !.pc = "judging", !.keep = {}, !.del = {}, !.todo = {}])
    /\ late' = {}
    /\ UNCHANGED <<nodes, edges, facts, told, overlapped>>

Next == \/ \E e \in Edge : AddFact(e)
        \/ \E s \in Sessions : \/ Fetch(s) \/ Judge(s) \/ ReadOut(s) \/ CopyOut(s) \/ ReadIn(s)
                               \/ CopyIn(s) \/ Delete(s) \/ Fail(s) \/ End(s)

Spec == Init /\ [][Next]_vars

-----------------------------------------------------------------------------
Entities(es) == {e \in es : e[1] \in Names}

TypeOK ==
    /\ nodes \subseteq Names
    /\ edges \subseteq Edge /\ told \subseteq Edge /\ late \subseteq edges
    /\ overlapped \in BOOLEAN
    /\ \A e \in edges : {e[1], e[2]} \cap Names \subseteq nodes
    /\ \A s \in Sessions : /\ sessions[s].pc \in {"new", "judging", "reading out", "copying out",
                                                  "copying in", "done"}
                           /\ sessions[s].count = Cardinality(sessions[s].merged)

(* "구 노드의 관계를 신 노드로 이식 후 구 노드를 삭제": what the graph says of its entities
   it still says, of the names they are merged into, also after merges that were given up
   half-way, of entities related to each other or to themselves, and of whatever builders
   add meanwhile, except what comes too late for a merge and while sessions overlap. *)
FactsSurviveUnlessLate == TypeOK /\ (~overlapped => Entities(told) \subseteq edges)
=============================================================================
