----------------------------- MODULE MCKnowledge -----------------------------
(***************************************************************************)
(* The knowledge base on small instances: each behaviour is of a document, *)
(* from its upload to the graph (KnowledgeBase; one file, and its stem),   *)
(* or of the graph's entities being merged (EntityMerge).  What follows an *)
(* overlap of two sessions of the latter is not explored: no property says *)
(* anything of it.                                                         *)
(***************************************************************************)
EXTENDS KnowledgeBase, TLC

CONSTANTS Names, Chunks, Sessions, MaxFacts, MaxMerges, MaxFails

VARIABLES scene, nodes, edges, facts, sessions, fails, told, late, overlapped

Merge == INSTANCE EntityMerge

ASSUME MergeAssumption == Merge!NamesAssumption /\ Merge!BoundAssumption

mergeVars == <<nodes, edges, facts, sessions, fails, told, late, overlapped>>

OneFile == {"x.pdf"}
StemOfOne == [f \in OneFile |-> "x"]

\* The second half of the first upload is an empty table.
JunkOfOne == {<<2, 1>>}

NameSymmetry == Permutations(Names)

NotOverlapped == ~overlapped

MCInit == scene \in {"document", "merge"} /\ Init /\ Merge!Init

MCNext == \/ scene = "document" /\ Next /\ UNCHANGED <<scene, mergeVars>>
          \/ scene = "merge" /\ Merge!Next /\ UNCHANGED <<scene, vars>>

MCSpec == MCInit /\ [][MCNext]_<<scene, vars, mergeVars>>

-----------------------------------------------------------------------------
\* EntityMerge's property: what the graph says of its entities survives their merging.
FactsSurviveUnlessLate == Merge!FactsSurviveUnlessLate
=============================================================================
