----------------------------- MODULE KnowledgeBase -----------------------------
(***************************************************************************)
(* The documents the chatbot answers from: the uploaded originals          *)
(* (backend/app/api/graph.py), their passages and embeddings in            *)
(* emb_passages (pipelines/embedding) and the graph built from them        *)
(* (pipelines/knowledge_graph/builder.py).  Ingestion, backfill, build and *)
(* clean-up (cleanup_passages.py) are processes of their own, started from *)
(* the browser or by hand, any number at a time but for the clean-up, of   *)
(* which one runs; each statement below is one transaction.                *)
(*                                                                         *)
(* A passage is named by the stem of its file and its index; its text is   *)
(* known by the upload it comes from.                                      *)
(***************************************************************************)
EXTENDS Naturals, FiniteSets, Sequences

CONSTANTS Files,        \* file names
          Stem,         \* Path(file).stem of each
          MaxPieces,    \* bound: passages of a document
          MaxUploads, MaxIngests, MaxBackfills, MaxBuilds, MaxDeletes,  \* bounds
          MaxRunning,   \* bound: processes under way at a time
          MaxFaults,    \* bound: processes that die, reads and writes that fail
          MaxCleanups,  \* bound
          MaxRetries,   \* max_retries
          Limit,        \* --limit of a build
          Junk          \* what is_junk() finds: the passage of an index in an upload

ASSUME FilesAssumption == Stem \in [Files -> STRING]
ASSUME BoundAssumption ==
    /\ MaxPieces \in Nat \ {0} /\ MaxUploads \in Nat /\ MaxIngests \in Nat
    /\ MaxBackfills \in Nat /\ MaxBuilds \in Nat /\ MaxDeletes \in Nat /\ MaxFaults \in Nat
    /\ MaxRunning \in Nat /\ MaxCleanups \in Nat /\ MaxRetries \in Nat \ {0}
ASSUME LimitAssumption == Limit \in Nat
ASSUME JunkAssumption == Junk \subseteq (1 .. MaxPieces) \X (1 .. MaxUploads)

Sources == {Stem[f] : f \in Files}
Ids == Sources \X (1 .. MaxPieces)
None == 0
Texts == 1 .. MaxUploads

VARIABLES
    raw,            \* data/raw_documents: the upload a file holds
    pieces,         \* of each upload, how many passages it is cut into
    uploads,        \* uploads so far
    passages,       \* emb_passages: text and the text its embedding was computed from
    checkpoints,    \* graph_checkpoints
    graph,          \* Neo4j: how often a text of a passage has been added
    ingests,        \* reingest processes
    backfills,      \* backfill processes
    builds,         \* builder processes
    cleanups,       \* clean-up processes
    deletes,
    faults,
    reused,         \* history: passages whose text has been replaced or deleted
    cleaned,        \* history: passages a clean-up has deleted
    crossed         \* history: processes have overlapped, or a deletion a process

store == <<raw, pieces, uploads>>
tables == <<passages, checkpoints, graph>>
procs == <<ingests, backfills, builds, cleanups>>
history == <<reused, cleaned, crossed>>
vars == <<store, tables, procs, deletes, faults, history>>

NoChunks == [p \in Ids |-> [t \in Texts |-> 0]]
NoRow == [text |-> None, emb |-> None]
Rows == {p \in Ids : passages[p].text # None}

\* Processes that are still running.
Running == Cardinality({i \in DOMAIN ingests : ingests[i].pc # "done"})
           + Cardinality({i \in DOMAIN backfills : backfills[i] # <<>>})
           + Cardinality({i \in DOMAIN builds : builds[i].pc # "done"})
           + Cardinality({i \in DOMAIN cleanups : cleanups[i].pc # "done"})

\* A process begins.
Launch == /\ Running < MaxRunning
          /\ crossed' = (crossed \/ Running > 0)
          /\ UNCHANGED <<reused, cleaned>>

\* The passages of an upload of a source.
PassagesOf(source, text) == {source} \X (1 .. pieces[text])

Init == /\ raw = [f \in Files |-> None]
        /\ pieces = [t \in Texts |-> 0]
        /\ uploads = 0
        /\ passages = [p \in Ids |-> NoRow]
        /\ checkpoints = {}
        /\ graph = NoChunks
        /\ ingests = <<>> /\ backfills = <<>> /\ builds = <<>> /\ cleanups = <<>>
        /\ deletes = 0 /\ faults = 0
        /\ reused = {} /\ cleaned = {}
        /\ crossed = FALSE

\* upload_document()
Upload(f) ==
    /\ uploads < MaxUploads
    /\ uploads' = uploads + 1
    /\ raw' = [raw EXCEPT ![f] = uploads + 1]
    /\ \E n \in 1 .. MaxPieces : pieces' = [pieces EXCEPT ![uploads + 1] = n]
    /\ UNCHANGED <<tables, procs, deletes, faults, history>>

\* start_ingest_job(), and the process parses the file.
Ingest(f) ==
    /\ Launch
    /\ Len(ingests) < MaxIngests
    /\ raw[f] # None
    /\ ingests' = Append(ingests, [pc |-> "parsed", source |-> Stem[f], text |-> raw[f]])
    /\ UNCHANGED <<store, tables, backfills, builds, cleanups, deletes, faults>>

\* Mutated: an upsert that leaves existing rows alone.
UpsertOnce(i) ==
    LET job == ingests[i] IN
    /\ job.pc = "parsed"
    /\ ingests' = [ingests EXCEPT ![i].pc = "upserted"]
    /\ passages' = [p \in Ids |-> IF p \in PassagesOf(job.source, job.text) \ Rows
                                    THEN [text |-> job.text, emb |-> None]
                                    ELSE passages[p]]
    /\ UNCHANGED <<store, checkpoints, graph, backfills, builds, cleanups, deletes, faults, history>>

\* bulk_upsert_emb_passages(): an existing row keeps its embedding.
Upsert(i) ==
    LET job == ingests[i]
        rows == PassagesOf(job.source, job.text)
    IN  /\ job.pc = "parsed"
        /\ ingests' = [ingests EXCEPT ![i].pc = "upserted"]
        /\ passages' = [p \in Ids |-> IF p \in rows THEN [passages[p] EXCEPT !.text = job.text]
                                                    ELSE passages[p]]
        /\ reused' = reused \cup {p \in Rows : p[1] = job.source}
        /\ UNCHANGED <<store, checkpoints, graph, backfills, builds, cleanups, deletes, faults, cleaned, crossed>>

\* The embeddings, in a transaction of their own, of the rows that are still there.
Embed(i) ==
    LET job == ingests[i] IN
    /\ job.pc = "upserted"
    /\ ingests' = [ingests EXCEPT ![i].pc = "done"]
    /\ passages' = [p \in Ids |-> IF p \in PassagesOf(job.source, job.text) \cap Rows
                                    THEN [passages[p] EXCEPT !.emb = job.text]
                                    ELSE passages[p]]
    /\ UNCHANGED <<store, checkpoints, graph, backfills, builds, cleanups, deletes, faults, history>>

\* backfill: reads the rows without an embedding ...
Backfill ==
    /\ Launch
    /\ Len(backfills) < MaxBackfills
    /\ backfills' = Append(backfills,
          [p \in {p \in Rows : passages[p].emb = None} |-> passages[p].text])
    /\ UNCHANGED <<store, tables, ingests, builds, cleanups, deletes, faults>>

\* ... and writes theirs, a batch at a time.
BackfillBatch(i) ==
    \E p \in DOMAIN backfills[i] :
        /\ backfills' = [backfills EXCEPT ![i] = [q \in DOMAIN @ \ {p} |-> @[q]]]
        /\ passages' = IF p \in Rows THEN [passages EXCEPT ![p].emb = backfills[i][p]]
                                     ELSE passages
        /\ UNCHANGED <<store, checkpoints, graph, ingests, builds, cleanups, deletes, faults, history>>

NoTries == [p \in Ids |-> 0]
Built == [pc |-> "done", docs |-> <<>>, todo |-> {}, written |-> {}, tries |-> NoTries]

\* builder main(): reads the passages ...
Load ==
    /\ Launch
    /\ Len(builds) < MaxBuilds
    /\ builds' = Append(builds, [pc |-> "loaded", docs |-> [p \in Rows |-> passages[p].text],
                                 todo |-> {}, written |-> {}, tries |-> NoTries])
    /\ UNCHANGED <<store, tables, ingests, backfills, cleanups, deletes, faults>>

\* Mutated: what the checkpoints list is done again.
TargetsAll(docs, processed) == {docs}

\* The unprocessed passages, at most Limit of them, in no particular order.
Targets(docs, processed) ==
    LET open == docs \ processed
        n == IF Cardinality(open) < Limit THEN Cardinality(open) ELSE Limit
    IN  {t \in SUBSET open : Cardinality(t) = n}

Begun(job, targets) == IF targets = {} THEN Built
                       ELSE [job EXCEPT !.todo = targets, !.pc = "building"]

\* ... and the checkpoints, and picks its targets.
Select(i) ==
    /\ builds[i].pc = "loaded"
    /\ \E targets \in Targets(DOMAIN builds[i].docs, checkpoints) :
          builds' = [builds EXCEPT ![i] = Begun(@, targets)]
    /\ UNCHANGED <<store, tables, ingests, backfills, cleanups, deletes, faults, history>>

\* get_processed_passage_ids() answers an error with the empty set.
SelectBlind(i) ==
    /\ builds[i].pc = "loaded"
    /\ faults < MaxFaults
    /\ faults' = faults + 1
    /\ \E targets \in Targets(DOMAIN builds[i].docs, {}) :
          builds' = [builds EXCEPT ![i] = Begun(@, targets)]
    /\ UNCHANGED <<store, tables, ingests, backfills, cleanups, deletes, history>>

Added(i, p) == [graph EXCEPT ![p][builds[i].docs[p]] = @ + 1]

\* worker_task(): the passage is extracted and added to Neo4j, ...
Write(i, p) ==
    /\ builds[i].pc = "building"
    /\ p \in builds[i].todo \ builds[i].written
    /\ builds' = [builds EXCEPT ![i].written = @ \cup {p}]
    /\ graph' = Added(i, p)
    /\ UNCHANGED <<store, passages, checkpoints, ingests, backfills, cleanups, deletes, faults, history>>

Without(job, p) == IF job.todo = {p} THEN Built ELSE [job EXCEPT !.todo = @ \ {p}]

\* ... and its checkpoint saved; an error there is swallowed.
Save(i, p) ==
    /\ builds[i].pc = "building"
    /\ p \in builds[i].written \cap builds[i].todo
    /\ builds' = [builds EXCEPT ![i] = Without(@, p)]
    /\ \/ checkpoints' = checkpoints \cup {p} /\ UNCHANGED faults
       \/ faults < MaxFaults /\ faults' = faults + 1 /\ UNCHANGED checkpoints
    /\ UNCHANGED <<store, passages, graph, ingests, backfills, cleanups, deletes, history>>

\* A failed attempt is repeated; the last one gives up.
Retried(job, p) == IF job.tries[p] + 1 = MaxRetries THEN Without(job, p)
                                                    ELSE [job EXCEPT !.tries[p] = @ + 1]

\* An attempt fails, before or after Neo4j has part of it.
Fail(i, p) ==
    /\ builds[i].pc = "building"
    /\ p \in builds[i].todo \ builds[i].written
    /\ faults < MaxFaults
    /\ faults' = faults + 1
    /\ graph' \in {graph, Added(i, p)}
    /\ builds' = [builds EXCEPT ![i] = Retried(@, p)]
    /\ UNCHANGED <<store, passages, checkpoints, ingests, backfills, cleanups, deletes, history>>

CleanedUp == [pc |-> "done", rows |-> {}, chunks |-> NoChunks]

\* cleanup_passages --apply: reads the rows, and ends if none of them is junk; ...
Cleanup ==
    LET junk == {p \in Rows : <<p[2], passages[p].text>> \in Junk}
    IN  /\ Launch
        /\ Len(cleanups) < MaxCleanups
        /\ \A i \in DOMAIN cleanups : cleanups[i].pc = "done"
        /\ junk # {}
        /\ cleanups' = Append(cleanups, [pc |-> "read", rows |-> junk, chunks |-> NoChunks])
        /\ UNCHANGED <<store, tables, ingests, backfills, builds, deletes, faults>>

\* ... notes their chunks, of whatever text, ...
MatchChunks(i) ==
    /\ cleanups[i].pc = "read"
    /\ cleanups' = [cleanups EXCEPT ![i].pc = "matched",
                      ![i].chunks = [p \in Ids |-> IF p \in cleanups[i].rows THEN graph[p]
                                                                            ELSE NoChunks[p]]]
    /\ UNCHANGED <<store, tables, ingests, backfills, builds, deletes, faults, history>>

\* ... deletes the rows by their names, whatever they hold by now, ...
DeleteRows(i) ==
    LET rows == cleanups[i].rows
    IN  /\ cleanups[i].pc = "matched"
        /\ cleanups' = [cleanups EXCEPT ![i].pc = "rows deleted"]
        /\ passages' = [p \in Ids |-> IF p \in rows THEN NoRow ELSE passages[p]]
        /\ reused' = reused \cup (rows \cap Rows)
        /\ cleaned' = cleaned \cup rows
        /\ UNCHANGED <<store, checkpoints, graph, ingests, backfills, builds, deletes, faults, crossed>>

\* ... and then the chunks it noted.  The checkpoints stay.
DeleteChunks(i) ==
    /\ cleanups[i].pc = "rows deleted"
    /\ cleanups' = [cleanups EXCEPT ![i] = CleanedUp]
    /\ graph' = [p \in Ids |-> [t \in Texts |-> graph[p][t] - cleanups[i].chunks[p][t]]]
    /\ UNCHANGED <<store, passages, checkpoints, ingests, backfills, builds, deletes, faults, history>>

\* A process dies.
Kill ==
    /\ faults < MaxFaults
    /\ faults' = faults + 1
    /\ \/ \E i \in DOMAIN ingests : /\ ingests[i].pc # "done"
                                    /\ ingests' = [ingests EXCEPT ![i].pc = "done"]
                                    /\ UNCHANGED <<backfills, builds, cleanups>>
       \/ \E i \in DOMAIN backfills : /\ backfills[i] # <<>>
                                      /\ backfills' = [backfills EXCEPT ![i] = <<>>]
                                      /\ UNCHANGED <<ingests, builds, cleanups>>
       \/ \E i \in DOMAIN builds : /\ builds[i].pc # "done"
                                   /\ builds' = [builds EXCEPT ![i] = Built]
                                   /\ UNCHANGED <<ingests, backfills, cleanups>>
       \/ \E i \in DOMAIN cleanups : /\ cleanups[i].pc # "done"
                                     /\ cleanups' = [cleanups EXCEPT ![i] = CleanedUp]
                                     /\ UNCHANGED <<ingests, backfills, builds>>
    /\ UNCHANGED <<store, tables, deletes, history>>

\* delete_document(): the rows of the source, and the file of that very name.
Delete(s) ==
    /\ deletes < MaxDeletes
    /\ \E p \in Rows : p[1] = s
    /\ deletes' = deletes + 1
    /\ passages' = [p \in Ids |-> IF p[1] = s THEN NoRow ELSE passages[p]]
    /\ raw' = [f \in Files |-> IF f = s THEN None ELSE raw[f]]
    /\ crossed' = (crossed \/ Running > 0)
    /\ reused' = reused \cup {p \in Rows : p[1] = s}
    /\ UNCHANGED <<pieces, uploads, checkpoints, graph, procs, faults, cleaned>>

Next == \/ \E f \in Files : Upload(f) \/ Ingest(f)
        \/ \E i \in DOMAIN ingests : Upsert(i) \/ Embed(i)
        \/ Backfill
        \/ \E i \in DOMAIN backfills : BackfillBatch(i)
        \/ Load
        \/ \E i \in DOMAIN builds :
              \/ Select(i) \/ SelectBlind(i)
              \/ \E p \in builds[i].todo : Write(i, p) \/ Save(i, p) \/ Fail(i, p)
        \/ Cleanup
        \/ \E i \in DOMAIN cleanups : MatchChunks(i) \/ DeleteRows(i) \/ DeleteChunks(i)
        \/ Kill
        \/ \E s \in Sources : Delete(s)

Spec == Init /\ [][Next]_vars

-----------------------------------------------------------------------------
TypeOK ==
    /\ raw \in [Files -> Texts \cup {None}]
    /\ passages \in [Ids -> [text : Texts \cup {None}, emb : Texts \cup {None}]]
    /\ \A p \in Ids : passages[p].text = None => passages[p].emb = None
    /\ checkpoints \subseteq Ids
    /\ graph \in [Ids -> [Texts -> 0 .. MaxBuilds * MaxRetries]]
    /\ reused \subseteq Ids /\ cleaned \subseteq Ids /\ crossed \in BOOLEAN

Calm == faults = 0 /\ ~crossed

(* A passage the builder will skip for good has been added to the graph, whatever fails or
   dies between the two databases, and with the text it has, as long as that never
   changed.  "이미 처리된 단락 자동 스킵": it is not added twice in any number of builds
   when no process fails or overlaps another.  "PostgreSQL + Neo4j Chunk 동시": of what a
   clean-up took out of the table nothing is left in the graph, on the same condition. *)
BuiltOnce ==
    /\ TypeOK
    /\ \A p \in checkpoints \ cleaned : \E t \in Texts : graph[p][t] > 0
    /\ \A p \in (checkpoints \cap Rows) \ reused : graph[p][passages[p].text] > 0
    /\ Calm => \A p \in Ids, t \in Texts : graph[p][t] <= 1
    /\ Calm /\ Running = 0 /\ deletes = 0 =>
           \A p \in cleaned \ Rows, t \in Texts : graph[p][t] = 0

(* "재적재하고 bge-m3 임베딩을 즉시 계산하는": an embedding is that of the text beside it as
   long as the text never changed, however ingestions and backfills overlap; and, when no
   process fails or overlaps another, also after the text was replaced. *)
EmbeddingIsOfText ==
    \A p \in Rows : p \notin reused \/ (Calm /\ Running = 0) =>
        passages[p].emb \in {None, passages[p].text}
=============================================================================
