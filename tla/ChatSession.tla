------------------------------ MODULE ChatSession ------------------------------
(***************************************************************************)
(* One chat session: the turns of backend/app/services/chat_service.py,    *)
(* the deletion of backend/app/api/chat.py, the LangGraph checkpoints of   *)
(* the thread and the chat_sessions row.                                   *)
(*                                                                         *)
(* A run of the graph (backend/app/services/agent/graph.py) loads the      *)
(* newest checkpoint once, works on its own copy and saves the copy after  *)
(* every superstep; a save writes the channels that changed and refers to  *)
(* the stored values of the others.  Turns are numbered; turn t asks       *)
(* question t, and its reply has a body (streamed token by token) and a    *)
(* footer (appended by the synthesize node).                               *)
(***************************************************************************)
EXTENDS Naturals, FiniteSets, SequencesExt

CONSTANTS NumTurns,     \* bound: turns of the session
          MaxDeletes,   \* bound: deletions of the session
          MaxBreaks,    \* bound: turns that fail or lose their client
          InFlight      \* bound: turns and deletions under way at a time

ChatAssumption == /\ NumTurns \in Nat /\ MaxDeletes \in Nat /\ MaxBreaks \in Nat
                  /\ InFlight \in Nat \ {0}

VARIABLES
    stored,     \* the newest checkpoint: its channels
    row,        \* chat_sessions: title and message_count, or NoRow
    pc,         \* per turn: "new", "prepared", "intent", "tools", "writing", "streaming",
                \* "net", "count", "upsert", "done", "broken"
    run,        \* per turn: the channels as the run holds them
    lost,       \* per turn: channels whose stored value was deleted under the run
    first,      \* per turn: is_first_turn
    count,      \* per turn: message_count, as read
    shown,      \* per turn: what the user has been sent of the reply
    deleter,    \* DELETE /chat/sessions: "idle" or "row"
    deletes,
    kept,       \* history: turns acknowledged since the last deletion
    wiped,      \* history: nothing was asked since the last deletion began
    crossed     \* history: turns, and the latest deletion (as 0), that were under way
                \* together with another one

turns == <<pc, run, lost, first, count, shown>>
history == <<kept, wiped, crossed>>
vars == <<stored, row, turns, deleter, deletes, history>>

Turns == 1 .. NumTurns
Channels == {"messages", "profile", "context"}
Empty == [messages |-> <<>>, profile |-> FALSE, context |-> {}]
NoRow == [title |-> 0, count |-> 0]

Human(t) == [by |-> "human", turn |-> t]
Ai(t) == [by |-> "ai", turn |-> t]
Content(m) == IF m.by = "ai" THEN <<<<m.turn, "body">>, <<m.turn, "footer">>>>
              ELSE <<<<m.turn, "question">>>>

Idle == {"new", "done", "broken"}
Active == {t \in Turns : pc[t] \notin Idle}
Deletion == 0
UnderWay == Active \cup (IF deleter = "idle" THEN {} ELSE {Deletion})
Room == Cardinality(UnderWay) < InFlight
Broken == {t \in Turns : pc[t] = "broken"}

Init == /\ stored = Empty
        /\ row = NoRow
        /\ pc = [t \in Turns |-> "new"]
        /\ run = [t \in Turns |-> Empty]
        /\ lost = [t \in Turns |-> {}]
        /\ first = [t \in Turns |-> FALSE]
        /\ count = [t \in Turns |-> 0]
        /\ shown = [t \in Turns |-> <<>>]
        /\ deleter = "idle"
        /\ deletes = 0
        /\ kept = {}
        /\ wiped = FALSE
        /\ crossed = {}

\* A superstep of turn t ends with channels ch, of which it has changed the given ones.
Save(t, ch, changed) ==
    LET gone == lost[t] \ changed
    IN  /\ run' = [run EXCEPT ![t] = ch]
        /\ lost' = [lost EXCEPT ![t] = gone]
        /\ stored' = [c \in Channels |-> IF c \in gone THEN Empty[c] ELSE ch[c]]

Goto(t, step) == pc' = [pc EXCEPT ![t] = step]

\* _prepare_inputs(): every turn comes with the profile, the first one passes it on.
Prepare(t) ==
    /\ pc[t] = "new"
    /\ Room
    /\ \A s \in Turns : s < t => pc[s] # "new"
    /\ Goto(t, "prepared")
    /\ first' = [first EXCEPT ![t] = stored.messages = <<>>]
    /\ wiped' = FALSE
    /\ crossed' = IF UnderWay = {} THEN crossed ELSE crossed \cup UnderWay \cup {t}
    /\ UNCHANGED <<stored, row, run, lost, count, shown, deleter, deletes, kept>>

\* Mutated: the input takes the place of the stored messages.
BeginAfresh(t) ==
    /\ pc[t] = "prepared"
    /\ Goto(t, "intent")
    /\ Save(t, [messages |-> <<Human(t)>>, profile |-> stored.profile \/ first[t],
                context |-> stored.context],
            {"messages"} \cup (IF first[t] THEN {"profile"} ELSE {}))
    /\ UNCHANGED <<row, first, count, shown, deleter, deletes, history>>

\* agent.stream() begins: the run loads the thread and saves its input.
Begin(t) ==
    /\ pc[t] = "prepared"
    /\ Goto(t, "intent")
    /\ Save(t, [messages |-> Append(stored.messages, Human(t)),
                profile |-> stored.profile \/ first[t],
                context |-> stored.context],
            {"messages"} \cup (IF first[t] THEN {"profile"} ELSE {}))
    /\ UNCHANGED <<row, first, count, shown, deleter, deletes, history>>

\* Mutated: None does not reset, the reducer only ever adds.
MergeAdd(left, right, reset) == left \cup right

\* merge_tool_context(): None resets, a list is added.
Merge(left, right, reset) == IF reset THEN {} ELSE left \cup right

Intent(t) ==
    /\ pc[t] = "intent"
    /\ \E next \in {"tools", "writing"} : Goto(t, next)
    /\ Save(t, [run[t] EXCEPT !.context = Merge(@, {}, TRUE)], {"context"})
    /\ UNCHANGED <<row, first, count, shown, deleter, deletes, history>>

RunTools(t) ==
    /\ pc[t] = "tools"
    /\ Goto(t, "writing")
    /\ Save(t, [run[t] EXCEPT !.context = Merge(@, {t}, FALSE)], {"context"})
    /\ UNCHANGED <<row, first, count, shown, deleter, deletes, history>>

\* synthesize: the reply is written with what the run holds; its tokens go out.
Write(t) ==
    /\ pc[t] = "writing"
    /\ Goto(t, "streaming")
    /\ shown' = [shown EXCEPT ![t] = Append(@, <<t, "body">>)]
    /\ UNCHANGED <<stored, row, run, lost, first, count, deleter, deletes, history>>

\* What is still to be shown of a text, given what has been.
Remainder(text, seen) ==
    IF IsPrefix(seen, text) THEN SubSeq(text, Len(seen) + 1, Len(text)) ELSE <<>>

\* Mutated: the safety net forgets what the update handler has sent.
UpdateForgets(t) ==
    /\ pc[t] = "streaming"
    /\ Goto(t, "net")
    /\ Save(t, [run[t] EXCEPT !.messages = Append(@, Ai(t))], {"messages"})
    /\ UNCHANGED <<row, first, count, shown, deleter, deletes, history>>

\* The synthesize node ends: the reply is saved, the update handler sends the footer.
Update(t) ==
    /\ pc[t] = "streaming"
    /\ Goto(t, "net")
    /\ Save(t, [run[t] EXCEPT !.messages = Append(@, Ai(t))], {"messages"})
    /\ shown' = [shown EXCEPT ![t] = @ \o Remainder(Content(Ai(t)), @)]
    /\ UNCHANGED <<row, first, count, deleter, deletes, history>>

\* The safety net: the rest of the last stored message, whoever wrote it.
Net(t) ==
    /\ pc[t] = "net"
    /\ Goto(t, "count")
    /\ shown' = [shown EXCEPT ![t] =
           IF stored.messages = <<>> THEN @ ELSE @ \o Remainder(Content(Last(stored.messages)), @)]
    /\ UNCHANGED <<stored, row, run, lost, first, count, deleter, deletes, history>>

\* _record_session(): read the message count, ...
Count(t) ==
    /\ pc[t] = "count"
    /\ Goto(t, "upsert")
    /\ count' = [count EXCEPT ![t] = Len(stored.messages)]
    /\ UNCHANGED <<stored, row, run, lost, first, shown, deleter, deletes, history>>

\* The turn is over; what its run held is gone.
Over(t, step) ==
    /\ Goto(t, step)
    /\ run' = [run EXCEPT ![t] = Empty]
    /\ lost' = [lost EXCEPT ![t] = {}]
    /\ first' = [first EXCEPT ![t] = FALSE]
    /\ count' = [count EXCEPT ![t] = 0]

\* ... upsert the row (the title is set once), and tell the client "done".
Upsert(t) ==
    /\ pc[t] = "upsert"
    /\ Over(t, "done")
    /\ row' = [title |-> IF row = NoRow THEN t ELSE row.title, count |-> count[t]]
    /\ kept' = kept \cup {t}
    /\ UNCHANGED <<stored, shown, deleter, deletes, wiped, crossed>>

\* A node or the database fails, or the client has left and the generator is closed.
Break(t) ==
    /\ t \in Active
    /\ Cardinality(Broken) < MaxBreaks
    /\ Over(t, "broken")
    /\ UNCHANGED <<stored, row, shown, deleter, deletes, history>>

\* delete_checkpoint_thread()
DeleteThread ==
    /\ deleter = "idle"
    /\ Room
    /\ deletes < MaxDeletes
    /\ deletes' = deletes + 1
    /\ deleter' = "row"
    /\ stored' = Empty
    /\ lost' = [t \in Turns |-> IF t \in Active /\ pc[t] # "prepared" THEN Channels ELSE {}]
    /\ kept' = {}
    /\ wiped' = TRUE
    /\ crossed' = IF Active = {} THEN crossed \ {Deletion} ELSE crossed \cup Active \cup {Deletion}
    /\ UNCHANGED <<row, pc, run, first, count, shown>>

\* Mutated: only the checkpoints are deleted.
DeleteRowNot ==
    /\ deleter = "row"
    /\ deleter' = "idle"
    /\ UNCHANGED <<stored, row, turns, deletes, history>>

\* delete_chat_session(), in a transaction of its own.
DeleteRow ==
    /\ deleter = "row"
    /\ deleter' = "idle"
    /\ row' = NoRow
    /\ UNCHANGED <<stored, turns, deletes, history>>

Turn(t) == \/ Prepare(t) \/ Begin(t) \/ Intent(t) \/ RunTools(t) \/ Write(t) \/ Update(t)
           \/ Net(t) \/ Count(t) \/ Upsert(t)

Next == \/ \E t \in Turns : Turn(t) \/ Break(t)
        \/ DeleteThread \/ DeleteRow

Spec == Init /\ [][Next]_vars

-----------------------------------------------------------------------------
Message == [by : {"human", "ai"}, turn : Turns]
State == [messages : Seq(Message), profile : BOOLEAN, context : SUBSET Turns]

TypeOK ==
    /\ stored \in State
    /\ row \in [title : 0 .. NumTurns, count : 0 .. 2 * NumTurns]
    /\ pc \in [Turns -> Idle \cup {"prepared", "intent", "tools", "writing", "streaming",
                                   "net", "count", "upsert"}]
    /\ run \in [Turns -> State]
    /\ lost \in [Turns -> SUBSET Channels]
    /\ first \in [Turns -> BOOLEAN]
    /\ count \in [Turns -> 0 .. 2 * NumTurns]
    /\ deleter \in {"idle", "row"}
    /\ kept \subseteq Turns
    /\ wiped \in BOOLEAN
    /\ crossed \subseteq Turns \cup {Deletion}

(* A reply is written from the context of its own turn only, although the context is
   persisted with the session (state.py: intent resets it every turn); and with the profile
   the user sent, which only the first turn passes on, as long as nothing has overlapped. *)
WrittenFromTheRightInputs ==
    /\ TypeOK
    /\ \A t \in Turns : pc[t] \in {"writing", "streaming"} =>
        /\ run[t].context \subseteq {t}
        /\ crossed = {} => run[t].profile

(* In the stored history a reply directly follows its question, also when turns
   overlap, fail or the session is deleted under them; and the user is shown the reply
   that is stored, whole and once, whichever of the three senders (tokens, update handler,
   safety net) sends which part. *)
ShownAndStoredAlike ==
    /\ \A i \in DOMAIN stored.messages :
        stored.messages[i].by = "ai" =>
            i > 1 /\ stored.messages[i - 1] = Human(stored.messages[i].turn)
    /\ \A t \in Turns : pc[t] = "done" => shown[t] = Content(Ai(t))

Lost(t) == ~(Contains(stored.messages, Human(t)) /\ Contains(stored.messages, Ai(t)))

(* "session_id(thread_id)별로 대화 상태가 체크포인터에 보존되어 멀티턴으로 이어진다": an
   acknowledged turn stays in the history until the session is deleted. *)
NoTurnLost == \A t \in kept : ~Lost(t)

(* It does if no other turn and no deletion was under way during it, whatever overlaps
   before and after it. *)
NoTurnLostUnlessCrossed == \A t \in kept \ crossed : ~Lost(t)

(* "세션의 대화 기록과 메타데이터를 함께 삭제한다": nothing of a deleted session comes
   back unless somebody asks again, or a turn was under way when it was deleted. *)
DeletedStaysDeletedUnlessCrossed ==
    wiped /\ deleter = "idle" /\ Deletion \notin crossed =>
        stored.messages = <<>> /\ row = NoRow
=============================================================================
