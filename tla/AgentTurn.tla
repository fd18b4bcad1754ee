----------------------------- MODULE AgentTurn ------------------------------
(***************************************************************************)
(* AgentManager (cogni_agent/manager.py) with its conversation store       *)
(* (cogni_agent/conversation.py): one turn at a time, from the user's      *)
(* message to its verdict, in a thread of its own, while others cancel and *)
(* reset.                                                                  *)
(*                                                                         *)
(* A step is a critical section of the manager's condition or of the       *)
(* store's lock, or what the turn's thread does between two of them.  The  *)
(* model service is seen from here as a request that may be cancelled and  *)
(* hands out chunks.  Texts are their sizes.  What only the display reads  *)
(* (events, stages, progress, completion) is left out.                     *)
(***************************************************************************)
EXTENDS Naturals, Sequences, SequencesExt

CONSTANTS MaxTurns,             \* max_turns of the store
          MaxChars,             \* max_chars
          Sizes,                \* sizes of a message
          MaxMessages,          \* MAX_AGENT_MESSAGES
          MaxContinuations,     \* max_continuations
          MaxChunks,            \* bound: chunks of one request
          Asked,                \* bound: turns
          None

Turns == 1 .. Asked

(* The limits BoundedConversationStore.__init__ insists on. *)
StoreLimits ==
    /\ MaxTurns \in Nat /\ MaxTurns >= 2
    /\ MaxChars \in Nat /\ Sizes \subseteq Nat \ {0}
    /\ \A s \in Sizes : 2 * s <= MaxChars

ASSUME StoreAssumption ==
    /\ StoreLimits
    /\ MaxMessages \in Nat /\ MaxMessages >= 2
    /\ MaxContinuations \in Nat /\ MaxChunks \in Nat /\ Asked \in Nat
    /\ None \notin Nat

VARIABLES status,
          active_turn, active_user_sequence,
          cancel_event,         \* the event of the latest turn
          turns,                \* the store: its turns, oldest first
          next_sequence,        \* ... and the next sequence number
          messages,             \* what the display shows
          mode,                 \* of the latest turn
          pc,                   \* where its thread is
          verdict,              \* how the thread is about to end
          chunks,               \* of the current request
          continuations,
          request,              \* a request of the model service is active
          model_cancel,         \* ... and cancelled
          count,                \* turns so far
          early                 \* cancelled before its last look at the event

store == <<turns, next_sequence>>
model == <<request, model_cancel>>
thread == <<pc, verdict, chunks, continuations>>
manager == <<status, active_turn, active_user_sequence, messages>>
vars == <<manager, cancel_event, store, mode, thread, model, count, early>>

Active == {"starting", "loading", "generating", "executing", "cancelling"}
IsActive == status \in Active

Message(t, role, streaming) == [turn |-> t, role |-> role, streaming |-> streaming]
Shown(ms, m) == LET all == Append(ms, m) IN
    IF Len(all) > MaxMessages THEN Tail(all) ELSE all

(* What is not a partial answer. *)
Settled(ms) ==
    LET kept[n \in 0 .. Len(ms)] ==
            IF n = 0 THEN <<>>
            ELSE IF ms[n].streaming THEN kept[n - 1] ELSE Append(kept[n - 1], ms[n])
    IN  kept[Len(ms)]

Init ==
    /\ status = "ready"
    /\ active_turn = None /\ active_user_sequence = None
    /\ cancel_event = FALSE
    /\ turns = <<>> /\ next_sequence = 1
    /\ messages = <<>>
    /\ mode = "chat"
    /\ pc = "none" /\ verdict = "none" /\ chunks = 0 /\ continuations = 0
    /\ request = FALSE /\ model_cancel = FALSE
    /\ count = 0 /\ early = FALSE

-----------------------------------------------------------------------------
(* BoundedConversationStore                                                *)

TurnOf(t, role, size) == [sequence |-> next_sequence, role |-> role, size |-> size, turn |-> t]

Chars(s) ==
    LET total[n \in 0 .. Len(s)] == IF n = 0 THEN 0 ELSE total[n - 1] + s[n].size
    IN  total[Len(s)]
Fits(s) == Len(s) <= MaxTurns /\ Chars(s) <= MaxChars
LastOf(s, n) == SubSeq(s, Len(s) - n + 1, Len(s))

(* The longest end that fits. *)
Fitting(s) == LastOf(s, CHOOSE n \in 0 .. Len(s) :
                  /\ Fits(LastOf(s, n))
                  /\ \A k \in n + 1 .. Len(s) : ~Fits(LastOf(s, k)))

(* Seeded bug: a leading reply is kept when its question is dropped. *)
Trim_KeepsOrphan(s) == Fitting(s)

(* Seeded bug: the newest turns make room. *)
Trim_Newest(s) == IF Fits(s) THEN s ELSE Front(s)

Trim(s) ==
    LET kept == Fitting(s) IN
        IF kept # <<>> /\ Head(kept).role = "assistant" THEN Tail(kept) ELSE kept

Pending(sequence) ==
    /\ turns # <<>>
    /\ Last(turns).role = "user" /\ Last(turns).sequence = sequence

BeginUserTurn(t, size) ==
    /\ turns # <<>> => Last(turns).role # "user"
    /\ turns' = Trim(Append(turns, TurnOf(t, "user", size)))
    /\ next_sequence' = next_sequence + 1

CommitAssistantTurn(size) ==
    /\ Pending(active_user_sequence)
    /\ turns' = Trim(Append(turns, TurnOf(active_turn, "assistant", size)))
    /\ next_sequence' = next_sequence + 1

AbortUserTurn ==
    /\ turns' = IF Pending(active_user_sequence) THEN Front(turns) ELSE turns
    /\ UNCHANGED next_sequence

(* The session is dropped; the next one counts from one again. *)
Clear == turns' = <<>> /\ next_sequence' = 1

-----------------------------------------------------------------------------
(* start_turn, cancel, reset: the threads that serve requests              *)

StartTurn ==
    /\ ~IsActive
    /\ count < Asked
    /\ count' = count + 1
    /\ mode' \in {"chat", "task"}
    /\ \E size \in Sizes : BeginUserTurn(count + 1, size)
    /\ active_turn' = count + 1
    /\ active_user_sequence' = next_sequence
    /\ cancel_event' = FALSE
    /\ messages' = Shown(messages, Message(count + 1, "user", FALSE))
    /\ status' = "starting"
    /\ pc' = "begin" /\ verdict' = "none" /\ chunks' = 0 /\ continuations' = 0
    /\ early' = FALSE
    /\ UNCHANGED model

(* The points from which the thread will look at the event once more. *)
Looks == {"begin", "load", "prompt", "shown", "open", "stream", "render", "execute"}

Cancel ==
    /\ IsActive
    /\ cancel_event' = TRUE
    /\ model_cancel' = (model_cancel \/ request)
    /\ status' = "cancelling"
    /\ early' = (early \/ pc \in Looks)
    /\ UNCHANGED <<active_turn, active_user_sequence, messages, store, mode, thread,
                   request, count>>

Reset ==
    /\ ~IsActive
    /\ Clear
    /\ messages' = <<>>
    /\ status' = "ready"
    /\ UNCHANGED <<active_turn, active_user_sequence, cancel_event, mode, thread, model,
                   count, early>>

-----------------------------------------------------------------------------
(* _run_turn                                                               *)

Goto(point) == pc' = point /\ UNCHANGED <<verdict, chunks, continuations>>
Ends(how) == pc' = "abort" /\ verdict' = how /\ UNCHANGED <<chunks, continuations>>
Becomes(s) == status' = s /\ UNCHANGED <<active_turn, active_user_sequence>>

Begin ==
    /\ pc = "begin"
    /\ IF mode = "chat" THEN Becomes("loading") /\ Goto("load")
                        ELSE Becomes("executing") /\ Goto("execute")
    /\ UNCHANGED <<messages, cancel_event, store, mode, model, count, early>>

(* The model is started and the event looked at; the start may raise. *)
Load ==
    /\ pc = "load"
    /\ \/ Ends("failed")
       \/ cancel_event /\ Ends("cancelled")
       \/ ~cancel_event /\ Goto("prompt")
    /\ UNCHANGED <<manager, cancel_event, store, mode, model, count, early>>

(* A prompt that does not fit the context raises. *)
Prompt ==
    /\ pc = "prompt"
    /\ \/ Ends("failed") /\ UNCHANGED messages
       \/ /\ messages' = Shown(messages, Message(active_turn, "assistant", TRUE))
          /\ Goto("shown")
    /\ UNCHANGED <<status, active_turn, active_user_sequence, cancel_event, store, mode,
                   model, count, early>>

Generating ==
    /\ pc = "shown"
    /\ Becomes("generating")
    /\ Goto("open")
    /\ UNCHANGED <<messages, cancel_event, store, mode, model, count, early>>

(* The request is made and its cancellation cleared; or the service is     *)
(* busy or cannot be started.                                              *)
Open ==
    /\ pc = "open"
    /\ \/ Ends("failed") /\ UNCHANGED model
       \/ /\ pc' = "stream" /\ chunks' = 0
          /\ request' = TRUE /\ model_cancel' = FALSE
          /\ UNCHANGED <<verdict, continuations>>
    /\ UNCHANGED <<manager, cancel_event, store, mode, count, early>>

Closed == request' = FALSE /\ model_cancel' = FALSE

(* Seeded bug: the model service alone knows what is cancelled. *)
CancelSeen_ByModel == model_cancel

CancelSeen == cancel_event

(* Waiting for a chunk: the request fails, the event is found set, or the  *)
(* answer goes on or ends.                                                 *)
Chunk ==
    /\ pc = "stream"
    /\ \/ Ends("failed") /\ Closed
       \/ (CancelSeen \/ model_cancel) /\ Ends("cancelled") /\ Closed
       \/ /\ ~CancelSeen
          /\ chunks < MaxChunks
          /\ chunks' = chunks + 1
          /\ pc' = "render"
          /\ UNCHANGED <<verdict, continuations, model>>
       \/ ~CancelSeen /\ Goto("last") /\ UNCHANGED model
    /\ UNCHANGED <<manager, cancel_event, store, mode, count, early>>

(* The text so far is shown, when that is due; decoding it may raise. *)
Render ==
    /\ pc \in {"render", "last"}
    /\ \/ Becomes("generating") \/ UNCHANGED <<status, active_turn, active_user_sequence>>
    /\ \/ Ends("failed") /\ Closed
       \/ pc = "render" /\ Goto("stream") /\ UNCHANGED model
       \/ pc = "last" /\ Goto("decide") /\ Closed
    /\ UNCHANGED <<messages, cancel_event, store, mode, count, early>>

(* Seeded bug: continuations are not counted. *)
Continue_Uncounted == continuations < MaxContinuations /\ UNCHANGED continuations

Continue == continuations < MaxContinuations /\ continuations' = continuations + 1

(* A length boundary is continued; an answer without text is a failure.    *)
Decide ==
    /\ pc = "decide"
    /\ \/ /\ Continue
          /\ Becomes("generating")
          /\ pc' = "open" /\ UNCHANGED <<verdict, chunks>>
       \/ /\ Goto("commit") \/ Ends("failed")
          /\ UNCHANGED <<status, active_turn, active_user_sequence>>
    /\ UNCHANGED <<messages, cancel_event, store, mode, model, count, early>>

(* A tool runs or refuses; then the event is looked at, once. *)
Execute ==
    /\ pc = "execute"
    /\ \/ Ends("failed")
       \/ cancel_event /\ Ends("cancelled")
       \/ ~cancel_event /\ Goto("commit")
    /\ UNCHANGED <<manager, cancel_event, store, mode, model, count, early>>

(* The store refuses a text with control characters, and a reply that does *)
(* not own the pending turn.                                               *)
Commit ==
    /\ pc = "commit"
    /\ \/ \E size \in Sizes : CommitAssistantTurn(size) /\ Goto("succeed")
       \/ Ends("failed") /\ UNCHANGED store
    /\ UNCHANGED <<manager, cancel_event, mode, model, count, early>>

Finish(how) ==
    /\ status' = how
    /\ active_turn' = None /\ active_user_sequence' = None
    /\ pc' = "none" /\ verdict' = "none" /\ chunks' = 0 /\ continuations' = 0

Succeed ==
    /\ pc = "succeed"
    /\ messages' = IF mode = "task"
                   THEN Shown(messages, Message(active_turn, "tool", FALSE))
                   ELSE [i \in DOMAIN messages |-> [messages[i] EXCEPT !.streaming = FALSE]]
    /\ Finish("succeeded")
    /\ UNCHANGED <<cancel_event, store, mode, model, count, early>>

Abort ==
    /\ pc = "abort"
    /\ AbortUserTurn
    /\ Goto("end")
    /\ UNCHANGED <<manager, cancel_event, mode, model, count, early>>

End ==
    /\ pc = "end"
    /\ messages' = Shown(Settled(messages), Message(active_turn, "system", FALSE))
    /\ Finish(verdict)
    /\ UNCHANGED <<cancel_event, store, mode, model, count, early>>

-----------------------------------------------------------------------------
RunTurn == Begin \/ Load \/ Prompt \/ Generating \/ Open \/ Chunk \/ Render \/ Decide
           \/ Execute \/ Commit \/ Succeed \/ Abort \/ End

Next == StartTurn \/ Cancel \/ Reset \/ RunTurn

Spec == Init /\ [][Next]_vars

(* The thread of a turn runs, and the model service and the tools answer   *)
(* or raise; nobody is obliged to ask, cancel or reset.                    *)
FairSpec == Spec /\ WF_vars(RunTurn)

-----------------------------------------------------------------------------
(* Every variable has its type, and the store and the display keep their   *)
(* bounds.                                                                 *)
TypeOK ==
    /\ status \in Active \cup {"ready", "succeeded", "failed", "cancelled"}
    /\ active_turn \in Turns \cup {None}
    /\ active_user_sequence \in 1 .. 2 * Asked \cup {None}
    /\ cancel_event \in BOOLEAN /\ mode \in {"chat", "task"}
    /\ turns \in Seq([sequence : 1 .. 2 * Asked, role : {"user", "assistant"},
                      size : Sizes, turn : Turns])
    /\ Fits(turns)
    /\ next_sequence \in 1 .. 2 * Asked + 1
    /\ messages \in Seq([turn : Turns, role : {"user", "assistant", "tool", "system"},
                         streaming : BOOLEAN])
    /\ Len(messages) <= MaxMessages
    /\ pc \in {"none", "begin", "load", "prompt", "shown", "open", "stream", "render",
               "last", "decide", "execute", "commit", "succeed", "abort", "end"}
    /\ verdict \in {"none", "cancelled", "failed"}
    /\ chunks \in 0 .. MaxChunks /\ continuations \in 0 .. MaxContinuations
    /\ request \in BOOLEAN /\ model_cancel \in BOOLEAN
    /\ count \in 0 .. Asked /\ early \in BOOLEAN

(* The store holds whole exchanges, and after them at most the user turn   *)
(* of the turn that is active: no orphaned reply, no question nobody is    *)
(* answering (which would refuse every later turn).                        *)
WholeExchanges ==
    /\ \A i \in DOMAIN turns :
          /\ turns[i].role = IF i % 2 = 1 THEN "user" ELSE "assistant"
          /\ i % 2 = 0 => turns[i].turn = turns[i - 1].turn
    /\ Len(turns) % 2 = 1 => IsActive /\ Pending(active_user_sequence)

(* The verdict is what happened to the conversation: after a success the   *)
(* exchange is the last one of the store, and after a failure or a         *)
(* cancellation nothing of the turn is there.  A cancel acknowledged       *)
(* before the turn last looked for one is honoured, though a new request   *)
(* clears the cancellation of the model service and the turn's own         *)
(* progress overwrites the status.                                         *)
VerdictIsTrue ==
    /\ status = "succeeded" => ~early /\ turns # <<>> /\ Last(turns).turn = count
    /\ status \in {"failed", "cancelled"} => \A i \in DOMAIN turns : turns[i].turn # count

(* No partial answer stays on display once its turn is over, and the one   *)
(* being written is there to be updated.                                   *)
PartialAnswersGo ==
    /\ ~IsActive => \A i \in DOMAIN messages : ~messages[i].streaming
    /\ pc \in {"stream", "render", "last", "decide"} \/ (pc = "succeed" /\ mode = "chat") =>
          \E i \in DOMAIN messages : messages[i].streaming /\ messages[i].turn = active_turn

(* What manager.py and conversation.py show and keep, at every point of a  *)
(* turn: whole exchanges in the store, no stale partial answer on display. *)
TurnSound == TypeOK /\ WholeExchanges /\ PartialAnswersGo

(* Every turn ends. *)
TurnEnds == IsActive ~> ~IsActive

(* The manager with its store is a dialogue. *)
Remembered == [i \in 1 .. Len(turns) \div 2 |-> turns[2 * i].turn]
Open_question == IF Len(turns) % 2 = 1 THEN Last(turns).turn ELSE None

D == INSTANCE Dialogue WITH history <- Remembered, asked <- Open_question

ImplementsDialogue == D!Spec
=============================================================================
