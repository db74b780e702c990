-------------------------- MODULE AgentController --------------------------
(***************************************************************************)
(* One agent at work: openhands/controller/agent_controller.py with what   *)
(* it talks to over the event stream - the runtime that runs its actions   *)
(* (openhands/runtime/base.py), the memory that answers recalls            *)
(* (openhands/memory/memory.py), the web client that sees the events late  *)
(* (openhands/server/session/session.py) - and the session loop, which     *)
(* sets the agent to ERROR from a thread of its own when an error status   *)
(* is reported.                                                            *)
(*                                                                         *)
(* Every subscriber receives the stream in order in a queue of its own     *)
(* (module EventStream); a queue here holds the events its subscriber does *)
(* something about.  The controller handles one event at a time, but the   *)
(* LLM call in the middle of a step takes long: busy separates its start   *)
(* from its end, and everybody else moves in between.                      *)
(***************************************************************************)
EXTENDS Integers, Sequences, FiniteSets

CONSTANTS
    Modes,        \* the kinds of conversation (see Mode)
    MayStop,      \* the user may press stop
    MaxInputs     \* bound: messages, clicks and stops of the user

(* A conversation has confirmation_mode set, and then some actions wait    *)
(* for the user, or not; the runtime, the memory and the LLM may fail, or  *)
(* do not.  delta is iteration_delta: the first iteration limit, and its   *)
(* extension.                                                              *)
Mode == [confirm : BOOLEAN, fail : BOOLEAN, delta : Nat \ {0}]
Reliable == [confirm |-> TRUE, fail |-> FALSE, delta |-> 2]
Fragile  == [confirm |-> TRUE, fail |-> TRUE, delta |-> 1]
Free     == [confirm |-> FALSE, fail |-> TRUE, delta |-> 1]

ASSUME ControllerAssumption ==
    /\ Modes \subseteq Mode
    /\ MayStop \in BOOLEAN
    /\ MaxInputs \in Nat

VARIABLES
    mode,     \* the conversation's mode: it does not change
    ctl,      \* the controller and the stream it writes to (see World)
    busy,     \* an LLM call is in progress
    running,  \* the Run event the runtime is executing, or NoEvent
    view,     \* what the client shows: the agent state, a held action or 0
    inputs,   \* user inputs so far
    (* history *)
    executed, \* the actions the runtime began to execute, in order
    issued,   \* actions put on the stream for the runtime
    held,     \* ... those that were to await the user's confirmation
    approved, \* actions that were on the user's screen when he confirmed
    misled    \* actions that took the answer the user gave to another one

vars == <<mode, ctl, busy, running, view, inputs, executed, issued, held, approved,
          misled>>

AgentState ==
    {"LOADING", "RUNNING", "AWAITING_USER_INPUT", "STOPPED", "FINISHED", "REJECTED",
     "ERROR", "AWAITING_USER_CONFIRMATION", "USER_CONFIRMED", "USER_REJECTED",
     "RATE_LIMITED"}
Kind ==
    {"UserMessage", "AgentMessage", "Question", "ChangeState", "Recall", "Recalled",
     "Nothing", "Run", "Think", "Result", "NotRun", "Malformed", "Condense", "Finish",
     "Reject", "StateIs", "None"}
Confirmation == {"none", "awaiting", "confirmed", "rejected"}

(***************************************************************************)
(* An event.  act is the action it is about (its tool call metadata), 0    *)
(* when it is about none; cause is the id of the event it answers, 0 for   *)
(* none; conf is the confirmation_state of an action; to the agent state   *)
(* it names.  Id 0 is the system message, which nobody answers.            *)
(*   Run                 a runnable action                                 *)
(*   Think               one the runtime answers although it runs nothing  *)
(*   Recalled, Nothing   the memory's RecallObservation, NullObservation   *)
(*   Result              any observation of the runtime                    *)
(*   NotRun              the ErrorObservation of _reset                    *)
(*   Malformed           the ErrorObservation after a malformed LLM answer *)
(*   Condense            CondensationAction and CondensationRequestAction  *)
(*   ChangeState         names no action; act is a note of what was on the *)
(*                       screen at a click, which no handler reads         *)
(***************************************************************************)
Event == [kind : Kind, id : Nat, act : Nat, cause : Nat, conf : Confirmation,
          to : AgentState \cup {"-"}]
Ev(k) == [kind |-> k, id |-> 0, act |-> 0, cause |-> 0, conf |-> "none", to |-> "-"]
About(k, a) == [Ev(k) EXCEPT !.act = a]
Change(s) == [Ev("ChangeState") EXCEPT !.to = s]
NoEvent == Ev("None")

(***************************************************************************)
(* World: the controller's fields and the queues add_event feeds.          *)
(*   state, iter, max, hit   agent_state and iteration_flag                *)
(*   pending                 _pending_action, NoEvent for None             *)
(*   observed                the actions with an observation in history,   *)
(*                           0 for an observation about no action          *)
(*   next                    the next event id                             *)
(*   ctlq, runq, memq, cliq  events on their way to the subscribers        *)
(*   alerts                  error statuses queued to the session loop     *)
(*   unsent                  the recall whose failure the memory has still *)
(*                           to report, 0 for none                         *)
(***************************************************************************)
ForController(e) == e.kind \notin {"Recall", "Run", "Think", "StateIs", "None"}
ForRuntime(e) == e.kind = "Think" \/ (e.kind = "Run" /\ e.conf # "awaiting")
ForMemory(e) == e.kind = "Recall"
ForClient(e) == e.kind = "StateIs" \/ (e.kind = "Run" /\ e.conf = "awaiting")
Deliver(q, e, interested) == IF interested THEN Append(q, e) ELSE q
Emit(w, e0) ==
    LET e == [e0 EXCEPT !.id = w.next]
    IN  [w EXCEPT !.next = @ + 1,
                  !.ctlq = Deliver(@, e, ForController(e)),
                  !.runq = Deliver(@, e, ForRuntime(e)),
                  !.memq = Deliver(@, e, ForMemory(e)),
                  !.cliq = Deliver(@, e, ForClient(e))]

(***************************************************************************)
(* The agent session has started the controller and adds the first events: *)
(* the initial message and RUNNING, or AWAITING_USER_INPUT.                *)
(***************************************************************************)
NewWorld ==
    [state |-> "LOADING", iter |-> 0, max |-> mode.delta, hit |-> FALSE,
     pending |-> NoEvent, observed |-> {}, next |-> 1,
     ctlq |-> <<>>, runq |-> <<>>, memq |-> <<>>, cliq |-> <<>>, alerts |-> 0,
     unsent |-> 0]

Init ==
    /\ mode \in Modes
    /\ ctl \in {Emit(Emit(NewWorld, Ev("UserMessage")), Change("RUNNING")),
               Emit(NewWorld, Change("AWAITING_USER_INPUT"))}
    /\ busy = FALSE
    /\ running = NoEvent
    /\ view = [state |-> "LOADING", act |-> 0]
    /\ inputs = 0
    /\ executed = <<>>
    /\ issued = {} /\ held = {} /\ approved = {} /\ misled = {}
-----------------------------------------------------------------------------
(***************************************************************************)
(* _reset: a pending action without an observation is reported as not      *)
(* executed.  A recall has no tool call; it counts as observed as soon as  *)
(* history has any observation without one.                                *)
(***************************************************************************)
Unanswered(w) == w.pending # NoEvent /\ w.pending.act \notin w.observed
Reset(w) ==
    LET p == w.pending
        notrun == [About("NotRun", p.act) EXCEPT !.cause = p.id]
    IN  [IF Unanswered(w) THEN Emit(w, notrun) ELSE w EXCEPT !.pending = NoEvent]

(* Mutant of IncreaseLimits: the limit is doubled.                         *)
IncreaseLimitsTwofold(w) ==
    IF w.hit THEN [w EXCEPT !.max = @ + @, !.hit = FALSE] ELSE w

(* maybe_increase_control_flags_limits, in a session with a user.          *)
IncreaseLimits(w) == IF w.hit THEN [w EXCEPT !.max = @ + mode.delta, !.hit = FALSE] ELSE w

(* Mutant of Resubmit: the agent state is taken for a confirmation state.  *)
ResubmitState(w, s) ==
    LET p == [w.pending EXCEPT !.conf = s]
    IN  [Emit(w, p) EXCEPT !.pending = [p EXCEPT !.id = w.next]]

(* The pending action goes on the stream again, with the user's answer.    *)
Resubmit(w, s) ==
    LET answer == IF s = "USER_CONFIRMED" THEN "confirmed" ELSE "rejected"
        p == [w.pending EXCEPT !.conf = answer]
    IN  [Emit(w, p) EXCEPT !.pending = [p EXCEPT !.id = w.next]]

(* set_agent_state_to                                                      *)
SetState(w, s) ==
    IF s = w.state THEN w
    ELSE LET w1 == [w EXCEPT !.state = s]
             w2 == IF s \in {"STOPPED", "ERROR"} THEN Reset(w1) ELSE w1
             w3 == IF w.state = "ERROR" /\ s = "RUNNING" THEN IncreaseLimits(w2) ELSE w2
             w4 == IF s \in {"USER_CONFIRMED", "USER_REJECTED"} /\ w3.pending # NoEvent
                   THEN Resubmit(w3, s) ELSE w3
         IN  Emit(w4, [Ev("StateIs") EXCEPT !.to = s])

(* _react_to_exception, except for rate limits.  The status callback only  *)
(* queues: the session loop sets ERROR again later (Alert below).          *)
React(w) == SetState([w EXCEPT !.alerts = @ + 1], "ERROR")
-----------------------------------------------------------------------------
(***************************************************************************)
(* on_event: history, then the handler, then perhaps a step.               *)
(***************************************************************************)
Observation == {"Recalled", "Nothing", "Result", "NotRun", "Malformed"}
AddHistory(w, e) ==
    IF e.kind \in Observation \ {"Nothing"}
    THEN [w EXCEPT !.observed = @ \cup {e.act}] ELSE w

(* Mutant of HandleUserMessage: the pending action is first put on the     *)
(* stream again.                                                           *)
HandleUserMessageAgain(w) ==
    LET w1 == IF w.pending = NoEvent THEN w ELSE Emit(w, w.pending)
        recall == [Ev("Recall") EXCEPT !.id = w1.next]
    IN  SetState([Emit(w1, recall) EXCEPT !.pending = recall], "RUNNING")

(* _handle_message_action, of the user: recall first, then run.            *)
HandleUserMessage(w) ==
    LET recall == [Ev("Recall") EXCEPT !.id = w.next]
    IN  SetState([Emit(w, recall) EXCEPT !.pending = recall], "RUNNING")

(* _handle_observation: only the answer to the pending action counts.      *)
HandleObservation(w, e) ==
    IF \/ w.pending = NoEvent
       \/ w.pending.id # e.cause
       \/ w.state = "AWAITING_USER_CONFIRMATION"
    THEN w
    ELSE LET w1 == [w EXCEPT !.pending = NoEvent]
         IN  CASE w.state = "USER_CONFIRMED" -> SetState(w1, "RUNNING")
               [] w.state = "USER_REJECTED" -> SetState(w1, "AWAITING_USER_INPUT")
               [] OTHER -> w1

Handle(w0, e) ==
    LET w == AddHistory(w0, e)
    IN  CASE e.kind = "ChangeState" -> SetState(w, e.to)
          [] e.kind = "UserMessage" -> HandleUserMessage(w)
          [] e.kind = "Question" -> SetState(w, "AWAITING_USER_INPUT")
          [] e.kind = "Finish" -> SetState(w, "FINISHED")
          [] e.kind = "Reject" -> SetState(w, "REJECTED")
          [] e.kind \in Observation -> HandleObservation(w, e)
          [] OTHER -> w

(* Mutant of ShouldStep: a NullObservation never steps the agent.          *)
ShouldStepNotNull(w, e) ==
    \/ e.kind \in {"UserMessage", "Condense"} \cup (Observation \ {"Nothing"})
    \/ /\ e.kind \in {"AgentMessage", "Question"}
       /\ w.state # "AWAITING_USER_INPUT"

(* should_step, and the two guards at the top of _step                     *)
ShouldStep(w, e) ==
    \/ e.kind \in {"UserMessage", "Condense"} \cup Observation
    \/ /\ e.kind \in {"AgentMessage", "Question"}
       /\ w.state # "AWAITING_USER_INPUT"
MayStep(w, e) == ShouldStep(w, e) /\ w.state = "RUNNING" /\ w.pending = NoEvent

(* The user's answer e resubmits the pending action, whichever that is.    *)
Takes(w, e) ==
    /\ e.kind = "ChangeState" /\ e.to \in {"USER_CONFIRMED", "USER_REJECTED"}
    /\ e.to # w.state
    /\ w.pending # NoEvent

(* The controller's callback: the event is handled, and the step it may    *)
(* call for fails its checks or gets as far as the LLM.                    *)
HandleEvent ==
    /\ ~busy
    /\ ctl.ctlq # <<>>
    /\ LET e == Head(ctl.ctlq)
           w == Handle([ctl EXCEPT !.ctlq = Tail(@)], e)
       IN  /\ \/ /\ ~MayStep(w, e)
                 /\ ctl' = w /\ busy' = FALSE
              \/ /\ MayStep(w, e)     \* run_control_flags: the limit is reached
                 /\ w.iter >= w.max
                 /\ ctl' = React([w EXCEPT !.hit = TRUE]) /\ busy' = FALSE
              \/ /\ MayStep(w, e)     \* ... or not: the LLM is called
                 /\ w.iter < w.max
                 /\ ctl' = [w EXCEPT !.iter = @ + 1, !.hit = FALSE] /\ busy' = TRUE
              \/ /\ MayStep(w, e)     \* _is_stuck
                 /\ mode.fail
                 /\ ctl' = React(w) /\ busy' = FALSE
           /\ misled' = IF Takes(ctl, e) /\ e.act # ctl.pending.act
                        THEN misled \cup {ctl.pending.act} ELSE misled
    /\ UNCHANGED <<mode, running, view, inputs, executed, issued, held, approved>>
-----------------------------------------------------------------------------
(***************************************************************************)
(* The rest of _step: what the LLM answered.  The state is not looked at   *)
(* again, although the session loop may have changed it meanwhile.  The    *)
(* action of a step is named by its iteration.                             *)
(***************************************************************************)
AskRuntime(conf) ==
    LET run == [About("Run", ctl.iter) EXCEPT !.conf = conf, !.id = ctl.next]
        w == [ctl EXCEPT !.pending = run]
        w1 == IF conf = "awaiting" THEN SetState(w, "AWAITING_USER_CONFIRMATION") ELSE w
    IN  /\ busy
        /\ conf = "awaiting" => mode.confirm
        /\ busy' = FALSE
        /\ ctl' = [Emit(w1, run) EXCEPT !.pending.id = w1.next]
        /\ issued' = issued \cup {ctl.iter}
        /\ held' = IF conf = "awaiting" THEN held \cup {ctl.iter} ELSE held
        /\ UNCHANGED <<mode, running, view, inputs, executed, approved, misled>>

(* A thought or a task list: not runnable, hence not pending, but the      *)
(* runtime answers it.                                                     *)
Think ==
    /\ busy
    /\ busy' = FALSE
    /\ ctl' = Emit(ctl, About("Think", ctl.iter))
    /\ issued' = issued \cup {ctl.iter}
    /\ UNCHANGED <<mode, running, view, inputs, executed, held, approved, misled>>

(* Not for the runtime: a message, a question, the end, a condensation, or the    *)
(* error observation for an answer that could not be parsed.               *)
Say(k) ==
    /\ busy
    /\ busy' = FALSE
    /\ ctl' = Emit(ctl, Ev(k))
    /\ UNCHANGED <<mode, running, view, inputs, executed, issued, held, approved, misled>>

(* Mutant of LLMFails: the exception is swallowed.                         *)
LLMFailsSilently ==
    /\ busy /\ mode.fail
    /\ busy' = FALSE
    /\ UNCHANGED <<mode, ctl, running, view, inputs, executed, issued, held, approved, misled>>

(* The call raised: a rate limit is told apart by its retry counters.      *)
LLMFails ==
    /\ busy /\ mode.fail
    /\ busy' = FALSE
    /\ ctl' \in {React(ctl), SetState(ctl, "RATE_LIMITED"), SetState(ctl, "ERROR")}
    /\ UNCHANGED <<mode, running, view, inputs, executed, issued, held, approved, misled>>

(* Session._send_status_message, in the session loop, at any time.         *)
Alert ==
    /\ ctl.alerts > 0
    /\ ctl' = SetState([ctl EXCEPT !.alerts = @ - 1], "ERROR")
    /\ UNCHANGED <<mode, busy, running, view, inputs, executed, issued, held, approved, misled>>
-----------------------------------------------------------------------------
(***************************************************************************)
(* The runtime: _handle_action, one action at a time.                      *)
(***************************************************************************)
(* Mutant of StartAction: a rejected action is run.                        *)
StartActionRejected ==
    /\ running = NoEvent
    /\ ctl.runq # <<>>
    /\ running' = Head(ctl.runq)
    /\ ctl' = [ctl EXCEPT !.runq = Tail(@)]
    /\ executed' = Append(executed, running'.act)
    /\ UNCHANGED <<mode, busy, view, inputs, issued, held, approved, misled>>

StartAction ==
    /\ running = NoEvent
    /\ ctl.runq # <<>>
    /\ running' = Head(ctl.runq)
    /\ ctl' = [ctl EXCEPT !.runq = Tail(@)]
    /\ executed' = IF running'.conf = "rejected" THEN executed
                   ELSE Append(executed, running'.act)
    /\ UNCHANGED <<mode, busy, view, inputs, issued, held, approved, misled>>

(* The observation of the action, or UserRejectObservation.                *)
FinishAction ==
    /\ running # NoEvent
    /\ running' = NoEvent
    /\ ctl' = Emit(ctl, [About("Result", running.act) EXCEPT !.cause = running.id])
    /\ UNCHANGED <<mode, busy, view, inputs, executed, issued, held, approved, misled>>

(* Mutant of FailAction: no error status.                                  *)
FailActionSilently ==
    /\ running.kind = "Run" /\ mode.fail
    /\ running' = NoEvent
    /\ UNCHANGED <<mode, ctl, busy, view, inputs, executed, issued, held, approved, misled>>

(* The runtime is gone or raises: an error status and no observation.  The *)
(* tokens of a rejected command are fetched as well, which may fail.  A    *)
(* thought is answered without either.                                     *)
FailAction ==
    /\ running.kind = "Run" /\ mode.fail
    /\ running' = NoEvent
    /\ ctl' = [ctl EXCEPT !.alerts = @ + 1]
    /\ UNCHANGED <<mode, busy, view, inputs, executed, issued, held, approved, misled>>

(***************************************************************************)
(* The memory: a recall is answered, or fails.  One that was put on the    *)
(* stream again has the agent as its source, and is ignored if it asks for *)
(* the workspace context.  set_runtime_status schedules the error status   *)
(* on the loop of the memory's own thread, which stops before it runs and  *)
(* goes on with the next event, of any kind, that reaches the memory: with *)
(* the one after the failed recall, if there is one (ReportFailure).       *)
(***************************************************************************)
AnswerRecall ==
    /\ ctl.memq # <<>>
    /\ ctl.unsent = 0
    /\ LET r == Head(ctl.memq)
           w == [ctl EXCEPT !.memq = Tail(@)]
       IN  \/ \E k \in {"Recalled", "Nothing"} :
                 ctl' = Emit(w, [Ev(k) EXCEPT !.cause = r.id])
           \/ mode.fail /\ ctl' = [w EXCEPT !.unsent = r.id]
           \/ r.conf # "none" /\ ctl' = w
    /\ UNCHANGED <<mode, busy, running, view, inputs, executed, issued, held, approved, misled>>

ReportFailure ==
    /\ ctl.unsent # 0
    /\ ctl.unsent + 1 < ctl.next
    /\ ctl' = [ctl EXCEPT !.alerts = @ + 1, !.unsent = 0]
    /\ UNCHANGED <<mode, busy, running, view, inputs, executed, issued, held, approved, misled>>
-----------------------------------------------------------------------------
(***************************************************************************)
(* The client (external): its screen follows the events of the stream.     *)
(***************************************************************************)
Show ==
    /\ ctl.cliq # <<>>
    /\ LET e == Head(ctl.cliq)
       IN  view' = IF e.kind = "StateIs" THEN [view EXCEPT !.state = e.to]
                   ELSE [view EXCEPT !.act = e.act]
    /\ ctl' = [ctl EXCEPT !.cliq = Tail(@)]
    /\ UNCHANGED <<mode, busy, running, inputs, executed, issued, held, approved, misled>>

UserInput(e) ==
    /\ inputs < MaxInputs
    /\ inputs' = inputs + 1
    /\ ctl' = Emit(ctl, e)
    /\ UNCHANGED <<mode, busy, running, executed, issued, held, misled>>

SendMessage ==
    /\ view.state \notin {"LOADING", "AWAITING_USER_CONFIRMATION"}
    /\ UserInput(Ev("UserMessage"))
    /\ UNCHANGED <<view, approved>>

PressStop ==
    /\ MayStop
    /\ view.state = "RUNNING"
    /\ UserInput(Change("STOPPED"))
    /\ UNCHANGED <<view, approved>>

(* The buttons under an action that awaits confirmation work once.         *)
Click(answer) ==
    /\ view.state = "AWAITING_USER_CONFIRMATION"
    /\ view.act # 0
    /\ view' = [view EXCEPT !.act = 0]
    /\ UserInput([Change(answer) EXCEPT !.act = view.act])
    /\ approved' = IF answer = "USER_CONFIRMED" THEN approved \cup {view.act}
                   ELSE approved

Step ==
    \/ Think
    \/ \E conf \in {"none", "awaiting"} : AskRuntime(conf)
    \/ \E k \in {"AgentMessage", "Question", "Finish", "Reject", "Malformed",
                 "Condense"} : Say(k)
    \/ LLMFails
Runtime == StartAction \/ FinishAction \/ FailAction
User == SendMessage \/ PressStop \/ \E a \in {"USER_CONFIRMED", "USER_REJECTED"} : Click(a)

Next ==
    HandleEvent \/ Step \/ Alert \/ Runtime \/ AnswerRecall \/ ReportFailure \/ Show \/ User

Spec == Init /\ [][Next]_vars

(***************************************************************************)
(* Fairness: while a subscriber's pool thread, the session loop or an LLM  *)
(* call (it has a timeout) can go on, one of them does.  Weak fairness of  *)
(* each would say more than is needed, as none has work for ever.  The     *)
(* user is free, so no further event comes by itself to a memory that      *)
(* waits for one.                                                          *)
(***************************************************************************)
System ==
    Show \/ ReportFailure \/ AnswerRecall \/ Runtime \/ Step \/ Alert \/ HandleEvent
FairSpec ==
    /\ Spec
    /\ WF_vars(System)
-----------------------------------------------------------------------------
World ==
    [state : AgentState, iter : Nat, max : Nat, hit : BOOLEAN, pending : Event,
     observed : SUBSET Nat, next : Nat, ctlq : Seq(Event), runq : Seq(Event),
     memq : Seq(Event), cliq : Seq(Event), alerts : Nat, unsent : Nat]

(* Type invariant; the iteration counter never passes its limit.           *)
TypeOK ==
    /\ mode \in Modes
    /\ ctl \in World
    /\ ctl.iter <= ctl.max
    /\ busy \in BOOLEAN
    /\ running \in Event
    /\ view \in [state : AgentState, act : Nat]
    /\ inputs \in Nat
    /\ executed \in Seq(Nat)
    /\ issued \subseteq Nat /\ held \subseteq issued /\ approved \subseteq Nat
    /\ misled \subseteq Nat

(* A running agent that waits for an answer has one coming: the pending    *)
(* action is on its way to the runtime or the memory, or its answer is on  *)
(* its way back, or an error status will end the wait.  Otherwise no event *)
(* would ever step the agent again ("Agent not stepping because of pending *)
(* action").  Two exceptions: the failure of a recall that was the last    *)
(* event (Stranded), and a recall that took the answer to an action, went  *)
(* on the stream again, and may be ignored (Resent).                       *)
Coming(p) ==
    \/ \E i \in DOMAIN ctl.runq : ctl.runq[i].id = p.id
    \/ \E i \in DOMAIN ctl.memq : ctl.memq[i].id = p.id
    \/ running.id = p.id
    \/ \E i \in DOMAIN ctl.ctlq :
          ctl.ctlq[i].kind \in Observation /\ ctl.ctlq[i].cause = p.id
Reporting == ctl.alerts > 0 \/ (ctl.unsent # 0 /\ ctl.unsent + 1 < ctl.next)
Stranded ==
    ctl.unsent # 0 /\ ctl.unsent + 1 = ctl.next /\ ctl.unsent = ctl.pending.id
Resent == ctl.pending.kind = "Recall" /\ ctl.pending.conf # "none"
Answering == {"USER_CONFIRMED", "USER_REJECTED"}
PendingAnswerable ==
    ctl.state \in {"RUNNING"} \cup Answering /\ ctl.pending # NoEvent
    => \/ Coming(ctl.pending) \/ Reporting \/ Stranded
       \/ ctl.state \in Answering /\ Resent

(* When nothing is in flight any more the agent is in a state that says it *)
(* is at rest; one in which the screen shows it at work would last for     *)
(* ever.  The exceptions: a recall that failed as the last event, and an   *)
(* answer of the user that found nothing pending, because an error had     *)
(* reset it, or a recall in the place of the action (Overtaken).           *)
Quiet ==
    /\ ~busy /\ running = NoEvent /\ ~Reporting
    /\ ctl.ctlq = <<>> /\ ctl.runq = <<>> /\ ctl.memq = <<>>
Overtaken == ctl.state \in Answering /\ (ctl.pending = NoEvent \/ Resent)
NoStall ==
    Quiet => \/ ctl.state \notin {"LOADING", "RUNNING"} \cup Answering
             \/ Stranded
             \/ Overtaken

(* No action of the agent is begun twice by the runtime, but for one that  *)
(* an answer of the user put on the stream again that was given to another *)
(* action.                                                                 *)
ExecutedOnce ==
    \A i, j \in DOMAIN executed :
        executed[i] = executed[j] => i = j \/ executed[i] \in misled

(* An action that was to await confirmation is executed only if the user   *)
(* confirmed while that very action was on his screen, or while another    *)
(* one was and this one had taken its place.                               *)
ApprovedOnly ==
    \A i \in DOMAIN executed : executed[i] \in held => executed[i] \in approved \cup misled

(* A failure of the memory is reported, so that an agent that waits for    *)
(* the memory does not wait for ever: memory.py:386.                       *)
FailureReported == Quiet => ctl.unsent = 0

(* The iteration limit grows by one extension at most for each input of    *)
(* the user: the agent alone cannot run past it.                           *)
LimitNeedsUser == ctl.iter <= mode.delta * (1 + inputs)

(* Left alone, the agent comes to rest, in a state that says so (but for   *)
(* the exceptions above), and that is what the screen shows.  RATE_LIMITED *)
(* is counted among these states: nothing steps the agent again, although  *)
(* the code speaks of retrying (agent_controller.py:371).                  *)
Resting ==
    {"AWAITING_USER_INPUT", "STOPPED", "FINISHED", "REJECTED", "ERROR",
     "AWAITING_USER_CONFIRMATION", "RATE_LIMITED"}
Rests ==
    <>[](/\ Quiet
         /\ ctl.state \in Resting \/ Stranded \/ Overtaken
         /\ view.state = ctl.state)
=============================================================================
