----------------------- MODULE AgentControllerProofs -----------------------
(***************************************************************************)
(* Theorems about AgentController for every set of conversations, every    *)
(* iteration limit and any number of user inputs.                          *)
(*                                                                         *)
(* An event handler changes the world in several moves (a reset, a state,  *)
(* an event on the stream), so the invariants are predicates on worlds:    *)
(* a move keeps them, and a handler is a composition of moves.             *)
(***************************************************************************)
EXTENDS AgentController, FiniteSetTheorems, TLAPS

Elems(q) == {q[i] : i \in DOMAIN q}

(***************************************************************************)
(* What the moves do, field by field.                                      *)
(***************************************************************************)
LEMMA EventType ==
    /\ NoEvent \in Event /\ NoEvent.kind = "None" /\ NoEvent.id = 0
    /\ NoEvent.act = 0 /\ NoEvent.conf = "none" /\ NoEvent.to = "-"
    /\ \A k \in Kind : Ev(k) \in Event /\ Ev(k).kind = k /\ Ev(k).conf = "none"
                      /\ Ev(k).act = 0
    /\ \A k \in Kind, a \in Nat :
          About(k, a) \in Event /\ About(k, a).kind = k /\ About(k, a).act = a
          /\ About(k, a).conf = "none"
    /\ \A s \in AgentState :
          Change(s) \in Event /\ Change(s).kind = "ChangeState" /\ Change(s).to = s
          /\ Change(s).act = 0
BY DEF Event, NoEvent, Ev, About, Change, Kind, Confirmation

(* The subscribers that do something about an event of a kind.             *)
CtlKind ==
    {"UserMessage", "AgentMessage", "Question", "ChangeState", "Recalled", "Nothing",
     "Result", "NotRun", "Malformed", "Condense", "Finish", "Reject"}

Numbering(w, e) == [e EXCEPT !.id = w.next]

LEMMA NumberingType ==
    ASSUME NEW w \in World, NEW e \in Event
    PROVE  /\ Numbering(w, e) \in Event
           /\ Numbering(w, e).id = w.next /\ Numbering(w, e).kind = e.kind
           /\ Numbering(w, e).act = e.act /\ Numbering(w, e).cause = e.cause
           /\ Numbering(w, e).conf = e.conf /\ Numbering(w, e).to = e.to
BY DEF World, Event, Numbering

LEMMA EmitToController ==
    ASSUME NEW w \in World, NEW e \in Event, e.kind \in CtlKind
    PROVE  /\ Emit(w, e) \in World
           /\ Emit(w, e) = [w EXCEPT !.next = w.next + 1,
                                     !.ctlq = Append(w.ctlq, Numbering(w, e))]
<1>1. /\ ForController(Numbering(w, e)) /\ ~ForRuntime(Numbering(w, e))
      /\ ~ForMemory(Numbering(w, e)) /\ ~ForClient(Numbering(w, e))
  BY NumberingType DEF CtlKind, ForController, ForRuntime, ForMemory, ForClient
<1>2. Emit(w, e) = [w EXCEPT !.next = w.next + 1,
                             !.ctlq = Append(w.ctlq, Numbering(w, e))]
  BY <1>1 DEF Emit, Deliver, Numbering, World
<1>3. w.next + 1 \in Nat /\ Append(w.ctlq, Numbering(w, e)) \in Seq(Event)
  BY NumberingType DEF World
<1> QED
  BY <1>2, <1>3 DEF World

LEMMA EmitToRuntime ==
    ASSUME NEW w \in World, NEW e \in Event,
           e.kind = "Think" \/ (e.kind = "Run" /\ e.conf # "awaiting")
    PROVE  /\ Emit(w, e) \in World
           /\ Emit(w, e) = [w EXCEPT !.next = w.next + 1,
                                     !.runq = Append(w.runq, Numbering(w, e))]
<1>1. /\ ~ForController(Numbering(w, e)) /\ ForRuntime(Numbering(w, e))
      /\ ~ForMemory(Numbering(w, e)) /\ ~ForClient(Numbering(w, e))
  BY NumberingType DEF ForController, ForRuntime, ForMemory, ForClient
<1>2. Emit(w, e) = [w EXCEPT !.next = w.next + 1,
                             !.runq = Append(w.runq, Numbering(w, e))]
  BY <1>1 DEF Emit, Deliver, Numbering, World
<1>3. w.next + 1 \in Nat /\ Append(w.runq, Numbering(w, e)) \in Seq(Event)
  BY NumberingType DEF World
<1> QED
  BY <1>2, <1>3 DEF World

LEMMA EmitToMemory ==
    ASSUME NEW w \in World, NEW e \in Event, e.kind = "Recall"
    PROVE  /\ Emit(w, e) \in World
           /\ Emit(w, e) = [w EXCEPT !.next = w.next + 1,
                                     !.memq = Append(w.memq, Numbering(w, e))]
<1>1. /\ ~ForController(Numbering(w, e)) /\ ~ForRuntime(Numbering(w, e))
      /\ ForMemory(Numbering(w, e)) /\ ~ForClient(Numbering(w, e))
  BY NumberingType DEF ForController, ForRuntime, ForMemory, ForClient
<1>2. Emit(w, e) = [w EXCEPT !.next = w.next + 1,
                             !.memq = Append(w.memq, Numbering(w, e))]
  BY <1>1 DEF Emit, Deliver, Numbering, World
<1>3. w.next + 1 \in Nat /\ Append(w.memq, Numbering(w, e)) \in Seq(Event)
  BY NumberingType DEF World
<1> QED
  BY <1>2, <1>3 DEF World

LEMMA EmitToClient ==
    ASSUME NEW w \in World, NEW e \in Event,
           e.kind = "StateIs" \/ (e.kind = "Run" /\ e.conf = "awaiting")
    PROVE  /\ Emit(w, e) \in World
           /\ Emit(w, e) = [w EXCEPT !.next = w.next + 1,
                                     !.cliq = Append(w.cliq, Numbering(w, e))]
<1>1. /\ ~ForController(Numbering(w, e)) /\ ~ForRuntime(Numbering(w, e))
      /\ ~ForMemory(Numbering(w, e)) /\ ForClient(Numbering(w, e))
  BY NumberingType DEF ForController, ForRuntime, ForMemory, ForClient
<1>2. Emit(w, e) = [w EXCEPT !.next = w.next + 1,
                             !.cliq = Append(w.cliq, Numbering(w, e))]
  BY <1>1 DEF Emit, Deliver, Numbering, World
<1>3. w.next + 1 \in Nat /\ Append(w.cliq, Numbering(w, e)) \in Seq(Event)
  BY NumberingType DEF World
<1> QED
  BY <1>2, <1>3 DEF World

(* _reset: what is pending is dropped, and reported if nothing answered it. *)
NotRunOf(w) == [About("NotRun", w.pending.act) EXCEPT !.cause = w.pending.id]

LEMMA ResetFacts ==
    ASSUME NEW w \in World
    PROVE  /\ Reset(w) \in World
           /\ NotRunOf(w) \in Event /\ NotRunOf(w).kind = "NotRun"
           /\ Unanswered(w) =>
                 Reset(w) = [w EXCEPT !.pending = NoEvent, !.next = w.next + 1,
                                      !.ctlq = Append(w.ctlq, Numbering(w, NotRunOf(w)))]
           /\ ~Unanswered(w) => Reset(w) = [w EXCEPT !.pending = NoEvent]
<1>1. /\ NotRunOf(w) \in Event /\ NotRunOf(w).kind = "NotRun"
  BY DEF World, NotRunOf, Event, About, Ev, Kind, Confirmation
<1>2. Emit(w, NotRunOf(w)) = [w EXCEPT !.next = w.next + 1,
                                       !.ctlq = Append(w.ctlq, Numbering(w, NotRunOf(w)))]
  BY <1>1, EmitToController DEF CtlKind
<1>3. Unanswered(w) => Reset(w) = [Emit(w, NotRunOf(w)) EXCEPT !.pending = NoEvent]
  BY DEF Reset, NotRunOf
<1>4. ~Unanswered(w) => Reset(w) = [w EXCEPT !.pending = NoEvent]
  BY DEF Reset
<1>5. Unanswered(w) =>
         Reset(w) = [w EXCEPT !.pending = NoEvent, !.next = w.next + 1,
                              !.ctlq = Append(w.ctlq, Numbering(w, NotRunOf(w)))]
  BY <1>2, <1>3 DEF World
<1>6. Emit(w, NotRunOf(w)) \in World
  BY <1>1, EmitToController DEF CtlKind
<1>7. \A x \in World : [x EXCEPT !.pending = NoEvent] \in World
  <2>1. NoEvent \in Event
    BY EventType
  <2> QED
    BY <2>1 DEF World
<1>8. Reset(w) \in World
  BY <1>3, <1>4, <1>6, <1>7
<1> QED
  BY <1>1, <1>4, <1>5, <1>8

(* set_agent_state_to, but for the user's answer to a held action: the     *)
(* state is told to the client.                                            *)
Answer == {"USER_CONFIRMED", "USER_REJECTED"}
StateIs(s) == [Ev("StateIs") EXCEPT !.to = s]

LEMMA StateIsType ==
    ASSUME NEW s \in AgentState
    PROVE  StateIs(s) \in Event /\ StateIs(s).kind = "StateIs" /\ StateIs(s).to = s
           /\ StateIs(s).act = 0
BY DEF StateIs, Ev, Event, Kind, Confirmation

(* What SetState leaves alone whatever the state.                          *)
Beside(w1, w) ==
    /\ w1.iter = w.iter /\ w1.observed = w.observed /\ w1.memq = w.memq
    /\ w1.alerts = w.alerts /\ w1.unsent = w.unsent
Tells(w1, w, s) ==
    \E e \in Event : /\ e.kind = "StateIs" /\ e.to = s
                     /\ w1.cliq = Append(w.cliq, e)

LEMMA TellState ==
    ASSUME NEW w \in World, NEW s \in AgentState
    PROVE  LET w1 == Emit(w, StateIs(s))
           IN  /\ w1 \in World /\ Beside(w1, w) /\ Tells(w1, w, s)
               /\ w1.state = w.state /\ w1.max = w.max /\ w1.hit = w.hit
               /\ w1.pending = w.pending /\ w1.next = w.next + 1
               /\ w1.ctlq = w.ctlq /\ w1.runq = w.runq
<1> DEFINE e == Numbering(w, StateIs(s))
           w1 == Emit(w, StateIs(s))
<1>1. e \in Event /\ e.kind = "StateIs" /\ e.to = s
  BY NumberingType, StateIsType
<1>2. w1 \in World /\ w1 = [w EXCEPT !.next = w.next + 1, !.cliq = Append(w.cliq, e)]
  BY EmitToClient, StateIsType
<1> HIDE DEF w1, e
<1>3. /\ Beside(w1, w) /\ w1.cliq = Append(w.cliq, e)
      /\ w1.state = w.state /\ w1.max = w.max /\ w1.hit = w.hit
      /\ w1.pending = w.pending /\ w1.next = w.next + 1
      /\ w1.ctlq = w.ctlq /\ w1.runq = w.runq
  BY <1>2 DEF World, Beside
<1>4. Tells(w1, w, s)
  BY <1>1, <1>3 DEF Tells
<1> QED
  BY <1>2, <1>3, <1>4 DEF w1

LEMMA InState ==
    ASSUME NEW w \in World, NEW s \in AgentState
    PROVE  LET w1 == [w EXCEPT !.state = s]
           IN  /\ w1 \in World /\ Beside(w1, w) /\ w1.state = s
               /\ w1.max = w.max /\ w1.hit = w.hit
               /\ w1.pending = w.pending /\ w1.next = w.next
               /\ w1.ctlq = w.ctlq /\ w1.runq = w.runq /\ w1.cliq = w.cliq
BY DEF World, Beside

(* The stages of SetState.                                                 *)
Stage2(w1, s) == IF s \in {"STOPPED", "ERROR"} THEN Reset(w1) ELSE w1
Stage3(w, w2, s) == IF w.state = "ERROR" /\ s = "RUNNING" THEN IncreaseLimits(w2) ELSE w2
Stage4(w3, s) == IF s \in Answer /\ w3.pending # NoEvent THEN Resubmit(w3, s) ELSE w3

LEMMA SetStages ==
    ASSUME NEW w, NEW s, s # w.state
    PROVE  SetState(w, s) =
              Emit(Stage4(Stage3(w, Stage2([w EXCEPT !.state = s], s), s), s), StateIs(s))
BY DEF SetState, StateIs, Answer, Stage2, Stage3, Stage4

LEMMA SetOther ==
    ASSUME NEW w \in World, NEW s \in AgentState, s # w.state,
           s \notin Answer \cup {"STOPPED", "ERROR", "RUNNING"}
    PROVE  LET w1 == SetState(w, s)
           IN  /\ w1 \in World /\ Beside(w1, w) /\ Tells(w1, w, s) /\ w1.state = s
               /\ w1.max = w.max /\ w1.hit = w.hit
               /\ w1.pending = w.pending /\ w1.next = w.next + 1
               /\ w1.ctlq = w.ctlq /\ w1.runq = w.runq
<1> DEFINE w1 == [w EXCEPT !.state = s]
<1>1. SetState(w, s) = Emit(w1, StateIs(s))
  BY SetStages DEF Stage2, Stage3, Stage4
<1>2. /\ w1 \in World /\ Beside(w1, w) /\ w1.state = s
      /\ w1.max = w.max /\ w1.hit = w.hit
      /\ w1.pending = w.pending /\ w1.next = w.next
      /\ w1.ctlq = w.ctlq /\ w1.runq = w.runq /\ w1.cliq = w.cliq
  BY InState
<1> HIDE DEF w1
<1> DEFINE w2 == Emit(w1, StateIs(s))
<1>3. /\ w2 \in World /\ Beside(w2, w1) /\ Tells(w2, w1, s)
      /\ w2.state = w1.state /\ w2.max = w1.max /\ w2.hit = w1.hit
      /\ w2.pending = w1.pending /\ w2.next = w1.next + 1
      /\ w2.ctlq = w1.ctlq /\ w2.runq = w1.runq
  BY <1>2, TellState
<1> HIDE DEF w2
<1> QED
  BY <1>1, <1>2, <1>3 DEF Beside, Tells, w2

(* STOPPED and ERROR reset.                                                *)
LEMMA SetReset ==
    ASSUME NEW w \in World, NEW s \in {"STOPPED", "ERROR"}, s # w.state
    PROVE  LET w1 == SetState(w, s)
           IN  /\ w1 \in World /\ Beside(w1, w) /\ Tells(w1, w, s) /\ w1.state = s
               /\ w1.max = w.max /\ w1.hit = w.hit
               /\ w1.pending = NoEvent /\ w1.next > w.next /\ w1.runq = w.runq
               /\ ~Unanswered(w) => w1.ctlq = w.ctlq
               /\ Unanswered(w) =>
                     \E e \in Event : /\ e.kind = "NotRun" /\ e.id = w.next
                                      /\ w1.ctlq = Append(w.ctlq, e)
<1> DEFINE w1 == [w EXCEPT !.state = s]
<1>1. SetState(w, s) = Emit(Reset(w1), StateIs(s))
  BY SetStages DEF Stage2, Stage3, Stage4, Answer
<1>2. /\ w1 \in World /\ Beside(w1, w) /\ w1.state = s
      /\ w1.max = w.max /\ w1.hit = w.hit
      /\ w1.pending = w.pending /\ w1.next = w.next
      /\ w1.ctlq = w.ctlq /\ w1.runq = w.runq /\ w1.cliq = w.cliq
  <2>1. s \in AgentState
    BY DEF AgentState
  <2> QED
    BY <2>1, InState
<1>3. Unanswered(w1) <=> Unanswered(w)
  BY <1>2 DEF Unanswered, Beside
<1> HIDE DEF w1
<1> DEFINE w2 == Reset(w1)
<1>4. /\ w2 \in World /\ Beside(w2, w) /\ w2.state = s /\ w2.max = w.max /\ w2.hit = w.hit
      /\ w2.pending = NoEvent /\ w2.next >= w.next
      /\ w2.runq = w.runq /\ w2.cliq = w.cliq
      /\ ~Unanswered(w) => w2.ctlq = w.ctlq
      /\ Unanswered(w) => \E e \in Event : /\ e.kind = "NotRun" /\ e.id = w.next
                                           /\ w2.ctlq = Append(w.ctlq, e)
  <2>1. CASE Unanswered(w)
    <3> DEFINE e == Numbering(w1, NotRunOf(w1))
    <3>1. /\ w2 \in World /\ e \in Event /\ e.kind = "NotRun" /\ e.id = w.next
          /\ w2 = [w1 EXCEPT !.pending = NoEvent, !.next = w1.next + 1,
                             !.ctlq = Append(w1.ctlq, e)]
      BY <1>2, <1>3, <2>1, ResetFacts, NumberingType
    <3> HIDE DEF e, w2
    <3>2. /\ w2.iter = w1.iter /\ w2.observed = w1.observed /\ w2.memq = w1.memq
          /\ w2.alerts = w1.alerts /\ w2.unsent = w1.unsent /\ w2.state = w1.state /\ w2.max = w1.max
          /\ w2.hit = w1.hit /\ w2.pending = NoEvent /\ w2.next = w1.next + 1
          /\ w2.runq = w1.runq /\ w2.cliq = w1.cliq /\ w2.ctlq = Append(w1.ctlq, e)
      BY <1>2, <3>1 DEF World
    <3>3. w.next \in Nat
      BY DEF World
    <3> QED
      BY <1>2, <2>1, <3>1, <3>2, <3>3 DEF Beside
  <2>2. CASE ~Unanswered(w)
    <3>1. w2 \in World /\ w2 = [w1 EXCEPT !.pending = NoEvent]
      BY <1>2, <1>3, <2>2, ResetFacts
    <3> HIDE DEF w2
    <3>2. /\ w2.iter = w1.iter /\ w2.observed = w1.observed /\ w2.memq = w1.memq
          /\ w2.alerts = w1.alerts /\ w2.unsent = w1.unsent /\ w2.state = w1.state /\ w2.max = w1.max
          /\ w2.hit = w1.hit /\ w2.pending = NoEvent /\ w2.next = w1.next
          /\ w2.runq = w1.runq /\ w2.cliq = w1.cliq /\ w2.ctlq = w1.ctlq
      BY <1>2, <3>1 DEF World
    <3>3. w.next \in Nat
      BY DEF World
    <3> QED
      BY <1>2, <2>2, <3>1, <3>2, <3>3 DEF Beside
  <2> QED
    BY <2>1, <2>2
<1>5. w.next \in Nat /\ w2.next \in Nat /\ s \in AgentState
  BY <1>4 DEF World, AgentState
<1> HIDE DEF w2
<1> DEFINE w3 == Emit(w2, StateIs(s))
<1>6. /\ w3 \in World /\ Beside(w3, w2) /\ Tells(w3, w2, s)
      /\ w3.state = w2.state /\ w3.max = w2.max /\ w3.hit = w2.hit
      /\ w3.pending = w2.pending /\ w3.next = w2.next + 1
      /\ w3.ctlq = w2.ctlq /\ w3.runq = w2.runq
  BY <1>4, <1>5, TellState
<1>7. SetState(w, s) = w3
  BY <1>1 DEF w2
<1> HIDE DEF w3
<1>8. Beside(w3, w) /\ Tells(w3, w, s)
  BY <1>4, <1>6 DEF Beside, Tells
<1> QED
  BY <1>4, <1>5, <1>6, <1>7, <1>8
(* RUNNING after an error extends a limit that was hit.                    *)
LEMMA SetRunning ==
    ASSUME NEW w \in World, mode \in Modes, w.state # "RUNNING"
    PROVE  LET w1 == SetState(w, "RUNNING")
           IN  /\ w1 \in World /\ Beside(w1, w) /\ Tells(w1, w, "RUNNING")
               /\ w1.state = "RUNNING"
               /\ w1.pending = w.pending /\ w1.next = w.next + 1
               /\ w1.ctlq = w.ctlq /\ w1.runq = w.runq
               /\ IF w.state = "ERROR" /\ w.hit
                  THEN w1.max = w.max + mode.delta /\ ~w1.hit
                  ELSE w1.max = w.max /\ w1.hit = w.hit
<1> DEFINE s == "RUNNING"
           w1 == [w EXCEPT !.state = s]
           w2 == IF w.state = "ERROR" THEN IncreaseLimits(w1) ELSE w1
           w3 == Emit(w2, StateIs(s))
<1>0. s \in AgentState /\ s = "RUNNING"
  BY DEF AgentState
<1>1. SetState(w, "RUNNING") = w3
  BY SetStages DEF Stage2, Stage3, Stage4, Answer
<1>2. /\ w1 \in World /\ Beside(w1, w) /\ w1.state = s
      /\ w1.max = w.max /\ w1.hit = w.hit
      /\ w1.pending = w.pending /\ w1.next = w.next
      /\ w1.ctlq = w.ctlq /\ w1.runq = w.runq /\ w1.cliq = w.cliq
  BY <1>0, InState
<1> HIDE DEF w1, s
<1>3. mode.delta \in Nat
  BY ControllerAssumption DEF Mode
<1>4. /\ w2 \in World /\ Beside(w2, w) /\ w2.state = s
      /\ w2.pending = w.pending /\ w2.next = w.next
      /\ w2.ctlq = w.ctlq /\ w2.runq = w.runq /\ w2.cliq = w.cliq
      /\ IF w.state = "ERROR" /\ w.hit
         THEN w2.max = w.max + mode.delta /\ ~w2.hit
         ELSE w2.max = w.max /\ w2.hit = w.hit
  <2>1. CASE w.state = "ERROR" /\ w.hit
    <3>1. w2 = [w1 EXCEPT !.max = w1.max + mode.delta, !.hit = FALSE]
      BY <1>2, <2>1 DEF IncreaseLimits
    <3> HIDE DEF w2
    <3>2. w1.max + mode.delta \in Nat
      BY <1>2, <1>3 DEF World
    <3>3. w2 \in World
      BY <1>2, <3>1, <3>2 DEF World
    <3> QED
      BY <1>2, <2>1, <3>1, <3>3 DEF World, Beside
  <2>2. CASE ~(w.state = "ERROR" /\ w.hit)
    <3>1. w2 = w1
      BY <1>2, <2>2 DEF IncreaseLimits
    <3> QED
      BY <1>2, <2>2, <3>1
  <2> QED
    BY <2>1, <2>2
<1> HIDE DEF w2
<1>5. /\ w3 \in World /\ Beside(w3, w2) /\ Tells(w3, w2, s)
      /\ w3.state = w2.state /\ w3.max = w2.max /\ w3.hit = w2.hit
      /\ w3.pending = w2.pending /\ w3.next = w2.next + 1
      /\ w3.ctlq = w2.ctlq /\ w3.runq = w2.runq
  BY <1>0, <1>4, TellState
<1> HIDE DEF w3
<1>6. Beside(w3, w) /\ Tells(w3, w, s)
  BY <1>4, <1>5 DEF Beside, Tells
<1> QED
  BY <1>0, <1>1, <1>4, <1>5, <1>6

(* The user's answer puts what is pending on the stream again: the held    *)
(* action, or a recall that has taken its place.                           *)
LEMMA SetAnswer ==
    ASSUME NEW w \in World, NEW s \in Answer, s # w.state,
           w.pending.kind \in {"Run", "Recall"}
    PROVE  LET w1 == SetState(w, s)
           IN  /\ w1 \in World /\ Tells(w1, w, s) /\ w1.state = s
               /\ w1.iter = w.iter /\ w1.observed = w.observed /\ w1.alerts = w.alerts /\ w1.unsent = w.unsent
               /\ w1.max = w.max /\ w1.hit = w.hit
               /\ w1.next > w.next /\ w1.ctlq = w.ctlq
               /\ w1.pending.kind = w.pending.kind /\ w1.pending.id = w.next
               /\ w1.pending.act = w.pending.act
               /\ w1.pending.conf = IF s = "USER_CONFIRMED" THEN "confirmed" ELSE "rejected"
               /\ IF w.pending.kind = "Run"
                  THEN w1.runq = Append(w.runq, w1.pending) /\ w1.memq = w.memq
                  ELSE w1.memq = Append(w.memq, w1.pending) /\ w1.runq = w.runq
<1> DEFINE conf == IF s = "USER_CONFIRMED" THEN "confirmed" ELSE "rejected"
           w1 == [w EXCEPT !.state = s]
           p == [w1.pending EXCEPT !.conf = conf]
           w2 == [Emit(w1, p) EXCEPT !.pending = [p EXCEPT !.id = w1.next]]
           w3 == Emit(w2, StateIs(s))
<1>0. s \in AgentState /\ conf \in {"confirmed", "rejected"}
  BY DEF AgentState, Answer
<1>1. /\ w1 \in World /\ Beside(w1, w) /\ w1.state = s
      /\ w1.max = w.max /\ w1.hit = w.hit
      /\ w1.pending = w.pending /\ w1.next = w.next
      /\ w1.ctlq = w.ctlq /\ w1.runq = w.runq /\ w1.cliq = w.cliq
  BY <1>0, InState
<1>2. Stage3(w, Stage2(w1, s), s) = w1
  BY DEF Stage2, Stage3, Answer
<1>3. Stage4(w1, s) = w2
  BY <1>1, EventType DEF Stage4, Resubmit
<1>4. SetState(w, s) = w3
  BY <1>2, <1>3, SetStages
<1> HIDE DEF w1
<1>5. /\ p \in Event /\ p.kind = w.pending.kind /\ p.conf = conf /\ p.act = w.pending.act
      /\ p.conf # "awaiting"
  BY <1>0, <1>1 DEF World, Event, Confirmation
<1>6. [p EXCEPT !.id = w1.next] = Numbering(w1, p)
  BY DEF Numbering
<1> HIDE DEF p, conf
<1> DEFINE e == Numbering(w1, p)
<1>7. /\ e \in Event /\ e.kind = w.pending.kind /\ e.conf = conf /\ e.act = w.pending.act
      /\ e.id = w.next
  BY <1>1, <1>5, NumberingType
<1>9. w2 = [Emit(w1, p) EXCEPT !.pending = e]
  BY <1>6
<1> HIDE DEF e, w2
<1>10. /\ w2 \in World /\ w2.state = s
       /\ w2.iter = w.iter /\ w2.observed = w.observed /\ w2.alerts = w.alerts /\ w2.unsent = w.unsent
       /\ w2.max = w.max /\ w2.hit = w.hit /\ w2.next = w.next + 1
       /\ w2.ctlq = w.ctlq /\ w2.cliq = w.cliq /\ w2.pending = e
       /\ IF w.pending.kind = "Run"
          THEN w2.runq = Append(w.runq, e) /\ w2.memq = w.memq
          ELSE w2.memq = Append(w.memq, e) /\ w2.runq = w.runq
  <2>1. CASE w.pending.kind = "Run"
    <3> DEFINE y == Emit(w1, p)
    <3>1. y \in World /\ y = [w1 EXCEPT !.next = w1.next + 1, !.runq = Append(w1.runq, e)]
      BY <1>1, <1>5, <2>1, EmitToRuntime DEF e
    <3>2. w2 = [y EXCEPT !.pending = e]
      BY <1>9
    <3> HIDE DEF y
    <3>3. /\ y.state = s /\ y.iter = w.iter /\ y.observed = w.observed /\ y.alerts = w.alerts /\ y.unsent = w.unsent
          /\ y.max = w.max /\ y.hit = w.hit /\ y.next = w.next + 1
          /\ y.ctlq = w.ctlq /\ y.cliq = w.cliq /\ y.runq = Append(w.runq, e)
          /\ y.memq = w.memq
      BY <1>1, <3>1 DEF World, Beside
    <3>4. w2 \in World
      BY <1>7, <3>1, <3>2 DEF World
    <3>5. /\ w2.state = y.state /\ w2.iter = y.iter /\ w2.observed = y.observed
          /\ w2.alerts = y.alerts /\ w2.unsent = y.unsent /\ w2.max = y.max /\ w2.hit = y.hit /\ w2.next = y.next
          /\ w2.ctlq = y.ctlq /\ w2.cliq = y.cliq /\ w2.runq = y.runq /\ w2.memq = y.memq
          /\ w2.pending = e
      BY <3>1, <3>2 DEF World
    <3> QED
      BY <2>1, <3>3, <3>4, <3>5
  <2>2. CASE w.pending.kind = "Recall"
    <3> DEFINE y == Emit(w1, p)
    <3>1. y \in World /\ y = [w1 EXCEPT !.next = w1.next + 1, !.memq = Append(w1.memq, e)]
      BY <1>1, <1>5, <2>2, EmitToMemory DEF e
    <3>2. w2 = [y EXCEPT !.pending = e]
      BY <1>9
    <3> HIDE DEF y
    <3>3. /\ y.state = s /\ y.iter = w.iter /\ y.observed = w.observed /\ y.alerts = w.alerts /\ y.unsent = w.unsent
          /\ y.max = w.max /\ y.hit = w.hit /\ y.next = w.next + 1
          /\ y.ctlq = w.ctlq /\ y.cliq = w.cliq /\ y.memq = Append(w.memq, e)
          /\ y.runq = w.runq
      BY <1>1, <3>1 DEF World, Beside
    <3>4. w2 \in World
      BY <1>7, <3>1, <3>2 DEF World
    <3>5. /\ w2.state = y.state /\ w2.iter = y.iter /\ w2.observed = y.observed
          /\ w2.alerts = y.alerts /\ w2.unsent = y.unsent /\ w2.max = y.max /\ w2.hit = y.hit /\ w2.next = y.next
          /\ w2.ctlq = y.ctlq /\ w2.cliq = y.cliq /\ w2.runq = y.runq /\ w2.memq = y.memq
          /\ w2.pending = e
      BY <3>1, <3>2 DEF World
    <3> QED
      BY <2>2, <3>3, <3>4, <3>5
  <2> QED
    BY <2>1, <2>2
<1>11. /\ w3 \in World /\ Beside(w3, w2) /\ Tells(w3, w2, s)
       /\ w3.state = w2.state /\ w3.max = w2.max /\ w3.hit = w2.hit
       /\ w3.pending = w2.pending /\ w3.next = w2.next + 1
       /\ w3.ctlq = w2.ctlq /\ w3.runq = w2.runq
  BY <1>0, <1>10, TellState
<1> HIDE DEF w3
<1>12. /\ w3.iter = w.iter /\ w3.observed = w.observed /\ w3.alerts = w.alerts /\ w3.unsent = w.unsent
       /\ w3.memq = w2.memq /\ Tells(w3, w, s)
  BY <1>10, <1>11 DEF Beside, Tells
<1>13. w.next \in Nat
  BY DEF World
<1> QED
  BY <1>4, <1>7, <1>10, <1>11, <1>12, <1>13 DEF conf

(* ... and does nothing else when nothing is pending.                      *)
LEMMA SetAnswerLate ==
    ASSUME NEW w \in World, NEW s \in Answer, s # w.state, w.pending = NoEvent
    PROVE  LET w1 == SetState(w, s)
           IN  /\ w1 \in World /\ Beside(w1, w) /\ Tells(w1, w, s) /\ w1.state = s
               /\ w1.max = w.max /\ w1.hit = w.hit
               /\ w1.pending = NoEvent /\ w1.next = w.next + 1
               /\ w1.ctlq = w.ctlq /\ w1.runq = w.runq
<1> DEFINE w1 == [w EXCEPT !.state = s]
           w2 == Emit(w1, StateIs(s))
<1>0. s \in AgentState
  BY DEF AgentState, Answer
<1>1. /\ w1 \in World /\ Beside(w1, w) /\ w1.state = s
      /\ w1.max = w.max /\ w1.hit = w.hit
      /\ w1.pending = w.pending /\ w1.next = w.next
      /\ w1.ctlq = w.ctlq /\ w1.runq = w.runq /\ w1.cliq = w.cliq
  BY <1>0, InState
<1>2. Stage4(Stage3(w, Stage2(w1, s), s), s) = w1
  BY <1>1 DEF Stage2, Stage3, Stage4, Answer
<1>3. SetState(w, s) = w2
  BY <1>2, SetStages
<1> HIDE DEF w1
<1>4. /\ w2 \in World /\ Beside(w2, w1) /\ Tells(w2, w1, s)
      /\ w2.state = w1.state /\ w2.max = w1.max /\ w2.hit = w1.hit
      /\ w2.pending = w1.pending /\ w2.next = w1.next + 1
      /\ w2.ctlq = w1.ctlq /\ w2.runq = w1.runq
  BY <1>0, <1>1, TellState
<1> HIDE DEF w2
<1>5. Beside(w2, w) /\ Tells(w2, w, s)
  BY <1>1, <1>4 DEF Beside, Tells
<1> QED
  BY <1>1, <1>3, <1>4, <1>5
-----------------------------------------------------------------------------
(***************************************************************************)
(* What handling an event comes to: c is the world before, e the event at  *)
(* the head of its queue, w the world after the handler.                   *)
(***************************************************************************)
Took(c, e, w) ==
    /\ w \in World /\ w.iter = c.iter /\ w.alerts = c.alerts /\ w.unsent = c.unsent /\ w.next >= c.next
    /\ w.observed = c.observed \/ e.kind \in Observation
Level(c, w) == w.max = c.max /\ w.hit = c.hit
Extended(c, w) ==
    IF c.state = "ERROR" /\ c.hit THEN w.max = c.max + mode.delta /\ ~w.hit ELSE Level(c, w)
Queues(c, w) == w.ctlq = Tail(c.ctlq) /\ w.runq = c.runq /\ w.memq = c.memq

Rest == {"AWAITING_USER_INPUT", "FINISHED", "REJECTED"}
Ignores(c, e, w) ==
    /\ Level(c, w) /\ Queues(c, w)
    /\ w.state = c.state /\ w.pending = c.pending /\ w.cliq = c.cliq
    /\ e.kind # "UserMessage" /\ (e.kind = "ChangeState" => e.to = c.state)
    /\ e.kind \in Observation =>
          c.pending = NoEvent \/ c.pending.id # e.cause \/ c.state = "AWAITING_USER_CONFIRMATION"
    /\ e.kind \in {"Question", "Finish", "Reject"} => c.state \in Rest
Settles(c, e, w) ==
    /\ Level(c, w) /\ Queues(c, w) /\ e.kind \in Observation
    /\ c.state \notin {"AWAITING_USER_CONFIRMATION"} \cup Answer
    /\ w.state = c.state /\ w.pending = NoEvent /\ w.cliq = c.cliq
Resumes(c, e, w) ==
    /\ Level(c, w) /\ Queues(c, w) /\ e.kind \in Observation /\ c.state \in Answer
    /\ w.state \in {"RUNNING", "AWAITING_USER_INPUT"}
    /\ w.pending = NoEvent /\ Tells(w, c, w.state)
Recalls(c, e, w) ==
    /\ Extended(c, w) /\ e.kind = "UserMessage" /\ w.state = "RUNNING"
    /\ w.ctlq = Tail(c.ctlq) /\ w.runq = c.runq /\ w.memq = Append(c.memq, w.pending)
    /\ w.pending.kind = "Recall" /\ w.pending.conf = "none" /\ w.pending.id = c.next
    /\ w.next > c.next
    /\ IF c.state = "RUNNING" THEN w.cliq = c.cliq ELSE Tells(w, c, "RUNNING")
Enters(c, e, w) ==
    /\ Level(c, w) /\ Queues(c, w) /\ e.kind \in {"ChangeState", "Question", "Finish", "Reject"}
    /\ w.state \in Rest /\ Tells(w, c, w.state) /\ w.pending = c.pending
    /\ e.kind = "ChangeState" => e.to = w.state
Starts(c, e, w) ==
    /\ Extended(c, w) /\ Queues(c, w) /\ e.kind = "ChangeState" /\ e.to = "RUNNING"
    /\ c.state # "RUNNING" /\ w.state = "RUNNING" /\ Tells(w, c, "RUNNING")
    /\ w.pending = c.pending
Stops(c, e, w) ==
    /\ Level(c, w) /\ w.runq = c.runq /\ w.memq = c.memq
    /\ e.kind = "ChangeState" /\ e.to = "STOPPED" /\ w.state = "STOPPED"
    /\ w.pending = NoEvent /\ Tells(w, c, "STOPPED")
    /\ \/ w.ctlq = Tail(c.ctlq)
       \/ \E n \in Event : /\ n.kind = "NotRun" /\ n.id = c.next /\ w.next > c.next
                           /\ w.ctlq = Append(Tail(c.ctlq), n)
Answers(c, e, w) ==
    /\ Level(c, w) /\ w.ctlq = Tail(c.ctlq)
    /\ e.kind = "ChangeState" /\ e.to \in Answer /\ e.to # c.state
    /\ w.state = e.to /\ Tells(w, c, e.to)
    /\ w.pending.kind = c.pending.kind /\ c.pending.kind \in {"Run", "Recall"}
    /\ w.pending.act = c.pending.act /\ w.pending.id = c.next /\ w.next > c.next
    /\ w.pending.conf = IF e.to = "USER_CONFIRMED" THEN "confirmed" ELSE "rejected"
    /\ IF c.pending.kind = "Run"
       THEN w.runq = Append(c.runq, w.pending) /\ w.memq = c.memq
       ELSE w.memq = Append(c.memq, w.pending) /\ w.runq = c.runq
AnswersLate(c, e, w) ==
    /\ Level(c, w) /\ Queues(c, w) /\ e.kind = "ChangeState" /\ e.to \in Answer
    /\ c.pending = NoEvent /\ w.pending = NoEvent /\ w.state = e.to /\ Tells(w, c, e.to)

Handled(c, e, w) ==
    /\ Took(c, e, w)
    /\ \/ Ignores(c, e, w) \/ Settles(c, e, w) \/ Resumes(c, e, w) \/ Recalls(c, e, w)
       \/ Enters(c, e, w) \/ Starts(c, e, w) \/ Stops(c, e, w)
       \/ Answers(c, e, w) \/ AnswersLate(c, e, w)

(* The commands that come over the stream.                                 *)
Commanded == {"RUNNING", "AWAITING_USER_INPUT", "STOPPED"} \cup Answer

(* The event is taken from the queue and added to history.                 *)
Taken(c) == AddHistory([c EXCEPT !.ctlq = Tail(c.ctlq)], Head(c.ctlq))

LEMMA TakenFacts ==
    ASSUME NEW c \in World, c.ctlq # <<>>
    PROVE  /\ Head(c.ctlq) \in Event /\ Taken(c) \in World
           /\ Taken(c).ctlq = Tail(c.ctlq) /\ Taken(c).runq = c.runq
           /\ Taken(c).memq = c.memq /\ Taken(c).cliq = c.cliq
           /\ Taken(c).state = c.state /\ Taken(c).pending = c.pending
           /\ Taken(c).iter = c.iter /\ Taken(c).alerts = c.alerts /\ Taken(c).unsent = c.unsent
           /\ Taken(c).next = c.next /\ Taken(c).max = c.max /\ Taken(c).hit = c.hit
           /\ Taken(c).observed = c.observed \/ Head(c.ctlq).kind \in Observation
<1> DEFINE e == Head(c.ctlq)
           w0 == [c EXCEPT !.ctlq = Tail(c.ctlq)]
<1>1. e \in Event /\ Tail(c.ctlq) \in Seq(Event) /\ e.act \in Nat
  <2>1. c.ctlq \in Seq(Event)
    BY DEF World
  <2>2. e \in Event /\ Tail(c.ctlq) \in Seq(Event)
    BY <2>1
  <2> QED
    BY <2>2 DEF Event
<1>2. /\ w0 \in World /\ w0.ctlq = Tail(c.ctlq) /\ w0.runq = c.runq
      /\ w0.memq = c.memq /\ w0.cliq = c.cliq
      /\ w0.state = c.state /\ w0.pending = c.pending
      /\ w0.iter = c.iter /\ w0.alerts = c.alerts /\ w0.unsent = c.unsent /\ w0.observed = c.observed
      /\ w0.next = c.next /\ w0.max = c.max /\ w0.hit = c.hit
  BY <1>1 DEF World
<1> HIDE DEF w0, e
<1> DEFINE w == AddHistory(w0, e)
<1>3. \/ w = w0
      \/ w = [w0 EXCEPT !.observed = w0.observed \cup {e.act}] /\ e.kind \in Observation
  BY DEF AddHistory
<1> HIDE DEF w
<1>4. w0.observed \cup {e.act} \in SUBSET Nat
  BY <1>1, <1>2 DEF World
<1>5. /\ w \in World /\ w.ctlq = w0.ctlq /\ w.runq = w0.runq
      /\ w.memq = w0.memq /\ w.cliq = w0.cliq
      /\ w.state = w0.state /\ w.pending = w0.pending
      /\ w.iter = w0.iter /\ w.alerts = w0.alerts /\ w.unsent = w0.unsent
      /\ w.next = w0.next /\ w.max = w0.max /\ w.hit = w0.hit
      /\ w.observed = w0.observed \/ e.kind \in Observation
  <2>1. CASE w = w0
    BY <1>2, <2>1
  <2>2. CASE w = [w0 EXCEPT !.observed = w0.observed \cup {e.act}] /\ e.kind \in Observation
    BY <1>2, <1>4, <2>2 DEF World
  <2> QED
    BY <1>3, <2>1, <2>2
<1>6. Taken(c) = w
  BY DEF Taken, w, w0, e
<1> QED
  BY <1>1, <1>2, <1>5, <1>6 DEF e
(***************************************************************************)
(* Which events a queue holds: kinds that its subscriber does something    *)
(* about, and what may be pending.                                         *)
(***************************************************************************)
Routed(w) ==
    /\ \A e \in Elems(w.ctlq) :
          e.kind \in CtlKind /\ (e.kind = "ChangeState" => e.to \in Commanded)
    /\ \A e \in Elems(w.runq) : e.kind \in {"Think", "Run"} /\ e.conf # "awaiting"
    /\ \A e \in Elems(w.memq) : e.kind = "Recall"
    /\ \A e \in Elems(w.cliq) : e.kind = "Run" \/ (e.kind = "StateIs" /\ e.to \in AgentState)
    /\ w.pending = NoEvent \/ w.pending.kind \in {"Recall", "Run"}

LEMMA ElemsHead ==
    ASSUME NEW q \in Seq(Event), q # <<>>
    PROVE  /\ Head(q) \in Elems(q) /\ Head(q) \in Event /\ Head(q) = q[1]
           /\ Tail(q) \in Seq(Event) /\ Elems(Tail(q)) \subseteq Elems(q)
           /\ Len(Tail(q)) = Len(q) - 1
           /\ \A i \in DOMAIN Tail(q) : i + 1 \in DOMAIN q /\ Tail(q)[i] = q[i + 1]
<1>1. /\ Head(q) \in Event /\ Head(q) = q[1] /\ 1 \in DOMAIN q
      /\ Tail(q) \in Seq(Event) /\ Len(Tail(q)) = Len(q) - 1
  OBVIOUS
<1>2. ASSUME NEW i \in DOMAIN Tail(q)
      PROVE  i + 1 \in DOMAIN q /\ Tail(q)[i] = q[i + 1]
  OBVIOUS
<1> QED
  BY <1>1, <1>2 DEF Elems

LEMMA ElemsAppend ==
    ASSUME NEW q \in Seq(Event), NEW e \in Event
    PROVE  /\ Append(q, e) \in Seq(Event) /\ Elems(Append(q, e)) = Elems(q) \cup {e}
           /\ Append(q, e) # <<>> /\ Len(Append(q, e)) = Len(q) + 1
           /\ Append(q, e)[Len(q) + 1] = e
           /\ \A i \in DOMAIN q : i \in DOMAIN Append(q, e) /\ Append(q, e)[i] = q[i]
           /\ DOMAIN Append(q, e) = DOMAIN q \cup {Len(q) + 1}
           /\ DOMAIN q = 1..Len(q) /\ Len(q) \in Nat
<1>1. /\ Append(q, e) \in Seq(Event) /\ Len(Append(q, e)) = Len(q) + 1
      /\ Append(q, e) # <<>> /\ Append(q, e)[Len(q) + 1] = e
      /\ DOMAIN q = 1..Len(q) /\ Len(q) \in Nat
      /\ DOMAIN Append(q, e) = 1..(Len(q) + 1)
  OBVIOUS
<1>2. \A i \in DOMAIN q : Append(q, e)[i] = q[i]
  OBVIOUS
<1>3. DOMAIN Append(q, e) = DOMAIN q \cup {Len(q) + 1}
  BY <1>1
<1> QED
  BY <1>1, <1>2, <1>3 DEF Elems

LEMMA HandleChangeState ==
    ASSUME NEW c \in World, mode \in Modes, Routed(c), c.ctlq # <<>>,
           Head(c.ctlq).kind = "ChangeState"
    PROVE  Handled(c, Head(c.ctlq), SetState(Taken(c), Head(c.ctlq).to))
<1> DEFINE e == Head(c.ctlq)
           w0 == Taken(c)
           s == e.to
           w == SetState(w0, s)
<1>1. /\ e \in Event /\ e \in Elems(c.ctlq) /\ e.kind = "ChangeState" /\ e.kind \notin Observation
      /\ s \in Commanded
  <2>1. c.ctlq \in Seq(Event)
    BY DEF World
  <2> QED
    BY <2>1, ElemsHead DEF Routed, Observation
<1>2. /\ w0 \in World /\ w0.ctlq = Tail(c.ctlq) /\ w0.runq = c.runq
      /\ w0.memq = c.memq /\ w0.cliq = c.cliq
      /\ w0.state = c.state /\ w0.pending = c.pending
      /\ w0.iter = c.iter /\ w0.alerts = c.alerts /\ w0.unsent = c.unsent
      /\ w0.next = c.next /\ w0.max = c.max /\ w0.hit = c.hit
      /\ w0.observed = c.observed
  BY <1>1, TakenFacts
<1>3. c.next \in Nat /\ s \in AgentState
  BY <1>1 DEF World, Commanded, AgentState, Answer
<1> HIDE DEF w0, e, s, w
<1>4. CASE s = c.state
  <2>1. w = w0
    BY <1>2, <1>4 DEF SetState, w
  <2>2. Took(c, e, w)
    BY <1>2, <1>3, <2>1 DEF Took
  <2>3. Ignores(c, e, w)
    BY <1>1, <1>2, <1>4, <2>1 DEF Ignores, Level, Queues, s
  <2> QED
    BY <2>2, <2>3 DEF Handled, w, w0, e, s
<1>5. CASE s = "RUNNING" /\ s # c.state
  <2>1. /\ w \in World /\ Beside(w, w0) /\ Tells(w, w0, "RUNNING") /\ w.state = "RUNNING"
        /\ w.pending = w0.pending /\ w.next = w0.next + 1
        /\ w.ctlq = w0.ctlq /\ w.runq = w0.runq
        /\ IF w0.state = "ERROR" /\ w0.hit
           THEN w.max = w0.max + mode.delta /\ ~w.hit
           ELSE w.max = w0.max /\ w.hit = w0.hit
    BY <1>2, <1>5, SetRunning DEF w
  <2>2. Took(c, e, w)
    BY <1>2, <1>3, <2>1 DEF Took, Beside
  <2>3. Starts(c, e, w)
    BY <1>1, <1>2, <1>5, <2>1 DEF Starts, Extended, Level, Queues, Tells, Beside, s
  <2> QED
    BY <2>2, <2>3 DEF Handled, w, w0, e, s
<1>6. CASE s = "AWAITING_USER_INPUT" /\ s # c.state
  <2>1. s \in AgentState /\ s # w0.state /\ s \notin Answer \cup {"STOPPED", "ERROR", "RUNNING"}
    BY <1>2, <1>3, <1>6 DEF Answer
  <2>2. /\ w \in World /\ Beside(w, w0) /\ Tells(w, w0, s) /\ w.state = s
        /\ w.max = w0.max /\ w.hit = w0.hit
        /\ w.pending = w0.pending /\ w.next = w0.next + 1
        /\ w.ctlq = w0.ctlq /\ w.runq = w0.runq
    BY <1>2, <2>1, SetOther DEF w
  <2>3. Took(c, e, w)
    BY <1>2, <1>3, <2>2 DEF Took, Beside
  <2>4. Enters(c, e, w)
    BY <1>1, <1>2, <1>6, <2>2 DEF Enters, Level, Queues, Tells, Beside, s, Rest
  <2> QED
    BY <2>3, <2>4 DEF Handled, w, w0, e, s
<1>7. CASE s = "STOPPED" /\ s # c.state
  <2>1. s \in {"STOPPED", "ERROR"} /\ s # w0.state
    BY <1>2, <1>7
  <2>2. /\ w \in World /\ Beside(w, w0) /\ Tells(w, w0, s) /\ w.state = s
        /\ w.max = w0.max /\ w.hit = w0.hit
        /\ w.pending = NoEvent /\ w.next > w0.next /\ w.runq = w0.runq
        /\ ~Unanswered(w0) => w.ctlq = w0.ctlq
        /\ Unanswered(w0) => \E n \in Event : /\ n.kind = "NotRun" /\ n.id = w0.next
                                              /\ w.ctlq = Append(w0.ctlq, n)
    BY <1>2, <2>1, SetReset DEF w
  <2>0. w.next \in Nat /\ w0.next \in Nat
    BY <1>2, <2>2 DEF World
  <2>3. w.next >= c.next
    BY <1>2, <2>0, <2>2
  <2>4. Took(c, e, w)
    BY <1>2, <2>2, <2>3 DEF Took, Beside
  <2>5. Stops(c, e, w)
    BY <1>1, <1>2, <1>7, <2>2 DEF Stops, Level, Tells, Beside, s
  <2> QED
    BY <2>4, <2>5 DEF Handled, w, w0, e, s
<1>8. CASE s \in Answer /\ s # c.state /\ c.pending.kind \in {"Run", "Recall"}
  <2>1. s \in Answer /\ s # w0.state /\ w0.pending.kind \in {"Run", "Recall"}
    BY <1>2, <1>8
  <2>2. /\ w \in World /\ Tells(w, w0, s) /\ w.state = s
        /\ w.iter = w0.iter /\ w.observed = w0.observed /\ w.alerts = w0.alerts /\ w.unsent = w0.unsent
        /\ w.max = w0.max /\ w.hit = w0.hit
        /\ w.next > w0.next /\ w.ctlq = w0.ctlq
        /\ w.pending.kind = w0.pending.kind /\ w.pending.id = w0.next
        /\ w.pending.act = w0.pending.act
        /\ w.pending.conf = IF s = "USER_CONFIRMED" THEN "confirmed" ELSE "rejected"
        /\ IF w0.pending.kind = "Run"
           THEN w.runq = Append(w0.runq, w.pending) /\ w.memq = w0.memq
           ELSE w.memq = Append(w0.memq, w.pending) /\ w.runq = w0.runq
    BY <1>2, <2>1, SetAnswer DEF w
  <2>3. w.next >= c.next
    BY <1>2, <1>3, <2>2 DEF World
  <2>4. Took(c, e, w)
    BY <1>2, <2>2, <2>3 DEF Took
  <2>5. Answers(c, e, w)
    BY <1>1, <1>2, <1>8, <2>2 DEF Answers, Level, Tells, s
  <2> QED
    BY <2>4, <2>5 DEF Handled, w, w0, e, s
<1>9. CASE s \in Answer /\ s # c.state /\ c.pending = NoEvent
  <2>1. s \in Answer /\ s # w0.state /\ w0.pending = NoEvent
    BY <1>2, <1>9
  <2>2. /\ w \in World /\ Beside(w, w0) /\ Tells(w, w0, s) /\ w.state = s
        /\ w.max = w0.max /\ w.hit = w0.hit
        /\ w.pending = NoEvent /\ w.next = w0.next + 1
        /\ w.ctlq = w0.ctlq /\ w.runq = w0.runq
    BY <1>2, <2>1, SetAnswerLate DEF w
  <2>3. Took(c, e, w)
    BY <1>2, <1>3, <2>2 DEF Took, Beside
  <2>4. AnswersLate(c, e, w)
    BY <1>1, <1>2, <1>9, <2>2 DEF AnswersLate, Level, Queues, Tells, Beside, s
  <2> QED
    BY <2>3, <2>4 DEF Handled, w, w0, e, s
<1> QED
  <2>1. c.pending = NoEvent \/ c.pending.kind \in {"Run", "Recall"}
    BY DEF Routed
  <2>2. s \in {"RUNNING", "AWAITING_USER_INPUT", "STOPPED"} \cup Answer
    BY <1>1 DEF Commanded
  <2> QED
    BY <1>4, <1>5, <1>6, <1>7, <1>8, <1>9, <2>1, <2>2
(* A message of the user: a recall is put on the stream and awaited.       *)
LEMMA UserMessageFacts ==
    ASSUME NEW c \in World, mode \in Modes, c.ctlq # <<>>,
           Head(c.ctlq).kind = "UserMessage"
    PROVE  Handled(c, Head(c.ctlq), HandleUserMessage(Taken(c)))
<1> DEFINE e == Head(c.ctlq)
           w0 == Taken(c)
           r == Numbering(w0, Ev("Recall"))
           w1 == [Emit(w0, r) EXCEPT !.pending = r]
           w == SetState(w1, "RUNNING")
<1>1. e \in Event /\ e.kind = "UserMessage" /\ e.kind \notin Observation
  <2>1. c.ctlq \in Seq(Event)
    BY DEF World
  <2> QED
    BY <2>1, ElemsHead DEF Observation
<1>2. /\ w0 \in World /\ w0.ctlq = Tail(c.ctlq) /\ w0.runq = c.runq
      /\ w0.memq = c.memq /\ w0.cliq = c.cliq
      /\ w0.state = c.state /\ w0.pending = c.pending
      /\ w0.iter = c.iter /\ w0.alerts = c.alerts /\ w0.unsent = c.unsent
      /\ w0.next = c.next /\ w0.max = c.max /\ w0.hit = c.hit
      /\ w0.observed = c.observed
  BY <1>1, TakenFacts
<1>3. c.next \in Nat
  BY DEF World
<1>4. HandleUserMessage(w0) = w
  BY DEF HandleUserMessage, Numbering
<1> HIDE DEF w0
<1>5. /\ r \in Event /\ r.kind = "Recall" /\ r.conf = "none" /\ r.id = c.next
      /\ Numbering(w0, r) = r
  <2>1. Ev("Recall") \in Event /\ Ev("Recall").kind = "Recall" /\ Ev("Recall").conf = "none"
    BY EventType DEF Kind
  <2>2. r \in Event /\ r.kind = "Recall" /\ r.conf = "none" /\ r.id = c.next
    BY <1>2, <2>1, NumberingType
  <2>3. Numbering(w0, r) = r
    BY <1>2, <2>2 DEF Numbering, Event
  <2> QED
    BY <2>2, <2>3
<1> HIDE DEF r
<1>6. /\ Emit(w0, r) \in World
      /\ Emit(w0, r) = [w0 EXCEPT !.next = w0.next + 1, !.memq = Append(w0.memq, r)]
  BY <1>2, <1>5, EmitToMemory
<1>7. /\ w1 \in World /\ w1.next = c.next + 1 /\ w1.memq = Append(c.memq, r)
      /\ w1.pending = r /\ w1.ctlq = w0.ctlq /\ w1.runq = w0.runq /\ w1.cliq = w0.cliq
      /\ w1.state = w0.state /\ w1.iter = w0.iter /\ w1.alerts = w0.alerts /\ w1.unsent = w0.unsent
      /\ w1.max = w0.max /\ w1.hit = w0.hit /\ w1.observed = w0.observed
  <2> DEFINE y == Emit(w0, r)
  <2>1. y \in World /\ w1 = [y EXCEPT !.pending = r]
    BY <1>6
  <2>2. /\ y.next = w0.next + 1 /\ y.memq = Append(w0.memq, r) /\ y.ctlq = w0.ctlq
        /\ y.runq = w0.runq /\ y.cliq = w0.cliq /\ y.state = w0.state /\ y.iter = w0.iter
        /\ y.alerts = w0.alerts /\ y.unsent = w0.unsent /\ y.max = w0.max /\ y.hit = w0.hit
        /\ y.observed = w0.observed
    BY <1>2, <1>6 DEF World
  <2> HIDE DEF y, w1
  <2>3. w1 \in World
    BY <1>5, <2>1 DEF World
  <2>4. /\ w1.next = y.next /\ w1.memq = y.memq /\ w1.pending = r /\ w1.ctlq = y.ctlq
        /\ w1.runq = y.runq /\ w1.cliq = y.cliq /\ w1.state = y.state /\ w1.iter = y.iter
        /\ w1.alerts = y.alerts /\ w1.unsent = y.unsent /\ w1.max = y.max /\ w1.hit = y.hit
        /\ w1.observed = y.observed
    BY <1>5, <2>1 DEF World
  <2> QED
    BY <1>2, <2>2, <2>3, <2>4
<1> HIDE DEF w1, w, e
<1>8. Took(c, e, w) /\ Recalls(c, e, w)
  <2>1. CASE c.state = "RUNNING"
    <3>1. w = w1
      BY <1>2, <1>7, <2>1 DEF w, SetState
    <3>2. Took(c, e, w) /\ w.next > c.next
      BY <1>2, <1>3, <1>7, <3>1 DEF Took
    <3> QED
      BY <1>1, <1>2, <1>5, <1>7, <2>1, <3>1, <3>2 DEF Recalls, Extended, Level
  <2>2. CASE c.state # "RUNNING"
    <3>1. w1.state # "RUNNING"
      BY <1>2, <1>7, <2>2
    <3>2. /\ w \in World /\ Beside(w, w1) /\ Tells(w, w1, "RUNNING") /\ w.state = "RUNNING"
          /\ w.pending = w1.pending /\ w.next = w1.next + 1
          /\ w.ctlq = w1.ctlq /\ w.runq = w1.runq
          /\ IF w1.state = "ERROR" /\ w1.hit
             THEN w.max = w1.max + mode.delta /\ ~w.hit
             ELSE w.max = w1.max /\ w.hit = w1.hit
      BY <1>7, <3>1, SetRunning DEF w
    <3>3. Took(c, e, w) /\ w.next > c.next
      BY <1>2, <1>3, <1>7, <3>2 DEF Took, Beside
    <3> QED
      BY <1>1, <1>2, <1>5, <1>7, <2>2, <3>2, <3>3
      DEF Recalls, Extended, Level, Tells, Beside
  <2> QED
    BY <2>1, <2>2
<1> QED
  BY <1>4, <1>8 DEF Handled, w0, e

(* A question, or the end of the task.                                     *)
LEMMA RestFacts ==
    ASSUME NEW c \in World, c.ctlq # <<>>,
           Head(c.ctlq).kind \in {"Question", "Finish", "Reject"}, NEW s \in Rest
    PROVE  Handled(c, Head(c.ctlq), SetState(Taken(c), s))
<1> DEFINE e == Head(c.ctlq)
           w0 == Taken(c)
           w == SetState(w0, s)
<1>1. e \in Event /\ e.kind \in {"Question", "Finish", "Reject"} /\ e.kind \notin Observation
  <2>1. c.ctlq \in Seq(Event)
    BY DEF World
  <2> QED
    BY <2>1, ElemsHead DEF Observation
<1>2. /\ w0 \in World /\ w0.ctlq = Tail(c.ctlq) /\ w0.runq = c.runq
      /\ w0.memq = c.memq /\ w0.cliq = c.cliq
      /\ w0.state = c.state /\ w0.pending = c.pending
      /\ w0.iter = c.iter /\ w0.alerts = c.alerts /\ w0.unsent = c.unsent
      /\ w0.next = c.next /\ w0.max = c.max /\ w0.hit = c.hit
      /\ w0.observed = c.observed
  BY <1>1, TakenFacts
<1>3. c.next \in Nat
  BY DEF World
<1> HIDE DEF w0, e, w
<1>4. CASE s = c.state
  <2>1. w = w0
    BY <1>2, <1>4 DEF SetState, w
  <2>2. Took(c, e, w)
    BY <1>2, <1>3, <2>1 DEF Took
  <2>3. Ignores(c, e, w)
    BY <1>1, <1>2, <1>4, <2>1 DEF Ignores, Level, Queues
  <2> QED
    BY <2>2, <2>3 DEF Handled, w, w0, e
<1>5. CASE s # c.state
  <2>1. s \in AgentState /\ s # w0.state /\ s \notin Answer \cup {"STOPPED", "ERROR", "RUNNING"}
    BY <1>2, <1>5 DEF Answer, AgentState, Rest
  <2>2. /\ w \in World /\ Beside(w, w0) /\ Tells(w, w0, s) /\ w.state = s
        /\ w.max = w0.max /\ w.hit = w0.hit
        /\ w.pending = w0.pending /\ w.next = w0.next + 1
        /\ w.ctlq = w0.ctlq /\ w.runq = w0.runq
    BY <1>2, <2>1, SetOther DEF w
  <2>3. Took(c, e, w)
    BY <1>2, <1>3, <2>2 DEF Took, Beside
  <2>4. Enters(c, e, w)
    BY <1>1, <1>2, <2>2 DEF Enters, Level, Queues, Tells, Beside
  <2> QED
    BY <2>3, <2>4 DEF Handled, w, w0, e
<1> QED
  BY <1>4, <1>5

(* An observation.                                                         *)
LEMMA ObservationFacts ==
    ASSUME NEW c \in World, mode \in Modes, c.ctlq # <<>>,
           Head(c.ctlq).kind \in Observation
    PROVE  Handled(c, Head(c.ctlq), HandleObservation(Taken(c), Head(c.ctlq)))
<1> DEFINE e == Head(c.ctlq)
           w0 == Taken(c)
           w1 == [w0 EXCEPT !.pending = NoEvent]
           w == HandleObservation(w0, e)
           ignored == \/ w0.pending = NoEvent
                      \/ w0.pending.id # e.cause
                      \/ w0.state = "AWAITING_USER_CONFIRMATION"
<1>1. e \in Event /\ e.kind \in Observation
  <2>1. c.ctlq \in Seq(Event)
    BY DEF World
  <2> QED
    BY <2>1, ElemsHead
<1>2. /\ w0 \in World /\ w0.ctlq = Tail(c.ctlq) /\ w0.runq = c.runq
      /\ w0.memq = c.memq /\ w0.cliq = c.cliq
      /\ w0.state = c.state /\ w0.pending = c.pending
      /\ w0.iter = c.iter /\ w0.alerts = c.alerts /\ w0.unsent = c.unsent
      /\ w0.next = c.next /\ w0.max = c.max /\ w0.hit = c.hit
  BY <1>1, TakenFacts
<1>3. c.next \in Nat
  BY DEF World
<1>4. ignored => w = w0
  BY DEF HandleObservation
<1>5. ~ignored =>
         w = CASE w0.state = "USER_CONFIRMED" -> SetState(w1, "RUNNING")
               [] w0.state = "USER_REJECTED" -> SetState(w1, "AWAITING_USER_INPUT")
               [] OTHER -> w1
  BY DEF HandleObservation
<1> HIDE DEF w0, e, w
<1>6. /\ w1 \in World /\ w1.ctlq = Tail(c.ctlq) /\ w1.runq = c.runq
      /\ w1.memq = c.memq /\ w1.cliq = c.cliq
      /\ w1.state = c.state /\ w1.pending = NoEvent
      /\ w1.iter = c.iter /\ w1.alerts = c.alerts /\ w1.unsent = c.unsent
      /\ w1.next = c.next /\ w1.max = c.max /\ w1.hit = c.hit
  BY <1>2, EventType DEF World
<1> HIDE DEF w1
<1>7. CASE ignored
  <2>1. w = w0
    BY <1>4, <1>7
  <2>2. Took(c, e, w)
    BY <1>1, <1>2, <1>3, <2>1 DEF Took
  <2>3. e.kind \notin {"UserMessage", "ChangeState", "Question", "Finish", "Reject"}
    BY <1>1 DEF Observation
  <2>4. Ignores(c, e, w)
    BY <1>1, <1>2, <1>7, <2>1, <2>3 DEF Ignores, Level, Queues
  <2> QED
    BY <2>2, <2>4 DEF Handled, w, w0, e
<1>8. CASE ~ignored /\ c.state \notin Answer
  <2>1. w = w1
    BY <1>2, <1>5, <1>8 DEF Answer
  <2>2. Took(c, e, w)
    BY <1>1, <1>3, <1>6, <2>1 DEF Took
  <2>3. Settles(c, e, w)
    BY <1>1, <1>2, <1>6, <1>8, <2>1 DEF Settles, Level, Queues
  <2> QED
    BY <2>2, <2>3 DEF Handled, w, w0, e
<1>9. CASE ~ignored /\ c.state = "USER_CONFIRMED"
  <2>1. w = SetState(w1, "RUNNING") /\ w1.state # "RUNNING" /\ w1.state # "ERROR"
    BY <1>2, <1>5, <1>6, <1>9
  <2>2. /\ w \in World /\ Beside(w, w1) /\ Tells(w, w1, "RUNNING") /\ w.state = "RUNNING"
        /\ w.pending = w1.pending /\ w.next = w1.next + 1
        /\ w.ctlq = w1.ctlq /\ w.runq = w1.runq
        /\ w.max = w1.max /\ w.hit = w1.hit
    BY <1>6, <2>1, SetRunning
  <2>3. Took(c, e, w)
    BY <1>1, <1>3, <1>6, <2>2 DEF Took, Beside
  <2>4. Resumes(c, e, w)
    BY <1>1, <1>6, <1>9, <2>2 DEF Resumes, Level, Queues, Beside, Tells, Answer
  <2> QED
    BY <2>3, <2>4 DEF Handled, w, w0, e
<1>10. CASE ~ignored /\ c.state = "USER_REJECTED"
  <2> DEFINE s == "AWAITING_USER_INPUT"
  <2>1. w = SetState(w1, s)
    BY <1>2, <1>5, <1>10
  <2>2. /\ w1.state # s /\ s \in AgentState
        /\ s \notin Answer \cup {"STOPPED", "ERROR", "RUNNING"} /\ s \in Rest
    BY <1>6, <1>10 DEF AgentState, Answer, Rest
  <2>3. /\ w \in World /\ Beside(w, w1) /\ Tells(w, w1, s) /\ w.state = s
        /\ w.pending = w1.pending /\ w.next = w1.next + 1
        /\ w.ctlq = w1.ctlq /\ w.runq = w1.runq
        /\ w.max = w1.max /\ w.hit = w1.hit
    BY <1>6, <2>1, <2>2, SetOther
  <2>4. Took(c, e, w)
    BY <1>1, <1>3, <1>6, <2>3 DEF Took, Beside
  <2>5. Resumes(c, e, w)
    BY <1>1, <1>6, <1>10, <2>3 DEF Resumes, Level, Queues, Beside, Tells, Answer
  <2> QED
    BY <2>4, <2>5 DEF Handled, w, w0, e
<1> QED
  BY <1>7, <1>8, <1>9, <1>10 DEF Answer
LEMMA HandledFacts ==
    ASSUME NEW c \in World, mode \in Modes, Routed(c), c.ctlq # <<>>
    PROVE  Handled(c, Head(c.ctlq), Handle([c EXCEPT !.ctlq = Tail(c.ctlq)], Head(c.ctlq)))
<1> DEFINE e == Head(c.ctlq)
           w == Handle([c EXCEPT !.ctlq = Tail(c.ctlq)], e)
           w0 == Taken(c)
<1>1. e.kind \in CtlKind
  <2>1. c.ctlq \in Seq(Event)
    BY DEF World
  <2> QED
    BY <2>1, ElemsHead DEF Routed
<1>2. w = CASE e.kind = "ChangeState" -> SetState(w0, e.to)
            [] e.kind = "UserMessage" -> HandleUserMessage(w0)
            [] e.kind = "Question" -> SetState(w0, "AWAITING_USER_INPUT")
            [] e.kind = "Finish" -> SetState(w0, "FINISHED")
            [] e.kind = "Reject" -> SetState(w0, "REJECTED")
            [] e.kind \in Observation -> HandleObservation(w0, e)
            [] OTHER -> w0
  BY DEF Handle, Taken
<1> HIDE DEF w
<1>3. CASE e.kind = "ChangeState"
  <2>1. w = SetState(w0, e.to)
    BY <1>2, <1>3 DEF Observation
  <2>2. Handled(c, e, SetState(w0, e.to))
    BY <1>3, HandleChangeState
  <2> QED
    BY <2>1, <2>2 DEF w
<1>4. CASE e.kind = "UserMessage"
  <2>1. w = HandleUserMessage(w0)
    BY <1>2, <1>4 DEF Observation
  <2>2. Handled(c, e, HandleUserMessage(w0))
    BY <1>4, UserMessageFacts
  <2> QED
    BY <2>1, <2>2 DEF w
<1>5. CASE e.kind = "Question"
  <2>1. w = SetState(w0, "AWAITING_USER_INPUT")
    BY <1>2, <1>5 DEF Observation
  <2>2. Handled(c, e, SetState(w0, "AWAITING_USER_INPUT"))
    BY <1>5, RestFacts DEF Rest
  <2> QED
    BY <2>1, <2>2 DEF w
<1>6. CASE e.kind = "Finish"
  <2>1. w = SetState(w0, "FINISHED")
    BY <1>2, <1>6 DEF Observation
  <2>2. Handled(c, e, SetState(w0, "FINISHED"))
    BY <1>6, RestFacts DEF Rest
  <2> QED
    BY <2>1, <2>2 DEF w
<1>7. CASE e.kind = "Reject"
  <2>1. w = SetState(w0, "REJECTED")
    BY <1>2, <1>7 DEF Observation
  <2>2. Handled(c, e, SetState(w0, "REJECTED"))
    BY <1>7, RestFacts DEF Rest
  <2> QED
    BY <2>1, <2>2 DEF w
<1>8. CASE e.kind \in Observation
  <2>1. w = HandleObservation(w0, e)
    BY <1>2, <1>8 DEF Observation
  <2>2. Handled(c, e, HandleObservation(w0, e))
    BY <1>8, ObservationFacts
  <2> QED
    BY <2>1, <2>2 DEF w
<1>9. CASE e.kind \in {"AgentMessage", "Condense"}
  <2>1. /\ w = w0 /\ e.kind \notin Observation
        /\ e.kind \notin {"UserMessage", "ChangeState", "Question", "Finish", "Reject"}
    BY <1>2, <1>9 DEF Observation
  <2>2. c.next \in Nat
    BY DEF World
  <2>3. /\ w0 \in World /\ w0.ctlq = Tail(c.ctlq) /\ w0.runq = c.runq
        /\ w0.memq = c.memq /\ w0.cliq = c.cliq
        /\ w0.state = c.state /\ w0.pending = c.pending
        /\ w0.iter = c.iter /\ w0.alerts = c.alerts /\ w0.unsent = c.unsent
        /\ w0.next = c.next /\ w0.max = c.max /\ w0.hit = c.hit
        /\ w0.observed = c.observed
    BY <2>1, TakenFacts
  <2>4. Took(c, e, w)
    BY <2>1, <2>2, <2>3 DEF Took
  <2>5. Ignores(c, e, w)
    BY <2>1, <2>3 DEF Ignores, Level, Queues
  <2> QED
    BY <2>4, <2>5 DEF Handled, w
<1> QED
  BY <1>1, <1>3, <1>4, <1>5, <1>6, <1>7, <1>8, <1>9 DEF CtlKind, Observation

(* After the handler: nothing, or a step that fails or calls the LLM.      *)
Beyond(w, x) ==
    /\ x \in World /\ x.max = w.max /\ x.pending = w.pending /\ x.observed = w.observed
    /\ x.next >= w.next /\ x.ctlq = w.ctlq /\ x.runq = w.runq /\ x.memq = w.memq
Reacts(w, x) ==
    /\ Beyond(w, x) /\ x.iter = w.iter /\ x.alerts = w.alerts + 1
    /\ x.unsent = w.unsent
    /\ x.state = "ERROR" /\ Tells(x, w, "ERROR")
    /\ x.hit = w.hit \/ w.iter >= w.max
Calls(w, x) ==
    /\ Beyond(w, x) /\ x.iter = w.iter + 1 /\ w.iter < w.max /\ ~x.hit
    /\ x.alerts = w.alerts /\ x.unsent = w.unsent /\ x.state = w.state /\ x.cliq = w.cliq

LEMMA ReactFacts ==
    ASSUME NEW w \in World, w.state # "ERROR", w.pending = NoEvent,
           NEW h \in BOOLEAN, h = w.hit \/ w.iter >= w.max
    PROVE  Reacts(w, React([w EXCEPT !.hit = h]))
<1> DEFINE w1 == [[w EXCEPT !.hit = h] EXCEPT !.alerts = @ + 1]
           x == SetState(w1, "ERROR")
<1>1. /\ w1 \in World /\ w1.hit = h /\ w1.alerts = w.alerts + 1
      /\ w1.unsent = w.unsent
      /\ w1.ctlq = w.ctlq /\ w1.runq = w.runq
      /\ w1.memq = w.memq /\ w1.cliq = w.cliq
      /\ w1.state = w.state /\ w1.pending = w.pending
      /\ w1.iter = w.iter /\ w1.observed = w.observed
      /\ w1.next = w.next /\ w1.max = w.max
  <2> DEFINE w0 == [w EXCEPT !.hit = h]
  <2>1. /\ w0 \in World /\ w0.hit = h /\ w0.alerts = w.alerts /\ w0.unsent = w.unsent
        /\ w0.ctlq = w.ctlq /\ w0.runq = w.runq
        /\ w0.memq = w.memq /\ w0.cliq = w.cliq
        /\ w0.state = w.state /\ w0.pending = w.pending
        /\ w0.iter = w.iter /\ w0.observed = w.observed
        /\ w0.next = w.next /\ w0.max = w.max
    BY DEF World
  <2> HIDE DEF w0
  <2>2. w1 = [w0 EXCEPT !.alerts = w0.alerts + 1] /\ w0.alerts + 1 \in Nat
    BY <2>1 DEF w0, World
  <2> QED
    BY <2>1, <2>2 DEF World
<1>2. React([w EXCEPT !.hit = h]) = x
  BY DEF React
<1> HIDE DEF w1
<1>3. "ERROR" # w1.state /\ ~Unanswered(w1) /\ w.next \in Nat
  BY <1>1 DEF Unanswered, World
<1>4. /\ x \in World /\ Beside(x, w1) /\ Tells(x, w1, "ERROR") /\ x.state = "ERROR"
      /\ x.max = w1.max /\ x.hit = w1.hit
      /\ x.pending = NoEvent /\ x.next > w1.next /\ x.runq = w1.runq
      /\ x.ctlq = w1.ctlq
  BY <1>1, <1>3, SetReset
<1> HIDE DEF x
<1>5. x.next >= w.next
  BY <1>1, <1>3, <1>4 DEF World
<1> QED
  BY <1>1, <1>2, <1>4, <1>5 DEF Reacts, Beyond, Beside, Tells

LEMMA HandleEventCases ==
    ASSUME TypeOK, Routed(ctl), HandleEvent
    PROVE  /\ ~busy /\ ctl.ctlq # <<>> /\ Head(ctl.ctlq) \in Event
           /\ Head(ctl.ctlq) \in Elems(ctl.ctlq)
           /\ \E w \in World :
                 /\ Handled(ctl, Head(ctl.ctlq), w)
                 /\ \/ ~MayStep(w, Head(ctl.ctlq)) /\ ctl' = w /\ busy' = FALSE
                    \/ MayStep(w, Head(ctl.ctlq)) /\ Reacts(w, ctl') /\ busy' = FALSE
                    \/ MayStep(w, Head(ctl.ctlq)) /\ Calls(w, ctl') /\ busy' = TRUE
<1> DEFINE e == Head(ctl.ctlq)
           w == Handle([ctl EXCEPT !.ctlq = Tail(ctl.ctlq)], e)
<1>1. ctl \in World /\ mode \in Modes /\ ctl.ctlq \in Seq(Event)
  BY DEF TypeOK, World
<1>2. ~busy /\ ctl.ctlq # <<>>
  BY DEF HandleEvent
<1>3. e \in Event /\ e \in Elems(ctl.ctlq)
  BY <1>1, <1>2, ElemsHead
<1>4. Handled(ctl, e, w)
  BY <1>1, <1>2, HandledFacts
<1>5. \/ ~MayStep(w, e) /\ ctl' = w /\ busy' = FALSE
      \/ /\ MayStep(w, e) /\ w.iter >= w.max
         /\ ctl' = React([w EXCEPT !.hit = TRUE]) /\ busy' = FALSE
      \/ /\ MayStep(w, e) /\ w.iter < w.max
         /\ ctl' = [w EXCEPT !.iter = w.iter + 1, !.hit = FALSE] /\ busy' = TRUE
      \/ MayStep(w, e) /\ ctl' = React(w) /\ busy' = FALSE
  BY DEF HandleEvent
<1> HIDE DEF w, e
<1>6. w \in World
  BY <1>4 DEF Handled, Took
<1>7. CASE /\ MayStep(w, e) /\ w.iter >= w.max
           /\ ctl' = React([w EXCEPT !.hit = TRUE]) /\ busy' = FALSE
  <2>1. w.state # "ERROR" /\ w.pending = NoEvent
    BY <1>7 DEF MayStep
  <2>2. Reacts(w, ctl')
    BY <1>6, <1>7, <2>1, ReactFacts
  <2> QED
    BY <1>2, <1>3, <1>4, <1>6, <1>7, <2>2 DEF e
<1>8. CASE /\ MayStep(w, e) /\ w.iter < w.max
           /\ ctl' = [w EXCEPT !.iter = w.iter + 1, !.hit = FALSE] /\ busy' = TRUE
  <2>1. /\ ctl' \in World /\ ctl'.iter = w.iter + 1 /\ ~ctl'.hit
        /\ ctl'.alerts = w.alerts /\ ctl'.unsent = w.unsent /\ ctl'.state = w.state /\ ctl'.cliq = w.cliq
        /\ ctl'.max = w.max /\ ctl'.pending = w.pending /\ ctl'.observed = w.observed
        /\ ctl'.next >= w.next /\ ctl'.ctlq = w.ctlq /\ ctl'.runq = w.runq
        /\ ctl'.memq = w.memq
    <3> DEFINE x == [w EXCEPT !.iter = w.iter + 1, !.hit = FALSE]
    <3>1. w.iter + 1 \in Nat /\ w.next \in Nat /\ w.next >= w.next
      BY <1>6 DEF World
    <3>2. x \in World /\ x.iter = w.iter + 1 /\ x.hit = FALSE
      BY <1>6, <3>1 DEF World
    <3>3. /\ x.alerts = w.alerts /\ x.unsent = w.unsent /\ x.state = w.state /\ x.cliq = w.cliq
          /\ x.max = w.max /\ x.pending = w.pending /\ x.observed = w.observed
          /\ x.next = w.next /\ x.ctlq = w.ctlq /\ x.runq = w.runq /\ x.memq = w.memq
      BY <1>6 DEF World
    <3>4. ctl' = x
      BY <1>8
    <3> HIDE DEF x
    <3> QED
      BY <3>1, <3>2, <3>3, <3>4
  <2>2. Calls(w, ctl')
    BY <1>8, <2>1 DEF Calls, Beyond
  <2> QED
    BY <1>2, <1>3, <1>4, <1>6, <1>8, <2>2 DEF e
<1>9. CASE MayStep(w, e) /\ ctl' = React(w) /\ busy' = FALSE
  <2>1. w.state # "ERROR" /\ w.pending = NoEvent
    BY <1>9 DEF MayStep
  <2>2. w = [w EXCEPT !.hit = w.hit] /\ w.hit \in BOOLEAN
    BY <1>6 DEF World
  <2>3. Reacts(w, ctl')
    BY <1>6, <1>9, <2>1, <2>2, ReactFacts
  <2> QED
    BY <1>2, <1>3, <1>4, <1>6, <1>9, <2>3 DEF e
<1> QED
  BY <1>2, <1>3, <1>4, <1>5, <1>6, <1>7, <1>8, <1>9 DEF e
(* ERROR, from a thread of its own or after a failed step; n alerts stay.  *)
Fails(c, x, n) ==
    /\ x \in World /\ x.iter = c.iter /\ x.max = c.max /\ x.hit = c.hit
    /\ x.observed = c.observed /\ x.runq = c.runq /\ x.memq = c.memq
    /\ x.alerts = n /\ x.unsent = c.unsent /\ x.state = "ERROR"
    /\ \/ /\ c.state = "ERROR" /\ x.pending = c.pending /\ x.ctlq = c.ctlq
          /\ x.cliq = c.cliq /\ x.next = c.next
       \/ /\ c.state # "ERROR" /\ x.pending = NoEvent /\ x.next > c.next
          /\ Tells(x, c, "ERROR")
          /\ IF Unanswered(c)
             THEN \E e \in Event : /\ e.kind = "NotRun" /\ e.id = c.next
                                   /\ x.ctlq = Append(c.ctlq, e)
             ELSE x.ctlq = c.ctlq

LEMMA FailsFacts ==
    ASSUME NEW c \in World, NEW n \in Nat
    PROVE  Fails(c, SetState([c EXCEPT !.alerts = n], "ERROR"), n)
<1> DEFINE w == [c EXCEPT !.alerts = n]
           x == SetState(w, "ERROR")
<1>1. /\ w \in World /\ w.hit = c.hit /\ w.alerts = n /\ w.unsent = c.unsent
      /\ w.ctlq = c.ctlq /\ w.runq = c.runq
      /\ w.memq = c.memq /\ w.cliq = c.cliq
      /\ w.state = c.state /\ w.pending = c.pending
      /\ w.iter = c.iter /\ w.observed = c.observed
      /\ w.next = c.next /\ w.max = c.max
  BY DEF World
<1>2. Unanswered(w) <=> Unanswered(c)
  BY <1>1 DEF Unanswered
<1> HIDE DEF w
<1>3. CASE c.state = "ERROR"
  <2>1. x = w
    BY <1>1, <1>3 DEF SetState
  <2> QED
    BY <1>1, <1>3, <2>1 DEF Fails, w
<1>4. CASE c.state # "ERROR"
  <2>1. "ERROR" # w.state
    BY <1>1, <1>4
  <2>2. /\ x \in World /\ Beside(x, w) /\ Tells(x, w, "ERROR") /\ x.state = "ERROR"
        /\ x.max = w.max /\ x.hit = w.hit
        /\ x.pending = NoEvent /\ x.next > w.next /\ x.runq = w.runq
        /\ ~Unanswered(w) => x.ctlq = w.ctlq
        /\ Unanswered(w) => \E e \in Event : /\ e.kind = "NotRun" /\ e.id = w.next
                                             /\ x.ctlq = Append(w.ctlq, e)
    BY <1>1, <2>1, SetReset
  <2> HIDE DEF x
  <2>3. Fails(c, x, n)
    BY <1>1, <1>2, <1>4, <2>2 DEF Fails, Beside, Tells
  <2> QED
    BY <2>3 DEF w, x
<1> QED
  BY <1>3, <1>4

(* A rate limit: the agent's own state, what is pending stays so.          *)
Pauses(c, x) ==
    /\ x \in World /\ x.iter = c.iter /\ x.max = c.max /\ x.hit = c.hit
    /\ x.observed = c.observed /\ x.runq = c.runq /\ x.memq = c.memq
    /\ x.alerts = c.alerts /\ x.unsent = c.unsent /\ x.state = "RATE_LIMITED" /\ x.pending = c.pending
    /\ x.next > c.next /\ x.ctlq = c.ctlq /\ Tells(x, c, "RATE_LIMITED")

LEMMA LLMFailsCases ==
    ASSUME TypeOK, busy => ctl.state # "RATE_LIMITED", LLMFails
    PROVE  \/ Pauses(ctl, ctl')
           \/ \E n \in {ctl.alerts, ctl.alerts + 1} : Fails(ctl, ctl', n)
<1>1. ctl \in World /\ ctl.alerts \in Nat /\ ctl.alerts + 1 \in Nat
  BY DEF TypeOK, World
<1>2. CASE ctl' = React(ctl)
  <2>1. ctl' = SetState([ctl EXCEPT !.alerts = ctl.alerts + 1], "ERROR")
    BY <1>2 DEF React
  <2> QED
    BY <1>1, <2>1, FailsFacts
<1>3. CASE ctl' = SetState(ctl, "ERROR")
  <2>1. ctl = [ctl EXCEPT !.alerts = ctl.alerts]
    BY <1>1 DEF World
  <2>2. Fails(ctl, SetState([ctl EXCEPT !.alerts = ctl.alerts], "ERROR"), ctl.alerts)
    BY <1>1, FailsFacts
  <2> QED
    BY <1>3, <2>1, <2>2
<1>4. CASE ctl' = SetState(ctl, "RATE_LIMITED")
  <2> DEFINE s == "RATE_LIMITED"
             x == SetState(ctl, s)
  <2>1. /\ s \in AgentState /\ s # ctl.state
        /\ s \notin Answer \cup {"STOPPED", "ERROR", "RUNNING"}
    BY DEF AgentState, Answer, LLMFails
  <2>2. /\ x \in World /\ Beside(x, ctl) /\ Tells(x, ctl, s) /\ x.state = s
        /\ x.max = ctl.max /\ x.hit = ctl.hit
        /\ x.pending = ctl.pending /\ x.next = ctl.next + 1
        /\ x.ctlq = ctl.ctlq /\ x.runq = ctl.runq
    BY <1>1, <2>1, SetOther
  <2> HIDE DEF x
  <2>3. x.next > ctl.next
    BY <1>1, <2>2 DEF World
  <2>4. Pauses(ctl, x)
    BY <2>2, <2>3 DEF Pauses, Beside
  <2> QED
    BY <1>4, <2>4 DEF x
<1> QED
  BY <1>2, <1>3, <1>4 DEF LLMFails

LEMMA AlertCases ==
    ASSUME TypeOK, Alert
    PROVE  ctl.alerts > 0 /\ Fails(ctl, ctl', ctl.alerts - 1)
<1>1. ctl \in World /\ ctl.alerts \in Nat /\ ctl.alerts > 0 /\ ctl.alerts - 1 \in Nat
  BY DEF TypeOK, World, Alert
<1>2. ctl' = SetState([ctl EXCEPT !.alerts = ctl.alerts - 1], "ERROR")
  BY DEF Alert
<1> QED
  BY <1>1, <1>2, FailsFacts

(* An action for the runtime: it is on its way, or held for the user.      *)
Asked(c, x) ==
    /\ x \in World /\ x.iter = c.iter /\ x.max = c.max /\ x.hit = c.hit
    /\ x.observed = c.observed /\ x.memq = c.memq /\ x.alerts = c.alerts /\ x.unsent = c.unsent
    /\ x.ctlq = c.ctlq /\ x.next > c.next
    /\ x.pending.kind = "Run" /\ x.pending.act = c.iter /\ x.pending.id >= c.next
    /\ x.pending.id < x.next
Sends(c, x) ==
    /\ Asked(c, x) /\ x.state = c.state /\ x.cliq = c.cliq
    /\ x.pending.conf = "none" /\ x.runq = Append(c.runq, x.pending)
Holds(c, x) ==
    /\ Asked(c, x) /\ x.state = "AWAITING_USER_CONFIRMATION" /\ x.runq = c.runq
    /\ x.pending.conf = "awaiting"
    /\ \E t \in Event : /\ t.kind = "StateIs" /\ t.to = x.state
                        /\ x.cliq = Append(Append(c.cliq, t), x.pending)

LEMMA AskRuntimeCases ==
    ASSUME TypeOK, busy => ctl.state # "AWAITING_USER_CONFIRMATION",
           NEW conf \in {"none", "awaiting"}, AskRuntime(conf)
    PROVE  IF conf = "none" THEN Sends(ctl, ctl') ELSE Holds(ctl, ctl') /\ mode.confirm
<1> DEFINE run == [About("Run", ctl.iter) EXCEPT !.conf = conf, !.id = ctl.next]
           w == [ctl EXCEPT !.pending = run]
           w1 == IF conf = "awaiting" THEN SetState(w, "AWAITING_USER_CONFIRMATION") ELSE w
           e == Numbering(w1, run)
           w2 == Emit(w1, run)
           x == [w2 EXCEPT !.pending = e]
<1>1. ctl \in World /\ ctl.iter \in Nat /\ ctl.next \in Nat
  BY DEF TypeOK, World
<1>2. run \in Event /\ run.kind = "Run" /\ run.act = ctl.iter /\ run.conf = conf
  <2> DEFINE a == About("Run", ctl.iter)
  <2>1. a \in Event /\ a.kind = "Run" /\ a.act = ctl.iter
    BY <1>1, EventType DEF Kind
  <2> HIDE DEF a
  <2>2. run = [a EXCEPT !.conf = conf, !.id = ctl.next]
    BY DEF a
  <2>3. conf \in Confirmation
    BY DEF Confirmation
  <2> HIDE DEF run
  <2> QED
    BY <1>1, <2>1, <2>2, <2>3 DEF Event
<1>3. ctl' = [w2 EXCEPT !.pending.id = w1.next]
  BY DEF AskRuntime
<1> HIDE DEF run
<1>4. /\ w \in World /\ w.hit = ctl.hit /\ w.alerts = ctl.alerts /\ w.unsent = ctl.unsent
      /\ w.ctlq = ctl.ctlq /\ w.runq = ctl.runq
      /\ w.memq = ctl.memq /\ w.cliq = ctl.cliq
      /\ w.state = ctl.state /\ w.pending = run
      /\ w.iter = ctl.iter /\ w.observed = ctl.observed
      /\ w.next = ctl.next /\ w.max = ctl.max
  BY <1>1, <1>2 DEF World
<1> HIDE DEF w
<1>5. /\ w1 \in World /\ Beside(w1, ctl) /\ w1.max = ctl.max /\ w1.hit = ctl.hit
      /\ w1.pending = run /\ w1.next >= ctl.next /\ w1.ctlq = ctl.ctlq /\ w1.runq = ctl.runq
      /\ IF conf = "none" THEN w1.cliq = ctl.cliq /\ w1.state = ctl.state
         ELSE Tells(w1, ctl, w1.state) /\ w1.state = "AWAITING_USER_CONFIRMATION"
  <2>1. CASE conf = "none"
    BY <1>1, <1>4, <2>1 DEF Beside
  <2>2. CASE conf = "awaiting"
    <3> DEFINE s == "AWAITING_USER_CONFIRMATION"
               y == SetState(w, s)
    <3>1. /\ s \in AgentState /\ s # w.state
          /\ s \notin Answer \cup {"STOPPED", "ERROR", "RUNNING"}
      BY <1>4 DEF AgentState, Answer, AskRuntime
    <3>2. /\ y \in World /\ Beside(y, w) /\ Tells(y, w, s) /\ y.state = s
          /\ y.max = w.max /\ y.hit = w.hit
          /\ y.pending = w.pending /\ y.next = w.next + 1
          /\ y.ctlq = w.ctlq /\ y.runq = w.runq
      BY <1>4, <3>1, SetOther
    <3>3. w1 = y
      BY <2>2
    <3> HIDE DEF y, w1
    <3>4. w1.next >= ctl.next
      BY <1>1, <1>4, <3>2, <3>3 DEF World
    <3> QED
      BY <1>4, <2>2, <3>2, <3>3, <3>4 DEF Beside, Tells
  <2> QED
    BY <2>1, <2>2
<1> HIDE DEF w1
<1>6. e \in Event /\ e.kind = "Run" /\ e.act = ctl.iter /\ e.conf = conf /\ e.id = w1.next
  BY <1>2, <1>5, NumberingType
<1>7. /\ w2 \in World /\ w2.next = w1.next + 1
      /\ w2.hit = w1.hit /\ w2.alerts = w1.alerts /\ w2.unsent = w1.unsent /\ w2.ctlq = w1.ctlq /\ w2.memq = w1.memq
      /\ w2.state = w1.state /\ w2.pending = w1.pending
      /\ w2.iter = w1.iter /\ w2.observed = w1.observed /\ w2.max = w1.max
      /\ IF conf = "none" THEN w2.cliq = w1.cliq /\ w2.runq = Append(w1.runq, e)
         ELSE w2.runq = w1.runq /\ w2.cliq = Append(w1.cliq, e)
  <2>1. CASE conf = "none"
    <3>1. w2 \in World /\ w2 = [w1 EXCEPT !.next = w1.next + 1, !.runq = Append(w1.runq, e)]
      BY <1>2, <1>5, <2>1, EmitToRuntime
    <3> HIDE DEF w2, e
    <3> QED
      BY <1>5, <2>1, <3>1 DEF World
  <2>2. CASE conf = "awaiting"
    <3>1. w2 \in World /\ w2 = [w1 EXCEPT !.next = w1.next + 1, !.cliq = Append(w1.cliq, e)]
      BY <1>2, <1>5, <2>2, EmitToClient
    <3> HIDE DEF w2, e
    <3> QED
      BY <1>5, <2>2, <3>1 DEF World
  <2> QED
    BY <2>1, <2>2
<1>8. ctl' = x
  <2>1. [w2.pending EXCEPT !.id = w1.next] = e
    BY <1>5, <1>7 DEF Numbering
  <2>2. ctl' = [w2 EXCEPT !.pending = [w2.pending EXCEPT !.id = w1.next]]
    BY <1>3
  <2> QED
    BY <2>1, <2>2
<1> HIDE DEF w2, e
<1>9. /\ x \in World /\ x.next = w2.next
      /\ x.hit = w2.hit /\ x.alerts = w2.alerts /\ x.unsent = w2.unsent /\ x.ctlq = w2.ctlq /\ x.memq = w2.memq
      /\ x.state = w2.state /\ x.pending = e /\ x.cliq = w2.cliq /\ x.runq = w2.runq
      /\ x.iter = w2.iter /\ x.observed = w2.observed /\ x.max = w2.max
  BY <1>6, <1>7 DEF World
<1> HIDE DEF x
<1>10. Asked(ctl, x)
  <2>1. w1.next \in Nat
    BY <1>5 DEF World
  <2>2. x.next > ctl.next /\ e.id >= ctl.next /\ e.id < x.next
    BY <1>1, <1>5, <1>6, <1>7, <1>9, <2>1
  <2> QED
    BY <1>5, <1>6, <1>7, <1>9, <2>2 DEF Asked, Beside
<1>11. CASE conf = "none"
  BY <1>5, <1>6, <1>7, <1>8, <1>9, <1>10, <1>11 DEF Sends
<1>12. CASE conf = "awaiting"
  <2>1. mode.confirm
    BY <1>12 DEF AskRuntime
  <2> QED
    BY <1>5, <1>6, <1>7, <1>8, <1>9, <1>10, <1>12, <2>1 DEF Holds, Tells
<1> QED
  BY <1>11, <1>12
(***************************************************************************)
(* The other actions: the controller's own fields stay.                    *)
(***************************************************************************)
Beneath(c, x) ==
    /\ x \in World /\ x.state = c.state /\ x.iter = c.iter /\ x.max = c.max /\ x.hit = c.hit
    /\ x.pending = c.pending /\ x.observed = c.observed
Posts(c, x, e) ==
    /\ Beneath(c, x) /\ x.next = c.next + 1 /\ x.runq = c.runq /\ x.memq = c.memq
    /\ x.cliq = c.cliq /\ x.alerts = c.alerts /\ x.unsent = c.unsent
    /\ e \in Event /\ e.id = c.next /\ x.ctlq = Append(c.ctlq, e)

LEMMA PostsFacts ==
    ASSUME NEW c \in World, NEW e \in Event, e.kind \in CtlKind
    PROVE  Posts(c, Emit(c, e), Numbering(c, e))
<1> DEFINE n == Numbering(c, e)
           x == Emit(c, e)
<1>1. n \in Event /\ n.id = c.next
  BY NumberingType
<1>2. x \in World /\ x = [c EXCEPT !.next = c.next + 1, !.ctlq = Append(c.ctlq, n)]
  BY EmitToController
<1> HIDE DEF n, x
<1>3. Posts(c, x, n)
  BY <1>1, <1>2 DEF Posts, Beneath, World
<1> QED
  BY <1>3 DEF n, x

LEMMA SayCases ==
    ASSUME TypeOK, NEW k \in Kind, k \in CtlKind, Say(k)
    PROVE  \E e \in Event : Posts(ctl, ctl', e) /\ e.kind = k /\ e.cause = 0
<1> DEFINE e == Numbering(ctl, Ev(k))
<1>1. ctl \in World
  BY DEF TypeOK
<1>2. Ev(k) \in Event /\ Ev(k).kind = k /\ Ev(k).cause = 0
  BY EventType DEF Ev
<1>3. Posts(ctl, Emit(ctl, Ev(k)), e)
  BY <1>1, <1>2, PostsFacts
<1>4. ctl' = Emit(ctl, Ev(k))
  BY DEF Say
<1>5. e \in Event /\ e.kind = k /\ e.cause = 0
  BY <1>1, <1>2, NumberingType
<1> QED
  BY <1>3, <1>4, <1>5

LEMMA UserInputCases ==
    ASSUME TypeOK, NEW e0 \in Event, e0.kind \in CtlKind, UserInput(e0)
    PROVE  \E e \in Event : /\ Posts(ctl, ctl', e) /\ e.kind = e0.kind
                            /\ e.to = e0.to /\ e.act = e0.act
<1>1. ctl \in World
  BY DEF TypeOK
<1>2. Posts(ctl, Emit(ctl, e0), Numbering(ctl, e0))
  BY <1>1, PostsFacts
<1>3. ctl' = Emit(ctl, e0)
  BY DEF UserInput
<1> QED
  BY <1>1, <1>2, <1>3, NumberingType

LEMMA FinishActionCases ==
    ASSUME TypeOK, FinishAction
    PROVE  \E e \in Event : /\ Posts(ctl, ctl', e) /\ e.kind = "Result"
                            /\ e.cause = running.id
<1> DEFINE a == About("Result", running.act)
           r == [a EXCEPT !.cause = running.id]
<1>1. ctl \in World /\ running.act \in Nat /\ running.id \in Nat
  BY DEF TypeOK, Event
<1>2. a \in Event /\ a.kind = "Result"
  BY <1>1, EventType DEF Kind
<1>3. ctl' = Emit(ctl, r)
  BY DEF FinishAction
<1> HIDE DEF a
<1>4. r \in Event /\ r.kind = "Result" /\ r.kind \in CtlKind /\ r.cause = running.id
  BY <1>1, <1>2 DEF Event, CtlKind
<1> HIDE DEF r
<1>5. Posts(ctl, Emit(ctl, r), Numbering(ctl, r))
  BY <1>1, <1>4, PostsFacts
<1> QED
  BY <1>1, <1>3, <1>4, <1>5, NumberingType

LEMMA ThinkCases ==
    ASSUME TypeOK, Think
    PROVE  /\ Beneath(ctl, ctl') /\ ctl'.next = ctl.next + 1
           /\ ctl'.ctlq = ctl.ctlq /\ ctl'.memq = ctl.memq
           /\ ctl'.cliq = ctl.cliq /\ ctl'.alerts = ctl.alerts /\ ctl'.unsent = ctl.unsent
           /\ \E e \in Event : /\ e.kind = "Think" /\ e.act = ctl.iter /\ e.conf = "none"
                               /\ ctl'.runq = Append(ctl.runq, e)
<1> DEFINE a == About("Think", ctl.iter)
           e == Numbering(ctl, a)
           x == Emit(ctl, a)
<1>1. ctl \in World /\ ctl.iter \in Nat
  BY DEF TypeOK, World
<1>2. a \in Event /\ a.kind = "Think" /\ a.act = ctl.iter /\ a.conf = "none"
  BY <1>1, EventType DEF Kind
<1>3. ctl' = x
  BY DEF Think
<1> HIDE DEF a
<1>4. e \in Event /\ e.kind = "Think" /\ e.act = ctl.iter /\ e.conf = "none"
  BY <1>1, <1>2, NumberingType
<1>5. x \in World /\ x = [ctl EXCEPT !.next = ctl.next + 1, !.runq = Append(ctl.runq, e)]
  BY <1>1, <1>2, EmitToRuntime
<1> HIDE DEF x, e
<1>6. /\ x.state = ctl.state /\ x.iter = ctl.iter /\ x.max = ctl.max /\ x.hit = ctl.hit
      /\ x.pending = ctl.pending /\ x.observed = ctl.observed /\ x.next = ctl.next + 1
      /\ x.ctlq = ctl.ctlq /\ x.memq = ctl.memq /\ x.cliq = ctl.cliq
      /\ x.alerts = ctl.alerts /\ x.unsent = ctl.unsent /\ x.runq = Append(ctl.runq, e)
  BY <1>1, <1>5 DEF World
<1> QED
  BY <1>3, <1>4, <1>5, <1>6 DEF Beneath

LEMMA StartActionCases ==
    ASSUME TypeOK, StartAction
    PROVE  /\ running = NoEvent /\ ctl.runq # <<>> /\ running' = Head(ctl.runq)
           /\ running' \in Event /\ running' \in Elems(ctl.runq) /\ running'.act \in Nat
           /\ Beneath(ctl, ctl') /\ ctl'.next = ctl.next
           /\ ctl'.ctlq = ctl.ctlq /\ ctl'.memq = ctl.memq /\ ctl'.runq = Tail(ctl.runq)
           /\ ctl'.cliq = ctl.cliq /\ ctl'.alerts = ctl.alerts /\ ctl'.unsent = ctl.unsent
<1>1. ctl \in World /\ ctl.runq \in Seq(Event)
  BY DEF TypeOK, World
<1>2. running = NoEvent /\ ctl.runq # <<>> /\ running' = Head(ctl.runq)
  BY DEF StartAction
<1>3. /\ Head(ctl.runq) \in Event /\ Head(ctl.runq) \in Elems(ctl.runq)
      /\ Tail(ctl.runq) \in Seq(Event)
  BY <1>1, <1>2, ElemsHead
<1>4. running'.act \in Nat
  BY <1>2, <1>3 DEF Event
<1> DEFINE x == [ctl EXCEPT !.runq = Tail(ctl.runq)]
<1>5. /\ x \in World /\ x.state = ctl.state /\ x.iter = ctl.iter /\ x.max = ctl.max
      /\ x.hit = ctl.hit /\ x.pending = ctl.pending /\ x.observed = ctl.observed
      /\ x.next = ctl.next /\ x.ctlq = ctl.ctlq /\ x.memq = ctl.memq /\ x.cliq = ctl.cliq
      /\ x.alerts = ctl.alerts /\ x.unsent = ctl.unsent /\ x.runq = Tail(ctl.runq)
  BY <1>1, <1>3 DEF World
<1>6. ctl' = x
  BY DEF StartAction
<1> QED
  BY <1>2, <1>3, <1>4, <1>5, <1>6 DEF Beneath

LEMMA FailActionCases ==
    ASSUME TypeOK, FailAction
    PROVE  /\ Beneath(ctl, ctl') /\ ctl'.next = ctl.next
           /\ ctl'.ctlq = ctl.ctlq /\ ctl'.memq = ctl.memq /\ ctl'.runq = ctl.runq
           /\ ctl'.cliq = ctl.cliq /\ ctl'.alerts = ctl.alerts + 1
           /\ ctl'.unsent = ctl.unsent
<1> DEFINE x == [ctl EXCEPT !.alerts = ctl.alerts + 1]
<1>1. ctl \in World /\ ctl.alerts + 1 \in Nat
  BY DEF TypeOK, World
<1>2. /\ x \in World /\ x.state = ctl.state /\ x.iter = ctl.iter /\ x.max = ctl.max
      /\ x.hit = ctl.hit /\ x.pending = ctl.pending /\ x.observed = ctl.observed
      /\ x.next = ctl.next /\ x.ctlq = ctl.ctlq /\ x.memq = ctl.memq /\ x.cliq = ctl.cliq
      /\ x.alerts = ctl.alerts + 1 /\ x.runq = ctl.runq /\ x.unsent = ctl.unsent
  BY <1>1 DEF World
<1>3. ctl' = x
  BY DEF FailAction
<1> QED
  BY <1>2, <1>3 DEF Beneath

LEMMA AnswerRecallCases ==
    ASSUME TypeOK, AnswerRecall
    PROVE  /\ ctl.memq # <<>> /\ Head(ctl.memq) \in Elems(ctl.memq)
           /\ ctl.unsent = 0 /\ ctl'.alerts = ctl.alerts
           /\ Beneath(ctl, ctl') /\ ctl'.memq = Tail(ctl.memq)
           /\ ctl'.runq = ctl.runq /\ ctl'.cliq = ctl.cliq /\ ctl'.next >= ctl.next
           /\ \/ /\ ctl'.unsent = 0
                 /\ \E e \in Event : /\ e.kind \in {"Recalled", "Nothing"}
                                     /\ e.cause = Head(ctl.memq).id /\ e.id = ctl.next
                                     /\ ctl'.next = ctl.next + 1
                                     /\ ctl'.ctlq = Append(ctl.ctlq, e)
              \/ /\ mode.fail /\ ctl'.unsent = Head(ctl.memq).id
                 /\ ctl'.next = ctl.next /\ ctl'.ctlq = ctl.ctlq
              \/ /\ Head(ctl.memq).conf # "none" /\ ctl'.unsent = 0
                 /\ ctl'.next = ctl.next /\ ctl'.ctlq = ctl.ctlq
<1> DEFINE r == Head(ctl.memq)
           w == [ctl EXCEPT !.memq = Tail(ctl.memq)]
           v == [w EXCEPT !.unsent = r.id]
<1>1. ctl \in World /\ ctl.memq \in Seq(Event) /\ ctl.next \in Nat /\ ctl.alerts \in Nat
  BY DEF TypeOK, World
<1>2. ctl.memq # <<>> /\ ctl.unsent = 0
  BY DEF AnswerRecall
<1>3. r \in Event /\ r \in Elems(ctl.memq) /\ Tail(ctl.memq) \in Seq(Event)
  BY <1>1, <1>2, ElemsHead
<1>4. /\ w \in World /\ w.state = ctl.state /\ w.iter = ctl.iter /\ w.max = ctl.max
      /\ w.hit = ctl.hit /\ w.pending = ctl.pending /\ w.observed = ctl.observed
      /\ w.next = ctl.next /\ w.ctlq = ctl.ctlq /\ w.memq = Tail(ctl.memq)
      /\ w.cliq = ctl.cliq /\ w.alerts = ctl.alerts /\ w.runq = ctl.runq
      /\ w.unsent = ctl.unsent
  BY <1>1, <1>3 DEF World
<1>5. \/ \E k \in {"Recalled", "Nothing"} : ctl' = Emit(w, [Ev(k) EXCEPT !.cause = r.id])
      \/ mode.fail /\ ctl' = v
      \/ r.conf # "none" /\ ctl' = w
  BY DEF AnswerRecall
<1>6. r.id \in Nat
  BY <1>3 DEF Event
<1> HIDE DEF r, w
<1>7. CASE \E k \in {"Recalled", "Nothing"} : ctl' = Emit(w, [Ev(k) EXCEPT !.cause = r.id])
  <2>1. PICK k \in {"Recalled", "Nothing"} : ctl' = Emit(w, [Ev(k) EXCEPT !.cause = r.id])
    BY <1>7
  <2>2. Ev(k) \in Event /\ Ev(k).kind = k
    BY EventType DEF Kind
  <2> DEFINE e == [Ev(k) EXCEPT !.cause = r.id]
  <2>3. e \in Event /\ e.kind = k /\ e.kind \in CtlKind /\ e.cause = r.id
    BY <1>6, <2>2 DEF Event, CtlKind
  <2> HIDE DEF e
  <2>4. Posts(w, Emit(w, e), Numbering(w, e))
    BY <1>4, <2>3, PostsFacts
  <2>5. /\ Numbering(w, e) \in Event /\ Numbering(w, e).kind = k
        /\ Numbering(w, e).cause = r.id
    BY <1>4, <2>3, NumberingType
  <2>6. ctl' = Emit(w, e)
    BY <2>1 DEF e
  <2> QED
    BY <1>1, <1>2, <1>3, <1>4, <2>4, <2>5, <2>6 DEF Posts, Beneath, r
<1>8. CASE mode.fail /\ ctl' = v
  <2>1. /\ v \in World /\ v.state = w.state /\ v.iter = w.iter /\ v.max = w.max
        /\ v.hit = w.hit /\ v.pending = w.pending /\ v.observed = w.observed
        /\ v.next = w.next /\ v.ctlq = w.ctlq /\ v.memq = w.memq
        /\ v.cliq = w.cliq /\ v.alerts = w.alerts /\ v.runq = w.runq
        /\ v.unsent = r.id
    BY <1>4, <1>6 DEF World
  <2> HIDE DEF v
  <2> QED
    BY <1>1, <1>2, <1>3, <1>4, <1>8, <2>1 DEF Beneath, r
<1>9. CASE r.conf # "none" /\ ctl' = w
  BY <1>1, <1>2, <1>3, <1>4, <1>9 DEF Beneath, r
<1> QED
  BY <1>5, <1>7, <1>8, <1>9

(* The report of a failed recall reaches the session loop.                 *)
LEMMA ReportFailureCases ==
    ASSUME TypeOK, ReportFailure
    PROVE  /\ Beneath(ctl, ctl') /\ ctl'.next = ctl.next
           /\ ctl'.ctlq = ctl.ctlq /\ ctl'.memq = ctl.memq /\ ctl'.runq = ctl.runq
           /\ ctl'.cliq = ctl.cliq /\ ctl'.alerts = ctl.alerts + 1
<1> DEFINE w == [ctl EXCEPT !.alerts = ctl.alerts + 1]
           x == [w EXCEPT !.unsent = 0]
<1>1. ctl \in World /\ ctl.alerts + 1 \in Nat
  BY DEF TypeOK, World
<1>2. /\ w \in World /\ w.state = ctl.state /\ w.iter = ctl.iter /\ w.max = ctl.max
      /\ w.hit = ctl.hit /\ w.pending = ctl.pending /\ w.observed = ctl.observed
      /\ w.next = ctl.next /\ w.ctlq = ctl.ctlq /\ w.memq = ctl.memq /\ w.cliq = ctl.cliq
      /\ w.alerts = ctl.alerts + 1 /\ w.runq = ctl.runq
  BY <1>1 DEF World
<1>3. ctl' = x
  BY DEF ReportFailure
<1> HIDE DEF w
<1>4. /\ x \in World /\ x.state = w.state /\ x.iter = w.iter /\ x.max = w.max
      /\ x.hit = w.hit /\ x.pending = w.pending /\ x.observed = w.observed
      /\ x.next = w.next /\ x.ctlq = w.ctlq /\ x.memq = w.memq /\ x.cliq = w.cliq
      /\ x.alerts = w.alerts /\ x.runq = w.runq
  BY <1>2 DEF World
<1> QED
  BY <1>2, <1>3, <1>4 DEF Beneath

LEMMA ShowCases ==
    ASSUME TypeOK, Show
    PROVE  /\ ctl.cliq # <<>> /\ Head(ctl.cliq) \in Elems(ctl.cliq)
           /\ Head(ctl.cliq) \in Event
           /\ Beneath(ctl, ctl') /\ ctl'.next = ctl.next
           /\ ctl'.ctlq = ctl.ctlq /\ ctl'.memq = ctl.memq /\ ctl'.runq = ctl.runq
           /\ ctl'.cliq = Tail(ctl.cliq) /\ ctl'.alerts = ctl.alerts /\ ctl'.unsent = ctl.unsent
           /\ IF Head(ctl.cliq).kind = "StateIs"
              THEN view'.state = Head(ctl.cliq).to /\ view'.act = view.act
              ELSE view'.state = view.state /\ view'.act = Head(ctl.cliq).act
           /\ view' = [state |-> view'.state, act |-> view'.act]
<1> DEFINE x == [ctl EXCEPT !.cliq = Tail(ctl.cliq)]
           e == Head(ctl.cliq)
<1>1. ctl \in World /\ ctl.cliq \in Seq(Event) /\ view \in [state : AgentState, act : Nat]
  BY DEF TypeOK, World
<1>2. ctl.cliq # <<>> /\ ctl' = x
  BY DEF Show
<1>3. e \in Event /\ e \in Elems(ctl.cliq) /\ Tail(ctl.cliq) \in Seq(Event)
  BY <1>1, <1>2, ElemsHead
<1>4. /\ x \in World /\ x.state = ctl.state /\ x.iter = ctl.iter /\ x.max = ctl.max
      /\ x.hit = ctl.hit /\ x.pending = ctl.pending /\ x.observed = ctl.observed
      /\ x.next = ctl.next /\ x.ctlq = ctl.ctlq /\ x.memq = ctl.memq
      /\ x.cliq = Tail(ctl.cliq) /\ x.alerts = ctl.alerts /\ x.unsent = ctl.unsent /\ x.runq = ctl.runq
  BY <1>1, <1>3 DEF World
<1>5. view' = IF e.kind = "StateIs" THEN [view EXCEPT !.state = e.to]
              ELSE [view EXCEPT !.act = e.act]
  BY DEF Show
<1>6. /\ IF e.kind = "StateIs" THEN view'.state = e.to /\ view'.act = view.act
         ELSE view'.state = view.state /\ view'.act = e.act
      /\ view' = [state |-> view'.state, act |-> view'.act]
  BY <1>1, <1>5
<1> HIDE DEF x
<1> QED
  BY <1>1, <1>2, <1>3, <1>4, <1>6 DEF Beneath
-----------------------------------------------------------------------------
(***************************************************************************)
(* Type correctness.  A command is an agent state only because the events  *)
(* are routed: what is put on the stream again is an action or a recall.   *)
(***************************************************************************)
Thinking ==
    /\ busy => ctl.pending = NoEvent /\ ctl.state \in {"RUNNING", "ERROR"}
    /\ running = NoEvent \/ running.kind \in {"Think", "Run"}
Typed == TypeOK /\ Routed(ctl) /\ Thinking

LEMMA ModeType ==
    ASSUME mode \in Modes
    PROVE  /\ mode.delta \in Nat /\ mode.delta > 0 /\ mode.confirm \in BOOLEAN
           /\ mode.fail \in BOOLEAN
<1>1. mode \in Mode
  BY ControllerAssumption
<1> QED
  BY <1>1 DEF Mode

LEMMA TellsElems ==
    ASSUME NEW w \in World, NEW c \in World, NEW s, Tells(w, c, s)
    PROVE  \A e \in Elems(w.cliq) : e \in Elems(c.cliq) \/ (e.kind = "StateIs" /\ e.to = s)
<1>1. PICK e \in Event : e.kind = "StateIs" /\ e.to = s /\ w.cliq = Append(c.cliq, e)
  BY DEF Tells
<1>2. c.cliq \in Seq(Event)
  BY DEF World
<1>3. Elems(w.cliq) = Elems(c.cliq) \cup {e}
  BY <1>1, <1>2, ElemsAppend
<1> QED
  BY <1>1, <1>3

LEMMA HandledRouted ==
    ASSUME mode \in Modes, NEW c \in World, NEW w \in World, Routed(c), c.ctlq # <<>>,
           Handled(c, Head(c.ctlq), w)
    PROVE  Routed(w) /\ w.iter = c.iter /\ w.max >= c.max
<1> DEFINE e == Head(c.ctlq)
<1>1. /\ c.ctlq \in Seq(Event) /\ c.runq \in Seq(Event) /\ c.memq \in Seq(Event)
      /\ w.pending \in Event /\ w.state \in AgentState /\ c.max \in Nat /\ w.max \in Nat
  BY DEF World
<1>2. Elems(Tail(c.ctlq)) \subseteq Elems(c.ctlq) /\ Tail(c.ctlq) \in Seq(Event)
  BY <1>1, ElemsHead
<1>3. \A x \in Elems(w.ctlq) : x \in Elems(c.ctlq) \/ x.kind = "NotRun"
  <2>1. CASE w.ctlq = Tail(c.ctlq)
    BY <1>2, <2>1
  <2>2. CASE \E n \in Event : n.kind = "NotRun" /\ w.ctlq = Append(Tail(c.ctlq), n)
    <3>1. PICK n \in Event : n.kind = "NotRun" /\ w.ctlq = Append(Tail(c.ctlq), n)
      BY <2>2
    <3> DEFINE q == Tail(c.ctlq)
    <3>2. q \in Seq(Event) /\ Elems(q) \subseteq Elems(c.ctlq) /\ w.ctlq = Append(q, n)
      BY <1>2, <3>1
    <3> HIDE DEF q
    <3>3. Elems(Append(q, n)) = Elems(q) \cup {n}
      BY <3>2, ElemsAppend
    <3> QED
      BY <3>1, <3>2, <3>3
  <2> QED
    BY <2>1, <2>2 DEF Handled, Ignores, Settles, Resumes, Recalls, Enters, Starts, Stops,
                      Answers, AnswersLate, Queues
<1>4. /\ w.runq = c.runq \/ (w.runq = Append(c.runq, w.pending) /\ w.pending.kind = "Run"
                             /\ w.pending.conf # "awaiting")
      /\ w.memq = c.memq \/ (w.memq = Append(c.memq, w.pending) /\ w.pending.kind = "Recall")
      /\ w.pending = NoEvent \/ w.pending = c.pending \/ w.pending.kind \in {"Run", "Recall"}
  BY DEF Handled, Ignores, Settles, Resumes, Recalls, Enters, Starts, Stops,
         Answers, AnswersLate, Queues
<1>5. w.cliq = c.cliq \/ Tells(w, c, w.state)
  BY DEF Handled, Ignores, Settles, Resumes, Recalls, Enters, Starts, Stops,
         Answers, AnswersLate
<1>6. \A x \in Elems(w.cliq) : x \in Elems(c.cliq) \/ (x.kind = "StateIs" /\ x.to = w.state)
  BY <1>5, TellsElems
<1>7. /\ \A x \in Elems(w.runq) : x \in Elems(c.runq) \/ (x.kind = "Run" /\ x.conf # "awaiting")
      /\ \A x \in Elems(w.memq) : x \in Elems(c.memq) \/ x.kind = "Recall"
  <2>1. /\ Elems(Append(c.runq, w.pending)) = Elems(c.runq) \cup {w.pending}
        /\ Elems(Append(c.memq, w.pending)) = Elems(c.memq) \cup {w.pending}
    BY <1>1, ElemsAppend
  <2> QED
    BY <1>4, <2>1
<1>8. Routed(w)
  BY <1>1, <1>3, <1>4, <1>6, <1>7 DEF Routed, CtlKind
<1>9. w.max = c.max \/ w.max = c.max + mode.delta
  BY DEF Handled, Ignores, Settles, Resumes, Recalls, Enters, Starts, Stops,
         Answers, AnswersLate, Level, Extended
<1>10. w.max >= c.max
  BY <1>1, <1>9, ModeType
<1> QED
  BY <1>8, <1>10 DEF Handled, Took
LEMMA StepRouted ==
    ASSUME NEW w \in World, NEW x \in World, Routed(w),
           \/ Reacts(w, x) \/ Calls(w, x) \/ Pauses(w, x) \/ \E n : Fails(w, x, n)
    PROVE  Routed(x)
<1>1. w.ctlq \in Seq(Event) /\ x.state \in AgentState
  BY DEF World
<1>2. x.runq = w.runq /\ x.memq = w.memq /\ x.pending \in {w.pending, NoEvent}
  BY DEF Reacts, Calls, Beyond, Pauses, Fails
<1>3. x.cliq = w.cliq \/ Tells(x, w, x.state)
  BY DEF Reacts, Calls, Pauses, Fails
<1>4. \A e \in Elems(x.cliq) : e \in Elems(w.cliq) \/ (e.kind = "StateIs" /\ e.to = x.state)
  BY <1>3, TellsElems
<1>5. x.ctlq = w.ctlq \/ \E e \in Event : e.kind = "NotRun" /\ x.ctlq = Append(w.ctlq, e)
  BY DEF Reacts, Calls, Beyond, Pauses, Fails
<1>6. \A e \in Elems(x.ctlq) : e \in Elems(w.ctlq) \/ e.kind = "NotRun"
  <2>1. CASE x.ctlq = w.ctlq
    BY <2>1
  <2>2. CASE \E e \in Event : e.kind = "NotRun" /\ x.ctlq = Append(w.ctlq, e)
    <3>1. PICK e \in Event : e.kind = "NotRun" /\ x.ctlq = Append(w.ctlq, e)
      BY <2>2
    <3>2. Elems(x.ctlq) = Elems(w.ctlq) \cup {e}
      BY <1>1, <3>1, ElemsAppend
    <3> QED
      BY <3>1, <3>2
  <2> QED
    BY <1>5, <2>1, <2>2
<1> QED
  BY <1>1, <1>2, <1>4, <1>6 DEF Routed, CtlKind

LEMMA PostsRouted ==
    ASSUME NEW w \in World, NEW x \in World, Routed(w), NEW e \in Event, Posts(w, x, e),
           e.kind \in CtlKind, e.kind = "ChangeState" => e.to \in Commanded
    PROVE  Routed(x)
<1>1. w.ctlq \in Seq(Event)
  BY DEF World
<1>2. Elems(x.ctlq) = Elems(w.ctlq) \cup {e}
  BY <1>1, ElemsAppend DEF Posts
<1> QED
  BY <1>2 DEF Posts, Beneath, Routed

(* The user's answer to the action a.                                      *)
LEMMA ClickType ==
    ASSUME NEW s \in Answer, NEW a \in Nat
    PROVE  LET e == [Change(s) EXCEPT !.act = a]
           IN  e \in Event /\ e.kind = "ChangeState" /\ e.to = s /\ e.act = a
<1>1. Change(s) \in Event /\ Change(s).kind = "ChangeState" /\ Change(s).to = s
  BY EventType DEF Answer, AgentState
<1> QED
  BY <1>1 DEF Event

LEMMA HandleEventMisled ==
    ASSUME TypeOK, HandleEvent
    PROVE  /\ misled \subseteq misled' /\ misled' \subseteq Nat
           /\ Takes(ctl, Head(ctl.ctlq)) /\ Head(ctl.ctlq).act # ctl.pending.act
                 => ctl.pending.act \in misled'
<1>1. ctl.pending.act \in Nat /\ misled \subseteq Nat
  BY DEF TypeOK, World, Event
<1>2. misled' = IF Takes(ctl, Head(ctl.ctlq)) /\ Head(ctl.ctlq).act # ctl.pending.act
                THEN misled \cup {ctl.pending.act} ELSE misled
  BY DEF HandleEvent
<1> QED
  BY <1>1, <1>2

LEMMA TypedInit ==
    ASSUME Init
    PROVE  Typed
<1> DEFINE m == Ev("UserMessage")
           w1 == Emit(NewWorld, m)
           e1 == Numbering(NewWorld, m)
<1>1. mode \in Modes /\ mode.delta \in Nat /\ mode.delta > 0
  BY ModeType DEF Init
<1>2. /\ NewWorld \in World /\ NewWorld.pending = NoEvent /\ NewWorld.iter = 0
      /\ NewWorld.max = mode.delta
      /\ NewWorld.ctlq = <<>> /\ NewWorld.runq = <<>> /\ NewWorld.memq = <<>>
      /\ NewWorld.cliq = <<>>
  <2>1. NoEvent \in Event /\ <<>> \in Seq(Event) /\ "LOADING" \in AgentState
    BY EventType DEF AgentState
  <2> QED
    BY <1>1, <2>1 DEF NewWorld, World
<1>3. Routed(NewWorld)
  BY <1>2 DEF Routed, Elems
<1>4. /\ m \in Event /\ m.kind = "UserMessage" /\ m.kind \in CtlKind
  BY EventType DEF Kind, CtlKind
<1>5. \A s \in {"RUNNING", "AWAITING_USER_INPUT"} :
         /\ Change(s) \in Event /\ Change(s).kind = "ChangeState"
         /\ Change(s).kind \in CtlKind /\ Change(s).to \in Commanded
  BY EventType DEF AgentState, CtlKind, Commanded
<1>6. Posts(NewWorld, w1, e1) /\ e1 \in Event /\ e1.kind = "UserMessage"
  BY <1>2, <1>4, PostsFacts, NumberingType
<1>7. w1 \in World /\ w1.iter = 0 /\ w1.max = mode.delta /\ w1.pending = NoEvent
  BY <1>2, <1>6 DEF Posts, Beneath
<1>8. Routed(w1)
  BY <1>2, <1>3, <1>6, <1>7, PostsRouted DEF CtlKind
<1> HIDE DEF m, w1, e1
<1>9. ctl = Emit(w1, Change("RUNNING")) \/ ctl = Emit(NewWorld, Change("AWAITING_USER_INPUT"))
  BY DEF Init, w1, m
<1>10. PICK w \in {w1, NewWorld}, s \in {"RUNNING", "AWAITING_USER_INPUT"} :
          ctl = Emit(w, Change(s))
  BY <1>9
<1>11. w \in World /\ w.iter = 0 /\ w.max = mode.delta /\ w.pending = NoEvent /\ Routed(w)
  BY <1>2, <1>3, <1>7, <1>8
<1> DEFINE c == Change(s)
           e == Numbering(w, c)
<1>12. c \in Event /\ c.kind = "ChangeState" /\ c.kind \in CtlKind /\ c.to \in Commanded
  BY <1>5
<1> HIDE DEF c
<1>13. Posts(w, Emit(w, c), e) /\ e \in Event /\ e.kind = "ChangeState" /\ e.to \in Commanded
  BY <1>11, <1>12, PostsFacts, NumberingType
<1>14. Posts(w, ctl, e)
  BY <1>10, <1>13 DEF c
<1> HIDE DEF e
<1>15. ctl \in World /\ ctl.iter = 0 /\ ctl.max = mode.delta
  BY <1>11, <1>14 DEF Posts, Beneath
<1>16. Routed(ctl)
  BY <1>11, <1>13, <1>14, <1>15, PostsRouted DEF CtlKind
<1>17. TypeOK
  <2>1. view \in [state : AgentState, act : Nat] /\ running \in Event
    BY EventType DEF Init, AgentState
  <2>2. executed \in Seq(Nat) /\ inputs \in Nat
    BY DEF Init
  <2>4. busy \in BOOLEAN
    BY Zenon DEF Init
  <2>3. /\ issued \subseteq Nat /\ held \subseteq issued /\ approved \subseteq Nat
        /\ misled \subseteq Nat
    BY DEF Init
  <2> QED
    BY <1>1, <1>15, <2>1, <2>2, <2>3, <2>4 DEF TypeOK
<1> QED
  BY <1>16, <1>17 DEF Typed, Thinking, Init
LEMMA TypedNext ==
    ASSUME Typed, [Next]_vars
    PROVE  Typed'
<1>0. TypeOK /\ Routed(ctl) /\ Thinking /\ ctl \in World /\ mode \in Modes
  BY DEF Typed, TypeOK
<1>a. /\ ctl.iter \in Nat /\ ctl.max \in Nat /\ ctl.iter <= ctl.max
      /\ running \in Event /\ view \in [state : AgentState, act : Nat]
      /\ inputs \in Nat /\ executed \in Seq(Nat) /\ busy \in BOOLEAN
      /\ issued \subseteq Nat /\ held \subseteq issued /\ approved \subseteq Nat
      /\ misled \subseteq Nat
  BY <1>0 DEF TypeOK, World
<1>1. CASE HandleEvent
  <2> DEFINE e == Head(ctl.ctlq)
  <2>1. ~busy /\ ctl.ctlq # <<>>
    BY <1>0, <1>1, HandleEventCases
  <2>2. PICK w \in World :
           /\ Handled(ctl, e, w)
           /\ \/ ~MayStep(w, e) /\ ctl' = w /\ busy' = FALSE
              \/ MayStep(w, e) /\ Reacts(w, ctl') /\ busy' = FALSE
              \/ MayStep(w, e) /\ Calls(w, ctl') /\ busy' = TRUE
    BY <1>0, <1>1, HandleEventCases
  <2>3. Routed(w) /\ w.iter = ctl.iter /\ w.max >= ctl.max
    BY <1>0, <2>1, <2>2, HandledRouted
  <2>4. w.iter \in Nat /\ w.max \in Nat /\ w.iter <= w.max
    BY <1>a, <2>3 DEF World
  <2>5. UNCHANGED <<mode, running, view, inputs, executed, issued, held, approved>>
    BY <1>1 DEF HandleEvent
  <2>9. misled' \subseteq Nat
    BY <1>0, <1>a, <1>1, HandleEventMisled
  <2>6. CASE ~MayStep(w, e) /\ ctl' = w /\ busy' = FALSE
    BY <1>0, <1>a, <2>3, <2>4, <2>5, <2>6, <2>9 DEF Typed, TypeOK, Routed, Thinking
  <2>7. CASE MayStep(w, e) /\ Reacts(w, ctl') /\ busy' = FALSE
    <3>1. ctl' \in World /\ ctl'.iter = w.iter /\ ctl'.max = w.max
      BY <2>7 DEF Reacts, Beyond
    <3>2. Routed(ctl')
      BY <2>3, <2>7, <3>1, StepRouted
    <3> QED
      BY <1>0, <1>a, <2>4, <2>5, <2>7, <2>9, <3>1, <3>2 DEF Typed, TypeOK, Routed, Thinking
  <2>8. CASE MayStep(w, e) /\ Calls(w, ctl') /\ busy' = TRUE
    <3>1. /\ ctl' \in World /\ ctl'.iter = w.iter + 1 /\ ctl'.max = w.max /\ w.iter < w.max
          /\ ctl'.pending = NoEvent /\ ctl'.state = "RUNNING"
      BY <2>8 DEF Calls, Beyond, MayStep
    <3>2. Routed(ctl')
      BY <2>3, <2>8, <3>1, StepRouted
    <3>3. ctl'.iter <= ctl'.max
      BY <2>4, <3>1
    <3> QED
      BY <1>0, <1>a, <2>5, <2>8, <2>9, <3>1, <3>2, <3>3 DEF Typed, TypeOK, Routed, Thinking
  <2> QED
    BY <2>2, <2>6, <2>7, <2>8
<1>2. CASE Think
  <2>1. /\ Beneath(ctl, ctl') /\ ctl'.ctlq = ctl.ctlq /\ ctl'.memq = ctl.memq
        /\ ctl'.cliq = ctl.cliq
        /\ \E e \in Event : /\ e.kind = "Think" /\ e.conf = "none"
                            /\ ctl'.runq = Append(ctl.runq, e)
    BY <1>0, <1>2, ThinkCases
  <2>2. PICK e \in Event : e.kind = "Think" /\ e.conf = "none" /\ ctl'.runq = Append(ctl.runq, e)
    BY <2>1
  <2>3. ctl.runq \in Seq(Event)
    BY <1>0 DEF World
  <2>4. Elems(ctl'.runq) = Elems(ctl.runq) \cup {e}
    BY <2>2, <2>3, ElemsAppend
  <2>5. Routed(ctl')
    BY <1>0, <2>1, <2>2, <2>4 DEF Routed, Beneath
  <2>6. /\ ctl' \in World /\ ctl'.iter = ctl.iter /\ ctl'.max = ctl.max /\ busy' = FALSE
        /\ UNCHANGED <<mode, running, view, inputs, executed, held, approved, misled>>
        /\ issued' = issued \cup {ctl.iter}
    BY <1>2, <2>1 DEF Think, Beneath
  <2> QED
    BY <1>0, <1>a, <2>5, <2>6 DEF Typed, TypeOK, Routed, Thinking
<1>3. ASSUME NEW conf \in {"none", "awaiting"}, AskRuntime(conf)
      PROVE  Typed'
  <2>1. busy => ctl.state # "AWAITING_USER_CONFIRMATION"
    BY <1>0 DEF Thinking
  <2>2. Sends(ctl, ctl') \/ Holds(ctl, ctl')
    BY <1>0, <1>3, <2>1, AskRuntimeCases
  <2>3. /\ ctl' \in World /\ ctl'.iter = ctl.iter /\ ctl'.max = ctl.max
        /\ ctl'.pending \in Event /\ ctl'.pending.kind = "Run"
    BY <2>2 DEF Sends, Holds, Asked, World
  <2>4. ctl.runq \in Seq(Event) /\ ctl.cliq \in Seq(Event) /\ ctl'.state \in AgentState
    BY <1>0, <2>3 DEF World
  <2>5. Routed(ctl')
    <3>1. CASE Sends(ctl, ctl')
      <4>1. Elems(ctl'.runq) = Elems(ctl.runq) \cup {ctl'.pending}
        BY <2>3, <2>4, <3>1, ElemsAppend DEF Sends
      <4> QED
        BY <1>0, <2>3, <3>1, <4>1 DEF Routed, Sends, Asked
    <3>2. CASE Holds(ctl, ctl')
      <4>1. PICK t \in Event : /\ t.kind = "StateIs" /\ t.to = ctl'.state
                               /\ ctl'.cliq = Append(Append(ctl.cliq, t), ctl'.pending)
        BY <3>2 DEF Holds
      <4> DEFINE q == Append(ctl.cliq, t)
      <4>2. q \in Seq(Event) /\ Elems(q) = Elems(ctl.cliq) \cup {t} 
        BY <2>4, ElemsAppend
      <4>4. ctl'.cliq = Append(q, ctl'.pending)
        BY <4>1
      <4> HIDE DEF q
      <4>3. Elems(ctl'.cliq) = Elems(q) \cup {ctl'.pending}
        BY <2>3, <4>2, <4>4, ElemsAppend
      <4> QED
        BY <1>0, <2>3, <2>4, <3>2, <4>1, <4>2, <4>3 DEF Routed, Holds, Asked
    <3> QED
      BY <2>2, <3>1, <3>2
  <2>6. /\ busy' = FALSE /\ issued' = issued \cup {ctl.iter}
        /\ held' = IF conf = "awaiting" THEN held \cup {ctl.iter} ELSE held
        /\ UNCHANGED <<mode, running, view, inputs, executed, approved, misled>>
    BY <1>3 DEF AskRuntime
  <2> QED
    BY <1>0, <1>a, <2>3, <2>5, <2>6 DEF Typed, TypeOK, Routed, Thinking
<1>4. ASSUME NEW k \in {"AgentMessage", "Question", "Finish", "Reject", "Malformed", "Condense"},
             Say(k)
      PROVE  Typed'
  <2>1. k \in Kind /\ k \in CtlKind /\ k # "ChangeState"
    BY DEF Kind, CtlKind
  <2>2. PICK e \in Event : Posts(ctl, ctl', e) /\ e.kind = k
    BY <1>0, <1>4, <2>1, SayCases
  <2>3. ctl' \in World /\ ctl'.iter = ctl.iter /\ ctl'.max = ctl.max
    BY <2>2 DEF Posts, Beneath
  <2>4. Routed(ctl')
    BY <1>0, <2>1, <2>2, <2>3, PostsRouted
  <2>5. busy' = FALSE /\ UNCHANGED <<mode, running, view, inputs, executed, issued, held, approved, misled>>
    BY <1>4 DEF Say
  <2> QED
    BY <1>0, <1>a, <2>3, <2>4, <2>5 DEF Typed, TypeOK, Routed, Thinking
<1>5. CASE LLMFails
  <2>1. Pauses(ctl, ctl') \/ \E n : Fails(ctl, ctl', n)
    <3>1. busy => ctl.state # "RATE_LIMITED"
      BY <1>0 DEF Thinking
    <3> QED
      BY <1>0, <1>5, <3>1, LLMFailsCases
  <2>2. ctl' \in World /\ ctl'.iter = ctl.iter /\ ctl'.max = ctl.max
    BY <2>1 DEF Pauses, Fails
  <2>3. Routed(ctl')
    BY <1>0, <2>1, <2>2, StepRouted
  <2>4. busy' = FALSE /\ UNCHANGED <<mode, running, view, inputs, executed, issued, held, approved, misled>>
    BY <1>5 DEF LLMFails
  <2> QED
    BY <1>0, <1>a, <2>2, <2>3, <2>4 DEF Typed, TypeOK, Routed, Thinking
<1>6. CASE Alert
  <2>1. PICK n : Fails(ctl, ctl', n)
    BY <1>0, <1>6, AlertCases
  <2>2. /\ ctl' \in World /\ ctl'.iter = ctl.iter /\ ctl'.max = ctl.max
        /\ ctl'.pending \in {ctl.pending, NoEvent} /\ ctl'.state = "ERROR"
    BY <2>1 DEF Fails
  <2>3. Routed(ctl')
    BY <1>0, <2>1, <2>2, StepRouted
  <2>4. UNCHANGED <<mode, busy, running, view, inputs, executed, issued, held, approved, misled>>
    BY <1>6 DEF Alert
  <2> QED
    BY <1>0, <1>a, <2>2, <2>3, <2>4 DEF Typed, TypeOK, Routed, Thinking
<1>7. CASE StartAction
  <2>1. /\ running' = Head(ctl.runq) /\ running' \in Event /\ running' \in Elems(ctl.runq)
        /\ running'.act \in Nat /\ ctl.runq # <<>>
        /\ Beneath(ctl, ctl') /\ ctl'.ctlq = ctl.ctlq /\ ctl'.memq = ctl.memq
        /\ ctl'.runq = Tail(ctl.runq) /\ ctl'.cliq = ctl.cliq
    BY <1>0, <1>7, StartActionCases
  <2>2. ctl.runq \in Seq(Event)
    BY <1>0 DEF World
  <2>3. Elems(ctl'.runq) \subseteq Elems(ctl.runq)
    BY <2>1, <2>2, ElemsHead
  <2>4. Routed(ctl')
    BY <1>0, <2>1, <2>3 DEF Routed, Beneath
  <2>5. /\ executed' = executed \/ executed' = Append(executed, running'.act)
        /\ UNCHANGED <<mode, busy, view, inputs, issued, held, approved, misled>>
    BY <1>7 DEF StartAction
  <2> DEFINE a == running'.act
  <2>6. executed' \in Seq(Nat)
    <3>1. a \in Nat /\ (executed' = executed \/ executed' = Append(executed, a))
      BY <2>1, <2>5
    <3> HIDE DEF a
    <3>2. executed \in Seq(Nat)
      BY <1>a
    <3> QED
      BY <3>1, <3>2
  <2>7. running'.kind \in {"Think", "Run"}
    BY <1>0, <2>1 DEF Routed
  <2> QED
    BY <1>0, <1>a, <2>1, <2>4, <2>5, <2>6, <2>7 DEF Typed, TypeOK, Routed, Thinking, Beneath
<1>8. CASE FinishAction
  <2>1. PICK e \in Event : Posts(ctl, ctl', e) /\ e.kind = "Result"
    BY <1>0, <1>8, FinishActionCases
  <2>2. /\ ctl' \in World /\ ctl'.iter = ctl.iter /\ ctl'.max = ctl.max
        /\ ctl'.pending = ctl.pending /\ ctl'.state = ctl.state
    BY <2>1 DEF Posts, Beneath
  <2>3. Routed(ctl')
    BY <1>0, <2>1, <2>2, PostsRouted DEF CtlKind
  <2>4. running' = NoEvent /\ UNCHANGED <<mode, busy, view, inputs, executed, issued, held, approved, misled>>
    BY <1>8 DEF FinishAction
  <2> QED
    BY <1>0, <1>a, <2>2, <2>3, <2>4, EventType DEF Typed, TypeOK, Routed, Thinking
<1>9. CASE FailAction
  <2>1. /\ Beneath(ctl, ctl') /\ ctl'.ctlq = ctl.ctlq /\ ctl'.memq = ctl.memq
        /\ ctl'.runq = ctl.runq /\ ctl'.cliq = ctl.cliq
    BY <1>0, <1>9, FailActionCases
  <2>2. Routed(ctl')
    BY <1>0, <2>1 DEF Routed, Beneath
  <2>3. running' = NoEvent /\ UNCHANGED <<mode, busy, view, inputs, executed, issued, held, approved, misled>>
    BY <1>9 DEF FailAction
  <2> QED
    BY <1>0, <1>a, <2>1, <2>2, <2>3, EventType DEF Typed, TypeOK, Routed, Thinking, Beneath
<1>10. CASE AnswerRecall
  <2>1. /\ ctl.memq # <<>> /\ Beneath(ctl, ctl') /\ ctl'.memq = Tail(ctl.memq)
        /\ ctl'.runq = ctl.runq /\ ctl'.cliq = ctl.cliq
        /\ \/ ctl'.ctlq = ctl.ctlq
           \/ \E e \in Event : /\ e.kind \in {"Recalled", "Nothing"}
                               /\ ctl'.ctlq = Append(ctl.ctlq, e)
    BY <1>0, <1>10, AnswerRecallCases
  <2>2. ctl.memq \in Seq(Event) /\ ctl.ctlq \in Seq(Event)
    BY <1>0 DEF World
  <2>3. Elems(ctl'.memq) \subseteq Elems(ctl.memq)
    BY <2>1, <2>2, ElemsHead
  <2>4. \A x \in Elems(ctl'.ctlq) : x \in Elems(ctl.ctlq) \/ x.kind \in {"Recalled", "Nothing"}
    <3>1. CASE ctl'.ctlq = ctl.ctlq
      BY <3>1
    <3>2. CASE \E e \in Event : /\ e.kind \in {"Recalled", "Nothing"}
                                /\ ctl'.ctlq = Append(ctl.ctlq, e)
      <4>1. PICK e \in Event : /\ e.kind \in {"Recalled", "Nothing"}
                               /\ ctl'.ctlq = Append(ctl.ctlq, e)
        BY <3>2
      <4>2. Elems(ctl'.ctlq) = Elems(ctl.ctlq) \cup {e}
        BY <2>2, <4>1, ElemsAppend
      <4> QED
        BY <4>1, <4>2
    <3> QED
      BY <2>1, <3>1, <3>2
  <2>5. Routed(ctl')
    BY <1>0, <2>1, <2>3, <2>4 DEF Routed, Beneath, CtlKind
  <2>6. UNCHANGED <<mode, busy, running, view, inputs, executed, issued, held, approved, misled>>
    BY <1>10 DEF AnswerRecall
  <2> QED
    BY <1>0, <1>a, <2>1, <2>5, <2>6 DEF Typed, TypeOK, Routed, Thinking, Beneath
<1>11. CASE Show
  <2> DEFINE e == Head(ctl.cliq)
  <2>1. /\ ctl.cliq # <<>> /\ e \in Elems(ctl.cliq) /\ e \in Event
        /\ Beneath(ctl, ctl') /\ ctl'.ctlq = ctl.ctlq /\ ctl'.memq = ctl.memq
        /\ ctl'.runq = ctl.runq /\ ctl'.cliq = Tail(ctl.cliq)
        /\ IF e.kind = "StateIs" THEN view'.state = e.to /\ view'.act = view.act
           ELSE view'.state = view.state /\ view'.act = e.act
        /\ view' = [state |-> view'.state, act |-> view'.act]
    BY <1>0, <1>11, ShowCases
  <2> HIDE DEF e
  <2>2. ctl.cliq \in Seq(Event) /\ e.act \in Nat
    BY <1>0, <2>1 DEF World, Event
  <2>3. Elems(ctl'.cliq) \subseteq Elems(ctl.cliq)
    BY <2>1, <2>2, ElemsHead
  <2>4. Routed(ctl')
    BY <1>0, <2>1, <2>3 DEF Routed, Beneath
  <2>5. view'.state \in AgentState /\ view'.act \in Nat
    BY <1>0, <1>a, <2>1, <2>2 DEF Routed
  <2>6. view' \in [state : AgentState, act : Nat]
    BY <2>1, <2>5
  <2>7. UNCHANGED <<mode, busy, running, inputs, executed, issued, held, approved, misled>>
    BY <1>11 DEF Show
  <2> QED
    BY <1>0, <1>a, <2>1, <2>4, <2>6, <2>7 DEF Typed, TypeOK, Routed, Thinking, Beneath
<1>12. ASSUME NEW e0 \in Event, e0.kind \in CtlKind,
              e0.kind = "ChangeState" => e0.to \in Commanded, UserInput(e0),
              view' \in [state : AgentState, act : Nat], approved' \subseteq Nat
       PROVE  Typed'
  <2>1. PICK e \in Event : Posts(ctl, ctl', e) /\ e.kind = e0.kind /\ e.to = e0.to
    BY <1>0, <1>12, UserInputCases
  <2>2. /\ ctl' \in World /\ ctl'.iter = ctl.iter /\ ctl'.max = ctl.max
        /\ ctl'.pending = ctl.pending /\ ctl'.state = ctl.state
    BY <2>1 DEF Posts, Beneath
  <2>3. Routed(ctl')
    BY <1>0, <1>12, <2>1, <2>2, PostsRouted
  <2>4. inputs' = inputs + 1 /\ UNCHANGED <<mode, busy, running, executed, issued, held, misled>>
    BY <1>12 DEF UserInput
  <2> QED
    BY <1>0, <1>a, <1>12, <2>2, <2>3, <2>4 DEF Typed, TypeOK, Routed, Thinking
<1>13. CASE SendMessage
  <2>1. Ev("UserMessage") \in Event /\ Ev("UserMessage").kind = "UserMessage"
    BY EventType DEF Kind
  <2> QED
    BY <1>a, <1>12, <1>13, <2>1 DEF SendMessage, CtlKind
<1>14. CASE PressStop
  <2>1. /\ Change("STOPPED") \in Event /\ Change("STOPPED").kind = "ChangeState"
        /\ Change("STOPPED").to \in Commanded
    BY EventType DEF AgentState, Commanded
  <2> QED
    BY <1>a, <1>12, <1>14, <2>1 DEF PressStop, CtlKind
<1>15. ASSUME NEW a \in {"USER_CONFIRMED", "USER_REJECTED"}, Click(a)
       PROVE  Typed'
  <2> DEFINE e == [Change(a) EXCEPT !.act = view.act]
  <2>1. e \in Event /\ e.kind = "ChangeState" /\ e.to \in Commanded
    BY <1>a, ClickType DEF Commanded, Answer
  <2>2. view' = [view EXCEPT !.act = 0] /\ UserInput(e)
        /\ (approved' = approved \cup {view.act} \/ approved' = approved)
    BY <1>15 DEF Click
  <2>3. view' \in [state : AgentState, act : Nat] /\ approved' \subseteq Nat
    BY <1>a, <2>2
  <2> HIDE DEF e
  <2> QED
    BY <1>12, <2>1, <2>2, <2>3 DEF CtlKind
<1>17. CASE ReportFailure
  <2>1. /\ Beneath(ctl, ctl') /\ ctl'.ctlq = ctl.ctlq /\ ctl'.memq = ctl.memq
        /\ ctl'.runq = ctl.runq /\ ctl'.cliq = ctl.cliq
    BY <1>0, <1>17, ReportFailureCases
  <2>2. Routed(ctl')
    BY <1>0, <2>1 DEF Routed, Beneath
  <2>3. UNCHANGED <<mode, busy, running, view, inputs, executed, issued, held, approved, misled>>
    BY <1>17 DEF ReportFailure
  <2> QED
    BY <1>0, <1>a, <2>1, <2>2, <2>3 DEF Typed, TypeOK, Routed, Thinking, Beneath
<1>16. CASE UNCHANGED vars
  BY <1>0, <1>16 DEF Typed, TypeOK, Routed, Thinking, vars
<1> QED
  BY <1>1, <1>2, <1>3, <1>4, <1>5, <1>6, <1>7, <1>8, <1>9, <1>10, <1>11, <1>13, <1>14,
     <1>15, <1>16, <1>17 DEF Next, Step, Runtime, User

THEOREM AlwaysTyped == Spec => []Typed
<1>1. Init => Typed
  BY TypedInit
<1>2. Typed /\ [Next]_vars => Typed'
  BY TypedNext
<1> QED
  BY <1>1, <1>2, PTL DEF Spec

(* Whatever the user, the runtime, the memory and the LLM do, the fields   *)
(* of the controller have their types, and no iteration begins past the    *)
(* limit.                                                                  *)
THEOREM TypeCorrect == Spec => []TypeOK
<1>1. Typed => TypeOK
  BY DEF Typed
<1> QED
  BY <1>1, AlwaysTyped, PTL
-----------------------------------------------------------------------------
(***************************************************************************)
(* The iteration limit.  It is extended when RUNNING follows an ERROR at a *)
(* limit that was hit, and every such RUNNING must be paid for by an input *)
(* of the user that was not counted before: the messages that are still in *)
(* the controller's queue are owed an extension each.  The first event is  *)
(* not the user's input (inputs counts what he sends later), and neither   *)
(* is the session's RUNNING behind it; but no limit is hit before they are *)
(* handled.                                                                *)
(***************************************************************************)
Increasing(q) == \A i, j \in DOMAIN q : i < j => q[i].id < q[j].id
Ordered(w) ==
    /\ w.next > 1
    /\ \A e \in Elems(w.ctlq) : e.id >= 1 /\ e.id < w.next
    /\ Increasing(w.ctlq)

IsStart(e) == e.kind = "ChangeState" /\ e.to = "RUNNING"
Beginning(w) ==
    /\ w.state = "LOADING" =>
          w.ctlq # <<>> /\ w.ctlq[1].kind \in {"UserMessage", "ChangeState"}
    /\ \A i \in DOMAIN w.ctlq : IsStart(w.ctlq[i]) =>
          /\ w.observed = {} /\ ~w.hit
          /\ \/ i = 2 /\ w.ctlq[1].kind = "UserMessage"
             \/ i = 1 /\ w.state = "RUNNING" /\ w.pending # NoEvent
             \/ i = 1 /\ w.state = "ERROR" /\ w.pending = NoEvent /\ Len(w.ctlq) > 1
NotStarting == busy => \A e \in Elems(ctl.ctlq) : ~IsStart(e)

Owed(q) == {e.id : e \in {x \in Elems(q) : x.kind = "UserMessage" /\ x.id > 1}}
Budget(w) ==
    /\ \A e \in Elems(w.ctlq) : e.id = 1 => ~w.hit
    /\ IsFiniteSet(Owed(w.ctlq))
    /\ w.max + mode.delta * Cardinality(Owed(w.ctlq)) <= mode.delta * (1 + inputs)

Limited == Ordered(ctl) /\ Beginning(ctl) /\ NotStarting /\ Budget(ctl)

(* The queue of x is q, or one more event that no session sends at first.  *)
Follows(q, m, x, K) ==
    /\ x.next >= m
    /\ \/ x.ctlq = q
       \/ \E n \in Event : /\ n.id = m /\ n.kind \in K /\ ~IsStart(n)
                           /\ x.next > m /\ x.ctlq = Append(q, n)
Internal == CtlKind \ {"UserMessage", "ChangeState"}

LEMMA IncreasingTail ==
    ASSUME NEW q \in Seq(Event), q # <<>>, Increasing(q)
    PROVE  /\ Increasing(Tail(q)) /\ Tail(q) \in Seq(Event)
           /\ \A x \in Elems(Tail(q)) : x \in Elems(q) /\ x.id > Head(q).id
<1> DEFINE t == Tail(q)
<1>1. /\ t \in Seq(Event) /\ Head(q) = q[1] /\ 1 \in DOMAIN q
      /\ \A i \in DOMAIN t : i \in Nat /\ i > 0 /\ i + 1 \in DOMAIN q /\ t[i] = q[i + 1]
  <2>1. t \in Seq(Event) /\ Head(q) = q[1] /\ 1 \in DOMAIN q
    OBVIOUS
  <2>2. \A i \in DOMAIN t : i + 1 \in DOMAIN q /\ t[i] = q[i + 1]
    BY ElemsHead
  <2>3. \A i \in DOMAIN t : i \in Nat /\ i > 0
    BY <2>1
  <2> QED
    BY <2>1, <2>2, <2>3
<1>2. \A x \in Elems(t) : x \in Elems(q)
  BY ElemsHead
<1>3. \A i \in DOMAIN q : q[i].id \in Nat
  <2>1. \A i \in DOMAIN q : q[i] \in Event
    OBVIOUS
  <2> QED
    BY <2>1 DEF Event
<1> HIDE DEF t
<1>4. ASSUME NEW i \in DOMAIN t, NEW j \in DOMAIN t, i < j
      PROVE  t[i].id < t[j].id
  <2>1. i + 1 < j + 1 /\ i + 1 \in DOMAIN q /\ j + 1 \in DOMAIN q
    BY <1>1, <1>4
  <2> QED
    BY <1>1, <2>1 DEF Increasing
<1>5. ASSUME NEW i \in DOMAIN t
      PROVE  t[i].id > q[1].id
  <2>1. 1 < i + 1 /\ i + 1 \in DOMAIN q
    BY <1>1, <1>5
  <2>2. q[1].id < q[i + 1].id
    BY <1>1, <2>1 DEF Increasing
  <2> QED
    BY <1>1, <1>3, <2>1, <2>2
<1> QED
  BY <1>1, <1>2, <1>4, <1>5 DEF Elems, Increasing, t

LEMMA FollowsOrdered ==
    ASSUME NEW q \in Seq(Event), NEW m \in Nat, m > 1, Increasing(q), NEW K,
           \A e \in Elems(q) : e.id >= 1 /\ e.id < m,
           NEW x \in World, Follows(q, m, x, K)
    PROVE  Ordered(x) /\ \A e \in Elems(x.ctlq) : e \in Elems(q) \/ (e.id = m /\ e.kind \in K /\ ~IsStart(e))
<1>1. x.next \in Nat /\ \A e \in Event : e.id \in Nat
  BY DEF World, Event
<1>2. \A e \in Elems(q) : e \in Event
  BY DEF Elems
<1>3. CASE x.ctlq = q
  BY <1>1, <1>2, <1>3 DEF Follows, Ordered
<1>4. CASE x.ctlq # q
  <2>1. PICK n \in Event : /\ n.id = m /\ n.kind \in K /\ ~IsStart(n)
                           /\ x.next > m /\ x.ctlq = Append(q, n)
    BY <1>4 DEF Follows
  <2> DEFINE p == Append(q, n)
  <2>2. /\ Elems(p) = Elems(q) \cup {n}
        /\ DOMAIN p = DOMAIN q \cup {Len(q) + 1} /\ DOMAIN q = 1..Len(q) /\ Len(q) \in Nat
        /\ \A i \in DOMAIN q : p[i] = q[i]
        /\ p[Len(q) + 1] = n
    BY ElemsAppend
  <2> HIDE DEF p
  <2>3. ASSUME NEW i \in DOMAIN p, NEW j \in DOMAIN p, i < j
        PROVE  p[i].id < p[j].id
    <3>1. CASE j \in DOMAIN q
      <4>1. i \in DOMAIN q
        BY <2>2, <2>3, <3>1
      <4> QED
        BY <2>2, <2>3, <3>1, <4>1 DEF Increasing
    <3>2. CASE j = Len(q) + 1
      <4>1. i \in DOMAIN q
        BY <2>2, <2>3, <3>2
      <4>2. q[i] \in Elems(q)
        BY <4>1 DEF Elems
      <4> QED
        BY <2>1, <2>2, <3>2, <4>1, <4>2
    <3> QED
      BY <2>2, <3>1, <3>2
  <2>4. Increasing(p)
    BY <2>3 DEF Increasing
  <2>5. x.ctlq = p
    BY <2>1 DEF p
  <2>6. \A e \in Elems(p) : e.id >= 1 /\ e.id < x.next
    BY <1>1, <1>2, <2>1, <2>2
  <2>7. x.next > 1
    BY <1>1, <2>1
  <2> QED
    BY <2>1, <2>2, <2>4, <2>5, <2>6, <2>7 DEF Ordered
<1> QED
  BY <1>3, <1>4
LEMMA OwedTail ==
    ASSUME NEW q \in Seq(Event), q # <<>>, Increasing(q)
    PROVE  /\ Owed(Tail(q)) \subseteq Owed(q)
           /\ Head(q).kind = "UserMessage" /\ Head(q).id > 1 =>
                 Head(q).id \in Owed(q) /\ Head(q).id \notin Owed(Tail(q))
<1>1. /\ \A x \in Elems(Tail(q)) : x \in Elems(q) /\ x.id > Head(q).id
      /\ Head(q) \in Elems(q) /\ Head(q) \in Event
  BY IncreasingTail, ElemsHead
<1>2. Head(q).id \in Nat
  BY <1>1 DEF Event
<1> HIDE DEF Elems
<1> QED
  BY <1>1, <1>2 DEF Owed

LEMMA OwedFollows ==
    ASSUME NEW q \in Seq(Event), NEW m, NEW x, NEW K, "UserMessage" \notin K, Follows(q, m, x, K)
    PROVE  Owed(x.ctlq) = Owed(q)
<1>1. CASE x.ctlq = q
  BY <1>1
<1>2. CASE x.ctlq # q
  <2>1. PICK n \in Event : n.kind \in K /\ x.ctlq = Append(q, n)
    BY <1>2 DEF Follows
  <2>2. Elems(x.ctlq) = Elems(q) \cup {n}
    BY <2>1, ElemsAppend
  <2>3. n.kind # "UserMessage"
    BY <2>1
  <2> QED
    BY <2>2, <2>3 DEF Owed
<1> QED
  BY <1>1, <1>2

(* The limit is paid for by what is owed.                                  *)
LEMMA Affordable ==
    ASSUME NEW d \in Nat, NEW max \in Nat, NEW total \in Nat, NEW S, IsFiniteSet(S),
           NEW T, T \subseteq S, max + d * Cardinality(S) <= total
    PROVE  /\ IsFiniteSet(T) /\ max + d * Cardinality(T) <= total
           /\ T # S => max + d + d * Cardinality(T) <= total
<1> DEFINE s == Cardinality(S)
           t == Cardinality(T)
<1>1. IsFiniteSet(T) /\ s \in Nat /\ t \in Nat /\ t <= s
  BY FS_Subset, FS_CardinalityType
<1>2. T # S => t < s
  BY <1>1, FS_Subset
<1> HIDE DEF s, t
<1>3. d * t <= d * s /\ d * t \in Nat /\ d * s \in Nat
  BY <1>1
<1>4. t < s => d * t + d <= d * s
  <2>1. SUFFICES ASSUME t < s PROVE d * (t + 1) <= d * s
    BY <1>1
  <2>2. t + 1 <= s
    BY <1>1, <2>1
  <2> QED
    BY <1>1, <2>2
<1> QED
  BY <1>1, <1>2, <1>3, <1>4 DEF s, t
(* The controller takes an event.                                          *)
LEMMA HandledFollows ==
    ASSUME NEW c \in World, NEW w \in World, c.ctlq # <<>>, Handled(c, Head(c.ctlq), w)
    PROVE  Follows(Tail(c.ctlq), c.next, w, {"NotRun"})
<1>1. w.next >= c.next
  BY DEF Handled, Took
<1>2. \/ w.ctlq = Tail(c.ctlq)
      \/ \E n \in Event : /\ n.kind = "NotRun" /\ n.id = c.next /\ w.next > c.next
                          /\ w.ctlq = Append(Tail(c.ctlq), n)
  BY DEF Handled, Ignores, Settles, Resumes, Recalls, Enters, Starts, Stops,
         Answers, AnswersLate, Queues
<1> QED
  BY <1>1, <1>2 DEF Follows, IsStart

LEMMA LimitedHandle ==
    ASSUME Typed, Limited, HandleEvent
    PROVE  Limited'
<1> DEFINE e == Head(ctl.ctlq)
           q == Tail(ctl.ctlq)
<1>0. TypeOK /\ Routed(ctl) /\ ctl \in World /\ mode \in Modes /\ inputs \in Nat
  BY DEF Typed, TypeOK
<1>1. ~busy /\ ctl.ctlq # <<>> /\ e \in Event /\ e \in Elems(ctl.ctlq)
  BY <1>0, HandleEventCases
<1>2. PICK w \in World :
         /\ Handled(ctl, e, w)
         /\ \/ ~MayStep(w, e) /\ ctl' = w /\ busy' = FALSE
            \/ MayStep(w, e) /\ Reacts(w, ctl') /\ busy' = FALSE
            \/ MayStep(w, e) /\ Calls(w, ctl') /\ busy' = TRUE
  BY <1>0, HandleEventCases
<1>3. UNCHANGED <<mode, inputs>>
  BY DEF HandleEvent
<1>4. /\ ctl.ctlq \in Seq(Event) /\ ctl.next \in Nat /\ ctl.max \in Nat /\ w.max \in Nat
      /\ ctl.next > 1 /\ Increasing(ctl.ctlq) /\ e.id \in Nat /\ w.next \in Nat
      /\ \A x \in Elems(ctl.ctlq) : x.id >= 1 /\ x.id < ctl.next
  BY <1>0, <1>1 DEF World, Limited, Ordered, Event
<1>5. /\ Increasing(q) /\ q \in Seq(Event)
      /\ \A x \in Elems(q) : x \in Elems(ctl.ctlq) /\ x.id > e.id
  BY <1>1, <1>4, IncreasingTail
<1>6. Follows(q, ctl.next, w, {"NotRun"})
  BY <1>0, <1>1, <1>2, HandledFollows
<1>7. /\ ctl' \in World /\ ctl'.ctlq = w.ctlq /\ ctl'.max = w.max /\ ctl'.next >= w.next
      /\ ctl'.next \in Nat /\ ctl'.hit \in BOOLEAN
  BY <1>2, <1>4 DEF Reacts, Calls, Beyond, World
<1>8. Follows(q, ctl.next, ctl', {"NotRun"})
  BY <1>4, <1>6, <1>7 DEF Follows
<1>9. /\ Head(ctl.ctlq) = ctl.ctlq[1] /\ 1 \in DOMAIN ctl.ctlq
      /\ \A i \in DOMAIN q : i \in Nat /\ i > 0 /\ i + 1 \in DOMAIN ctl.ctlq /\ q[i] = ctl.ctlq[i + 1]
  <2>1. Head(ctl.ctlq) = ctl.ctlq[1] /\ 1 \in DOMAIN ctl.ctlq
    BY <1>1, <1>4
  <2>2. \A i \in DOMAIN q : i + 1 \in DOMAIN ctl.ctlq /\ q[i] = ctl.ctlq[i + 1]
    BY <1>1, <1>4, ElemsHead
  <2>3. \A i \in DOMAIN q : i \in Nat /\ i > 0
    BY <1>5
  <2> QED
    BY <2>1, <2>2, <2>3
<1>10. Owed(q) \subseteq Owed(ctl.ctlq)
       /\ (e.kind = "UserMessage" /\ e.id > 1 => Owed(q) # Owed(ctl.ctlq))
  BY <1>1, <1>4, OwedTail
<1> HIDE DEF q, e
<1>11. \A x \in Elems(q) : x.id >= 1 /\ x.id < ctl.next
  BY <1>4, <1>5
<1>12. Ordered(ctl') /\ \A x \in Elems(ctl'.ctlq) : x \in Elems(q) \/ x.id = ctl.next
  <2> DEFINE x == ctl'
             K == {"NotRun"}
             m == ctl.next
  <2>1. /\ x \in World /\ Follows(q, m, x, K) /\ q \in Seq(Event)
        /\ m \in Nat /\ m > 1 /\ Increasing(q)
        /\ \A y \in Elems(q) : y.id >= 1 /\ y.id < m
    BY <1>4, <1>5, <1>7, <1>8, <1>11
  <2> HIDE DEF x, K, m
  <2>2. /\ Ordered(x)
        /\ \A y \in Elems(x.ctlq) : y \in Elems(q) \/ (y.id = m /\ y.kind \in K /\ ~IsStart(y))
    BY <2>1, FollowsOrdered
  <2> QED
    BY <2>2 DEF x, m
<1>13. Owed(ctl'.ctlq) = Owed(q)
  BY <1>5, <1>8, OwedFollows
<1>14. e.id >= 1 /\ (e.id = 1 => ~ctl.hit)
  BY <1>1, <1>4 DEF Limited, Budget
<1>15. \A x \in Elems(ctl'.ctlq) : x.id # 1
  BY <1>4, <1>5, <1>12, <1>14
<1>16. /\ e.kind \in CtlKind /\ (e.kind = "ChangeState" => e.to \in Commanded)
  BY <1>0, <1>1 DEF Routed
(* A command of the session comes first or behind the first message.       *)
<1>17. IsStart(e) => ~ctl.hit
  <2>1. IsStart(ctl.ctlq[1]) => ~ctl.hit
    BY <1>9 DEF Limited, Beginning
  <2> QED
    BY <1>9, <2>1 DEF e
<1>18. Level(ctl, w) \/ (w.max = ctl.max + mode.delta /\ e.kind = "UserMessage" /\ e.id > 1)
  <2>1. \/ Level(ctl, w)
        \/ /\ ctl.hit /\ w.max = ctl.max + mode.delta
           /\ e.kind = "UserMessage" \/ IsStart(e)
    BY <1>2 DEF Handled, Ignores, Settles, Resumes, Recalls, Enters, Starts, Stops,
         Answers, AnswersLate, Extended, IsStart
  <2> QED
    BY <1>4, <1>14, <1>17, <2>1
<1>19. Budget(ctl)'
  <2> DEFINE total == mode.delta * (1 + inputs)
  <2>1. mode.delta \in Nat /\ total \in Nat
    BY <1>0, ModeType
  <2>2. IsFiniteSet(Owed(ctl.ctlq))
        /\ ctl.max + mode.delta * Cardinality(Owed(ctl.ctlq)) <= total
    BY DEF Limited, Budget
  <2> HIDE DEF total
  <2>3. /\ IsFiniteSet(Owed(q))
        /\ ctl.max + mode.delta * Cardinality(Owed(q)) <= total
        /\ Owed(q) # Owed(ctl.ctlq) =>
              ctl.max + mode.delta + mode.delta * Cardinality(Owed(q)) <= total
    BY <1>4, <1>10, <2>1, <2>2, Affordable
  <2>4. w.max + mode.delta * Cardinality(Owed(q)) <= total
    BY <1>4, <1>10, <1>18, <2>3 DEF Level
  <2> QED
    BY <1>3, <1>7, <1>13, <1>15, <2>3, <2>4 DEF Budget, total
(* What comes first in the queue.                                          *)
<1>20. w.state # "LOADING"
  <2>1. ctl.state = "LOADING" => e.kind \in {"UserMessage", "ChangeState"}
    BY <1>9 DEF Limited, Beginning, e
  <2> QED
    BY <1>2, <1>16, <2>1 DEF Handled, Ignores, Settles, Resumes, Recalls, Enters, Starts, Stops,
         Answers, AnswersLate, Commanded, Answer, Rest, Observation
<1>21. ctl'.state # "LOADING"
  BY <1>2, <1>20 DEF Reacts, Calls
<1>22. ASSUME NEW i \in DOMAIN ctl'.ctlq, IsStart(ctl'.ctlq[i])
       PROVE  /\ ctl' = w /\ busy' = FALSE /\ i = 1
              /\ w.observed = {} /\ ~w.hit /\ w.state = "RUNNING" /\ w.pending # NoEvent
  <2>1. i \in DOMAIN q /\ ctl'.ctlq[i] = q[i]
    <3>1. CASE ctl'.ctlq = q
      BY <1>22, <3>1
    <3>2. CASE ctl'.ctlq # q
      <4>1. PICK n \in Event : ~IsStart(n) /\ ctl'.ctlq = Append(q, n)
        BY <1>8, <3>2 DEF Follows
      <4> DEFINE p == Append(q, n)
      <4>2. /\ DOMAIN p = DOMAIN q \cup {Len(q) + 1}
            /\ \A j \in DOMAIN q : p[j] = q[j]
            /\ p[Len(q) + 1] = n
        BY <1>5, ElemsAppend
      <4>3. ctl'.ctlq = p
        BY <4>1
      <4> HIDE DEF p
      <4> QED
        BY <1>22, <4>1, <4>2, <4>3
    <3> QED
      BY <3>1, <3>2
  <2>2. i \in Nat /\ i > 0 /\ i + 1 \in DOMAIN ctl.ctlq /\ IsStart(ctl.ctlq[i + 1])
    BY <1>9, <1>22, <2>1
  <2>3. ctl.observed = {} /\ ~ctl.hit /\ i + 1 = 2 /\ ctl.ctlq[1].kind = "UserMessage"
    BY <2>2 DEF Limited, Beginning
  <2>4. i = 1 /\ e.kind = "UserMessage"
    BY <1>9, <2>2, <2>3 DEF e
  <2>5. Recalls(ctl, e, w) /\ w.observed = ctl.observed
    BY <1>2, <2>4 DEF Handled, Took, Ignores, Settles, Resumes, Enters, Starts, Stops,
         Answers, AnswersLate, Observation
  <2>6. w.pending # NoEvent /\ w.state = "RUNNING" /\ ~w.hit
    BY <2>3, <2>5, EventType DEF Recalls, Extended, Level
  <2>7. ctl' = w /\ busy' = FALSE
    BY <1>2, <2>6 DEF MayStep
  <2> QED
    BY <2>3, <2>4, <2>5, <2>6, <2>7
<1>23. Beginning(ctl)'
  BY <1>21, <1>22 DEF Beginning
<1>24. NotStarting'
  <2>1. ASSUME NEW x \in Elems(ctl'.ctlq), IsStart(x)
        PROVE  busy' = FALSE
    <3>1. PICK i \in DOMAIN ctl'.ctlq : x = ctl'.ctlq[i]
      BY <2>1 DEF Elems
    <3> QED
      BY <1>22, <2>1, <3>1
  <2> QED
    BY <2>1 DEF NotStarting
<1> QED
  BY <1>12, <1>19, <1>23, <1>24 DEF Limited
(* What the others add to the queue keeps its order and its beginning.     *)
Aside ==
    \/ busy /\ ~busy' /\ ctl'.state # "LOADING"
    \/ busy' = busy /\ ctl'.state = ctl.state /\ ctl'.pending = ctl.pending
    \/ busy' = busy /\ \E n : Fails(ctl, ctl', n)

LEMMA LimitedFollows ==
    ASSUME Typed, Limited, ctl' \in World, NEW K, Follows(ctl.ctlq, ctl.next, ctl', K),
           ctl'.hit = ctl.hit, ctl'.observed = ctl.observed, Aside
    PROVE  /\ Ordered(ctl') /\ Beginning(ctl') /\ NotStarting'
           /\ \A e \in Elems(ctl'.ctlq) : e.id = 1 => ~ctl'.hit
<1> DEFINE q == ctl.ctlq
           m == ctl.next
           x == ctl'
<1>1. /\ q \in Seq(Event) /\ m \in Nat /\ m > 1 /\ Increasing(q)
      /\ \A e \in Elems(q) : e.id >= 1 /\ e.id < m
      /\ x \in World /\ Follows(q, m, x, K)
  BY DEF Typed, TypeOK, World, Limited, Ordered
<1> HIDE DEF m, x, q
<1>2. DOMAIN q = 1..Len(q) /\ Len(q) \in Nat
  BY <1>1
<1>3. /\ DOMAIN q \subseteq DOMAIN x.ctlq /\ \A i \in DOMAIN q : x.ctlq[i] = q[i]
      /\ Len(x.ctlq) >= Len(q)
      /\ \A i \in DOMAIN x.ctlq : IsStart(x.ctlq[i]) => i \in DOMAIN q
      /\ q # <<>> => x.ctlq # <<>> /\ 1 \in DOMAIN q
  <2>1. CASE x.ctlq = q
    BY <1>1, <2>1
  <2>2. CASE x.ctlq # q
    <3>1. PICK n \in Event : ~IsStart(n) /\ x.ctlq = Append(q, n)
      BY <1>1, <2>2 DEF Follows
    <3> DEFINE p == Append(q, n)
    <3>2. /\ DOMAIN p = DOMAIN q \cup {Len(q) + 1} /\ p # <<>>
          /\ \A j \in DOMAIN q : p[j] = q[j]
          /\ p[Len(q) + 1] = n /\ Len(p) = Len(q) + 1
      BY <1>1, ElemsAppend
    <3>3. x.ctlq = p
      BY <3>1
    <3>4. q # <<>> => 1 \in DOMAIN q
      BY <1>1
    <3> HIDE DEF p
    <3>5. \A i \in DOMAIN p : IsStart(p[i]) => i \in DOMAIN q
      BY <3>1, <3>2
    <3>6. DOMAIN q \subseteq DOMAIN p /\ Len(p) >= Len(q)
      BY <1>2, <3>2
    <3> QED
      BY <3>2, <3>3, <3>4, <3>5, <3>6
  <2> QED
    BY <2>1, <2>2
<1>4. Ordered(x) /\ \A e \in Elems(x.ctlq) : e \in Elems(q) \/ e.id = m
  <2>1. /\ Ordered(x)
        /\ \A e \in Elems(x.ctlq) : e \in Elems(q) \/ (e.id = m /\ e.kind \in K /\ ~IsStart(e))
    BY <1>1, FollowsOrdered
  <2> QED
    BY <2>1
<1>5. \A e \in Elems(x.ctlq) : e.id = 1 => ~x.hit
  BY <1>1, <1>4 DEF Limited, Budget, x, q
<1>6. x.state = "LOADING" => x.ctlq # <<>> /\ x.ctlq[1].kind \in {"UserMessage", "ChangeState"}
  <2>1. x.state = "LOADING" => ctl.state = "LOADING"
    BY DEF Aside, Fails, x
  <2>2. ctl.state = "LOADING" => q # <<>> /\ q[1].kind \in {"UserMessage", "ChangeState"}
    BY DEF Limited, Beginning, q
  <2> QED
    BY <1>3, <2>1, <2>2
<1>7. ASSUME NEW i \in DOMAIN x.ctlq, IsStart(x.ctlq[i])
      PROVE  /\ x.observed = {} /\ ~x.hit /\ ~busy'
             /\ \/ i = 2 /\ x.ctlq[1].kind = "UserMessage"
                \/ i = 1 /\ x.state = "RUNNING" /\ x.pending # NoEvent
                \/ i = 1 /\ x.state = "ERROR" /\ x.pending = NoEvent /\ Len(x.ctlq) > 1
  <2>1. i \in DOMAIN q /\ IsStart(q[i]) /\ q[i] \in Elems(q)
    BY <1>3, <1>7 DEF Elems
  <2>2. /\ ctl.observed = {} /\ ~ctl.hit
        /\ \/ i = 2 /\ q[1].kind = "UserMessage"
           \/ i = 1 /\ ctl.state = "RUNNING" /\ ctl.pending # NoEvent
           \/ i = 1 /\ ctl.state = "ERROR" /\ ctl.pending = NoEvent /\ Len(q) > 1
    BY <2>1 DEF Limited, Beginning, q
  <2>3. ~busy
    BY <2>1 DEF Limited, NotStarting, q
  <2>4. x.observed = {} /\ ~x.hit /\ ~busy'
    BY <2>2, <2>3 DEF Aside, x
  <2>5. CASE i = 2 /\ q[1].kind = "UserMessage"
    <3>1. 1 \in DOMAIN q
      BY <1>2, <2>1, <2>5
    <3> QED
      BY <1>3, <2>4, <2>5, <3>1
  <2>6. CASE i = 1 /\ ctl.state = "RUNNING" /\ ctl.pending # NoEvent
    <3>1. CASE x.state = ctl.state /\ x.pending = ctl.pending
      BY <2>4, <2>6, <3>1
    <3>2. CASE \E n : Fails(ctl, x, n)
      <4>1. x.state = "ERROR" /\ x.pending = NoEvent
        BY <2>6, <3>2 DEF Fails
      <4>2. Unanswered(ctl)
        BY <2>2, <2>6 DEF Unanswered
      <4>3. \E e \in Event : x.ctlq = Append(q, e)
        BY <2>6, <3>2, <4>2 DEF Fails, q
      <4>4. Len(x.ctlq) = Len(q) + 1
        BY <1>1, <4>3, ElemsAppend
      <4>5. Len(x.ctlq) > 1
        BY <1>2, <2>1, <4>4
      <4> QED
        BY <2>4, <2>6, <4>1, <4>5
    <3> QED
      BY <2>3, <3>1, <3>2 DEF Aside, x
  <2>7. CASE i = 1 /\ ctl.state = "ERROR" /\ ctl.pending = NoEvent /\ Len(q) > 1
    <3>1. x.state = "ERROR" /\ x.pending = NoEvent
      BY <2>3, <2>7 DEF Aside, Fails, x
    <3>2. Len(x.ctlq) > 1
      <4>1. Len(x.ctlq) >= Len(q) /\ Len(x.ctlq) \in Nat
        BY <1>1, <1>3 DEF World
      <4> QED
        BY <1>2, <2>7, <4>1
    <3> QED
      BY <2>4, <2>7, <3>1, <3>2
  <2> QED
    BY <2>2, <2>5, <2>6, <2>7
<1>8. Beginning(x)
  BY <1>6, <1>7 DEF Beginning
<1>9. busy' => \A e \in Elems(x.ctlq) : ~IsStart(e)
  BY <1>7 DEF Elems
<1> QED
  BY <1>4, <1>5, <1>8, <1>9 DEF NotStarting, x
(* Everybody but the event handler and the user.                           *)
Others == Step \/ Alert \/ Runtime \/ AnswerRecall \/ ReportFailure \/ Show

LEMMA OthersCases ==
    ASSUME Typed, Others
    PROVE  /\ Follows(ctl.ctlq, ctl.next, ctl', Internal) /\ Aside /\ ctl' \in World
           /\ ctl'.hit = ctl.hit /\ ctl'.observed = ctl.observed /\ ctl'.max = ctl.max
           /\ ctl'.iter = ctl.iter /\ UNCHANGED <<mode, inputs>>
<1>0. TypeOK /\ Routed(ctl) /\ Thinking /\ ctl \in World /\ ctl.next \in Nat
  BY DEF Typed, TypeOK, World
<1>1. CASE Think
  <2>1. /\ Beneath(ctl, ctl') /\ ctl'.next = ctl.next + 1 /\ ctl'.ctlq = ctl.ctlq
    BY <1>0, <1>1, ThinkCases
  <2>2. busy /\ busy' = FALSE /\ UNCHANGED <<mode, inputs>>
    BY <1>1 DEF Think
  <2>3. ctl'.state # "LOADING"
    BY <1>0, <2>1, <2>2 DEF Beneath, Thinking
  <2>4. Follows(ctl.ctlq, ctl.next, ctl', Internal)
    BY <1>0, <2>1 DEF Follows
  <2>5. Aside
    BY <2>2, <2>3 DEF Aside
  <2> QED
    BY <2>1, <2>2, <2>4, <2>5 DEF Beneath
<1>2. ASSUME NEW conf \in {"none", "awaiting"}, AskRuntime(conf)
      PROVE  /\ Follows(ctl.ctlq, ctl.next, ctl', Internal) /\ Aside /\ ctl' \in World
             /\ ctl'.hit = ctl.hit /\ ctl'.observed = ctl.observed /\ ctl'.max = ctl.max
             /\ ctl'.iter = ctl.iter /\ UNCHANGED <<mode, inputs>>
  <2>1. Sends(ctl, ctl') \/ Holds(ctl, ctl')
    BY <1>0, <1>2, AskRuntimeCases DEF Thinking
  <2>2. busy /\ busy' = FALSE /\ UNCHANGED <<mode, inputs>>
    BY <1>2 DEF AskRuntime
  <2>3. Asked(ctl, ctl') /\ ctl'.state # "LOADING"
    BY <1>0, <2>1, <2>2 DEF Sends, Holds, Thinking
  <2>4. ctl'.next >= ctl.next
    BY <1>0, <2>3 DEF Asked, World
  <2> QED
    BY <2>2, <2>3, <2>4 DEF Asked, Follows, Aside
<1>3. ASSUME NEW e \in Event, e.kind \in Internal, Posts(ctl, ctl', e), UNCHANGED <<mode, inputs>>,
             busy' = busy \/ (busy /\ ~busy')
      PROVE  /\ Follows(ctl.ctlq, ctl.next, ctl', Internal) /\ Aside /\ ctl' \in World
             /\ ctl'.hit = ctl.hit /\ ctl'.observed = ctl.observed /\ ctl'.max = ctl.max
             /\ ctl'.iter = ctl.iter /\ UNCHANGED <<mode, inputs>>
  <2>1. ~IsStart(e) /\ e.id = ctl.next /\ ctl'.next > ctl.next /\ ctl'.next >= ctl.next
    BY <1>0, <1>3 DEF Internal, IsStart, Posts
  <2>2. Follows(ctl.ctlq, ctl.next, ctl', Internal)
    BY <1>3, <2>1 DEF Follows, Posts
  <2> QED
    BY <1>0, <1>3, <2>2 DEF Posts, Beneath, Aside, Thinking
<1>4. ASSUME NEW k \in {"AgentMessage", "Question", "Finish", "Reject", "Malformed", "Condense"},
             Say(k)
      PROVE  /\ Follows(ctl.ctlq, ctl.next, ctl', Internal) /\ Aside /\ ctl' \in World
             /\ ctl'.hit = ctl.hit /\ ctl'.observed = ctl.observed /\ ctl'.max = ctl.max
             /\ ctl'.iter = ctl.iter /\ UNCHANGED <<mode, inputs>>
  <2>1. k \in Kind /\ k \in CtlKind /\ k \in Internal
    BY DEF Kind, CtlKind, Internal
  <2>2. PICK e \in Event : Posts(ctl, ctl', e) /\ e.kind = k
    BY <1>0, <1>4, <2>1, SayCases
  <2>3. busy /\ busy' = FALSE /\ UNCHANGED <<mode, inputs>>
    BY <1>4 DEF Say
  <2> QED
    BY <1>3, <2>1, <2>2, <2>3
<1>5. ASSUME NEW n, Fails(ctl, ctl', n), UNCHANGED <<mode, inputs>>,
             busy' = busy \/ (busy /\ ~busy')
      PROVE  /\ Follows(ctl.ctlq, ctl.next, ctl', Internal) /\ Aside /\ ctl' \in World
             /\ ctl'.hit = ctl.hit /\ ctl'.observed = ctl.observed /\ ctl'.max = ctl.max
             /\ ctl'.iter = ctl.iter /\ UNCHANGED <<mode, inputs>>
  <2>1. ctl'.next \in Nat
    BY <1>5 DEF Fails, World
  <2>2. Follows(ctl.ctlq, ctl.next, ctl', Internal)
    BY <1>0, <1>5, <2>1 DEF Fails, Follows, IsStart, Internal, CtlKind
  <2>3. Aside
    BY <1>5 DEF Aside, Fails
  <2> QED
    BY <1>5, <2>2, <2>3 DEF Fails
<1>6. CASE LLMFails
  <2>1. Pauses(ctl, ctl') \/ \E n : Fails(ctl, ctl', n)
    BY <1>0, <1>6, LLMFailsCases DEF Thinking
  <2>2. busy /\ busy' = FALSE /\ UNCHANGED <<mode, inputs>>
    BY <1>6 DEF LLMFails
  <2>3. CASE Pauses(ctl, ctl')
    <3>1. ctl'.next >= ctl.next
      BY <1>0, <2>3 DEF Pauses, World
    <3> QED
      BY <2>2, <2>3, <3>1 DEF Pauses, Follows, Aside
  <2> QED
    BY <1>5, <2>1, <2>2, <2>3
<1>7. CASE Alert
  <2>1. \E n : Fails(ctl, ctl', n)
    BY <1>0, <1>7, AlertCases
  <2>2. UNCHANGED <<mode, inputs, busy>>
    BY <1>7 DEF Alert
  <2> QED
    BY <1>5, <2>1, <2>2
<1>8. CASE FinishAction
  <2>1. PICK e \in Event : Posts(ctl, ctl', e) /\ e.kind = "Result"
    BY <1>0, <1>8, FinishActionCases
  <2>2. UNCHANGED <<mode, inputs, busy>>
    BY <1>8 DEF FinishAction
  <2> QED
    BY <1>3, <2>1, <2>2 DEF Internal, CtlKind
<1>9. CASE StartAction \/ FailAction \/ ReportFailure \/ Show
  <2>1. Beneath(ctl, ctl') /\ ctl'.next = ctl.next /\ ctl'.ctlq = ctl.ctlq
    BY <1>0, <1>9, StartActionCases, FailActionCases, ReportFailureCases, ShowCases
  <2>2. UNCHANGED <<mode, inputs, busy>>
    BY <1>9 DEF StartAction, FailAction, ReportFailure, Show
  <2> QED
    BY <1>0, <2>1, <2>2 DEF Beneath, Follows, Aside
<1>10. CASE AnswerRecall
  <2>1. /\ Beneath(ctl, ctl') /\ ctl'.next >= ctl.next
        /\ \/ ctl'.ctlq = ctl.ctlq
           \/ \E e \in Event : /\ e.kind \in {"Recalled", "Nothing"}
                               /\ e.id = ctl.next /\ ctl'.next = ctl.next + 1
                               /\ ctl'.ctlq = Append(ctl.ctlq, e)
    BY <1>0, <1>10, AnswerRecallCases
  <2>2. UNCHANGED <<mode, inputs, busy>>
    BY <1>10 DEF AnswerRecall
  <2>3. Follows(ctl.ctlq, ctl.next, ctl', Internal)
    <3>1. CASE ctl'.ctlq = ctl.ctlq
      BY <2>1, <3>1 DEF Follows
    <3>2. CASE ctl'.ctlq # ctl.ctlq
      <4>1. PICK e \in Event : /\ e.kind \in {"Recalled", "Nothing"}
                               /\ e.id = ctl.next /\ ctl'.next = ctl.next + 1
                               /\ ctl'.ctlq = Append(ctl.ctlq, e)
        BY <2>1, <3>2
      <4>2. ~IsStart(e) /\ e.kind \in Internal /\ ctl'.next > ctl.next
        BY <1>0, <4>1 DEF IsStart, Internal, CtlKind
      <4> QED
        BY <2>1, <4>1, <4>2 DEF Follows
    <3> QED
      BY <3>1, <3>2
  <2> QED
    BY <2>1, <2>2, <2>3 DEF Beneath, Aside
<1> QED
  BY <1>1, <1>2, <1>4, <1>6, <1>7, <1>8, <1>9, <1>10 DEF Others, Step, Runtime

LEMMA LimitedOthers ==
    ASSUME Typed, Limited, Others
    PROVE  Limited'
<1>1. /\ Follows(ctl.ctlq, ctl.next, ctl', Internal) /\ Aside /\ ctl' \in World
      /\ ctl'.hit = ctl.hit /\ ctl'.observed = ctl.observed /\ ctl'.max = ctl.max
      /\ UNCHANGED <<mode, inputs>>
  BY OthersCases
<1>2. /\ Ordered(ctl)' /\ Beginning(ctl)' /\ NotStarting'
      /\ \A e \in Elems(ctl'.ctlq) : e.id = 1 => ~ctl'.hit
  BY <1>1, LimitedFollows DEF Ordered, Beginning
<1>3. Owed(ctl'.ctlq) = Owed(ctl.ctlq)
  <2>1. ctl.ctlq \in Seq(Event) /\ "UserMessage" \notin Internal
    BY DEF Typed, TypeOK, World, Internal
  <2> QED
    BY <1>1, <2>1, OwedFollows
<1>4. Budget(ctl)'
  BY <1>1, <1>2, <1>3 DEF Limited, Budget
<1> QED
  BY <1>2, <1>4 DEF Limited

(* An input of the user is worth an extension.                             *)
LEMMA LimitedInput ==
    ASSUME Typed, Limited, NEW e0 \in Event,
           e0.kind \in {"UserMessage", "ChangeState"}, ~IsStart(e0), UserInput(e0)
    PROVE  Limited'
<1>0. /\ TypeOK /\ ctl \in World /\ mode \in Modes /\ inputs \in Nat /\ ctl.next \in Nat
      /\ ctl.ctlq \in Seq(Event) /\ ctl.max \in Nat
  BY DEF Typed, TypeOK, World
<1>1. PICK e \in Event : Posts(ctl, ctl', e) /\ e.kind = e0.kind /\ e.to = e0.to
  BY <1>0, UserInputCases DEF CtlKind
<1>2. inputs' = inputs + 1 /\ UNCHANGED <<mode, busy>>
  BY DEF UserInput
<1>3. Follows(ctl.ctlq, ctl.next, ctl', CtlKind)
  <2>1. ctl'.next >= ctl.next /\ ctl'.next > ctl.next
    BY <1>0, <1>1 DEF Posts
  <2> QED
    BY <1>1, <2>1 DEF Posts, Follows, IsStart, CtlKind
<1>4. /\ ctl' \in World /\ ctl'.hit = ctl.hit /\ ctl'.observed = ctl.observed /\ Aside
      /\ ctl'.max = ctl.max
  BY <1>1, <1>2 DEF Posts, Beneath, Aside
<1>5. /\ Ordered(ctl)' /\ Beginning(ctl)' /\ NotStarting'
      /\ \A x \in Elems(ctl'.ctlq) : x.id = 1 => ~ctl'.hit
  BY <1>3, <1>4, LimitedFollows DEF Ordered, Beginning
<1>6. Budget(ctl)'
  <2> DEFINE S == Owed(ctl.ctlq)
             T == Owed(ctl'.ctlq)
             d == mode.delta
             total == d * (1 + inputs)
             total1 == d * (1 + inputs')
  <2>1. d \in Nat /\ total \in Nat /\ total1 = total + d
    <3>1. d \in Nat /\ inputs' = inputs + 1
      BY <1>0, <1>2, ModeType
    <3> HIDE DEF d
    <3>2. d * (1 + (inputs + 1)) = d * (1 + inputs) + d /\ d * (1 + inputs) \in Nat
      BY <1>0, <3>1
    <3> QED
      BY <3>1, <3>2
  <2>2. IsFiniteSet(S) /\ ctl.max + d * Cardinality(S) <= total
    BY DEF Limited, Budget
  <2>3. T \subseteq S \cup {e.id}
    <3>1. Elems(ctl'.ctlq) = Elems(ctl.ctlq) \cup {e}
      BY <1>0, <1>1, ElemsAppend DEF Posts
    <3> QED
      BY <3>1 DEF Owed
  <2> HIDE DEF S, T, d, total, total1
  <2>4. IsFiniteSet(S \cup {e.id}) /\ Cardinality(S \cup {e.id}) <= Cardinality(S) + 1
        /\ Cardinality(S) \in Nat
    <3>1. /\ IsFiniteSet(S \cup {e.id}) /\ Cardinality(S) \in Nat
          /\ Cardinality(S \cup {e.id}) = IF e.id \in S THEN Cardinality(S) ELSE Cardinality(S) + 1
      BY <2>2, FS_AddElement, FS_CardinalityType
    <3> QED
      BY <3>1
  <2>5. IsFiniteSet(T) /\ Cardinality(T) \in Nat /\ Cardinality(T) <= Cardinality(S) + 1
    <3>1. /\ IsFiniteSet(T) /\ Cardinality(T) <= Cardinality(S \cup {e.id})
          /\ Cardinality(T) \in Nat /\ Cardinality(S \cup {e.id}) \in Nat
      BY <2>3, <2>4, FS_Subset, FS_CardinalityType
    <3> QED
      BY <2>4, <3>1
  <2>6. ctl.max + d * Cardinality(T) <= total1
    <3> DEFINE s == Cardinality(S)
               t == Cardinality(T)
    <3>1. s \in Nat /\ t \in Nat /\ t <= s + 1
      BY <2>4, <2>5
    <3>2. ctl.max + d * s <= total
      BY <2>2
    <3> HIDE DEF s, t
    <3>3. d * t <= d * (s + 1) /\ d * (s + 1) = d * s + d /\ d * t \in Nat /\ d * s \in Nat
      BY <2>1, <3>1
    <3>4. ctl.max + d * t <= total1
      BY <1>0, <2>1, <3>2, <3>3
    <3> QED
      BY <3>4 DEF t
  <2> QED
    BY <1>2, <1>4, <1>5, <2>5, <2>6 DEF Budget, T, d, total1
<1> QED
  BY <1>5, <1>6 DEF Limited
LEMMA AppendSecond ==
    ASSUME NEW a \in Event, NEW b \in Event
    PROVE  Append(<<a>>, b) = <<a, b>>
<1> DEFINE q == <<a>>
           r == <<a, b>>
<1>1. q \in Seq(Event) /\ Len(q) = 1 /\ q[1] = a /\ DOMAIN q = {1}
  OBVIOUS
<1>2. r \in Seq(Event) /\ Len(r) = 2 /\ r[1] = a /\ r[2] = b
  OBVIOUS
<1> HIDE DEF q, r
<1> DEFINE s == Append(q, b)
<1>3. s \in Seq(Event) /\ Len(s) = Len(q) + 1 /\ s[Len(q) + 1] = b /\ s[1] = q[1]
  BY <1>1, ElemsAppend
<1> HIDE DEF s
<1>4. Len(s) = 2 /\ s[1] = a /\ s[2] = b
  BY <1>1, <1>3
<1>5. s = r
  BY <1>2, <1>3, <1>4
<1> QED
  BY <1>5 DEF q, r, s

LEMMA LimitedInit ==
    ASSUME Init
    PROVE  Limited
<1> DEFINE m == Ev("UserMessage")
           w1 == Emit(NewWorld, m)
           e1 == Numbering(NewWorld, m)
<1>1. mode \in Modes /\ mode.delta \in Nat /\ mode.delta > 0
  BY ModeType DEF Init
<1>2. /\ NewWorld \in World /\ NewWorld.max = mode.delta /\ NewWorld.next = 1 /\ ~NewWorld.hit
      /\ NewWorld.ctlq = <<>> /\ NewWorld.observed = {} /\ NewWorld.state = "LOADING"
  <2>1. NoEvent \in Event /\ <<>> \in Seq(Event) /\ "LOADING" \in AgentState
    BY EventType DEF AgentState
  <2> QED
    BY <1>1, <2>1 DEF NewWorld, World
<1>3. /\ m \in Event /\ m.kind = "UserMessage" /\ m.kind \in CtlKind
  BY EventType DEF Kind, CtlKind
<1>4. \A s \in {"RUNNING", "AWAITING_USER_INPUT"} :
         /\ Change(s) \in Event /\ Change(s).kind = "ChangeState"
         /\ Change(s).kind \in CtlKind /\ Change(s).to = s
  BY EventType DEF AgentState, CtlKind
<1>5. Posts(NewWorld, w1, e1) /\ e1 \in Event /\ e1.kind = "UserMessage"
  BY <1>2, <1>3, PostsFacts, NumberingType
<1>6. /\ w1 \in World /\ w1.max = mode.delta /\ w1.next = 2 /\ ~w1.hit
      /\ w1.ctlq = <<e1>> /\ w1.observed = {} /\ w1.state = "LOADING" /\ e1.id = 1
  BY <1>2, <1>5 DEF Posts, Beneath
<1> HIDE DEF m, w1, e1
<1>7. ctl = Emit(w1, Change("RUNNING")) \/ ctl = Emit(NewWorld, Change("AWAITING_USER_INPUT"))
  BY DEF Init, w1, m
<1>8. /\ ctl.max = mode.delta /\ ~ctl.hit /\ ctl.observed = {} /\ ctl.next > 1
      /\ \E e2 \in Event :
            \/ /\ ctl.ctlq = <<e1, e2>> /\ e2.id = 2 /\ ctl.next = 3
            \/ /\ ctl.ctlq = <<e2>> /\ e2.id = 1 /\ ctl.next = 2
               /\ e2.kind = "ChangeState" /\ ~IsStart(e2)
      /\ \A e \in Elems(ctl.ctlq) : e = e1 \/ e.kind # "UserMessage"
  <2>1. CASE ctl = Emit(w1, Change("RUNNING"))
    <3> DEFINE c == Change("RUNNING")
               e2 == Numbering(w1, c)
    <3>1. c \in Event /\ c.kind = "ChangeState" /\ c.kind \in CtlKind
      BY <1>4
    <3>2. Posts(w1, Emit(w1, c), e2) /\ e2 \in Event /\ e2.kind = "ChangeState"
      BY <1>6, <3>1, PostsFacts, NumberingType
    <3>3. Posts(w1, ctl, e2)
      BY <2>1, <3>2
    <3> HIDE DEF e2
    <3>4. ctl.ctlq = <<e1, e2>> /\ e2.id = 2 /\ ctl.next = 3
      <4>1. ctl.ctlq = Append(w1.ctlq, e2) /\ e2.id = w1.next /\ ctl.next = w1.next + 1
        BY <3>1, <3>2, <3>3 DEF Posts
      <4>2. w1.ctlq = <<e1>> /\ w1.next = 2
        BY <1>6
      <4>3. Append(<<e1>>, e2) = <<e1, e2>>
        BY <1>5, <3>2, AppendSecond
      <4> QED
        BY <4>1, <4>2, <4>3
    <3>5. ctl.max = mode.delta /\ ~ctl.hit /\ ctl.observed = {}
      BY <1>6, <3>3 DEF Posts, Beneath
    <3>6. \A e \in Elems(ctl.ctlq) : e = e1 \/ e.kind # "UserMessage"
      BY <3>2, <3>4 DEF Elems
    <3> QED
      BY <3>2, <3>4, <3>5, <3>6
  <2>2. CASE ctl = Emit(NewWorld, Change("AWAITING_USER_INPUT"))
    <3> DEFINE c == Change("AWAITING_USER_INPUT")
               e2 == Numbering(NewWorld, c)
    <3>1. /\ c \in Event /\ c.kind = "ChangeState" /\ c.kind \in CtlKind
          /\ c.to = "AWAITING_USER_INPUT"
      BY <1>4
    <3>2. /\ Posts(NewWorld, Emit(NewWorld, c), e2) /\ e2 \in Event /\ e2.kind = "ChangeState"
          /\ e2.to = "AWAITING_USER_INPUT"
      BY <1>2, <3>1, PostsFacts, NumberingType
    <3>3. Posts(NewWorld, ctl, e2)
      BY <2>2, <3>2
    <3> HIDE DEF e2
    <3>4. ctl.ctlq = <<e2>> /\ e2.id = 1 /\ ctl.next = 2 /\ ~IsStart(e2)
      BY <1>2, <3>2, <3>3 DEF Posts, IsStart
    <3>5. ctl.max = mode.delta /\ ~ctl.hit /\ ctl.observed = {}
      BY <1>2, <3>3 DEF Posts, Beneath
    <3>6. \A e \in Elems(ctl.ctlq) : e = e1 \/ e.kind # "UserMessage"
      BY <3>2, <3>4 DEF Elems
    <3> QED
      BY <3>2, <3>4, <3>5, <3>6
  <2> QED
    BY <1>7, <2>1, <2>2
<1>9. PICK e2 \in Event :
         \/ /\ ctl.ctlq = <<e1, e2>> /\ e2.id = 2 /\ ctl.next = 3
         \/ /\ ctl.ctlq = <<e2>> /\ e2.id = 1 /\ ctl.next = 2
            /\ e2.kind = "ChangeState" /\ ~IsStart(e2)
  BY <1>8
<1>10. Ordered(ctl)
  <2>1. CASE ctl.ctlq = <<e1, e2>> /\ e2.id = 2 /\ ctl.next = 3
    BY <1>6, <2>1 DEF Ordered, Increasing, Elems
  <2>2. CASE ctl.ctlq = <<e2>> /\ e2.id = 1 /\ ctl.next = 2
    BY <2>2 DEF Ordered, Increasing, Elems
  <2> QED
    BY <1>9, <2>1, <2>2
<1>11. Beginning(ctl)
  <2>1. CASE ctl.ctlq = <<e1, e2>>
    <3>1. ~IsStart(e1)
      BY <1>5 DEF IsStart
    <3> QED
      BY <1>5, <1>8, <2>1, <3>1 DEF Beginning
  <2>2. CASE ctl.ctlq = <<e2>> /\ e2.kind = "ChangeState" /\ ~IsStart(e2)
    BY <1>8, <2>2 DEF Beginning
  <2> QED
    BY <1>9, <2>1, <2>2
<1>12. Budget(ctl)
  <2>1. Owed(ctl.ctlq) = {}
    BY <1>6, <1>8 DEF Owed
  <2>2. IsFiniteSet(Owed(ctl.ctlq)) /\ Cardinality(Owed(ctl.ctlq)) = 0
    BY <2>1, FS_EmptySet
  <2>3. inputs = 0
    BY DEF Init
  <2> DEFINE d == mode.delta
  <2>4. d \in Nat
    BY <1>1
  <2> HIDE DEF d
  <2>5. d + d * 0 <= d * (1 + 0)
    BY <2>4
  <2> QED
    BY <1>8, <2>2, <2>3, <2>5 DEF Budget, d
<1> QED
  BY <1>10, <1>11, <1>12 DEF Limited, NotStarting, Init

THEOREM AlwaysLimited == Spec => []Limited
<1>1. Init => Limited
  BY LimitedInit
<1>2. Typed /\ Limited /\ [Next]_vars => Limited'
  <2> SUFFICES ASSUME Typed, Limited, [Next]_vars
               PROVE  Limited'
    OBVIOUS
  <2>1. CASE HandleEvent
    BY <2>1, LimitedHandle
  <2>2. CASE Others
    BY <2>2, LimitedOthers
  <2>3. CASE SendMessage
    <3>1. Ev("UserMessage") \in Event /\ Ev("UserMessage").kind = "UserMessage"
      BY EventType DEF Kind
    <3> QED
      BY <2>3, <3>1, LimitedInput DEF SendMessage, IsStart
  <2>5. CASE PressStop
    <3>1. /\ Change("STOPPED") \in Event /\ Change("STOPPED").kind = "ChangeState"
          /\ Change("STOPPED").to = "STOPPED"
      BY EventType DEF AgentState
    <3> QED
      BY <2>5, <3>1, LimitedInput DEF PressStop, IsStart
  <2>6. ASSUME NEW a \in {"USER_CONFIRMED", "USER_REJECTED"}, Click(a)
        PROVE  Limited'
    <3> DEFINE e == [Change(a) EXCEPT !.act = view.act]
    <3>1. view.act \in Nat
      BY DEF Typed, TypeOK
    <3>2. e \in Event /\ e.kind = "ChangeState" /\ e.to = a /\ a # "RUNNING"
      BY <3>1, ClickType DEF Answer
    <3>3. UserInput(e)
      BY <2>6 DEF Click
    <3> HIDE DEF e
    <3> QED
      BY <3>2, <3>3, LimitedInput DEF IsStart
  <2>7. CASE UNCHANGED vars
    BY <2>7 DEF vars, Limited, Ordered, Beginning, NotStarting, Budget
  <2> QED
    BY <2>1, <2>2, <2>3, <2>5, <2>6, <2>7 DEF Next, Others, User
<1> QED
  BY <1>1, <1>2, AlwaysTyped, PTL DEF Spec

(* However the agent fails and recovers, its iterations never exceed one   *)
(* limit and one extension for each input of the user.                     *)
THEOREM LimitIsTheUsers == Spec => []LimitNeedsUser
<1>1. Typed /\ Limited => LimitNeedsUser
  <2> SUFFICES ASSUME Typed, Limited
               PROVE  LimitNeedsUser
    OBVIOUS
  <2> DEFINE d == mode.delta
             n == Cardinality(Owed(ctl.ctlq))
             total == d * (1 + inputs)
  <2>1. /\ ctl.iter \in Nat /\ ctl.max \in Nat /\ ctl.iter <= ctl.max
        /\ mode \in Modes /\ inputs \in Nat
    BY DEF Typed, TypeOK, World
  <2>2. d \in Nat /\ total \in Nat
    BY <2>1, ModeType
  <2>3. n \in Nat /\ ctl.max + d * n <= total
    BY FS_CardinalityType DEF Limited, Budget
  <2> HIDE DEF d, n, total
  <2>4. d * n \in Nat
    BY <2>2, <2>3
  <2>5. ctl.iter <= total
    BY <2>1, <2>2, <2>3, <2>4
  <2> QED
    BY <2>5 DEF LimitNeedsUser, total, d
<1> QED
  BY <1>1, AlwaysTyped, AlwaysLimited, PTL
-----------------------------------------------------------------------------
(***************************************************************************)
(* What the user is asked.  A held action is offered to him once: on its   *)
(* way to the screen, then on the screen, then in an answer on its way     *)
(* back, and it is not in two of these places.  As long as it is in one    *)
(* of them it has not been put on the stream a second time, unless an      *)
(* answer to another action did it.                                        *)
(***************************************************************************)
IsAnswer(e) == e.kind = "ChangeState" /\ e.to \in Answer

(* The actions that the events of a kind are about, and that none of them  *)
(* is named twice.                                                         *)
ActsOf(q, k) == {e.act : e \in {x \in Elems(q) : x.kind = k /\ x.act # 0}}
ActsOnce(q, k) ==
    \A i, j \in DOMAIN q :
        /\ q[i].kind = k /\ q[j].kind = k
        /\ q[i].act # 0 /\ q[i].act = q[j].act
        => i = j

Clicked(w) == ActsOf(w.ctlq, "ChangeState")
Offered(w) == ActsOf(w.cliq, "Run")
Asks(w, v) == Clicked(w) \cup Offered(w) \cup ({v.act} \ {0})
Apart(w, v) ==
    /\ ActsOnce(w.ctlq, "ChangeState") /\ ActsOnce(w.cliq, "Run")
    /\ Clicked(w) \cap Offered(w) = {}
    /\ v.act \notin Clicked(w) /\ v.act \notin Offered(w)
    /\ Asks(w, v) \subseteq issued
Untaken(w, v) ==
    w.pending.kind = "Run" /\ w.pending.act \in Asks(w, v)
    => w.pending.conf = "awaiting" \/ w.pending.act \in misled
Confirming(w) ==
    \A x \in Elems(w.ctlq) : IsAnswer(x) =>
        x.act # 0 /\ (x.to = "USER_CONFIRMED" => x.act \in approved)
Asking == Apart(ctl, view) /\ Untaken(ctl, view) /\ Confirming(ctl)

LEMMA ActsAppend ==
    ASSUME NEW q \in Seq(Event), NEW e \in Event, NEW k, ActsOnce(q, k),
           e.kind = k => e.act \notin ActsOf(q, k)
    PROVE  /\ ActsOnce(Append(q, e), k)
           /\ e.kind # k => ActsOf(Append(q, e), k) = ActsOf(q, k)
           /\ e.kind = k => ActsOf(Append(q, e), k) = ActsOf(q, k) \cup ({e.act} \ {0})
<1> DEFINE r == Append(q, e)
<1>1. /\ r[Len(q) + 1] = e /\ DOMAIN r = DOMAIN q \cup {Len(q) + 1}
      /\ \A j \in DOMAIN q : r[j] = q[j] /\ q[j] \in Elems(q)
      /\ Elems(r) = Elems(q) \cup {e}
  BY ElemsAppend DEF Elems
<1> HIDE DEF r
<1>2. /\ e.kind # k => ActsOf(r, k) = ActsOf(q, k)
      /\ e.kind = k => ActsOf(r, k) = ActsOf(q, k) \cup ({e.act} \ {0})
  BY <1>1 DEF ActsOf
<1>3. ASSUME NEW i \in DOMAIN r, NEW j \in DOMAIN r, r[i].kind = k, r[j].kind = k,
             r[i].act # 0, r[i].act = r[j].act
      PROVE  i = j
  <2>1. CASE i \in DOMAIN q /\ j \in DOMAIN q
    BY <1>1, <1>3, <2>1 DEF ActsOnce
  <2>2. CASE i \in DOMAIN q /\ j \notin DOMAIN q
    <3>1. q[i] \in Elems(q) /\ q[i].kind = k /\ q[i].act # 0 /\ e.kind = k /\ q[i].act = e.act
      BY <1>1, <1>3, <2>2
    <3>2. e.act \in ActsOf(q, k)
      BY <3>1 DEF ActsOf
    <3> QED
      BY <3>1, <3>2
  <2>3. CASE i \notin DOMAIN q /\ j \in DOMAIN q
    <3>1. q[j] \in Elems(q) /\ q[j].kind = k /\ q[j].act # 0 /\ e.kind = k /\ q[j].act = e.act
      BY <1>1, <1>3, <2>3
    <3>2. e.act \in ActsOf(q, k)
      BY <3>1 DEF ActsOf
    <3> QED
      BY <3>1, <3>2
  <2>4. CASE i \notin DOMAIN q /\ j \notin DOMAIN q
    BY <1>1, <2>4
  <2> QED
    BY <2>1, <2>2, <2>3, <2>4
<1> QED
  BY <1>2, <1>3 DEF ActsOnce, r

LEMMA ActsTail ==
    ASSUME NEW q \in Seq(Event), q # <<>>, NEW k, ActsOnce(q, k)
    PROVE  /\ ActsOnce(Tail(q), k) /\ ActsOf(Tail(q), k) \subseteq ActsOf(q, k)
           /\ Head(q).kind = k /\ Head(q).act # 0 =>
                 Head(q).act \in ActsOf(q, k) /\ Head(q).act \notin ActsOf(Tail(q), k)
<1> DEFINE r == Tail(q)
           h == Head(q)
<1>1. /\ h = q[1] /\ 1 \in DOMAIN q /\ h \in Elems(q) /\ Elems(r) \subseteq Elems(q)
      /\ \A i \in DOMAIN r : i \in Nat /\ i > 0 /\ i + 1 \in DOMAIN q /\ r[i] = q[i + 1]
  BY ElemsHead
<1> HIDE DEF r, h
<1>2. ActsOf(r, k) \subseteq ActsOf(q, k)
  BY <1>1 DEF ActsOf
<1>3. ActsOnce(r, k)
  <2> SUFFICES ASSUME NEW i \in DOMAIN r, NEW j \in DOMAIN r, r[i].kind = k, r[j].kind = k,
                      r[i].act # 0, r[i].act = r[j].act
               PROVE  i = j
    BY DEF ActsOnce
  <2>1. i + 1 = j + 1
    BY <1>1 DEF ActsOnce
  <2> QED
    BY <1>1, <2>1
<1>4. ASSUME h.kind = k, h.act # 0
      PROVE  h.act \in ActsOf(q, k) /\ h.act \notin ActsOf(r, k)
  <2>1. h.act \in ActsOf(q, k)
    BY <1>1, <1>4 DEF ActsOf
  <2>2. ASSUME h.act \in ActsOf(r, k)
        PROVE  FALSE
    <3>1. PICK i \in DOMAIN r : r[i].kind = k /\ r[i].act = h.act
      BY <2>2 DEF ActsOf, Elems
    <3>2. i + 1 = 1
      BY <1>1, <1>4, <3>1 DEF ActsOnce
    <3> QED
      BY <1>1, <3>2
  <2> QED
    BY <2>1, <2>2
<1> QED
  BY <1>2, <1>3, <1>4 DEF r, h

(* Events of other kinds change nothing in what a queue asks or answers.   *)
LEMMA ActsFollow ==
    ASSUME NEW q \in Seq(Event), NEW m, NEW x, NEW K, "ChangeState" \notin K,
           Follows(q, m, x, K), ActsOnce(q, "ChangeState")
    PROVE  /\ ActsOnce(x.ctlq, "ChangeState")
           /\ ActsOf(x.ctlq, "ChangeState") = ActsOf(q, "ChangeState")
           /\ \A e \in Elems(x.ctlq) : e \in Elems(q) \/ ~IsAnswer(e)
<1>1. CASE x.ctlq = q
  BY <1>1
<1>2. CASE x.ctlq # q
  <2>1. PICK n \in Event : n.kind \in K /\ x.ctlq = Append(q, n)
    BY <1>2 DEF Follows
  <2>2. Elems(x.ctlq) = Elems(q) \cup {n}
    BY <2>1, ElemsAppend
  <2>3. n.kind # "ChangeState" /\ ~IsAnswer(n)
    BY <2>1 DEF IsAnswer
  <2> QED
    BY <2>1, <2>2, <2>3, ActsAppend
<1> QED
  BY <1>1, <1>2

LEMMA ActsTold ==
    ASSUME NEW c \in World, NEW w, NEW s, w.cliq = c.cliq \/ Tells(w, c, s),
           ActsOnce(c.cliq, "Run")
    PROVE  ActsOnce(w.cliq, "Run") /\ ActsOf(w.cliq, "Run") = ActsOf(c.cliq, "Run")
<1>1. CASE w.cliq = c.cliq
  BY <1>1
<1>2. CASE w.cliq # c.cliq
  <2>1. PICK e \in Event : e.kind = "StateIs" /\ w.cliq = Append(c.cliq, e)
    BY <1>2 DEF Tells
  <2>2. c.cliq \in Seq(Event) /\ e.kind # "Run"
    BY <2>1 DEF World
  <2> QED
    BY <2>1, <2>2, ActsAppend
<1> QED
  BY <1>1, <1>2

(* An answer uses up the action it is for.                                 *)
LEMMA AskingHandle ==
    ASSUME Typed, Asking, HandleEvent
    PROVE  Asking'
<1> DEFINE e == Head(ctl.ctlq)
           q == Tail(ctl.ctlq)
<1>0. /\ TypeOK /\ Routed(ctl) /\ ctl \in World /\ mode \in Modes
      /\ ctl.ctlq \in Seq(Event) /\ ctl.cliq \in Seq(Event)
  BY DEF Typed, TypeOK, World
<1>1. /\ ~busy /\ ctl.ctlq # <<>> /\ e \in Event /\ e \in Elems(ctl.ctlq)
      /\ q \in Seq(Event) /\ Elems(q) \subseteq Elems(ctl.ctlq)
  BY <1>0, HandleEventCases, ElemsHead
<1>2. PICK w \in World :
         /\ Handled(ctl, e, w)
         /\ \/ ~MayStep(w, e) /\ ctl' = w /\ busy' = FALSE
            \/ MayStep(w, e) /\ Reacts(w, ctl') /\ busy' = FALSE
            \/ MayStep(w, e) /\ Calls(w, ctl') /\ busy' = TRUE
  BY <1>0, HandleEventCases
<1>3. /\ UNCHANGED <<view, issued, approved>>
      /\ misled \subseteq misled'
      /\ Takes(ctl, e) /\ e.act # ctl.pending.act => ctl.pending.act \in misled'
  BY <1>0, HandleEventMisled DEF HandleEvent
<1>4. /\ ActsOnce(q, "ChangeState") /\ ActsOf(q, "ChangeState") \subseteq Clicked(ctl)
      /\ e.kind = "ChangeState" /\ e.act # 0 =>
            e.act \in Clicked(ctl) /\ e.act \notin ActsOf(q, "ChangeState")
  <2>1. ActsOnce(ctl.ctlq, "ChangeState")
    BY DEF Asking, Apart
  <2> QED
    BY <1>0, <1>1, <2>1, ActsTail DEF Clicked
<1>5. Follows(q, ctl.next, w, {"NotRun"})
  BY <1>0, <1>1, <1>2, HandledFollows
<1> HIDE DEF e, q
<1>6. /\ ctl'.ctlq = w.ctlq /\ ctl'.pending = w.pending /\ ctl'.state \in AgentState
      /\ ctl'.cliq = w.cliq \/ Tells(ctl', w, "ERROR")
  BY <1>2 DEF Reacts, Calls, Beyond, World
<1>7. /\ ActsOnce(ctl'.ctlq, "ChangeState") /\ Clicked(ctl') = ActsOf(q, "ChangeState")
      /\ \A x \in Elems(ctl'.ctlq) : x \in Elems(ctl.ctlq) \/ ~IsAnswer(x)
  BY <1>1, <1>4, <1>5, <1>6, ActsFollow DEF Clicked
<1>8. ActsOnce(ctl'.cliq, "Run") /\ Offered(ctl') = Offered(ctl)
  <2>1. w.cliq = ctl.cliq \/ Tells(w, ctl, w.state)
    BY <1>2 DEF Handled, Ignores, Settles, Resumes, Recalls, Enters, Starts, Stops,
                Answers, AnswersLate
  <2>2. ActsOnce(w.cliq, "Run") /\ Offered(w) = Offered(ctl)
    BY <1>0, <2>1, ActsTold DEF Asking, Apart, Offered
  <2> QED
    BY <1>2, <1>6, <2>2, ActsTold DEF Offered
<1>9. Clicked(ctl') \subseteq Clicked(ctl)
  BY <1>4, <1>7
<1>10. Apart(ctl, view)'
  BY <1>3, <1>7, <1>8, <1>9 DEF Asking, Apart, Asks
<1>11. Asks(ctl', view') \subseteq Asks(ctl, view)
  BY <1>3, <1>8, <1>9 DEF Asks
<1>12. Confirming(ctl)'
  BY <1>3, <1>7 DEF Asking, Confirming
<1>13. Untaken(ctl, view)'
  <2>1. CASE ~Answers(ctl, e, w)
    <3>1. w.pending = ctl.pending \/ w.pending.kind # "Run"
      <4>1. NoEvent.kind # "Run"
        BY EventType
      <4> QED
        BY <1>2, <2>1, <4>1 DEF Handled, Ignores, Settles, Resumes, Recalls, Enters, Starts,
                                Stops, AnswersLate
    <3> QED
      BY <1>3, <1>6, <1>11, <3>1 DEF Asking, Untaken
  <2>2. CASE Answers(ctl, e, w)
    <3> SUFFICES ASSUME w.pending.kind = "Run", w.pending.act \in Asks(ctl', view')
                 PROVE  w.pending.act \in misled'
      BY <1>6 DEF Untaken
    <3>1. /\ IsAnswer(e) /\ w.pending.act = ctl.pending.act /\ ctl.pending.kind = "Run"
          /\ w.ctlq = q
      BY <2>2 DEF Answers, IsAnswer, q
    <3>2. e.act # 0
      BY <1>1, <3>1 DEF Asking, Confirming
    <3>3. CASE e.act # ctl.pending.act
      <4>1. e.to # ctl.state /\ ctl.pending # NoEvent
        BY <2>2, <3>1, EventType DEF Answers
      <4>2. Takes(ctl, e)
        BY <3>1, <4>1 DEF Takes, IsAnswer, Answer
      <4> QED
        BY <1>3, <3>1, <3>3, <4>2
    <3>4. CASE e.act = ctl.pending.act
      <4>1. e.act \in Clicked(ctl) /\ e.act \notin Clicked(ctl')
        BY <1>4, <1>7, <3>1, <3>2 DEF IsAnswer
      <4>2. e.act \notin Offered(ctl') /\ e.act # view'.act
        BY <1>3, <1>8, <4>1 DEF Asking, Apart
      <4> QED
        BY <3>1, <3>4, <4>1, <4>2 DEF Asks
    <3> QED
      BY <3>3, <3>4
  <2> QED
    BY <2>1, <2>2
<1> QED
  BY <1>10, <1>12, <1>13 DEF Asking

(* An action is offered when it is issued, and then moves to the screen.   *)
LEMMA AskingOthers ==
    ASSUME Typed, Asking, busy => ctl.iter \notin issued, Others
    PROVE  Asking'
<1>0. /\ TypeOK /\ Routed(ctl) /\ Thinking /\ ctl \in World
      /\ ctl.ctlq \in Seq(Event) /\ ctl.cliq \in Seq(Event)
  BY DEF Typed, TypeOK, World
<1>1. Follows(ctl.ctlq, ctl.next, ctl', Internal)
  BY OthersCases
<1>2. /\ ActsOnce(ctl'.ctlq, "ChangeState") /\ Clicked(ctl') = Clicked(ctl)
      /\ \A x \in Elems(ctl'.ctlq) : x \in Elems(ctl.ctlq) \/ ~IsAnswer(x)
  BY <1>0, <1>1, ActsFollow DEF Asking, Apart, Clicked, Internal
<1>3. UNCHANGED <<approved, misled>>
  BY DEF Others, Step, Think, AskRuntime, Say, LLMFails, Alert, Runtime, StartAction,
         FinishAction, FailAction, AnswerRecall, ReportFailure, Show
<1>4. Confirming(ctl)'
  BY <1>2, <1>3 DEF Asking, Confirming
<1>5. ASSUME ctl'.cliq = ctl.cliq \/ Tells(ctl', ctl, ctl'.state),
             ctl'.pending = ctl.pending \/ ctl'.pending.kind # "Run"
                \/ ctl'.pending.act \notin issued,
             view' = view, issued \subseteq issued'
      PROVE  Asking'
  <2>1. ActsOnce(ctl'.cliq, "Run") /\ Offered(ctl') = Offered(ctl)
    BY <1>0, <1>5, ActsTold DEF Asking, Apart, Offered
  <2>2. Apart(ctl, view)' /\ Asks(ctl', view') = Asks(ctl, view)
    BY <1>2, <1>5, <2>1 DEF Asking, Apart, Asks
  <2>3. Untaken(ctl, view)'
    BY <1>3, <1>5, <2>2 DEF Asking, Apart, Untaken
  <2> QED
    BY <1>4, <2>2, <2>3 DEF Asking
<1>6. CASE Think \/ FinishAction \/ StartAction \/ FailAction \/ AnswerRecall \/ ReportFailure
  <2>1. ctl'.cliq = ctl.cliq /\ ctl'.pending = ctl.pending
    BY <1>0, <1>6, ThinkCases, FinishActionCases, StartActionCases, FailActionCases,
       AnswerRecallCases, ReportFailureCases DEF Beneath, Posts
  <2>2. view' = view /\ issued \subseteq issued'
    BY <1>6 DEF Think, FinishAction, StartAction, FailAction, AnswerRecall, ReportFailure
  <2> QED
    BY <1>5, <2>1, <2>2
<1>7. CASE \E k \in {"AgentMessage", "Question", "Finish", "Reject", "Malformed", "Condense"} :
              Say(k)
  <2>1. PICK k \in {"AgentMessage", "Question", "Finish", "Reject", "Malformed", "Condense"} :
           Say(k)
    BY <1>7
  <2>2. k \in Kind /\ k \in CtlKind
    BY DEF Kind, CtlKind
  <2>3. \E e \in Event : Posts(ctl, ctl', e)
    BY <1>0, <2>1, <2>2, SayCases
  <2>4. view' = view /\ issued' = issued
    BY <2>1 DEF Say
  <2> QED
    BY <1>5, <2>3, <2>4 DEF Posts, Beneath
<1>8. CASE LLMFails \/ Alert
  <2>1. Pauses(ctl, ctl') \/ \E n : Fails(ctl, ctl', n)
    BY <1>0, <1>8, LLMFailsCases, AlertCases DEF Thinking, LLMFails
  <2>2. view' = view /\ issued' = issued
    BY <1>8 DEF LLMFails, Alert
  <2>3. /\ ctl'.cliq = ctl.cliq \/ Tells(ctl', ctl, ctl'.state)
        /\ ctl'.pending = ctl.pending \/ ctl'.pending.kind # "Run"
    BY <2>1, EventType DEF Pauses, Fails
  <2> QED
    BY <1>5, <2>2, <2>3
<1>9. CASE AskRuntime("none")
  <2>1. /\ busy /\ view' = view /\ issued' = issued \cup {ctl.iter}
    BY <1>9 DEF AskRuntime
  <2>2. Sends(ctl, ctl')
    BY <1>0, <1>9, <2>1, AskRuntimeCases DEF Thinking
  <2>3. ctl'.cliq = ctl.cliq /\ ctl'.pending.act \notin issued
    BY <2>1, <2>2 DEF Sends, Asked
  <2> QED
    BY <1>5, <2>1, <2>3
<1>10. CASE AskRuntime("awaiting")
  <2>1. /\ busy /\ view' = view /\ issued' = issued \cup {ctl.iter}
    BY <1>10 DEF AskRuntime
  <2>2. Holds(ctl, ctl')
    BY <1>0, <1>10, <2>1, AskRuntimeCases DEF Thinking
  <2> DEFINE p == ctl'.pending
  <2>3. /\ p.kind = "Run" /\ p.act = ctl.iter /\ p.act \notin issued /\ p.conf = "awaiting"
        /\ p \in Event
    BY <2>1, <2>2 DEF Holds, Asked, World
  <2>4. PICK t \in Event : t.kind = "StateIs" /\ ctl'.cliq = Append(Append(ctl.cliq, t), p)
    BY <2>2 DEF Holds
  <2> DEFINE r == Append(ctl.cliq, t)
  <2>5. /\ r \in Seq(Event) /\ ActsOnce(r, "Run") /\ ActsOf(r, "Run") = Offered(ctl)
    <3>1. t.kind # "Run" /\ ActsOnce(ctl.cliq, "Run")
      BY <2>4 DEF Asking, Apart
    <3> QED
      BY <1>0, <3>1, ActsAppend, ElemsAppend DEF Offered
  <2>6. ctl'.cliq = Append(r, p)
    BY <2>4
  <2>7. p.act \notin Asks(ctl, view)
    BY <2>3 DEF Asking, Apart
  <2> HIDE DEF r, p
  <2>8. /\ ActsOnce(ctl'.cliq, "Run") /\ Offered(ctl') = Offered(ctl) \cup ({p.act} \ {0})
    BY <2>3, <2>5, <2>6, <2>7, ActsAppend DEF Offered, Asks
  <2>9. view.act \notin Offered(ctl')
    BY <2>7, <2>8 DEF Asking, Apart, Asks
  <2>10. Asks(ctl', view') \subseteq issued' /\ Clicked(ctl') \cap Offered(ctl') = {}
    BY <1>2, <2>1, <2>3, <2>7, <2>8 DEF Asking, Apart, Asks
  <2>11. Apart(ctl, view)'
    BY <1>2, <2>1, <2>8, <2>9, <2>10 DEF Asking, Apart
  <2>12. Untaken(ctl, view)'
    BY <2>3 DEF Untaken, p
  <2> QED
    BY <1>4, <2>11, <2>12 DEF Asking
<1>11. CASE Show
  <2> DEFINE e == Head(ctl.cliq)
             q == Tail(ctl.cliq)
  <2>1. /\ ctl.cliq # <<>> /\ e \in Elems(ctl.cliq) /\ ctl'.cliq = q
        /\ ctl'.pending = ctl.pending
        /\ view'.act = IF e.kind = "StateIs" THEN view.act ELSE e.act
    BY <1>0, <1>11, ShowCases DEF Beneath
  <2>2. issued' = issued
    BY <1>11 DEF Show
  <2>3. /\ ActsOnce(q, "Run") /\ ActsOf(q, "Run") \subseteq Offered(ctl)
        /\ e.kind = "Run" /\ e.act # 0 =>
              e.act \in Offered(ctl) /\ e.act \notin ActsOf(q, "Run")
    BY <1>0, <2>1, ActsTail DEF Asking, Apart, Offered
  <2>4. e.kind = "Run" \/ e.kind = "StateIs"
    BY <1>0, <2>1 DEF Routed
  <2> HIDE DEF e, q
  <2>5. Offered(ctl') = ActsOf(q, "Run") /\ 0 \notin ActsOf(q, "Run") /\ 0 \notin Clicked(ctl)
    BY <2>1 DEF Offered, Clicked, ActsOf
  <2>6. /\ view'.act \notin Offered(ctl') /\ view'.act \notin Clicked(ctl')
        /\ Asks(ctl', view') \subseteq Asks(ctl, view)
    <3>1. CASE e.kind = "StateIs"
      BY <1>2, <2>1, <2>3, <2>5, <3>1 DEF Asking, Apart, Asks
    <3>2. CASE e.kind = "Run" /\ e.act # 0
      BY <1>2, <2>1, <2>3, <2>5, <3>2 DEF Asking, Apart, Asks
    <3>3. CASE e.kind = "Run" /\ e.act = 0
      BY <1>2, <2>1, <2>3, <2>5, <3>3 DEF Asking, Apart, Asks
    <3> QED
      BY <2>4, <3>1, <3>2, <3>3
  <2>7. Apart(ctl, view)'
    BY <1>2, <2>1, <2>2, <2>3, <2>5, <2>6 DEF Asking, Apart
  <2>8. Untaken(ctl, view)'
    BY <1>3, <2>1, <2>6 DEF Asking, Untaken
  <2> QED
    BY <1>4, <2>7, <2>8 DEF Asking
<1> QED
  BY <1>6, <1>7, <1>8, <1>9, <1>10, <1>11 DEF Others, Step, Runtime

(* A click moves an action from the screen into an answer.                 *)
LEMMA AskingUser ==
    ASSUME Typed, Asking, User
    PROVE  Asking'
<1>0. /\ TypeOK /\ ctl \in World /\ ctl.ctlq \in Seq(Event) /\ view.act \in Nat
  BY DEF Typed, TypeOK, World
<1>1. ASSUME NEW e0 \in Event, e0.kind \in CtlKind, e0.act = 0, ~IsAnswer(e0), UserInput(e0),
             UNCHANGED <<view, approved>>
      PROVE  Asking'
  <2>1. PICK e \in Event : Posts(ctl, ctl', e) /\ e.kind = e0.kind /\ e.to = e0.to
                            /\ e.act = e0.act
    BY <1>0, <1>1, UserInputCases
  <2>2. UNCHANGED <<issued, misled>>
    BY <1>1 DEF UserInput
  <2>3. ctl'.ctlq = Append(ctl.ctlq, e) /\ ctl'.cliq = ctl.cliq /\ ctl'.pending = ctl.pending
    BY <2>1 DEF Posts, Beneath
  <2>4. e.act = 0 /\ ~IsAnswer(e) /\ 0 \notin Clicked(ctl)
    BY <1>1, <2>1 DEF IsAnswer, Clicked, ActsOf
  <2>5. ActsOnce(ctl'.ctlq, "ChangeState") /\ Clicked(ctl') = Clicked(ctl)
    <3>1. ActsOnce(ctl.ctlq, "ChangeState")
      BY DEF Asking, Apart
    <3>2. /\ ActsOnce(ctl'.ctlq, "ChangeState")
          /\ Clicked(ctl') = Clicked(ctl) \/ Clicked(ctl') = Clicked(ctl) \cup ({0} \ {0})
      BY <1>0, <2>3, <2>4, <3>1, ActsAppend DEF Clicked
    <3> QED
      BY <3>2
  <2>6. Elems(ctl'.ctlq) = Elems(ctl.ctlq) \cup {e}
    BY <1>0, <2>3, ElemsAppend
  <2>7. Confirming(ctl)'
    BY <1>1, <2>4, <2>6 DEF Asking, Confirming
  <2>8. Apart(ctl, view)' /\ Untaken(ctl, view)'
    BY <1>1, <2>2, <2>3, <2>5 DEF Asking, Apart, Untaken, Asks, Offered
  <2> QED
    BY <2>7, <2>8 DEF Asking
<1>2. CASE SendMessage
  <2>1. /\ Ev("UserMessage") \in Event /\ Ev("UserMessage").kind = "UserMessage"
        /\ Ev("UserMessage").act = 0
    BY EventType DEF Kind, Ev
  <2> QED
    BY <1>1, <1>2, <2>1 DEF SendMessage, CtlKind, IsAnswer
<1>3. CASE PressStop
  <2>1. /\ Change("STOPPED") \in Event /\ Change("STOPPED").kind = "ChangeState"
        /\ Change("STOPPED").act = 0 /\ Change("STOPPED").to = "STOPPED"
    BY EventType DEF AgentState, Change, Ev
  <2> QED
    BY <1>1, <1>3, <2>1 DEF PressStop, CtlKind, IsAnswer, Answer
<1>4. ASSUME NEW a \in {"USER_CONFIRMED", "USER_REJECTED"}, Click(a)
      PROVE  Asking'
  <2> DEFINE e0 == [Change(a) EXCEPT !.act = view.act]
  <2>1. e0 \in Event /\ e0.kind = "ChangeState" /\ e0.to = a /\ e0.act = view.act
    BY <1>0, ClickType DEF Answer
  <2>2. /\ UserInput(e0) /\ view.act # 0 /\ view'.act = 0
        /\ approved \subseteq approved'
        /\ a = "USER_CONFIRMED" => view.act \in approved'
        /\ UNCHANGED <<issued, misled>>
    BY <1>0, <1>4 DEF Click, UserInput, TypeOK
  <2> HIDE DEF e0
  <2>3. PICK e \in Event : Posts(ctl, ctl', e) /\ e.kind = e0.kind /\ e.to = e0.to
                            /\ e.act = e0.act
    BY <1>0, <2>1, <2>2, UserInputCases DEF CtlKind
  <2>4. ctl'.ctlq = Append(ctl.ctlq, e) /\ ctl'.cliq = ctl.cliq /\ ctl'.pending = ctl.pending
    BY <2>3 DEF Posts, Beneath
  <2>5. e.kind = "ChangeState" /\ e.to = a /\ e.act = view.act /\ view.act \notin Clicked(ctl)
    BY <2>1, <2>3 DEF Asking, Apart
  <2>6. /\ ActsOnce(ctl'.ctlq, "ChangeState")
        /\ Clicked(ctl') = Clicked(ctl) \cup ({view.act} \ {0})
    BY <1>0, <2>4, <2>5, ActsAppend DEF Asking, Apart, Clicked
  <2>7. Elems(ctl'.ctlq) = Elems(ctl.ctlq) \cup {e}
    BY <1>0, <2>4, ElemsAppend
  <2>8. Confirming(ctl)'
    <3>1. e.act # 0 /\ (e.to = "USER_CONFIRMED" => e.act \in approved')
      BY <2>2, <2>5
    <3>2. \A x \in Elems(ctl.ctlq) : IsAnswer(x) =>
             x.act # 0 /\ (x.to = "USER_CONFIRMED" => x.act \in approved')
      BY <2>2 DEF Asking, Confirming
    <3> QED
      BY <2>7, <3>1, <3>2 DEF Confirming
  <2>9. Asks(ctl', view') = Asks(ctl, view) /\ Offered(ctl') = Offered(ctl)
    BY <2>2, <2>4, <2>6 DEF Asks, Offered
  <2>10. 0 \notin Clicked(ctl') /\ 0 \notin Offered(ctl')
    BY DEF Clicked, Offered, ActsOf
  <2>11. Clicked(ctl') \cap Offered(ctl') = {}
    BY <2>6, <2>9 DEF Asking, Apart
  <2>12. Apart(ctl, view)'
    BY <2>2, <2>4, <2>6, <2>9, <2>10, <2>11 DEF Asking, Apart
  <2>13. Untaken(ctl, view)'
    BY <2>2, <2>4, <2>9 DEF Asking, Untaken
  <2> QED
    BY <2>8, <2>12, <2>13 DEF Asking
<1> QED
  BY <1>2, <1>3, <1>4 DEF User

LEMMA InitFacts ==
    ASSUME Init
    PROVE  /\ ctl.state = "LOADING" /\ ctl.iter = 0 /\ ctl.pending = NoEvent
           /\ ctl.alerts = 0 /\ ctl.unsent = 0
           /\ ctl.runq = <<>> /\ ctl.memq = <<>> /\ ctl.cliq = <<>>
           /\ \A i \in DOMAIN ctl.ctlq : ~IsAnswer(ctl.ctlq[i]) /\ ctl.ctlq[i].act = 0
           /\ ctl.ctlq # <<>>
<1> DEFINE m == Ev("UserMessage")
           w1 == Emit(NewWorld, m)
           e1 == Numbering(NewWorld, m)
<1>1. mode \in Modes /\ mode.delta \in Nat /\ mode.delta > 0
  BY ModeType DEF Init
<1>2. /\ NewWorld \in World /\ NewWorld.pending = NoEvent /\ NewWorld.iter = 0
      /\ NewWorld.state = "LOADING" /\ NewWorld.alerts = 0 /\ NewWorld.unsent = 0
      /\ NewWorld.ctlq = <<>> /\ NewWorld.runq = <<>> /\ NewWorld.memq = <<>>
      /\ NewWorld.cliq = <<>>
  <2>1. NoEvent \in Event /\ <<>> \in Seq(Event) /\ "LOADING" \in AgentState
    BY EventType DEF AgentState
  <2> QED
    BY <1>1, <2>1 DEF NewWorld, World
<1>3. m \in Event /\ m.kind = "UserMessage" /\ m.kind \in CtlKind /\ m.act = 0
  BY EventType DEF Kind, CtlKind
<1>4. \A s \in {"RUNNING", "AWAITING_USER_INPUT"} :
         /\ Change(s) \in Event /\ Change(s).kind = "ChangeState"
         /\ Change(s).kind \in CtlKind /\ Change(s).to = s /\ Change(s).act = 0
  BY EventType DEF AgentState, CtlKind
<1>5. Posts(NewWorld, w1, e1) /\ e1 \in Event /\ e1.kind = "UserMessage" /\ e1.act = 0
  BY <1>2, <1>3, PostsFacts, NumberingType
<1>6. w1.ctlq = <<e1>>
  BY <1>2, <1>5 DEF Posts
<1>7. \A i \in DOMAIN w1.ctlq : w1.ctlq[i].kind = "UserMessage" /\ w1.ctlq[i].act = 0
  BY <1>5, <1>6
<1>8. /\ w1 \in World /\ w1.state = "LOADING" /\ w1.iter = 0 /\ w1.pending = NoEvent
      /\ w1.alerts = 0 /\ w1.unsent = 0 /\ w1.runq = <<>> /\ w1.memq = <<>> /\ w1.cliq = <<>>
  BY <1>2, <1>5 DEF Posts, Beneath
<1> HIDE DEF m, w1, e1
<1>9. ctl = Emit(w1, Change("RUNNING")) \/ ctl = Emit(NewWorld, Change("AWAITING_USER_INPUT"))
  BY DEF Init, w1, m
<1>10. PICK w \in {w1, NewWorld}, s \in {"RUNNING", "AWAITING_USER_INPUT"} :
          ctl = Emit(w, Change(s))
  BY <1>9
<1>11. /\ w \in World /\ w.state = "LOADING" /\ w.iter = 0 /\ w.pending = NoEvent
       /\ w.alerts = 0 /\ w.unsent = 0 /\ w.runq = <<>> /\ w.memq = <<>> /\ w.cliq = <<>>
       /\ \A i \in DOMAIN w.ctlq : ~IsAnswer(w.ctlq[i]) /\ w.ctlq[i].act = 0
  BY <1>2, <1>7, <1>8 DEF IsAnswer
<1> DEFINE c == Change(s)
           e == Numbering(w, c)
<1>12. c \in Event /\ c.kind = "ChangeState" /\ c.kind \in CtlKind /\ c.to = s /\ c.act = 0
  BY <1>4
<1> HIDE DEF c
<1>13. Posts(w, Emit(w, c), e) /\ e \in Event /\ e.to = s /\ e.act = 0
  BY <1>11, <1>12, PostsFacts, NumberingType
<1>14. Posts(w, ctl, e)
  BY <1>10, <1>13 DEF c
<1> HIDE DEF e
<1>15. ~IsAnswer(e) /\ e.act = 0
  BY <1>13 DEF IsAnswer, Answer
<1>16. /\ ctl.ctlq # <<>>
       /\ \A i \in DOMAIN ctl.ctlq : ~IsAnswer(ctl.ctlq[i]) /\ ctl.ctlq[i].act = 0
  <2> DEFINE q == w.ctlq
             r == Append(q, e)
  <2>1. q \in Seq(Event) /\ \A i \in DOMAIN q : ~IsAnswer(q[i]) /\ q[i].act = 0
    BY <1>11 DEF World
  <2>2. ctl.ctlq = r
    BY <1>14 DEF Posts
  <2> HIDE DEF q
  <2>3. /\ r # <<>> /\ r[Len(q) + 1] = e /\ DOMAIN r = DOMAIN q \cup {Len(q) + 1}
        /\ \A j \in DOMAIN q : r[j] = q[j]
    BY <1>13, <2>1, ElemsAppend
  <2> HIDE DEF r
  <2> QED
    BY <1>15, <2>1, <2>2, <2>3
<1> QED
  BY <1>11, <1>14, <1>16 DEF Posts, Beneath

LEMMA AskingInit ==
    ASSUME Init
    PROVE  Asking
<1>1. view.act = 0
  BY DEF Init
<1>2. /\ \A e \in Elems(ctl.ctlq) : ~IsAnswer(e) /\ e.act = 0
      /\ Elems(ctl.cliq) = {} /\ DOMAIN ctl.cliq = {}
  BY InitFacts DEF Elems
<1>3. Clicked(ctl) = {} /\ Offered(ctl) = {}
  BY <1>2 DEF Clicked, Offered, ActsOf
<1>4. ActsOnce(ctl.ctlq, "ChangeState") /\ ActsOnce(ctl.cliq, "Run")
  BY <1>2, InitFacts DEF ActsOnce
<1>5. Asks(ctl, view) = {}
  BY <1>1, <1>3 DEF Asks
<1> QED
  BY <1>2, <1>3, <1>4, <1>5 DEF Asking, Apart, Untaken, Confirming
-----------------------------------------------------------------------------
(***************************************************************************)
(* What the runtime executes.  An action that is to be executed waits in   *)
(* the runtime's queue, or awaits its confirmation; it does so once, and   *)
(* not after it was executed, unless an answer to another action put it on *)
(* the stream again (misled):                                              *)
(*   Numbered   actions are numbered by iterations, and the one in         *)
(*              progress has no action yet                                 *)
(*   Once       what waits for the runtime, or for the user, is not        *)
(*              executed yet and waits once                                *)
(*   Allowed    what waits for the runtime was approved if it was held     *)
(***************************************************************************)
Executable(e) == e.conf # "rejected"
WaitsOnce(q, M) ==
    \A i, j \in DOMAIN q :
        Executable(q[i]) /\ Executable(q[j]) /\ q[i].act = q[j].act
        => i = j \/ q[i].act \in M
Executed(a) == \E i \in DOMAIN executed : executed[i] = a

Numbered ==
    /\ \A a \in issued : a <= ctl.iter
    /\ busy => ctl.iter \notin issued
    /\ \A i \in DOMAIN executed : executed[i] \in issued
    /\ \A e \in Elems(ctl.runq) : e.act \in issued
    /\ ctl.pending.kind = "Run" => ctl.pending.act \in issued
Awaited ==
    ctl.pending.kind = "Run" /\ ctl.pending.conf = "awaiting" =>
        /\ ~Executed(ctl.pending.act)
        /\ \A e \in Elems(ctl.runq) : e.act # ctl.pending.act
Once ==
    /\ ExecutedOnce
    /\ WaitsOnce(ctl.runq, misled)
    /\ \A e \in Elems(ctl.runq) : Executable(e) => ~Executed(e.act) \/ e.act \in misled
    /\ Awaited
Allowed ==
    /\ ApprovedOnly
    /\ \A e \in Elems(ctl.runq) :
          Executable(e) /\ e.act \in held => e.act \in approved \cup misled
Counted == Numbered /\ Once /\ Allowed

LEMMA WaitsOnceAppend ==
    ASSUME NEW q \in Seq(Event), NEW e \in Event, NEW M, WaitsOnce(q, M),
           Executable(e) =>
              \A x \in Elems(q) : Executable(x) => x.act # e.act \/ x.act \in M
    PROVE  WaitsOnce(Append(q, e), M)
<1> DEFINE r == Append(q, e)
<1>1. /\ r[Len(q) + 1] = e /\ DOMAIN r = DOMAIN q \cup {Len(q) + 1}
      /\ \A j \in DOMAIN q : r[j] = q[j] /\ q[j] \in Elems(q)
  BY ElemsAppend DEF Elems
<1> HIDE DEF r
<1> SUFFICES ASSUME NEW i \in DOMAIN r, NEW j \in DOMAIN r,
                    Executable(r[i]), Executable(r[j]), r[i].act = r[j].act
             PROVE  i = j \/ r[i].act \in M
  BY DEF WaitsOnce, r
<1>2. CASE i \in DOMAIN q /\ j \in DOMAIN q
  BY <1>1, <1>2 DEF WaitsOnce
<1>3. CASE i \notin DOMAIN q
  BY <1>1, <1>3
<1>4. CASE j \notin DOMAIN q
  BY <1>1, <1>4
<1> QED
  BY <1>2, <1>3, <1>4

LEMMA WaitsOnceTail ==
    ASSUME NEW q \in Seq(Event), NEW M, q # <<>>, WaitsOnce(q, M)
    PROVE  /\ WaitsOnce(Tail(q), M)
           /\ Executable(Head(q)) =>
                 \A x \in Elems(Tail(q)) :
                    Executable(x) => x.act # Head(q).act \/ x.act \in M
<1> DEFINE r == Tail(q)
           h == Head(q)
<1>1. /\ h = q[1] /\ 1 \in DOMAIN q
      /\ \A i \in DOMAIN r : i \in Nat /\ i > 0 /\ i + 1 \in DOMAIN q /\ r[i] = q[i + 1]
  BY ElemsHead
<1> HIDE DEF r, h
<1>2. WaitsOnce(r, M)
  <2> SUFFICES ASSUME NEW i \in DOMAIN r, NEW j \in DOMAIN r,
                      Executable(r[i]), Executable(r[j]), r[i].act = r[j].act,
                      r[i].act \notin M
               PROVE  i = j
    BY DEF WaitsOnce
  <2>1. i + 1 = j + 1
    BY <1>1 DEF WaitsOnce
  <2> QED
    BY <1>1, <2>1
<1>3. ASSUME Executable(h), NEW x \in Elems(r), Executable(x), x.act = h.act,
             x.act \notin M
      PROVE  FALSE
  <2>1. PICK i \in DOMAIN r : x = r[i]
    BY DEF Elems
  <2>2. i + 1 = 1
    BY <1>1, <1>3, <2>1 DEF WaitsOnce
  <2> QED
    BY <1>1, <2>2
<1> QED
  BY <1>2, <1>3 DEF r, h

LEMMA AppendExecuted ==
    ASSUME NEW s \in Seq(Nat), NEW a \in Nat
    PROVE  LET t == Append(s, a)
           IN  /\ DOMAIN t = DOMAIN s \cup {Len(s) + 1} /\ t[Len(s) + 1] = a
               /\ \A i \in DOMAIN s : t[i] = s[i]
OBVIOUS

(* A step after which the runtime has the same to do.                      *)
Calm ==
    /\ ctl'.runq = ctl.runq
    /\ ctl'.pending = ctl.pending \/ ctl'.pending.kind # "Run"
    /\ ctl'.iter \in Nat /\ ctl'.iter >= ctl.iter
    /\ busy' => ctl'.iter > ctl.iter \/ (busy /\ ctl'.iter = ctl.iter)
    /\ UNCHANGED <<executed, issued, held>>
    /\ approved \subseteq approved' /\ misled \subseteq misled'

LEMMA CalmCounted ==
    ASSUME Typed, Counted, Calm
    PROVE  Counted'
<1>0. ctl.iter \in Nat /\ issued \subseteq Nat
  BY DEF Typed, TypeOK, World
<1>1. Numbered'
  <2>1. \A a \in issued' : a <= ctl'.iter
    <3> DEFINE n == ctl'.iter
    <3>1. n \in Nat /\ n >= ctl.iter /\ issued' = issued
      BY DEF Calm
    <3> HIDE DEF n
    <3>2. \A a \in issued : a \in Nat /\ a <= ctl.iter
      BY <1>0 DEF Counted, Numbered
    <3>3. \A a \in issued : a <= n
      BY <1>0, <3>1, <3>2
    <3> QED
      BY <3>1, <3>3 DEF n
  <2>2. busy' => ctl'.iter \notin issued'
    <3>1. CASE ctl'.iter > ctl.iter
      BY <1>0, <3>1 DEF Counted, Numbered, Calm
    <3>2. CASE busy /\ ctl'.iter = ctl.iter
      BY <3>2 DEF Counted, Numbered, Calm
    <3> QED
      BY <3>1, <3>2 DEF Calm
  <2>3. ctl'.pending.kind = "Run" => ctl'.pending.act \in issued'
    BY DEF Counted, Numbered, Calm
  <2> QED
    BY <2>1, <2>2, <2>3 DEF Counted, Numbered, Calm
<1>2. Once'
  <2>1. Awaited'
    BY DEF Counted, Once, Awaited, Executed, Calm
  <2>2. WaitsOnce(ctl'.runq, misled')
    BY DEF Counted, Once, WaitsOnce, Calm
  <2> QED
    BY <2>1, <2>2 DEF Counted, Once, ExecutedOnce, Executed, Calm
<1>3. Allowed'
  BY DEF Counted, Allowed, ApprovedOnly, Calm
<1> QED
  BY <1>1, <1>2, <1>3 DEF Counted
(* The runtime's queue grows by an event that may be executed.             *)
LEMMA CountedAppend ==
    ASSUME Typed, Counted, NEW e \in Event, ctl'.runq = Append(ctl.runq, e),
           ctl'.iter = ctl.iter, ~busy', executed' = executed,
           issued \subseteq issued', \A a \in issued' : a <= ctl.iter,
           held' = held, approved' = approved, misled \subseteq misled',
           e.act \in issued', Executable(e) => ~Executed(e.act) \/ e.act \in misled',
           Executable(e) =>
              \A x \in Elems(ctl.runq) : Executable(x) => x.act # e.act \/ x.act \in misled',
           Executable(e) /\ e.act \in held => e.act \in approved \cup misled',
           ctl'.pending.kind = "Run" => ctl'.pending.act \in issued',
           ctl'.pending.kind = "Run" => ctl'.pending.conf # "awaiting"
    PROVE  Counted'
<1>1. ctl.runq \in Seq(Event)
  BY DEF Typed, TypeOK, World
<1>2. Elems(ctl'.runq) = Elems(ctl.runq) \cup {e}
  BY <1>1, ElemsAppend
<1>3. Numbered'
  BY <1>2 DEF Counted, Numbered
<1>4. Once'
  <2>1. WaitsOnce(ctl'.runq, misled')
    <3>1. WaitsOnce(ctl.runq, misled')
      BY DEF Counted, Once, WaitsOnce
    <3> QED
      BY <1>1, <3>1, WaitsOnceAppend
  <2>2. Awaited'
    BY DEF Awaited
  <2>3. \A x \in Elems(ctl'.runq) : Executable(x) => ~Executed(x.act) \/ x.act \in misled'
    BY <1>2 DEF Counted, Once
  <2> QED
    BY <2>1, <2>2, <2>3 DEF Counted, Once, ExecutedOnce, Executed
<1>5. Allowed'
  BY <1>2 DEF Counted, Allowed, ApprovedOnly
<1> QED
  BY <1>3, <1>4, <1>5 DEF Counted

(* The user's answer is for the action the agent holds: it was not         *)
(* executed, and the user saw it if he confirmed.  Or it was for another   *)
(* one, and the pending action is misled.                                  *)
LEMMA CountedHandle ==
    ASSUME Typed, Asking, Counted, HandleEvent
    PROVE  Counted'
<1> DEFINE e == Head(ctl.ctlq)
<1>0. TypeOK /\ Routed(ctl) /\ ctl \in World /\ mode \in Modes /\ ctl.iter \in Nat
  BY DEF Typed, TypeOK, World
<1>1. ~busy /\ ctl.ctlq # <<>> /\ e \in Event /\ e = ctl.ctlq[1] /\ 1 \in DOMAIN ctl.ctlq
  <2>1. ctl.ctlq \in Seq(Event)
    BY <1>0 DEF World
  <2> QED
    BY <1>0, <2>1, HandleEventCases, ElemsHead
<1>2. PICK w \in World :
         /\ Handled(ctl, e, w)
         /\ \/ ~MayStep(w, e) /\ ctl' = w /\ busy' = FALSE
            \/ MayStep(w, e) /\ Reacts(w, ctl') /\ busy' = FALSE
            \/ MayStep(w, e) /\ Calls(w, ctl') /\ busy' = TRUE
  BY <1>0, HandleEventCases
<1>3. /\ UNCHANGED <<executed, issued, held, approved>>
      /\ misled \subseteq misled'
      /\ Takes(ctl, e) /\ e.act # ctl.pending.act => ctl.pending.act \in misled'
  BY <1>0, HandleEventMisled DEF HandleEvent
<1> HIDE DEF e
<1>4. CASE ~Answers(ctl, e, w)
  <2>1. /\ w.runq = ctl.runq /\ w.iter = ctl.iter
        /\ w.pending = ctl.pending \/ w.pending.kind # "Run"
    <3>1. NoEvent.kind # "Run"
      BY EventType
    <3>2. CASE Ignores(ctl, e, w)
      BY <1>2, <3>2 DEF Handled, Took, Ignores, Queues
    <3>3. CASE Settles(ctl, e, w)
      BY <1>2, <3>1, <3>3 DEF Handled, Took, Settles, Queues
    <3>4. CASE Resumes(ctl, e, w)
      BY <1>2, <3>1, <3>4 DEF Handled, Took, Resumes, Queues
    <3>5. CASE Recalls(ctl, e, w)
      BY <1>2, <3>5 DEF Handled, Took, Recalls
    <3>6. CASE Enters(ctl, e, w)
      BY <1>2, <3>6 DEF Handled, Took, Enters, Queues
    <3>7. CASE Starts(ctl, e, w)
      BY <1>2, <3>7 DEF Handled, Took, Starts, Queues
    <3>8. CASE Stops(ctl, e, w)
      BY <1>2, <3>1, <3>8 DEF Handled, Took, Stops
    <3>9. CASE AnswersLate(ctl, e, w)
      BY <1>2, <3>1, <3>9 DEF Handled, Took, AnswersLate, Queues
    <3> QED
      BY <1>2, <1>4, <3>2, <3>3, <3>4, <3>5, <3>6, <3>7, <3>8, <3>9 DEF Handled
  <2>2. Calm
    <3>1. CASE ctl' = w /\ busy' = FALSE
      BY <1>0, <1>3, <2>1, <3>1 DEF Calm
    <3>2. CASE Reacts(w, ctl') /\ busy' = FALSE
      BY <1>0, <1>3, <2>1, <3>2 DEF Calm, Reacts, Beyond
    <3>3. CASE Calls(w, ctl')
      <4>1. ctl'.iter = ctl.iter + 1
        BY <2>1, <3>3 DEF Calls
      <4>2. ctl'.iter \in Nat /\ ctl'.iter >= ctl.iter /\ ctl'.iter > ctl.iter
        BY <1>0, <4>1
      <4> QED
        BY <1>3, <2>1, <3>3, <4>2 DEF Calm, Calls, Beyond
    <3> QED
      BY <1>2, <3>1, <3>2, <3>3
  <2> QED
    BY <2>2, CalmCounted
<1>5. CASE Answers(ctl, e, w)
  <2>1. /\ e.kind = "ChangeState" /\ e.to \in Answer
        /\ w.pending.kind = ctl.pending.kind /\ ctl.pending.kind \in {"Run", "Recall"}
        /\ w.pending.act = ctl.pending.act
        /\ w.pending.conf = IF e.to = "USER_CONFIRMED" THEN "confirmed" ELSE "rejected"
        /\ IF ctl.pending.kind = "Run" THEN w.runq = Append(ctl.runq, w.pending)
                                       ELSE w.runq = ctl.runq
        /\ w.iter = ctl.iter
    BY <1>2, <1>5 DEF Answers, Handled, Took
  <2>2. ctl' = w /\ ~busy'
    BY <1>2, <2>1 DEF MayStep, ShouldStep, Observation
  <2>3. CASE ctl.pending.kind = "Recall"
    <3>1. Calm
      BY <1>0, <1>3, <2>1, <2>2, <2>3 DEF Calm
    <3> QED
      BY <3>1, CalmCounted
  <2>4. CASE ctl.pending.kind = "Run"
    <3> DEFINE p == w.pending
    <3>1. /\ IsAnswer(e) /\ Takes(ctl, e)
      BY <1>5, <2>1, <2>4, EventType DEF Answers, IsAnswer, Takes, Answer
    <3>2. ASSUME e.act = ctl.pending.act, ctl.pending.act \notin misled
          PROVE  /\ ~Executed(ctl.pending.act)
                 /\ \A x \in Elems(ctl.runq) : x.act # ctl.pending.act
                 /\ w.pending.conf # "rejected" => ctl.pending.act \in approved
      <4>1. e.act # 0 /\ (e.to = "USER_CONFIRMED" => e.act \in approved)
        BY <1>1, <3>1 DEF Asking, Confirming, Elems
      <4>2. ctl.pending.act \in Asks(ctl, view)
        BY <1>1, <2>1, <3>2, <4>1 DEF Asks, Clicked, ActsOf, Elems
      <4>3. ctl.pending.conf = "awaiting"
        BY <2>4, <3>2, <4>2 DEF Asking, Untaken
      <4> QED
        BY <2>1, <2>4, <3>2, <4>1, <4>3 DEF Counted, Once, Awaited
    <3>3. /\ p \in Event /\ p.act = ctl.pending.act /\ p.conf # "awaiting"
          /\ p.act \in issued /\ ctl'.pending = p /\ ctl'.runq = Append(ctl.runq, p)
          /\ ctl'.iter = ctl.iter
      BY <1>2, <2>1, <2>2, <2>4 DEF Counted, Numbered, World
    <3>4. /\ ~Executed(p.act) \/ p.act \in misled'
          /\ \A x \in Elems(ctl.runq) : x.act # p.act \/ x.act \in misled'
          /\ p.conf # "rejected" => p.act \in approved \cup misled'
      <4>1. CASE p.act \in misled'
        BY <4>1
      <4>2. CASE p.act \notin misled'
        <5>1. e.act = ctl.pending.act /\ ctl.pending.act \notin misled
          BY <1>3, <3>1, <3>3, <4>2
        <5>2. ~Executed(p.act) /\ \A x \in Elems(ctl.runq) : x.act # p.act
          BY <3>2, <3>3, <5>1
        <5> QED
          BY <2>1, <3>2, <3>3, <5>1, <5>2
      <4> QED
        BY <4>1, <4>2
    <3>5. \A a \in issued' : a <= ctl.iter
      BY <1>3 DEF Counted, Numbered
    <3> HIDE DEF p
    <3>6. /\ ctl'.pending.kind = "Run" => ctl'.pending.act \in issued'
          /\ ctl'.pending.kind = "Run" => ctl'.pending.conf # "awaiting"
          /\ p.act \in issued' /\ issued \subseteq issued'
      BY <1>3, <3>3
    <3>7. /\ Executable(p) => ~Executed(p.act) \/ p.act \in misled'
          /\ Executable(p) =>
                \A x \in Elems(ctl.runq) : Executable(x) => x.act # p.act \/ x.act \in misled'
      BY <3>4
    <3>8. Executable(p) /\ p.act \in held => p.act \in approved \cup misled'
      BY <3>4 DEF Executable
    <3>9. p \in Event /\ ctl'.runq = Append(ctl.runq, p) /\ ctl'.iter = ctl.iter
      BY <3>3
    <3>10. /\ executed' = executed /\ held' = held /\ approved' = approved
           /\ misled \subseteq misled'
      BY <1>3
    <3>11. ~busy'
      BY <2>2
    <3> QED
      BY <3>5, <3>6, <3>7, <3>8, <3>9, <3>10, <3>11, CountedAppend
  <2> QED
    BY <2>1, <2>3, <2>4
<1> QED
  BY <1>4, <1>5
(* An iteration's action is a new one: nothing waits for it yet.           *)
LEMMA CountedNew ==
    ASSUME Typed, Counted, busy
    PROVE  /\ ctl.iter \in Nat /\ ctl.iter \notin issued /\ ctl.iter \notin held
           /\ ~Executed(ctl.iter) /\ \A x \in Elems(ctl.runq) : x.act # ctl.iter
           /\ \A a \in issued \cup {ctl.iter} : a <= ctl.iter
<1>1. ctl.iter \in Nat /\ held \subseteq issued
  BY DEF Typed, TypeOK, World
<1>2. ctl.iter \notin issued
  BY DEF Counted, Numbered
<1>3. \A a \in issued \cup {ctl.iter} : a <= ctl.iter
  BY <1>1 DEF Counted, Numbered
<1> QED
  BY <1>1, <1>2, <1>3 DEF Counted, Numbered, Executed

LEMMA CountedThink ==
    ASSUME Typed, Counted, Think
    PROVE  Counted'
<1>1. TypeOK /\ Thinking
  BY DEF Typed
<1>2. /\ busy /\ busy' = FALSE /\ UNCHANGED <<executed, held, approved, misled>>
      /\ issued' = issued \cup {ctl.iter}
  BY DEF Think
<1>3. PICK e \in Event : /\ e.kind = "Think" /\ e.act = ctl.iter /\ e.conf = "none"
                         /\ ctl'.runq = Append(ctl.runq, e)
  BY <1>1, ThinkCases
<1>4. ctl'.iter = ctl.iter /\ ctl'.pending = NoEvent
  BY <1>1, <1>2, ThinkCases DEF Beneath, Thinking
<1>5. ctl'.pending.kind # "Run"
  BY <1>4, EventType
<1>6. /\ e.act \in issued' /\ issued \subseteq issued' /\ ~Executed(e.act) /\ e.act \notin held
      /\ \A x \in Elems(ctl.runq) : x.act # e.act
      /\ \A a \in issued' : a <= ctl.iter
  BY <1>2, <1>3, CountedNew
<1>7. ~busy'
  BY <1>2
<1>8. executed' = executed /\ held' = held /\ approved' = approved /\ misled' = misled
  BY <1>2
<1> QED
  BY <1>3, <1>4, <1>5, <1>6, <1>7, <1>8, CountedAppend

LEMMA CountedSends ==
    ASSUME Typed, Counted, AskRuntime("none")
    PROVE  Counted'
<1>1. TypeOK /\ Thinking
  BY DEF Typed
<1>2. /\ busy /\ busy' = FALSE /\ UNCHANGED <<executed, approved, misled>>
      /\ issued' = issued \cup {ctl.iter} /\ held' = held
  BY DEF AskRuntime
<1>3. Sends(ctl, ctl')
  BY <1>1, <1>2, AskRuntimeCases DEF Thinking
<1> DEFINE p == ctl'.pending
<1>4. /\ p \in Event /\ p.act = ctl.iter /\ p.conf = "none" /\ ctl'.iter = ctl.iter
      /\ ctl'.runq = Append(ctl.runq, p)
  BY <1>3 DEF Sends, Asked, World
<1>5. /\ p.act \in issued' /\ issued \subseteq issued' /\ ~Executed(p.act) /\ p.act \notin held
      /\ \A x \in Elems(ctl.runq) : x.act # p.act
      /\ \A a \in issued' : a <= ctl.iter
  BY <1>2, <1>4, CountedNew
<1>6. ~busy'
  BY <1>2
<1>7. executed' = executed /\ held' = held /\ approved' = approved /\ misled' = misled
  BY <1>2
<1>8. /\ ctl'.pending.kind = "Run" => ctl'.pending.act \in issued'
      /\ ctl'.pending.kind = "Run" => ctl'.pending.conf # "awaiting"
  BY <1>4, <1>5
<1> HIDE DEF p
<1> QED
  BY <1>4, <1>5, <1>6, <1>7, <1>8, CountedAppend

LEMMA CountedHolds ==
    ASSUME Typed, Counted, AskRuntime("awaiting")
    PROVE  Counted'
<1>1. TypeOK /\ Thinking
  BY DEF Typed
<1>2. /\ busy /\ busy' = FALSE /\ UNCHANGED <<executed, approved, misled>>
      /\ issued' = issued \cup {ctl.iter} /\ held' = held \cup {ctl.iter}
  BY DEF AskRuntime
<1>3. Holds(ctl, ctl')
  BY <1>1, <1>2, AskRuntimeCases DEF Thinking
<1>4. ctl'.pending.act = ctl.iter /\ ctl'.iter = ctl.iter /\ ctl'.runq = ctl.runq
  BY <1>3 DEF Holds, Asked
<1>5. /\ ctl.iter \notin issued /\ ~Executed(ctl.iter)
      /\ \A x \in Elems(ctl.runq) : x.act # ctl.iter
      /\ \A a \in issued' : a <= ctl.iter
  BY <1>2, CountedNew
<1>6. Numbered'
  <2>1. ~busy'
    BY <1>2
  <2>2. /\ \A a \in issued' : a <= ctl'.iter
        /\ \A i \in DOMAIN executed' : executed'[i] \in issued'
        /\ \A e \in Elems(ctl'.runq) : e.act \in issued'
        /\ ctl'.pending.act \in issued'
    BY <1>2, <1>4, <1>5 DEF Counted, Numbered
  <2> QED
    BY <2>1, <2>2 DEF Numbered
<1>7. Once'
  <2>1. Awaited'
    BY <1>2, <1>4, <1>5 DEF Awaited, Executed
  <2> QED
    BY <1>2, <1>4, <2>1 DEF Counted, Once, ExecutedOnce, Executed
<1>8. Allowed'
  BY <1>2, <1>4, <1>5 DEF Counted, Numbered, Allowed, ApprovedOnly
<1> QED
  BY <1>6, <1>7, <1>8 DEF Counted

LEMMA CountedStart ==
    ASSUME Typed, Counted, StartAction
    PROVE  Counted'
<1> DEFINE h == Head(ctl.runq)
           q == Tail(ctl.runq)
<1>1. TypeOK /\ ctl.runq \in Seq(Event) /\ executed \in Seq(Nat) /\ ctl.iter \in Nat
  BY DEF Typed, TypeOK, World
<1>2. /\ ctl.runq # <<>> /\ running' = h /\ h \in Event /\ h \in Elems(ctl.runq) /\ h.act \in Nat
      /\ ctl'.runq = q /\ ctl'.iter = ctl.iter /\ ctl'.pending = ctl.pending
  BY <1>1, StartActionCases DEF Beneath
<1>3. /\ UNCHANGED <<busy, issued, held, approved, misled>>
      /\ executed' = IF h.conf = "rejected" THEN executed ELSE Append(executed, h.act)
  BY <1>2 DEF StartAction
<1>4. /\ Elems(q) \subseteq Elems(ctl.runq) /\ WaitsOnce(q, misled)
      /\ Executable(h) =>
            \A x \in Elems(q) : Executable(x) => x.act # h.act \/ x.act \in misled
  BY <1>1, <1>2, ElemsHead, WaitsOnceTail DEF Counted, Once
<1> HIDE DEF h, q
<1>5. CASE h.conf = "rejected"
  <2>1. executed' = executed
    BY <1>3, <1>5
  <2>2. Numbered'
    BY <1>2, <1>3, <1>4, <2>1 DEF Counted, Numbered
  <2>3. Once'
    BY <1>2, <1>3, <1>4, <2>1 DEF Counted, Once, ExecutedOnce, Executed, Awaited
  <2>4. Allowed'
    BY <1>2, <1>3, <1>4, <2>1 DEF Counted, Allowed, ApprovedOnly
  <2> QED
    BY <2>2, <2>3, <2>4 DEF Counted
<1>6. CASE h.conf # "rejected"
  <2> DEFINE t == executed'
             n == Len(executed) + 1
  <2>1. /\ DOMAIN t = DOMAIN executed \cup {n} /\ t[n] = h.act
        /\ \A i \in DOMAIN executed : t[i] = executed[i]
    BY <1>1, <1>2, <1>3, <1>6, AppendExecuted
  <2> HIDE DEF t, n
  <2>2. /\ ~Executed(h.act) \/ h.act \in misled
        /\ h.act \in issued /\ (h.act \in held => h.act \in approved \cup misled)
        /\ \A x \in Elems(q) : Executable(x) => x.act # h.act \/ x.act \in misled
    BY <1>2, <1>4, <1>6 DEF Counted, Numbered, Once, Allowed, Executable
  <2>3. \A a : (\E i \in DOMAIN t : t[i] = a) => Executed(a) \/ a = h.act
    BY <2>1 DEF Executed
  <2>4. Numbered'
    <3>1. \A i \in DOMAIN t : t[i] \in issued
      BY <2>1, <2>2 DEF Counted, Numbered
    <3> QED
      BY <1>2, <1>3, <1>4, <3>1 DEF Counted, Numbered, t
  <2>5. Once'
    <3>1. \A i, j \in DOMAIN t : t[i] = t[j] => i = j \/ t[i] \in misled
      BY <2>1, <2>2 DEF Counted, Once, ExecutedOnce, Executed
    <3>2. \A e \in Elems(q) : Executable(e) =>
             (~\E i \in DOMAIN t : t[i] = e.act) \/ e.act \in misled
      BY <1>4, <2>2, <2>3 DEF Counted, Once
    <3>3. ctl.pending.kind = "Run" /\ ctl.pending.conf = "awaiting" =>
             /\ ~\E i \in DOMAIN t : t[i] = ctl.pending.act
             /\ \A e \in Elems(q) : e.act # ctl.pending.act
      BY <1>2, <1>4, <2>3 DEF Counted, Once, Awaited
    <3> QED
      BY <1>2, <1>3, <1>4, <3>1, <3>2, <3>3 DEF Once, ExecutedOnce, Executed, Awaited, t
  <2>6. Allowed'
    <3>1. \A i \in DOMAIN t : t[i] \in held => t[i] \in approved \cup misled
      BY <2>1, <2>2 DEF Counted, Allowed, ApprovedOnly
    <3> QED
      BY <1>2, <1>3, <1>4, <3>1 DEF Counted, Allowed, ApprovedOnly, t
  <2> QED
    BY <2>4, <2>5, <2>6 DEF Counted
<1> QED
  BY <1>5, <1>6
LEMMA CalmSteps ==
    ASSUME Typed,
           \/ Beneath(ctl, ctl') /\ ctl'.runq = ctl.runq
           \/ Pauses(ctl, ctl') \/ \E n : Fails(ctl, ctl', n),
           busy' => busy, UNCHANGED <<executed, issued, held, misled>>,
           approved \subseteq approved'
    PROVE  Calm
<1>1. ctl.iter \in Nat /\ NoEvent.kind # "Run"
  BY EventType DEF Typed, TypeOK, World
<1>2. /\ ctl'.runq = ctl.runq /\ ctl'.iter = ctl.iter
      /\ ctl'.pending = ctl.pending \/ ctl'.pending = NoEvent
  BY DEF Beneath, Pauses, Fails
<1> QED
  BY <1>1, <1>2 DEF Calm

LEMMA CountedOthers ==
    ASSUME Typed, Counted, Others
    PROVE  Counted'
<1>0. TypeOK /\ Routed(ctl) /\ Thinking /\ NoEvent \in Event
  BY EventType DEF Typed
<1>1. ASSUME Beneath(ctl, ctl'), ctl'.runq = ctl.runq, busy' => busy,
             UNCHANGED <<executed, issued, held, approved, misled>>
      PROVE  Counted'
  BY <1>0, <1>1, CalmSteps, CalmCounted
<1>2. CASE \E conf \in {"none", "awaiting"} : AskRuntime(conf)
  BY <1>2, CountedSends, CountedHolds
<1>3. ASSUME NEW k \in {"AgentMessage", "Question", "Finish", "Reject", "Malformed", "Condense"},
             Say(k)
      PROVE  Counted'
  <2>1. k \in Kind /\ k \in CtlKind
    BY DEF Kind, CtlKind
  <2>2. \E e \in Event : Posts(ctl, ctl', e)
    BY <1>0, <1>3, <2>1, SayCases
  <2>3. ~busy' /\ UNCHANGED <<executed, issued, held, approved, misled>>
    BY <1>3 DEF Say
  <2> QED
    BY <1>1, <2>2, <2>3 DEF Posts
<1>4. CASE LLMFails
  <2>1. Pauses(ctl, ctl') \/ \E n : Fails(ctl, ctl', n)
    BY <1>0, <1>4, LLMFailsCases DEF Thinking
  <2>2. ~busy' /\ UNCHANGED <<executed, issued, held, approved, misled>>
    BY <1>4 DEF LLMFails
  <2> QED
    BY <1>0, <2>1, <2>2, CalmSteps, CalmCounted
<1>5. CASE Alert
  <2>1. \E n : Fails(ctl, ctl', n)
    BY <1>0, <1>5, AlertCases
  <2>2. UNCHANGED <<busy, executed, issued, held, approved, misled>>
    BY <1>5 DEF Alert
  <2> QED
    BY <1>0, <2>1, <2>2, CalmSteps, CalmCounted
<1>6. CASE FinishAction
  <2>1. \E e \in Event : Posts(ctl, ctl', e)
    BY <1>0, <1>6, FinishActionCases
  <2>2. UNCHANGED <<busy, executed, issued, held, approved, misled>>
    BY <1>6 DEF FinishAction
  <2> QED
    BY <1>1, <2>1, <2>2 DEF Posts
<1>7. CASE FailAction \/ AnswerRecall \/ ReportFailure \/ Show
  <2>1. Beneath(ctl, ctl') /\ ctl'.runq = ctl.runq
    BY <1>0, <1>7, FailActionCases, AnswerRecallCases, ReportFailureCases, ShowCases
  <2>2. UNCHANGED <<busy, executed, issued, held, approved, misled>>
    BY <1>7 DEF FailAction, AnswerRecall, ReportFailure, Show
  <2> QED
    BY <1>1, <2>1, <2>2
<1> QED
  BY <1>2, <1>3, <1>4, <1>5, <1>6, <1>7, CountedThink, CountedStart DEF Others, Step, Runtime

LEMMA CountedUser ==
    ASSUME Typed, Counted, User
    PROVE  Counted'
<1>0. TypeOK /\ NoEvent \in Event
  BY EventType DEF Typed
<1>1. ASSUME NEW e0 \in Event, e0.kind \in CtlKind, UserInput(e0), approved \subseteq approved'
      PROVE  Counted'
  <2>1. \E e \in Event : Posts(ctl, ctl', e)
    BY <1>0, <1>1, UserInputCases
  <2>2. UNCHANGED <<busy, executed, issued, held, misled>>
    BY <1>1 DEF UserInput
  <2> QED
    BY <1>0, <1>1, <2>1, <2>2, CalmSteps, CalmCounted DEF Posts
<1>2. CASE SendMessage
  BY <1>1, <1>2, EventType DEF SendMessage, Kind, CtlKind
<1>3. CASE PressStop
  BY <1>1, <1>3, EventType DEF PressStop, AgentState, CtlKind
<1>4. ASSUME NEW a \in {"USER_CONFIRMED", "USER_REJECTED"}, Click(a)
      PROVE  Counted'
  <2> DEFINE e == [Change(a) EXCEPT !.act = view.act]
  <2>1. e \in Event /\ e.kind \in CtlKind
    <3>1. view.act \in Nat
      BY <1>0 DEF TypeOK
    <3> QED
      BY <3>1, ClickType DEF CtlKind, Answer
  <2>2. UserInput(e) /\ approved \subseteq approved'
    BY <1>4 DEF Click
  <2> HIDE DEF e
  <2> QED
    BY <1>1, <2>1, <2>2
<1> QED
  BY <1>2, <1>3, <1>4 DEF User

THEOREM AlwaysCounted == Spec => [](Counted /\ Asking)
<1>1. Init => Counted /\ Asking
  <2> SUFFICES ASSUME Init
               PROVE  Counted
    BY AskingInit
  <2>1. ctl.pending.kind # "Run" /\ Elems(ctl.runq) = {} /\ DOMAIN ctl.runq = {}
    BY InitFacts, EventType DEF Elems
  <2>2. DOMAIN executed = {} /\ issued = {} /\ ~busy
    BY DEF Init
  <2> QED
    BY <2>1, <2>2 DEF Counted, Numbered, Once, Allowed, Awaited, ExecutedOnce, ApprovedOnly,
                      WaitsOnce
<1>2. Typed /\ Counted /\ Asking /\ [Next]_vars => (Counted /\ Asking)'
  <2> SUFFICES ASSUME Typed, Counted, Asking, [Next]_vars
               PROVE  Counted' /\ Asking'
    OBVIOUS
  <2>1. CASE UNCHANGED vars
    <3>1. Counted'
      BY <2>1 DEF vars, Counted, Numbered, Once, Allowed, Awaited, Executed, ExecutedOnce,
                  ApprovedOnly, WaitsOnce
    <3>2. Asking'
      BY <2>1 DEF vars, Asking, Apart, Untaken, Confirming, Asks, Clicked, Offered
    <3> QED
      BY <3>1, <3>2
  <2>2. busy => ctl.iter \notin issued
    BY DEF Counted, Numbered
  <2> QED
    BY <2>1, <2>2, CountedHandle, CountedOthers, CountedUser, AskingHandle, AskingOthers,
       AskingUser DEF Next, Others
<1> QED
  BY <1>1, <1>2, AlwaysTyped, PTL DEF Spec

(* No action is begun twice by the runtime, however late the user acts on  *)
(* what he sees: it is put on the stream again only when it has been held  *)
(* back, and then once - but for one that took an answer given to another. *)
THEOREM ActionsOnce == Spec => []ExecutedOnce
<1>1. Counted => ExecutedOnce
  BY DEF Counted, Once
<1> QED
  BY <1>1, AlwaysCounted, PTL

(* What the runtime executes of the actions that were held back, its user  *)
(* has confirmed on his screen, but for the same exception.                *)
THEOREM HeldNeedApproval == Spec => []ApprovedOnly
<1>1. Counted => ApprovedOnly
  BY DEF Counted, Allowed
<1> QED
  BY <1>1, AlwaysCounted, PTL
-----------------------------------------------------------------------------
(***************************************************************************)
(* An agent at work gets on.  What it waits for is under way:              *)
(*   Named      the pending action and the recalls the memory still has    *)
(*              have been on the stream; a recall that went on it twice is *)
(*              pending only in USER_CONFIRMED and USER_REJECTED           *)
(*   Stepping   a running agent that waits for nothing has an event coming *)
(*              that is not in the hands of the memory                     *)
(***************************************************************************)
Again(p) == p.kind = "Recall" /\ p.conf # "none"
Named(w) ==
    /\ w.pending = NoEvent \/ (w.pending.id > 0 /\ w.pending.id < w.next)
    /\ \A x \in Elems(w.memq) : /\ x.id > 0 /\ x.id < w.next
                                /\ x.id = w.pending.id => x.conf = "none" \/ Again(w.pending)
    /\ w.unsent < w.next
    /\ Again(w.pending) => w.state # "RUNNING"
Active ==
    busy \/ running # NoEvent \/ Reporting \/ ctl.ctlq # <<>> \/ ctl.runq # <<>>
Stepping == ctl.state = "RUNNING" /\ ctl.pending = NoEvent => Active

(* Coming, of any world and any action at the runtime.                     *)
Comes(p, c, r) ==
    \/ \E x \in Elems(c.runq) : x.id = p.id
    \/ \E x \in Elems(c.memq) : x.id = p.id
    \/ r.id = p.id
    \/ \E x \in Elems(c.ctlq) : x.kind \in Observation /\ x.cause = p.id
Due == Comes(ctl.pending, ctl, running) \/ Reporting \/ Stranded \/ Again(ctl.pending)
Waiting == ctl.state \in {"RUNNING"} \cup Answer /\ ctl.pending # NoEvent => Due
Working == Named(ctl) /\ Waiting /\ Stepping

LEMMA ComingComes == \A p : Coming(p) <=> Comes(p, ctl, running)
BY DEF Coming, Comes, Elems

LEMMA ElemsSplit ==
    ASSUME NEW q \in Seq(Event), q # <<>>
    PROVE  Elems(q) = {Head(q)} \cup Elems(Tail(q))
<1> DEFINE r == Tail(q)
           h == Head(q)
<1>1. /\ h = q[1] /\ DOMAIN q = 1..Len(q) /\ Len(q) \in Nat /\ Len(q) > 0
      /\ r \in Seq(Event) /\ DOMAIN r = 1..(Len(q) - 1)
      /\ \A i \in DOMAIN r : i + 1 \in DOMAIN q /\ r[i] = q[i + 1]
  BY ElemsHead
<1>2. Elems(r) \subseteq Elems(q) /\ h \in Elems(q)
  BY ElemsHead
<1> HIDE DEF r, h
<1>3. ASSUME NEW j \in DOMAIN q
      PROVE  q[j] = h \/ q[j] \in Elems(r)
  <2>1. CASE j = 1
    BY <1>1, <2>1
  <2>2. CASE j # 1
    <3>1. j - 1 \in DOMAIN r /\ r[j - 1] = q[j]
      BY <1>1, <1>3, <2>2
    <3> QED
      BY <3>1 DEF Elems
  <2> QED
    BY <2>1, <2>2
<1>4. \A x \in Elems(q) : x = h \/ x \in Elems(r)
  BY <1>3 DEF Elems
<1> QED
  BY <1>2, <1>4 DEF r, h

LEMMA NamedType ==
    ASSUME NEW w \in World
    PROVE  /\ w.next \in Nat /\ w.unsent \in Nat /\ w.alerts \in Nat
           /\ w.pending \in Event /\ w.pending.id \in Nat
           /\ w.ctlq \in Seq(Event) /\ w.runq \in Seq(Event) /\ w.memq \in Seq(Event)
           /\ \A x \in Elems(w.memq) : x.id \in Nat
           /\ NoEvent.id = 0 /\ NoEvent.kind = "None"
<1>1. /\ w.next \in Nat /\ w.unsent \in Nat /\ w.alerts \in Nat /\ w.pending \in Event
      /\ w.ctlq \in Seq(Event) /\ w.runq \in Seq(Event) /\ w.memq \in Seq(Event)
  BY DEF World
<1>2. \A x \in Event : x.id \in Nat
  BY DEF Event
<1>3. \A x \in Elems(w.memq) : x \in Event
  BY <1>1 DEF Elems
<1> QED
  BY <1>1, <1>2, <1>3, EventType

(* What is named stays so while the world grows.                           *)
LEMMA NamedKept ==
    ASSUME NEW c \in World, NEW w \in World, Named(c), w.next >= c.next,
           w.unsent = c.unsent \/ w.unsent < w.next,
           \A x \in Elems(w.memq) : x \in Elems(c.memq),
           w.pending = c.pending \/ w.pending = NoEvent,
           w.state = "RUNNING" => c.state = "RUNNING" \/ w.pending = NoEvent
    PROVE  Named(w)
<1>1. /\ c.next \in Nat /\ w.next \in Nat /\ c.unsent \in Nat /\ w.unsent \in Nat
      /\ c.pending.id \in Nat /\ \A x \in Elems(c.memq) : x.id \in Nat
      /\ NoEvent.id = 0 /\ NoEvent.kind = "None"
  BY NamedType
<1>2. w.pending = NoEvent \/ (w.pending.id > 0 /\ w.pending.id < w.next)
  BY <1>1 DEF Named
<1>3. \A x \in Elems(w.memq) : x.id > 0 /\ x.id < w.next
  BY <1>1 DEF Named
<1>4. \A x \in Elems(w.memq) : x.id = w.pending.id => x.conf = "none" \/ Again(w.pending)
  <2>1. CASE w.pending = c.pending
    BY <2>1 DEF Named
  <2>2. CASE w.pending = NoEvent
    <3>1. \A x \in Elems(w.memq) : x.id # w.pending.id
      BY <1>1, <1>3, <2>2
    <3> QED
      BY <3>1
  <2> QED
    BY <2>1, <2>2
<1>5. w.unsent < w.next
  BY <1>1 DEF Named
<1>6. Again(w.pending) => w.state # "RUNNING"
  BY <1>1 DEF Named, Again
<1> QED
  BY <1>2, <1>3, <1>4, <1>5, <1>6 DEF Named

(* ... and when a new action is pending.                                   *)
LEMMA NamedNew ==
    ASSUME NEW c \in World, NEW w \in World, Named(c), w.next > c.next,
           w.unsent = c.unsent, w.pending.id >= c.next, w.pending.id < w.next,
           \A x \in Elems(w.memq) : x \in Elems(c.memq) \/ x = w.pending,
           w.pending.kind = "Recall" \/ \A x \in Elems(w.memq) : x \in Elems(c.memq),
           Again(w.pending) => w.state # "RUNNING"
    PROVE  Named(w)
<1>1. /\ c.next \in Nat /\ w.next \in Nat /\ c.unsent \in Nat /\ w.unsent \in Nat
      /\ w.pending.id \in Nat /\ \A x \in Elems(c.memq) : x.id \in Nat
  BY NamedType
<1>2. c.unsent < c.next /\ \A x \in Elems(c.memq) : x.id > 0 /\ x.id < c.next
  BY DEF Named
<1>3. w.pending.id > 0 /\ w.unsent < w.next
  BY <1>1, <1>2
<1>4. \A x \in Elems(c.memq) : x.id < w.next /\ x.id # w.pending.id
  BY <1>1, <1>2
<1>5. ASSUME NEW x \in Elems(w.memq)
      PROVE  /\ x.id > 0 /\ x.id < w.next
             /\ x.id = w.pending.id => x.conf = "none" \/ Again(w.pending)
  BY <1>2, <1>3, <1>4 DEF Again
<1> QED
  BY <1>3, <1>5 DEF Named

LEMMA HandledNamed ==
    ASSUME Typed, Limited, Working, ctl.ctlq # <<>>,
           NEW w \in World, Handled(ctl, Head(ctl.ctlq), w)
    PROVE  /\ Named(w)
           /\ w.state \in {"RUNNING"} \cup Answer /\ w.pending # NoEvent =>
                 \/ \E x \in Elems(w.runq) : x.id = w.pending.id
                 \/ \E x \in Elems(w.memq) : x.id = w.pending.id
                 \/ Ignores(ctl, Head(ctl.ctlq), w) /\ ctl.state = w.state
<1> DEFINE e == Head(ctl.ctlq)
<1>0. /\ ctl \in World /\ NoEvent.kind = "None" /\ ctl.next \in Nat /\ ctl.next > 0
      /\ ctl.runq \in Seq(Event) /\ ctl.memq \in Seq(Event) /\ ctl.ctlq \in Seq(Event)
      /\ w.pending \in Event /\ w.pending.id \in Nat /\ Named(ctl)
  <2>1. ctl \in World /\ ctl.next > 1
    BY DEF Typed, TypeOK, Limited, Ordered
  <2> QED
    BY <2>1, NamedType DEF Working
<1>1. /\ e \in Event /\ e = ctl.ctlq[1] /\ 1 \in DOMAIN ctl.ctlq
      /\ w.next >= ctl.next /\ w.unsent = ctl.unsent
  BY <1>0, ElemsHead DEF Handled, Took
<1>2. CASE Ignores(ctl, e, w)
  BY <1>0, <1>1, <1>2, NamedKept DEF Ignores, Queues, e
<1>3. CASE Settles(ctl, e, w)
  BY <1>0, <1>1, <1>3, NamedKept DEF Settles, Queues
<1>4. CASE Resumes(ctl, e, w)
  BY <1>0, <1>1, <1>4, NamedKept DEF Resumes, Queues
<1>5. CASE Recalls(ctl, e, w)
  <2>1. Elems(w.memq) = Elems(ctl.memq) \cup {w.pending}
    BY <1>0, <1>5, ElemsAppend DEF Recalls
  <2>2. w.pending.id >= ctl.next /\ w.pending.id < w.next /\ w.next > ctl.next
    BY <1>0, <1>5 DEF Recalls
  <2>3. Named(w)
    BY <1>0, <1>1, <1>5, <2>1, <2>2, NamedNew DEF Recalls, Again
  <2> QED
    BY <2>1, <2>3
<1>6. CASE Enters(ctl, e, w)
  BY <1>0, <1>1, <1>6, NamedKept DEF Enters, Queues, Answer, Rest
<1>7. CASE Starts(ctl, e, w)
  <2>1. IsStart(e)
    BY <1>7 DEF Starts, IsStart
  <2>2. ctl.pending = NoEvent
    BY <1>1, <1>7, <2>1 DEF Starts, Limited, Beginning
  <2>3. w.pending = NoEvent
    BY <1>7, <2>2 DEF Starts
  <2> QED
    BY <1>0, <1>1, <1>7, <2>3, NamedKept DEF Starts, Queues
<1>8. CASE Stops(ctl, e, w)
  BY <1>0, <1>1, <1>8, NamedKept DEF Stops, Answer
<1>9. CASE Answers(ctl, e, w)
  <2>1. w.pending.id >= ctl.next /\ w.pending.id < w.next /\ w.next > ctl.next
        /\ w.state \in Answer /\ w.state # "RUNNING"
    BY <1>0, <1>9 DEF Answers, Answer
  <2>2. CASE ctl.pending.kind = "Run"
    <3>1. w.runq = Append(ctl.runq, w.pending) /\ w.memq = ctl.memq
      BY <1>9, <2>2 DEF Answers
    <3>2. w.pending \in Elems(w.runq)
      BY <1>0, <3>1, ElemsAppend
    <3>3. Named(w)
      BY <1>0, <1>1, <2>1, <3>1, NamedNew
    <3> QED
      BY <3>2, <3>3
  <2>3. CASE ctl.pending.kind # "Run"
    <3>1. w.memq = Append(ctl.memq, w.pending) /\ w.pending.kind = "Recall"
      BY <1>9, <2>3 DEF Answers
    <3>2. Elems(w.memq) = Elems(ctl.memq) \cup {w.pending}
      BY <1>0, <3>1, ElemsAppend
    <3>3. Named(w)
      BY <1>0, <1>1, <2>1, <3>1, <3>2, NamedNew
    <3> QED
      BY <3>2, <3>3
  <2> QED
    BY <2>2, <2>3
<1>10. CASE AnswersLate(ctl, e, w)
  BY <1>0, <1>1, <1>10, NamedKept DEF AnswersLate, Queues
<1> HIDE DEF e
<1> QED
  BY <1>2, <1>3, <1>4, <1>5, <1>6, <1>7, <1>8, <1>9, <1>10 DEF Handled, e

(* What is to be reported is reported, and a failure that was to wait for  *)
(* another event has one as soon as any is on the stream.                  *)
LEMMA LateReports ==
    ASSUME ctl \in World, ctl' \in World, ctl'.unsent = ctl.unsent,
           ctl'.alerts >= ctl.alerts, ctl'.next >= ctl.next
    PROVE  /\ Reporting => Reporting'
           /\ ctl'.pending = ctl.pending /\ Stranded => Reporting' \/ Stranded'
<1>1. /\ ctl.next \in Nat /\ ctl.unsent \in Nat /\ ctl.alerts \in Nat
      /\ ctl'.next \in Nat /\ ctl'.unsent \in Nat /\ ctl'.alerts \in Nat
  BY NamedType
<1>2. Reporting => Reporting'
  BY <1>1 DEF Reporting
<1>3. ctl'.pending = ctl.pending /\ Stranded => Reporting' \/ Stranded'
  <2>1. CASE ctl'.next = ctl.next
    BY <2>1 DEF Stranded
  <2>2. CASE ctl'.next > ctl.next
    BY <1>1, <2>2 DEF Stranded, Reporting
  <2> QED
    BY <1>1, <2>1, <2>2
<1> QED
  BY <1>2, <1>3

LEMMA WorkingHandle ==
    ASSUME Typed, Limited, Working, HandleEvent
    PROVE  Working'
<1> DEFINE e == Head(ctl.ctlq)
<1>0. /\ TypeOK /\ Routed(ctl) /\ ctl \in World /\ mode \in Modes
      /\ ctl.ctlq \in Seq(Event) /\ ctl.alerts \in Nat
  BY DEF Typed, TypeOK, World
<1>1. /\ ~busy /\ ctl.ctlq # <<>> /\ e \in Event /\ e \in Elems(ctl.ctlq)
      /\ e = ctl.ctlq[1] /\ 1 \in DOMAIN ctl.ctlq
      /\ Elems(ctl.ctlq) = {e} \cup Elems(Tail(ctl.ctlq))
      /\ Len(Tail(ctl.ctlq)) = Len(ctl.ctlq) - 1
  BY <1>0, HandleEventCases, ElemsHead, ElemsSplit
<1>2. PICK w \in World :
         /\ Handled(ctl, e, w)
         /\ \/ ~MayStep(w, e) /\ ctl' = w /\ busy' = FALSE
            \/ MayStep(w, e) /\ Reacts(w, ctl') /\ busy' = FALSE
            \/ MayStep(w, e) /\ Calls(w, ctl') /\ busy' = TRUE
  BY <1>0, HandleEventCases
<1>3. UNCHANGED <<mode, running>>
  BY DEF HandleEvent
<1>4. /\ Named(w)
      /\ w.state \in {"RUNNING"} \cup Answer /\ w.pending # NoEvent =>
            \/ \E x \in Elems(w.runq) : x.id = w.pending.id
            \/ \E x \in Elems(w.memq) : x.id = w.pending.id
            \/ Ignores(ctl, e, w) /\ ctl.state = w.state
  BY <1>1, <1>2, HandledNamed
<1>5. IsStart(e) => \/ ctl.state = "RUNNING" /\ ctl.pending # NoEvent
                    \/ ctl.state = "ERROR" /\ ctl.pending = NoEvent /\ Len(ctl.ctlq) > 1
  BY <1>1 DEF Limited, Beginning
<1> HIDE DEF e
<1>6. CASE MayStep(w, e) /\ Reacts(w, ctl')
  <2>1. /\ ctl'.state = "ERROR" /\ ctl'.pending = NoEvent /\ w.pending = NoEvent
        /\ ctl'.memq = w.memq /\ ctl'.unsent = w.unsent /\ ctl'.next >= w.next /\ ctl' \in World
    BY <1>6 DEF Reacts, Beyond, MayStep
  <2>2. Named(ctl')
    BY <1>4, <2>1, NamedKept
  <2> QED
    BY <2>1, <2>2 DEF Working, Waiting, Stepping, Answer, Named, Again
<1>7. CASE MayStep(w, e) /\ Calls(w, ctl') /\ busy' = TRUE
  <2>1. /\ ctl'.pending = NoEvent /\ w.pending = NoEvent
        /\ ctl'.memq = w.memq /\ ctl'.unsent = w.unsent /\ ctl'.next >= w.next /\ ctl' \in World
    BY <1>7 DEF MayStep, Calls, Beyond
  <2>2. Named(ctl')
    BY <1>4, <2>1, NamedKept
  <2> QED
    BY <1>7, <2>1, <2>2 DEF Working, Waiting, Stepping, Active, Named, Again
<1>8. CASE ~MayStep(w, e) /\ ctl' = w
  <2>1. Named(ctl)'
    BY <1>4, <1>8 DEF Named, Again
  <2>2. Waiting'
    <3> SUFFICES ASSUME w.state \in {"RUNNING"} \cup Answer, w.pending # NoEvent
                 PROVE  Due'
      BY <1>8 DEF Waiting
    <3>1. CASE Ignores(ctl, e, w) /\ ctl.state = w.state
      <4>1. /\ w.pending = ctl.pending /\ w.runq = ctl.runq /\ w.memq = ctl.memq
            /\ w.ctlq = Tail(ctl.ctlq) /\ w.alerts = ctl.alerts /\ w.unsent = ctl.unsent
            /\ w.next >= ctl.next
        BY <1>2, <3>1 DEF Ignores, Queues, Handled, Took
      <4>2. Due
        BY <3>1, <4>1 DEF Working, Waiting
      <4>3. ~(e.kind \in Observation /\ e.cause = ctl.pending.id)
        BY <3>1, <4>1 DEF Ignores, Answer
      <4>4. Comes(ctl.pending, ctl, running) => Comes(ctl.pending, w, running)
        BY <1>1, <4>1, <4>3 DEF Comes
      <4>5. Reporting \/ Stranded => Reporting' \/ Stranded'
        <5>1. ctl'.alerts >= ctl.alerts /\ ctl' \in World
          BY <1>0, <1>8, <4>1
        <5> QED
          BY <1>0, <1>8, <4>1, <5>1, LateReports
      <4>6. Again(ctl.pending) => Again(ctl'.pending)
        BY <1>8, <4>1
      <4> QED
        BY <1>3, <1>8, <4>1, <4>2, <4>4, <4>5, <4>6 DEF Due
    <3>2. CASE \/ \E x \in Elems(w.runq) : x.id = w.pending.id
               \/ \E x \in Elems(w.memq) : x.id = w.pending.id
      BY <1>8, <3>2 DEF Due, Comes
    <3> QED
      BY <1>4, <3>1, <3>2
  <2>3. Stepping'
    <3> SUFFICES ASSUME w.state = "RUNNING", w.pending = NoEvent
                 PROVE  w.ctlq # <<>>
      BY <1>8 DEF Stepping, Active
    <3>1. e.kind \in {"ChangeState", "Finish", "Reject"}
      <4>1. e.kind \in CtlKind /\ ~ShouldStep(w, e)
        BY <1>0, <1>1, <1>8 DEF Routed, MayStep
      <4> QED
        BY <4>1 DEF CtlKind, ShouldStep, Observation
    <3>2. CASE Ignores(ctl, e, w)
      BY <1>5, <3>1, <3>2 DEF Ignores, IsStart, Rest
    <3>3. CASE Starts(ctl, e, w)
      <4>1. w.ctlq = Tail(ctl.ctlq) /\ Len(ctl.ctlq) > 1
        BY <1>5, <3>3 DEF Starts, Queues, IsStart
      <4>2. Len(ctl.ctlq) \in Nat /\ Len(w.ctlq) = Len(ctl.ctlq) - 1
        BY <1>0, <1>1, <4>1
      <4> DEFINE k == Len(w.ctlq)
                 n == Len(ctl.ctlq)
      <4>3. n \in Nat /\ n > 1 /\ k = n - 1
        BY <4>1, <4>2
      <4> HIDE DEF k, n
      <4>4. k # 0
        BY <4>3
      <4> QED
        BY <4>4 DEF k
    <3>4. CASE Answers(ctl, e, w)
      BY <3>4, EventType DEF Answers
    <3> QED
      BY <1>2, <3>1, <3>2, <3>3, <3>4 DEF Handled, Settles, Resumes, Recalls, Enters, Stops,
                                    AnswersLate, Rest, Answer, Observation
  <2> QED
    BY <2>1, <2>2, <2>3 DEF Working
<1> QED
  BY <1>2, <1>6, <1>7, <1>8

(* Steps beside the controller: nothing is lost that it waits for.         *)
LEMMA BesideWorking ==
    ASSUME Typed, Working, Beneath(ctl, ctl'), ctl'.next >= ctl.next,
           \A e \in Elems(ctl'.memq) : e \in Elems(ctl.memq),
           ctl'.unsent = ctl.unsent \/ ctl'.unsent < ctl'.next,
           ctl.pending # NoEvent /\ Due => Due',
           Active => Active'
    PROVE  Working'
<1>1. ctl'.state = ctl.state /\ ctl'.pending = ctl.pending /\ ctl \in World /\ ctl' \in World
  BY DEF Beneath, Typed, TypeOK
<1>2. Named(ctl')
  BY <1>1, NamedKept DEF Working
<1>3. Waiting'
  BY <1>1 DEF Working, Waiting
<1>4. Stepping'
  BY <1>1 DEF Working, Stepping
<1> QED
  BY <1>2, <1>3, <1>4 DEF Working, Named, Again

(* ... when they report no failure and only add to the stream.             *)
LEMMA StillDue ==
    ASSUME ctl \in World, ctl' \in World, ctl'.unsent = ctl.unsent,
           ctl'.alerts >= ctl.alerts, ctl'.next >= ctl.next, ctl'.pending = ctl.pending,
           ctl.pending # NoEvent /\ Comes(ctl.pending, ctl, running) =>
              Comes(ctl'.pending, ctl', running')
    PROVE  ctl.pending # NoEvent /\ Due => Due'
<1>1. Reporting \/ Stranded => Reporting' \/ Stranded'
  BY LateReports
<1>2. Again(ctl.pending) => Again(ctl'.pending)
  OBVIOUS
<1> QED
  BY <1>1, <1>2 DEF Due

LEMMA PostsWorking ==
    ASSUME Typed, Working, NEW e \in Event, Posts(ctl, ctl', e), UNCHANGED running
    PROVE  Working'
<1>0. ctl \in World /\ ctl.next \in Nat /\ ctl.alerts \in Nat /\ ctl.ctlq \in Seq(Event)
  BY DEF Typed, TypeOK, World
<1>1. /\ Beneath(ctl, ctl') /\ ctl'.runq = ctl.runq /\ ctl'.memq = ctl.memq
      /\ ctl'.alerts = ctl.alerts /\ ctl'.ctlq = Append(ctl.ctlq, e)
      /\ ctl'.unsent = ctl.unsent /\ ctl'.next = ctl.next + 1
      /\ ctl' \in World /\ ctl'.pending = ctl.pending
  BY DEF Posts, Beneath
<1>2. Elems(ctl'.ctlq) = Elems(ctl.ctlq) \cup {e} /\ ctl'.ctlq # <<>>
  BY <1>0, <1>1, ElemsAppend
<1>3. Active'
  BY <1>2 DEF Active
<1>4. Comes(ctl.pending, ctl, running) => Comes(ctl'.pending, ctl', running')
  BY <1>1, <1>2 DEF Comes
<1>5. ctl'.next >= ctl.next /\ ctl'.alerts >= ctl.alerts
  BY <1>0, <1>1
<1>6. ctl.pending # NoEvent /\ Due => Due'
  BY <1>0, <1>1, <1>4, <1>5, StillDue
<1> QED
  BY <1>1, <1>3, <1>5, <1>6, BesideWorking

LEMMA RuntimeWorking ==
    ASSUME Typed, Working, Runtime
    PROVE  Working'
<1>0. /\ TypeOK /\ Routed(ctl) /\ Thinking /\ ctl \in World /\ ctl.alerts \in Nat
      /\ ctl.ctlq \in Seq(Event) /\ ctl.runq \in Seq(Event) /\ NoEvent.id = 0
      /\ NoEvent.kind = "None" /\ ctl.pending \in Event /\ ctl.next \in Nat
  BY EventType DEF Typed, TypeOK, World
<1>1. CASE StartAction
  <2> DEFINE h == Head(ctl.runq)
             q == Tail(ctl.runq)
  <2>1. /\ running = NoEvent /\ running' = h /\ Beneath(ctl, ctl') /\ ctl'.runq = q
        /\ h \in Elems(ctl.runq) /\ ctl.runq # <<>> /\ ctl' \in World
        /\ ctl'.ctlq = ctl.ctlq /\ ctl'.memq = ctl.memq /\ ctl'.alerts = ctl.alerts
        /\ ctl'.pending = ctl.pending /\ ctl'.unsent = ctl.unsent /\ ctl'.next = ctl.next
    BY <1>0, <1>1, StartActionCases DEF Beneath
  <2>3. Elems(ctl.runq) = {h} \cup Elems(q)
    BY <1>0, <2>1, ElemsSplit
  <2>4. h # NoEvent
    BY <1>0, <2>1 DEF Routed
  <2> HIDE DEF h, q
  <2>5. Active'
    BY <2>1, <2>4 DEF Active
  <2>6. ASSUME ctl.pending # NoEvent, Comes(ctl.pending, ctl, running)
        PROVE  Comes(ctl'.pending, ctl', running')
    <3>1. running.id # ctl.pending.id
      <4>1. ctl.pending.id > 0 /\ ctl.pending.id # 0
        BY <1>0, <2>6 DEF Working, Named, Event
      <4> QED
        BY <1>0, <2>1, <4>1
    <3> QED
      BY <2>1, <2>3, <2>6, <3>1 DEF Comes
  <2>7. ctl'.next >= ctl.next /\ ctl'.alerts >= ctl.alerts
    BY <1>0, <2>1
  <2>8. ctl.pending # NoEvent /\ Due => Due'
    BY <1>0, <2>1, <2>6, <2>7, StillDue
  <2> QED
    BY <2>1, <2>5, <2>7, <2>8, BesideWorking
<1>2. CASE FinishAction
  <2>1. PICK e \in Event : /\ Posts(ctl, ctl', e) /\ e.kind = "Result"
                           /\ e.cause = running.id
    BY <1>0, <1>2, FinishActionCases
  <2>3. /\ Beneath(ctl, ctl') /\ ctl'.runq = ctl.runq /\ ctl'.memq = ctl.memq
        /\ ctl'.alerts = ctl.alerts /\ ctl'.ctlq = Append(ctl.ctlq, e)
        /\ ctl'.unsent = ctl.unsent /\ ctl'.next = ctl.next + 1
        /\ ctl' \in World /\ ctl'.pending = ctl.pending
    BY <2>1 DEF Posts, Beneath
  <2>4. Elems(ctl'.ctlq) = Elems(ctl.ctlq) \cup {e} /\ ctl'.ctlq # <<>>
    BY <1>0, <2>3, ElemsAppend
  <2>5. Active'
    BY <2>4 DEF Active
  <2>6. Comes(ctl.pending, ctl, running) => Comes(ctl'.pending, ctl', running')
    <3>1. e.kind \in Observation
      BY <2>1 DEF Observation
    <3> QED
      BY <2>1, <2>3, <2>4, <3>1 DEF Comes
  <2>7. ctl'.next >= ctl.next /\ ctl'.alerts >= ctl.alerts
    BY <1>0, <2>3
  <2>8. ctl.pending # NoEvent /\ Due => Due'
    BY <1>0, <2>3, <2>6, <2>7, StillDue
  <2> QED
    BY <2>3, <2>5, <2>7, <2>8, BesideWorking
<1>3. CASE FailAction
  <2>1. /\ Beneath(ctl, ctl') /\ ctl'.memq = ctl.memq /\ ctl'.alerts = ctl.alerts + 1
        /\ ctl'.next = ctl.next /\ ctl'.unsent = ctl.unsent
    BY <1>0, <1>3, FailActionCases
  <2>2. Reporting' /\ ctl'.next >= ctl.next
    BY <1>0, <2>1 DEF Reporting
  <2> QED
    BY <2>1, <2>2, BesideWorking DEF Due, Active
<1> QED
  BY <1>1, <1>2, <1>3 DEF Runtime

LEMMA RecallWorking ==
    ASSUME Typed, Working, AnswerRecall
    PROVE  Working'
<1> DEFINE h == Head(ctl.memq)
           q == Tail(ctl.memq)
<1>0. /\ TypeOK /\ ctl \in World /\ ctl.alerts \in Nat /\ ctl.next \in Nat
      /\ ctl.ctlq \in Seq(Event) /\ ctl.memq \in Seq(Event)
  BY DEF Typed, TypeOK, World
<1>1. /\ ctl.memq # <<>> /\ h \in Elems(ctl.memq) /\ Beneath(ctl, ctl') /\ ctl'.memq = q
      /\ ctl'.runq = ctl.runq /\ ctl.unsent = 0 /\ ctl'.alerts = ctl.alerts
      /\ \/ /\ ctl'.unsent = 0 /\ ctl'.next = ctl.next + 1
            /\ \E e \in Event : /\ e.kind \in {"Recalled", "Nothing"} /\ e.cause = h.id
                                /\ ctl'.ctlq = Append(ctl.ctlq, e)
         \/ ctl'.unsent = h.id /\ ctl'.next = ctl.next /\ ctl'.ctlq = ctl.ctlq
         \/ /\ h.conf # "none" /\ ctl'.unsent = 0
            /\ ctl'.next = ctl.next /\ ctl'.ctlq = ctl.ctlq
  BY <1>0, AnswerRecallCases
<1>2. Elems(ctl.memq) = {h} \cup Elems(q)
  BY <1>0, <1>1, ElemsSplit
<1>3. UNCHANGED <<busy, running>>
  BY DEF AnswerRecall
<1>4. /\ h.id \in Nat /\ h.id > 0 /\ h.id < ctl.next
      /\ h.id = ctl.pending.id => h.conf = "none" \/ Again(ctl.pending)
  BY <1>0, <1>1, NamedType DEF Working, Named
<1>5. /\ ctl'.pending = ctl.pending /\ ctl' \in World /\ ctl'.next >= ctl.next
      /\ ctl'.next \in Nat
  BY <1>0, <1>1 DEF Beneath
<1> HIDE DEF h, q
<1>6. ~Stranded /\ (Reporting => Reporting')
  BY <1>0, <1>1 DEF Stranded, Reporting
<1>7. ASSUME NEW e \in Event, e.kind \in {"Recalled", "Nothing"}, e.cause = h.id,
             ctl'.ctlq = Append(ctl.ctlq, e), ctl'.unsent = 0
      PROVE  Working'
  <2>1. Elems(ctl'.ctlq) = Elems(ctl.ctlq) \cup {e} /\ ctl'.ctlq # <<>>
    BY <1>0, <1>7, ElemsAppend
  <2>2. e.kind \in Observation
    BY <1>7 DEF Observation
  <2>3. Comes(ctl.pending, ctl, running) => Comes(ctl'.pending, ctl', running')
    BY <1>1, <1>2, <1>3, <1>5, <1>7, <2>1, <2>2 DEF Comes
  <2>4. Due => Due'
    BY <1>5, <1>6, <2>3 DEF Due
  <2> QED
    BY <1>1, <1>2, <1>5, <1>7, <2>1, <2>4, BesideWorking DEF Active
<1>8. CASE ctl'.unsent = h.id /\ ctl'.next = ctl.next /\ ctl'.ctlq = ctl.ctlq
  <2>1. ctl'.unsent < ctl'.next
    BY <1>4, <1>8
  <2>2. CASE h.id = ctl.pending.id
    <3>1. Reporting' \/ Stranded'
      BY <1>0, <1>4, <1>5, <1>8, <2>2 DEF Reporting, Stranded
    <3> QED
      BY <1>1, <1>2, <1>3, <1>5, <1>6, <1>8, <2>1, <3>1, BesideWorking DEF Due, Active
  <2>3. CASE h.id # ctl.pending.id
    <3>1. Comes(ctl.pending, ctl, running) => Comes(ctl'.pending, ctl', running')
      BY <1>1, <1>2, <1>3, <1>5, <1>8, <2>3 DEF Comes
    <3>2. Due => Due'
      BY <1>5, <1>6, <3>1 DEF Due
    <3> QED
      BY <1>1, <1>2, <1>3, <1>5, <1>6, <1>8, <2>1, <3>2, BesideWorking DEF Active
  <2> QED
    BY <2>2, <2>3
<1>9. CASE h.conf # "none" /\ ctl'.unsent = 0 /\ ctl'.next = ctl.next /\ ctl'.ctlq = ctl.ctlq
  <2>1. Comes(ctl.pending, ctl, running) =>
           Comes(ctl'.pending, ctl', running') \/ Again(ctl'.pending)
    BY <1>1, <1>2, <1>3, <1>4, <1>5, <1>9 DEF Comes
  <2>2. Due => Due'
    BY <1>5, <1>6, <2>1 DEF Due
  <2> QED
    BY <1>1, <1>2, <1>3, <1>5, <1>6, <1>9, <2>2, BesideWorking DEF Active
<1> QED
  BY <1>1, <1>7, <1>8, <1>9

LEMMA ReportWorking ==
    ASSUME Typed, Working, ReportFailure
    PROVE  Working'
<1>0. TypeOK /\ ctl \in World /\ ctl.alerts \in Nat /\ ctl.next \in Nat /\ ctl.next > ctl.unsent
  BY DEF Typed, TypeOK, World, Working, Named
<1>1. /\ Beneath(ctl, ctl') /\ ctl'.next = ctl.next /\ ctl'.memq = ctl.memq
      /\ ctl'.alerts = ctl.alerts + 1
  BY <1>0, ReportFailureCases
<1>2. ctl'.unsent = 0 /\ ctl.unsent \in Nat
  BY <1>0 DEF ReportFailure, World
<1>3. Reporting' /\ ctl'.next >= ctl.next /\ ctl'.unsent < ctl'.next
  BY <1>0, <1>1, <1>2 DEF Reporting
<1> QED
  BY <1>1, <1>3, BesideWorking DEF Due, Active

(* A step of the agent that failed, or one that waits for the user.        *)
LEMMA AtRestWorking ==
    ASSUME Named(ctl'), ctl'.state \notin {"RUNNING"} \cup Answer
    PROVE  Working'
BY DEF Working, Named, Waiting, Stepping, Answer, Again

LEMMA FailsWorking ==
    ASSUME Typed, Working, NEW n, Fails(ctl, ctl', n)
    PROVE  Working'
<1>1. ctl \in World /\ ctl.next \in Nat /\ Named(ctl)
  BY DEF Typed, TypeOK, World, Working
<1>2. /\ ctl' \in World /\ ctl'.state = "ERROR" /\ ctl'.unsent = ctl.unsent
      /\ ctl'.memq = ctl.memq /\ ctl'.next >= ctl.next
      /\ ctl'.pending = ctl.pending \/ ctl'.pending = NoEvent
  BY <1>1, NamedType DEF Fails
<1>3. Named(ctl')
  BY <1>1, <1>2, NamedKept
<1> QED
  BY <1>2, <1>3, AtRestWorking DEF Answer

LEMMA StepWorking ==
    ASSUME Typed, Working, Step
    PROVE  Working'
<1>0. /\ TypeOK /\ Routed(ctl) /\ Thinking /\ ctl \in World /\ ctl.next \in Nat
      /\ ctl.ctlq \in Seq(Event) /\ ctl.runq \in Seq(Event) /\ NoEvent.kind = "None"
      /\ ctl.alerts \in Nat /\ Named(ctl)
  BY EventType DEF Typed, TypeOK, World, Working
<1>1. busy /\ UNCHANGED <<mode, running>> /\ ctl.pending = NoEvent
      /\ ctl.state \in {"RUNNING", "ERROR"}
  BY <1>0 DEF Step, Think, AskRuntime, Say, LLMFails, Thinking
<1>2. CASE Think
  <2>1. PICK e \in Event : ctl'.runq = Append(ctl.runq, e)
    BY <1>0, <1>2, ThinkCases
  <2>2. Elems(ctl'.runq) = Elems(ctl.runq) \cup {e} /\ ctl'.runq # <<>>
    BY <1>0, <2>1, ElemsAppend
  <2>3. Active'
    BY <2>2 DEF Active
  <2>4. /\ Beneath(ctl, ctl') /\ ctl'.memq = ctl.memq /\ ctl'.unsent = ctl.unsent
        /\ ctl'.next = ctl.next + 1
    BY <1>0, <1>2, ThinkCases
  <2>5. ctl'.next >= ctl.next
    BY <1>0, <2>4
  <2> QED
    BY <1>1, <2>3, <2>4, <2>5, BesideWorking
<1>3. ASSUME NEW conf \in {"none", "awaiting"}, AskRuntime(conf)
      PROVE  Working'
  <2>1. Sends(ctl, ctl') \/ Holds(ctl, ctl')
    BY <1>0, <1>1, <1>3, AskRuntimeCases
  <2>2. /\ ctl'.memq = ctl.memq /\ ctl'.pending.kind = "Run" /\ ctl' \in World
        /\ ctl'.unsent = ctl.unsent /\ ctl'.next > ctl.next
        /\ ctl'.pending.id >= ctl.next /\ ctl'.pending.id < ctl'.next
    BY <2>1 DEF Sends, Holds, Asked
  <2>3. Named(ctl')
    BY <1>0, <2>2, NamedNew DEF Again
  <2>4. CASE Sends(ctl, ctl')
    <3>1. ctl'.state = ctl.state /\ ctl'.runq = Append(ctl.runq, ctl'.pending)
      BY <2>4 DEF Sends
    <3> DEFINE p == ctl'.pending
    <3>2. p \in Event /\ p # NoEvent
      BY <1>0, <2>2, NamedType
    <3>3. Elems(ctl'.runq) = Elems(ctl.runq) \cup {p}
      BY <1>0, <3>1, <3>2, ElemsAppend
    <3>4. Due'
      BY <3>3 DEF Due, Comes
    <3> QED
      BY <2>3, <3>2, <3>4 DEF Working, Named, Waiting, Stepping, Again
  <2>5. CASE Holds(ctl, ctl')
    BY <2>3, <2>5, AtRestWorking DEF Holds, Answer
  <2> QED
    BY <2>1, <2>4, <2>5
<1>4. ASSUME NEW k \in {"AgentMessage", "Question", "Finish", "Reject", "Malformed", "Condense"},
             Say(k)
      PROVE  Working'
  <2>1. k \in Kind /\ k \in CtlKind
    BY DEF Kind, CtlKind
  <2>2. \E e \in Event : Posts(ctl, ctl', e)
    BY <1>0, <1>4, <2>1, SayCases
  <2> QED
    BY <1>1, <2>2, PostsWorking
<1>5. CASE LLMFails
  <2>1. CASE Pauses(ctl, ctl')
    <3>1. /\ ctl' \in World /\ ctl'.state = "RATE_LIMITED" /\ ctl'.unsent = ctl.unsent
          /\ ctl'.memq = ctl.memq /\ ctl'.next >= ctl.next /\ ctl'.pending = ctl.pending
      BY <1>0, <2>1, NamedType DEF Pauses
    <3>2. Named(ctl')
      BY <1>0, <3>1, NamedKept
    <3> QED
      BY <3>1, <3>2, AtRestWorking DEF Answer
  <2> QED
    BY <1>0, <1>1, <1>5, <2>1, LLMFailsCases, FailsWorking
<1> QED
  BY <1>2, <1>3, <1>4, <1>5 DEF Step

THEOREM AlwaysWorking == Spec => []Working
<1>1. Init => Working
  <2> SUFFICES ASSUME Init
               PROVE  Working
    OBVIOUS
  <2>1. /\ ctl.state = "LOADING" /\ ctl.pending = NoEvent /\ Elems(ctl.memq) = {}
        /\ ctl.unsent = 0 /\ NoEvent.kind = "None"
    BY InitFacts, EventType DEF Elems
  <2>2. ctl.next \in Nat /\ ctl.next > 1
    BY LimitedInit, TypedInit DEF Limited, Ordered, Typed, TypeOK, World
  <2> QED
    BY <2>1, <2>2 DEF Working, Named, Waiting, Stepping, Answer, Again
<1>2. Typed /\ Limited /\ Working /\ [Next]_vars => Working'
  <2> SUFFICES ASSUME Typed, Limited, Working, [Next]_vars
               PROVE  Working'
    OBVIOUS
  <2>0. /\ TypeOK /\ ctl \in World /\ ctl.next \in Nat /\ ctl.alerts \in Nat
    BY DEF Typed, TypeOK, World
  <2>1. CASE Alert
    BY <2>0, <2>1, AlertCases, FailsWorking
  <2>2. CASE Show
    <3>1. /\ Beneath(ctl, ctl') /\ ctl'.ctlq = ctl.ctlq /\ ctl'.memq = ctl.memq
          /\ ctl'.runq = ctl.runq /\ ctl'.alerts = ctl.alerts /\ ctl'.unsent = ctl.unsent
          /\ ctl'.next = ctl.next /\ ctl' \in World /\ ctl'.pending = ctl.pending
      BY <2>0, <2>2, ShowCases DEF Beneath
    <3>2. UNCHANGED <<mode, busy, running>>
      BY <2>2 DEF Show
    <3>3. Active => Active'
      BY <3>1, <3>2 DEF Active, Reporting
    <3>4. Comes(ctl.pending, ctl, running) => Comes(ctl'.pending, ctl', running')
      BY <3>1, <3>2 DEF Comes
    <3>5. ctl'.next >= ctl.next /\ ctl'.alerts >= ctl.alerts
      BY <2>0, <3>1
    <3>6. ctl.pending # NoEvent /\ Due => Due'
      BY <2>0, <3>1, <3>4, <3>5, StillDue
    <3> QED
      BY <3>1, <3>3, <3>5, <3>6, BesideWorking
  <2>3. CASE User
    <3>1. \E e0 \in Event : e0.kind \in CtlKind /\ UserInput(e0)
      <4>1. CASE SendMessage \/ PressStop
        BY <4>1, EventType DEF SendMessage, PressStop, Kind, CtlKind, AgentState
      <4>2. ASSUME NEW a \in {"USER_CONFIRMED", "USER_REJECTED"}, Click(a)
            PROVE  \E e0 \in Event : e0.kind \in CtlKind /\ UserInput(e0)
        <5> DEFINE e == [Change(a) EXCEPT !.act = view.act]
        <5>1. view.act \in Nat
          BY <2>0 DEF TypeOK
        <5>2. e \in Event /\ e.kind = "ChangeState"
          BY <5>1, ClickType DEF Answer
        <5>3. UserInput(e)
          BY <4>2 DEF Click
        <5> HIDE DEF e
        <5> QED
          BY <5>2, <5>3 DEF CtlKind
      <4> QED
        BY <2>3, <4>1, <4>2 DEF User
    <3>2. \E e \in Event : Posts(ctl, ctl', e)
      BY <2>0, <3>1, UserInputCases
    <3>3. UNCHANGED running
      BY <3>1 DEF UserInput
    <3> QED
      BY <3>2, <3>3, PostsWorking
  <2>4. CASE UNCHANGED vars
    <3>1. Named(ctl)'
      BY <2>4 DEF vars, Working, Named, Again
    <3>2. Waiting'
      BY <2>4 DEF vars, Working, Waiting, Due, Comes, Reporting, Stranded, Again
    <3>3. Stepping'
      BY <2>4 DEF vars, Working, Stepping, Active, Reporting
    <3> QED
      BY <3>1, <3>2, <3>3 DEF Working
  <2> QED
    BY <2>1, <2>2, <2>3, <2>4, WorkingHandle, StepWorking, RuntimeWorking, RecallWorking,
       ReportWorking DEF Next
<1> QED
  BY <1>1, <1>2, AlwaysTyped, AlwaysLimited, PTL DEF Spec

(* The answer an agent at work waits for comes, or an error status does,   *)
(* but for a recall that failed as the last event or that was put on the   *)
(* stream again.                                                           *)
THEOREM AnswersCome == Spec => []PendingAnswerable
<1>1. Working => PendingAnswerable
  <2> SUFFICES ASSUME Working, ctl.state \in {"RUNNING"} \cup Answer, ctl.pending # NoEvent
               PROVE  \/ Coming(ctl.pending) \/ Reporting \/ Stranded
                      \/ ctl.state \in Answer /\ Resent
    BY DEF PendingAnswerable, Answering, Answer
  <2>1. Due
    BY DEF Working, Waiting
  <2>2. Again(ctl.pending) => ctl.state \in Answer /\ Resent
    BY DEF Working, Named, Again, Resent
  <2> QED
    BY <2>1, <2>2, ComingComes DEF Due
<1> QED
  BY <1>1, AlwaysWorking, PTL

(* The agent is never left at work with nothing in flight, but for a       *)
(* recall that failed as the last event and for the user's answer that     *)
(* was overtaken.                                                          *)
THEOREM NeverStalls == Spec => []NoStall
<1>1. Typed /\ Limited /\ Working => NoStall
  <2> SUFFICES ASSUME Typed, Limited, Working, Quiet
               PROVE  \/ ctl.state \notin {"LOADING", "RUNNING"} \cup Answer
                      \/ Stranded \/ Overtaken
    BY DEF NoStall, Answering, Answer
  <2>1. ctl.pending \in Event /\ NoEvent.id = 0 /\ ctl.pending.id \in Nat
    BY NamedType DEF Typed, TypeOK
  <2>2. ctl.state # "LOADING"
    BY DEF Limited, Beginning, Quiet
  <2>3. ASSUME ctl.pending # NoEvent
        PROVE  ~Comes(ctl.pending, ctl, running)
    <3>1. ctl.pending.id > 0 /\ ctl.pending.id # 0
      BY <2>1, <2>3 DEF Working, Named
    <3> QED
      BY <2>1, <3>1 DEF Comes, Quiet, Elems
  <2>4. CASE ctl.state \in {"RUNNING"} \cup Answer /\ ctl.pending # NoEvent
    <3>1. Stranded \/ Again(ctl.pending)
      BY <2>3, <2>4 DEF Working, Waiting, Due, Quiet
    <3>2. Again(ctl.pending) => Overtaken
      BY <2>4 DEF Working, Named, Again, Overtaken, Resent, Answering, Answer
    <3> QED
      BY <3>1, <3>2
  <2>5. CASE ctl.pending = NoEvent
    <3>1. ctl.state # "RUNNING"
      BY <2>5 DEF Working, Stepping, Active, Quiet
    <3> QED
      BY <2>2, <2>5, <3>1 DEF Overtaken, Answering, Answer
  <2> QED
    BY <2>2, <2>4, <2>5
<1> QED
  BY <1>1, AlwaysTyped, AlwaysLimited, AlwaysWorking, PTL
=============================================================================
