-------------------------- MODULE BashSessionProofs --------------------------
(***************************************************************************)
(* A shell command that is reported as completed is over, for any number   *)
(* of calls and pieces of output: theorems of BashSpec, which say what     *)
(* holds as long as the session did not misread the pane, and that it      *)
(* keeps its types even then.                                              *)
(***************************************************************************)
EXTENDS BashSession, SubsequenceTheorems, SequenceTheorems

(***************************************************************************)
(* Prompts in the pane.                                                    *)
(***************************************************************************)
PromptsIn(p) == Cardinality({i \in DOMAIN p : IsPrompt(p[i])})

(* A prompt at the end of the pane is one more; anything else is none.     *)
LEMMA OneMorePrompt ==
    ASSUME NEW p \in Seq(Int), NEW x \in Int
    PROVE  /\ PromptsIn(p) \in Nat
           /\ PromptsIn(Append(p, x)) = IF x = Prompt THEN PromptsIn(p) + 1 ELSE PromptsIn(p)
<1> DEFINE S == {i \in DOMAIN p : IsPrompt(p[i])}
           q == Append(p, x)
           T == {i \in DOMAIN q : IsPrompt(q[i])}
<1>1. /\ Len(p) \in Nat /\ DOMAIN p = 1..Len(p) /\ DOMAIN q = 1..(Len(p) + 1)
      /\ \A i \in 1..Len(p) : q[i] = p[i]
      /\ q[Len(p) + 1] = x
  OBVIOUS
<1>2. IsFiniteSet(1..Len(p)) /\ S \subseteq 1..Len(p)
  BY <1>1, FS_Interval
<1>3. IsFiniteSet(S)
  BY <1>2, FS_Subset
<1>4. Cardinality(S) \in Nat
  BY <1>3, FS_CardinalityType
<1> HIDE DEF q
<1>5. CASE x = Prompt
  <2>1. T = S \cup {Len(p) + 1} /\ Len(p) + 1 \notin S
    BY <1>1, <1>5 DEF IsPrompt
  <2>2. Cardinality(T) = Cardinality(S) + 1
    BY <1>3, <2>1, FS_AddElement
  <2> QED
    BY <1>4, <1>5, <2>2 DEF PromptsIn, q
<1>6. CASE x # Prompt
  <2>1. T = S
    BY <1>1, <1>6 DEF IsPrompt
  <2> QED
    BY <1>4, <1>6, <2>1 DEF PromptsIn, q
<1> QED
  BY <1>5, <1>6

(***************************************************************************)
(* Whatever is read when: the session keeps its types.  The count of the   *)
(* prompts is a number because the pane is a sequence, also when the       *)
(* screen is cut at the place where the last C-l scrolled it.              *)
(***************************************************************************)
Executes == [pc : {"ready", "sending", "polling", "clearing"}, kind : AllKinds, count : Nat]

BashTyped ==
    /\ pane \in Seq(Int)
    /\ scrolled \in 0..Len(pane)
    /\ printed \in Nat
    /\ shell \in {"idle", "running"}
    /\ typed \in Seq(Keys)
    /\ execute \in Executes
    /\ prevStatus \in {"none", "completed", "timeout"}
    /\ misread \in BOOLEAN

LEMMA PromptsOf == Prompts = PromptsIn(pane) /\ Prompts' = PromptsIn(pane')
BY DEF Prompts, PromptsIn

(* What is appended to the pane is its last.                               *)
LEMMA LastAppend ==
    ASSUME NEW p \in Seq(Int), NEW x \in Int
    PROVE  /\ Append(p, x) \in Seq(Int) /\ Append(p, x) # <<>>
           /\ Len(Append(p, x)) = Len(p) + 1
           /\ Last(Append(p, x)) = x
BY DEF Last

(* The terminal, the shell and the program only append to the pane.        *)
LEMMA PaneStaysTyped ==
    ASSUME BashTyped, Read \/ PrintOutput \/ Finish
    PROVE  BashTyped'
<1>1. /\ pane \in Seq(Int) /\ Len(pane) \in Nat /\ scrolled \in 0..Len(pane)
      /\ Prompt \in Int /\ Echo \in Int /\ printed \in Nat /\ typed \in Seq(Keys)
  BY DEF BashTyped, Prompt, Echo
<1>2. /\ execute' = execute /\ prevStatus' = prevStatus /\ misread' \in BOOLEAN
      /\ printed' \in Nat /\ shell' \in {"idle", "running"}
  <2>1. execute' = execute /\ prevStatus' = prevStatus
    BY DEF Read, PrintOutput, Finish, session
  <2>2. misread' \in BOOLEAN
    BY Zenon DEF Read, PrintOutput, Finish, BashTyped
  <2>3. printed' = printed \/ printed' = printed + 1
    BY DEF Read, PrintOutput, Finish
  <2>4. shell' \in {"idle", "running"}
    BY DEF Read, PrintOutput, Finish, BashTyped
  <2> QED
    BY <1>1, <2>1, <2>2, <2>3, <2>4
<1>3. typed' \in Seq(Keys)
  <2>1. CASE Read
    BY <1>1, <2>1 DEF Read
  <2>2. CASE PrintOutput \/ Finish
    BY <1>1, <2>2 DEF PrintOutput, Finish
  <2> QED
    BY <2>1, <2>2
<1>4. /\ pane' \in Seq(Int) /\ Len(pane') >= Len(pane)
      /\ scrolled' = scrolled \/ scrolled' = Len(pane)
  <2>1. CASE Read
    <3>1. /\ \/ pane' = Append(pane, Echo) \/ pane' = Append(pane, Prompt)
             \/ pane' = pane \o <<Echo, Prompt>>
          /\ scrolled' = scrolled \/ scrolled' = Len(pane)
      BY <2>1 DEF Read
    <3>2. /\ pane \o <<Echo, Prompt>> \in Seq(Int)
          /\ Len(pane \o <<Echo, Prompt>>) = Len(pane) + 2
      BY <1>1
    <3>3. \A x \in {Echo, Prompt} : Append(pane, x) \in Seq(Int)
                                   /\ Len(Append(pane, x)) = Len(pane) + 1
      BY <1>1, LastAppend
    <3>4. pane' \in Seq(Int) /\ Len(pane') \in {Len(pane) + 1, Len(pane) + 2}
      BY <3>1, <3>2, <3>3
    <3> QED
      BY <1>1, <3>1, <3>4
  <2>2. CASE PrintOutput
    BY <1>1, <2>2 DEF PrintOutput
  <2>3. CASE Finish
    BY <1>1, <2>3 DEF Finish
  <2> QED
    BY <2>1, <2>2, <2>3
<1>5. scrolled' \in 0..Len(pane')
  BY <1>1, <1>4
<1> QED
  BY <1>2, <1>3, <1>4, <1>5 DEF BashTyped

(* The calls of the session leave the pane as it is, or cut it.            *)
LEMMA SessionStaysTyped ==
    ASSUME BashTyped,
           \/ \E kind \in Kinds : Refuse(kind) \/ Start(kind)
           \/ SendKeys \/ Complete \/ ClearScreen \/ TimesOut
    PROVE  BashTyped'
<1>1. /\ pane \in Seq(Int) /\ Len(pane) \in Nat /\ scrolled \in 0..Len(pane)
      /\ typed \in Seq(Keys) /\ execute \in Executes /\ NoExecute \in Executes
  BY DEF BashTyped, Executes, NoExecute, AllKinds
<1>2. Prompts \in Nat
  BY <1>1, OneMorePrompt, PromptsOf
<1>3. /\ printed' \in Nat /\ shell' \in {"idle", "running"} /\ misread' \in BOOLEAN
      /\ prevStatus' \in {"none", "completed", "timeout"}
  BY DEF Refuse, Start, SendKeys, Complete, ClearScreen, TimesOut, LookAtPane, BashTyped, terminal
<1>4. typed' \in Seq(Keys)
  <2>1. "C-l" \in Keys /\ "C-c" \in Keys /\ "command" \in Keys /\ "line" \in Keys
    BY DEF Keys
  <2>2. typed' = typed \/ \E k \in Keys : typed' = Append(typed, k)
    BY <2>1 DEF Refuse, Start, SendKeys, Complete, ClearScreen, TimesOut, terminal
  <2>3. \A k \in Keys : Append(typed, k) \in Seq(Keys)
    BY <1>1
  <2> QED
    BY <1>1, <2>2, <2>3
<1>5. execute' \in Executes
  <2>1. CASE \E kind \in Kinds : Start(kind)
    <3>1. PICK kind \in Kinds : Start(kind)
      BY <2>1
    <3>2. kind \in AllKinds
      BY BashAssumption
    <3>3. execute' = [pc |-> IF kind = "look" THEN "polling" ELSE "sending",
                      kind |-> kind, count |-> Prompts]
      BY <3>1 DEF Start
    <3> HIDE DEF Prompts
    <3> QED
      BY <1>2, <3>2, <3>3 DEF Executes
  <2>2. CASE ~\E kind \in Kinds : Start(kind)
    <3>1. \/ execute' = execute \/ execute' = NoExecute
          \/ execute' = [execute EXCEPT !.pc = "polling"]
          \/ execute' = [execute EXCEPT !.pc = "clearing"]
      BY <2>2 DEF Refuse, SendKeys, Complete, ClearScreen, TimesOut
    <3> QED
      BY <1>1, <3>1 DEF Executes
  <2> QED
    BY <2>1, <2>2
<1>6. pane' \in Seq(Int) /\ scrolled' \in 0..Len(pane')
  <2>1. CASE ClearScreen
    <3>1. pane' = SubSeq(pane, scrolled + 1, Len(pane)) /\ scrolled' = 0
      BY <2>1 DEF ClearScreen
    <3>2. pane' \in Seq(Int)
      BY <1>1, <3>1
    <3> QED
      BY <3>1, <3>2
  <2>2. CASE ~ClearScreen
    <3>1. pane' = pane /\ scrolled' = scrolled
      BY <2>2 DEF Refuse, Start, SendKeys, Complete, TimesOut, terminal
    <3> QED
      BY <1>1, <3>1
  <2> QED
    BY <2>1, <2>2
<1> QED
  BY <1>3, <1>4, <1>5, <1>6 DEF BashTyped

LEMMA TypedStart == BashInit => BashTyped
<1> SUFFICES ASSUME BashInit PROVE BashTyped
  OBVIOUS
<1>1. pane \in Seq(Int) /\ Len(pane) = 1 /\ typed \in Seq(Keys)
  <2>1. pane = <<0>> /\ typed = <<>>
    BY DEF BashInit, Prompt
  <2> QED
    BY <2>1
<1>2. execute \in Executes
  BY DEF BashInit, NoExecute, Executes, AllKinds
<1>3. scrolled \in 0..Len(pane) /\ printed \in Nat
  BY <1>1 DEF BashInit
<1>4. /\ shell \in {"idle", "running"} /\ prevStatus \in {"none", "completed", "timeout"}
      /\ misread \in BOOLEAN
  BY Zenon DEF BashInit
<1> QED
  BY <1>1, <1>2, <1>3, <1>4, Zenon DEF BashTyped

LEMMA TypedStep == BashTyped /\ [BashNext]_bashVars => BashTyped'
<1>1. CASE BashTyped /\ UNCHANGED bashVars
  BY <1>1 DEF bashVars, terminal, session, BashTyped
<1>2. CASE BashTyped /\ BashNext
  BY <1>2, PaneStaysTyped, SessionStaysTyped DEF BashNext
<1> QED
  BY <1>1, <1>2

THEOREM AlwaysTyped == BashSpec => []BashTyped
BY TypedStart, TypedStep, PTL DEF BashSpec

(***************************************************************************)
(* That completion is seen rightly rests on the pane: it ends with a       *)
(* prompt exactly when the shell is idle.  A prompt more than at the start *)
(* of the call is as good a sign because the count is taken before the     *)
(* command begins, or while one runs: as long as something runs there are  *)
(* no more prompts than were counted.  All this until the pane is misread. *)
(***************************************************************************)
Begun == execute.pc \in {"sending", "polling"}

PaneShape ==
    /\ pane # <<>>
    /\ shell = "idle" <=> Last(pane) = Prompt
CallShape ==
    /\ typed \in {<<>>, <<"command">>, <<"line">>, <<"C-c">>, <<"C-l">>}
    /\ typed \in {<<"command">>, <<"line">>, <<"C-c">>} => execute.pc = "polling"
    /\ typed = <<"C-l">> => execute.pc = "clearing"
AtOnePrompt ==
    /\ execute.pc = "ready" /\ prevStatus # "timeout" => shell = "idle"
    /\ execute.pc = "ready" /\ prevStatus = "completed" => pane = <<Prompt>>
    /\ execute.pc = "clearing" => prevStatus = "completed"
    /\ execute.pc = "clearing" /\ typed = <<>> => scrolled = Len(pane) - 1
CountedBefore ==
    /\ (execute.pc = "sending" /\ execute.kind = "command") \/ typed = <<"command">> =>
          shell = "idle" /\ Prompts = execute.count
    /\ Begun /\ shell = "running" => Prompts <= execute.count

Right == PaneShape /\ CallShape /\ AtOnePrompt /\ CountedBefore /\ TrulyOver

BashInv == misread \/ Right

LEMMA BashStart == BashInit => BashInv
<1> SUFFICES ASSUME BashInit PROVE Right
  BY DEF BashInv
<1>1. pane = <<Prompt>> /\ Last(pane) = Prompt
  BY DEF BashInit, Last
<1> QED
  BY <1>1 DEF BashInit, Right, PaneShape, CallShape, AtOnePrompt, CountedBefore, Begun,
     TrulyOver, NoExecute, Prompt

(* Keys are read: a command begins, counted before; a line is read by a    *)
(* program, which may be interrupted or not; or the screen is cleared.     *)
LEMMA ReadKeeps ==
    ASSUME BashTyped, Right, ~misread', Read
    PROVE  Right'
<1> USE DEF Right
<1>1. /\ UNCHANGED <<printed, execute, prevStatus>> /\ typed # <<>> /\ typed' = Tail(typed)
      /\ pane \in Seq(Int) /\ Prompt \in Int /\ Echo \in Int /\ Echo # Prompt
      /\ ~(Head(typed) = "line" /\ shell = "idle")
  <2>1. ~(Head(typed) = "line" /\ shell = "idle")
    BY Zenon DEF Read
  <2> QED
    BY <2>1 DEF Read, session, BashTyped, Prompt, Echo
<1>2. typed \in {<<"command">>, <<"line">>, <<"C-c">>, <<"C-l">>} /\ typed = <<Head(typed)>>
  BY <1>1 DEF CallShape
<1>3. typed' = <<>>
  BY <1>1, <1>2
<1>4. shell \in {"idle", "running"} /\ execute.count \in Nat /\ Prompts \in Nat
  BY <1>1, OneMorePrompt, PromptsOf DEF BashTyped, Executes
<1>5. CASE Head(typed) = "C-l"
  <2>1. typed = <<"C-l">> /\ execute.pc = "clearing" /\ shell = "idle"
    BY <1>1, <1>2, <1>5 DEF CallShape, TrulyOver
  <2>2. pane' = Append(pane, Prompt) /\ scrolled' = Len(pane) /\ shell' = "idle"
    BY <1>5, <2>1 DEF Read
  <2>3. pane' # <<>> /\ Last(pane') = Prompt /\ Len(pane') = Len(pane) + 1 /\ Len(pane) \in Nat
    BY <1>1, <2>2, LastAppend
  <2> QED
    BY <1>1, <1>3, <2>1, <2>2, <2>3
       DEF PaneShape, CallShape, AtOnePrompt, CountedBefore, TrulyOver, Begun
<1>6. CASE Head(typed) # "C-l"
  <2>1. typed \in {<<"command">>, <<"line">>, <<"C-c">>} /\ execute.pc = "polling"
    BY <1>1, <1>2, <1>6 DEF CallShape
  <2>2. \/ pane' = Append(pane, Echo) /\ shell' = "running"
        \/ pane' = Append(Append(pane, Echo), Prompt) /\ shell' = "idle"
    <3>1. pane \o <<Echo, Prompt>> = Append(Append(pane, Echo), Prompt)
      BY <1>1
    <3>2. \/ Head(typed) \in {"command", "line"} \/ Head(typed) = "C-c"
      BY <2>1
    <3> QED
      BY <1>6, <3>1, <3>2 DEF Read
  <2>3. CASE pane' = Append(Append(pane, Echo), Prompt) /\ shell' = "idle"
    <3>1. pane' # <<>> /\ Last(pane') = Prompt /\ shell' = "idle"
      BY <1>1, <2>3, LastAppend
    <3>2. execute'.pc = "polling"
      BY <1>1, <2>1
    <3> QED
      BY <1>3, <3>1, <3>2
         DEF PaneShape, CallShape, AtOnePrompt, CountedBefore, TrulyOver
  <2>4. CASE pane' = Append(pane, Echo) /\ shell' = "running"
    <3>1. pane' # <<>> /\ Last(pane') = Echo /\ Prompts' = Prompts
      BY <1>1, <2>4, LastAppend, OneMorePrompt, PromptsOf
    <3>2. Prompts <= execute.count
      <4>1. CASE shell = "running"
        BY <2>1, <4>1 DEF CountedBefore, Begun
      <4>2. CASE shell = "idle"
        <5>1. typed # <<"line">>
          BY <1>1, <1>2, <4>2
        <5>2. CASE typed = <<"command">>
          BY <1>4, <5>2 DEF CountedBefore
        <5>3. CASE typed = <<"C-c">>
          BY <4>2, <2>4, <1>2, <5>3 DEF Read, Echo, Prompt
        <5> QED
          BY <2>1, <5>1, <5>2, <5>3
      <4> QED
        BY <1>4, <4>1, <4>2
    <3> QED
      BY <1>1, <1>3, <2>1, <2>4, <3>1, <3>2
         DEF PaneShape, CallShape, AtOnePrompt, CountedBefore, TrulyOver
  <2> QED
    BY <2>2, <2>3, <2>4
<1> QED
  BY <1>5, <1>6

(* The program prints, or ends with a prompt.                              *)
LEMMA ProgramKeeps ==
    ASSUME BashTyped, Right, PrintOutput \/ Finish
    PROVE  Right'
<1> USE DEF Right
<1>1. /\ shell = "running" /\ UNCHANGED <<typed, execute, prevStatus, scrolled>>
      /\ pane \in Seq(Int) /\ printed \in Nat /\ Prompt \in Int
  BY DEF PrintOutput, Finish, session, BashTyped, Prompt
<1>2. /\ execute.pc # "clearing" /\ typed # <<"command">>
      /\ ~(execute.pc = "sending" /\ execute.kind = "command")
      /\ execute.pc = "ready" => prevStatus = "timeout"
  BY <1>1 DEF TrulyOver, CountedBefore, AtOnePrompt
<1>3. CASE PrintOutput
  <2>1. /\ pane' = Append(pane, printed + 1) /\ shell' = shell
        /\ printed + 1 \in Int /\ printed + 1 # Prompt
    BY <1>1, <1>3 DEF PrintOutput, Prompt
  <2>2. /\ pane' # <<>> /\ Last(pane') = printed + 1
        /\ Prompts' = Prompts
    BY <1>1, <2>1, LastAppend, OneMorePrompt, PromptsOf
  <2> QED
    BY <1>1, <1>2, <2>1, <2>2
       DEF PaneShape, CallShape, AtOnePrompt, CountedBefore, TrulyOver, Begun
<1>4. CASE Finish
  <2>1. pane' = Append(pane, Prompt) /\ shell' = "idle"
    BY <1>4 DEF Finish
  <2>2. pane' # <<>> /\ Last(pane') = Prompt
    BY <1>1, <2>1, LastAppend
  <2> QED
    BY <1>1, <1>2, <2>1, <2>2
       DEF PaneShape, CallShape, AtOnePrompt, CountedBefore, TrulyOver
<1> QED
  BY <1>3, <1>4

(* A call begins: it is refused, or the prompts are counted.  A command is *)
(* begun only when the pane ends with a prompt.                            *)
LEMMA CallKeeps ==
    ASSUME BashTyped, Right, ~misread', NEW kind \in Kinds, Refuse(kind) \/ Start(kind)
    PROVE  Right'
<1> USE DEF Right
<1>1. /\ execute.pc = "ready" /\ typed = <<>> /\ prevStatus' = prevStatus
      /\ UNCHANGED <<pane, scrolled, typed, shell>>
  BY DEF Refuse, Start, NewExecute, LookAtPane, terminal
<1>2. Prompts \in Nat /\ Prompts' = Prompts
  BY <1>1, OneMorePrompt, PromptsOf DEF BashTyped
<1>3. CASE Refuse(kind)
  <2>1. execute' = execute
    BY <1>3 DEF Refuse
  <2> QED
    BY <1>1, <1>2, <2>1 DEF PaneShape, CallShape, AtOnePrompt, CountedBefore, TrulyOver, Begun
<1>4. CASE Start(kind)
  <2>1. /\ execute' = [pc |-> IF kind = "look" THEN "polling" ELSE "sending",
                       kind |-> kind, count |-> Prompts]
        /\ ~StillRunning(kind)
    BY <1>4 DEF Start
  <2>2. /\ execute'.pc \in {"polling", "sending"} /\ execute'.kind = kind
        /\ execute'.count = Prompts
    BY <2>1
  <2>3. kind = "command" => shell = "idle"
    <3>1. CASE prevStatus # "timeout"
      BY <1>1, <3>1 DEF AtOnePrompt
    <3>2. CASE EndsWithPrompt
      BY <3>2 DEF EndsWithPrompt, PaneShape
    <3> QED
      BY <2>1, <3>1, <3>2 DEF StillRunning
  <2> QED
    BY <1>1, <1>2, <2>2, <2>3
       DEF PaneShape, CallShape, AtOnePrompt, CountedBefore, TrulyOver
<1> QED
  BY <1>3, <1>4

(* The keys are sent.                                                      *)
LEMMA SendKeeps ==
    ASSUME BashTyped, Right, SendKeys
    PROVE  Right'
<1> USE DEF Right
<1>1. /\ execute.pc = "sending" /\ typed = <<>>
      /\ UNCHANGED <<pane, scrolled, shell, prevStatus>>
      /\ execute' = [execute EXCEPT !.pc = "polling"] /\ execute \in Executes
  BY DEF SendKeys, CallShape, BashTyped
<1>2. execute'.pc = "polling" /\ execute'.count = execute.count
  BY <1>1 DEF Executes
<1>3. /\ typed' \in {<<"command">>, <<"line">>, <<"C-c">>}
      /\ typed' = <<"command">> => execute.kind = "command"
  BY <1>1 DEF SendKeys
<1>4. Prompts' = Prompts
  BY <1>1 DEF Prompts
<1> QED
  BY <1>1, <1>2, <1>3, <1>4 DEF PaneShape, CallShape, AtOnePrompt, CountedBefore, TrulyOver, Begun

(* The call ends: the command is found to be over, and is; or it is not.   *)
LEMMA EndKeeps ==
    ASSUME BashTyped, Right, ~misread', Complete \/ TimesOut
    PROVE  Right'
<1> USE DEF Right
<1>1. /\ execute.pc = "polling" /\ typed = <<>> /\ UNCHANGED <<pane, scrolled, shell>>
      /\ execute \in Executes
  BY DEF Complete, TimesOut, LookAtPane, terminal, BashTyped
<1>2. Prompts' = Prompts /\ Prompts \in Nat /\ execute.count \in Nat
      /\ shell \in {"idle", "running"}
  BY <1>1, OneMorePrompt, PromptsOf DEF BashTyped, Executes
<1>3. CASE Complete
  <2>1. /\ execute' = [execute EXCEPT !.pc = "clearing"] /\ prevStatus' = "completed"
        /\ typed' = <<"C-l">> /\ Over
    BY <1>1, <1>3 DEF Complete
  <2>2. execute'.pc = "clearing"
    BY <1>1, <2>1 DEF Executes
  <2>3. shell = "idle"
    <3>1. CASE Prompts > execute.count
      BY <1>1, <1>2, <3>1 DEF CountedBefore, Begun
    <3>2. CASE EndsWithPrompt
      BY <3>2 DEF EndsWithPrompt, PaneShape
    <3> QED
      BY <2>1, <3>1, <3>2 DEF Over
  <2> QED
    BY <1>1, <2>1, <2>2, <2>3 DEF PaneShape, CallShape, AtOnePrompt, CountedBefore, TrulyOver, Begun
<1>4. CASE TimesOut
  <2>1. execute' = NoExecute /\ prevStatus' = "timeout" /\ typed' = typed
    BY <1>4 DEF TimesOut, terminal
  <2> QED
    BY <1>1, <2>1
       DEF PaneShape, CallShape, AtOnePrompt, CountedBefore, TrulyOver, Begun, NoExecute
<1> QED
  BY <1>3, <1>4

(* The screen is cleared, and the C-l was read: the idle shell shows one   *)
(* prompt.                                                                 *)
LEMMA ClearedPane ==
    ASSUME BashTyped, Right, ~misread', ClearScreen
    PROVE  /\ shell = "idle" /\ typed = <<>> /\ prevStatus = "completed"
           /\ pane' = <<Prompt>>
<1> USE DEF Right
<1>1. /\ shell = "idle" /\ typed = <<>> /\ prevStatus = "completed"
      /\ scrolled = Len(pane) - 1 /\ pane # <<>> /\ Last(pane) = Prompt
      /\ pane' = SubSeq(pane, scrolled + 1, Len(pane)) /\ pane \in Seq(Int)
  BY DEF ClearScreen, LookAtPane, TrulyOver, AtOnePrompt, PaneShape, BashTyped
<1>2. Len(pane) \in Nat /\ Len(pane) >= 1 /\ pane[Len(pane)] = Prompt
  BY <1>1 DEF Last
<1>3. SubSeq(pane, Len(pane), Len(pane)) = <<pane[Len(pane)]>>
  <2> DEFINE v == SubSeq(pane, Len(pane), Len(pane))
  <2>1. /\ v \in Seq(Int) /\ Len(v) = 1 /\ v[1] = pane[Len(pane)]
        /\ pane[Len(pane)] \in Int
    BY <1>1, <1>2
  <2> HIDE DEF v
  <2>2. v = <<v[1]>>
    BY <2>1
  <2> QED
    BY <2>1, <2>2 DEF v
<1> QED
  BY <1>1, <1>2, <1>3

LEMMA ClearKeeps ==
    ASSUME BashTyped, Right, ~misread', ClearScreen
    PROVE  Right'
<1>1. /\ shell = "idle" /\ typed = <<>> /\ prevStatus = "completed" /\ pane' = <<Prompt>>
      /\ execute' = NoExecute /\ UNCHANGED <<typed, shell, prevStatus>>
  BY ClearedPane DEF ClearScreen
<1>2. pane' # <<>> /\ Last(pane') = Prompt
  BY <1>1 DEF Last
<1> QED
  BY <1>1, <1>2
     DEF Right, PaneShape, CallShape, AtOnePrompt, CountedBefore, TrulyOver, Begun, NoExecute

(* What was misread stays so.                                              *)
LEMMA MisreadStays == [BashNext]_bashVars /\ misread => misread'
BY DEF BashNext, bashVars, Read, PrintOutput, Finish, Refuse, Start, SendKeys, Complete,
   ClearScreen, TimesOut, LookAtPane

LEMMA BashStep ==
    ASSUME BashTyped, BashInv, [BashNext]_bashVars
    PROVE  BashInv'
<1> SUFFICES ASSUME ~misread' PROVE Right'
  BY DEF BashInv
<1>1. Right
  BY MisreadStays DEF BashInv
<1>2. CASE UNCHANGED bashVars
  BY <1>1, <1>2 DEF bashVars, terminal, session, Right, PaneShape, CallShape, AtOnePrompt,
     CountedBefore, TrulyOver, Begun, Prompts
<1>3. CASE BashNext
  BY <1>1, <1>3, ReadKeeps, ProgramKeeps, CallKeeps, SendKeeps, EndKeeps, ClearKeeps DEF BashNext
<1> QED
  BY <1>2, <1>3

THEOREM AlwaysOver == BashSpec => []BashInv
<1>1. BashInit => BashInv
  BY BashStart
<1>2. BashTyped /\ BashInv /\ [BashNext]_bashVars => BashInv'
  BY BashStep
<1> QED
  BY <1>1, <1>2, AlwaysTyped, PTL DEF BashSpec

LEMMA BashTypesFollow == BashTyped /\ BashInv => BashTypeOK
BY DEF BashTyped, Executes, BashInv, Right, AtOnePrompt, BashTypeOK

(* The session keeps its types, whatever it misreads, and is at one prompt *)
(* between two commands otherwise.                                         *)
THEOREM BashTypes == BashSpec => []BashTypeOK
BY BashTypesFollow, AlwaysTyped, AlwaysOver, PTL

(* A command that execute reports as completed is over, unless the pane    *)
(* was misread before: the shell is idle and nothing is typed that it has  *)
(* not read but the C-l, whichever calls timed out, looked, were given     *)
(* input or interrupted before (_handle_completed_command).                *)
THEOREM CompletedCommandsAreOver == BashSpec => []CompletedIsOver
<1>1. BashInv => CompletedIsOver
  BY DEF BashInv, Right, CompletedIsOver
<1> QED
  BY <1>1, AlwaysOver, PTL
-----------------------------------------------------------------------------
(***************************************************************************)
(* Output is reported once.  The text of the pane, which has no prompts,   *)
(* is what the last observation had and what came since; the output in     *)
(* the latter continues what was reported to all that was printed.         *)
(***************************************************************************)
Kept(s, S) == AtPlaces(s, {i \in DOMAIN s : s[i] \in S})
Text(p) == Kept(p, Int \ {Prompt})
Pieces(s) == Kept(s, Nat \ {0})
Upto(n) == [i \in 1..n |-> i]

Unreported(rest) ==
    /\ Text(pane) = prevOutput \o rest
    /\ reported \o Pieces(rest) = Upto(printed)
ReportsAddUp ==
    /\ pane[1] = Prompt
    /\ prevOutput \in Seq(Int) /\ reported \in Seq(Int)
    /\ \E rest \in Seq(Int) : Unreported(rest)
    /\ execute.pc = "clearing" => prevOutput = Text(pane)

(* What is kept of a sequence that grew.                                   *)
LEMMA KeptAppend ==
    ASSUME NEW S, NEW s \in Seq(Int), NEW x \in Int
    PROVE  /\ Kept(s, S) \in Seq(Int)
           /\ Kept(Append(s, x), S) = IF x \in S THEN Append(Kept(s, S), x) ELSE Kept(s, S)
<1> DEFINE K == {i \in DOMAIN s : s[i] \in S}
           r == Append(s, x)
           L == {i \in DOMAIN r : r[i] \in S}
<1>1. /\ Len(s) \in Nat /\ DOMAIN s = 1..Len(s) /\ DOMAIN r = 1..(Len(s) + 1)
      /\ r[Len(s) + 1] = x /\ \A i \in 1..Len(s) : r[i] = s[i]
      /\ DOMAIN r = DOMAIN s \cup {Len(s) + 1} /\ Len(s) + 1 \notin DOMAIN s
  OBVIOUS
<1> HIDE DEF r
<1>2. L = IF x \in S THEN K \cup {Len(s) + 1} ELSE K
  BY <1>1
<1>3. K \in SUBSET DOMAIN s
  OBVIOUS
<1> HIDE DEF K, L
<1>4. AtPlaces(s, K) \in Seq(Int)
  BY <1>3, AtPlacesType
<1>5. /\ AtPlaces(r, K) = AtPlaces(s, K)
      /\ AtPlaces(r, K \cup {Len(s) + 1}) = Append(AtPlaces(s, K), x)
  BY <1>3, AtPlacesAppend DEF r
<1> QED
  BY <1>2, <1>4, <1>5 DEF Kept, K, L, r

LEMMA NothingKept ==
    ASSUME NEW S
    PROVE  Kept(<<>>, S) = <<>>
<1>1. {i \in DOMAIN <<>> : <<>>[i] \in S} = {}
  OBVIOUS
<1> QED
  BY <1>1, AtNoPlace DEF Kept

LEMMA TextAppend ==
    ASSUME NEW p \in Seq(Int), NEW x \in Int
    PROVE  /\ Text(p) \in Seq(Int)
           /\ Text(Append(p, x)) = IF x = Prompt THEN Text(p) ELSE Append(Text(p), x)
BY KeptAppend DEF Text

LEMMA PiecesAppend ==
    ASSUME NEW s \in Seq(Int), NEW x \in Int
    PROVE  /\ Pieces(s) \in Seq(Int)
           /\ Pieces(Append(s, x)) = IF x > 0 THEN Append(Pieces(s), x) ELSE Pieces(s)
<1>1. x \in Nat \ {0} <=> x > 0
  OBVIOUS
<1> QED
  BY <1>1, KeptAppend DEF Pieces

(* A fresh pane has no text.                                               *)
LEMMA OnePromptText == Text(<<Prompt>>) = <<>> /\ <<Prompt>> \in Seq(Int) /\ <<Prompt>>[1] = Prompt
<1>1. Append(<<>>, 0) = <<0>> /\ <<>> \in Seq(Int) /\ <<0>> \in Seq(Int) /\ <<0>>[1] = 0
  OBVIOUS
<1>2. Text(<<>>) = <<>>
  BY NothingKept DEF Text
<1>3. Text(Append(<<>>, 0)) = Text(<<>>)
  <2>1. 0 \in Int /\ 0 = Prompt
    BY DEF Prompt
  <2> QED
    BY <1>1, <2>1, TextAppend
<1> QED
  BY <1>1, <1>2, <1>3 DEF Prompt

(* What _combine_outputs_between_matches gives is the text of the pane;    *)
(* with one prompt at its end there is none.                               *)
LEMMA AllText ==
    ASSUME BashTyped, PaneShape, pane[1] = Prompt
    PROVE  Prompts >= 1 /\ Combined(FALSE) = Text(pane)
<1>1. /\ Len(pane) \in Nat /\ DOMAIN pane = 1..Len(pane) /\ Len(pane) >= 1 /\ 1 \in DOMAIN pane
      /\ \A i \in DOMAIN pane : pane[i] \in Int
  BY DEF BashTyped, PaneShape
<1>2. FirstPrompt = 1
  <2> DEFINE I == {i \in 1..Len(pane) : IsPrompt(pane[i])}
  <2>1. 1 \in I /\ \A i \in I : i \in Int /\ 1 <= i
    BY <1>1 DEF IsPrompt
  <2>2. \A m \in I : (\A i \in I : m <= i) => m = 1
    BY <2>1
  <2>3. Min(I) = 1
    <3> HIDE DEF I
    <3> QED
      BY <2>1, <2>2 DEF Min
  <2>4. I # {}
    BY <2>1
  <2> QED
    BY <2>3, <2>4 DEF FirstPrompt, SelectInSeq
<1>3. Prompts \in Nat /\ Prompts >= 1
  <2> DEFINE S == {i \in DOMAIN pane : IsPrompt(pane[i])}
  <2>1. S \in SUBSET (1..Len(pane)) /\ 1 \in S
    BY <1>1 DEF IsPrompt
  <2>2. IsFiniteSet(S) /\ Cardinality(S) \in Nat
    BY <1>1, <2>1, RankType
  <2>3. Cardinality(S) # 0
    BY <2>1, <2>2, FS_EmptySet
  <2> QED
    BY <2>2, <2>3 DEF Prompts
<1>4. {i \in 1..Len(pane) : ~IsPrompt(pane[i])} = {i \in DOMAIN pane : pane[i] \in Int \ {Prompt}}
  BY <1>1 DEF IsPrompt
<1>5. Combined(FALSE) = AtPlaces(pane, {i \in FirstPrompt..Len(pane) : ~IsPrompt(pane[i])})
  BY <1>3 DEF Combined
<1> QED
  BY <1>2, <1>3, <1>4, <1>5 DEF Text, Kept

LEMMA NoText ==
    ASSUME BashTyped, PaneShape, pane[1] = Prompt, shell = "idle", Prompts = 1
    PROVE  pane = <<Prompt>>
<1>1. /\ Len(pane) \in Nat /\ DOMAIN pane = 1..Len(pane) /\ Len(pane) >= 1
      /\ pane[Len(pane)] = Prompt /\ pane \in Seq(Int)
  BY DEF BashTyped, PaneShape, Last
<1> DEFINE S == {i \in DOMAIN pane : IsPrompt(pane[i])}
<1>2. S \in SUBSET (1..Len(pane)) /\ 1 \in S /\ Len(pane) \in S
  BY <1>1 DEF IsPrompt
<1>3. IsFiniteSet(S) /\ Cardinality(S) = 1
  BY <1>1, <1>2, RankType DEF Prompts
<1>4. \E x : S = {x}
  BY <1>3, FS_Singleton
<1>5. Len(pane) = 1
  BY <1>2, <1>4
<1> QED
  BY <1>1, <1>5

LEMMA CombinedIsText ==
    ASSUME BashTyped, PaneShape, pane[1] = Prompt, NEW completed \in BOOLEAN, completed => shell = "idle"
    PROVE  Combined(completed) = Text(pane)
<1>1. Prompts >= 1 /\ Combined(FALSE) = Text(pane)
  BY AllText
<1>2. CASE completed /\ Prompts = 1
  <2>1. pane = <<Prompt>>
    BY <1>2, NoText
  <2>2. FirstPrompt = 1
    <3>1. {i \in 1..Len(pane) : IsPrompt(pane[i])} = {1}
      BY <2>1 DEF IsPrompt
    <3>2. Min({1}) = 1
      BY DEF Min
    <3> QED
      BY <3>1, <3>2 DEF FirstPrompt, SelectInSeq
  <2>3. Combined(completed) = SubSeq(pane, 1, FirstPrompt - 1)
    <3>1. ~(Prompts = 0)
      BY <1>1
    <3> HIDE DEF Prompts
    <3> QED
      BY <1>2, <3>1 DEF Combined
  <2>4. SubSeq(pane, 1, 0) = <<>>
    BY <2>1
  <2> QED
    BY <2>1, <2>2, <2>3, <2>4, OnePromptText
<1>3. CASE ~(completed /\ Prompts = 1)
  <2>1. ~(Prompts = 1 /\ completed) /\ ~(Prompts = 0)
    <3> HIDE DEF Prompts
    <3> QED
      BY <1>1, <1>3
  <2>2. Combined(completed) = Combined(FALSE)
    <3> HIDE DEF Prompts
    <3> QED
      BY <2>1, Zenon DEF Combined
  <2> QED
    BY <1>1, <2>2
<1> QED
  BY <1>2, <1>3

LEMMA OneMore ==
    ASSUME NEW p \in Seq(Int), NEW r \in Seq(Int), NEW x \in Int
    PROVE  /\ Append(r, x) \in Seq(Int)
           /\ p \o Append(r, x) = Append(p \o r, x)
<1> DEFINE v == p \o Append(r, x)
           w == Append(p \o r, x)
<1>1. /\ v \in Seq(Int) /\ w \in Seq(Int) /\ Append(r, x) \in Seq(Int)
      /\ Len(p) \in Nat /\ Len(r) \in Nat
      /\ Len(v) = Len(p) + Len(r) + 1 /\ Len(w) = Len(p) + Len(r) + 1
  OBVIOUS
<1>2. \A i \in 1..Len(v) : v[i] = w[i]
  OBVIOUS
<1> HIDE DEF v, w
<1>3. v = w
  BY <1>1, <1>2, SeqEqual
<1> QED
  BY <1>1, <1>3 DEF v, w

LEMMA Continued ==
    ASSUME NEW p \in Seq(Int), NEW r \in Seq(Int)
    PROVE  /\ p \o <<>> = p
           /\ IsPrefix(p, p \o r)
           /\ SubSeq(p \o r, Len(p) + 1, Len(p \o r)) = r
<1> DEFINE w == p \o r
<1>1. /\ w \in Seq(Int) /\ Len(p) \in Nat /\ Len(r) \in Nat /\ Len(w) = Len(p) + Len(r)
      /\ \A i \in 1..Len(p) : w[i] = p[i]
      /\ \A i \in 1..Len(r) : w[Len(p) + i] = r[i]
  OBVIOUS
<1> HIDE DEF w
<1>2. SubSeq(p, 1, Len(p)) = SubSeq(w, 1, Len(p))
  BY <1>1
<1>3. IsPrefix(p, w)
  BY <1>1, <1>2 DEF IsPrefix
<1>4. SubSeq(w, Len(p) + 1, Len(w)) = r
  <2> DEFINE v == SubSeq(w, Len(p) + 1, Len(w))
  <2>1. /\ v \in Seq(Int) /\ Len(v) = Len(r)
        /\ \A i \in 1..Len(v) : v[i] = w[Len(p) + i]
    BY <1>1
  <2> HIDE DEF v
  <2>2. \A i \in 1..Len(r) : v[i] = r[i]
    BY <1>1, <2>1
  <2>3. v = r
    BY <2>1, <2>2, SeqEqual
  <2> QED
    BY <2>3 DEF v
<1>5. p \o <<>> = p
  OBVIOUS
<1> QED
  BY <1>3, <1>4, <1>5 DEF w

(* An observation reports what came since the last one, and remembers all. *)
LEMMA ReportTells ==
    ASSUME BashTyped, ReportsAddUp, PaneShape, Report(Text(pane)), UNCHANGED <<pane, printed>>
    PROVE  ReportsAddUp'
<1>1. PICK rest \in Seq(Int) : Unreported(rest)
  BY DEF ReportsAddUp
<1>2. /\ prevOutput \in Seq(Int) /\ reported \in Seq(Int) /\ Text(pane) \in Seq(Int)
      /\ Text(pane) = prevOutput \o rest
      /\ Pieces(rest) \in Seq(Int)
  BY <1>1, TextAppend, PiecesAppend DEF ReportsAddUp, Unreported, BashTyped, Prompt
<1> DEFINE raw == Text(pane)
<1>3. /\ IsPrefix(prevOutput, raw)
      /\ SubSeq(raw, Len(prevOutput) + 1, Len(raw)) = rest
  BY <1>2, Continued
<1> HIDE DEF raw
<1>6. reported' = reported \o Output(rest) /\ prevOutput' = raw
  BY <1>3 DEF Report, raw
<1>7. Output(rest) = Pieces(rest)
  <2>1. \A i \in DOMAIN rest : rest[i] > 0 <=> rest[i] \in Nat \ {0}
    OBVIOUS
  <2>2. {i \in DOMAIN rest : rest[i] > 0} = {i \in DOMAIN rest : rest[i] \in Nat \ {0}}
    BY <2>1
  <2> QED
    BY <2>2 DEF Output, Pieces, Kept
<1>8. reported' = Upto(printed)
  BY <1>1, <1>6, <1>7 DEF Unreported
<1>9. Unreported(<<>>)' /\ <<>> \in Seq(Int)
  <2>1. Text(pane)' = prevOutput' \o <<>>
    BY <1>2, <1>6, Continued DEF raw
  <2>2. Pieces(<<>>) = <<>>
    BY NothingKept DEF Pieces
  <2>3. reported' \in Seq(Int)
    BY <1>2, <1>6, <1>7
  <2>4. reported' \o <<>> = reported'
    BY <2>3, Continued
  <2>5. (reported \o Pieces(<<>>))' = Upto(printed)'
    BY <1>8, <2>2, <2>4
  <2> QED
    BY <2>1, <2>5 DEF Unreported
<1>10. prevOutput' = Text(pane)'
  BY <1>6 DEF raw
<1>11. (pane[1] = Prompt)' /\ prevOutput' \in Seq(Int) /\ reported' \in Seq(Int)
  BY <1>2, <1>6, <1>7 DEF ReportsAddUp, raw
<1>12. (\E r \in Seq(Int) : Unreported(r))'
  BY <1>9
<1> QED
  BY <1>10, <1>11, <1>12 DEF ReportsAddUp

(* The pane gets a prompt, an echo, or the next piece of output.           *)
LEMMA PaneGrows ==
    ASSUME BashTyped, ReportsAddUp, PaneShape, NEW x \in Int, pane' = Append(pane, x),
           execute'.pc = "clearing" => execute.pc = "clearing" /\ x = Prompt,
           UNCHANGED <<prevOutput, reported>>,
           \/ x <= 0 /\ printed' = printed
           \/ x = printed + 1 /\ printed' = x
    PROVE  ReportsAddUp'
<1>1. PICK rest \in Seq(Int) : Unreported(rest)
  BY DEF ReportsAddUp
<1>2. /\ prevOutput \in Seq(Int) /\ reported \in Seq(Int) /\ Pieces(rest) \in Seq(Int)
      /\ pane \in Seq(Int) /\ pane # <<>> /\ printed \in Nat /\ pane[1] = Prompt
  BY PiecesAppend DEF ReportsAddUp, BashTyped, PaneShape, Prompt
<1>3. pane'[1] = Prompt
  BY <1>2
<1> DEFINE more == IF x = Prompt THEN rest ELSE Append(rest, x)
<1>4. more \in Seq(Int) /\ Text(pane)' = prevOutput \o more
  <2>1. Text(pane)' = Text(Append(pane, x))
    OBVIOUS
  <2>2. Text(pane) = prevOutput \o rest
    BY <1>1 DEF Unreported
  <2>3. /\ prevOutput \o Append(rest, x) = Append(prevOutput \o rest, x)
        /\ Append(rest, x) \in Seq(Int)
    BY <1>2, OneMore
  <2>4. Text(Append(pane, x)) = IF x = Prompt THEN Text(pane) ELSE Append(Text(pane), x)
    BY <1>2, TextAppend
  <2> QED
    BY <2>1, <2>2, <2>3, <2>4
<1>5. reported \o Pieces(more) = Upto(printed')
  <2>1. reported \o Pieces(rest) = Upto(printed)
    BY <1>1 DEF Unreported
  <2>2. CASE x <= 0
    <3>1. Pieces(more) = Pieces(rest)
      BY <2>2, PiecesAppend
    <3>2. printed' = printed
      BY <1>2, <2>2
    <3> QED
      BY <2>1, <3>1, <3>2
  <2>3. CASE x > 0
    <3>1. x = printed + 1 /\ printed' = x /\ x # Prompt
      BY <2>3 DEF Prompt
    <3>2. Pieces(more) = Append(Pieces(rest), x)
      BY <2>3, <3>1, PiecesAppend
    <3>3. reported \o Append(Pieces(rest), x) = Append(reported \o Pieces(rest), x)
      BY <1>2, OneMore
    <3>4. Append(Upto(printed), printed + 1) = Upto(printed + 1)
      BY <1>2 DEF Upto
    <3> QED
      BY <2>1, <3>1, <3>2, <3>3, <3>4
  <2> QED
    BY <2>2, <2>3
<1> HIDE DEF more
<1>6. Unreported(more)'
  BY <1>4, <1>5 DEF Unreported
<1>7. execute'.pc = "clearing" => prevOutput' = Text(pane)'
  <2>1. execute'.pc = "clearing" => prevOutput = Text(pane) /\ x = Prompt
    BY DEF ReportsAddUp
  <2>2. x = Prompt => Text(pane)' = Text(pane)
    BY <1>2, TextAppend
  <2> QED
    BY <2>1, <2>2
<1> QED
  BY <1>2, <1>3, <1>4, <1>6, <1>7 DEF ReportsAddUp

(* ... an echo and then a prompt; or nothing.                              *)
LEMMA PaneGrowsTwice ==
    ASSUME BashTyped, ReportsAddUp, PaneShape, pane' = pane \o <<Echo, Prompt>>, execute'.pc # "clearing",
           UNCHANGED <<printed, prevOutput, reported>>
    PROVE  ReportsAddUp'
<1>1. PICK rest \in Seq(Int) : Unreported(rest)
  BY DEF ReportsAddUp
<1>2. /\ prevOutput \in Seq(Int) /\ reported \in Seq(Int) /\ Pieces(rest) \in Seq(Int)
      /\ pane \in Seq(Int) /\ pane # <<>> /\ pane[1] = Prompt
      /\ Prompt \in Int /\ Echo \in Int /\ Echo # Prompt /\ ~(Echo > 0)
  BY PiecesAppend DEF ReportsAddUp, BashTyped, PaneShape, Prompt, Echo
<1>3. pane' = Append(Append(pane, Echo), Prompt) /\ Append(pane, Echo) \in Seq(Int)
  BY <1>2
<1>4. pane'[1] = Prompt
  BY <1>2, <1>3
<1> DEFINE more == Append(rest, Echo)
<1>5. more \in Seq(Int) /\ Text(pane)' = prevOutput \o more
  <2>1. Text(Append(Append(pane, Echo), Prompt)) = Text(Append(pane, Echo))
    BY <1>2, <1>3, TextAppend
  <2>2. Text(Append(pane, Echo)) = Append(Text(pane), Echo)
    BY <1>2, TextAppend
  <2>3. Text(pane) = prevOutput \o rest
    BY <1>1 DEF Unreported
  <2>4. Append(prevOutput \o rest, Echo) = prevOutput \o more /\ more \in Seq(Int)
    BY <1>2, OneMore
  <2>5. Text(pane)' = Text(Append(Append(pane, Echo), Prompt))
    BY <1>3
  <2> QED
    BY <2>1, <2>2, <2>3, <2>4, <2>5
<1>6. reported \o Pieces(more) = Upto(printed')
  <2>1. Pieces(more) = Pieces(rest)
    BY <1>2, PiecesAppend
  <2> QED
    BY <1>1, <2>1 DEF Unreported
<1> HIDE DEF more
<1>7. Unreported(more)'
  BY <1>5, <1>6 DEF Unreported
<1> QED
  BY <1>2, <1>4, <1>5, <1>7 DEF ReportsAddUp

LEMMA Quietly ==
    ASSUME ReportsAddUp, UNCHANGED <<pane, printed, prevOutput, reported>>, execute'.pc # "clearing"
    PROVE  ReportsAddUp'
BY DEF ReportsAddUp, Unreported

LEMMA AddUpStep ==
    ASSUME BashTyped, Right, ~misread', ReportsAddUp, BashNext
    PROVE  ReportsAddUp'
<1>1. /\ PaneShape /\ CallShape /\ pane[1] = Prompt
      /\ pane \in Seq(Int) /\ execute \in Executes
  BY DEF Right, ReportsAddUp, BashTyped
<1>3. CASE Read
  <2>1. execute' = execute /\ UNCHANGED <<printed, prevOutput, reported>>
    BY <1>3 DEF Read, session
  <2>2. typed # <<>>
    BY <1>3 DEF Read
  <2>3. CASE typed = <<"C-l">>
    <3>1. pane' = Append(pane, Prompt) /\ Prompt \in Int /\ Prompt <= 0
      <4>1. shell = "idle" /\ Head(typed) = "C-l"
        BY <1>1, <2>3 DEF Right, TrulyOver, CallShape
      <4> QED
        BY <1>3, <4>1 DEF Read, Prompt
    <3> QED
      BY <1>1, <2>1, <3>1, PaneGrows
  <2>4. CASE typed # <<"C-l">>
    <3>1. execute.pc # "clearing" /\ Head(typed) # "C-l"
      BY <1>1, <2>2, <2>4 DEF CallShape
    <3>2. CASE pane' = Append(pane, Echo)
      BY <1>1, <2>1, <3>1, <3>2, PaneGrows DEF Echo
    <3>3. CASE pane' = pane \o <<Echo, Prompt>>
      BY <1>1, <2>1, <3>1, <3>3, PaneGrowsTwice
    <3> QED
      BY <1>3, <3>1, <3>2, <3>3 DEF Read
  <2> QED
    BY <2>3, <2>4
<1>4. CASE PrintOutput
  <2>1. /\ execute' = execute /\ UNCHANGED <<prevOutput, reported>> /\ shell = "running"
        /\ printed' = printed + 1 /\ pane' = Append(pane, printed + 1)
    BY <1>4 DEF PrintOutput, session
  <2>2. execute'.pc # "clearing" /\ printed + 1 \in Int
    BY <1>1, <2>1 DEF Right, TrulyOver, BashTyped
  <2> QED
    BY <1>1, <2>1, <2>2, PaneGrows
<1>5. CASE Finish
  <2>1. /\ execute' = execute /\ UNCHANGED <<printed, prevOutput, reported>>
        /\ shell = "running" /\ pane' = Append(pane, Prompt)
    BY <1>5 DEF Finish, session
  <2>2. execute'.pc # "clearing" /\ Prompt \in Int /\ Prompt <= 0
    BY <1>1, <2>1 DEF Right, TrulyOver, Prompt
  <2> QED
    BY <1>1, <2>1, <2>2, PaneGrows
<1>6. ASSUME NEW kind \in Kinds, Refuse(kind)
      PROVE  ReportsAddUp'
  <2>1. Report(Combined(FALSE)) /\ UNCHANGED <<pane, printed>>
    BY <1>6 DEF Refuse, terminal
  <2> QED
    BY <1>1, <2>1, AllText, ReportTells
<1>7. ASSUME NEW kind \in Kinds, Start(kind)
      PROVE  ReportsAddUp'
  <2>1. UNCHANGED <<pane, printed, prevOutput, reported>>
    BY <1>7 DEF Start, terminal
  <2>2. execute'.pc \in {"polling", "sending"}
    BY <1>7 DEF Start
  <2> QED
    BY <2>1, <2>2, Quietly
<1>8. CASE SendKeys
  <2>1. UNCHANGED <<pane, printed, prevOutput, reported>> /\ execute'.pc # "clearing"
    BY <1>1, <1>8 DEF SendKeys, Executes
  <2> QED
    BY <2>1, Quietly
<1>9. CASE Complete
  <2>1. Report(Combined(TRUE)) /\ UNCHANGED <<pane, printed>>
    BY <1>9 DEF Complete
  <2>2. shell = "idle"
    <3>1. Right'
      BY <1>9, EndKeeps
    <3>2. execute'.pc = "clearing" /\ shell' = shell
      BY <1>1, <1>9 DEF Complete, Executes
    <3> QED
      BY <3>1, <3>2 DEF Right, TrulyOver
  <2> QED
    BY <1>1, <2>1, <2>2, CombinedIsText, ReportTells
<1>10. CASE TimesOut
  <2>1. Report(Combined(FALSE)) /\ UNCHANGED <<pane, printed>>
    BY <1>10 DEF TimesOut, terminal
  <2> QED
    BY <1>1, <2>1, AllText, ReportTells
<1>11. CASE ClearScreen
  <2>1. /\ pane' = <<Prompt>> /\ prevOutput' = <<>> /\ execute' = NoExecute
        /\ UNCHANGED <<printed, reported>> /\ execute.pc = "clearing"
    BY <1>11, ClearedPane DEF ClearScreen
  <2>2. PICK rest \in Seq(Int) : Unreported(rest)
    BY DEF ReportsAddUp
  <2>3. prevOutput = prevOutput \o rest /\ prevOutput \in Seq(Int) /\ reported \in Seq(Int)
    BY <2>1, <2>2 DEF ReportsAddUp, Unreported
  <2>4. rest = <<>>
    <3>1. Len(prevOutput) = Len(prevOutput) + Len(rest) /\ Len(rest) \in Nat
          /\ Len(prevOutput) \in Nat
      BY <2>3
    <3> QED
      BY <3>1
  <2>5. Unreported(<<>>)' /\ <<>> \in Seq(Int)
    <3>1. Text(pane)' = <<>> /\ <<>> = prevOutput' \o <<>>
      BY <2>1, OnePromptText
    <3>2. (reported \o Pieces(<<>>))' = Upto(printed)'
      BY <2>1, <2>2, <2>4 DEF Unreported
    <3> QED
      BY <3>1, <3>2 DEF Unreported
  <2>6. execute'.pc # "clearing" /\ pane'[1] = Prompt /\ prevOutput' \in Seq(Int)
    BY <2>1, OnePromptText DEF NoExecute
  <2> QED
    BY <2>1, <2>3, <2>5, <2>6 DEF ReportsAddUp
<1> QED
  BY <1>3, <1>4, <1>5, <1>6, <1>7, <1>8, <1>9, <1>10, <1>11 DEF BashNext

(* As long as the pane is not misread.                                     *)
AddsUp == misread \/ ReportsAddUp

THEOREM AlwaysAddUp == BashSpec => []AddsUp
<1>1. BashInit => AddsUp
  <2> SUFFICES ASSUME BashInit
               PROVE  ReportsAddUp
    BY DEF AddsUp
  <2>1. /\ pane = <<Prompt>> /\ prevOutput = <<>> /\ reported = <<>> /\ printed = 0
        /\ execute.pc # "clearing" /\ <<>> \in Seq(Int)
    BY DEF BashInit, NoExecute
  <2>2. Unreported(<<>>)
    <3>1. <<>> \o <<>> = <<>> /\ Upto(0) = <<>> /\ Pieces(<<>>) = <<>>
      BY NothingKept DEF Upto, Pieces
    <3> QED
      BY <2>1, <3>1, OnePromptText DEF Unreported
  <2> QED
    BY <2>1, <2>2, OnePromptText DEF ReportsAddUp
<1>2. BashTyped /\ BashInv /\ AddsUp /\ [BashNext]_bashVars => AddsUp'
  <2> SUFFICES ASSUME BashTyped, BashInv, AddsUp, [BashNext]_bashVars, ~misread'
               PROVE  ReportsAddUp'
    BY DEF AddsUp
  <2>1. Right /\ ReportsAddUp
    BY MisreadStays DEF BashInv, AddsUp
  <2>2. CASE UNCHANGED bashVars
    BY <2>1, <2>2 DEF bashVars, terminal, session, ReportsAddUp, Unreported
  <2>3. CASE BashNext
    BY <2>1, <2>3, AddUpStep
  <2> QED
    BY <2>2, <2>3
<1> QED
  BY <1>1, <1>2, AlwaysTyped, AlwaysOver, PTL DEF BashSpec

(* Every piece of output is in one observation and in its order, and none  *)
(* is left when a command has completed, unless the pane was misread.      *)
THEOREM ReportedOnce == BashSpec => []OutputOnce
<1>1. BashTyped /\ AddsUp => OutputOnce
  <2> SUFFICES ASSUME BashTyped, ReportsAddUp
               PROVE  OutputOnce
    BY DEF AddsUp, OutputOnce
  <2>1. PICK rest \in Seq(Int) : Unreported(rest)
    BY DEF ReportsAddUp
  <2>2. /\ reported \in Seq(Int) /\ Pieces(rest) \in Seq(Int) /\ prevOutput \in Seq(Int)
        /\ reported \o Pieces(rest) = Upto(printed) /\ printed \in Nat
    BY <2>1, PiecesAppend DEF ReportsAddUp, Unreported, BashTyped, Prompt
  <2>3. reported = [i \in 1..Len(reported) |-> i]
    <3> DEFINE w == reported \o Pieces(rest)
    <3>1. /\ Len(reported) \in Nat /\ Len(w) = Len(reported) + Len(Pieces(rest))
          /\ Len(Pieces(rest)) \in Nat
          /\ \A i \in 1..Len(reported) : w[i] = reported[i]
      BY <2>2
    <3>2. Len(w) = printed /\ \A i \in 1..printed : w[i] = i
      BY <2>2 DEF Upto
    <3>3. \A i \in 1..Len(reported) : reported[i] = i
      BY <3>1, <3>2
    <3> QED
      BY <2>2, <3>3
  <2>4. ASSUME execute.pc = "clearing"
        PROVE  Len(reported) = printed
    <3>1. prevOutput = prevOutput \o rest
      BY <2>1, <2>4 DEF ReportsAddUp, Unreported
    <3>2. rest = <<>>
      <4>1. Len(prevOutput) = Len(prevOutput) + Len(rest) /\ Len(rest) \in Nat
            /\ Len(prevOutput) \in Nat
        BY <2>2, <3>1
      <4> QED
        BY <4>1
    <3>3. Pieces(rest) = <<>>
      BY <3>2, NothingKept DEF Pieces
    <3>4. reported = Upto(printed)
      BY <2>2, <3>3, Continued
    <3> QED
      BY <2>2, <3>4 DEF Upto
  <2> QED
    BY <2>3, <2>4 DEF OutputOnce
<1> QED
  BY <1>1, AlwaysTyped, AlwaysAddUp, PTL
=============================================================================
