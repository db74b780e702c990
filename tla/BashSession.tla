---------------------------- MODULE BashSession ----------------------------
(***************************************************************************)
(* How the action server runs shell commands: BashSession of               *)
(* openhands/runtime/utils/bash.py types into a tmux pane and finds out    *)
(* from the text of the pane whether the command is over.                  *)
(*                                                                         *)
(* The pane is a sequence of prompts (with the metadata the session looks  *)
(* for), echoes of what was typed and pieces of output, numbered.  The     *)
(* shell, its program and the terminal are external: they read what was    *)
(* typed, print and end whenever they like.                                *)
(***************************************************************************)
EXTENDS Integers, Sequences, FiniteSets, SequencesExt, Subsequences

CONSTANTS
    Kinds,       \* of the calls of execute: a subset of AllKinds
    MaxExecutes, \* bound: calls of execute
    MaxOutput    \* bound: pieces of output

(* A command; a special key; with is_input a line or a special key; empty. *)
AllKinds == {"command", "key", "line", "interrupt", "look"}

ASSUME BashAssumption ==
    /\ Kinds \subseteq AllKinds
    /\ MaxExecutes \in Nat /\ MaxOutput \in Nat

VARIABLES
    pane,       \* the pane with its history
    scrolled,   \* how much of it is history: what the last C-l has scrolled out
    typed,      \* keys sent and not yet read
    shell,      \* "idle", or "running" a program
    printed,    \* pieces of output so far
    execute,    \* the call in progress: where it is, its kind, initial_ps1_count
    executes,   \* calls so far
    prevStatus, \* prev_status
    prevOutput, \* prev_output
    reported,   \* history: output in the observations returned so far
    misread     \* history: the pane was looked at or cleared with keys unread,
                \* or the shell got a line that was for its program

session == <<execute, executes, prevStatus, prevOutput, reported>>
terminal == <<pane, scrolled, typed, shell, printed>>
bashVars == <<terminal, session, misread>>

(* What a key is: a command or a line of input, with enter, or a special   *)
(* key; C-l is the one that clears the screen.                             *)
Keys == {"command", "line", "C-c", "C-l"}

Prompt == 0
Echo == -1
NoExecute == [pc |-> "ready", kind |-> "look", count |-> 0]

BashInit ==
    /\ pane = <<Prompt>>
    /\ scrolled = 0
    /\ typed = <<>>
    /\ shell = "idle"
    /\ printed = 0
    /\ execute = NoExecute
    /\ executes = 0
    /\ prevStatus = "none"
    /\ prevOutput = <<>>
    /\ reported = <<>>
    /\ misread = FALSE
-----------------------------------------------------------------------------
(* The terminal, the shell and the program it runs, which may ignore C-c.  *)
(* C-l scrolls the screen out and shows the prompt anew.                   *)
Read ==
    /\ typed # <<>>
    /\ typed' = Tail(typed)
    /\ \/ /\ Head(typed) \in {"command", "line"}
          /\ pane' = Append(pane, Echo)
          /\ shell' = "running"
          /\ UNCHANGED scrolled
       \/ /\ Head(typed) = "C-c"
          /\ pane' = pane \o <<Echo, Prompt>>
          /\ shell' = "idle"
          /\ UNCHANGED scrolled
       \/ /\ Head(typed) \in {"C-c", "C-l"} /\ shell = "running"
          /\ pane' = Append(pane, Echo)
          /\ UNCHANGED <<shell, scrolled>>
       \/ /\ Head(typed) = "C-l" /\ shell = "idle"
          /\ pane' = Append(pane, Prompt)
          /\ scrolled' = Len(pane)
          /\ UNCHANGED shell
    /\ misread' = (misread \/ (Head(typed) = "line" /\ shell = "idle"))
    /\ UNCHANGED <<printed, session>>

PrintOutput ==
    /\ shell = "running"
    /\ printed < MaxOutput
    /\ printed' = printed + 1
    /\ pane' = Append(pane, printed + 1)
    /\ UNCHANGED <<scrolled, typed, shell, session, misread>>

Finish ==
    /\ shell = "running"
    /\ shell' = "idle"
    /\ pane' = Append(pane, Prompt)
    /\ UNCHANGED <<scrolled, typed, printed, session, misread>>
-----------------------------------------------------------------------------
IsPrompt(t) == t = Prompt
Output(s) == AtPlaces(s, {i \in DOMAIN s : s[i] > 0})
Prompts == Cardinality({i \in DOMAIN pane : IsPrompt(pane[i])})
EndsWithPrompt == pane # <<>> /\ Last(pane) = Prompt
FirstPrompt == SelectInSeq(pane, IsPrompt)

(* _combine_outputs_between_matches; what precedes the first prompt counts *)
(* when there is no other.                                                 *)
Combined(completed) ==
    CASE Prompts = 1 /\ completed -> SubSeq(pane, 1, FirstPrompt - 1)
      [] Prompts = 0 -> pane
      [] OTHER -> AtPlaces(pane, {i \in FirstPrompt..Len(pane) : ~IsPrompt(pane[i])})

(* _get_command_output: what the last observation had is left out; the     *)
(* echoed command is stripped.                                             *)
(* Mutant: what was reported before is remembered without what is new.     *)
ReportFirst(raw) ==
    LET new == IF IsPrefix(prevOutput, raw)
               THEN SubSeq(raw, Len(prevOutput) + 1, Len(raw)) ELSE raw
    IN  /\ reported' = reported \o Output(new)
        /\ prevOutput' = IF prevOutput = <<>> THEN raw ELSE prevOutput

Report(raw) ==
    LET new == IF IsPrefix(prevOutput, raw)
               THEN SubSeq(raw, Len(prevOutput) + 1, Len(raw)) ELSE raw
    IN  /\ reported' = reported \o Output(new)
        /\ prevOutput' = raw

(* What the session finds in the pane is right if the shell has read all.  *)
LookAtPane == misread' = (misread \/ typed # <<>>)

Answerable(kind) == kind \in {"line", "interrupt", "look"} => prevStatus = "timeout"

(* The command that timed out has not come to its prompt, and this is      *)
(* another command.                                                        *)
StillRunning(kind) ==
    prevStatus = "timeout" /\ ~EndsWithPrompt /\ kind \in {"command", "key"}

(* execute: without a command in progress, input and empty commands are    *)
(* errors (that change nothing) ...                                        *)
NewExecute(kind) ==
    /\ execute.pc = "ready"
    /\ executes < MaxExecutes
    /\ executes' = executes + 1
    /\ Answerable(kind)

(* ... "is NOT executed", and the output so far is returned ...            *)
Refuse(kind) ==
    /\ NewExecute(kind)
    /\ StillRunning(kind)
    /\ LookAtPane
    /\ Report(Combined(FALSE))
    /\ UNCHANGED <<terminal, execute, prevStatus>>

(* ... or the prompts are counted, and the keys will be sent.              *)
Start(kind) ==
    /\ NewExecute(kind)
    /\ ~StillRunning(kind)
    /\ LookAtPane
    /\ execute' = [pc |-> IF kind = "look" THEN "polling" ELSE "sending",
                   kind |-> kind, count |-> Prompts]
    /\ UNCHANGED <<terminal, prevStatus, prevOutput, reported>>

SendKeys ==
    /\ execute.pc = "sending"
    /\ typed' = Append(typed, IF execute.kind \in {"command", "line"}
                              THEN execute.kind ELSE "C-c")
    /\ execute' = [execute EXCEPT !.pc = "polling"]
    /\ UNCHANGED <<pane, scrolled, shell, printed, executes, prevStatus, prevOutput,
                   reported, misread>>

(* Mutant: as many prompts as before are enough.                           *)
OverBefore == Prompts >= execute.count \/ EndsWithPrompt

(* One prompt more than at the start, or one at the end of the pane.       *)
Over == Prompts > execute.count \/ EndsWithPrompt

(* _handle_completed_command, up to the C-l of _clear_screen.              *)
Complete ==
    /\ execute.pc = "polling" /\ Over
    /\ LookAtPane
    /\ Report(Combined(TRUE))
    /\ prevStatus' = "completed"
    /\ typed' = Append(typed, "C-l")
    /\ execute' = [execute EXCEPT !.pc = "clearing"]
    /\ UNCHANGED <<pane, scrolled, shell, printed, executes>>

(* Mutant: the history is left as it is.                                   *)
ClearScreenNot ==
    /\ execute.pc = "clearing"
    /\ LookAtPane
    /\ prevOutput' = <<>>
    /\ execute' = NoExecute
    /\ UNCHANGED <<terminal, executes, prevStatus, reported>>

(* clear-history, a tenth of a second later: what the C-l has scrolled     *)
(* out is gone.                                                            *)
ClearScreen ==
    /\ execute.pc = "clearing"
    /\ LookAtPane
    /\ pane' = SubSeq(pane, scrolled + 1, Len(pane))
    /\ scrolled' = 0
    /\ prevOutput' = <<>>
    /\ execute' = NoExecute
    /\ UNCHANGED <<typed, shell, printed, executes, prevStatus, reported>>

(* _handle_nochange_timeout_command and _handle_hard_timeout_command,      *)
(* which leave the same state.                                             *)
TimesOut ==
    /\ execute.pc = "polling" /\ ~Over
    /\ LookAtPane
    /\ Report(Combined(FALSE))
    /\ prevStatus' = "timeout"
    /\ execute' = NoExecute
    /\ UNCHANGED <<terminal, executes>>

BashNext ==
    \/ Read \/ PrintOutput \/ Finish
    \/ \E kind \in Kinds : Refuse(kind) \/ Start(kind)
    \/ SendKeys \/ Complete \/ ClearScreen \/ TimesOut

BashSpec == BashInit /\ [][BashNext]_bashVars
-----------------------------------------------------------------------------
(* Type invariant; the session is between two commands with one prompt in  *)
(* the pane when the last one completed.                                   *)
BashTypeOK ==
    /\ shell \in {"idle", "running"}
    /\ typed \in Seq(Keys)
    /\ execute.pc \in {"ready", "sending", "polling", "clearing"}
    /\ execute.kind \in AllKinds /\ execute.count \in Nat
    /\ prevStatus \in {"none", "completed", "timeout"}
    /\ execute.pc = "ready" /\ prevStatus = "completed" => misread \/ pane = <<Prompt>>

(* "the current visible pane ends with a prompt, indicating completion": a *)
(* command that is reported as completed is over.                          *)
TrulyOver ==
    execute.pc = "clearing" => shell = "idle" /\ typed \in {<<>>, <<"C-l">>}

(* Only haste misleads it: a command that is reported as completed is      *)
(* over, also when commands timed out before it, ended unobserved, were    *)
(* given input or interrupted, as long as the pane was never looked at or  *)
(* cleared with keys unread and no line of input came too late for its     *)
(* program.                                                                *)
CompletedIsOver == misread \/ TrulyOver

(* Every piece of output is in one observation and in its order, however   *)
(* often the command times out, is looked at, is given input or is refused *)
(* company; when a command has completed there is none left.  Again unless *)
(* the pane was misread.                                                   *)
OutputOnce ==
    \/ misread
    \/ /\ reported = [i \in 1..Len(reported) |-> i]
       /\ execute.pc = "clearing" => Len(reported) = printed
=============================================================================
