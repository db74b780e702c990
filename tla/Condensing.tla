----------------------------- MODULE Condensing -----------------------------
(***************************************************************************)
(* What of the history the LLM gets to see: openhands/memory/view.py and   *)
(* the condensers the server chains (server/session/session.py:232) - the  *)
(* conversation window for a request, the masking of browser outputs, the  *)
(* summary when the view is too long.                                      *)
(*                                                                         *)
(* An event's id is its place in the history.  What does not enter the     *)
(* history (state changes, empty recalls) is left out.                     *)
(***************************************************************************)
EXTENDS Integers, Sequences, FiniteSets, SequencesExt, FiniteSetsExt, Subsequences

CONSTANTS
    KeepFirst,       \* keep_first of the summarizing condenser
    MaxSize,         \* max_size of the summarizing condenser
    AttentionWindow, \* browser outputs that are not masked
    Browsing,        \* whether the agent browses: a subset of BOOLEAN
    MaxEvents,       \* bound: length of the history
    MaxMessages,     \* bound: messages of the user
    MaxRequests      \* bound: requests for a condensation

(* The constructor asks for keep_first < max_size // 2; one more is needed *)
(* for the summary, and every configuration the server makes has it.       *)
ASSUME CondenseAssumption ==
    /\ KeepFirst \in Nat /\ MaxSize \in Nat /\ KeepFirst + 1 < MaxSize \div 2
    /\ AttentionWindow \in Nat /\ Browsing \subseteq BOOLEAN
    /\ MaxEvents \in Nat /\ MaxMessages \in Nat /\ MaxRequests \in Nat

VARIABLES
    history,  \* state.history
    awaited,  \* the id of the pending action, or NoId
    open,     \* actions without their observation
    resting,  \* the agent awaits the user's input
    browses   \* its actions lead to browser outputs

condenseVars == <<history, awaited, open, resting, browses>>

NoId == 0
TargetSize == MaxSize \div 2

(* of: the action an observation is about, the message a recall is for;    *)
(* forgets and tells: of a CondensationAction.                             *)
Event(kind, of) == [kind |-> kind, of |-> of, forgets |-> {}, tells |-> {}]
Condensation(kind, forgets, tells) ==
    [kind |-> kind, of |-> NoId, forgets |-> forgets, tells |-> tells]
IsCondensation(e) == e.kind \in {"window", "summary"}
IsObservation(e) == e.kind \in {"context", "output", "page", "condensed"}

CondenseInit ==
    /\ history = <<Event("system", NoId)>>
    /\ awaited = NoId
    /\ open = {}
    /\ resting = TRUE
    /\ browses \in Browsing
-----------------------------------------------------------------------------
(* View.from_events.  An element of a view is an event with its id; an     *)
(* AgentCondensationObservation has none.                                  *)
Element(i) == [id |-> i, kind |-> history[i].kind, of |-> history[i].of, tells |-> {}]
Condensed(tells) == [id |-> NoId, kind |-> "condensed", of |-> NoId, tells |-> tells]

CondensationIds == {i \in DOMAIN history : IsCondensation(history[i])}
RequestIds == {i \in DOMAIN history : history[i].kind = "request"}
MessageIds == {i \in DOMAIN history : history[i].kind = "user"}
SummaryIds == {i \in DOMAIN history : history[i].kind = "summary"}

Forgotten ==
    (UNION {history[i].forgets : i \in CondensationIds}) \cup CondensationIds \cup RequestIds

View ==
    LET kept == AtPlaces([i \in DOMAIN history |-> Element(i)], DOMAIN history \ Forgotten)
    IN  IF SummaryIds = {} THEN kept
        ELSE InsertAt(kept, Min({KeepFirst, Len(kept)}) + 1,
                      Condensed(history[Max(SummaryIds)].tells))

(* Mutant: a request is never seen as handled.                            *)
UnhandledForever == RequestIds # {}

UnhandledRequest == \E r \in RequestIds : \A c \in CondensationIds : c < r

(* BrowserOutputCondenser: a masked output is an                           *)
(* AgentCondensationObservation as well.                                   *)
Masked(v) ==
    LET Later(k) == {j \in DOMAIN v : j > k /\ v[j].kind = "page"}
    IN  [k \in DOMAIN v |->
           IF v[k].kind = "page" /\ Cardinality(Later(k)) >= AttentionWindow
           THEN Condensed({}) ELSE v[k]]

Ids(v) == {v[k].id : k \in DOMAIN v}
-----------------------------------------------------------------------------
(* ConversationWindowCondenser: the first messages and the recall for the  *)
(* user's first one are essential ...                                      *)
First(v, P(_)) == LET found == {k \in DOMAIN v : P(v[k])}
                  IN  IF found = {} THEN {} ELSE {v[Min(found)].id}

Essential(v) ==
    LET System(e) == e.kind = "system"
        User(e) == e.kind = "user"
        Recall(e) == e.kind = "recall" /\ e.of \in First(v, User)
        Context(e) == e.kind = "context" /\ e.of \in First(v, Recall)
    IN  First(v, System) \cup First(v, User) \cup First(v, Recall) \cup First(v, Context)

(* ... and half of the others, the later ones, are kept, from the first on *)
(* that is not an observation.                                             *)
Recent(v, essential) ==
    LET start == Len(v) - Max({1, (Len(v) - Cardinality(essential)) \div 2})
        valid == {k \in start + 1..Len(v) : ~IsObservation(v[k])}
    IN  IF valid = {} THEN {} ELSE {v[k].id : k \in Min(valid)..Len(v)}

(* Mutant: only the later half is kept.                                    *)
WindowRecentOnly(v) ==
    Condensation("window", Ids(v) \ Recent(v, Essential(v)), {})

Window(v) ==
    Condensation("window", Ids(v) \ (Essential(v) \cup Recent(v, Essential(v))), {})

(* LLMSummarizingCondenser: the head and the tail stay; what is between    *)
(* them is told in the summary, with the summary that was there, and       *)
(* forgotten as a range of ids.                                            *)
Between(v) == SubSeq(v, KeepFirst + 1, Len(v) - (TargetSize - KeepFirst - 1))

Told(v) == Ids(Between(v)) \ {NoId}

(* Mutant: the previous summary is looked for in the head.                 *)
SummarizeAnew(v) ==
    Condensation("summary", Min(Told(v))..Max(Told(v)), Told(v) \cup v[KeepFirst].tells)

Summarize(v) ==
    Condensation("summary", Min(Told(v))..Max(Told(v)), Told(v) \cup v[KeepFirst + 1].tells)

TooLong(v) == Len(v) > MaxSize
-----------------------------------------------------------------------------
Add(events) == history' = history \o events

(* A message of the user, and the recall that is then the pending action.  *)
UserMessage ==
    /\ Len(history) + 2 <= MaxEvents
    /\ Cardinality(MessageIds) < MaxMessages
    /\ Add(<<Event("user", NoId), Event("recall", Len(history) + 1)>>)
    /\ awaited' = Len(history) + 2
    /\ open' = open \cup {Len(history) + 2}
    /\ resting' = FALSE
    /\ UNCHANGED browses

(* The observation of an action, which may be another than the pending one.*)
Observe(a, kind) ==
    /\ a \in open
    /\ kind \in CASE history[a].kind = "recall" -> {"context", "nothing"}
                  [] browses -> {"page"}
                  [] OTHER -> {"output"}
    /\ IF kind = "nothing" THEN UNCHANGED history ELSE Add(<<Event(kind, a)>>)
    /\ open' = open \ {a}
    /\ awaited' = IF awaited = a THEN NoId ELSE awaited
    /\ UNCHANGED <<resting, browses>>

Steps == awaited = NoId /\ ~resting /\ Len(history) < MaxEvents

(* The agent's step (CodeActAgent.step): the pipeline gives a condensation,*)
(* which is the action of this step ...                                    *)
CondenseForRequest ==
    /\ Steps
    /\ UnhandledRequest
    /\ Add(<<Window(View)>>)
    /\ UNCHANGED <<awaited, open, resting, browses>>

CondenseForSize ==
    /\ Steps
    /\ ~UnhandledRequest
    /\ TooLong(Masked(View))
    /\ Told(Masked(View)) # {}      \* the min of nothing raises
    /\ Add(<<Summarize(Masked(View))>>)
    /\ UNCHANGED <<awaited, open, resting, browses>>

(* ... or the view the LLM is asked with: an action, or a message that     *)
(* waits for the user.                                                     *)
Asks == Steps /\ ~UnhandledRequest /\ ~TooLong(Masked(View))

Act ==
    /\ Asks
    /\ Add(<<Event("action", NoId)>>)
    /\ awaited' = Len(history) + 1
    /\ open' = open \cup {Len(history) + 1}
    /\ UNCHANGED <<resting, browses>>

Answer ==
    /\ Asks
    /\ Add(<<Event("answer", NoId)>>)
    /\ resting' = TRUE
    /\ UNCHANGED <<awaited, open, browses>>

(* The agent's or the condenser's LLM finds its context window exceeded, or*)
(* the agent asks for a condensation.                                      *)
RequestCondensation ==
    /\ Steps
    /\ ~UnhandledRequest
    /\ Cardinality(RequestIds) < MaxRequests
    /\ Add(<<Event("request", NoId)>>)
    /\ UNCHANGED <<awaited, open, resting, browses>>

CondenseNext ==
    \/ UserMessage
    \/ \E a \in open, kind \in {"context", "nothing", "output", "page"} : Observe(a, kind)
    \/ CondenseForRequest \/ CondenseForSize
    \/ Act \/ Answer \/ RequestCondensation

CondenseSpec == CondenseInit /\ [][CondenseNext]_condenseVars
-----------------------------------------------------------------------------
(* Type invariant; every condensation forgets what came before it.         *)
CondenseTypeOK ==
    /\ awaited \in open \cup {NoId} /\ open \subseteq DOMAIN history
    /\ resting \in BOOLEAN /\ browses \in BOOLEAN
    /\ \A i \in DOMAIN history :
          history[i].forgets \subseteq 0..i - 1 /\ history[i].tells \subseteq 1..i - 1

(* Whatever is condensed and however often, the system message and the     *)
(* user's first message stay at the head of what the LLM is asked with.    *)
TaskKept ==
    \A i \in DOMAIN history \cap {1, 2} : i \in DOMAIN View /\ View[i].id = i

(* What the range of ids of summary i may take out of the history without  *)
(* telling of it: what a window had taken out, condensations and requests, *)
(* and a browser output that had been masked by later ones.                *)
Untold(i, e) ==
    \/ e \in CondensationIds \cup RequestIds
    \/ \E w \in CondensationIds :
          w < i /\ history[w].kind = "window" /\ e \in history[w].forgets
    \/ /\ history[e].kind = "page"
       /\ Cardinality({j \in e + 1..i - 1 : history[j].kind = "page"}) >= AttentionWindow

(* Nothing else is lost between two summaries: the summary in the view     *)
(* tells of all that any summary has taken out, although windows were cut  *)
(* and outputs masked in between.                                          *)
SummaryTellsAll ==
    \A i \in SummaryIds : \A e \in history[i].forgets :
        Untold(i, e) \/ \E k \in DOMAIN View : e \in View[k].tells

(* Condensing ends: a request is dealt with by one window, after which at  *)
(* most one summary follows before the LLM is asked.  (Masked browser      *)
(* outputs can pile up until this fails: SummarizedToTarget.)              *)
CondensedOnce ==
    ~browses /\ Len(history) > 2 =>
        ~(\A i \in Len(history) - 2..Len(history) : IsCondensation(history[i]))

(* "target size, minus however many prefix events from the head, minus one *)
(* for the summarization event": a view that was summarized has the target *)
(* size.                                                                   *)
SummarizedToTarget ==
    Last(history).kind = "summary" => Len(View) <= TargetSize
=============================================================================
