------------------------------ MODULE Attached ------------------------------
(***************************************************************************)
(* REST requests that work on a conversation: attach_to_conversation and   *)
(* detach_from_conversation of StandaloneConversationManager, its clean-up *)
(* of what nobody is attached to, and ServerConversation                   *)
(* (openhands/server/session/conversation.py).                             *)
(*                                                                         *)
(* One conversation.  Its sessions come and go meanwhile (module           *)
(* ConversationManager has their life); here a session is its event stream *)
(* and whether it has its runtime yet.  The event loop may switch where an *)
(* attached conversation connects, with _conversations_lock held.          *)
(***************************************************************************)
EXTENDS Naturals, FiniteSets

CONSTANTS
    Visits,      \* requests
    MaxSessions, \* bound: sessions of the conversation, one after the other
    MaxConvs     \* bound: ServerConversation objects

Nobody == "nobody"

ASSUME AttachAssumption ==
    /\ Nobody \notin Visits
    /\ MaxSessions \in Nat /\ MaxConvs \in Nat \ {0}

VARIABLES
    current,    \* the session in _local_agent_loops_by_sid, 0 if none
    phase,      \* per session: what its start has come to
    streams,    \* the event streams of sessions that are open
    subscribed, \* per session: whose runtime is subscribed to its stream
    conv,       \* the ServerConversation objects
    activeConv, \* _active_conversations: the object, 0 if none ...
    count,      \* ... and how often it is attached
    detached,   \* _detached_conversations: the object, 0 if none
    visit,      \* per request: where it is, and its object
    lockedBy    \* who connects with _conversations_lock held

attachVars == <<current, phase, streams, subscribed, conv, activeConv, count,
                detached, visit, lockedBy>>

Sessions == 1..MaxSessions
Convs == 1..MaxConvs
NoConv == [state |-> "none", stream |-> 0, own |-> FALSE]

AttachInit ==
    /\ current = 0
    /\ phase = [i \in Sessions |-> "none"]
    /\ streams = {}
    /\ subscribed = [i \in Sessions |-> "nobody"]
    /\ conv = [c \in Convs |-> NoConv]
    /\ activeConv = 0 /\ count = 0 /\ detached = 0
    /\ visit = [v \in Visits |-> [pc |-> "idle", conv |-> 0]]
    /\ lockedBy = Nobody

manager == <<activeConv, count, detached, visit, lockedBy>>
-----------------------------------------------------------------------------
(* _start_agent_loop: the session, with its stream, is in the dictionary   *)
(* before its start begins.                                                *)
SessionMade ==
    /\ current = 0
    /\ \E i \in Sessions :
          /\ phase[i] = "none" /\ \A j \in 1..(i - 1) : phase[j] # "none"
          /\ current' = i
          /\ phase' = [phase EXCEPT ![i] = "starting"]
          /\ streams' = streams \cup {i}
    /\ UNCHANGED <<subscribed, conv, manager>>

(* _create_runtime: the runtime subscribes to the stream, where another    *)
(* runtime of the conversation makes it raise, and then is session.runtime. *)
SessionRuntime(i) ==
    /\ current = i
    /\ phase[i] = "starting"
    /\ \/ /\ subscribed[i] = "nobody"
          /\ phase' = [phase EXCEPT ![i] = "up"]
          /\ subscribed' = [subscribed EXCEPT ![i] = "session"]
       \/ /\ subscribed[i] = "attached"
          /\ phase' = [phase EXCEPT ![i] = "failed"]
          /\ UNCHANGED subscribed
    /\ UNCHANGED <<current, streams, conv, manager>>

(* _close_session: the stream is closed, and with it all subscriptions.    *)
SessionClosed(i) ==
    /\ current = i
    /\ current' = 0
    /\ streams' = streams \ {i}
    /\ subscribed' = [subscribed EXCEPT ![i] = "nobody"]
    /\ UNCHANGED <<phase, conv, manager>>
-----------------------------------------------------------------------------
Uses(v, c) == visit' = [visit EXCEPT ![v] = [pc |-> "using", conv |-> c]]
Leaves(v) == visit' = [visit EXCEPT ![v] = [pc |-> "idle", conv |-> 0]]

(* attach_to_conversation: the one that is active, or was lately.          *)
ReuseActive(v) ==
    /\ visit[v].pc = "idle" /\ lockedBy = Nobody
    /\ activeConv # 0
    /\ count' = count + 1
    /\ Uses(v, activeConv)
    /\ UNCHANGED <<current, phase, streams, subscribed, conv, activeConv, detached, lockedBy>>

(* Mutant: looked up and not taken out.                                    *)
ReuseDetachedKept(v) ==
    /\ visit[v].pc = "idle" /\ lockedBy = Nobody
    /\ activeConv = 0 /\ detached # 0
    /\ activeConv' = detached /\ count' = 1
    /\ Uses(v, detached)
    /\ UNCHANGED <<current, phase, streams, subscribed, conv, detached, lockedBy>>

ReuseDetached(v) ==
    /\ visit[v].pc = "idle" /\ lockedBy = Nobody
    /\ activeConv = 0 /\ detached # 0
    /\ activeConv' = detached /\ count' = 1 /\ detached' = 0
    /\ Uses(v, detached)
    /\ UNCHANGED <<current, phase, streams, subscribed, conv, lockedBy>>

(* A new one: with the session's stream and runtime, if there are any; one *)
(* with a runtime is connected already.  A runtime of its own subscribes   *)
(* to the stream, the session's too, or raises; then it is connected.      *)
NewConv(v) ==
    /\ visit[v].pc = "idle" /\ lockedBy = Nobody
    /\ activeConv = 0 /\ detached = 0
    /\ \E c \in Convs :
          /\ conv[c] = NoConv /\ \A d \in 1..(c - 1) : conv[d] # NoConv
          /\ \/ /\ current # 0 /\ phase[current] = "up"
                /\ conv' = [conv EXCEPT
                      ![c] = [state |-> "connected", stream |-> current, own |-> FALSE]]
                /\ activeConv' = c /\ count' = 1
                /\ Uses(v, c)
                /\ UNCHANGED <<subscribed, lockedBy>>
             \/ /\ current # 0 => phase[current] # "up" /\ subscribed[current] = "nobody"
                /\ conv' = [conv EXCEPT
                      ![c] = [state |-> "connecting", stream |-> current, own |-> TRUE]]
                /\ subscribed' = [i \in Sessions |->
                                     IF i = current THEN "attached" ELSE subscribed[i]]
                /\ lockedBy' = v
                /\ visit' = [visit EXCEPT ![v] = [pc |-> "connecting", conv |-> c]]
                /\ UNCHANGED <<activeConv, count>>
    /\ UNCHANGED <<current, phase, streams, detached>>

ConnectOk(v) ==
    /\ visit[v].pc = "connecting"
    /\ conv' = [conv EXCEPT ![visit[v].conv].state = "connected"]
    /\ activeConv' = visit[v].conv /\ count' = 1
    /\ Uses(v, visit[v].conv)
    /\ lockedBy' = Nobody
    /\ UNCHANGED <<current, phase, streams, subscribed, detached>>

(* disconnect(): one that came with a runtime is left alone; else its      *)
(* stream is closed, the session's if it is that, and its runtime.         *)
DisconnectConv(c) ==
    /\ conv' = [conv EXCEPT ![c].state = "gone"]
    /\ IF conv[c].own
       THEN /\ streams' = streams \ {conv[c].stream}
            /\ subscribed' = [i \in Sessions |->
                                 IF i = conv[c].stream THEN "nobody" ELSE subscribed[i]]
       ELSE UNCHANGED <<streams, subscribed>>

(* AgentRuntimeUnavailableError: there is no sandbox, or not yet.          *)
ConnectFails(v) ==
    /\ visit[v].pc = "connecting"
    /\ DisconnectConv(visit[v].conv)
    /\ Leaves(v)
    /\ lockedBy' = Nobody
    /\ UNCHANGED <<current, phase, activeConv, count, detached>>

(* Any other exception: nobody keeps the object, nothing is disconnected.  *)
ConnectRaises(v) ==
    /\ visit[v].pc = "connecting"
    /\ conv' = [conv EXCEPT ![visit[v].conv].state = "lost"]
    /\ Leaves(v)
    /\ lockedBy' = Nobody
    /\ UNCHANGED <<current, phase, streams, subscribed, activeConv, count, detached>>

(* detach_from_conversation                                                *)
Detach(v) ==
    /\ visit[v].pc = "using" /\ lockedBy = Nobody
    /\ Leaves(v)
    /\ \/ count > 1 /\ count' = count - 1 /\ UNCHANGED <<activeConv, detached>>
       \/ count = 1 /\ count' = 0 /\ activeConv' = 0 /\ detached' = visit[v].conv
    /\ UNCHANGED <<current, phase, streams, subscribed, conv, lockedBy>>

(* Mutant: only what came with a runtime is cleaned up.                    *)
CleanupNotOwn ==
    /\ lockedBy = Nobody
    /\ detached # 0 /\ ~conv[detached].own
    /\ DisconnectConv(detached)
    /\ detached' = 0
    /\ UNCHANGED <<current, phase, activeConv, count, visit, lockedBy>>

(* _cleanup_stale, every 15 seconds, whatever is detached by then.         *)
CleanupDetached ==
    /\ lockedBy = Nobody
    /\ detached # 0
    /\ DisconnectConv(detached)
    /\ detached' = 0
    /\ UNCHANGED <<current, phase, activeConv, count, visit, lockedBy>>

ConnectEnds(v) == ConnectOk(v) \/ ConnectFails(v) \/ ConnectRaises(v)

AttachNext ==
    \/ SessionMade
    \/ \E i \in Sessions : SessionRuntime(i) \/ SessionClosed(i)
    \/ \E v \in Visits :
          ReuseActive(v) \/ ReuseDetached(v) \/ NewConv(v) \/ ConnectEnds(v) \/ Detach(v)
    \/ CleanupDetached

AttachSpec == AttachInit /\ [][AttachNext]_attachVars
-----------------------------------------------------------------------------
(* Type invariant; the reference count is the number of requests that use  *)
(* the active conversation, and requests use no other.                     *)
AttachTypeOK ==
    /\ current \in 0..MaxSessions /\ streams \subseteq Sessions
    /\ phase \in [Sessions -> {"none", "starting", "up", "failed"}]
    /\ subscribed \in [Sessions -> {"nobody", "session", "attached"}]
    /\ conv \in [Convs -> [state : {"none", "connecting", "connected", "gone", "lost"},
                           stream : 0..MaxSessions, own : BOOLEAN]]
    /\ lockedBy \in Visits \cup {Nobody}
    /\ visit \in [Visits -> [pc : {"idle", "connecting", "using"}, conv : 0..MaxConvs]]
    /\ count = Cardinality({v \in Visits : visit[v].pc = "using"})
    /\ \A v \in Visits : visit[v].pc = "using" => visit[v].conv = activeConv

(* A conversation that a request uses is not disconnected, by the clean-up *)
(* or by another request that fails or leaves.                             *)
UsedStaysConnected ==
    \A v \in Visits : visit[v].pc = "using" => conv[visit[v].conv].state = "connected"

(* A conversation made for requests is disconnected in the end when no     *)
(* request connects or uses it any more, whoever reuses it meanwhile.      *)
(* The exception is one whose connect raised something else than that the  *)
(* runtime is unavailable: nobody has it, so nobody ever disconnects it.   *)
UnusedIsReleased ==
    \A c \in Convs :
        []<>(\/ conv[c].state \in {"none", "gone"}
             \/ \E v \in Visits : visit[v].conv = c
             \/ conv[c].state = "lost")

(* "Get the event stream for the conversation - required to keep the       *)
(* cur_id up to date": a request that attaches while a session runs gets   *)
(* the session's event stream.                                             *)
SharesStream ==
    [][\A v \in Visits :
          visit[v].pc # "using" /\ visit'[v].pc = "using" /\ visit[v].pc = "idle"
             /\ current # 0
          => conv'[visit'[v].conv].stream = current]_attachVars

(* A request never closes the event stream of a session that goes on.  The *)
(* code does not keep it: one that began with the session's stream does.   *)
SessionStreamOpen == current # 0 => current \in streams
=============================================================================
