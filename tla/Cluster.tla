------------------------------ MODULE Cluster ------------------------------
(***************************************************************************)
(* Several servers that share the conversations of their users through     *)
(* Redis: enterprise/server/clustered_conversation_manager.py, on top of   *)
(* the limit check of standalone_conversation_manager.py.                  *)
(*                                                                         *)
(* A conversation runs on the server that could create its entry in Redis. *)
(* Entries time out unless they are refreshed; servers tell each other by  *)
(* pub/sub, which may lose messages, to close a conversation and that they *)
(* are closing one; a server may vanish at any step.                       *)
(*                                                                         *)
(* A step ends where the code awaits something that others can change      *)
(* meanwhile.                                                              *)
(***************************************************************************)
EXTENDS Integers, FiniteSets

CONSTANTS
    Nodes,             \* the servers
    Conversations,     \* all of one user
    MaxConversations,  \* max_concurrent_conversations
    MaxSlots,          \* bound: sessions that exist at a time, closing ones included
    MaxInbox,          \* bound: messages on their way to a server; more are lost
    MaxCalls,          \* bound: joins and closes by API
    MaxFailures        \* bound: servers that vanish

NoNode == "no server"
NoConversation == "no conversation"

ASSUME ClusterAssumption ==
    /\ NoNode \notin Nodes /\ NoConversation \notin Conversations
    /\ MaxConversations \in Nat \ {0}
    /\ MaxSlots \in Nat /\ MaxInbox \in Nat
    /\ MaxCalls \in Nat /\ MaxFailures \in Nat

VARIABLES
    alive,    \* the servers that are up
    entries,  \* conversations with an ohcnv entry in Redis
    slot,     \* the sessions, from the entry made for one to its end
    clients,  \* per server: conversations that one of its connections joined
    pipe,     \* per server: entries its refresh is about to write
    inbox,    \* per server: messages published and not yet received
    stopped,  \* per server: _handle_remote_conversation_stopped in progress
    calls,    \* joins and closes by API so far
    failures

clusterVars == <<alive, entries, slot, clients, pipe, inbox, stopped, calls, failures>>

Slots == 1..MaxSlots

(***************************************************************************)
(* A session: starting (its entry is made), evicting (others are closed    *)
(* for it), live (in _local_agent_loops_by_sid), deleting (popped, its     *)
(* entry still there), closing (session.close()).                          *)
(***************************************************************************)
Free == [pc |-> "free", node |-> NoNode, sid |-> NoConversation, victims |-> {}, wait |-> 0]
Session ==
    [pc : {"starting", "evicting", "live", "deleting", "closing"},
     node : Nodes, sid : Conversations, victims : SUBSET Conversations,
     wait : Slots \cup {0}]
StartingSession(n, s) ==
    [pc |-> "starting", node |-> n, sid |-> s, victims |-> {}, wait |-> 0]
Stage(i, pc) ==
    [pc |-> pc, node |-> slot[i].node, sid |-> slot[i].sid, victims |-> {}, wait |-> 0]
Evicting(i, V, w) ==
    [pc |-> "evicting", node |-> slot[i].node, sid |-> slot[i].sid, victims |-> V, wait |-> w]

Close   == [kind : {"close_session"}, sid : Conversations]
Closing == [kind : {"session_closing"}, sid : Conversations]

ClusterInit ==
    /\ alive = Nodes
    /\ entries = {}
    /\ slot = [i \in Slots |-> Free]
    /\ clients = [n \in Nodes |-> {}]
    /\ pipe = [n \in Nodes |-> {}]
    /\ inbox = [n \in Nodes |-> {}]
    /\ stopped = [n \in Nodes |-> {}]
    /\ calls = 0
    /\ failures = 0

Local(n) == {i \in Slots : slot[i].node = n /\ slot[i].pc = "live"}
LocalSids(n) == {slot[i].sid : i \in Local(n)}

Call == calls < MaxCalls /\ calls' = calls + 1

(* get_running_agent_loops: the local ones and the entries in Redis.       *)
RunningSids(n) == LocalSids(n) \cup entries
-----------------------------------------------------------------------------
(***************************************************************************)
(* maybe_start_agent_loop: set(key, 1, nx=True, ex=15).                    *)
(***************************************************************************)
(* Mutant: the entry is made whether it exists or not.                     *)
TryStartAnyway(n, s) ==
    /\ \E i \in Slots : /\ slot[i] = Free
                        /\ \A j \in 1..(i - 1) : slot[j] # Free
                        /\ slot' = [slot EXCEPT ![i] = StartingSession(n, s)]
    /\ entries' = entries \cup {s}

TryStart(n, s) ==
    \/ /\ s \in entries             \* somebody runs it, or is about to
       /\ UNCHANGED <<entries, slot>>
    \/ /\ s \notin entries
       /\ \E i \in Slots : /\ slot[i] = Free
                           /\ \A j \in 1..(i - 1) : slot[j] # Free
                           /\ slot' = [slot EXCEPT ![i] = StartingSession(n, s)]
       /\ entries' = entries \cup {s}

(* join_conversation: a client connects to server n ...                    *)
JoinConversation(n, s) ==
    /\ Call
    /\ n \in alive
    /\ clients' = [clients EXCEPT ![n] = @ \cup {s}]
    /\ TryStart(n, s)
    /\ UNCHANGED <<alive, pipe, inbox, stopped, failures>>

(* ... and leaves.                                                         *)
Leave(n, s) ==
    /\ s \in clients[n]
    /\ clients' = [clients EXCEPT ![n] = @ \ {s}]
    /\ UNCHANGED <<alive, entries, slot, pipe, inbox, stopped, calls, failures>>

(* _start_agent_loop: the limit is one higher than configured because the  *)
(* new conversation's own entry is counted.  The ones to close are those   *)
(* updated least recently, any.  With room, the session is registered.     *)
CountRunning(i) ==
    /\ slot[i].pc = "starting"
    /\ LET running == RunningSids(slot[i].node)
           excess == Cardinality(running) - MaxConversations
       IN  IF excess <= 0 THEN slot' = [slot EXCEPT ![i] = Stage(i, "live")]
           ELSE \E V \in SUBSET running :
                    /\ Cardinality(V) = excess
                    /\ slot' = [slot EXCEPT ![i] = Evicting(i, V, 0)]
    /\ UNCHANGED <<alive, entries, clients, pipe, inbox, stopped, calls, failures>>

(* _close_session(s) on server n, to the pop of the session: its clients   *)
(* are disconnected; a session that is not there is not closed.            *)
Popped(n, s) ==
    [i \in Slots |-> IF i \in Local(n) /\ slot[i].sid = s THEN Stage(i, "deleting")
                     ELSE slot[i]]
(* Mutant: messages are kept for a server that is down.                    *)
PublishedToAll(m) ==
    [n \in Nodes |-> IF Cardinality(inbox[n]) < MaxInbox THEN inbox[n] \cup {m} ELSE inbox[n]]

Published(m) ==
    [n \in Nodes |-> IF n \in alive /\ Cardinality(inbox[n]) < MaxInbox
                     THEN inbox[n] \cup {m} ELSE inbox[n]]

(* close_session(v) for the oldest conversation: tell everybody, then      *)
(* close it here, and wait until it is closed.                             *)
EvictOldest(i) ==
    /\ slot[i].pc = "evicting"
    /\ slot[i].wait = 0
    /\ \E v \in slot[i].victims :
          LET n == slot[i].node
              here == {j \in Local(n) : slot[j].sid = v}
              w == IF here = {} THEN 0 ELSE CHOOSE j \in here : TRUE
          IN  /\ slot' = [Popped(n, v) EXCEPT ![i] = Evicting(i, slot[i].victims \ {v}, w)]
              /\ clients' = [clients EXCEPT ![n] = @ \ {v}]
              /\ inbox' = Published([kind |-> "close_session", sid |-> v])
    /\ UNCHANGED <<alive, entries, pipe, stopped, calls, failures>>

RegisterSession(i) ==
    /\ slot[i].pc = "evicting"
    /\ slot[i].victims = {} /\ slot[i].wait = 0
    /\ slot' = [slot EXCEPT ![i] = Stage(i, "live")]
    /\ UNCHANGED <<alive, entries, clients, pipe, inbox, stopped, calls, failures>>
-----------------------------------------------------------------------------
(***************************************************************************)
(* _close_session, after the pop: delete the entry, tell the others, close *)
(* the session.                                                            *)
(***************************************************************************)
DeleteEntry(i) ==
    /\ slot[i].pc = "deleting"
    /\ entries' = entries \ {slot[i].sid}
    /\ inbox' = Published([kind |-> "session_closing", sid |-> slot[i].sid])
    /\ slot' = [slot EXCEPT ![i] = Stage(i, "closing")]
    /\ UNCHANGED <<alive, clients, pipe, stopped, calls, failures>>

(* session.close() returns to whoever waits for it.                        *)
Ended(i) ==
    [j \in Slots |-> IF j = i THEN Free
                     ELSE IF slot[j].wait = i THEN [slot[j] EXCEPT !.wait = 0]
                     ELSE slot[j]]
CloseSession(i) ==
    /\ slot[i].pc = "closing"
    /\ slot' = Ended(i)
    /\ UNCHANGED <<alive, entries, clients, pipe, inbox, stopped, calls, failures>>

(* close_session, called through the API on any server.                    *)
CloseAnywhere(n, s) ==
    /\ Call
    /\ n \in alive
    /\ inbox' = Published([kind |-> "close_session", sid |-> s])
    /\ slot' = Popped(n, s)
    /\ clients' = [clients EXCEPT ![n] = @ \ {s}]
    /\ UNCHANGED <<alive, entries, pipe, stopped, failures>>

(* _close_disconnected: a local session nobody here is connected to.       *)
(* Whether a client of another server is, is read from its keys, without a *)
(* lock: one that joins after is not seen, so the answer is left open.     *)
CloseIdle(n, s) ==
    /\ s \in LocalSids(n) \ clients[n]
    /\ slot' = Popped(n, s)
    /\ UNCHANGED <<alive, entries, clients, pipe, inbox, stopped, calls, failures>>
-----------------------------------------------------------------------------
(***************************************************************************)
(* _process_message.  close_session closes the session if it is here.      *)
(***************************************************************************)
(* Mutant: the entry is deleted by whoever hears of the close.             *)
ReceiveCloseDeletes(n, s) ==
    LET m == [kind |-> "close_session", sid |-> s]
    IN  /\ m \in inbox[n]
        /\ inbox' = [inbox EXCEPT ![n] = @ \ {m}]
        /\ slot' = Popped(n, s)
        /\ clients' = IF s \in LocalSids(n) THEN [clients EXCEPT ![n] = @ \ {s}] ELSE clients
        /\ entries' = entries \ {s}
        /\ UNCHANGED <<alive, pipe, stopped, calls, failures>>

ReceiveClose(n, s) ==
    LET m == [kind |-> "close_session", sid |-> s]
    IN  /\ m \in inbox[n]
        /\ inbox' = [inbox EXCEPT ![n] = @ \ {m}]
        /\ slot' = Popped(n, s)
        /\ clients' = IF s \in LocalSids(n) THEN [clients EXCEPT ![n] = @ \ {s}] ELSE clients
        /\ UNCHANGED <<alive, entries, pipe, stopped, calls, failures>>

(* session_closing: whoever has a client there takes the conversation over. *)
ReceiveClosing(n, s) ==
    LET m == [kind |-> "session_closing", sid |-> s]
    IN  /\ m \in inbox[n]
        /\ inbox' = [inbox EXCEPT ![n] = @ \ {m}]
        /\ stopped' = IF s \in clients[n] THEN [stopped EXCEPT ![n] = @ \cup {s}]
                      ELSE stopped
        /\ UNCHANGED <<alive, entries, slot, clients, pipe, calls, failures>>

(* Redis pub/sub delivers at most once.                                    *)
LoseMessage(n) ==
    /\ \E m \in inbox[n] : inbox' = [inbox EXCEPT ![n] = @ \ {m}]
    /\ UNCHANGED <<alive, entries, slot, clients, pipe, stopped, calls, failures>>

(* _disconnect_from_stopped, every 15 seconds: conversations a client here *)
(* is connected to that run neither here nor, by the entries, elsewhere.   *)
DisconnectFromStopped(n) ==
    /\ n \in alive
    /\ LET gone == (clients[n] \ LocalSids(n)) \ entries
       IN  /\ gone # {}
           /\ stopped' = [stopped EXCEPT ![n] = @ \cup gone]
    /\ UNCHANGED <<alive, entries, slot, clients, pipe, inbox, calls, failures>>

(* _handle_remote_conversation_stopped, after its sleep: with too many     *)
(* running the client is disconnected, else the conversation is started.   *)
HandleStopped(n, s) ==
    /\ s \in stopped[n]
    /\ stopped' = [stopped EXCEPT ![n] = @ \ {s}]
    /\ \/ /\ Cardinality(RunningSids(n)) > MaxConversations + 1
          /\ clients' = [clients EXCEPT ![n] = @ \ {s}]
          /\ UNCHANGED <<entries, slot>>
       \/ /\ Cardinality(RunningSids(n)) <= MaxConversations + 1
          /\ TryStart(n, s)
          /\ UNCHANGED clients
    /\ UNCHANGED <<alive, pipe, inbox, calls, failures>>
-----------------------------------------------------------------------------
(***************************************************************************)
(* _update_state_in_redis, every 5 seconds: a pipeline is built from the   *)
(* local sessions, and executed later, when some of them may be closed.    *)
(***************************************************************************)
BuildPipeline(n) ==
    /\ n \in alive
    /\ pipe[n] = {}
    /\ pipe' = [pipe EXCEPT ![n] = LocalSids(n)]
    /\ UNCHANGED <<alive, entries, slot, clients, inbox, stopped, calls, failures>>

ExecutePipeline(n) ==
    /\ pipe[n] # {}
    /\ entries' = entries \cup pipe[n]
    /\ pipe' = [pipe EXCEPT ![n] = {}]
    /\ UNCHANGED <<alive, slot, clients, inbox, stopped, calls, failures>>

(* Sessions whose server keeps the entry from timing out: it refreshes     *)
(* every 5 of 15 seconds, or has just made the entry or is about to delete *)
(* it.  This is an assumption on timing (see the README).                  *)
Keeping == {"starting", "evicting", "live", "deleting"}

(* Mutant of Expire: the entries are made without a time-out.              *)
ExpireNever(s) == FALSE /\ UNCHANGED clusterVars

Expire(s) ==
    /\ s \in entries
    /\ \A i \in Slots : slot[i].pc \in Keeping => slot[i].sid # s
    /\ entries' = entries \ {s}
    /\ UNCHANGED <<alive, slot, clients, pipe, inbox, stopped, calls, failures>>

(* A server vanishes with its sessions and connections ...                 *)
Vanish(n) ==
    /\ n \in alive
    /\ failures < MaxFailures
    /\ failures' = failures + 1
    /\ alive' = alive \ {n}
    /\ slot' = [i \in Slots |-> IF slot[i].node = n THEN Free ELSE slot[i]]
    /\ clients' = [clients EXCEPT ![n] = {}]
    /\ pipe' = [pipe EXCEPT ![n] = {}]
    /\ inbox' = [inbox EXCEPT ![n] = {}]
    /\ stopped' = [stopped EXCEPT ![n] = {}]
    /\ UNCHANGED <<entries, calls>>

(* ... and comes back.                                                     *)
Return(n) ==
    /\ n \notin alive
    /\ alive' = alive \cup {n}
    /\ UNCHANGED <<entries, slot, clients, pipe, inbox, stopped, calls, failures>>

StartLoop(i) == CountRunning(i) \/ EvictOldest(i) \/ RegisterSession(i)
EndLoop(i) == DeleteEntry(i) \/ CloseSession(i)
Receive(n) == \E s \in Conversations : ReceiveClose(n, s) \/ ReceiveClosing(n, s)
Refresh(n) == BuildPipeline(n) \/ ExecutePipeline(n)

ClusterNext ==
    \/ \E n \in Nodes, s \in Conversations : JoinConversation(n, s) \/ Leave(n, s)
    \/ \E i \in Slots : StartLoop(i) \/ EndLoop(i)
    \/ \E n \in Nodes, s \in Conversations :
          CloseAnywhere(n, s) \/ CloseIdle(n, s) \/ HandleStopped(n, s)
    \/ \E n \in Nodes : Receive(n) \/ LoseMessage(n) \/ DisconnectFromStopped(n) \/ Refresh(n)
    \/ \E s \in Conversations : Expire(s)
    \/ \E n \in Nodes : Vanish(n) \/ Return(n)

ClusterSpec == ClusterInit /\ [][ClusterNext]_clusterVars
-----------------------------------------------------------------------------
(* Type invariant; a server that is down keeps nothing for its return.     *)
ClusterTypeOK ==
    /\ alive \subseteq Nodes /\ entries \subseteq Conversations
    /\ slot \in [Slots -> Session \cup {Free}]
    /\ clients \in [Nodes -> SUBSET Conversations]
    /\ pipe \in [Nodes -> SUBSET Conversations]
    /\ inbox \in [Nodes -> SUBSET (Close \cup Closing)]
    /\ stopped \in [Nodes -> SUBSET Conversations]
    /\ calls \in Nat /\ failures \in Nat
    /\ \A n \in Nodes \ alive :
          /\ clients[n] \cup pipe[n] \cup inbox[n] \cup stopped[n] = {}
          /\ \A i \in Slots : slot[i].node # n

(* A conversation has one agent loop at most in the whole cluster, started *)
(* or being started, whoever joins, closes, vanishes and takes over.       *)
Serving == {i \in Slots : slot[i].pc \in {"starting", "evicting", "live"}}
OneLoop == \A i, j \in Serving : slot[i].sid = slot[j].sid => i = j

(* The entry of a conversation is in Redis as long as it runs: other       *)
(* servers' closes, delayed refreshes and time-outs do not take it away,   *)
(* so nobody else starts it.                                               *)
Announced == \A i \in Serving : slot[i].sid \in entries

(* A client that stays connected to a conversation gets an agent loop for  *)
(* it, although the server that ran it vanished, the message that it was   *)
(* closing was lost, or a late refresh left an entry without a session.    *)
Recovers ==
    \A s \in Conversations :
        []<>(\/ \A n \in Nodes : s \notin clients[n]
             \/ \E i \in Slots : slot[i].pc = "live" /\ slot[i].sid = s)

(* "If we can set the key in redis then no other worker is running this    *)
(* conversation": a session does not begin while another one of its        *)
(* conversation is being closed.  The code does not keep it: the entry is  *)
(* deleted before the session is closed.                                   *)
NoOverlap ==
    \A i \in Serving, j \in Slots :
        i # j /\ slot[j].sid = slot[i].sid => slot[j].pc # "closing"

(* "Enforcement of conversation limits across the cluster": no more        *)
(* conversations run than configured.  The code does not keep it: a start  *)
(* may pick itself as the one to close, and other servers only hear of it. *)
WithinClusterLimit ==
    Cardinality({i \in Slots : slot[i].pc = "live"}) <= MaxConversations
=============================================================================
