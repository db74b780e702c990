------------------------ MODULE ConversationManager ------------------------
(***************************************************************************)
(* Which agent loops run on a server: StandaloneConversationManager        *)
(* (openhands/server/conversation_manager), the Session objects it makes   *)
(* and the AgentSession each of them starts and closes                     *)
(* (openhands/server/session).                                             *)
(*                                                                         *)
(* Everything runs on one asyncio loop: what happens between two awaits is *)
(* one action here, and at every await the other coroutines may go on -    *)
(* clients that connect, REST calls that start or stop a conversation, the *)
(* cleanup task, and the start-up of the sessions made so far.             *)
(***************************************************************************)
EXTENDS Integers, Sequences, FiniteSets

CONSTANTS
    Sids,      \* conversations of one user
    Calls,     \* calls that need an agent loop: a client that connects, or REST
    MaxLoops   \* max_concurrent_conversations

None == 0      \* no session; sessions are numbered from 1 in order of creation
NoSid == "no conversation"

ASSUME ManagerAssumption ==
    /\ IsFiniteSet(Sids) /\ NoSid \notin Sids
    /\ Sids \cap Calls = {}
    /\ MaxLoops \in Nat \ {0}

VARIABLES
    loops,  \* _local_agent_loops_by_sid: conversation -> session or None
    conns,  \* _local_connection_id_to_session_id: call -> conversation
    call,   \* per call: where it is, its conversation, the snapshot it works on
    sess,   \* the Session objects made so far, each with its AgentSession
    close   \* per closer: a run of _close_session

vars == <<loops, conns, call, sess, close>>

(* Who closes: a call that evicts, REST, and the cleanup task.             *)
Eviction(c) == <<"eviction", c>>
Rest(s) == <<"rest", s>>
Cleanup(s) == <<"cleanup", s>>
Cleanups == {Cleanup(s) : s \in Sids}
Closers == {Eviction(c) : c \in Calls} \cup {Rest(s) : s \in Sids} \cup Cleanups
Idle == [pc |-> "no", sid |-> NoSid, kick |-> {}, session |-> None]

Init ==
    /\ loops = [s \in Sids |-> None]
    /\ conns = [c \in Calls |-> NoSid]
    /\ call = [c \in Calls |-> [pc |-> "idle", sid |-> NoSid, running |-> {}, oldest |-> NoSid]]
    /\ sess = <<>>
    /\ close = [k \in Closers |-> Idle]

Running == {s \in Sids : loops[s] # None}
-----------------------------------------------------------------------------
(***************************************************************************)
(* maybe_start_agent_loop                                                  *)
(***************************************************************************)
Created(s) == [sid |-> s, start |-> "created", closed |-> FALSE, stopped |-> FALSE,
               sandbox |-> "none", dropped |-> "no"]

(* A session that is still in the dictionary is dropped: nobody closes it. *)
Replaced(s) ==
    [i \in DOMAIN sess |->
        IF i = loops[s] THEN [sess[i] EXCEPT !.dropped = "replaced"] ELSE sess[i]]

(* Mutant of NewSession: registered under the number before its own.       *)
NewSessionBefore(s) ==
    /\ sess' = Append(Replaced(s), Created(s))
    /\ loops' = [loops EXCEPT ![s] = Len(sess)]

NewSession(s) ==
    /\ sess' = Append(Replaced(s), Created(s))
    /\ loops' = [loops EXCEPT ![s] = Len(sess) + 1]

(* The locals of a call that has not evicted anyone.                       *)
At(pc, s, running) == [pc |-> pc, sid |-> s, running |-> running, oldest |-> NoSid]

(* There is a loop; or there is room for one, and it is made without an    *)
(* await; or the running conversations are noted and their metadata read.  *)
MaybeStart(c, s) ==
    \/ /\ loops[s] # None
       /\ call' = [call EXCEPT ![c] = At("done", s, {})]
       /\ UNCHANGED <<loops, sess>>
    \/ /\ loops[s] = None
       /\ Cardinality(Running) < MaxLoops
       /\ NewSession(s)
       /\ call' = [call EXCEPT ![c] = At("done", s, {})]
    \/ /\ loops[s] = None
       /\ Cardinality(Running) >= MaxLoops
       /\ call' = [call EXCEPT ![c] = At("limit", s, Running)]
       /\ UNCHANGED <<loops, sess>>

(* REST: a conversation is created or started, nobody is connected yet.    *)
StartByApi(c, s) ==
    /\ call[c].pc = "idle"
    /\ MaybeStart(c, s)
    /\ UNCHANGED <<conns, close>>

(* join_conversation: await enter_room, then register the connection.      *)
Join(c, s) ==
    /\ call[c].pc = "idle"
    /\ call' = [call EXCEPT ![c] = At("room", s, {})]
    /\ UNCHANGED <<loops, conns, sess, close>>

Register(c) ==
    /\ call[c].pc = "room"
    /\ conns' = [conns EXCEPT ![c] = call[c].sid]
    /\ MaybeStart(c, call[c].sid)
    /\ UNCHANGED close

(* At the limit: the oldest conversation of the snapshot is told ...       *)
NotifyOldest(c) ==
    /\ call[c].pc = "limit"
    /\ Cardinality(call[c].running) >= MaxLoops
    /\ \E s \in call[c].running :
          call' = [call EXCEPT ![c].pc = "evict", ![c].oldest = s,
                               ![c].running = @ \ {s}]
    /\ UNCHANGED <<loops, conns, sess, close>>

(* ... and the loop is made when the snapshot is small enough, whatever    *)
(* other calls have made in the meantime, of this conversation or another. *)
Admit(c) ==
    /\ call[c].pc = "limit"
    /\ Cardinality(call[c].running) < MaxLoops
    /\ NewSession(call[c].sid)
    /\ call' = [call EXCEPT ![c].pc = "done"]
    /\ UNCHANGED <<conns, close>>

(* disconnect_from_session: the client goes away.                          *)
Disconnect(c) ==
    /\ conns[c] # NoSid
    /\ conns' = [conns EXCEPT ![c] = NoSid]
    /\ UNCHANGED <<loops, call, sess, close>>
-----------------------------------------------------------------------------
(***************************************************************************)
(* _close_session.  Its connections are shut down one await after the      *)
(* other; then the session is taken from the dictionary, whichever it is   *)
(* by now.  Pop is that last part.                                         *)
(***************************************************************************)
Connected(s) == {c \in Calls : conns[c] = s}

(* Mutant of Pop: the session is taken out and not closed.                 *)
PopForgets(k, s) ==
    /\ loops' = [loops EXCEPT ![s] = None]
    /\ close' = [close EXCEPT ![k] = Idle]

Pop(k, s) ==
    /\ loops' = [loops EXCEPT ![s] = None]
    /\ close' = [close EXCEPT ![k] =
          IF loops[s] = None THEN Idle
          ELSE [pc |-> "emit", sid |-> s, kick |-> {}, session |-> loops[s]]]

CloseBegin(k, s) ==
    \/ Connected(s) = {} /\ Pop(k, s)
    \/ /\ Connected(s) # {}
       /\ close' = [close EXCEPT ![k] = [pc |-> "kick", sid |-> s,
                                         kick |-> Connected(s), session |-> None]]
       /\ UNCHANGED loops

Kick(k) ==
    /\ close[k].pc = "kick"
    /\ \E c \in close[k].kick :
        /\ conns' = [conns EXCEPT ![c] = NoSid]
        /\ \/ close[k].kick = {c} /\ Pop(k, close[k].sid)
           \/ /\ close[k].kick # {c}
              /\ close' = [close EXCEPT ![k].kick = @ \ {c}]
              /\ UNCHANGED loops
    /\ UNCHANGED <<call, sess>>

(* close_session, over REST; or for the limit, after the message is sent.  *)
CloseByApi(s) ==
    /\ close[Rest(s)].pc = "no"
    /\ loops[s] # None
    /\ CloseBegin(Rest(s), s)
    /\ UNCHANGED <<conns, call, sess>>

CloseOldest(c) ==
    /\ call[c].pc = "evict"
    /\ call' = [call EXCEPT ![c].pc = "closing"]
    /\ \/ loops[call[c].oldest] # None /\ CloseBegin(Eviction(c), call[c].oldest)
       \/ loops[call[c].oldest] = None /\ UNCHANGED <<loops, close>>
    /\ UNCHANGED <<conns, sess>>

OldestClosed(c) ==
    /\ call[c].pc = "closing"
    /\ close[Eviction(c)].pc = "no"
    /\ call' = [call EXCEPT ![c].pc = "limit"]
    /\ UNCHANGED <<loops, conns, sess, close>>

(* A round of _cleanup_stale: the conversations that are idle for long and *)
(* not connected get a task each, which closes them later.                 *)
CleanupPick ==
    /\ \A k \in Cleanups : close[k].pc = "no"
    /\ \E S \in SUBSET {s \in Running : Connected(s) = {}} :
          /\ S # {}
          /\ close' = [k \in Closers |->
                IF \E s \in S : k = Cleanup(s) THEN [Idle EXCEPT !.pc = "task"]
                ELSE close[k]]
    /\ UNCHANGED <<loops, conns, call, sess>>

CleanupClose(s) ==
    /\ close[Cleanup(s)].pc = "task"
    /\ CloseBegin(Cleanup(s), s)
    /\ UNCHANGED <<conns, call, sess>>

(* wait_all has waited for 90 seconds: the tasks that are not done are     *)
(* cancelled, each at its await, and what they had taken out is dropped.   *)
Holds(k, i) == close[k].pc \in {"emit", "wait", "overdue"} /\ close[k].session = i

CleanupTimesOut ==
    /\ \E k \in Cleanups : close[k].pc # "no"
    /\ close' = [k \in Closers |-> IF k \in Cleanups THEN Idle ELSE close[k]]
    /\ sess' = [i \in DOMAIN sess |->
          IF \E k \in Cleanups : Holds(k, i)
          THEN [sess[i] EXCEPT !.dropped = "cancelled"] ELSE sess[i]]
    /\ UNCHANGED <<loops, conns, call>>
-----------------------------------------------------------------------------
(***************************************************************************)
(* Session.close and AgentSession.close.                                   *)
(***************************************************************************)
Starting(i) == sess[i].start \in {"connecting", "setup"}

(* Close the event stream, the controller and the runtime.  The runtime    *)
(* removes the sandbox if there is one by now.                             *)
Stop(i) ==
    sess' = [sess EXCEPT ![i].closed = TRUE, ![i].stopped = TRUE,
                         ![i].sandbox = IF @ = "up" THEN "removed" ELSE @]

(* After the last message to the client; a session that is being started   *)
(* is waited for.  (One that is closed already is left alone: nobody else  *)
(* has got hold of a session that was taken from the dictionary.)          *)
CloseAgentSession(k) ==
    /\ close[k].pc = "emit"
    /\ LET i == close[k].session
       IN  \/ /\ Starting(i)
              /\ sess' = [sess EXCEPT ![i].closed = TRUE]
              /\ close' = [close EXCEPT ![k].pc = "wait"]
           \/ /\ ~Starting(i)
              /\ Stop(i)
              /\ close' = [close EXCEPT ![k] = Idle]
    /\ UNCHANGED <<loops, conns, call>>

(* Mutant of CloseWaited: only a start-up that succeeds ends the wait.     *)
CloseWaitedReady(k) ==
    /\ close[k].pc = "wait"
    /\ sess[close[k].session].start = "ready"
    /\ Stop(close[k].session)
    /\ close' = [close EXCEPT ![k] = Idle]
    /\ UNCHANGED <<loops, conns, call>>

(* A nap of 5 seconds later.  The test for having waited too long reads    *)
(* time.time() <= ...: it ends the wait of a start-up of up to 90 seconds, *)
(* over or not, and one that takes longer is waited for until it is over.  *)
CloseWaited(k) ==
    /\ close[k].pc \in {"wait", "overdue"}
    /\ \/ /\ close[k].pc = "overdue" => ~Starting(close[k].session)
          /\ Stop(close[k].session)
          /\ close' = [close EXCEPT ![k] = Idle]
       \/ /\ close[k].pc = "wait" /\ Starting(close[k].session)
          /\ close' = [close EXCEPT ![k].pc = "overdue"]
          /\ UNCHANGED sess
    /\ UNCHANGED <<loops, conns, call>>
-----------------------------------------------------------------------------
(***************************************************************************)
(* AgentSession.start, in a task of its own.                               *)
(***************************************************************************)
Becomes(i, phase) == sess' = [sess EXCEPT ![i].start = phase]
startup == <<loops, conns, call, close>>

(* Up to the first await, in runtime.connect: the session has its runtime. *)
StartSession(i) ==
    /\ sess[i].start = "created"
    /\ Becomes(i, IF sess[i].closed THEN "aborted" ELSE "connecting")
    /\ UNCHANGED startup

(* connect() brings the sandbox up, whether the runtime was closed or not; *)
(* or the runtime is unavailable and the start goes on without.            *)
ConnectRuntime(i) ==
    /\ sess[i].start = "connecting"
    /\ \E box \in {"up", "none"} :
          sess' = [sess EXCEPT ![i].start = "setup", ![i].sandbox = box]
    /\ UNCHANGED startup

(* _create_controller and the first event, which is only added if the      *)
(* session is not closed by now.                                           *)
CreateController(i) ==
    /\ sess[i].start = "setup"
    /\ Becomes(i, "ready")
    /\ UNCHANGED startup

StartFails(i) ==
    /\ sess[i].start \in {"created", "connecting", "setup"}
    /\ Becomes(i, "failed")
    /\ UNCHANGED startup

Caller(c) ==
    \/ Register(c) \/ NotifyOldest(c) \/ CloseOldest(c) \/ OldestClosed(c) \/ Admit(c)
Closer(k) == Kick(k) \/ CloseAgentSession(k) \/ CloseWaited(k)
Starter(i) == StartSession(i) \/ ConnectRuntime(i) \/ CreateController(i) \/ StartFails(i)

Next ==
    \/ \E c \in Calls : Caller(c) \/ Disconnect(c)
    \/ \E c \in Calls, s \in Sids : StartByApi(c, s) \/ Join(c, s)
    \/ \E s \in Sids : CloseByApi(s) \/ CleanupClose(s)
    \/ CleanupPick \/ CleanupTimesOut
    \/ \E k \in Closers : Closer(k)
    \/ \E i \in DOMAIN sess : Starter(i)

Spec == Init /\ [][Next]_vars

(***************************************************************************)
(* Fairness: an asyncio task that can go on does, its awaits return.       *)
(* Nobody has to connect, to disconnect, or to ask for a close, and the    *)
(* clean-up need not run out of time.                                      *)
(***************************************************************************)
FairSpec ==
    /\ Spec
    /\ \A c \in Calls : WF_vars(Caller(c))
    /\ \A k \in Closers : WF_vars(Closer(k))
    /\ \A s \in Sids : WF_vars(CleanupClose(s))
    /\ \A i \in 1..Cardinality(Calls) : WF_vars(i \in DOMAIN sess /\ Starter(i))
-----------------------------------------------------------------------------
CallState == [pc : {"idle", "room", "limit", "evict", "closing", "done"},
              sid : Sids \cup {NoSid}, running : SUBSET Sids,
              oldest : Sids \cup {NoSid}]
SessionState ==
    [sid : Sids, closed : BOOLEAN, stopped : BOOLEAN, sandbox : {"none", "up", "removed"},
     start : {"created", "connecting", "setup", "ready", "failed", "aborted"},
     dropped : {"no", "replaced", "cancelled"}]
CloseState == [pc : {"no", "task", "kick", "emit", "wait", "overdue"},
               sid : Sids \cup {NoSid}, kick : SUBSET Calls, session : 0..Len(sess)]

(* Type invariant; a session in the dictionary is one of its conversation. *)
TypeOK ==
    /\ loops \in [Sids -> 0..Len(sess)]
    /\ \A s \in Sids : loops[s] # None => sess[loops[s]].sid = s
    /\ conns \in [Calls -> Sids \cup {NoSid}]
    /\ call \in [Calls -> CallState]
    /\ sess \in Seq(SessionState)
    /\ close \in [Closers -> CloseState]

(* Two things lose a session: a second call for the same conversation that *)
(* was under way replaces it, and a clean-up that runs out of time leaves  *)
(* it half closed.  Otherwise one that is not closed can be found under    *)
(* its conversation or is about to be closed, however closers, evictions   *)
(* and calls for loops overlap.  A lost one keeps running, with a second   *)
(* event stream on the files of its conversation.                          *)
NoOrphan ==
    \A i \in DOMAIN sess :
        \/ sess[i].closed
        \/ loops[sess[i].sid] = i
        \/ \E k \in Closers : close[k].pc = "emit" /\ close[k].session = i
        \/ sess[i].dropped # "no"

(* "Maximum number of concurrent agent loops allowed per user", says the   *)
(* configuration of max_concurrent_conversations.                          *)
WithinLimit == Cardinality(Running) <= MaxLoops

(* A session that leaves the dictionary, to which it does not return, is   *)
(* stopped in the end, even if several calls close it, or it is closed     *)
(* while it starts; but for those that are replaced or dropped by a        *)
(* clean-up that runs out of time.                                         *)
GoneIsStopped ==
    \A i \in 1..Cardinality(Calls) :
        []<>(i \in DOMAIN sess =>
                loops[sess[i].sid] = i \/ sess[i].stopped \/ sess[i].dropped # "no")

(* The sandbox of a session that is closed is removed in the end.          *)
SandboxReleased ==
    \A i \in 1..Cardinality(Calls) :
        (i \in DOMAIN sess /\ sess[i].stopped)
            ~> (i \in DOMAIN sess /\ sess[i].sandbox # "up" /\ ~Starting(i))

(* Every call for an agent loop is answered: neither the eviction of old   *)
(* conversations nor a close by somebody else keeps it waiting for ever.   *)
CallReturns == \A c \in Calls : []<>(call[c].pc \in {"idle", "done"})
=============================================================================
