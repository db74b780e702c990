----------------------------- MODULE MCServers -----------------------------
(* Parts of the servers that share no state in these models, checked in    *)
(* one run, each by itself: part says which one moves, the others stay     *)
(* where they begin.                                                       *)
EXTENDS ConversationManager, Attached, Cluster, TokenRefresh, BashSession,
        WebHookMirror, Condensing, TLC

CONSTANT Parts
VARIABLE part

ServersInit ==
    /\ part \in Parts
    /\ Init /\ AttachInit /\ ClusterInit /\ TokenInit /\ BashInit /\ HookInit
    /\ CondenseInit /\ (part # "condensing" => ~browses)

ServersNext ==
    \/ /\ part = "manager" /\ Next
       /\ UNCHANGED <<part, attachVars, clusterVars, tokenVars, bashVars, hookVars, condenseVars>>
    \/ /\ part = "attached" /\ AttachNext
       /\ UNCHANGED <<part, vars, clusterVars, tokenVars, bashVars, hookVars, condenseVars>>
    \/ /\ part = "cluster" /\ ClusterNext
       /\ UNCHANGED <<part, vars, attachVars, tokenVars, bashVars, hookVars, condenseVars>>
    \/ /\ part = "tokens" /\ TokenNext
       /\ UNCHANGED <<part, vars, attachVars, clusterVars, bashVars, hookVars, condenseVars>>
    \/ /\ part = "bash" /\ BashNext
       /\ UNCHANGED <<part, vars, attachVars, clusterVars, tokenVars, hookVars, condenseVars>>
    \/ /\ part = "hook" /\ HookNext
       /\ UNCHANGED <<part, vars, attachVars, clusterVars, tokenVars, bashVars, condenseVars>>
    \/ /\ part = "condensing" /\ CondenseNext
       /\ UNCHANGED <<part, vars, attachVars, clusterVars, tokenVars, bashVars, hookVars>>

(***************************************************************************)
(* Fairness, per part.  asyncio tasks that can go on do and awaits return; *)
(* nobody has to connect, to disconnect, or to ask for a close.            *)
(***************************************************************************)
Manager(A) == part = "manager" /\ A
ManagerFairness ==
    /\ \A c \in Calls : WF_vars(Manager(Caller(c)))
    /\ \A k \in Closers : WF_vars(Manager(Closer(k)))
    /\ \A s \in Sids : WF_vars(Manager(CleanupClose(s)))
    /\ \A i \in 1..Cardinality(Calls) : WF_vars(Manager(i \in DOMAIN sess /\ Starter(i)))

(* A connection attempt ends, a request ends, the clean-up goes on, which  *)
(* it does with a close_delay.                                             *)
Attaching(A) == part = "attached" /\ A
AttachFairness ==
    /\ \A v \in Visits : WF_attachVars(Attaching(ConnectEnds(v)))
    /\ \A v \in Visits : WF_attachVars(Attaching(Detach(v)))
    /\ WF_attachVars(Attaching(CleanupDetached))

(* The servers' tasks go on while the server is up, and Redis drops what   *)
(* has timed out.  Clients, API callers, the network and failures are free. *)
Clustered(A) == part = "cluster" /\ A
ClusterFairness ==
    /\ \A i \in Slots : WF_clusterVars(Clustered(StartLoop(i)))
    /\ \A i \in Slots : WF_clusterVars(Clustered(EndLoop(i)))
    /\ \A n \in Nodes : WF_clusterVars(Clustered(DisconnectFromStopped(n)))
    /\ \A n \in Nodes : WF_clusterVars(Clustered(Refresh(n)))
    /\ \A n \in Nodes, s \in Conversations : WF_clusterVars(Clustered(HandleStopped(n, s)))
    /\ \A s \in Conversations : WF_clusterVars(Clustered(Expire(s)))

(* A request goes on, the provider answers or the HTTP client times out,   *)
(* and a DELETE that does not wait for a lock is done.                     *)
Refreshing(A) == part = "tokens" /\ A
TokenFairness ==
    /\ \A q \in Requests : WF_tokenVars(Refreshing(RequestStep(q)))
    /\ \A q \in Requests : WF_tokenVars(Refreshing(DeleteTokens(q)))

(* Threads that can go on do; files are changed and flush() is called at   *)
(* will.                                                                   *)
Hooked(A) == part = "hook" /\ A
HookFairness ==
    /\ \A w \in Writers : WF_hookVars(Hooked(QueueUpdate(w)))
    /\ WF_hookVars(Hooked(TimerFires)) /\ WF_hookVars(Hooked(EnqueueFromTimer))
    /\ WF_hookVars(Hooked(FlushEnds)) /\ WF_hookVars(Hooked(Post))

ServersFairness ==
    ManagerFairness /\ AttachFairness /\ ClusterFairness /\ TokenFairness /\ HookFairness

ServersSpec ==
    /\ ServersInit
    /\ [][ServersNext]_<<part, vars, attachVars, clusterVars, tokenVars, bashVars, hookVars, condenseVars>>
    /\ ServersFairness
-----------------------------------------------------------------------------
(* The type invariants of the small parts in one: the reference count of   *)
(* attached conversations, the rows and locks of tokens, the one prompt    *)
(* between two commands of a bash session, the size kept with a batch, and *)
(* that a condensation is about what came before it.                       *)
PartsTypeOK ==
    AttachTypeOK /\ TokenTypeOK /\ BashTypeOK /\ HookTypeOK /\ CondenseTypeOK
=============================================================================
