--------------------------- MODULE ClusterProofs ---------------------------
(***************************************************************************)
(* A conversation has one agent loop at most in the whole cluster, and its *)
(* entry is in Redis as long as it runs: theorems of ClusterSpec for any   *)
(* servers, conversations and bounds.                                      *)
(***************************************************************************)
EXTENDS Cluster, TLAPS

(***************************************************************************)
(* The invariant is stated over more than the running sessions: one that   *)
(* is popped and about to delete its entry holds it still, otherwise       *)
(* DeleteEntry could take away the entry of another.                       *)
(***************************************************************************)
Held == {i \in Slots : slot[i].pc \in Keeping}
Kept ==
    /\ \A i \in Held : slot[i].sid \in entries
    /\ \A i, j \in Held : slot[i].sid = slot[j].sid => i = j

Typed == slot \in [Slots -> Session \cup {Free}]
ClusterInv == ClusterTypeOK /\ Kept

PCs == {"starting", "evicting", "live", "deleting", "closing"}

(* Stage changes where a session is, and nothing else that matters here.      *)
LEMMA AtFacts ==
    ASSUME Typed, NEW i \in Slots, slot[i] # Free, NEW pc \in PCs
    PROVE  /\ Stage(i, pc) \in Session
           /\ Stage(i, pc).pc = pc
           /\ Stage(i, pc).sid = slot[i].sid
           /\ Stage(i, pc).node = slot[i].node
<1>1. slot[i] \in Session
  BY DEF Typed
<1>2. Stage(i, pc) = [pc |-> pc, node |-> slot[i].node, sid |-> slot[i].sid,
                   victims |-> {}, wait |-> 0]
  BY DEF Stage
<1>3. slot[i].node \in Nodes /\ slot[i].sid \in Conversations
  BY <1>1 DEF Session
<1>4. Stage(i, pc) \in Session
  BY <1>2, <1>3 DEF Session, PCs
<1> QED
  BY <1>2, <1>4

(* Popping sessions changes their pc, from live to deleting.               *)
LEMMA PoppedFacts ==
    ASSUME Typed, NEW n \in Nodes, NEW s \in Conversations
    PROVE  /\ Popped(n, s) \in [Slots -> Session \cup {Free}]
           /\ \A i \in Slots :
                 /\ Popped(n, s)[i].sid = slot[i].sid
                 /\ Popped(n, s)[i].node = slot[i].node
                 /\ Popped(n, s)[i].pc \in Keeping <=> i \in Held
                 /\ slot[i].pc # "live" => Popped(n, s)[i] = slot[i]
<1> SUFFICES ASSUME NEW i \in Slots
             PROVE  /\ Popped(n, s)[i] \in Session \cup {Free}
                    /\ Popped(n, s)[i].sid = slot[i].sid
                    /\ Popped(n, s)[i].node = slot[i].node
                    /\ Popped(n, s)[i].pc \in Keeping <=> i \in Held
                    /\ slot[i].pc # "live" => Popped(n, s)[i] = slot[i]
  BY DEF Popped
<1>1. CASE i \in Local(n) /\ slot[i].sid = s
  <2>1. slot[i].pc = "live" /\ slot[i] # Free
    BY <1>1 DEF Local, Free
  <2>2. Popped(n, s)[i] = Stage(i, "deleting")
    BY <1>1 DEF Popped
  <2> QED
    BY <2>1, <2>2, AtFacts DEF PCs, Keeping, Held
<1>2. CASE ~(i \in Local(n) /\ slot[i].sid = s)
  <2>1. Popped(n, s)[i] = slot[i]
    BY <1>2 DEF Popped
  <2> QED
    BY <2>1 DEF Typed, Held
<1> QED
  BY <1>1, <1>2

(* Messages go to servers that are up.                                     *)
LEMMA PublishedFacts ==
    ASSUME ClusterTypeOK, NEW m \in Close \cup Closing
    PROVE  /\ Published(m) \in [Nodes -> SUBSET (Close \cup Closing)]
           /\ \A n \in Nodes \ alive : Published(m)[n] = inbox[n]
BY DEF ClusterTypeOK, Published

LEMMA MessageTypes ==
    ASSUME NEW s \in Conversations
    PROVE  /\ [kind |-> "close_session", sid |-> s] \in Close \cup Closing
           /\ [kind |-> "session_closing", sid |-> s] \in Close \cup Closing
BY DEF Close, Closing

(***************************************************************************)
(* A step after which fewer sessions hold their entries, none of them      *)
(* another conversation's, and whose held entries are still there.         *)
(***************************************************************************)
LEMMA KeptFrame ==
    ASSUME Kept,
           \A i \in Slots : i \in Held' => /\ i \in Held
                                           /\ slot'[i].sid = slot[i].sid
                                           /\ slot[i].sid \in entries'
    PROVE  Kept'
<1>1. \A i \in Slots : i \in Held' => slot'[i].sid \in entries'
  OBVIOUS
<1>2. ASSUME NEW i \in Slots, NEW j \in Slots,
             i \in Held', j \in Held', slot'[i].sid = slot'[j].sid
      PROVE  i = j
  BY <1>2 DEF Kept
<1>3. \A i \in Slots : i \in Held' => (slot[i].sid \in entries)'
  BY <1>1
<1> QED
  BY <1>2, <1>3 DEF Kept, Held

(* A step that changes neither the sessions' pcs and conversations nor     *)
(* takes an entry away.                                                    *)
LEMMA KeptSame ==
    ASSUME Kept, entries \subseteq entries', UNCHANGED slot
    PROVE  Kept'
<1>1. \A i \in Slots : i \in Held' => /\ i \in Held
                                      /\ slot'[i].sid = slot[i].sid
                                      /\ slot[i].sid \in entries'
  BY DEF Held, Kept
<1> QED
  BY <1>1, KeptFrame

(* The part of the type invariant about a server that is down: its         *)
(* sessions ended with it.                                                 *)
LEMMA DownFrame ==
    ASSUME ClusterTypeOK,
           alive \subseteq alive',
           \A i \in Slots : \/ slot'[i].node = slot[i].node
                            \/ slot'[i] = Free
                            \/ slot'[i].node \in alive'
    PROVE  \A n \in Nodes \ alive' : \A i \in Slots : slot'[i].node # n
<1> SUFFICES ASSUME NEW n \in Nodes \ alive', NEW i \in Slots
             PROVE  slot'[i].node # n
  OBVIOUS
<1>1. slot[i].node # n
  BY DEF ClusterTypeOK
<1>2. Free.node # n
  BY ClusterAssumption DEF Free
<1> QED
  BY <1>1, <1>2

(***************************************************************************)
(* Making an entry: the one case that adds a session that holds one.       *)
(***************************************************************************)
LEMMA TryStartFacts ==
    ASSUME ClusterInv, NEW n \in Nodes, n \in alive, NEW s \in Conversations, TryStart(n, s)
    PROVE  /\ Typed'
           /\ entries' \subseteq Conversations
           /\ \A i \in Slots : slot'[i].node = slot[i].node \/ slot'[i].node = n
           /\ Kept'
<1>0. Typed /\ entries \subseteq Conversations /\ Kept
  BY DEF ClusterInv, ClusterTypeOK, Typed
<1>1. CASE s \in entries /\ UNCHANGED <<entries, slot>>
  <2>1. Kept'
    BY <1>0, <1>1, KeptSame
  <2> QED
    BY <1>0, <1>1, <2>1 DEF Typed
<1>2. CASE /\ s \notin entries
           /\ \E i \in Slots : /\ slot[i] = Free
                               /\ slot' = [slot EXCEPT ![i] = StartingSession(n, s)]
           /\ entries' = entries \cup {s}
  <2> PICK k \in Slots : slot[k] = Free /\ slot' = [slot EXCEPT ![k] = StartingSession(n, s)]
    BY <1>2
  <2>1. StartingSession(n, s) \in Session
    BY DEF StartingSession, Session
  <2>2. StartingSession(n, s).sid = s /\ StartingSession(n, s).node = n
    BY DEF StartingSession
  <2>3. Typed' /\ \A i \in Slots : slot'[i] = IF i = k THEN StartingSession(n, s) ELSE slot[i]
    BY <1>0, <2>1 DEF Typed
  <2>4. \A i \in Slots : i \in Held => slot[i].sid # s
    BY <1>0, <1>2 DEF Kept
  <2>5. \A i \in Slots : i # k /\ i \in Held' => i \in Held /\ slot'[i].sid = slot[i].sid
    BY <2>3 DEF Held
  <2>6. \A i \in Slots : i \in Held' => slot'[i].sid \in entries'
    BY <1>0, <1>2, <2>2, <2>3, <2>5 DEF Kept
  <2>7. ASSUME NEW i \in Slots, NEW j \in Slots,
               i \in Held', j \in Held', slot'[i].sid = slot'[j].sid
        PROVE  i = j
    <3>1. CASE i # k /\ j # k
      BY <1>0, <2>5, <2>7, <3>1 DEF Kept
    <3>2. CASE i = k \/ j = k
      BY <2>2, <2>3, <2>4, <2>5, <2>7, <3>2
    <3> QED
      BY <3>1, <3>2
  <2>8. Kept'
    BY <2>6, <2>7 DEF Kept, Held
  <2> QED
    BY <1>0, <1>2, <2>2, <2>3, <2>8
<1> QED
  BY <1>1, <1>2 DEF TryStart

(***************************************************************************)
(* What each step does to the sessions: they stay sessions, of the same    *)
(* server or one that is up, or end.                                       *)
(***************************************************************************)
SlotsMove ==
    /\ Typed'
    /\ \A i \in Slots : \/ slot'[i].node = slot[i].node
                       \/ slot'[i] = Free
                       \/ slot'[i].node \in alive'

LEMMA MoveFrame ==
    ASSUME Kept, Typed',
           \A j \in Slots : /\ slot'[j].sid = slot[j].sid
                            /\ slot'[j].node = slot[j].node
                            /\ j \in Held' => j \in Held,
           \A j \in Slots : j \in Held' => slot[j].sid \in entries'
    PROVE  SlotsMove /\ Kept'
<1>1. \A i \in Slots : i \in Held' => /\ i \in Held
                                      /\ slot'[i].sid = slot[i].sid
                                      /\ slot[i].sid \in entries'
  OBVIOUS
<1>2. Kept'
  BY <1>1, KeptFrame
<1>3. \A j \in Slots : slot'[j].node = slot[j].node
  OBVIOUS
<1> QED
  BY <1>2, <1>3 DEF SlotsMove

LEMMA CountRunningFacts ==
    ASSUME ClusterInv, NEW i \in Slots, CountRunning(i)
    PROVE  SlotsMove /\ Kept'
<1>0. Typed /\ Kept /\ slot[i] # Free /\ i \in Held
  BY DEF ClusterInv, ClusterTypeOK, Typed, CountRunning, Free, Held, Keeping
<1> DEFINE n == slot[i].node
           excess == Cardinality(RunningSids(n)) - MaxConversations
<1>1. CASE slot' = [slot EXCEPT ![i] = Stage(i, "live")]
  <2>1. /\ Stage(i, "live") \in Session /\ Stage(i, "live").sid = slot[i].sid
        /\ Stage(i, "live").node = slot[i].node
    BY <1>0, AtFacts DEF PCs
  <2>2. Typed' /\ \A j \in Slots : slot'[j].sid = slot[j].sid /\ slot'[j].node = slot[j].node
    BY <1>0, <1>1, <2>1 DEF Typed
  <2>3. \A j \in Slots : j \in Held' => j \in Held
    BY <1>0, <1>1 DEF Held, Typed
  <2>4. Kept'
    BY <1>0, <2>2, <2>3, KeptFrame DEF CountRunning, Kept
  <2> QED
    BY <2>2, <2>4 DEF SlotsMove
<1>2. ASSUME NEW V \in SUBSET RunningSids(n),
             slot' = [slot EXCEPT ![i] = Evicting(i, V, 0)]
      PROVE  SlotsMove /\ Kept'
  <2> DEFINE r == Evicting(i, V, 0)
  <2>1. slot[i] \in Session /\ RunningSids(n) \subseteq Conversations
    <3>1. LocalSids(n) \subseteq Conversations
      BY ClusterAssumption, <1>0 DEF LocalSids, Local, Typed, Session, Free
    <3> QED
      BY <1>0, <3>1 DEF Typed, RunningSids, ClusterInv, ClusterTypeOK
  <2>2. slot' = [slot EXCEPT ![i] = r]
    BY <1>2
  <2>3. r \in Session /\ r.sid = slot[i].sid /\ r.node = slot[i].node
    BY <2>1 DEF Session, Evicting
  <2> HIDE DEF r
  <2>4. Typed' /\ \A j \in Slots : slot'[j].sid = slot[j].sid /\ slot'[j].node = slot[j].node
    BY <1>0, <2>2, <2>3 DEF Typed
  <2>5. \A j \in Slots : j \in Held' => j \in Held
    BY <1>0, <2>2 DEF Held, Typed
  <2>6. Kept'
    BY <1>0, <2>4, <2>5, KeptFrame DEF CountRunning, Kept
  <2> QED
    BY <2>4, <2>6 DEF SlotsMove
<1> QED
  BY <1>1, <1>2 DEF CountRunning

LEMMA EvictOldestFacts ==
    ASSUME ClusterInv, NEW i \in Slots, EvictOldest(i)
    PROVE  /\ SlotsMove /\ Kept'
           /\ slot[i].node \in alive
           /\ \E v \in Conversations :
                 /\ clients' = [clients EXCEPT ![slot[i].node] = @ \ {v}]
                 /\ inbox' = Published([kind |-> "close_session", sid |-> v])
<1>0. Typed /\ Kept /\ slot[i] \in Session
  BY DEF ClusterInv, ClusterTypeOK, Typed, EvictOldest, Free
<1> DEFINE n == slot[i].node
<1> PICK v \in slot[i].victims :
      LET here == {j \in Local(n) : slot[j].sid = v}
          w == IF here = {} THEN 0 ELSE CHOOSE j \in here : TRUE
      IN  /\ slot' = [Popped(n, v) EXCEPT ![i] = Evicting(i, slot[i].victims \ {v}, w)]
          /\ clients' = [clients EXCEPT ![n] = @ \ {v}]
          /\ inbox' = Published([kind |-> "close_session", sid |-> v])
  BY DEF EvictOldest
<1> DEFINE here == {j \in Local(n) : slot[j].sid = v}
           w == IF here = {} THEN 0 ELSE CHOOSE j \in here : TRUE
           r == Evicting(i, slot[i].victims \ {v}, w)
<1>1. v \in Conversations /\ n \in Nodes /\ slot[i].pc = "evicting"
  BY <1>0 DEF Session, EvictOldest
<1>2. w \in Slots \cup {0}
  BY DEF Local
<1>3. /\ Popped(n, v) \in [Slots -> Session \cup {Free}]
      /\ Popped(n, v)[i] = slot[i]
  BY <1>0, <1>1, PoppedFacts
<1>4. r \in Session /\ r.sid = slot[i].sid /\ r.node = n /\ r.pc = "evicting"
  BY <1>0, <1>1, <1>2 DEF Session, Evicting
<1>5. slot' = [Popped(n, v) EXCEPT ![i] = r]
  OBVIOUS
<1> HIDE DEF r
<1>7. Typed'
  BY <1>3, <1>4, <1>5 DEF Typed
<1>8. \A j \in Slots : /\ slot'[j].sid = slot[j].sid
                       /\ slot'[j].node = slot[j].node
                       /\ j \in Held' => j \in Held
  <2> SUFFICES ASSUME NEW j \in Slots
               PROVE  /\ slot'[j].sid = slot[j].sid
                      /\ slot'[j].node = slot[j].node
                      /\ j \in Held' => j \in Held
    OBVIOUS
  <2>1. CASE j = i
    BY <1>1, <1>3, <1>4, <1>5, <2>1 DEF Held, Keeping
  <2>2. CASE j # i
    BY <1>0, <1>1, <1>3, <1>5, <2>2, PoppedFacts DEF Held
  <2> QED
    BY <2>1, <2>2
<1>9. UNCHANGED entries
  BY DEF EvictOldest
<1>10. \A j \in Slots : j \in Held' => slot[j].sid \in entries'
  BY <1>0, <1>8, <1>9 DEF Kept
<1>11. SlotsMove /\ Kept'
  BY <1>0, <1>7, <1>8, <1>10, MoveFrame
<1>12. n \in alive
  BY <1>1 DEF ClusterInv, ClusterTypeOK
<1>13. /\ clients' = [clients EXCEPT ![n] = @ \ {v}]
       /\ inbox' = Published([kind |-> "close_session", sid |-> v])
  OBVIOUS
<1> HIDE DEF here, w
<1> QED
  BY <1>1, <1>11, <1>12, <1>13

LEMMA RegisterFacts ==
    ASSUME ClusterInv, NEW i \in Slots, RegisterSession(i)
    PROVE  SlotsMove /\ Kept'
<1>0. Typed /\ Kept /\ slot[i] # Free /\ i \in Held
  BY DEF ClusterInv, ClusterTypeOK, Typed, RegisterSession, Free, Held, Keeping
<1>1. /\ Stage(i, "live") \in Session /\ Stage(i, "live").sid = slot[i].sid
      /\ Stage(i, "live").node = slot[i].node
  BY <1>0, AtFacts DEF PCs
<1>2. Typed' /\ \A j \in Slots : slot'[j].sid = slot[j].sid /\ slot'[j].node = slot[j].node
  BY <1>0, <1>1 DEF Typed, RegisterSession
<1>3. \A j \in Slots : j \in Held' => j \in Held
  BY <1>0 DEF Held, Typed, RegisterSession
<1>4. Kept'
  BY <1>0, <1>2, <1>3, KeptFrame DEF RegisterSession, Kept
<1> QED
  BY <1>2, <1>4 DEF SlotsMove

(* DeleteEntry takes away its own session's entry: no other session holds  *)
(* that one.                                                               *)
LEMMA DeleteEntryFacts ==
    ASSUME ClusterInv, NEW i \in Slots, DeleteEntry(i)
    PROVE  SlotsMove /\ Kept'
<1>0. Typed /\ Kept /\ slot[i] # Free /\ i \in Held
  BY DEF ClusterInv, ClusterTypeOK, Typed, DeleteEntry, Free, Held, Keeping
<1>1. /\ Stage(i, "closing") \in Session /\ Stage(i, "closing").sid = slot[i].sid
      /\ Stage(i, "closing").node = slot[i].node /\ Stage(i, "closing").pc = "closing"
  BY <1>0, AtFacts DEF PCs
<1>2. Typed' /\ \A j \in Slots : slot'[j].sid = slot[j].sid /\ slot'[j].node = slot[j].node
  BY <1>0, <1>1 DEF Typed, DeleteEntry
<1>3. \A j \in Slots : j \in Held' => j \in Held /\ j # i
  BY <1>0, <1>1 DEF Held, Typed, DeleteEntry, Keeping
<1>4. \A j \in Slots : j \in Held' => slot[j].sid \in entries'
  BY <1>0, <1>3 DEF Kept, DeleteEntry
<1>5. Kept'
  BY <1>0, <1>2, <1>3, <1>4, KeptFrame
<1> QED
  BY <1>2, <1>5 DEF SlotsMove

LEMMA CloseSessionFacts ==
    ASSUME ClusterInv, NEW i \in Slots, CloseSession(i)
    PROVE  SlotsMove /\ Kept'
<1>0. Typed /\ Kept
  BY DEF ClusterInv, ClusterTypeOK, Typed
<1>1. ASSUME NEW j \in Slots
      PROVE  \/ slot'[j] = Free
             \/ /\ slot'[j] \in Session \cup {Free}
                /\ slot'[j].sid = slot[j].sid
                /\ slot'[j].node = slot[j].node
                /\ slot'[j].pc = slot[j].pc
  <2>1. CASE slot[j].wait = i /\ j # i
    <3>1. slot[j] \in Session
      BY <1>0, <2>1 DEF Typed, Free, Slots
    <3>2. slot'[j] = [slot[j] EXCEPT !.wait = 0]
      BY <2>1 DEF CloseSession, Ended
    <3> QED
      BY <3>1, <3>2 DEF Session
  <2>2. CASE ~(slot[j].wait = i /\ j # i)
    BY <1>0, <2>2 DEF CloseSession, Ended, Typed
  <2> QED
    BY <2>1, <2>2
<1>2. Typed'
  BY <1>0, <1>1 DEF Typed, CloseSession, Ended
<1>3. \A j \in Slots : j \in Held' => j \in Held /\ slot'[j].sid = slot[j].sid
  BY <1>1 DEF Held, Keeping, Free
<1>4. Kept'
  BY <1>0, <1>3, KeptFrame DEF CloseSession, Kept
<1> QED
  BY <1>1, <1>2, <1>4 DEF SlotsMove

LEMMA PopFacts ==
    ASSUME ClusterInv, NEW n \in Nodes, NEW s \in Conversations,
           slot' = Popped(n, s), UNCHANGED entries
    PROVE  SlotsMove /\ Kept'
<1>0. Typed /\ Kept
  BY DEF ClusterInv, ClusterTypeOK, Typed
<1>1. /\ Typed'
      /\ \A j \in Slots : /\ slot'[j].sid = slot[j].sid
                          /\ slot'[j].node = slot[j].node
                          /\ j \in Held' => j \in Held
  <2> DEFINE p == Popped(n, s)
  <2>1. /\ p \in [Slots -> Session \cup {Free}]
        /\ \A j \in Slots : /\ p[j].sid = slot[j].sid
                            /\ p[j].node = slot[j].node
                            /\ p[j].pc \in Keeping <=> j \in Held
    BY <1>0, PoppedFacts
  <2>2. slot' = p
    OBVIOUS
  <2> HIDE DEF p
  <2> QED
    BY <2>1, <2>2 DEF Typed, Held
<1>2. \A j \in Slots : j \in Held' => slot[j].sid \in entries'
  BY <1>0, <1>1 DEF Kept
<1> QED
  BY <1>0, <1>1, <1>2, MoveFrame

LEMMA VanishFacts ==
    ASSUME ClusterInv, NEW n \in Nodes, Vanish(n)
    PROVE  /\ Typed' /\ Kept'
           /\ \A m \in Nodes \ alive' : \A i \in Slots : slot'[i].node # m
<1>0. Typed /\ Kept
  BY DEF ClusterInv, ClusterTypeOK, Typed
<1>1. Typed' /\ \A j \in Slots : slot'[j] = Free \/ (slot'[j] = slot[j] /\ slot[j].node # n)
  <2>1. slot' = [j \in Slots |-> IF slot[j].node = n THEN Free ELSE slot[j]]
    BY DEF Vanish
  <2> QED
    BY <1>0, <2>1 DEF Typed
<1>2. \A j \in Slots : j \in Held' => j \in Held /\ slot'[j].sid = slot[j].sid
  BY <1>1 DEF Held, Keeping, Free
<1>3. Kept'
  BY <1>0, <1>2, KeptFrame DEF Vanish, Kept
<1>4. ASSUME NEW m \in Nodes \ alive', NEW i \in Slots
      PROVE  slot'[i].node # m
  <2>1. Free.node # m
    BY ClusterAssumption DEF Free
  <2>2. slot[i].node # m \/ m = n
    BY DEF ClusterInv, ClusterTypeOK, Vanish
  <2> QED
    BY <1>1, <2>1, <2>2
<1> QED
  BY <1>1, <1>3, <1>4

(***************************************************************************)
(* The rest of the type invariant, one step lemma per group of actions.    *)
(***************************************************************************)
OthersOK ==
    /\ alive \subseteq Nodes /\ entries \subseteq Conversations
    /\ clients \in [Nodes -> SUBSET Conversations]
    /\ pipe \in [Nodes -> SUBSET Conversations]
    /\ inbox \in [Nodes -> SUBSET (Close \cup Closing)]
    /\ stopped \in [Nodes -> SUBSET Conversations]
    /\ calls \in Nat /\ failures \in Nat
    /\ \A n \in Nodes \ alive : clients[n] \cup pipe[n] \cup inbox[n] \cup stopped[n] = {}

LEMMA OthersStart == ClusterTypeOK => OthersOK /\ Typed
BY DEF ClusterTypeOK, OthersOK, Typed

LEMMA OthersType ==
    ASSUME Typed', OthersOK', \A n \in Nodes \ alive' : \A i \in Slots : slot'[i].node # n
    PROVE  ClusterTypeOK'
BY DEF ClusterTypeOK, OthersOK, Typed

LEMMA SlotsMoveType ==
    ASSUME ClusterTypeOK, SlotsMove, OthersOK', alive \subseteq alive'
    PROVE  ClusterTypeOK'
<1>1. \A n \in Nodes \ alive' : \A i \in Slots : slot'[i].node # n
  BY DownFrame DEF SlotsMove
<1>2. Typed'
  BY DEF SlotsMove
<1> QED
  BY <1>1, <1>2, OthersType

(* Steps that change messages, connections and refreshes only.             *)
LEMMA QuietSteps ==
    ASSUME ClusterInv, NEW n \in Nodes,
           \/ \E s \in Conversations : Leave(n, s) \/ ReceiveClosing(n, s)
           \/ LoseMessage(n) \/ Return(n)
           \/ DisconnectFromStopped(n) \/ BuildPipeline(n) \/ ExecutePipeline(n)
    PROVE  ClusterInv'
<1>0. ClusterTypeOK /\ OthersOK /\ Typed /\ Kept
  BY OthersStart DEF ClusterInv
<1>1. UNCHANGED slot /\ entries \subseteq entries' /\ alive \subseteq alive'
  BY DEF Leave, ReceiveClosing, LoseMessage, Return, DisconnectFromStopped,
         BuildPipeline, ExecutePipeline
<1>2. Kept'
  BY <1>0, <1>1, KeptSame
<1>3. SlotsMove
  BY <1>0, <1>1 DEF SlotsMove, Typed
<1>4. LocalSids(n) \subseteq Conversations /\ (n \notin alive => LocalSids(n) = {})
  <2>1. \A i \in Local(n) : slot[i].sid \in Conversations
    BY <1>0, ClusterAssumption DEF Local, Typed, Session, Free
  <2>2. n \notin alive => Local(n) = {}
    BY <1>0 DEF Local, ClusterTypeOK
  <2> QED
    BY <2>1, <2>2 DEF LocalSids
<1>5. OthersOK'
  <2>1. ASSUME NEW s \in Conversations, Leave(n, s)
        PROVE  OthersOK'
    BY <1>0, <2>1 DEF OthersOK, Leave, Call
  <2>2. ASSUME NEW s \in Conversations, ReceiveClosing(n, s)
        PROVE  OthersOK'
    BY <1>0, <2>2 DEF OthersOK, ReceiveClosing
  <2>3. CASE LoseMessage(n)
    BY <1>0, <2>3 DEF OthersOK, LoseMessage
  <2>4. CASE Return(n)
    BY <1>0, <2>4 DEF OthersOK, Return
  <2>5. CASE DisconnectFromStopped(n)
    BY <1>0, <2>5 DEF OthersOK, DisconnectFromStopped
  <2>6. CASE BuildPipeline(n)
    BY <1>0, <1>4, <2>6 DEF OthersOK, BuildPipeline
  <2>7. CASE ExecutePipeline(n)
    BY <1>0, <2>7 DEF OthersOK, ExecutePipeline
  <2> QED
    BY <2>1, <2>2, <2>3, <2>4, <2>5, <2>6, <2>7
<1> QED
  BY <1>0, <1>1, <1>2, <1>3, <1>5, SlotsMoveType DEF ClusterInv

(* Steps that make an entry for a session.                                 *)
LEMMA StartSteps ==
    ASSUME ClusterInv, NEW n \in Nodes, NEW s \in Conversations, JoinConversation(n, s) \/ HandleStopped(n, s)
    PROVE  ClusterInv'
<1>0. ClusterTypeOK /\ OthersOK /\ Typed /\ Kept
  BY OthersStart DEF ClusterInv
<1>1. n \in alive
  BY <1>0 DEF OthersOK, JoinConversation, HandleStopped
<1>2. UNCHANGED alive
  BY DEF JoinConversation, HandleStopped
<1>3. CASE TryStart(n, s)
  <2>1. /\ Typed' /\ entries' \subseteq Conversations /\ Kept'
        /\ \A i \in Slots : slot'[i].node = slot[i].node \/ slot'[i].node = n
    BY <1>1, <1>3, TryStartFacts
  <2>2. SlotsMove
    BY <1>1, <1>2, <2>1 DEF SlotsMove
  <2>3. OthersOK'
    <3>1. CASE JoinConversation(n, s)
      BY <1>0, <1>1, <2>1, <3>1 DEF OthersOK, JoinConversation, Call
    <3>2. CASE HandleStopped(n, s)
      BY <1>0, <1>1, <2>1, <3>2 DEF OthersOK, HandleStopped
    <3> QED
      BY <3>1, <3>2
  <2> QED
    BY <1>0, <1>2, <2>1, <2>2, <2>3, SlotsMoveType DEF ClusterInv
<1>4. CASE ~TryStart(n, s)
  <2>1. HandleStopped(n, s) /\ UNCHANGED <<entries, slot>>
    BY <1>4 DEF JoinConversation, HandleStopped
  <2>2. Kept' /\ SlotsMove
    BY <1>0, <2>1, KeptSame DEF SlotsMove, Typed
  <2>3. OthersOK'
    BY <1>0, <1>1, <2>1 DEF OthersOK, HandleStopped
  <2> QED
    BY <1>0, <1>2, <2>2, <2>3, SlotsMoveType DEF ClusterInv
<1> QED
  BY <1>3, <1>4

(* Steps of one session.                                                   *)
LEMMA SessionSteps ==
    ASSUME ClusterInv, NEW i \in Slots, StartLoop(i) \/ EndLoop(i)
    PROVE  ClusterInv'
<1>0. ClusterTypeOK /\ OthersOK /\ Typed /\ Kept
  BY OthersStart DEF ClusterInv
<1>1. CASE CountRunning(i) \/ RegisterSession(i) \/ CloseSession(i)
  <2>1. SlotsMove /\ Kept'
    BY <1>1, CountRunningFacts, RegisterFacts, CloseSessionFacts
  <2>2. UNCHANGED <<alive, entries, clients, pipe, inbox, stopped, calls, failures>>
    BY <1>1 DEF CountRunning, RegisterSession, CloseSession
  <2>3. OthersOK'
    BY <1>0, <2>2 DEF OthersOK
  <2> QED
    BY <1>0, <2>1, <2>2, <2>3, SlotsMoveType DEF ClusterInv
<1>2. CASE EvictOldest(i)
  <2>1. PICK v \in Conversations : /\ clients' = [clients EXCEPT ![slot[i].node] = @ \ {v}]
                          /\ inbox' = Published([kind |-> "close_session", sid |-> v])
    BY <1>2, EvictOldestFacts
  <2>2. SlotsMove /\ Kept' /\ slot[i].node \in alive
    BY <1>2, EvictOldestFacts
  <2>3. UNCHANGED <<alive, entries, pipe, stopped, calls, failures>>
    BY <1>2 DEF EvictOldest
  <2>4. /\ inbox' \in [Nodes -> SUBSET (Close \cup Closing)]
        /\ \A m \in Nodes \ alive : inbox'[m] = inbox[m]
    BY <1>0, <2>1, PublishedFacts, MessageTypes
  <2>5. /\ clients' \in [Nodes -> SUBSET Conversations]
        /\ \A m \in Nodes \ alive : clients'[m] = clients[m]
    BY <1>0, <2>1, <2>2 DEF OthersOK
  <2>6. OthersOK'
    BY <1>0, <2>3, <2>4, <2>5 DEF OthersOK
  <2> QED
    BY <1>0, <2>2, <2>3, <2>6, SlotsMoveType DEF ClusterInv
<1>3. CASE DeleteEntry(i)
  <2>1. SlotsMove /\ Kept'
    BY <1>3, DeleteEntryFacts
  <2>2. slot[i].sid \in Conversations
    BY <1>0, <1>3 DEF DeleteEntry, Typed, Session, Free
  <2>3. /\ inbox' \in [Nodes -> SUBSET (Close \cup Closing)]
        /\ \A m \in Nodes \ alive : inbox'[m] = inbox[m]
    BY <1>0, <1>3, <2>2, PublishedFacts, MessageTypes DEF DeleteEntry
  <2>4. UNCHANGED <<alive, clients, pipe, stopped, calls, failures>> /\ entries' \subseteq entries
    BY <1>3 DEF DeleteEntry
  <2>5. OthersOK'
    BY <1>0, <2>3, <2>4 DEF OthersOK
  <2> QED
    BY <1>0, <2>1, <2>4, <2>5, SlotsMoveType DEF ClusterInv
<1> QED
  BY <1>1, <1>2, <1>3 DEF StartLoop, EndLoop

(* Steps that close whatever session of a conversation a server has.       *)
LEMMA PopSteps ==
    ASSUME ClusterInv, NEW n \in Nodes, NEW s \in Conversations,
           CloseAnywhere(n, s) \/ CloseIdle(n, s) \/ ReceiveClose(n, s)
    PROVE  ClusterInv'
<1>0. ClusterTypeOK /\ OthersOK /\ Typed /\ Kept
  BY OthersStart DEF ClusterInv
<1>1. slot' = Popped(n, s) /\ UNCHANGED <<alive, entries, pipe, stopped, failures>>
  BY DEF CloseAnywhere, CloseIdle, ReceiveClose
<1>2. SlotsMove /\ Kept'
  BY <1>1, PopFacts
<1>3. OthersOK'
  <2>1. CASE CloseAnywhere(n, s)
    <3>1. /\ inbox' \in [Nodes -> SUBSET (Close \cup Closing)]
          /\ \A m \in Nodes \ alive : inbox'[m] = inbox[m]
      BY <1>0, <2>1, PublishedFacts, MessageTypes DEF CloseAnywhere
    <3>2. clients' = [clients EXCEPT ![n] = @ \ {s}] /\ calls' \in Nat
      BY <1>0, <2>1 DEF CloseAnywhere, Call, OthersOK
    <3> QED
      BY <1>0, <1>1, <3>1, <3>2 DEF OthersOK
  <2>2. CASE CloseIdle(n, s)
    BY <1>0, <1>1, <2>2 DEF CloseIdle, Call, OthersOK
  <2>3. CASE ReceiveClose(n, s)
    <3>1. /\ inbox' \in [Nodes -> SUBSET (Close \cup Closing)]
          /\ \A m \in Nodes : inbox'[m] \subseteq inbox[m]
      BY <1>0, <2>3 DEF ReceiveClose, OthersOK
    <3>2. /\ clients' \in [Nodes -> SUBSET Conversations]
          /\ \A m \in Nodes : clients'[m] \subseteq clients[m]
      BY <1>0, <2>3 DEF ReceiveClose, OthersOK
    <3>3. UNCHANGED calls
      BY <2>3 DEF ReceiveClose
    <3> QED
      BY <1>0, <1>1, <3>1, <3>2, <3>3 DEF OthersOK
  <2> QED
    BY <2>1, <2>2, <2>3
<1> QED
  BY <1>0, <1>1, <1>2, <1>3, SlotsMoveType DEF ClusterInv

(* An entry times out, a server vanishes.                                  *)
LEMMA ExpireStep ==
    ASSUME ClusterInv, NEW s \in Conversations, Expire(s)
    PROVE  ClusterInv'
<1>0. ClusterTypeOK /\ OthersOK /\ Typed /\ Kept
  BY OthersStart DEF ClusterInv
<1>1. /\ UNCHANGED <<alive, slot, clients, pipe, inbox, stopped, calls, failures>>
      /\ entries' = entries \ {s}
      /\ \A i \in Held : slot[i].sid # s
  BY DEF Expire, Held
<1>2. Held' = Held
  BY <1>1 DEF Held
<1>3. Kept'
  BY <1>0, <1>1, <1>2 DEF Kept
<1>4. OthersOK' /\ SlotsMove
  BY <1>0, <1>1 DEF OthersOK, SlotsMove, Typed
<1> QED
  BY <1>0, <1>1, <1>3, <1>4, SlotsMoveType DEF ClusterInv

LEMMA VanishStep ==
    ASSUME ClusterInv, NEW n \in Nodes, Vanish(n)
    PROVE  ClusterInv'
<1>0. ClusterTypeOK /\ OthersOK
  BY OthersStart DEF ClusterInv
<1>1. Typed' /\ Kept' /\ \A m \in Nodes \ alive' : \A i \in Slots : slot'[i].node # m
  BY VanishFacts
<1>2. /\ alive' = alive \ {n} /\ failures' = failures + 1
      /\ clients' = [clients EXCEPT ![n] = {}] /\ pipe' = [pipe EXCEPT ![n] = {}]
      /\ inbox' = [inbox EXCEPT ![n] = {}] /\ stopped' = [stopped EXCEPT ![n] = {}]
      /\ UNCHANGED <<entries, calls>>
  BY DEF Vanish
<1>3. OthersOK'
  BY <1>0, <1>2 DEF OthersOK
<1> QED
  BY <1>1, <1>3, OthersType DEF ClusterInv

LEMMA ClusterStart == ClusterInit => ClusterInv
<1> SUFFICES ASSUME ClusterInit PROVE ClusterInv
  OBVIOUS
<1>1. \A i \in Slots : slot[i] = Free /\ i \notin Held
  BY DEF ClusterInit, Held, Keeping, Free
<1>2. Kept
  BY <1>1 DEF Kept, Held
<1>3. ClusterTypeOK
  BY <1>1, ClusterAssumption DEF ClusterInit, ClusterTypeOK, Free
<1> QED
  BY <1>2, <1>3 DEF ClusterInv

LEMMA ClusterStep == ClusterInv /\ [ClusterNext]_clusterVars => ClusterInv'
<1> SUFFICES ASSUME ClusterInv, [ClusterNext]_clusterVars PROVE ClusterInv'
  OBVIOUS
<1>1. CASE \E n \in Nodes, s \in Conversations : JoinConversation(n, s) \/ Leave(n, s)
  BY <1>1, StartSteps, QuietSteps
<1>2. CASE \E i \in Slots : StartLoop(i) \/ EndLoop(i)
  BY <1>2, SessionSteps
<1>3. CASE \E n \in Nodes, s \in Conversations : CloseAnywhere(n, s) \/ CloseIdle(n, s) \/ HandleStopped(n, s)
  BY <1>3, PopSteps, StartSteps
<1>4. ASSUME NEW n \in Nodes,
             Receive(n) \/ LoseMessage(n) \/ DisconnectFromStopped(n) \/ Refresh(n)
      PROVE  ClusterInv'
  <2>1. CASE Receive(n)
    BY <2>1, PopSteps, QuietSteps DEF Receive
  <2>2. CASE LoseMessage(n) \/ DisconnectFromStopped(n) \/ Refresh(n)
    BY <2>2, QuietSteps DEF Refresh
  <2> QED
    BY <1>4, <2>1, <2>2
<1>5. CASE \E s \in Conversations : Expire(s)
  BY <1>5, ExpireStep
<1>6. ASSUME NEW n \in Nodes, Vanish(n) \/ Return(n)
      PROVE  ClusterInv'
  BY <1>6, VanishStep, QuietSteps
<1>7. CASE UNCHANGED clusterVars
  BY <1>7 DEF clusterVars, ClusterInv, ClusterTypeOK, Kept, Held, Local
<1> QED
  BY <1>1, <1>2, <1>3, <1>4, <1>5, <1>6, <1>7 DEF ClusterNext

LEMMA ClusterInvHolds == ClusterSpec => []ClusterInv
<1> QED
  BY ClusterStart, ClusterStep, PTL DEF ClusterSpec

(* Every value of every variable is of its type, and a server that is down *)
(* keeps nothing for its return.                                           *)
THEOREM ClusterTypes == ClusterSpec => []ClusterTypeOK
<1>1. ClusterInv => ClusterTypeOK
  BY DEF ClusterInv
<1> QED
  BY <1>1, ClusterInvHolds, PTL

(* One agent loop per conversation in the whole cluster, whoever joins,    *)
(* closes, vanishes and takes over (set(..., nx=True) and the places that  *)
(* delete the entry).                                                      *)
THEOREM ClusterOneLoop == ClusterSpec => []OneLoop
<1>1. ClusterInv => OneLoop
  BY DEF ClusterInv, Kept, Held, OneLoop, Serving, Keeping
<1> QED
  BY <1>1, ClusterInvHolds, PTL

(* The entry of a conversation is in Redis as long as it runs.             *)
THEOREM ClusterAnnounced == ClusterSpec => []Announced
<1>1. ClusterInv => Announced
  BY DEF ClusterInv, Kept, Held, Announced, Serving, Keeping
<1> QED
  BY <1>1, ClusterInvHolds, PTL
=============================================================================
