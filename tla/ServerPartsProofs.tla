-------------------------- MODULE ServerPartsProofs --------------------------
(***************************************************************************)
(* The small parts of the servers: attached conversations, the batches of  *)
(* mirrored file stores, tokens of identity providers; and that all parts  *)
(* have their types in ServersSpec.                                        *)
(***************************************************************************)
EXTENDS MCServers, BashSessionProofs, CondensingProofs, FiniteSetTheorems, TLAPS
-----------------------------------------------------------------------------
(***************************************************************************)
(* No request loses the conversation it is attached to: a theorem of       *)
(* AttachSpec for any number of requests, sessions and objects.            *)
(***************************************************************************)

AttachTypes ==
    /\ current \in Nat
    /\ activeConv \in Convs \cup {0} /\ detached \in Convs \cup {0}
    /\ conv \in [Convs -> [state : {"none", "connecting", "connected", "gone", "lost"},
                           stream : Nat, own : BOOLEAN]]
    /\ visit \in [Visits -> [pc : {"idle", "connecting", "using"}, conv : Convs \cup {0}]]
    /\ lockedBy \in Visits \cup {Nobody}

(***************************************************************************)
(* The reference count is the number of requests that use the active       *)
(* conversation, and they all use that one (Counted).  The active and the  *)
(* detached one are connected and different (Listed), and none is listed   *)
(* while a request connects one, with the lock (Connecting).               *)
(***************************************************************************)
Users == {v \in Visits : visit[v].pc = "using"}

Counted ==
    /\ IsFiniteSet(Users) /\ count = Cardinality(Users)
    /\ \A v \in Users : activeConv # 0 /\ visit[v].conv = activeConv

Listed ==
    /\ activeConv # 0 => conv[activeConv].state = "connected"
    /\ detached # 0 => conv[detached].state = "connected" /\ detached # activeConv

Connecting ==
    \A v \in Visits : visit[v].pc = "connecting" =>
        /\ lockedBy = v
        /\ visit[v].conv # 0
        /\ activeConv = 0 /\ detached = 0

AttachInv == AttachTypes /\ Counted /\ Listed /\ Connecting

LEMMA AttachStart ==
    AttachInit => AttachInv
<1> SUFFICES ASSUME AttachInit PROVE AttachInv
  OBVIOUS
<1>1. AttachTypes
  BY AttachAssumption DEF AttachInit, AttachTypes, NoConv, Nobody
<1>2. Users = {}
  BY DEF AttachInit, Users
<1>3. Counted
  BY <1>2, FS_EmptySet DEF AttachInit, Counted
<1> QED
  BY <1>1, <1>3 DEF AttachInit, AttachInv, Listed, Connecting

(* What a request's move does to the set of users.                         *)
LEMMA UsesFacts ==
    ASSUME AttachTypes, NEW v \in Visits, visit[v].pc # "using", NEW c \in Convs, Uses(v, c)
    PROVE  /\ visit' \in [Visits -> [pc : {"idle", "connecting", "using"}, conv : Convs \cup {0}]]
           /\ Users' = Users \cup {v} /\ v \notin Users
           /\ visit'[v].pc = "using" /\ visit'[v].conv = c
           /\ \A w \in Visits : w # v => visit'[w] = visit[w]
BY DEF AttachTypes, Uses, Users

LEMMA LeavesFacts ==
    ASSUME AttachTypes, NEW v \in Visits, Leaves(v)
    PROVE  /\ visit' \in [Visits -> [pc : {"idle", "connecting", "using"}, conv : Convs \cup {0}]]
           /\ Users' = Users \ {v}
           /\ visit'[v].pc = "idle"
           /\ \A w \in Visits : w # v => visit'[w] = visit[w]
BY DEF AttachTypes, Leaves, Users

(* While nobody has the lock no request connects.                          *)
LEMMA Unlocked ==
    ASSUME AttachInv, lockedBy = Nobody
    PROVE  \A v \in Visits : visit[v].pc # "connecting"
BY AttachAssumption DEF AttachInv, Connecting

(* One user when there was none.                                           *)
LEMMA FirstUser ==
    ASSUME AttachInv, activeConv = 0, NEW v \in Visits, NEW c \in Convs,
           visit[v].pc # "using", Uses(v, c), activeConv' = c, count' = 1
    PROVE  Counted'
<1>1. Users' = {v}
  BY UsesFacts DEF AttachInv, Counted
<1>2. IsFiniteSet({v}) /\ Cardinality({v}) = 1
  BY FS_Singleton
<1>3. visit'[v].conv = c /\ c # 0
  BY UsesFacts DEF AttachInv, Convs
<1> QED
  BY <1>1, <1>2, <1>3 DEF Counted

LEMMA ReuseActiveKeeps ==
    ASSUME AttachInv, NEW v \in Visits, ReuseActive(v)
    PROVE  AttachInv'
<1>1. /\ visit[v].pc = "idle" /\ activeConv \in Convs /\ count' = count + 1
      /\ Uses(v, activeConv)
      /\ UNCHANGED <<current, conv, activeConv, detached, lockedBy>>
  BY DEF ReuseActive, AttachInv, AttachTypes
<1>2. AttachTypes'
  BY <1>1, UsesFacts DEF AttachInv, AttachTypes
<1>3. Counted'
  <2>1. IsFiniteSet(Users \cup {v}) /\ Cardinality(Users \cup {v}) = Cardinality(Users) + 1
    <3>1. IsFiniteSet(Users) /\ v \notin Users
      BY <1>1 DEF AttachInv, Counted, Users
    <3> QED
      BY <3>1, FS_AddElement
  <2>2. \A w \in Users' : activeConv # 0 /\ visit'[w].conv = activeConv
    BY <1>1, UsesFacts DEF AttachInv, Counted, Users, Convs
  <2> QED
    BY <2>1, <2>2, <1>1, UsesFacts DEF AttachInv, Counted
<1>4. Connecting'
  <2>1. \A w \in Visits : visit'[w].pc # "connecting"
    BY <1>1, Unlocked, UsesFacts DEF AttachInv, ReuseActive
  <2> QED
    BY <2>1 DEF Connecting
<1> QED
  BY <1>1, <1>2, <1>3, <1>4 DEF AttachInv, Listed

LEMMA ReuseDetachedKeeps ==
    ASSUME AttachInv, NEW v \in Visits, ReuseDetached(v)
    PROVE  AttachInv'
<1>1. /\ visit[v].pc = "idle" /\ activeConv = 0 /\ detached \in Convs
      /\ activeConv' = detached /\ count' = 1 /\ detached' = 0
      /\ Uses(v, detached)
      /\ UNCHANGED <<current, conv, lockedBy>>
  BY DEF ReuseDetached, AttachInv, AttachTypes
<1>2. AttachTypes'
  BY <1>1, UsesFacts DEF AttachInv, AttachTypes
<1>3. Counted'
  BY <1>1, FirstUser
<1>4. Connecting'
  <2>1. \A w \in Visits : visit'[w].pc # "connecting"
    BY <1>1, Unlocked, UsesFacts DEF AttachInv, ReuseDetached
  <2> QED
    BY <2>1 DEF Connecting
<1>5. Listed'
  BY <1>1 DEF AttachInv, Listed, Convs
<1> QED
  BY <1>2, <1>3, <1>4, <1>5 DEF AttachInv

(* A new object: connected at once, or the request connects it with the    *)
(* lock held.                                                              *)
LEMMA NewConvKeeps ==
    ASSUME AttachInv, NEW v \in Visits, NewConv(v)
    PROVE  AttachInv'
<1>1. /\ visit[v].pc = "idle" /\ lockedBy = Nobody
      /\ activeConv = 0 /\ detached = 0 /\ detached' = 0 /\ current' = current
  BY DEF NewConv
<1>2. \A w \in Visits : visit[w].pc # "connecting"
  BY <1>1, Unlocked
<1> DEFINE Sharing(c) ==
              /\ conv' = [conv EXCEPT
                     ![c] = [state |-> "connected", stream |-> current, own |-> FALSE]]
              /\ activeConv' = c /\ count' = 1 /\ Uses(v, c) /\ lockedBy' = lockedBy
           Started(c) ==
              /\ conv' = [conv EXCEPT
                     ![c] = [state |-> "connecting", stream |-> current, own |-> TRUE]]
              /\ visit' = [visit EXCEPT ![v] = [pc |-> "connecting", conv |-> c]]
              /\ lockedBy' = v
              /\ UNCHANGED <<activeConv, count>>
<1>3. CASE \E c \in Convs : Sharing(c)
  <2>1. PICK c \in Convs :
              /\ conv' = [conv EXCEPT
                     ![c] = [state |-> "connected", stream |-> current, own |-> FALSE]]
              /\ activeConv' = c /\ count' = 1 /\ Uses(v, c) /\ lockedBy' = lockedBy
    BY <1>3
  <2>2. AttachTypes'
    BY <1>1, <2>1, UsesFacts DEF AttachInv, AttachTypes
  <2>3. Counted'
    BY <1>1, <2>1, FirstUser
  <2>4. Listed'
    BY <1>1, <2>1 DEF AttachInv, AttachTypes, Listed
  <2>5. \A w \in Visits : visit'[w].pc # "connecting"
    BY <1>1, <1>2, <2>1, UsesFacts DEF AttachInv
  <2> QED
    BY <2>2, <2>3, <2>4, <2>5 DEF AttachInv, Connecting
<1>4. CASE \E c \in Convs : Started(c)
  <2>1. PICK c \in Convs :
              /\ conv' = [conv EXCEPT
                     ![c] = [state |-> "connecting", stream |-> current, own |-> TRUE]]
              /\ visit' = [visit EXCEPT ![v] = [pc |-> "connecting", conv |-> c]]
              /\ lockedBy' = v
              /\ UNCHANGED <<activeConv, count>>
    BY <1>4
  <2>2. AttachTypes'
    BY <1>1, <2>1 DEF AttachInv, AttachTypes
  <2>3. Users' = Users
    BY <1>1, <2>1 DEF AttachInv, AttachTypes, Users
  <2>4. Counted'
    BY <1>1, <2>1, <2>3 DEF AttachInv, Counted
  <2>5. Listed'
    BY <1>1, <2>1 DEF Listed
  <2>6. visit'[v].conv = c /\ \A w \in Visits : w # v => visit'[w].pc # "connecting"
    BY <1>2, <2>1 DEF AttachInv, AttachTypes
  <2>7. Connecting'
    BY <1>1, <2>1, <2>6 DEF Connecting, Convs
  <2> QED
    BY <2>2, <2>4, <2>5, <2>7 DEF AttachInv
<1>5. PICK c \in Convs : Sharing(c) \/ Started(c)
  BY DEF NewConv
<1> HIDE DEF Sharing, Started
<1> QED
  BY <1>3, <1>4, <1>5

LEMMA ConnectOkKeeps ==
    ASSUME AttachInv, NEW v \in Visits, ConnectOk(v)
    PROVE  AttachInv'
<1> DEFINE c == visit[v].conv
<1>1. /\ visit[v].pc = "connecting" /\ c \in Convs /\ activeConv = 0 /\ detached = 0
      /\ conv' = [conv EXCEPT ![c].state = "connected"]
      /\ activeConv' = c /\ count' = 1 /\ Uses(v, c)
      /\ lockedBy' = Nobody /\ detached' = detached /\ current' = current
  BY DEF ConnectOk, AttachInv, AttachTypes, Connecting
<1>2. AttachTypes'
  BY <1>1, UsesFacts DEF AttachInv, AttachTypes
<1>3. Counted'
  BY <1>1, FirstUser
<1>4. Listed'
  BY <1>1 DEF AttachInv, AttachTypes, Listed
<1>5. \A w \in Visits : visit'[w].pc # "connecting"
  BY <1>1, UsesFacts DEF AttachInv, Connecting
<1> QED
  BY <1>2, <1>3, <1>4, <1>5 DEF AttachInv, Connecting

(* The attempt fails: nobody uses the object, and none is listed.          *)
LEMMA ConnectGivesUp ==
    ASSUME AttachInv, NEW v \in Visits, ConnectFails(v) \/ ConnectRaises(v)
    PROVE  AttachInv'
<1>1. /\ visit[v].pc = "connecting" /\ Leaves(v) /\ lockedBy' = Nobody
      /\ UNCHANGED <<current, activeConv, count, detached>>
  BY DEF ConnectFails, ConnectRaises
<1>2. activeConv = 0 /\ detached = 0 /\ v \notin Users
  BY <1>1 DEF AttachInv, Connecting, Users
<1>3. PICK x \in {"gone", "lost"} : conv' = [conv EXCEPT ![visit[v].conv].state = x]
  BY DEF ConnectFails, ConnectRaises, DisconnectConv
<1>4. visit[v].conv \in Convs
  BY <1>1 DEF AttachInv, AttachTypes, Connecting
<1>5. AttachTypes'
  BY <1>1, <1>3, <1>4, LeavesFacts DEF AttachInv, AttachTypes
<1>6. Users' = Users
  BY <1>1, <1>2, LeavesFacts DEF AttachInv
<1>7. Counted'
  BY <1>1, <1>2, <1>6 DEF AttachInv, Counted
<1>8. \A w \in Visits : visit'[w].pc # "connecting"
  BY <1>1, LeavesFacts DEF AttachInv, Connecting
<1> QED
  BY <1>1, <1>2, <1>5, <1>7, <1>8 DEF AttachInv, Listed, Connecting

(* The last one that leaves leaves it without users: only then is it       *)
(* listed for the clean-up.                                                *)
LEMMA DetachKeeps ==
    ASSUME AttachInv, NEW v \in Visits, Detach(v)
    PROVE  AttachInv'
<1>1. /\ visit[v].pc = "using" /\ Leaves(v) /\ UNCHANGED <<current, conv, lockedBy>>
      /\ lockedBy = Nobody
  BY DEF Detach
<1>2. /\ v \in Users /\ activeConv # 0 /\ visit[v].conv = activeConv
  BY <1>1 DEF AttachInv, Counted, Users
<1>3. /\ Users' = Users \ {v}
      /\ IsFiniteSet(Users') /\ Cardinality(Users') = count - 1
      /\ \A w \in Users' : visit'[w] = visit[w]
  <2>1. IsFiniteSet(Users) /\ count = Cardinality(Users)
    BY DEF AttachInv, Counted
  <2>2. IsFiniteSet(Users \ {v}) /\ Cardinality(Users \ {v}) = count - 1
    BY <1>2, <2>1, FS_RemoveElement
  <2>3. Users' = Users \ {v} /\ \A w \in Visits : w # v => visit'[w] = visit[w]
    BY <1>1, LeavesFacts DEF AttachInv
  <2> QED
    BY <2>2, <2>3 DEF Users
<1>4. \A w \in Visits : visit'[w].pc # "connecting"
  BY <1>1, Unlocked, LeavesFacts DEF AttachInv
<1>5. CASE count > 1 /\ count' = count - 1 /\ UNCHANGED <<activeConv, detached>>
  <2>1. AttachTypes'
    BY <1>1, <1>5, LeavesFacts DEF AttachInv, AttachTypes
  <2>2. Counted'
    BY <1>3, <1>5 DEF AttachInv, Counted
  <2> QED
    BY <1>1, <1>4, <1>5, <2>1, <2>2 DEF AttachInv, Listed, Connecting
<1>6. CASE count = 1 /\ count' = 0 /\ activeConv' = 0 /\ detached' = visit[v].conv
  <2>1. AttachTypes'
    BY <1>1, <1>6, LeavesFacts DEF AttachInv, AttachTypes
  <2>2. Users' = {}
    BY <1>3, <1>6, FS_EmptySet
  <2>3. Counted'
    BY <1>3, <1>6, <2>2 DEF Counted
  <2>4. Listed'
    BY <1>1, <1>2, <1>6 DEF AttachInv, Listed
  <2> QED
    BY <1>4, <2>1, <2>3, <2>4 DEF AttachInv, Connecting
<1> QED
  BY <1>5, <1>6 DEF Detach

(* The clean-up disconnects what is detached, and so has no users.         *)
LEMMA CleanupKeeps ==
    ASSUME AttachInv, CleanupDetached
    PROVE  AttachInv'
<1>1. /\ detached \in Convs /\ detached # activeConv /\ detached' = 0 /\ lockedBy = Nobody
      /\ conv' = [conv EXCEPT ![detached].state = "gone"]
      /\ UNCHANGED <<current, activeConv, count, visit, lockedBy>>
  BY DEF CleanupDetached, DisconnectConv, AttachInv, AttachTypes, Listed
<1>2. AttachTypes'
  BY <1>1 DEF AttachInv, AttachTypes
<1>3. Counted'
  BY <1>1 DEF AttachInv, Counted, Users
<1>4. Listed'
  BY <1>1 DEF AttachInv, AttachTypes, Listed
<1>5. Connecting'
  BY <1>1, Unlocked DEF Connecting
<1> QED
  BY <1>2, <1>3, <1>4, <1>5 DEF AttachInv

(* Sessions begin and end without touching the objects.                    *)
LEMMA SessionKeeps ==
    ASSUME AttachInv,
           \/ SessionMade
           \/ \E i \in Sessions : SessionRuntime(i) \/ SessionClosed(i)
           \/ UNCHANGED attachVars
    PROVE  AttachInv'
<1>1. UNCHANGED <<conv, activeConv, count, detached, visit, lockedBy>> /\ current' \in Nat
  BY AttachAssumption
     DEF SessionMade, SessionRuntime, SessionClosed, attachVars, manager, Sessions,
         AttachInv, AttachTypes
<1> QED
  BY <1>1 DEF AttachInv, AttachTypes, Counted, Users, Listed, Connecting

LEMMA AttachStep == AttachInv /\ [AttachNext]_attachVars => AttachInv'
BY ReuseActiveKeeps, ReuseDetachedKeeps, NewConvKeeps, ConnectOkKeeps, ConnectGivesUp,
   DetachKeeps, CleanupKeeps, SessionKeeps DEF AttachNext, ConnectEnds

(* No conversation is disconnected, by the clean-up or by other requests   *)
(* that fail or leave, while a request uses it.                            *)
THEOREM UserKeepsConversation == AttachSpec => []UsedStaysConnected
<1>1. AttachInv => UsedStaysConnected
  BY DEF AttachInv, Counted, Users, Listed, UsedStaysConnected
<1> QED
  BY <1>1, AttachStart, AttachStep, PTL DEF AttachSpec

(* Sessions, and the streams that objects were made with.                  *)
SessionTypes ==
    /\ current \in 0..MaxSessions /\ streams \subseteq Sessions
    /\ phase \in [Sessions -> {"none", "starting", "up", "failed"}]
    /\ subscribed \in [Sessions -> {"nobody", "session", "attached"}]
    /\ \A c \in Convs : conv[c].stream \in 0..MaxSessions

LEMMA SessionTypesStart == AttachInit => SessionTypes
BY AttachAssumption DEF AttachInit, SessionTypes, Sessions, Convs, NoConv

(* An object keeps the stream it was made with.                            *)
LEMMA StreamsStay ==
    ASSUME AttachInv, SessionTypes, NEW d, NEW x, conv' = [conv EXCEPT ![d].state = x]
    PROVE  \A c \in Convs : conv'[c].stream \in 0..MaxSessions
BY DEF AttachInv, AttachTypes, SessionTypes

LEMMA SessionTypesStep ==
    AttachInv /\ SessionTypes /\ [AttachNext]_attachVars => SessionTypes'
<1> SUFFICES ASSUME AttachInv, SessionTypes, [AttachNext]_attachVars PROVE SessionTypes'
  OBVIOUS
<1>1. /\ current \in 0..MaxSessions /\ streams \subseteq Sessions
      /\ phase \in [Sessions -> {"none", "starting", "up", "failed"}]
      /\ subscribed \in [Sessions -> {"nobody", "session", "attached"}]
      /\ \A c \in Convs : conv[c].stream \in 0..MaxSessions
      /\ DOMAIN conv = Convs
      /\ Sessions \subseteq 0..MaxSessions /\ 0 \in 0..MaxSessions
  BY AttachAssumption DEF SessionTypes, AttachInv, AttachTypes, Sessions
<1>2. CASE SessionMade
  BY <1>1, <1>2 DEF SessionMade, SessionTypes
<1>3. ASSUME NEW i \in Sessions, SessionRuntime(i) \/ SessionClosed(i)
      PROVE  SessionTypes'
  BY <1>1, <1>3 DEF SessionRuntime, SessionClosed, SessionTypes
<1>4. ASSUME NEW v \in Visits, NewConv(v)
      PROVE  SessionTypes'
  <2>1. PICK c \in Convs :
           /\ \/ /\ conv' = [conv EXCEPT
                        ![c] = [state |-> "connected", stream |-> current, own |-> FALSE]]
                 /\ subscribed' = subscribed
              \/ /\ conv' = [conv EXCEPT
                        ![c] = [state |-> "connecting", stream |-> current, own |-> TRUE]]
                 /\ subscribed' = [i \in Sessions |->
                                      IF i = current THEN "attached" ELSE subscribed[i]]
    BY <1>4 DEF NewConv
  <2>2. UNCHANGED <<current, phase, streams>>
    BY <1>4 DEF NewConv
  <2>3. \A d \in Convs : conv'[d].stream \in 0..MaxSessions
    BY <1>1, <2>1
  <2>4. subscribed' \in [Sessions -> {"nobody", "session", "attached"}]
    BY <1>1, <2>1
  <2> QED
    BY <1>1, <2>2, <2>3, <2>4 DEF SessionTypes
<1>5. ASSUME NEW d, DisconnectConv(d), UNCHANGED <<current, phase>>
      PROVE  SessionTypes'
  <2>1. \A c \in Convs : conv'[c].stream \in 0..MaxSessions
    BY <1>5, StreamsStay DEF DisconnectConv
  <2>2. streams' \subseteq Sessions
    BY <1>1, <1>5 DEF DisconnectConv
  <2>3. subscribed' \in [Sessions -> {"nobody", "session", "attached"}]
    BY <1>1, <1>5 DEF DisconnectConv
  <2> QED
    BY <1>1, <1>5, <2>1, <2>2, <2>3 DEF SessionTypes
<1>6. ASSUME NEW v \in Visits, ConnectEnds(v)
      PROVE  SessionTypes'
  <2>1. CASE ConnectFails(v)
    BY <1>5, <2>1 DEF ConnectFails
  <2>2. CASE ConnectOk(v) \/ ConnectRaises(v)
    <3>1. \A c \in Convs : conv'[c].stream \in 0..MaxSessions
      BY <2>2, StreamsStay DEF ConnectOk, ConnectRaises
    <3> QED
      BY <1>1, <2>2, <3>1 DEF ConnectOk, ConnectRaises, SessionTypes
  <2> QED
    BY <1>6, <2>1, <2>2 DEF ConnectEnds
<1>7. CASE CleanupDetached
  BY <1>5, <1>7 DEF CleanupDetached
<1>8. ASSUME NEW v \in Visits, ReuseActive(v) \/ ReuseDetached(v) \/ Detach(v)
      PROVE  SessionTypes'
  BY <1>1, <1>8 DEF ReuseActive, ReuseDetached, Detach, SessionTypes
<1>9. CASE UNCHANGED attachVars
  BY <1>1, <1>9 DEF attachVars, SessionTypes
<1> QED
  BY <1>2, <1>3, <1>4, <1>6, <1>7, <1>8, <1>9 DEF AttachNext

LEMMA AttachTypesFollow == AttachInv /\ SessionTypes => AttachTypeOK
<1> SUFFICES ASSUME AttachInv, SessionTypes PROVE AttachTypeOK
  OBVIOUS
<1>1. Convs \cup {0} = 0..MaxConvs
  BY AttachAssumption DEF Convs
<1>2. visit \in [Visits -> [pc : {"idle", "connecting", "using"}, conv : 0..MaxConvs]]
  BY <1>1 DEF AttachInv, AttachTypes
<1>3. conv \in [Convs -> [state : {"none", "connecting", "connected", "gone", "lost"},
                         stream : 0..MaxSessions, own : BOOLEAN]]
  <2> SUFFICES ASSUME NEW c \in Convs
               PROVE  conv[c] \in [state : {"none", "connecting", "connected", "gone", "lost"},
                                   stream : 0..MaxSessions, own : BOOLEAN]
    BY DEF AttachInv, AttachTypes
  <2> QED
    BY DEF AttachInv, AttachTypes, SessionTypes
<1>4. /\ count = Cardinality({v \in Visits : visit[v].pc = "using"})
      /\ \A v \in Visits : visit[v].pc = "using" => visit[v].conv = activeConv
  BY DEF AttachInv, Counted, Users
<1> QED
  BY <1>2, <1>3, <1>4 DEF AttachInv, AttachTypes, SessionTypes, AttachTypeOK
-----------------------------------------------------------------------------
(***************************************************************************)
(* No change stays in the batch of a mirrored file store with nobody to    *)
(* send it, and none gets lost on the way: theorems of HookSpec for any    *)
(* threads, paths, sizes and numbers of changes and flushes.               *)
(***************************************************************************)

(***************************************************************************)
(* flush() cancels the timer at its end, when it has long taken the batch. *)
(* That this strands nothing depends on the lock it holds meanwhile: the   *)
(* batch stays empty.  And a timer thread that was counted is waiting.     *)
(***************************************************************************)
StrandInv ==
    /\ fired \in Nat
    /\ flushing => batch = EmptyBatch
    /\ NeverStranded

LEMMA StrandInit ==
    HookInit => StrandInv
BY DEF HookInit, StrandInv, NeverStranded

(* A change is queued: the timer starts anew, or the batch goes at once.   *)
LEMMA QueueKeeps ==
    ASSUME StrandInv, NEW w \in Writers, QueueUpdate(w)
    PROVE  StrandInv'
<1>1. fired' = fired /\ flushing' = flushing /\ ~flushing
  BY DEF QueueUpdate
<1>2. batch' = EmptyBatch \/ timer' = "armed"
  BY DEF QueueUpdate
<1>3. NeverStranded'
  BY <1>2 DEF NeverStranded, EmptyBatch, Nothing
<1> QED
  BY <1>1, <1>3 DEF StrandInv

(* Timers fire, as late as they like, and whoever sends leaves an empty    *)
(* batch behind.                                                           *)
LEMMA TimerKeeps ==
    ASSUME StrandInv, TimerFires
    PROVE  StrandInv'
<1>1. fired' \in Nat /\ fired' > 0 /\ batch' = batch /\ flushing' = flushing
  BY DEF TimerFires, StrandInv
<1> QED
  BY <1>1 DEF StrandInv, NeverStranded, EmptyBatch, Nothing

LEMMA BatchKeeps ==
    ASSUME StrandInv, EnqueueFromTimer \/ Flush
    PROVE  StrandInv'
<1>1. fired' \in Nat
  BY DEF StrandInv, EnqueueFromTimer, Flush
<1>2. batch' = EmptyBatch
  BY DEF EnqueueFromTimer, Flush
<1> QED
  BY <1>1, <1>2 DEF StrandInv, NeverStranded, EmptyBatch, Nothing

(* At the end of flush() the batch is still empty.                         *)
LEMMA FlushEndKeeps ==
    ASSUME StrandInv, FlushEnds
    PROVE  StrandInv'
<1>1. batch' = EmptyBatch /\ fired' = fired
  BY DEF FlushEnds, StrandInv, EmptyBatch, Nothing
<1> QED
  BY <1>1 DEF StrandInv, NeverStranded, EmptyBatch, Nothing

(* Writing files and sending batches touches neither batch nor timers.     *)
LEMMA OthersKeep ==
    ASSUME StrandInv,
           \/ \E w \in Writers, p \in Paths, z \in Sizes \cup {Deleted} : ChangeFile(w, p, z)
           \/ Post
           \/ UNCHANGED hookVars
    PROVE  StrandInv'
<1>1. UNCHANGED <<batch, timer, fired, flushing>>
  BY DEF ChangeFile, Post, Delivered, AttemptFails, hookVars
<1> QED
  BY <1>1 DEF StrandInv, NeverStranded, EmptyBatch, Nothing

(* Changes in the batch are never stranded, whichever timers are cancelled *)
(* too late and however flushes and writers interleave.                    *)
THEOREM NothingIsStranded == HookSpec => []NeverStranded
<1>1. HookInit => StrandInv
  BY StrandInit
<1>2. StrandInv /\ [HookNext]_hookVars => StrandInv'
  BY QueueKeeps, TimerKeeps, BatchKeeps, FlushEndKeeps, OthersKeep DEF HookNext
<1>3. StrandInv => NeverStranded
  BY DEF StrandInv
<1> QED
  BY <1>1, <1>2, <1>3, PTL DEF HookSpec
-----------------------------------------------------------------------------
(***************************************************************************)
(* Where the last change of a path is.  A path that is not settled has had *)
(* a change queued, and so is told from one that is not in the batch.      *)
(***************************************************************************)
Queued == [path : Paths, no : Nat \ {0}, size : Sizes \cup {Deleted}]
Batch == [Paths -> Queued \cup {Nothing}]

HookTypes ==
    /\ changes \in Nat
    /\ writer \in [Writers -> Queued \cup {Nothing}]
    /\ batch \in Batch
    /\ jobs \subseteq [batch : Batch, by : {"executor", "flush"}, attempt : Nat]
    /\ queuedLast \in [Paths -> Nat]

Unsettled == \A p \in Paths \ settled : queuedLast[p] # 0

DropInv == HookTypes /\ Unsettled /\ NothingDropped

LEMMA NothingIsNoChange ==
    Nothing \notin Queued /\ Nothing.no = 0
BY DEF Nothing, Queued

LEMMA DropInit ==
    HookInit => DropInv
<1> SUFFICES ASSUME HookInit PROVE DropInv
  OBVIOUS
<1>1. HookTypes
  BY DEF HookInit, HookTypes, EmptyBatch, Batch
<1>2. settled = Paths
  BY DEF HookInit
<1> QED
  BY <1>1, <1>2 DEF DropInv, Unsettled, NothingDropped

(* What is submitted contains what was in the batch, if that was anything. *)
LEMMA SubmittedHolds ==
    ASSUME DropInv, NEW b \in Batch, NEW by \in {"executor", "flush"}
    PROVE  /\ Submitted(b, by) \subseteq
                 [batch : Batch, by : {"executor", "flush"}, attempt : Nat]
           /\ jobs \subseteq Submitted(b, by)
           /\ \A p \in Paths : b[p].no # 0 =>
                 \E j \in Submitted(b, by) : j.batch = b
<1>1. /\ Job(b, by) \in [batch : Batch, by : {"executor", "flush"}, attempt : Nat]
      /\ Job(b, by).batch = b
  BY DEF Job
<1>2. CASE b = EmptyBatch
  BY <1>2 DEF Submitted, EmptyBatch, Nothing, DropInv, HookTypes
<1>3. CASE b # EmptyBatch
  BY <1>1, <1>3 DEF Submitted, DropInv, HookTypes
<1> QED
  BY <1>2, <1>3

(* A change is made: it is the writer's to queue.                          *)
LEMMA ChangeDrops ==
    ASSUME DropInv, NEW w \in Writers, NEW p \in Paths, NEW z \in Sizes \cup {Deleted},
           ChangeFile(w, p, z)
    PROVE  DropInv'
<1>1. UNCHANGED <<batch, jobs, queuedLast, settled>>
  BY DEF ChangeFile
<1>2. changes' \in Nat /\ changes' # 0 /\ changes' = changes + 1
  BY DEF ChangeFile, DropInv, HookTypes
<1>3. Change(p, changes', z) \in Queued
  BY <1>2 DEF Change, Queued
<1>4. writer' = [writer EXCEPT ![w] = Change(p, changes', z)]
  BY <1>2 DEF ChangeFile
<1>5. HookTypes'
  BY <1>1, <1>2, <1>3, <1>4 DEF DropInv, HookTypes
<1> QED
  BY <1>1, <1>5 DEF DropInv, Unsettled, NothingDropped

(* It is queued: it is in the batch, or that goes with all it holds.       *)
LEMMA QueueDrops ==
    ASSUME DropInv, NEW w \in Writers, QueueUpdate(w)
    PROVE  DropInv'
<1> DEFINE c == writer[w]
           b == [batch EXCEPT ![c.path] = c]
<1>1. c \in Queued /\ c.path \in Paths /\ c.no \in Nat /\ c.no # 0
  BY DEF QueueUpdate, DropInv, HookTypes, Queued
<1>2. b \in Batch /\ b[c.path] = c /\ \A p \in Paths : p # c.path => b[p] = batch[p]
  BY <1>1 DEF DropInv, HookTypes, Batch
<1>3. /\ queuedLast' = [queuedLast EXCEPT ![c.path] = c.no]
      /\ settled' = settled \ {c.path}
      /\ writer' = [writer EXCEPT ![w] = Nothing]
      /\ changes' = changes
  BY DEF QueueUpdate
<1>4. \/ jobs' = Submitted(b, "executor") /\ batch' = EmptyBatch
      \/ jobs' = jobs /\ batch' = b
  BY DEF QueueUpdate
<1>5. /\ queuedLast' \in [Paths -> Nat] /\ queuedLast'[c.path] = c.no
      /\ \A p \in Paths : p # c.path => queuedLast'[p] = queuedLast[p]
  BY <1>1, <1>3 DEF DropInv, HookTypes
<1>6. Unsettled'
  BY <1>1, <1>3, <1>5 DEF DropInv, Unsettled
<1>7. EmptyBatch \in Batch
  BY DEF EmptyBatch, Batch
<1>8. HookTypes'
  <2>1. writer' \in [Writers -> Queued \cup {Nothing}] /\ changes' \in Nat
    BY <1>3 DEF DropInv, HookTypes
  <2>2. jobs' \subseteq [batch : Batch, by : {"executor", "flush"}, attempt : Nat]
    BY <1>2, <1>4, SubmittedHolds DEF DropInv, HookTypes
  <2>3. batch' \in Batch
    BY <1>2, <1>4, <1>7
  <2> QED
    BY <2>1, <2>2, <2>3, <1>5 DEF HookTypes
<1>9. ASSUME NEW p \in Paths \ settled'
      PROVE  batch'[p].no = queuedLast'[p] \/ \E j \in jobs' : j.batch[p].no = queuedLast'[p]
  <2>1. jobs \subseteq jobs'
    BY <1>2, <1>4, SubmittedHolds
  <2>2. CASE \E j \in jobs : p # c.path /\ j.batch[p].no = queuedLast[p]
    BY <2>1, <2>2, <1>5
  <2>3. CASE ~ \E j \in jobs : p # c.path /\ j.batch[p].no = queuedLast[p]
    <3>1. b[p].no = queuedLast'[p]
      <4>1. CASE p = c.path
        BY <4>1, <1>2, <1>5
      <4>2. CASE p # c.path
        BY <4>2, <2>3, <1>2, <1>3, <1>5 DEF DropInv, NothingDropped
      <4> QED
        BY <4>1, <4>2
    <3>2. b[p].no # 0
      BY <3>1, <1>6 DEF Unsettled
    <3>3. CASE batch' = b
      BY <3>1, <3>3
    <3>4. CASE jobs' = Submitted(b, "executor")
      <4>1. PICK i \in Submitted(b, "executor") : i.batch = b
        BY <3>2, <1>2, SubmittedHolds
      <4> QED
        BY <4>1, <3>1, <3>4
    <3> HIDE DEF b
    <3> QED
      BY <3>3, <3>4, <1>4
  <2> QED
    BY <2>2, <2>3
<1> QED
  BY <1>6, <1>8, <1>9 DEF DropInv, NothingDropped

(* The batch goes, by a timer or by flush().                               *)
LEMMA SendDrops ==
    ASSUME DropInv, EnqueueFromTimer \/ Flush
    PROVE  DropInv'
<1>1. batch' = EmptyBatch /\ UNCHANGED <<changes, writer, queuedLast, settled>>
  BY DEF EnqueueFromTimer, Flush
<1>2. PICK by \in {"executor", "flush"} : jobs' = Submitted(batch, by)
  BY DEF EnqueueFromTimer, Flush
<1>3. batch \in Batch /\ EmptyBatch \in Batch
  BY DEF DropInv, HookTypes, EmptyBatch, Batch
<1>4. /\ jobs' \subseteq [batch : Batch, by : {"executor", "flush"}, attempt : Nat]
      /\ jobs \subseteq jobs'
      /\ \A p \in Paths : batch[p].no # 0 => \E j \in jobs' : j.batch = batch
  BY <1>2, <1>3, SubmittedHolds
<1>5. HookTypes'
  BY <1>1, <1>3, <1>4 DEF DropInv, HookTypes
<1>6. ASSUME NEW p \in Paths \ settled
      PROVE  \E j \in jobs' : j.batch[p].no = queuedLast[p]
  BY <1>4 DEF DropInv, Unsettled, NothingDropped
<1> QED
  BY <1>1, <1>5, <1>6 DEF DropInv, Unsettled, NothingDropped

(* A batch is delivered, or its attempt fails and it is tried again or     *)
(* given up: what it held is settled or still with it.                     *)
LEMMA PostDrops ==
    ASSUME DropInv, NEW j \in jobs, Delivered(j) \/ AttemptFails(j)
    PROVE  DropInv'
<1> DEFINE k == [j EXCEPT !.attempt = @ + 1]
<1>1. UNCHANGED <<changes, writer, batch, queuedLast>>
  BY DEF Delivered, AttemptFails
<1>2. /\ j.batch \in Batch
      /\ k \in [batch : Batch, by : {"executor", "flush"}, attempt : Nat]
      /\ k.batch = j.batch
  BY DEF DropInv, HookTypes
<1>3. \/ jobs' = jobs \ {j} /\ settled' = Settled(j.batch)
      \/ jobs' = (jobs \ {j}) \cup {k} /\ settled' = settled
  BY DEF Delivered, AttemptFails
<1>4. HookTypes'
  BY <1>1, <1>2, <1>3 DEF DropInv, HookTypes
<1>5. settled \subseteq settled'
  BY <1>3 DEF Settled
<1>6. Unsettled'
  BY <1>1, <1>5 DEF DropInv, Unsettled
<1>7. ASSUME NEW p \in Paths \ settled', j.batch[p].no = queuedLast[p]
      PROVE  \E i \in jobs' : i.batch[p].no = queuedLast[p]
  <2>1. queuedLast[p] # 0
    BY <1>5 DEF DropInv, Unsettled
  <2>2. p \in Settled(j.batch)
    BY <2>1, <1>7, NothingIsNoChange DEF Settled
  <2> QED
    BY <2>2, <1>2, <1>3, <1>7
<1>8. NothingDropped'
  BY <1>1, <1>3, <1>5, <1>7 DEF DropInv, NothingDropped
<1> QED
  BY <1>4, <1>6, <1>8 DEF DropInv

LEMMA DropStep == DropInv /\ [HookNext]_hookVars => DropInv'
<1>1. ASSUME DropInv, TimerFires \/ FlushEnds \/ UNCHANGED hookVars
      PROVE  DropInv'
  <2>1. UNCHANGED <<changes, writer, batch, jobs, queuedLast, settled>>
    BY <1>1 DEF TimerFires, FlushEnds, hookVars
  <2> QED
    BY <2>1, <1>1 DEF DropInv, HookTypes, Unsettled, NothingDropped
<1> QED
  BY <1>1, ChangeDrops, QueueDrops, SendDrops, PostDrops DEF HookNext, Post

(* The last change queued for a path is in the batch, with a batch that is *)
(* being sent, at the hook or given up, however changes, timers, flushes   *)
(* and failed attempts interleave.                                         *)
THEOREM NothingIsDropped == HookSpec => []NothingDropped
<1>1. DropInv => NothingDropped
  BY DEF DropInv
<1> QED
  BY <1>1, DropInit, DropStep, PTL DEF HookSpec

(***************************************************************************)
(* The size that is kept with the batch, changed by each change that is    *)
(* queued, stays the size of what is in it.                                *)
(***************************************************************************)
SizeInv == DropInv /\ HookTypeOK /\ IsFiniteSet(Bytes)

Of(p, n) == {p} \X (1..n)

LEMMA OfSize ==
    ASSUME NEW p, NEW n \in Nat
    PROVE  IsFiniteSet(Of(p, n)) /\ Cardinality(Of(p, n)) = n
<1>1. IsFiniteSet({p}) /\ Cardinality({p}) = 1
  BY FS_Singleton
<1>2. IsFiniteSet(1..n) /\ Cardinality(1..n) = n
  BY FS_Interval
<1> DEFINE I == 1..n
<1> HIDE DEF I
<1>3. IsFiniteSet({p} \X I) /\ Cardinality({p} \X I) = Cardinality({p}) * Cardinality(I)
  BY <1>1, <1>2, FS_Product DEF I
<1>4. Cardinality({p}) * Cardinality(I) = n
  BY <1>1, <1>2 DEF I
<1> QED
  BY <1>3, <1>4 DEF Of, I

LEMMA NoBytes ==
    ASSUME batch = EmptyBatch
    PROVE  Bytes = {}
<1>1. \A p \in Paths : batch[p].size = 0
  BY DEF EmptyBatch, Nothing
<1>2. 1..0 = {}
  OBVIOUS
<1> QED
  BY <1>1, <1>2 DEF Bytes

LEMMA ChangeBytes ==
    ASSUME IsFiniteSet(Bytes), NEW p \in Paths, NEW c, c.size \in Nat, batch[p].size \in Nat,
           batch \in [Paths -> Queued \cup {Nothing}], batch' = [batch EXCEPT ![p] = c]
    PROVE  /\ IsFiniteSet(Bytes')
           /\ Cardinality(Bytes') = Cardinality(Bytes) - batch[p].size + c.size
<1> DEFINE R == UNION {Of(q, batch[q].size) : q \in Paths \ {p}}
           A == Of(p, batch[p].size)
           N == Of(p, c.size)
<1>1. batch'[p] = c /\ \A q \in Paths \ {p} : batch'[q] = batch[q]
  OBVIOUS
<1>2. Bytes = R \cup A /\ Bytes' = R \cup N
  BY <1>1 DEF Bytes, Of
<1>3. R \cap A = {} /\ R \cap N = {}
  BY DEF Of
<1>4. /\ IsFiniteSet(A) /\ Cardinality(A) = batch[p].size
      /\ IsFiniteSet(N) /\ Cardinality(N) = c.size
  BY OfSize
<1> HIDE DEF R, A, N
<1>5. IsFiniteSet(R)
  BY <1>2, FS_Subset
<1>6. Cardinality(R) \in Nat /\ Cardinality({}) = 0
  BY <1>5, FS_CardinalityType, FS_EmptySet
<1>7. Cardinality(Bytes) = Cardinality(R) + batch[p].size
  BY <1>2, <1>3, <1>4, <1>5, <1>6, FS_Union
<1>8. IsFiniteSet(R \cup N) /\ Cardinality(R \cup N) = Cardinality(R) + c.size
  <2>1. /\ IsFiniteSet(R \cup N)
        /\ Cardinality(R \cup N) = Cardinality(R) + Cardinality(N) - Cardinality(R \cap N)
    BY <1>4, <1>5, FS_Union
  <2>2. Cardinality(R \cap N) = 0 /\ Cardinality(N) \in Nat
    BY <1>3, <1>4, <1>6
  <2>3. Cardinality(R) + Cardinality(N) - Cardinality(R \cap N) = Cardinality(R) + Cardinality(N)
    BY <1>6, <2>2
  <2> QED
    BY <1>4, <2>1, <2>3
<1> QED
  BY <1>2, <1>6, <1>7, <1>8

LEMMA SizeStart == HookInit => SizeInv
<1> SUFFICES ASSUME HookInit PROVE SizeInv
  OBVIOUS
<1>1. Bytes = {} /\ Cardinality({}) = 0 /\ IsFiniteSet({})
  BY NoBytes, FS_EmptySet DEF HookInit
<1>2. \A p \in Paths : batch[p] = Nothing
  BY DEF HookInit, EmptyBatch
<1>3. /\ changes = 0 /\ flushes = 0 /\ fired = 0 /\ timer = "none" /\ flushing = FALSE
      /\ batch = EmptyBatch /\ batchSize = 0 /\ jobs = {}
      /\ 0 \in 0..MaxChanges /\ 0 \in 0..MaxFlushes
  BY HookAssumption DEF HookInit
<1>4. HookTypeOK /\ IsFiniteSet(Bytes)
  BY <1>1, <1>2, <1>3 DEF HookTypeOK
<1> QED
  BY <1>4, DropInit DEF SizeInv

(* The batch, its size and the jobs are as they were.                      *)
LEMMA SizeStays ==
    ASSUME SizeInv, DropInv', UNCHANGED <<batch, batchSize>>,
           changes' \in 0..MaxChanges, flushes' \in 0..MaxFlushes, fired' \in Nat,
           timer' \in {"none", "armed", "fired"}, flushing' \in BOOLEAN,
           \A j \in jobs' : j.attempt \in 1..Attempts /\ j.batch # EmptyBatch
    PROVE  SizeInv'
BY DEF SizeInv, HookTypeOK, Bytes

LEMMA JobsStay ==
    ASSUME SizeInv, NEW b, NEW by
    PROVE  \A j \in Submitted(b, by) : j.attempt \in 1..Attempts /\ j.batch # EmptyBatch
<1>1. \A j \in jobs : j.attempt \in 1..Attempts /\ j.batch # EmptyBatch
  BY DEF SizeInv, HookTypeOK
<1>2. Job(b, by).attempt \in 1..Attempts /\ Job(b, by).batch = b
  BY DEF Job, Attempts
<1> QED
  BY <1>1, <1>2 DEF Submitted

(* The batch goes.                                                         *)
LEMMA SizeCleared ==
    ASSUME SizeInv, DropInv', batch' = EmptyBatch, batchSize' = 0,
           changes' = changes, flushes' \in 0..MaxFlushes, fired' \in Nat,
           timer' \in {"none", "armed", "fired"}, flushing' \in BOOLEAN,
           \A j \in jobs' : j.attempt \in 1..Attempts /\ j.batch # EmptyBatch
    PROVE  SizeInv'
<1>1. \A p \in Paths : batch'[p] = Nothing
  BY DEF EmptyBatch
<1>2. Bytes' = {}
  <2>1. \A p \in Paths : batch'[p].size = 0
    BY <1>1 DEF Nothing
  <2>2. 1..0 = {}
    OBVIOUS
  <2> QED
    BY <2>1, <2>2 DEF Bytes
<1>3. Cardinality({}) = 0 /\ IsFiniteSet({})
  BY FS_EmptySet
<1>4. EmptyBatch' = EmptyBatch
  BY DEF EmptyBatch
<1> QED
  BY <1>1, <1>2, <1>3, <1>4 DEF SizeInv, HookTypeOK

LEMMA SizeQueued ==
    ASSUME SizeInv, DropInv', NEW w \in Writers, QueueUpdate(w)
    PROVE  SizeInv'
<1> DEFINE c == writer[w]
           b == [batch EXCEPT ![c.path] = c]
           size == batchSize - batch[c.path].size + c.size
<1>1. /\ batch \in [Paths -> Queued \cup {Nothing}] /\ c \in Queued
      /\ \A z \in Sizes \cup {Deleted} : z \in Nat
      /\ changes \in 0..MaxChanges /\ flushes \in 0..MaxFlushes /\ fired \in Nat
      /\ flushing \in BOOLEAN /\ timer \in {"none", "armed", "fired"}
  BY HookAssumption
     DEF SizeInv, DropInv, HookTypes, HookTypeOK, Batch, QueueUpdate, Deleted
<1>2. /\ c.path \in Paths /\ c.size \in Nat /\ batch[c.path].size \in Nat
  BY <1>1 DEF Queued, Nothing
<1>3. /\ changes' = changes /\ fired' = fired /\ flushing' = flushing /\ flushes' = flushes
  BY DEF QueueUpdate
<1>4. CASE size >= SizeLimit
  <2>1. /\ jobs' = Submitted(b, "executor") /\ batch' = EmptyBatch /\ batchSize' = 0
        /\ timer' = "none"
    BY <1>4 DEF QueueUpdate
  <2>2. \A j \in jobs' : j.attempt \in 1..Attempts /\ j.batch # EmptyBatch
    BY <2>1, JobsStay
  <2> QED
    BY <1>1, <1>3, <2>1, <2>2, SizeCleared
<1>5. CASE ~(size >= SizeLimit)
  <2>1. /\ jobs' = jobs /\ batch' = b /\ batchSize' = size /\ timer' = "armed"
    BY <1>5 DEF QueueUpdate
  <2>2. /\ IsFiniteSet(Bytes) /\ batchSize = Cardinality(Bytes)
        /\ \A p \in Paths : batch[p] # Nothing => batch[p].path = p
        /\ \A j \in jobs : j.attempt \in 1..Attempts /\ j.batch # EmptyBatch
    BY DEF SizeInv, HookTypeOK
  <2>3. /\ IsFiniteSet(Bytes')
        /\ Cardinality(Bytes') = Cardinality(Bytes) - batch[c.path].size + c.size
    BY <1>1, <1>2, <2>1, <2>2, ChangeBytes
  <2>4. batchSize' = Cardinality(Bytes')
    BY <2>1, <2>2, <2>3
  <2>5. size < SizeLimit
    <3>1. Cardinality(Bytes) \in Nat
      BY <2>2, FS_CardinalityType
    <3> QED
      BY <1>2, <1>5, <2>2, <3>1, HookAssumption
  <2>6. \A p \in Paths : batch'[p] # Nothing => batch'[p].path = p
    BY <1>1, <1>2, <2>1, <2>2
  <2> QED
    BY <1>1, <1>3, <2>1, <2>2, <2>3, <2>4, <2>5, <2>6 DEF SizeInv, HookTypeOK
<1> QED
  BY <1>4, <1>5

LEMMA SizeStep == SizeInv /\ [HookNext]_hookVars => SizeInv'
<1> SUFFICES ASSUME SizeInv, [HookNext]_hookVars PROVE SizeInv'
  OBVIOUS
<1>1. DropInv'
  BY DropStep DEF SizeInv
<1>2. /\ changes \in 0..MaxChanges /\ flushes \in 0..MaxFlushes /\ fired \in Nat
      /\ flushing \in BOOLEAN /\ timer \in {"none", "armed", "fired"}
      /\ \A j \in jobs : j.attempt \in 1..Attempts /\ j.batch # EmptyBatch
      /\ MaxChanges \in Nat /\ MaxFlushes \in Nat
  BY HookAssumption DEF SizeInv, HookTypeOK
<1>3. ASSUME NEW w \in Writers, NEW p \in Paths, NEW z \in Sizes \cup {Deleted},
             ChangeFile(w, p, z)
      PROVE  SizeInv'
  BY <1>1, <1>2, <1>3, SizeStays DEF ChangeFile
<1>4. CASE TimerFires
  BY <1>1, <1>2, <1>4, SizeStays DEF TimerFires
<1>5. CASE EnqueueFromTimer
  BY <1>1, <1>2, <1>5, SizeCleared, JobsStay DEF EnqueueFromTimer
<1>6. CASE Flush
  BY <1>1, <1>2, <1>6, SizeCleared, JobsStay DEF Flush
<1>7. CASE FlushEnds
  BY <1>1, <1>2, <1>7, SizeStays DEF FlushEnds
<1>8. ASSUME NEW j \in jobs, Delivered(j) \/ AttemptFails(j)
      PROVE  SizeInv'
  <2> DEFINE k == [j EXCEPT !.attempt = @ + 1]
  <2>1. j.attempt \in 1..Attempts /\ j.attempt < Attempts
           => k.attempt \in 1..Attempts /\ k.batch = j.batch
    <3>1. j \in [batch : Batch, by : {"executor", "flush"}, attempt : Nat]
      BY DEF SizeInv, DropInv, HookTypes
    <3> QED
      BY <3>1 DEF Attempts
  <2>2. \A i \in jobs' : i.attempt \in 1..Attempts /\ i.batch # EmptyBatch
    BY <1>2, <1>8, <2>1 DEF Delivered, AttemptFails
  <2>3. UNCHANGED <<batch, batchSize, changes, flushes, fired, timer, flushing>>
    BY <1>8 DEF Delivered, AttemptFails
  <2> QED
    BY <1>1, <1>2, <2>2, <2>3, SizeStays
<1>9. CASE UNCHANGED hookVars
  BY <1>1, <1>2, <1>9, SizeStays DEF hookVars
<1> QED
  BY <1>1, <1>3, <1>4, <1>5, <1>6, <1>7, <1>8, <1>9, SizeQueued DEF HookNext, Post

(* The size kept with a batch is the size of what is in it, and below the  *)
(* limit, although changes replace each other and go with the batch        *)
(* (batched_web_hook.py:152).                                              *)
THEOREM SizeIsKept == HookSpec => []HookTypeOK
<1>1. SizeInv => HookTypeOK
  BY DEF SizeInv
<1> QED
  BY <1>1, SizeStart, SizeStep, PTL DEF HookSpec
-----------------------------------------------------------------------------
(***************************************************************************)
(* A refresh token is presented once, and the stored pair is one that      *)
(* still works: theorems of TokenSpec for any requests, logins and number  *)
(* of pairs.                                                               *)
(***************************************************************************)

PCs == {"idle", "read", "locking", "asking", "got", "failed", "done"}
Req == [pc : PCs, id : Nat, tok : Nat]
Log == [pc : {"idle", "fetched", "selected"}, id : Nat, tok : Nat]
Locked == {"asking", "got"}

Got == {q \in Requests : request[q].pc = "got"}
Active == {l \in Logins : login[l].pc # "idle"}

(***************************************************************************)
(* Why the pair that is presented has not been presented before: the row   *)
(* does not change while its lock is held (Held), the pairs in the hands   *)
(* of a request that commits and of logins that will store theirs are      *)
(* unused and all different (Unused), hence so is the row's once one of    *)
(* them has been written.                                                  *)
(***************************************************************************)
Bounded ==
    /\ row # NoRow => row.tok \in 1..issued
    /\ \A q \in Got : request[q].tok \in 1..issued
    /\ \A l \in Active : login[l].tok \in 1..issued

Held ==
    /\ holder # NoOne => row # NoRow
    /\ \A q \in Requests : request[q].pc = "asking" => request[q].tok = row.tok

Unused ==
    /\ Got = {} => row.tok \notin used
    /\ \A q \in Got : request[q].tok \notin used
    /\ \A l \in Active : login[l].tok \notin used /\ login[l].tok # row.tok
    /\ \A l \in Active, q \in Got : login[l].tok # request[q].tok
    /\ \A l, m \in Active : login[l].tok = login[m].tok => l = m

TokenInv == TokenTypeOK /\ Bounded /\ Held /\ (lost = 0 => Unused)

LEMMA TokenTypes ==
    ASSUME TokenTypeOK
    PROVE  /\ request \in [Requests -> Req] /\ login \in [Logins -> Log]
           /\ row \in [id : Nat, tok : Nat] /\ rows \in Nat /\ issued \in Nat
           /\ used \subseteq 1..issued /\ lost \in Nat
           /\ row.id = 0 <=> row = NoRow
BY DEF TokenTypeOK, Req, PCs, Log

(* A request's step changes what that request is about, and no other.      *)
LEMMA GoesFacts ==
    ASSUME request \in [Requests -> Req], NEW q \in Requests,
           NEW pc \in PCs, NEW id \in Nat, NEW tok \in Nat, Goes(q, pc, id, tok)
    PROVE  /\ request' \in [Requests -> Req]
           /\ request'[q].pc = pc /\ request'[q].tok = tok
           /\ \A r \in Requests : r # q => request'[r] = request[r]
<1>1. Where(pc, id, tok) \in Req /\ Where(pc, id, tok).pc = pc /\ Where(pc, id, tok).tok = tok
  BY DEF Where, Req
<1>2. request'[q] = Where(pc, id, tok) /\ \A r \in Requests : r # q => request'[r] = request[r]
  BY DEF Goes
<1>3. request' \in [Requests -> Req]
  BY <1>1 DEF Goes
<1> QED
  BY <1>1, <1>2, <1>3

LEMMA EndsFacts ==
    ASSUME request \in [Requests -> Req], NEW q \in Requests, NEW pc \in PCs, Ends(q, pc)
    PROVE  /\ request' \in [Requests -> Req]
           /\ request'[q].pc = pc /\ request'[q].tok = request[q].tok
           /\ \A r \in Requests : r # q => request'[r] = request[r]
<1>1. request[q].id \in Nat /\ request[q].tok \in Nat
  BY DEF Req
<1> QED
  BY <1>1, GoesFacts DEF Ends

(* A request that neither has the lock nor gets it disturbs nothing, as    *)
(* long as the row stays as it is, or is deleted while nobody holds it.    *)
LEMMA MovesKeep ==
    ASSUME TokenInv, NEW q \in Requests,
           request' \in [Requests -> Req],
           \A r \in Requests : r # q => request'[r] = request[r],
           request[q].pc \notin Locked, request'[q].pc \notin Locked,
           row' = row \/ (row' = NoRow /\ holder = NoOne),
           UNCHANGED <<rows, holder, login, issued, old, used, lost>>
    PROVE  TokenInv'
<1> USE TokenTypes DEF TokenInv
<1>1. \A r \in Requests :
         /\ request'[r].pc \in Locked <=> request[r].pc \in Locked
         /\ request'[r].pc \in Locked => request'[r] = request[r]
  OBVIOUS
<1>2. Got' = Got /\ Active' = Active
  BY <1>1 DEF Got, Active, Locked
<1>3. TokenTypeOK'
  <2>1. row' \in [id : Nat, tok : Nat] /\ (row'.id = 0 <=> row' = NoRow) /\ row'.id <= rows
    BY DEF TokenTypeOK, NoRow
  <2>2. \A r \in Requests : request'[r].pc \in Locked <=> holder = r
    BY <1>1 DEF TokenTypeOK, Locked
  <2>3. request' \in [Requests -> Req]
    OBVIOUS
  <2> QED
    BY <2>1, <2>2, <2>3 DEF TokenTypeOK, Req, PCs, Locked
<1>4. Bounded'
  BY <1>1, <1>2 DEF Bounded, Got, Locked
<1>5. row' # row => \A r \in Requests : request'[r].pc \notin Locked
  BY <1>1, TokenAssumption DEF TokenTypeOK, Locked
<1>6. Held'
  <2>1. holder' # NoOne => row' # NoRow
    BY DEF Held
  <2>2. ASSUME NEW r \in Requests, request'[r].pc = "asking"
        PROVE  request'[r].tok = row'.tok
    BY <2>2, <1>1, <1>5 DEF Held, Locked
  <2> QED
    BY <2>1, <2>2 DEF Held
<1>7. lost' = 0 => Unused'
  <2> SUFFICES ASSUME lost' = 0 PROVE Unused'
    OBVIOUS
  <2>1. \A r \in Got : request'[r] = request[r]
    BY <1>1 DEF Got, Locked
  <2>2. CASE row' = row
    BY <2>1, <2>2, <1>2 DEF Unused
  <2>3. CASE row' = NoRow /\ row' # row
    <3>1. Got = {} /\ row'.tok = 0
      BY <2>3, <1>5, <1>1 DEF Got, Locked, NoRow
    <3>2. 0 \notin used /\ \A l \in Active : login[l].tok # 0
      BY DEF Bounded
    <3> QED
      BY <3>1, <3>2, <1>2 DEF Unused
  <2> QED
    BY <2>2, <2>3
<1> QED
  BY <1>3, <1>4, <1>6, <1>7

-----------------------------------------------------------------------------
LEMMA TokenStart ==
    TokenInit => TokenInv
<1> SUFFICES ASSUME TokenInit PROVE TokenInv
  OBVIOUS
<1> USE TokenAssumption DEF TokenInit
<1>1. Got = {} /\ Active = {} /\ \A q \in Requests : request[q].pc = "idle"
  BY DEF Got, Active, Where
<1>2. TokenTypeOK
  BY <1>1 DEF TokenTypeOK, Where, NoRow
<1> QED
  BY <1>1, <1>2 DEF TokenInv, Bounded, Held, Unused, NoRow

(* The lock is taken by a request that reads the row again under it.       *)
LEMMA LockKeeps ==
    ASSUME TokenInv, NEW q \in Requests, LockRow(q)
    PROVE  TokenInv'
<1> USE TokenTypes DEF TokenInv
<1>1. request[q].pc = "locking" /\ holder = NoOne
  BY DEF LockRow
<1>2. CASE UNCHANGED holder
  <2>1. PICK pc \in {"failed", "done"} : Ends(q, pc)
    <3>1. holder' # q
      BY <1>1, <1>2, TokenAssumption
    <3> QED
      BY <3>1 DEF LockRow
  <2>2. request' \in [Requests -> Req] /\ request'[q].pc = pc
        /\ \A r \in Requests : r # q => request'[r] = request[r]
    BY <2>1, EndsFacts DEF PCs
  <2> QED
    BY <1>1, <1>2, <2>1, <2>2, MovesKeep DEF LockRow, Locked
<1>3. CASE holder' = q
  <2>1. row # NoRow /\ Goes(q, "asking", request[q].id, row.tok)
    BY <1>1, <1>3, TokenAssumption DEF LockRow
  <2>2. request[q].id \in Nat /\ row.tok \in Nat
    BY DEF Req
  <2>3. /\ request' \in [Requests -> Req]
        /\ request'[q].pc = "asking" /\ request'[q].tok = row.tok
        /\ \A r \in Requests : r # q => request'[r] = request[r]
    BY <2>1, <2>2, GoesFacts DEF PCs
  <2>4. UNCHANGED <<row, rows, login, issued, old, used, lost>>
    BY DEF LockRow
  <2>5. \A r \in Requests : request[r].pc \notin Locked
    BY <1>1, TokenAssumption DEF TokenTypeOK, Locked
  <2>6. Got' = Got /\ Got = {} /\ Active' = Active
    BY <2>3, <2>4, <2>5 DEF Got, Active, Locked
  <2>7. TokenTypeOK'
    <3>1. \A r \in Requests : request'[r].pc \in Locked <=> holder' = r
      BY <1>3, <2>3, <2>5 DEF Locked
    <3> QED
      BY <1>3, <2>3, <2>4, <3>1 DEF TokenTypeOK, Req, PCs, Locked
  <2>8. Held'
    BY <1>3, <2>1, <2>3, <2>4, <2>5 DEF Held, Locked
  <2> QED
    BY <2>4, <2>6, <2>7, <2>8 DEF Bounded, Unused
<1> QED
  BY <1>1, <1>2, <1>3 DEF LockRow

(* The provider's answer: a new pair for one that has never been used.     *)
LEMMA IssueKeeps ==
    ASSUME TokenInv, NEW q \in Requests, TokenIssued(q)
    PROVE  TokenInv'
<1> USE TokenTypes DEF TokenInv
<1>1. request[q].pc = "asking" /\ holder = q
  BY DEF TokenIssued, TokenTypeOK
<1>2. request[q].tok = row.tok /\ row # NoRow /\ row.tok \in 1..issued
  BY <1>1, TokenAssumption DEF Held, Bounded
<1>3. issued' = issued + 1 /\ used' = used \cup {row.tok}
      /\ UNCHANGED <<row, rows, holder, login, old, lost>>
  BY <1>2 DEF TokenIssued
<1>4. /\ request' \in [Requests -> Req]
      /\ request'[q].pc = "got" /\ request'[q].tok = issued + 1
      /\ \A r \in Requests : r # q => request'[r] = request[r]
  <2>1. request[q].id \in Nat /\ issued + 1 \in Nat
    BY DEF Req
  <2> QED
    BY <2>1, GoesFacts DEF TokenIssued, PCs
<1>5. \A r \in Requests : r # q => request[r].pc \notin Locked
  BY <1>1 DEF TokenTypeOK, Locked
<1>6. Got = {} /\ Got' = {q} /\ Active' = Active
  BY <1>1, <1>3, <1>4, <1>5 DEF Got, Active, Locked
<1>7. TokenTypeOK'
  <2>1. \A r \in Requests : request'[r].pc \in Locked <=> holder' = r
    BY <1>1, <1>3, <1>4, <1>5 DEF Locked
  <2>2. issued' \in Nat /\ used' \subseteq 1..issued'
    BY <1>2, <1>3
  <2> QED
    BY <1>3, <1>4, <2>1, <2>2 DEF TokenTypeOK, Req, PCs, Locked
<1>8. Bounded'
  BY <1>3, <1>4, <1>6 DEF Bounded
<1>9. Held'
  BY <1>2, <1>3, <1>4, <1>5 DEF Held, Locked
<1>10. lost' = 0 => Unused'
  <2> SUFFICES ASSUME lost = 0 PROVE Unused'
    BY <1>3
  <2>1. issued + 1 \notin used'
    BY <1>2, <1>3
  <2>2. \A l \in Active : login[l].tok # issued + 1
    BY DEF Bounded
  <2> QED
    BY <1>3, <1>4, <1>6, <2>1, <2>2 DEF Unused
<1> QED
  BY <1>7, <1>8, <1>9, <1>10

(* The lock is given back, with what is in the row then.                   *)
LEMMA ReleaseKeeps ==
    ASSUME TokenInv, NEW q \in Requests, holder = q, holder' = NoOne,
           NEW pc \in {"failed", "done"}, Ends(q, pc),
           row' \in [id : Nat, tok : Nat], row'.id = row.id, row'.tok \in 1..issued,
           used' \subseteq 1..issued, lost' \in Nat,
           UNCHANGED <<rows, login, issued, old>>,
           lost' = 0 => /\ lost = 0 /\ used' = used /\ row'.tok \notin used
                        /\ \A l \in Active : login[l].tok # row'.tok
    PROVE  TokenInv'
<1> USE TokenTypes DEF TokenInv
<1>1. /\ request' \in [Requests -> Req] /\ request'[q].pc = pc
      /\ \A r \in Requests : r # q => request'[r] = request[r]
  BY EndsFacts DEF PCs
<1>2. \A r \in Requests : request'[r].pc \notin Locked
  BY <1>1 DEF TokenTypeOK, Locked
<1>3. Got' = {} /\ Active' = Active
  BY <1>2 DEF Got, Active, Locked
<1>4. row # NoRow /\ row.id # 0 /\ row' # NoRow
  BY TokenAssumption DEF Held, NoRow
<1>5. TokenTypeOK'
  <2>1. \A r \in Requests : request'[r].pc \in Locked <=> holder' = r
    BY <1>2, TokenAssumption
  <2>2. (row'.id = 0 <=> row' = NoRow) /\ row'.id <= rows
    BY <1>4 DEF TokenTypeOK
  <2> QED
    BY <1>1, <2>1, <2>2 DEF TokenTypeOK, Req, PCs, Locked
<1>6. Bounded' /\ Held'
  BY <1>2, <1>3 DEF Bounded, Held, Locked
<1>7. lost' = 0 => Unused'
  BY <1>3 DEF Unused
<1> QED
  BY <1>5, <1>6, <1>7

LEMMA AnswerKeeps ==
    ASSUME TokenInv, NEW q \in Requests,
           Refused(q) \/ AnswerLost(q) \/ KilledUncommitted(q) \/ CommitTokens(q)
    PROVE  TokenInv'
<1> USE TokenTypes DEF TokenInv
<1>1. request[q].pc \in Locked /\ holder = q
  BY DEF Refused, AnswerLost, KilledUncommitted, CommitTokens, TokenTypeOK, Locked
<1>2. row # NoRow /\ row.tok \in 1..issued
  BY <1>1, TokenAssumption DEF Held, Bounded
<1>3. holder' = NoOne /\ UNCHANGED <<rows, login, issued, old>>
  BY DEF Refused, AnswerLost, KilledUncommitted, CommitTokens
<1>4. \A r \in Requests : r # q => request[r].pc \notin Locked
  BY <1>1 DEF TokenTypeOK, Locked
<1>5. CASE Refused(q)
  <2>1. request[q].pc = "asking" /\ UNCHANGED <<row, used, lost>> /\ Ends(q, "failed")
    BY <1>5 DEF Refused
  <2>2. Got = {}
    BY <1>4, <2>1 DEF Got, Locked
  <2>3. lost' = 0 => lost = 0 /\ row'.tok \notin used /\ \A l \in Active : login[l].tok # row'.tok
    BY <2>1, <2>2 DEF Unused
  <2> QED
    BY <1>1, <1>2, <1>3, <2>1, <2>3, ReleaseKeeps
<1>6. CASE AnswerLost(q)
  <2>1. request[q].pc = "asking" /\ UNCHANGED row /\ Ends(q, "failed") /\ lost' = lost + 1
        /\ used' = used \cup {request[q].tok}
    BY <1>6 DEF AnswerLost
  <2>2. used' \subseteq 1..issued
    BY <1>2, <2>1 DEF Held
  <2> QED
    BY <1>1, <1>2, <1>3, <2>1, <2>2, ReleaseKeeps
<1>7. CASE KilledUncommitted(q)
  <2>1. UNCHANGED <<row, used>> /\ Ends(q, "done") /\ lost' = lost + 1
    BY <1>7 DEF KilledUncommitted
  <2> QED
    BY <1>1, <1>2, <1>3, <2>1, ReleaseKeeps
<1>8. CASE CommitTokens(q)
  <2>1. q \in Got /\ UNCHANGED <<used, lost>> /\ Ends(q, "done")
        /\ row' = [row EXCEPT !.tok = request[q].tok]
    BY <1>8 DEF CommitTokens, Got
  <2>2. request[q].tok \in 1..issued
    BY <2>1 DEF Bounded
  <2>3. row' \in [id : Nat, tok : Nat] /\ row'.id = row.id /\ row'.tok = request[q].tok
    BY <2>1, <2>2
  <2>4. lost' = 0 => lost = 0 /\ row'.tok \notin used /\ \A l \in Active : login[l].tok # row'.tok
    BY <2>1, <2>3 DEF Unused
  <2> QED
    BY <1>1, <1>3, <2>1, <2>2, <2>3, <2>4, ReleaseKeeps
<1> QED
  BY <1>5, <1>6, <1>7, <1>8

(* The steps before and after: none of them is the lock's holder.          *)
LEMMA RequestKeeps ==
    ASSUME TokenInv, NEW q \in Requests,
           \/ ListTokens(q) \/ UserInfoFails(q) \/ ReadTokens(q)
           \/ LockTimeout(q) \/ DeleteTokens(q) \/ NextRequest(q)
    PROVE  TokenInv'
<1> USE TokenTypes DEF TokenInv
<1>1. row.id \in Nat /\ row.tok \in Nat /\ request[q].id \in Nat
  BY DEF Req
<1>2. PICK pc \in {"idle", "read", "locking", "failed", "done"}, id \in Nat, tok \in Nat :
         Goes(q, pc, id, tok)
  <2>1. request[q].tok \in Nat
    BY DEF Req
  <2> QED
    BY <1>1, <2>1 DEF ListTokens, UserInfoFails, ReadTokens, LockTimeout, DeleteTokens,
                      NextRequest, Ends
<1>3. /\ request' \in [Requests -> Req] /\ request'[q].pc = pc
      /\ \A r \in Requests : r # q => request'[r] = request[r]
  BY <1>2, GoesFacts DEF PCs
<1>4. request[q].pc \notin Locked /\ request'[q].pc \notin Locked
  BY <1>3 DEF ListTokens, UserInfoFails, ReadTokens, LockTimeout, DeleteTokens,
              NextRequest, Locked
<1>5. UNCHANGED <<rows, holder, login, issued, old, used, lost>>
  BY DEF ListTokens, UserInfoFails, ReadTokens, LockTimeout, DeleteTokens, NextRequest
<1>6. row' = row \/ (row' = NoRow /\ holder = NoOne)
  BY DEF ListTokens, UserInfoFails, ReadTokens, LockTimeout, DeleteTokens, NextRequest
<1> QED
  BY <1>3, <1>4, <1>5, <1>6, MovesKeep
-----------------------------------------------------------------------------
(* A login's step changes what that login is about.                        *)
LEMMA LoginFacts ==
    ASSUME login \in [Logins -> Log], NEW l \in Logins,
           NEW pc \in {"idle", "fetched", "selected"}, NEW id \in Nat, NEW tok \in Nat,
           login' = [login EXCEPT ![l] = Where(pc, id, tok)]
    PROVE  /\ login' \in [Logins -> Log]
           /\ login'[l].pc = pc /\ login'[l].tok = tok
           /\ \A m \in Logins : m # l => login'[m] = login[m]
<1>1. Where(pc, id, tok) \in Log /\ Where(pc, id, tok).pc = pc /\ Where(pc, id, tok).tok = tok
  BY DEF Where, Log
<1> QED
  BY <1>1

(* A login gets a pair of its own ...                                      *)
LEMMA FetchKeeps ==
    ASSUME TokenInv, NEW l \in Logins, FetchTokens(l)
    PROVE  TokenInv'
<1> USE TokenTypes DEF TokenInv
<1>1. issued' = issued + 1 /\ UNCHANGED <<row, rows, holder, request, old, used, lost>>
  BY DEF FetchTokens
<1>2. /\ login' \in [Logins -> Log] /\ login'[l].pc = "fetched" /\ login'[l].tok = issued + 1
      /\ \A m \in Logins : m # l => login'[m] = login[m]
  <2>1. 0 \in Nat /\ issued + 1 \in Nat
    OBVIOUS
  <2>2. login' = [login EXCEPT ![l] = Where("fetched", 0, issued + 1)]
    BY DEF FetchTokens
  <2>3. /\ Where("fetched", 0, issued + 1) \in Log
        /\ Where("fetched", 0, issued + 1).pc = "fetched"
        /\ Where("fetched", 0, issued + 1).tok = issued + 1
    BY <2>1 DEF Where, Log
  <2>4. login \in [Logins -> Log]
    OBVIOUS
  <2> QED
    BY <2>2, <2>3, <2>4
<1>3. Got' = Got /\ Active' = Active \cup {l} /\ l \notin Active
  BY <1>1, <1>2 DEF Got, Active, FetchTokens
<1>4. TokenTypeOK'
  <2>1. used' \subseteq 1..issued'
    BY <1>1
  <2> QED
    BY <1>1, <1>2, <2>1 DEF TokenTypeOK, Log
<1>5. Bounded'
  BY <1>1, <1>2, <1>3 DEF Bounded, Got, Active
<1>6. Held'
  BY <1>1 DEF Held
<1>7. lost' = 0 => Unused'
  <2> SUFFICES ASSUME lost = 0 PROVE Unused'
    BY <1>1
  <2>1. issued + 1 \notin used /\ row.tok # issued + 1
    BY DEF Bounded, NoRow
  <2>2. \A m \in Active : login'[m] = login[m] /\ login[m].tok # issued + 1
    BY <1>2, <1>3 DEF Bounded, Active
  <2>3. \A q \in Got : request[q].tok # issued + 1
    BY DEF Bounded
  <2> QED
    BY <1>1, <1>2, <1>3, <2>1, <2>2, <2>3 DEF Unused
<1> QED
  BY <1>4, <1>5, <1>6, <1>7

(* ... looks for the row ...                                               *)
LEMMA SelectKeeps ==
    ASSUME TokenInv, NEW l \in Logins, SelectRow(l)
    PROVE  TokenInv'
<1> USE TokenTypes DEF TokenInv
<1>1. UNCHANGED <<row, rows, holder, request, issued, old, used, lost>>
  BY DEF SelectRow
<1>2. /\ login' \in [Logins -> Log] /\ login'[l].pc = "selected" /\ login'[l].tok = login[l].tok
      /\ \A m \in Logins : m # l => login'[m] = login[m]
  <2>1. row.id \in Nat /\ login[l].tok \in Nat
    BY DEF Log
  <2> QED
    BY <2>1, LoginFacts DEF SelectRow
<1>3. Got' = Got /\ Active' = Active /\ \A m \in Active : login'[m].tok = login[m].tok
  BY <1>1, <1>2 DEF Got, Active, SelectRow
<1>4. TokenTypeOK'
  BY <1>1, <1>2 DEF TokenTypeOK, Log
<1> QED
  BY <1>1, <1>3, <1>4 DEF Bounded, Held, Unused

(* ... and writes its pair there, makes a new row, or fails.               *)
LEMMA WriteKeeps ==
    ASSUME TokenInv, NEW l \in Logins, WriteRow(l)
    PROVE  TokenInv'
<1> USE TokenTypes DEF TokenInv
<1>1. UNCHANGED <<holder, request, issued, old, used, lost>> /\ l \in Active
  BY DEF WriteRow, Active
<1>2. /\ login' \in [Logins -> Log] /\ login'[l].pc = "idle"
      /\ \A m \in Logins : m # l => login'[m] = login[m]
  BY LoginFacts DEF WriteRow
<1>3. Got' = Got /\ Active' = Active \ {l} /\ \A m \in Active' : login'[m] = login[m]
  BY <1>1, <1>2 DEF Got, Active
<1>4. login[l].tok \in 1..issued
  BY <1>1 DEF Bounded
<1>5. CASE UNCHANGED <<row, rows>>
  <2>1. TokenTypeOK'
    BY <1>1, <1>2, <1>5 DEF TokenTypeOK, Log
  <2> QED
    BY <1>1, <1>3, <1>5, <2>1 DEF Bounded, Held, Unused
<1>6. CASE ~UNCHANGED <<row, rows>>
  <2>1. holder = NoOne
    BY <1>6 DEF WriteRow, Held
  <2>2. /\ row' \in [id : Nat, tok : Nat] /\ rows' \in Nat
        /\ row'.tok = login[l].tok /\ row'.id # 0 /\ row'.id <= rows'
    <3>1. row.id <= rows
      BY DEF TokenTypeOK
    <3> QED
      BY <1>4, <1>6, <3>1 DEF WriteRow
  <2>3. \A q \in Requests : request[q].pc \notin Locked
    BY <2>1, TokenAssumption DEF TokenTypeOK, Locked
  <2>4. Got = {}
    BY <2>3 DEF Got, Locked
  <2>5. TokenTypeOK'
    BY <1>1, <1>2, <2>2 DEF TokenTypeOK, Log, NoRow
  <2>6. Bounded' /\ Held'
    BY <1>1, <1>3, <1>4, <2>1, <2>2, <2>3 DEF Bounded, Held, Locked
  <2>7. lost' = 0 => Unused'
    BY <1>1, <1>3, <2>2, <2>4 DEF Unused
  <2> QED
    BY <2>5, <2>6, <2>7
<1> QED
  BY <1>5, <1>6

LEMMA TokenStep ==
    TokenInv /\ [TokenNext]_tokenVars => TokenInv'
<1> SUFFICES ASSUME TokenInv, [TokenNext]_tokenVars PROVE TokenInv'
  OBVIOUS
<1>1. ASSUME NEW t \in Tokens, AgeToken(t) PROVE TokenInv'
  <2>1. UNCHANGED <<row, rows, holder, request, login, issued, used, lost>> /\ old' \subseteq Nat
    BY <1>1, TokenAssumption DEF AgeToken, TokenInv, TokenTypeOK, Tokens
  <2> QED
    BY <2>1 DEF TokenInv, TokenTypeOK, Bounded, Held, Unused, Got, Active
<1>2. ASSUME NEW q \in Requests,
             RequestStep(q) \/ KilledUncommitted(q) \/ DeleteTokens(q) \/ NextRequest(q)
      PROVE  TokenInv'
  BY <1>2, LockKeeps, IssueKeeps, AnswerKeeps, RequestKeeps DEF RequestStep, TokenAnswer
<1>3. ASSUME NEW l \in Logins, FetchTokens(l) \/ SelectRow(l) \/ WriteRow(l)
      PROVE  TokenInv'
  BY <1>3, FetchKeeps, SelectKeeps, WriteKeeps
<1>4. CASE UNCHANGED tokenVars
  BY <1>4 DEF tokenVars, TokenInv, TokenTypeOK, Bounded, Held, Unused, Got, Active
<1> QED
  BY <1>1, <1>2, <1>3, <1>4 DEF TokenNext
-----------------------------------------------------------------------------
(* The row, requests and logins have their types, and the row is locked by *)
(* the request that asks the provider or commits.                          *)
THEOREM TokenTypesHold == TokenSpec => []TokenTypeOK
<1>1. TokenInv => TokenTypeOK
  BY DEF TokenInv
<1> QED
  BY <1>1, TokenStart, TokenStep, PTL DEF TokenSpec

(* No request presents a refresh token that was accepted before, unless an *)
(* answer was lost.                                                        *)
THEOREM RefreshedOnce == TokenSpec => []PresentedOnce
<1>1. TokenInv => PresentedOnce
  <2> SUFFICES ASSUME TokenInv, lost = 0, NEW q \in Requests, request[q].pc = "asking"
               PROVE  request[q].tok \notin used
    BY DEF PresentedOnce
  <2>1. Got = {}
    BY DEF TokenInv, TokenTypeOK, Got
  <2> QED
    BY <2>1 DEF TokenInv, Held, Unused
<1> QED
  BY <1>1, TokenStart, TokenStep, PTL DEF TokenSpec

(* The stored pair still works whenever nobody is about to replace it,     *)
(* unless an answer was lost.                                              *)
THEOREM StoredStaysUsable == TokenSpec => []StoredUsable
<1>1. TokenInv => StoredUsable
  BY DEF TokenInv, Unused, Got, StoredUsable
<1> QED
  BY <1>1, TokenStart, TokenStep, PTL DEF TokenSpec
-----------------------------------------------------------------------------
(***************************************************************************)
(* The parts together: a step of one leaves the others as they are.        *)
(***************************************************************************)
PartsInv ==
    /\ AttachInv /\ SessionTypes
    /\ TokenInv
    /\ BashTyped /\ BashInv
    /\ SizeInv
    /\ CondenseTypes

LEMMA StepOfParts ==
    [ServersNext]_<<part, vars, attachVars, clusterVars, tokenVars, bashVars, hookVars, condenseVars>>
       => /\ [AttachNext]_attachVars /\ [TokenNext]_tokenVars /\ [BashNext]_bashVars
          /\ [HookNext]_hookVars /\ [CondenseNext]_condenseVars
BY DEF ServersNext

(* Every part of the servers has its type, and with it the counts that are *)
(* kept beside what they count: the requests attached to a conversation    *)
(* and the size of a batch; a token's row is locked by who commits to it.  *)
THEOREM PartsHaveTypes == ServersSpec => []PartsTypeOK
<1>1. ServersInit => PartsInv
  BY AttachStart, SessionTypesStart, TokenStart, TypedStart, BashStart, SizeStart, TypesStart
     DEF ServersInit, PartsInv
<1>2. ASSUME PartsInv,
             [ServersNext]_<<part, vars, attachVars, clusterVars, tokenVars, bashVars, hookVars, condenseVars>>
      PROVE  PartsInv'
  BY <1>2, StepOfParts, AttachStep, SessionTypesStep, TokenStep, TypedStep, BashStep, SizeStep, TypesKept
     DEF PartsInv
<1>3. PartsInv => PartsTypeOK
  BY AttachTypesFollow, BashTypesFollow DEF PartsInv, TokenInv, SizeInv, CondenseTypes, PartsTypeOK
<1> QED
  BY <1>1, <1>2, <1>3, PTL DEF ServersSpec
=============================================================================
