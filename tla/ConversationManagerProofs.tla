--------------------- MODULE ConversationManagerProofs ---------------------
(***************************************************************************)
(* Proofs about ConversationManager, for every set of conversations and of *)
(* calls and every limit, whatever overlaps:                               *)
(*   TypeCorrect   the type invariant                                      *)
(*   NothingIsLost a session that is open is in the dictionary or in       *)
(*                 somebody's hands, or was replaced or dropped            *)
(***************************************************************************)
EXTENDS ConversationManager, FiniteSetTheorems, SequenceTheorems, TLAPS

(* What the locals of a call, and of a run of _close_session, refer to.    *)
CallOK ==
    \A c \in Calls :
        /\ call[c].pc # "idle" => call[c].sid \in Sids
        /\ call[c].pc \in {"evict", "closing"} => call[c].oldest \in Sids
CloseOK ==
    \A k \in Closers :
        /\ close[k].pc \notin {"no", "task"} => close[k].sid \in Sids
        /\ close[k].pc \in {"emit", "wait", "overdue"} => close[k].session \in DOMAIN sess
Evicting == \A c \in Calls : close[Eviction(c)].pc # "no" => call[c].pc = "closing"
Shape == TypeOK /\ CallOK /\ CloseOK /\ Evicting

LEMMA CloserNames ==
    /\ \A c \in Calls : Eviction(c) \in Closers /\ Eviction(c) \notin Cleanups
    /\ \A c, d \in Calls : Eviction(c) = Eviction(d) => c = d
    /\ \A s \in Sids : Rest(s) \in Closers /\ Cleanup(s) \in Closers
    /\ \A s \in Sids : \A c \in Calls : Rest(s) # Eviction(c) /\ Cleanup(s) # Eviction(c)
    /\ \A s \in Sids : Cleanup(s) \in Cleanups
    /\ Cleanups \subseteq Closers
BY DEF Closers, Cleanups, Eviction, Rest, Cleanup

(***************************************************************************)
(* The two ways the list of sessions changes: one more, which drops the    *)
(* one it replaces, or a change of some of them.  A session keeps its      *)
(* conversation, and stays closed or dropped if it is.                     *)
(***************************************************************************)
Remains(i) ==
    /\ sess'[i].sid = sess[i].sid
    /\ sess[i].closed => sess'[i].closed
    /\ sess[i].dropped # "no" => sess'[i].dropped # "no"
OneMore(s) ==
    /\ sess' \in Seq(SessionState)
    /\ Len(sess') = Len(sess) + 1
    /\ \A i \in DOMAIN sess : i \in DOMAIN sess' /\ Remains(i)
    /\ loops[s] \in DOMAIN sess => sess'[loops[s]].dropped # "no"
    /\ Len(sess) + 1 \in DOMAIN sess' /\ sess'[Len(sess) + 1].sid = s
    /\ \A i \in DOMAIN sess' : i \in DOMAIN sess \/ i = Len(sess) + 1
    /\ loops' = [loops EXCEPT ![s] = Len(sess) + 1]
SameSessions ==
    /\ sess' \in Seq(SessionState)
    /\ Len(sess') = Len(sess) /\ DOMAIN sess' = DOMAIN sess
    /\ \A i \in DOMAIN sess : Remains(i)

LEMMA DropSession ==
    ASSUME NEW r \in SessionState, NEW x \in {"replaced", "cancelled"}
    PROVE  /\ [r EXCEPT !.dropped = x] \in SessionState
           /\ [r EXCEPT !.dropped = x].sid = r.sid
           /\ [r EXCEPT !.dropped = x].closed = r.closed
           /\ [r EXCEPT !.dropped = x].dropped # "no"
BY DEF SessionState

LEMMA NewSessionIsOneMore ==
    ASSUME sess \in Seq(SessionState), NEW s \in Sids, NewSession(s)
    PROVE  OneMore(s)
<1> DEFINE old == Replaced(s)
           new == Created(s)
<1>1. new \in SessionState /\ new.sid = s
  BY DEF SessionState, Created
<1>2. sess' = Append(old, new) /\ loops' = [loops EXCEPT ![s] = Len(sess) + 1]
  BY DEF NewSession
<1>3. /\ Len(sess) \in Nat /\ DOMAIN sess = 1..Len(sess)
      /\ \A i \in DOMAIN sess : sess[i] \in SessionState
  OBVIOUS
<1>4. ASSUME NEW i \in DOMAIN sess
      PROVE  /\ old[i] \in SessionState /\ old[i].sid = sess[i].sid
             /\ old[i].closed = sess[i].closed
             /\ sess[i].dropped # "no" => old[i].dropped # "no"
             /\ i = loops[s] => old[i].dropped # "no"
  <2>1. /\ sess[i] \in SessionState
        /\ old[i] = IF i = loops[s] THEN [sess[i] EXCEPT !.dropped = "replaced"] ELSE sess[i]
    BY <1>3 DEF Replaced
  <2>2. CASE i = loops[s]
    BY <2>1, <2>2, DropSession
  <2>3. CASE i # loops[s]
    BY <2>1, <2>3
  <2> QED BY <2>2, <2>3
<1>5. old \in Seq(SessionState) /\ Len(old) = Len(sess)
  <2>1. old \in [1..Len(sess) -> SessionState]
    BY <1>3, <1>4 DEF Replaced
  <2> HIDE DEF old
  <2> QED BY <1>3, <2>1
<1> HIDE DEF old, new
<1>6. /\ sess' \in Seq(SessionState) /\ Len(sess') = Len(sess) + 1
      /\ sess'[Len(sess) + 1] = new
  BY <1>1, <1>2, <1>5
<1>7. ASSUME NEW i \in DOMAIN sess PROVE i \in DOMAIN sess' /\ sess'[i] = old[i]
  BY <1>2, <1>3, <1>5, <1>7
<1>8. \A i \in DOMAIN sess : Remains(i)
  BY <1>4, <1>7 DEF Remains
<1>9. DOMAIN sess' = 1..(Len(sess) + 1)
  BY <1>6
<1> QED BY <1>1, <1>2, <1>3, <1>4, <1>6, <1>7, <1>8, <1>9 DEF OneMore

LEMMA EditIsSame ==
    ASSUME sess \in Seq(SessionState), NEW i \in DOMAIN sess, NEW r \in SessionState,
           r.sid = sess[i].sid, sess[i].closed => r.closed, r.dropped = sess[i].dropped,
           sess' = [sess EXCEPT ![i] = r]
    PROVE  SameSessions /\ sess'[i] = r
BY DEF SameSessions, Remains

LEMMA StopIsSame ==
    ASSUME sess \in Seq(SessionState), NEW i \in DOMAIN sess, Stop(i)
    PROVE  SameSessions /\ sess'[i].closed
<1> DEFINE r == [sess[i] EXCEPT !.closed = TRUE, !.stopped = TRUE,
                                !.sandbox = IF @ = "up" THEN "removed" ELSE @]
<1>1. sess[i] \in SessionState
  OBVIOUS
<1>2. r \in SessionState /\ r.sid = sess[i].sid /\ r.closed /\ r.dropped = sess[i].dropped
  BY <1>1 DEF SessionState
<1>3. sess' = [sess EXCEPT ![i] = r]
  BY <1>1 DEF Stop
<1> HIDE DEF r
<1> QED BY <1>2, <1>3, EditIsSame

(* A clean-up that runs out of time drops the sessions it holds.           *)
LEMMA TimeoutIsSame ==
    ASSUME sess \in Seq(SessionState), CleanupTimesOut
    PROVE  /\ SameSessions
           /\ \A k \in Cleanups, i \in DOMAIN sess : Holds(k, i) => sess'[i].dropped # "no"
<1>1. /\ Len(sess) \in Nat /\ DOMAIN sess = 1..Len(sess)
      /\ \A i \in DOMAIN sess : sess[i] \in SessionState
  OBVIOUS
<1>2. sess' = [i \in DOMAIN sess |->
                  IF \E k \in Cleanups : Holds(k, i)
                  THEN [sess[i] EXCEPT !.dropped = "cancelled"] ELSE sess[i]]
  BY DEF CleanupTimesOut
<1>3. ASSUME NEW i \in DOMAIN sess
      PROVE  /\ sess'[i] \in SessionState /\ Remains(i)
             /\ (\E k \in Cleanups : Holds(k, i)) => sess'[i].dropped # "no"
  <2>1. CASE \E k \in Cleanups : Holds(k, i)
    <3>1. sess'[i] = [sess[i] EXCEPT !.dropped = "cancelled"]
      BY <1>2, <2>1
    <3> QED BY <1>1, <3>1, DropSession DEF Remains
  <2>2. CASE ~ \E k \in Cleanups : Holds(k, i)
    <3>1. sess'[i] = sess[i]
      BY <1>2, <2>2
    <3> QED BY <1>1, <2>2, <3>1 DEF Remains
  <2> QED BY <2>1, <2>2
<1>4. sess' \in [1..Len(sess) -> SessionState]
  BY <1>1, <1>2, <1>3
<1>5. sess' \in Seq(SessionState) /\ Len(sess') = Len(sess) /\ DOMAIN sess' = DOMAIN sess
  BY <1>1, <1>4
<1> QED BY <1>3, <1>5 DEF SameSessions

(***************************************************************************)
(* The type invariant.                                                     *)
(***************************************************************************)
LEMMA ShapeInit == Init => Shape
<1> SUFFICES ASSUME Init PROVE Shape
  OBVIOUS
<1> USE DEF Init, None, Idle, Closers
<1>1. TypeOK
  BY ManagerAssumption DEF TypeOK, CallState, CloseState
<1>2. CallOK /\ CloseOK /\ Evicting
  BY CloserNames DEF CallOK, CloseOK, Evicting
<1> QED BY <1>1, <1>2 DEF Shape

(* What a change of the list of sessions means for those who refer to one. *)
LEMMA LoopsOneMore ==
    ASSUME Shape, NEW s \in Sids, OneMore(s)
    PROVE  /\ loops' \in [Sids -> 0..Len(sess')]
           /\ \A z \in Sids : loops'[z] # None => sess'[loops'[z]].sid = z
           /\ CloseState \subseteq CloseState'
           /\ DOMAIN sess \subseteq DOMAIN sess'
<1>1. Len(sess) \in Nat /\ sess \in Seq(SessionState) /\ DOMAIN sess = 1..Len(sess)
  BY DEF Shape, TypeOK
<1>2. \A z \in Sids : loops[z] # None => loops[z] \in DOMAIN sess
  BY <1>1 DEF Shape, TypeOK, None
<1>3. loops' \in [Sids -> 0..Len(sess')]
  BY <1>1 DEF Shape, TypeOK, OneMore
<1>4. ASSUME NEW z \in Sids, loops'[z] # None PROVE sess'[loops'[z]].sid = z
  BY <1>1, <1>2, <1>4 DEF Shape, TypeOK, OneMore, Remains
<1>5. 0..Len(sess) \subseteq 0..Len(sess')
  BY <1>1 DEF OneMore
<1>6. CloseState \subseteq CloseState'
  BY <1>5 DEF CloseState
<1> QED BY <1>3, <1>4, <1>6 DEF OneMore

LEMMA LoopsSame ==
    ASSUME Shape, SameSessions, UNCHANGED loops
    PROVE  /\ loops' \in [Sids -> 0..Len(sess')]
           /\ \A z \in Sids : loops'[z] # None => sess'[loops'[z]].sid = z
           /\ CloseState' = CloseState
<1>1. \A z \in Sids : loops[z] # None => loops[z] \in DOMAIN sess
  BY DEF Shape, TypeOK, None
<1> QED BY <1>1 DEF Shape, TypeOK, SameSessions, CloseState, Remains

(* A call makes a session, finds one, or notes that the limit is reached.  *)
LEMMA MaybeStartCases ==
    ASSUME Shape, NEW c \in Calls, NEW s \in Sids, MaybeStart(c, s)
    PROVE  \/ OneMore(s) /\ loops[s] = None
              /\ Cardinality(Running) < MaxLoops
              /\ call' = [call EXCEPT ![c] = At("done", s, {})]
           \/ UNCHANGED <<loops, sess>>
              /\ call' = [call EXCEPT ![c] = At("done", s, {})]
           \/ UNCHANGED <<loops, sess>> /\ loops[s] = None
              /\ call' = [call EXCEPT ![c] = At("limit", s, Running)]
BY NewSessionIsOneMore DEF MaybeStart, Shape, TypeOK

(* A call notes where it is, for which conversation, and what runs.        *)
CallPcs == {"idle", "room", "limit", "evict", "closing", "done"}
LEMMA CallNotes ==
    ASSUME call \in [Calls -> CallState], NEW c \in Calls, NEW p \in CallPcs, NEW s \in Sids,
           NEW R \in SUBSET Sids, call' = [call EXCEPT ![c] = At(p, s, R)]
    PROVE  /\ call' \in [Calls -> CallState]
           /\ call'[c].pc = p /\ call'[c].sid = s /\ call'[c].running = R
           /\ \A d \in Calls : d # c => call'[d] = call[d]
<1>1. At(p, s, R) \in CallState
  BY DEF At, CallState, CallPcs
<1>2. At(p, s, R).pc = p /\ At(p, s, R).sid = s /\ At(p, s, R).running = R
  BY DEF At
<1> QED BY <1>1, <1>2

LEMMA ShapeMaybeStart ==
    ASSUME Shape, NEW c \in Calls, NEW s \in Sids, MaybeStart(c, s),
           call[c].pc \in {"idle", "room"}, UNCHANGED close,
           conns' \in [Calls -> Sids \cup {NoSid}]
    PROVE  Shape'
<1>1. close[Eviction(c)].pc = "no"
  BY DEF Shape, Evicting
<1>2. Running \in SUBSET Sids
  BY DEF Running
<1>3. call \in [Calls -> CallState] /\ "done" \in CallPcs /\ "limit" \in CallPcs
  BY DEF Shape, TypeOK, CallPcs
<1>4. /\ call' \in [Calls -> CallState]
      /\ call'[c].pc \in {"done", "limit"} /\ call'[c].sid = s
      /\ \A d \in Calls : d # c => call'[d] = call[d]
  <2>1. CASE call' = [call EXCEPT ![c] = At("done", s, {})]
    BY <1>3, <2>1, CallNotes, {} \in SUBSET Sids
  <2>2. CASE call' = [call EXCEPT ![c] = At("limit", s, Running)]
    BY <1>2, <1>3, <2>2, CallNotes
  <2> QED BY <2>1, <2>2, MaybeStartCases
<1>5. CallOK' /\ Evicting'
  <2>1. CallOK'
    BY <1>4 DEF Shape, CallOK
  <2>2. Evicting'
    BY <1>1, <1>4 DEF Shape, Evicting
  <2> QED BY <2>1, <2>2
<1>6. CASE OneMore(s)
  <2>1. sess' \in Seq(SessionState)
    BY <1>6 DEF OneMore
  <2> QED BY <1>4, <1>5, <1>6, <2>1, LoopsOneMore DEF Shape, TypeOK, CloseOK
<1>7. CASE UNCHANGED <<loops, sess>>
  BY <1>4, <1>5, <1>7 DEF Shape, TypeOK, CloseOK, CloseState
<1> QED BY <1>6, <1>7, MaybeStartCases

(***************************************************************************)
(* What a step of _close_session on s does, r being its new locals: there  *)
(* was no session; it takes the session out; or it has clients to shut     *)
(* down before.                                                            *)
(***************************************************************************)
ClosedBy(k, s, r) ==
    /\ close' = [close EXCEPT ![k] = r]
    /\ \/ r.pc = "no" /\ loops[s] = None /\ UNCHANGED loops
       \/ /\ r.pc = "emit" /\ r.sid = s
          /\ loops[s] # None /\ r.session = loops[s]
          /\ loops' = [loops EXCEPT ![s] = None]
       \/ r.pc = "kick" /\ r.sid = s /\ UNCHANGED loops

LEMMA PopEffect ==
    ASSUME Shape, NEW k \in Closers, NEW s \in Sids, Pop(k, s)
    PROVE  \E r \in CloseState : ClosedBy(k, s, r)
<1>1. CASE loops[s] = None
  <2>1. Idle \in CloseState /\ Idle.pc = "no"
    BY DEF Idle, CloseState, Shape, TypeOK, None
  <2>2. ClosedBy(k, s, Idle)
    BY <1>1, <2>1 DEF Pop, ClosedBy, Shape, TypeOK
  <2> QED BY <2>1, <2>2
<1>2. CASE loops[s] # None
  <2> DEFINE r == [pc |-> "emit", sid |-> s, kick |-> {}, session |-> loops[s]]
  <2>1. r \in CloseState
    BY DEF CloseState, Shape, TypeOK
  <2>2. ClosedBy(k, s, r)
    BY <1>2 DEF Pop, ClosedBy
  <2> QED BY <2>1, <2>2
<1> QED BY <1>1, <1>2

LEMMA CloseBeginEffect ==
    ASSUME Shape, NEW k \in Closers, NEW s \in Sids, CloseBegin(k, s)
    PROVE  \E r \in CloseState : ClosedBy(k, s, r)
<1> DEFINE r == [pc |-> "kick", sid |-> s, kick |-> Connected(s), session |-> None]
<1>1. r \in CloseState
  BY DEF CloseState, Connected, Shape, TypeOK, None
<1>2. CASE Pop(k, s)
  BY <1>2, PopEffect
<1>3. CASE ~ Pop(k, s)
  <2>1. ClosedBy(k, s, r)
    BY <1>3 DEF CloseBegin, ClosedBy
  <2> QED BY <1>1, <2>1
<1> QED BY <1>2, <1>3

LEMMA KickEffect ==
    ASSUME Shape, NEW k \in Closers, Kick(k)
    PROVE  /\ close[k].sid \in Sids
           /\ \E r \in CloseState : ClosedBy(k, close[k].sid, r)
<1>1. close[k].sid \in Sids /\ close[k] \in CloseState /\ close[k].pc = "kick"
  BY DEF Kick, Shape, TypeOK, CloseOK
<1>2. PICK c \in close[k].kick :
         \/ Pop(k, close[k].sid)
         \/ close' = [close EXCEPT ![k].kick = @ \ {c}] /\ UNCHANGED loops
  BY DEF Kick
<1>3. CASE Pop(k, close[k].sid)
  BY <1>1, <1>3, PopEffect
<1>4. CASE close' = [close EXCEPT ![k].kick = @ \ {c}] /\ UNCHANGED loops
  <2> DEFINE r == [close[k] EXCEPT !.kick = @ \ {c}]
  <2>1. r \in CloseState /\ r.pc = "kick" /\ r.sid = close[k].sid
    BY <1>1 DEF CloseState
  <2>2. close' = [close EXCEPT ![k] = r]
    BY <1>4
  <2> HIDE DEF r
  <2>3. ClosedBy(k, close[k].sid, r)
    BY <1>4, <2>1, <2>2 DEF ClosedBy
  <2>4. \E q \in CloseState : ClosedBy(k, close[k].sid, q)
    BY <2>1, <2>3
  <2> QED BY <1>1, <2>4
<1> QED BY <1>2, <1>3, <1>4

LEMMA ShapeClosed ==
    ASSUME Shape, NEW k \in Closers, NEW s \in Sids, NEW r \in CloseState,
           ClosedBy(k, s, r), UNCHANGED sess,
           conns' \in [Calls -> Sids \cup {NoSid}],
           call' \in [Calls -> CallState], CallOK',
           \A c \in Calls : k = Eviction(c) => call'[c].pc = "closing",
           \A c \in Calls : call[c].pc = "closing" => call'[c].pc = "closing"
    PROVE  Shape'
<1>1. loops' \in [Sids -> 0..Len(sess)] /\ \A z \in Sids : loops'[z] \in {loops[z], None}
  BY DEF ClosedBy, Shape, TypeOK, None
<1>2. close' \in [Closers -> CloseState'] /\ CloseOK'
  <2>1. CloseState' = CloseState
    BY DEF CloseState
  <2>2. close \in [Closers -> CloseState] /\ close' = [close EXCEPT ![k] = r]
    BY DEF ClosedBy, Shape, TypeOK
  <2>3. r.pc # "no" => r.sid \in Sids
    BY DEF ClosedBy
  <2>4. r.pc \in {"emit", "wait", "overdue"} => r.session \in DOMAIN sess
    BY DEF ClosedBy, Shape, TypeOK, None
  <2> QED BY <2>1, <2>2, <2>3, <2>4 DEF CloseOK, Shape
<1>3. Evicting'
  BY CloserNames DEF ClosedBy, Evicting, Shape, TypeOK
<1> QED BY <1>1, <1>2, <1>3 DEF Shape, TypeOK

LEMMA ShapeSessions ==
    ASSUME Shape, SameSessions, UNCHANGED <<loops, conns, call>>,
           \/ UNCHANGED close
           \/ \E k \in Closers, r \in CloseState :
                 /\ close' = [close EXCEPT ![k] = r]
                 /\ r.pc # "no" => close[k].pc # "no" /\ r.sid \in Sids
                 /\ r.pc \in {"emit", "wait", "overdue"} => r.session \in DOMAIN sess
    PROVE  Shape'
<1>1. CloseState' = CloseState /\ DOMAIN sess' = DOMAIN sess
  BY LoopsSame DEF SameSessions
<1>2. close' \in [Closers -> CloseState]
  BY DEF Shape, TypeOK
<1>3. TypeOK'
  BY <1>1, <1>2, LoopsSame DEF Shape, TypeOK, SameSessions
<1>4. CallOK'
  BY DEF Shape, CallOK
<1>5. CloseOK'
  BY <1>1 DEF Shape, TypeOK, CloseOK
<1>6. Evicting'
  BY CloserNames DEF Shape, TypeOK, Evicting
<1> QED BY <1>3, <1>4, <1>5, <1>6 DEF Shape

(* The close of a session changes that session only, and closes it.        *)
LEMMA CloseEffect ==
    ASSUME Shape, NEW k \in Closers, CloseAgentSession(k) \/ CloseWaited(k)
    PROVE  /\ SameSessions
           /\ close[k].session \in DOMAIN sess
           /\ close[k].pc = "emit" => sess'[close[k].session].closed
           /\ \E r \in CloseState :
                 /\ close' = [close EXCEPT ![k] = r]
                 /\ r.pc \in {"no", "wait", "overdue"}
                 /\ r.pc # "no" => r.sid = close[k].sid /\ r.session = close[k].session
<1> DEFINE i == close[k].session
<1>1. i \in DOMAIN sess /\ close[k] \in CloseState /\ sess[i] \in SessionState
      /\ sess \in Seq(SessionState) /\ close \in [Closers -> CloseState]
  BY DEF Shape, TypeOK, CloseOK, CloseAgentSession, CloseWaited
<1>2. Idle \in CloseState /\ Idle.pc = "no"
  BY DEF Idle, CloseState, Shape, TypeOK, None
<1>3. CASE Stop(i) /\ close' = [close EXCEPT ![k] = Idle]
  BY <1>1, <1>2, <1>3, StopIsSame
<1>4. CASE /\ sess' = [sess EXCEPT ![i].closed = TRUE]
           /\ close' = [close EXCEPT ![k].pc = "wait"]
  <2> DEFINE q == [sess[i] EXCEPT !.closed = TRUE]
  <2>1. q \in SessionState /\ q.sid = sess[i].sid /\ q.closed /\ q.dropped = sess[i].dropped
    BY <1>1 DEF SessionState
  <2>2. sess' = [sess EXCEPT ![i] = q]
    BY <1>1, <1>4
  <2> HIDE DEF q
  <2>3. SameSessions /\ sess'[i].closed
    BY <1>1, <2>1, <2>2, EditIsSame
  <2> DEFINE r == [close[k] EXCEPT !.pc = "wait"]
  <2>4. r \in CloseState /\ r.pc = "wait" /\ r.sid = close[k].sid /\ r.session = i
    BY <1>1 DEF CloseState
  <2>5. close' = [close EXCEPT ![k] = r]
    BY <1>1, <1>4
  <2> HIDE DEF r
  <2> QED BY <1>1, <2>3, <2>4, <2>5
<1>5. CASE /\ close[k].pc = "wait" /\ UNCHANGED sess
           /\ close' = [close EXCEPT ![k].pc = "overdue"]
  <2>1. SameSessions
    BY <1>1, <1>5 DEF SameSessions, Remains
  <2> DEFINE r == [close[k] EXCEPT !.pc = "overdue"]
  <2>2. r \in CloseState /\ r.pc = "overdue" /\ r.sid = close[k].sid /\ r.session = i
    BY <1>1 DEF CloseState
  <2>3. close' = [close EXCEPT ![k] = r]
    BY <1>1, <1>5
  <2> HIDE DEF r
  <2> QED BY <1>1, <1>5, <2>1, <2>2, <2>3
<1> QED BY <1>3, <1>4, <1>5 DEF CloseAgentSession, CloseWaited

LEMMA StarterEffect ==
    ASSUME Shape, NEW i \in DOMAIN sess, Starter(i)
    PROVE  SameSessions /\ UNCHANGED <<loops, conns, call, close>>
<1>1. sess[i] \in SessionState /\ sess \in Seq(SessionState)
  BY DEF Shape, TypeOK
<1>2. PICK p \in {"aborted", "connecting", "setup", "ready", "failed"}, b \in {"up", "none"} :
         \/ sess' = [sess EXCEPT ![i].start = p]
         \/ sess' = [sess EXCEPT ![i].start = p, ![i].sandbox = b]
  BY DEF Starter, StartSession, ConnectRuntime, CreateController, StartFails, Becomes
<1> DEFINE q == [sess[i] EXCEPT !.start = p]
           u == [sess[i] EXCEPT !.start = p, !.sandbox = b]
<1>3. /\ q \in SessionState /\ q.sid = sess[i].sid /\ q.closed = sess[i].closed
      /\ u \in SessionState /\ u.sid = sess[i].sid /\ u.closed = sess[i].closed
      /\ q.dropped = sess[i].dropped /\ u.dropped = sess[i].dropped
  BY <1>1 DEF SessionState
<1>4. sess' = [sess EXCEPT ![i] = q] \/ sess' = [sess EXCEPT ![i] = u]
  BY <1>1, <1>2
<1> HIDE DEF q, u
<1>5. SameSessions
  BY <1>1, <1>3, <1>4, EditIsSame
<1> QED
  BY <1>5 DEF Starter, StartSession, ConnectRuntime, CreateController, StartFails, startup

LEMMA ShapeStep == Shape /\ [Next]_vars => Shape'
<1> SUFFICES ASSUME Shape, [Next]_vars PROVE Shape'
  OBVIOUS
<1>0. /\ call \in [Calls -> CallState] /\ close \in [Closers -> CloseState]
      /\ conns \in [Calls -> Sids \cup {NoSid}]
  BY DEF Shape, TypeOK
(* An action that touches neither the sessions nor their closing.          *)
<1>1. ASSUME UNCHANGED <<loops, sess, close>>, conns' \in [Calls -> Sids \cup {NoSid}],
             call' \in [Calls -> CallState], CallOK', Evicting'
      PROVE  Shape'
  BY <1>1 DEF Shape, TypeOK, CloseOK, CloseState
<1>2. ASSUME NEW c \in Calls, NEW s \in Sids, StartByApi(c, s) PROVE Shape'
  BY <1>0, <1>2, ShapeMaybeStart DEF StartByApi
<1>3. ASSUME NEW c \in Calls, NEW s \in Sids, Join(c, s) PROVE Shape'
  <2>1. /\ call' \in [Calls -> CallState] /\ call'[c].pc = "room" /\ call'[c].sid = s
        /\ \A d \in Calls : d # c => call'[d] = call[d]
    BY <1>0, <1>3, CallNotes, {} \in SUBSET Sids DEF Join, CallPcs
  <2>2. CallOK' /\ Evicting'
    BY <1>3, <2>1 DEF Join, Shape, CallOK, Evicting
  <2> QED BY <1>0, <1>1, <1>3, <2>1, <2>2 DEF Join
<1>4. ASSUME NEW c \in Calls, Register(c) PROVE Shape'
  <2>1. call[c].sid \in Sids
    BY <1>4 DEF Register, Shape, CallOK
  <2> QED BY <1>0, <1>4, <2>1, ShapeMaybeStart DEF Register
<1>5. ASSUME NEW c \in Calls, NotifyOldest(c) PROVE Shape'
  <2>1. PICK s \in call[c].running :
           call' = [call EXCEPT ![c].pc = "evict", ![c].oldest = s,
                                ![c].running = @ \ {s}]
    BY <1>5 DEF NotifyOldest
  <2>2. call[c].running \subseteq Sids /\ s \in Sids /\ call[c].sid \in Sids
    BY <1>0, <1>5 DEF NotifyOldest, CallState, Shape, CallOK
  <2>3. call' \in [Calls -> CallState]
    BY <1>0, <2>1, <2>2 DEF CallState
  <2>4. CallOK' /\ Evicting'
    BY <1>0, <1>5, <2>1, <2>2 DEF NotifyOldest, CallState, Shape, CallOK, Evicting
  <2> QED BY <1>0, <1>1, <1>5, <2>3, <2>4 DEF NotifyOldest
<1>6. ASSUME NEW c \in Calls, Admit(c) PROVE Shape'
  <2>1. call[c].sid \in Sids /\ OneMore(call[c].sid)
    BY <1>6, NewSessionIsOneMore DEF Admit, Shape, TypeOK, CallOK
  <2>2. call' \in [Calls -> CallState] /\ CallOK' /\ Evicting'
    BY <1>0, <1>6 DEF Admit, CallState, Shape, CallOK, Evicting
  <2>3. TypeOK' /\ CloseOK'
    BY <1>0, <1>6, <2>1, <2>2, LoopsOneMore DEF Admit, Shape, TypeOK, CloseOK, OneMore
  <2> QED BY <2>2, <2>3 DEF Shape
<1>7. ASSUME NEW c \in Calls, Disconnect(c) PROVE Shape'
  BY <1>0, <1>1, <1>7 DEF Disconnect, Shape, CallOK, Evicting
<1>8. ASSUME NEW s \in Sids, CloseByApi(s) \/ CleanupClose(s) PROVE Shape'
  <2>1. PICK k \in {Rest(s), Cleanup(s)} : \E r \in CloseState : ClosedBy(k, s, r)
    BY <1>0, <1>8, CloseBeginEffect, CloserNames DEF CloseByApi, CleanupClose
  <2>2. PICK r \in CloseState : ClosedBy(k, s, r)
    BY <2>1
  <2>3. CallOK' /\ UNCHANGED <<call, conns, sess>>
    BY <1>0, <1>8 DEF CloseByApi, CleanupClose, Shape, CallOK
  <2>4. k \in Closers /\ \A c \in Calls : k # Eviction(c)
    BY CloserNames
  <2> QED BY <1>0, <2>2, <2>3, <2>4, ShapeClosed
<1>9. ASSUME NEW k \in Closers, Kick(k) PROVE Shape'
  <2>1. close[k].sid \in Sids
    BY <1>9, KickEffect
  <2>2. PICK r \in CloseState : ClosedBy(k, close[k].sid, r)
    BY <1>9, KickEffect
  <2>3. \A c \in Calls : k = Eviction(c) => call[c].pc = "closing"
    BY <1>9 DEF Kick, Shape, Evicting
  <2>4. UNCHANGED <<call, sess>> /\ CallOK' /\ conns' \in [Calls -> Sids \cup {NoSid}]
    BY <1>0, <1>9 DEF Kick, Shape, CallOK
  <2> QED BY <1>0, <2>1, <2>2, <2>3, <2>4, ShapeClosed
<1>10. ASSUME NEW c \in Calls, CloseOldest(c) PROVE Shape'
  <2>1. call[c].oldest \in Sids /\ call[c].pc = "evict" /\ call[c].sid \in Sids
    BY <1>10 DEF CloseOldest, Shape, CallOK
  <2>2. call' = [call EXCEPT ![c].pc = "closing"] /\ UNCHANGED <<conns, sess>>
    BY <1>10 DEF CloseOldest
  <2>3. call' \in [Calls -> CallState] /\ CallOK'
    BY <1>0, <2>1, <2>2 DEF CallState, Shape, CallOK
  <2>4. /\ call'[c].pc = "closing"
        /\ \A d \in Calls : call[d].pc = "closing" => call'[d].pc = "closing"
    BY <1>0, <2>2 DEF CallState
  <2>5. CASE CloseBegin(Eviction(c), call[c].oldest)
    <3>1. PICK r \in CloseState : ClosedBy(Eviction(c), call[c].oldest, r)
      BY <1>0, <2>1, <2>5, CloseBeginEffect, CloserNames
    <3>2. \A d \in Calls : Eviction(c) = Eviction(d) => d = c
      BY CloserNames
    <3> QED BY <1>0, <2>1, <2>2, <2>3, <2>4, <3>1, <3>2, ShapeClosed, CloserNames
  <2>6. CASE UNCHANGED <<loops, close>>
    BY <1>0, <1>1, <2>2, <2>3, <2>4, <2>6 DEF Shape, Evicting
  <2> QED BY <1>10, <2>5, <2>6 DEF CloseOldest
<1>11. ASSUME NEW c \in Calls, OldestClosed(c) PROVE Shape'
  <2>1. call' \in [Calls -> CallState]
    BY <1>0, <1>11 DEF OldestClosed, CallState
  <2>2. CallOK' /\ Evicting'
    BY <1>0, <1>11 DEF OldestClosed, CallState, Shape, CallOK, Evicting
  <2> QED BY <1>0, <1>1, <1>11, <2>1, <2>2 DEF OldestClosed
<1>12. ASSUME CleanupPick \/ CleanupTimesOut PROVE Shape'
  <2> DEFINE task == [Idle EXCEPT !.pc = "task"]
  <2>0. Idle \in CloseState /\ Idle.pc = "no"
    BY DEF Idle, CloseState, Shape, TypeOK, None
  <2>1. task \in CloseState /\ task.pc = "task"
    BY <2>0 DEF CloseState
  <2>2. /\ DOMAIN close' = Closers
        /\ \A k \in Closers :
              close'[k] \in {close[k], Idle} \/ (k \in Cleanups /\ close'[k] = task)
    <3>1. CASE CleanupPick
      <4>1. PICK S \in SUBSET Sids :
               close' = [k \in Closers |->
                            IF \E s \in S : k = Cleanup(s) THEN task ELSE close[k]]
        BY <3>1 DEF CleanupPick, Running
      <4> HIDE DEF task
      <4> QED BY <4>1, CloserNames
    <3>2. CASE CleanupTimesOut
      <4>1. close' = [k \in Closers |-> IF k \in Cleanups THEN Idle ELSE close[k]]
        BY <3>2 DEF CleanupTimesOut
      <4> QED BY <4>1
    <3> QED BY <1>12, <3>1, <3>2
  <2> HIDE DEF task
  <2>4. close' \in [Closers -> CloseState]
    <3>1. \A k \in Closers : close'[k] \in CloseState
      BY <1>0, <2>0, <2>1, <2>2
    <3>2. \E F : close' = [k \in Closers |-> F[k]]
      BY <1>12 DEF CleanupPick, CleanupTimesOut
    <3> QED BY <3>1, <3>2
  <2>5. SameSessions /\ UNCHANGED <<loops, conns, call>>
    BY <1>0, <1>12, TimeoutIsSame
       DEF CleanupPick, CleanupTimesOut, SameSessions, Remains, Shape, TypeOK
  <2>6. CloseState' = CloseState /\ TypeOK'
    BY <1>0, <2>4, <2>5, LoopsSame DEF Shape, TypeOK, SameSessions
  <2>7. CloseOK'
    BY <2>0, <2>1, <2>2, <2>5 DEF Shape, CloseOK, SameSessions
  <2>8. Evicting' /\ CallOK'
    BY <2>0, <2>2, <2>5, CloserNames DEF Shape, Evicting, CallOK
  <2> QED BY <2>6, <2>7, <2>8 DEF Shape
<1>13. ASSUME NEW k \in Closers, CloseAgentSession(k) \/ CloseWaited(k) PROVE Shape'
  <2>1. close[k].pc # "no" /\ close[k].sid \in Sids /\ UNCHANGED <<loops, conns, call>>
    BY <1>13 DEF CloseAgentSession, CloseWaited, Shape, CloseOK
  <2> QED BY <1>13, <2>1, CloseEffect, ShapeSessions
<1>14. ASSUME NEW i \in DOMAIN sess, Starter(i) PROVE Shape'
  BY <1>14, StarterEffect, ShapeSessions
<1>15. CASE UNCHANGED vars
  BY <1>0, <1>1, <1>15 DEF vars, Shape, CallOK, Evicting
<1> QED
  BY <1>2, <1>3, <1>4, <1>5, <1>6, <1>7, <1>8, <1>9, <1>10, <1>11, <1>12, <1>13,
     <1>14, <1>15 DEF Next, Caller, Closer

(* In every reachable state the dictionaries, the calls, the sessions and  *)
(* the runs of _close_session have their types, and a session that is      *)
(* found under a conversation is one of that conversation.                 *)
THEOREM TypeCorrect == Spec => []TypeOK
<1>1. Spec => []Shape
  BY ShapeInit, ShapeStep, PTL DEF Spec
<1>2. Shape => TypeOK
  BY DEF Shape
<1> QED BY <1>1, <1>2, PTL

(***************************************************************************)
(* No session is lost.                                                     *)
(***************************************************************************)
Kept(i) ==
    \/ sess[i].closed
    \/ loops[sess[i].sid] = i
    \/ \E k \in Closers : close[k].pc = "emit" /\ close[k].session = i
    \/ sess[i].dropped # "no"

LEMMA SessionParts ==
    ASSUME Shape
    PROVE  /\ Len(sess) \in Nat /\ DOMAIN sess = 1..Len(sess)
           /\ loops \in [Sids -> 0..Len(sess)]
           /\ \A i \in DOMAIN sess : sess[i].sid \in Sids /\ i # None
<1>1. sess \in Seq(SessionState) /\ loops \in [Sids -> 0..Len(sess)]
  BY DEF Shape, TypeOK
<1>2. \A i \in DOMAIN sess : sess[i] \in SessionState
  BY <1>1
<1>3. Len(sess) \in Nat /\ DOMAIN sess = 1..Len(sess)
  BY <1>1
<1> QED BY <1>1, <1>2, <1>3 DEF SessionState, None

(* A session is made where the dictionary has none, or one that is dropped.*)
LEMMA KeptOneMore ==
    ASSUME Shape, NoOrphan, NEW s \in Sids, OneMore(s), UNCHANGED close
    PROVE  NoOrphan'
<1>1. ASSUME NEW i \in DOMAIN sess PROVE Kept(i)'
  <2>1. Remains(i) /\ sess[i].sid \in Sids /\ i # None
    BY <1>1, SessionParts DEF OneMore
  <2>2. CASE loops[sess[i].sid] = i /\ sess[i].sid = s
    BY <2>1, <2>2 DEF OneMore, Kept
  <2>3. CASE loops[sess[i].sid] = i /\ sess[i].sid # s
    BY <2>1, <2>3, SessionParts DEF OneMore, Kept, Remains
  <2>4. CASE loops[sess[i].sid] # i
    BY <1>1, <2>1, <2>4 DEF NoOrphan, Kept, Remains
  <2> QED BY <2>2, <2>3, <2>4
<1>2. ASSUME NEW i, i = Len(sess) + 1 PROVE Kept(i)'
  <2>1. sess'[i].sid = s /\ loops'[s] = i
    BY <1>2, SessionParts DEF OneMore
  <2> QED BY <2>1 DEF Kept
<1>3. \A i \in DOMAIN sess' : Kept(i)'
  BY <1>1, <1>2 DEF OneMore
<1> QED BY <1>3 DEF NoOrphan, Kept

(* A closer that takes a session out of the dictionary holds it.           *)
LEMMA KeptClosed ==
    ASSUME Shape, NoOrphan, NEW k \in Closers, NEW s \in Sids, NEW r \in CloseState,
           ClosedBy(k, s, r), UNCHANGED sess, close[k].pc # "emit"
    PROVE  NoOrphan'
<1>1. close' = [close EXCEPT ![k] = r] /\ close \in [Closers -> CloseState]
      /\ loops \in [Sids -> 0..Len(sess)]
      /\ \A i \in DOMAIN sess : sess[i].sid \in Sids
  BY SessionParts DEF ClosedBy, Shape, TypeOK
<1>2. ASSUME NEW i \in DOMAIN sess PROVE Kept(i)'
  <2>1. CASE sess[i].closed \/ sess[i].dropped # "no"
    BY <2>1 DEF Kept
  <2>2. CASE loops[sess[i].sid] = i
    <3>1. CASE UNCHANGED loops
      BY <2>2, <3>1 DEF Kept
    <3>2. CASE /\ r.pc = "emit" /\ r.session = loops[s]
               /\ loops' = [loops EXCEPT ![s] = None]
      <4>1. CASE s = sess[i].sid
        BY <1>1, <2>2, <3>2, <4>1 DEF Kept
      <4>2. CASE s # sess[i].sid
        BY <1>1, <2>2, <3>2, <4>2 DEF Kept
      <4> QED BY <4>1, <4>2
    <3> QED BY <3>1, <3>2 DEF ClosedBy
  <2>3. CASE \E q \in Closers : close[q].pc = "emit" /\ close[q].session = i
    BY <1>1, <2>3 DEF Kept
  <2> QED BY <2>1, <2>2, <2>3 DEF NoOrphan, Kept
<1> QED BY <1>2 DEF NoOrphan, Kept

(* Anything else keeps what a session is found by, or closes or drops it.  *)
LEMMA KeptSame ==
    ASSUME Shape, NoOrphan, SameSessions, UNCHANGED loops,
           \A k \in Closers : close[k].pc = "emit" =>
              \/ close'[k] = close[k]
              \/ sess'[close[k].session].closed
              \/ sess'[close[k].session].dropped # "no"
    PROVE  NoOrphan'
<1>1. ASSUME NEW i \in DOMAIN sess PROVE Kept(i)'
  BY <1>1 DEF SameSessions, NoOrphan, Kept, Remains
<1> QED BY <1>1 DEF NoOrphan, Kept, SameSessions

LEMMA KeptStep ==
    ASSUME Shape, NoOrphan, [Next]_vars
    PROVE  NoOrphan'
<1>0. close \in [Closers -> CloseState] /\ sess \in Seq(SessionState)
  BY DEF Shape, TypeOK
<1>1. ASSUME UNCHANGED <<loops, sess>>,
             \A k \in Closers : close[k].pc = "emit" => close'[k] = close[k]
      PROVE  NoOrphan'
  BY <1>1 DEF NoOrphan
<1>2. ASSUME NEW c \in Calls, NEW s \in Sids, MaybeStart(c, s), UNCHANGED close
      PROVE  NoOrphan'
  <2>1. CASE OneMore(s)
    BY <1>2, <2>1, KeptOneMore
  <2>2. CASE UNCHANGED <<loops, sess>>
    BY <1>1, <1>2, <2>2
  <2> QED BY <1>2, <2>1, <2>2, MaybeStartCases
<1>3. ASSUME NEW c \in Calls, NEW s \in Sids, StartByApi(c, s) PROVE NoOrphan'
  BY <1>2, <1>3 DEF StartByApi
<1>4. ASSUME NEW c \in Calls, Register(c) PROVE NoOrphan'
  BY <1>2, <1>4 DEF Register, Shape, CallOK
<1>5. ASSUME NEW c \in Calls, Admit(c) PROVE NoOrphan'
  <2>1. call[c].sid \in Sids
    BY <1>5 DEF Admit, Shape, CallOK
  <2>2. OneMore(call[c].sid) /\ UNCHANGED close
    BY <1>0, <1>5, <2>1, NewSessionIsOneMore DEF Admit
  <2> QED BY <2>1, <2>2, KeptOneMore
<1>6. ASSUME NEW s \in Sids, CloseByApi(s) \/ CleanupClose(s) PROVE NoOrphan'
  <2>1. PICK k \in {Rest(s), Cleanup(s)} :
           (\E r \in CloseState : ClosedBy(k, s, r)) /\ close[k].pc # "emit"
    BY <1>6, CloseBeginEffect, CloserNames DEF CloseByApi, CleanupClose
  <2>2. PICK r \in CloseState : ClosedBy(k, s, r)
    BY <2>1
  <2>3. UNCHANGED sess /\ k \in Closers
    BY <1>6, CloserNames DEF CloseByApi, CleanupClose
  <2> QED BY <2>1, <2>2, <2>3, KeptClosed
<1>7. ASSUME NEW k \in Closers, Kick(k) PROVE NoOrphan'
  <2>1. close[k].sid \in Sids
    BY <1>7, KickEffect
  <2>2. PICK r \in CloseState : ClosedBy(k, close[k].sid, r)
    BY <1>7, KickEffect
  <2>3. UNCHANGED sess /\ close[k].pc # "emit"
    BY <1>7 DEF Kick
  <2> QED BY <2>1, <2>2, <2>3, KeptClosed
<1>8. ASSUME NEW c \in Calls, CloseOldest(c) PROVE NoOrphan'
  <2>1. call[c].oldest \in Sids /\ close[Eviction(c)].pc = "no" /\ UNCHANGED sess
    BY <1>8 DEF CloseOldest, Shape, CallOK, Evicting
  <2>2. CASE CloseBegin(Eviction(c), call[c].oldest)
    <3>1. PICK r \in CloseState : ClosedBy(Eviction(c), call[c].oldest, r)
      BY <2>1, <2>2, CloseBeginEffect, CloserNames
    <3> QED BY <2>1, <3>1, KeptClosed, CloserNames
  <2>3. CASE UNCHANGED <<loops, close>>
    BY <1>1, <2>1, <2>3
  <2> QED BY <1>8, <2>2, <2>3 DEF CloseOldest
<1>9. ASSUME NEW k \in Closers, CloseAgentSession(k) \/ CloseWaited(k) PROVE NoOrphan'
  <2>1. PICK r \in CloseState : close' = [close EXCEPT ![k] = r]
    BY <1>9, CloseEffect
  <2>2. /\ SameSessions /\ UNCHANGED loops
        /\ close[k].pc = "emit" => sess'[close[k].session].closed
    BY <1>9, CloseEffect DEF CloseAgentSession, CloseWaited
  <2> QED BY <1>0, <2>1, <2>2, KeptSame
<1>10. ASSUME NEW i \in DOMAIN sess, Starter(i) PROVE NoOrphan'
  BY <1>10, StarterEffect, KeptSame
<1>11. CASE \/ UNCHANGED vars
            \/ \E c \in Calls, s \in Sids : Join(c, s)
            \/ \E c \in Calls : Disconnect(c) \/ NotifyOldest(c) \/ OldestClosed(c)
  BY <1>1, <1>11 DEF vars, Join, Disconnect, NotifyOldest, OldestClosed
<1>12. ASSUME CleanupPick PROVE NoOrphan'
  <2>1. \A k \in Closers : close[k].pc = "emit" => close'[k] = close[k]
    BY <1>12, CloserNames DEF CleanupPick, Running
  <2> QED BY <1>1, <1>12, <2>1 DEF CleanupPick
<1>13. ASSUME CleanupTimesOut PROVE NoOrphan'
  <2>1. SameSessions /\ UNCHANGED loops
    BY <1>0, <1>13, TimeoutIsSame DEF CleanupTimesOut
  <2>2. ASSUME NEW k \in Closers, close[k].pc = "emit"
        PROVE  close'[k] = close[k] \/ sess'[close[k].session].dropped # "no"
    <3>1. CASE k \in Cleanups
      <4>1. Holds(k, close[k].session) /\ close[k].session \in DOMAIN sess
        BY <2>2 DEF Holds, Shape, CloseOK
      <4> QED BY <1>0, <1>13, <3>1, <4>1, TimeoutIsSame
    <3>2. CASE k \notin Cleanups
      BY <1>13, <3>2 DEF CleanupTimesOut
    <3> QED BY <3>1, <3>2
  <2> QED BY <2>1, <2>2, KeptSame
<1> QED
  BY <1>3, <1>4, <1>5, <1>6, <1>7, <1>8, <1>9, <1>10, <1>11, <1>12, <1>13
     DEF Next, Caller, Closer

(* Every session that is not closed is found under its conversation or is  *)
(* about to be closed by the one who took it out, whatever closers, calls  *)
(* and clean-ups overlap; but for one that another session of the same     *)
(* conversation replaced and one that a clean-up dropped as it ran out of  *)
(* time.                                                                   *)
THEOREM NothingIsLost == Spec => []NoOrphan
<1>1. Init => Shape /\ NoOrphan
  BY ShapeInit DEF Init, NoOrphan
<1>2. Shape /\ NoOrphan /\ [Next]_vars => Shape' /\ NoOrphan'
  BY ShapeStep, KeptStep
<1> QED BY <1>1, <1>2, PTL DEF Spec
=============================================================================
