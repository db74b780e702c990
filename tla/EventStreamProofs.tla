------------------------- MODULE EventStreamProofs -------------------------
(***************************************************************************)
(* Proofs about EventStream, for every set of threads and callbacks, every *)
(* page size, both kinds of file store and any number of crashes:          *)
(*   TypeCorrect        the type invariant                                 *)
(*   LogIsAppendOnly    a completely written event is never overwritten    *)
(*   SeenSurvives       what a subscriber saw is on disk                   *)
(*   NoIdIsSkipped      every id is stored or about to be                  *)
(*   PagesAgree         the page cache yields what the files hold          *)
(*   NothingIsLost      a callback that stays gets all that was queued     *)
(*   QuietAfterLeaving  and one that has left is not called                *)
(*   StreamIsALog       the stream implements DurableLog                   *)
(*   CallsInOrder       a subscriber sees calls in the order they came in  *)
(* All but TypeCorrect, NothingIsLost and QuietAfterLeaving need           *)
(* Readers = {}: a thread that computes cur_id outside the lock can reset  *)
(* the counter, and an id is then given out twice.                         *)
(***************************************************************************)
EXTENDS EventStream, SequenceTheorems, WellFoundedInduction, TLAPS

(* A non-empty set of numbers has a least element.                         *)
LEMMA LeastNat ==
    ASSUME NEW T \in SUBSET Nat, T # {}
    PROVE  \E m \in T : \A n \in T : m <= n
<1> DEFINE R == OpToRel(<, Nat)
<1>1. IsWellFoundedOn(R, Nat)
  BY NatLessThanWellFounded
<1>2. PICK m \in T : \A n \in T : ~ (<<n, m>> \in R)
  <2> HIDE DEF R
  <2> QED BY <1>1, WFMin
<1>3. \A n \in T : ~ (n < m)
  BY <1>2 DEF OpToRel
<1> QED BY <1>3

(* _calculate_cur_id yields an id above every id in the store.             *)
LEMMA NextFreeSpec ==
    ASSUME NEW S \in SUBSET Nat, NEW b \in Nat, \A i \in S : i < b
    PROVE  /\ NextFree(S) \in Nat
           /\ \A i \in S : i < NextFree(S)
<1> DEFINE T == {n \in Nat : \A i \in S : i < n}
<1>1. T \in SUBSET Nat /\ T # {}
  OBVIOUS
<1>2. PICK m \in T : \A n \in T : m <= n
  BY <1>1, LeastNat
<1>3. m \in {0} \cup {i + 1 : i \in S}
  <2>1. CASE m = 0
    BY <2>1
  <2>2. CASE m # 0
    <3>1. m - 1 \in Nat /\ m - 1 \notin T
      BY <2>2, <1>2
    <3>2. PICK i \in S : ~ (i < m - 1)
      BY <3>1
    <3>3. i = m - 1
      BY <3>2, <1>2
    <3> QED BY <3>3
  <2> QED BY <2>1, <2>2
<1>4. \E n \in {0} \cup {i + 1 : i \in S} : \A i \in S : i < n
  BY <1>3
<1>5. /\ NextFree(S) \in {0} \cup {i + 1 : i \in S}
      /\ \A i \in S : i < NextFree(S)
  BY <1>4, Zenon DEF NextFree
<1>6. {0} \cup {i + 1 : i \in S} \subseteq Nat
  OBVIOUS
<1> QED BY <1>5, <1>6
-----------------------------------------------------------------------------
(***************************************************************************)
(* Type correctness.  NextFree is a number only for a bounded set of ids,  *)
(* so the inductive invariant says that the ids on disk are bounded.       *)
(***************************************************************************)
Bounded == \E b \in Nat : \A i \in DOMAIN file : i < b

(* The parts of a queue entry have the types of an id and of an event.     *)
LEMMA EntryParts ==
    ASSUME NEW id, NEW ev, [id |-> id, ev |-> ev] \in Entry
    PROVE  id \in Nat /\ ev \in Event
<1> DEFINE e == [id |-> id, ev |-> ev]
<1>1. e.id \in Nat /\ e.ev \in Event
  BY DEF Entry
<1> QED BY <1>1

(* A new stream on an empty store has its type.                            *)
LEMMA TypeInit == Init => TypeOK /\ Bounded
<1> SUFFICES ASSUME Init PROVE TypeOK /\ Bounded
  OBVIOUS
<1> USE StreamAssumption DEF Init, NewStream
<1>1. DiskOK /\ Bounded
  BY DEF DiskOK, Bounded
<1>2. WriterOK
  BY DEF WriterOK, Fresh, Locals
<1>3. DeliverOK
  <2>1. <<>> \in Seq(Entry) /\ prior \subseteq Entry \X Entry
    OBVIOUS
  <2>2. /\ sub \in [Callbacks -> BOOLEAN]
        /\ cpc \in [Callbacks -> {"off", "adding", "on", "stopping", "shutting", "removing"}]
        /\ pool \in [Callbacks -> {"none", "open", "shut"}]
        /\ keys \subseteq Callbacks /\ todo \subseteq Callbacks
    BY DEF Subscribed
  <2>3. work \in [Callbacks -> Seq(Entry)] /\ seen \in [Callbacks -> Seq(Entry)]
    BY <2>1
  <2>4. /\ queue = <<>> /\ queued = <<>> /\ disp = "check" /\ item = NoEntry
        /\ closing = "no" /\ exiting = FALSE
    OBVIOUS
  <2> HIDE DEF Init, NewStream
  <2> QED BY <2>1, <2>2, <2>3, <2>4 DEF DeliverOK
<1> QED BY <1>1, <1>2, <1>3 DEF TypeOK

(* The actions of the delivering side leave the writing side alone, and    *)
(* the other way round.                                                    *)
DeliverNext ==
    \/ ProcessQueue
    \/ \E c \in Callbacks : RunCallback(c) \/ Subscribe(c) \/ CleanUp(c)
    \/ Close
    \/ Shutdown

(* A step of the delivering side changes neither the disk nor a writer.    *)
LEMMA DeliverFrame == DeliverNext => UNCHANGED <<disk, writer, past>>
<1> QED BY DEF DeliverNext, ProcessQueue, RunCallback, Subscribe, CleanUp, Close,
       CheckStop, GetEvent, GetTimeout, Submit, FanDone, SubscribeCallback,
       SubscribePool, CleanUpLoop, CleanUpShutdown, CleanUpPool, CleanUpCallback,
       CloseBegin, CloseJoin, CloseDrain, Shutdown, churn

(* Every step keeps the files and the cache pages well-formed, and the ids *)
(* on disk bounded.                                                        *)
LEMMA DiskStep ==
    ASSUME TypeOK, Bounded, [Next]_vars
    PROVE  DiskOK' /\ Bounded'
<1> USE StreamAssumption DEF TypeOK, DiskOK, Bounded
<1>1. CASE UNCHANGED <<disk, lost, crashes>>
  BY <1>1 DEF disk
<1>2. CASE Crash
  <2>1. UNCHANGED disk /\ crashes' = crashes + 1
    BY <1>2 DEF Crash
  <2>2. \A t \in Threads : pc[t] # "idle" => my[t].id \in Nat
    BY EntryParts DEF WriterOK
  <2>3. lost' \subseteq Nat
    BY <1>2, <2>2 DEF Crash
  <2> QED BY <2>1, <2>3 DEF disk
<1>3. ASSUME NEW t \in Threads, TruncateFile(t) \/ WriteFile(t)
      PROVE  DiskOK' /\ Bounded'
  <2>1. my[t].id \in Nat /\ my[t].ev \in Event
    BY <1>3, EntryParts DEF WriterOK, TruncateFile, WriteFile
  <2>2. PICK v \in Event \cup {Torn} : file' = Put(file, my[t].id, v)
    BY <1>3, <2>1 DEF TruncateFile, WriteFile
  <2>3. PICK b \in Nat : \A i \in DOMAIN file : i < b
    OBVIOUS
  <2>4. \A i \in DOMAIN file' : i < b + my[t].id + 1
    BY <2>1, <2>2, <2>3 DEF Put
  <2>5. DOMAIN file' \subseteq Nat /\ \A i \in DOMAIN file' : file'[i] \in Event \cup {Torn}
    BY <2>1, <2>2 DEF Put
  <2>6. UNCHANGED <<cached, lost, crashes>>
    BY <1>3 DEF TruncateFile, WriteFile, past
  <2>7. Bounded'
    BY <2>1, <2>3, <2>4
  <2> QED BY <2>5, <2>6, <2>7
<1>4. ASSUME NEW t \in Threads, TruncatePage(t) \/ StorePage(t)
      PROVE  DiskOK' /\ Bounded'
  <2> DEFINE p == pages[my[t].page]
  <2>1. p \in Seq(Entry)
    <3>1. my[t].page \in 1..Len(pages) /\ pages \in Seq(Seq(Entry))
      BY <1>4 DEF WriterOK, TruncatePage, StorePage
    <3> QED BY <3>1
  <2>2. CASE UNCHANGED disk
    BY <1>1, <1>4, <2>2 DEF TruncatePage, StorePage, disk, past
  <2>3. CASE ~ UNCHANGED disk
    <3>1. Full(t) /\ UNCHANGED <<file, lost, crashes>>
      BY <1>4, <2>3 DEF TruncatePage, StorePage, disk, past
    <3>2. p[1] \in Entry
      BY <2>1, <3>1 DEF Full
    <3>3. p[1].id \in Nat
      BY <3>2 DEF Entry
    <3>4. PICK q \in {p, TornPage} : cached' = Put(cached, p[1].id, q)
      BY <1>4, <3>1 DEF TruncatePage, StorePage
    <3>5. q \in Seq(Entry)
      <4>1. <<>> \in Seq(Entry)
        OBVIOUS
      <4> QED BY <2>1, <3>4, <4>1 DEF TornPage
    <3> HIDE DEF p
    <3>6. DOMAIN cached' \subseteq Nat /\ \A s \in DOMAIN cached' : cached'[s] \in Seq(Entry)
      BY <3>3, <3>4, <3>5 DEF Put
    <3> QED BY <3>1, <3>6
  <2> QED BY <2>2, <2>3
<1>5. CASE UNCHANGED vars
  BY <1>1, <1>5 DEF vars, past
<1>7. CASE Next /\ ~ Crash /\ \A t \in Threads : ~ (TruncateFile(t) \/ WriteFile(t)
                                                 \/ TruncatePage(t) \/ StorePage(t))
  <2>1. CASE DeliverNext
    BY <1>1, <2>1, DeliverFrame DEF past
  <2> QED BY <1>1, <1>7, <2>1 DEF Next, AddEvent, ComputeCurId, DeliverNext, TakeId,
          FillPage, Enqueue, ReadCurId, ListEvents, SetCurId, past
<1> QED BY <1>2, <1>3, <1>4, <1>5, <1>7

(* Every step keeps the writers' part of the type invariant; in particular *)
(* the lock keeps having one holder at most.                               *)
LEMMA WriterStep ==
    ASSUME TypeOK, Bounded, [Next]_vars
    PROVE  WriterOK'
<1> USE StreamAssumption DEF TypeOK, WriterOK
<1>1. CASE UNCHANGED writer
  BY <1>1 DEF writer
<1>2. ASSUME NEW t \in Threads, TakeId(t)
      PROVE  WriterOK'
  <2> DEFINE id == IF cur = Unset THEN NextFree(DOMAIN file) ELSE cur
             ev == [by |-> t, n |-> added[t] + 1]
  <2>1. id \in Nat
    BY NextFreeSpec DEF DiskOK, Bounded
  <2>2. ev \in Event /\ Len(pages) \in 1..Len(pages)
    BY DEF Event
  <2>3. my' = [my EXCEPT ![t] = [id |-> id, ev |-> ev, page |-> Len(pages)]] /\ cur' = id
    BY <1>2 DEF TakeId
  <2>4. added' = [added EXCEPT ![t] = @ + 1] /\ pc' = [pc EXCEPT ![t] = "locked"]
        /\ UNCHANGED <<pages, reader>> /\ LockFree
    BY <1>2 DEF TakeId
  <2> HIDE DEF id, ev
  <2>5. my' \in [Threads -> Locals] /\ [id |-> id, ev |-> ev] \in Entry
    BY <2>1, <2>2, <2>3 DEF Locals, Entry
  <2>6. \A u \in Threads : pc'[u] # "idle" =>
           /\ [id |-> my'[u].id, ev |-> my'[u].ev] \in Entry
           /\ my'[u].page \in 1..Len(pages')
    BY <2>2, <2>3, <2>4, <2>5
  <2>7. cur' # Unset
    BY <2>1, <2>3 DEF Unset
  <2> QED BY <2>1, <2>3, <2>4, <2>5, <2>6, <2>7 DEF LockFree, reader
<1>3. ASSUME NEW t \in Threads, FillPage(t)
      PROVE  WriterOK'
  <2> DEFINE k == my[t].page
             e == [id |-> my[t].id, ev |-> my[t].ev]
             p == Append(pages[k], e)
             filled == [pages EXCEPT ![k] = p]
  <2>1. k \in 1..Len(pages) /\ e \in Entry /\ cur \in Nat
    BY <1>3 DEF FillPage
  <2>2. p \in Seq(Entry)
    BY <2>1
  <2>3. filled \in Seq(Seq(Entry)) /\ Len(filled) = Len(pages)
    BY <2>1, <2>2
  <2>4. pages' = filled \/ pages' = Append(filled, <<>>)
    BY <1>3 DEF FillPage
  <2> HIDE DEF filled
  <2>5. pages' \in Seq(Seq(Entry)) /\ Len(pages') >= Len(pages) /\ Len(pages') \in Nat
    <3>1. CASE pages' = filled
      BY <2>3, <3>1
    <3>2. CASE pages' = Append(filled, <<>>)
      <4>1. <<>> \in Seq(Entry)
        OBVIOUS
      <4> QED BY <2>3, <3>2, <4>1
    <3> QED BY <2>4, <3>1, <3>2
  <2>6. pages' # <<>> /\ 1..Len(pages) \subseteq 1..Len(pages')
    BY <2>5
  <2>7. pc' = [pc EXCEPT ![t] = "write"] /\ cur' = cur + 1 /\ UNCHANGED <<added, my, reader>>
    BY <1>3 DEF FillPage
  <2>8. cur' \in Nat /\ cur' # Unset
    BY <2>1, <2>7 DEF Unset
  <2>9. \A u \in Threads : pc'[u] # "idle" =>
           /\ [id |-> my'[u].id, ev |-> my'[u].ev] \in Entry
           /\ my'[u].page \in 1..Len(pages')
    <3>1. \A u \in Threads : pc'[u] # "idle" => pc[u] # "idle"
      BY <1>3, <2>7 DEF FillPage
    <3> QED BY <2>6, <2>7, <3>1
  <2>10. \A u \in Threads : pc'[u] = "locked" => pc[u] = "locked"
    BY <2>7
  <2> QED BY <2>5, <2>6, <2>7, <2>8, <2>9, <2>10 DEF reader
<1>4. ASSUME NEW t \in Threads,
             TruncateFile(t) \/ WriteFile(t) \/ TruncatePage(t) \/ StorePage(t)
      PROVE  WriterOK'
  <2>1. PICK w \in {"opened", "page", "paging", "put"} : pc' = [pc EXCEPT ![t] = w]
    BY <1>4 DEF TruncateFile, WriteFile, TruncatePage, StorePage
  <2>2. pc[t] # "idle" /\ UNCHANGED <<cur, pages, added, my, reader>>
    BY <1>4 DEF TruncateFile, WriteFile, TruncatePage, StorePage
  <2> QED BY <2>1, <2>2 DEF reader
<1>5. ASSUME NEW t \in Threads, Enqueue(t)
      PROVE  WriterOK'
  BY <1>5 DEF Enqueue, Fresh, Locals, reader
<1>6. ASSUME NEW r \in Readers, ComputeCurId(r)
      PROVE  WriterOK'
  <2>1. CASE ReadCurId(r)
    BY <2>1 DEF ReadCurId
  <2>2. CASE ListEvents(r)
    <3>1. NextFree(DOMAIN file) \in Nat
      BY NextFreeSpec DEF DiskOK, Bounded
    <3> QED BY <2>2, <3>1 DEF ListEvents, Unset
  <2>3. CASE SetCurId(r)
    BY <2>3 DEF SetCurId
  <2> QED BY <1>6, <2>1, <2>2, <2>3 DEF ComputeCurId
<1>7. CASE Crash
  BY <1>7 DEF Crash, Fresh, Locals
<1>8. CASE DeliverNext
  BY <1>1, <1>8, DeliverFrame
<1>9. CASE UNCHANGED vars
  BY <1>1, <1>9 DEF vars
<1> QED BY <1>2, <1>3, <1>4, <1>5, <1>6, <1>7, <1>8, <1>9 DEF Next, AddEvent, DeliverNext

(* The actions of the writing side but the last step of add_event, which   *)
(* puts the event on the queue, leave the delivering side alone.           *)
LEMMA WriterFrame ==
    ASSUME NEW t \in Threads, AddEvent(t), ~ Enqueue(t)
    PROVE  UNCHANGED deliver
<1> QED BY DEF AddEvent, TakeId, FillPage, TruncateFile, WriteFile, TruncatePage, StorePage

(* Every step keeps the delivering part of the type invariant.             *)
LEMMA DeliverStep ==
    ASSUME TypeOK, Bounded, [Next]_vars
    PROVE  DeliverOK'
<1> USE StreamAssumption DEF TypeOK, DeliverOK
<1>1. CASE UNCHANGED <<deliver, prior>>
  BY <1>1 DEF deliver
<1>10. ASSUME NEW t \in Threads, TakeId(t)
       PROVE  DeliverOK'
  <2> DEFINE e == [id |-> cur', ev |-> [by |-> t, n |-> added[t] + 1]]
  <2>1. cur' \in Nat
    BY <1>10, NextFreeSpec DEF TakeId, DiskOK, WriterOK, Bounded
  <2>2. e \in Entry
    BY <2>1 DEF Entry, Event, WriterOK
  <2>3. prior' = prior \cup {<<queued[i], e>> : i \in DOMAIN queued}
    BY <1>10 DEF TakeId
  <2> HIDE DEF e
  <2>4. prior' \subseteq Entry \X Entry
    BY <2>2, <2>3
  <2>5. UNCHANGED deliver
    BY <1>10 DEF TakeId
  <2> QED BY <2>4, <2>5 DEF deliver
<1>2. ASSUME NEW t \in Threads, Enqueue(t)
      PROVE  DeliverOK'
  <2> DEFINE e == [id |-> my[t].id, ev |-> my[t].ev]
  <2>1. e \in Entry
    BY <1>2 DEF Enqueue, WriterOK
  <2>2. queue' = Append(queue, e) /\ queued' = Append(queued, e)
    BY <1>2 DEF Enqueue
  <2> HIDE DEF e
  <2>3. queue' \in Seq(Entry) /\ queued' \in Seq(Entry)
    BY <2>1, <2>2
  <2>4. UNCHANGED <<disp, item, todo, keys, sub, pool, work, cpc, closing, exiting, seen,
                    prior>>
    BY <1>2 DEF Enqueue, past
  <2> QED BY <2>3, <2>4
<1> USE DEF ending, past
<1>3. CASE CheckStop \/ GetTimeout \/ FanDone
  BY <1>3 DEF CheckStop, GetTimeout, FanDone, subscribing
<1>4. CASE GetEvent
  <2>1. Head(queue) \in Entry /\ Tail(queue) \in Seq(Entry)
    BY <1>4, HeadTailProperties DEF GetEvent
  <2> QED BY <1>4, <2>1 DEF GetEvent, subscribing
<1>5. ASSUME NEW c \in Callbacks, Submit(c)
      PROVE  DeliverOK'
  <2>1. item \in Entry
    BY <1>5 DEF Submit
  <2>2. work' \in [Callbacks -> Seq(Entry)]
    <3>1. Append(work[c], item) \in Seq(Entry)
      BY <2>1
    <3> QED BY <1>5, <3>1 DEF Submit
  <2>3. /\ disp' \in {"fan", "dead"} /\ todo' \subseteq Callbacks
        /\ UNCHANGED <<queue, item, subscribing, ending, queued, seen, past>>
    BY <1>5 DEF Submit
  <2> QED BY <2>1, <2>2, <2>3 DEF subscribing
<1>6. ASSUME NEW c \in Callbacks, RunCallback(c)
      PROVE  DeliverOK'
  <2>1. Head(work[c]) \in Entry /\ Tail(work[c]) \in Seq(Entry)
    BY <1>6, HeadTailProperties DEF RunCallback
  <2>2. seen' \in [Callbacks -> Seq(Entry)] /\ work' \in [Callbacks -> Seq(Entry)]
    <3>1. Append(seen[c], Head(work[c])) \in Seq(Entry)
      BY <2>1
    <3> QED BY <1>6, <2>1, <3>1 DEF RunCallback
  <2>3. UNCHANGED <<queue, dispatching, subscribing, ending, queued, past>>
    BY <1>6 DEF RunCallback
  <2> QED BY <2>2, <2>3 DEF subscribing, dispatching
<1>7. ASSUME NEW c \in Callbacks, Subscribe(c) \/ CleanUp(c)
      PROVE  DeliverOK'
  <2>1. UNCHANGED <<queue, dispatching, work, ending, queued, seen, past>>
    BY <1>7 DEF Subscribe, CleanUp, SubscribeCallback, SubscribePool, CleanUpLoop,
       CleanUpShutdown, CleanUpPool, CleanUpCallback, churn
  <2>2. /\ keys' \subseteq Callbacks /\ sub' \in [Callbacks -> BOOLEAN]
        /\ pool' \in [Callbacks -> {"none", "open", "shut"}]
        /\ cpc' \in [Callbacks -> {"off", "adding", "on", "stopping", "shutting",
                                    "removing"}]
    <3>1. CASE Subscribe(c)
      BY <3>1 DEF Subscribe, SubscribeCallback, SubscribePool
    <3>2. CASE CleanUp(c)
      BY <3>2 DEF CleanUp, CleanUpLoop, CleanUpShutdown, CleanUpPool, CleanUpCallback
    <3> QED BY <1>7, <3>1, <3>2
  <2> QED BY <2>1, <2>2 DEF dispatching
<1>8. CASE CloseBegin \/ CloseJoin \/ Shutdown
  BY <1>8 DEF CloseBegin, CloseJoin, Shutdown, dispatching, subscribing
<1>9. CASE CloseDrain
  <2>1. <<>> \in Seq(Entry)
    OBVIOUS
  <2> QED BY <1>9, <2>1 DEF CloseDrain, dispatching, subscribing
<1>11. CASE Crash
  <2>1. <<>> \in Seq(Entry) /\ prior' \subseteq Entry \X Entry
    BY <1>11 DEF Crash
  <2>2. /\ sub' \in [Callbacks -> BOOLEAN]
        /\ cpc' \in [Callbacks -> {"off", "adding", "on", "stopping", "shutting",
                                    "removing"}]
        /\ pool' \in [Callbacks -> {"none", "open", "shut"}]
        /\ keys' \subseteq Callbacks /\ todo' \subseteq Callbacks
    BY <1>11 DEF Crash, Subscribed
  <2>3. work' \in [Callbacks -> Seq(Entry)] /\ seen' \in [Callbacks -> Seq(Entry)]
    BY <1>11, <2>1 DEF Crash
  <2>4. /\ queue' = <<>> /\ queued' = <<>> /\ disp' = "check" /\ item' = NoEntry
        /\ closing' = "no" /\ exiting' = FALSE
    BY <1>11 DEF Crash
  <2> QED BY <2>1, <2>2, <2>3, <2>4
<1>12. ASSUME NEW r \in Readers, ComputeCurId(r)
       PROVE  DeliverOK'
  BY <1>1, <1>12 DEF ComputeCurId, ReadCurId, ListEvents, SetCurId
<1>13. CASE UNCHANGED vars
  BY <1>1, <1>13 DEF vars
<1>14. ASSUME NEW t \in Threads, AddEvent(t), ~ Enqueue(t), ~ TakeId(t)
       PROVE  DeliverOK'
  BY <1>1, <1>14 DEF AddEvent, FillPage, TruncateFile, WriteFile, TruncatePage, StorePage
<1> QED BY <1>2, <1>3, <1>4, <1>5, <1>6, <1>7, <1>8, <1>9, <1>10, <1>11, <1>12,
        <1>13, <1>14 DEF Next, ProcessQueue, Close

(* The state of the stream has its type in every reachable state, for any  *)
(* threads, readers and subscribers, any page size and any crashes.        *)
THEOREM TypeCorrect == Spec => []TypeOK
<1>1. Init => TypeOK /\ Bounded
  BY TypeInit
<1>2. (TypeOK /\ Bounded) /\ [Next]_vars => (TypeOK /\ Bounded)'
  BY DiskStep, WriterStep, DeliverStep DEF TypeOK
<1> QED BY <1>1, <1>2, PTL DEF Spec
-----------------------------------------------------------------------------
(***************************************************************************)
(* The log on disk is append-only.  With no unlocked reader of cur_id, an  *)
(* id that a thread holds and has not yet written is on nobody else's      *)
(* hands and not on disk, and cur_id is above every id given out.          *)
(***************************************************************************)
Flight ==
    /\ cur # Unset => \A i \in DOMAIN file : i < cur
    /\ cur = Unset => \A t \in Threads : pc[t] = "idle"
    /\ \A t \in Threads : pc[t] = "locked" => my[t].id = cur
    /\ \A t \in Threads : pc[t] \notin {"idle", "locked"} => my[t].id < cur
    /\ \A t, u \in Threads :
          pc[t] # "idle" /\ pc[u] # "idle" /\ t # u => my[t].id # my[u].id
    /\ \A t \in Threads : pc[t] \in {"locked", "write"} => my[t].id \notin DOMAIN file
    /\ \A t \in Threads :
          pc[t] = "opened" => my[t].id \in DOMAIN file /\ file[my[t].id] = Torn

LogInv == TypeOK /\ Bounded /\ Flight

(* The ids in flight stay distinct, below cur_id and off the disk.         *)
LEMMA FlightStep ==
    ASSUME Readers = {}, LogInv, [Next]_vars
    PROVE  Flight'
<1> USE StreamAssumption DEF LogInv, Flight
<1>0. WriterOK /\ WriterOK'
  BY WriterStep DEF TypeOK
<1>1. CASE UNCHANGED <<file, cur, pc, my>>
  BY <1>1
<1>2. ASSUME NEW t \in Threads, TakeId(t)
      PROVE  Flight'
  <2> DEFINE id == IF cur = Unset THEN NextFree(DOMAIN file) ELSE cur
  <2>1. id \in Nat /\ \A i \in DOMAIN file : i < id
    BY <1>0, NextFreeSpec DEF TypeOK, DiskOK, WriterOK, Bounded
  <2>2. /\ cur' = id /\ my'[t].id = id /\ UNCHANGED file
        /\ \A u \in Threads \ {t} : my'[u] = my[u]
        /\ pc' = [pc EXCEPT ![t] = "locked"] /\ pc[t] = "idle" /\ LockFree
    BY <1>0, <1>2 DEF TakeId, WriterOK, disk
  <2>3. \A u \in Threads : pc[u] # "idle" => cur' = cur /\ my[u].id < cur /\ cur # Unset
    BY <1>0, <2>2 DEF LockFree, WriterOK
  <2>4. /\ DOMAIN file \subseteq Nat
        /\ pc \in [Threads -> {"idle", "locked", "write", "opened", "page", "paging", "put"}]
    BY <1>0 DEF TypeOK, DiskOK, WriterOK
  <2>5. \A u \in Threads : pc[u] # "idle" => my[u].id \in Nat
    BY <1>0, EntryParts DEF WriterOK
  <2> HIDE DEF id
  <2> QED BY <2>1, <2>2, <2>3, <2>4, <2>5 DEF Unset
<1>3. ASSUME NEW t \in Threads, FillPage(t)
      PROVE  Flight'
  <2>1. cur \in Nat /\ cur' = cur + 1 /\ pc[t] = "locked" /\ pc' = [pc EXCEPT ![t] = "write"]
        /\ UNCHANGED <<file, my>>
    BY <1>0, <1>3 DEF FillPage, WriterOK, disk
  <2>2. DOMAIN file \subseteq Nat
    BY DEF TypeOK, DiskOK
  <2>3. \A u \in Threads : pc[u] # "idle" => my[u].id \in Nat
    BY <1>0, EntryParts DEF WriterOK
  <2>4. \A u \in Threads : u # t => pc[u] # "locked" /\ pc'[u] = pc[u]
    BY <1>0, <2>1 DEF WriterOK
  <2>5. pc'[t] = "write" /\ my[t].id = cur
    BY <1>0, <2>1 DEF WriterOK
  <2>6. cur' # Unset /\ cur < cur' /\ \A i \in DOMAIN file : i < cur'
    BY <2>1, <2>2 DEF Unset
  <2>7. \A u \in Threads : pc'[u] # "idle" => my'[u].id < cur' /\ pc[u] # "idle"
    <3>1. ASSUME NEW u \in Threads, u # t, pc'[u] # "idle"
          PROVE  my[u].id < cur /\ pc[u] # "idle"
      BY <2>4, <3>1
    <3> QED BY <2>1, <2>3, <2>5, <2>6, <3>1
  <2>8. \A u \in Threads : pc'[u] # "locked"
    BY <2>4, <2>5
  <2>9. \A u \in Threads : pc'[u] \in {"locked", "write"} => pc[u] \in {"locked", "write"}
    BY <2>1, <2>4
  <2>10. \A u \in Threads : pc'[u] = "opened" => pc[u] = "opened"
    BY <2>4, <2>5
  <2> QED BY <2>1, <2>6, <2>7, <2>8, <2>9, <2>10
<1>4. ASSUME NEW t \in Threads, TruncateFile(t) \/ WriteFile(t)
      PROVE  Flight'
  <2>1. PICK v : /\ file' = Put(file, my[t].id, v)
                 /\ pc' = [pc EXCEPT ![t] = IF WriteFile(t) THEN "page" ELSE "opened"]
                 /\ ~ WriteFile(t) => v = Torn
    BY <1>4 DEF TruncateFile, WriteFile
  <2>2. UNCHANGED <<cur, my>> /\ pc[t] \in {"write", "opened"}
    BY <1>4 DEF TruncateFile, WriteFile
  <2>3. DOMAIN file' = DOMAIN file \cup {my[t].id}
        /\ file'[my[t].id] = v
        /\ \A i \in DOMAIN file \ {my[t].id} : file'[i] = file[i]
    BY <2>1 DEF Put
  <2>4. /\ \A u \in Threads \ {t} : pc'[u] = pc[u]
        /\ pc'[t] \in {"opened", "page"}
        /\ pc'[t] = "opened" => v = Torn
    BY <1>0, <2>1 DEF WriterOK
  <2>5. cur' # Unset => \A i \in DOMAIN file' : i < cur'
    BY <2>2, <2>3
  <2>6. cur' # Unset
    BY <2>2
  <2>7. \A u \in Threads : pc'[u] = "locked" => my'[u].id = cur'
    BY <2>2, <2>4
  <2>8. \A u \in Threads : pc'[u] \notin {"idle", "locked"} => my'[u].id < cur'
    BY <2>2, <2>4
  <2>9. \A u, w \in Threads :
          pc'[u] # "idle" /\ pc'[w] # "idle" /\ u # w => my'[u].id # my'[w].id
    BY <2>2, <2>4
  <2>10. \A u \in Threads \ {t} : pc'[u] # "idle" => my'[u].id # my[t].id
    BY <2>2, <2>4
  <2>11. \A u \in Threads : pc'[u] \in {"locked", "write"} => my'[u].id \notin DOMAIN file'
    BY <2>2, <2>3, <2>4, <2>10
  <2>12. \A u \in Threads :
          pc'[u] = "opened" => my'[u].id \in DOMAIN file' /\ file'[my'[u].id] = Torn
    BY <2>2, <2>3, <2>4, <2>10
  <2> QED BY <2>5, <2>6, <2>7, <2>8, <2>9, <2>11, <2>12
<1>5. ASSUME NEW t \in Threads, TruncatePage(t) \/ StorePage(t) \/ Enqueue(t)
      PROVE  Flight'
  <2>1. UNCHANGED cur
    BY <1>5 DEF TruncatePage, StorePage, Enqueue
  <2>2. UNCHANGED file
    BY <1>5 DEF TruncatePage, StorePage, Enqueue, disk
  <2>3. \A u \in Threads : pc'[u] # "idle" =>
           my'[u] = my[u] /\ pc[u] # "idle" /\ (pc'[u] = pc[u] \/ pc'[u] \in {"paging", "put"})
    BY <1>0, <1>5 DEF TruncatePage, StorePage, Enqueue, WriterOK
  <2>4. \A u \in Threads : pc[u] = "idle" => pc'[u] = "idle"
    BY <1>0, <1>5 DEF TruncatePage, StorePage, Enqueue, WriterOK
  <2>5. pc[t] \notin {"idle", "locked"}
    BY <1>5 DEF TruncatePage, StorePage, Enqueue
  <2>6. \A u \in Threads : pc'[u] \in {"paging", "put"} => pc[u] \notin {"idle", "locked"}
    BY <1>0, <1>5 DEF TruncatePage, StorePage, Enqueue, WriterOK
  <2> QED BY <2>1, <2>2, <2>3, <2>4, <2>5, <2>6
<1>6. CASE Crash
  BY <1>6 DEF Crash, disk
<1>7. CASE DeliverNext \/ UNCHANGED vars
  BY <1>1, <1>7, DeliverFrame DEF vars, disk, writer
<1>8. ASSUME NEW t \in Threads, AddEvent(t)
      PROVE  Flight'
  <2> HIDE DEF LogInv, Flight
  <2> QED BY <1>2, <1>3, <1>4, <1>5, <1>8 DEF AddEvent
<1> HIDE DEF LogInv, Flight
<1> QED BY <1>6, <1>7, <1>8 DEF Next, DeliverNext

Append1 == \A i \in DOMAIN file : file[i] # Torn =>
              i \in DOMAIN file' /\ file'[i] = file[i]

(* No step overwrites a completely written file: the file a thread writes  *)
(* is absent, or the one it has truncated itself.                          *)
LEMMA NeverRewritten ==
    ASSUME Readers = {}, LogInv, [Next]_vars
    PROVE  Append1
<1> USE DEF Append1
<1>1. CASE UNCHANGED file
  BY <1>1
<1>2. ASSUME NEW t \in Threads, TruncateFile(t) \/ WriteFile(t)
      PROVE  Append1
  <2>1. my[t].id \in DOMAIN file => file[my[t].id] = Torn
    BY <1>2 DEF TruncateFile, WriteFile, LogInv, Flight
  <2>2. PICK v : file' = Put(file, my[t].id, v)
    BY <1>2 DEF TruncateFile, WriteFile
  <2> QED BY <2>1, <2>2 DEF Put
<1>3. CASE DeliverNext \/ UNCHANGED vars
  BY <1>1, <1>3, DeliverFrame DEF vars, disk
<1>4. CASE Crash
  BY <1>1, <1>4 DEF Crash, disk
<1>5. ASSUME NEW t \in Threads, AddEvent(t)
      PROVE  Append1
  BY <1>1, <1>2, <1>5 DEF AddEvent, TakeId, FillPage, TruncatePage, StorePage, Enqueue,
     disk
<1> QED BY <1>3, <1>4, <1>5 DEF Next, DeliverNext

(* A new stream satisfies the invariant ...                                *)
LEMMA LogInit == Init => LogInv
<1>1. Init => Flight
  BY StreamAssumption DEF Init, NewStream, Flight
<1> QED BY <1>1, TypeInit DEF LogInv

(* ... and every step keeps it.                                            *)
LEMMA LogStep ==
    ASSUME Readers = {}
    PROVE  LogInv /\ [Next]_vars => LogInv'
<1> QED BY DiskStep, WriterStep, DeliverStep, FlightStep DEF LogInv, TypeOK

(* No add_event, before or after any number of crashes, rewrites the file  *)
(* of an event that was completely written - provided cur_id is only ever  *)
(* computed under the lock.                                                *)
THEOREM LogIsAppendOnly ==
    ASSUME Readers = {}
    PROVE  Spec => StoredForever
<1>1. Init => LogInv
  BY LogInit
<1>2. LogInv /\ [Next]_vars => LogInv'
  BY LogStep
<1>3. LogInv /\ [Next]_vars => [Append1]_vars
  BY NeverRewritten
<1> QED BY <1>1, <1>2, <1>3, PTL DEF Spec, StoredForever, Append1
-----------------------------------------------------------------------------
(***************************************************************************)
(* What a subscriber saw is on disk: every event on its way from the file  *)
(* store to a callback is stored already, and stays so.                    *)
(***************************************************************************)
OnDisk(e) == e.id \in DOMAIN file /\ file[e.id] = e.ev
Hand(t) == [id |-> my[t].id, ev |-> my[t].ev]
HandsDurable == \A t \in Threads : pc[t] \in {"page", "paging", "put"} => OnDisk(Hand(t))
PathDurable ==
    /\ \A i \in DOMAIN queue : OnDisk(queue[i])
    /\ disp = "fan" => OnDisk(item)
    /\ \A c \in Callbacks : \A i \in DOMAIN work[c] : OnDisk(work[c][i])
    /\ \A c \in Callbacks : \A i \in DOMAIN seen[c] : OnDisk(seen[c][i])
Durable == HandsDurable /\ PathDurable

(* An event that is on disk stays there in a step that rewrites no file.   *)
LEMMA StaysOnDisk ==
    ASSUME Append1, NEW e \in Entry, OnDisk(e)
    PROVE  OnDisk(e)'
<1>1. e.ev # Torn
  BY StreamAssumption DEF Entry, Event, Torn
<1> QED BY <1>1 DEF Append1, OnDisk

(* An event whose file its thread has written is on disk.                  *)
LEMMA HandsStep ==
    ASSUME TypeOK, Append1, Durable, [Next]_vars
    PROVE  HandsDurable'
<1> USE DEF HandsDurable
<1>0. WriterOK /\ HandsDurable
  BY DEF TypeOK, Durable
<1>1. \A t \in Threads :
          pc[t] \in {"page", "paging", "put"} => OnDisk(Hand(t)) /\ Hand(t) \in Entry
  BY <1>0 DEF WriterOK, Hand
<1>2. ASSUME NEW u \in Threads, pc'[u] \in {"page", "paging", "put"},
             pc[u] \in {"page", "paging", "put"}, my'[u] = my[u]
      PROVE  OnDisk(Hand(u))'
  <2>1. PICK e \in Entry : e = Hand(u) /\ OnDisk(e)
    BY <1>1, <1>2
  <2>2. OnDisk(e)'
    BY <2>1, StaysOnDisk
  <2>3. Hand(u)' = e
    BY <1>2, <2>1 DEF Hand
  <2> QED BY <2>2, <2>3 DEF OnDisk
<1>3. CASE UNCHANGED <<pc, my>>
  BY <1>2, <1>3
<1>4. ASSUME NEW t \in Threads, TakeId(t) \/ FillPage(t) \/ TruncateFile(t) \/ Enqueue(t)
      PROVE  HandsDurable'
  <2>1. \A u \in Threads : pc'[u] \in {"page", "paging", "put"} =>
            pc[u] \in {"page", "paging", "put"} /\ my'[u] = my[u]
    BY <1>0, <1>4 DEF WriterOK, TakeId, FillPage, TruncateFile, Enqueue
  <2> QED BY <1>2, <2>1
<1>5. ASSUME NEW t \in Threads, TruncatePage(t) \/ StorePage(t)
      PROVE  HandsDurable'
  <2>1. \A u \in Threads : pc'[u] \in {"page", "paging", "put"} =>
            pc[u] \in {"page", "paging", "put"} /\ my'[u] = my[u]
    BY <1>0, <1>5 DEF WriterOK, TruncatePage, StorePage
  <2> QED BY <1>2, <2>1
<1>6. ASSUME NEW t \in Threads, WriteFile(t)
      PROVE  HandsDurable'
  <2>1. \A u \in Threads \ {t} : pc'[u] \in {"page", "paging", "put"} =>
            pc[u] \in {"page", "paging", "put"} /\ my'[u] = my[u]
    BY <1>0, <1>6 DEF WriterOK, WriteFile
  <2>2. OnDisk(Hand(t))'
    BY <1>6 DEF WriteFile, Put, OnDisk, Hand
  <2> QED BY <1>2, <2>1, <2>2
<1>7. CASE DeliverNext \/ UNCHANGED vars
  BY <1>3, <1>7, DeliverFrame DEF vars, writer
<1>8. CASE Crash
  BY <1>8 DEF Crash
<1>9. ASSUME NEW r \in Readers, ComputeCurId(r)
      PROVE  HandsDurable'
  BY <1>3, <1>9 DEF ComputeCurId, ReadCurId, ListEvents, SetCurId
<1> QED BY <1>4, <1>5, <1>6, <1>7, <1>8, <1>9 DEF Next, AddEvent, DeliverNext

(* An event between the queue and a callback is on disk.                   *)
LEMMA PathStep ==
    ASSUME TypeOK, Append1, Durable, [Next]_vars
    PROVE  PathDurable'
<1> USE DEF PathDurable
<1>0. WriterOK /\ DeliverOK /\ HandsDurable /\ PathDurable
  BY DEF TypeOK, Durable
<1>1. \A e \in Entry : OnDisk(e) => e.id \in DOMAIN file' /\ file'[e.id] = e.ev
  BY StaysOnDisk DEF OnDisk
<1> DEFINE Kept(e) == e \in Entry /\ e.id \in DOMAIN file' /\ file'[e.id] = e.ev
<1>2. \A i \in DOMAIN queue : Kept(queue[i])
  BY <1>0, <1>1 DEF DeliverOK
<1>3. disp = "fan" => Kept(item)
  BY <1>0, <1>1 DEF DeliverOK
<1>4. \A c \in Callbacks : \A i \in DOMAIN work[c] : Kept(work[c][i])
  BY <1>0, <1>1 DEF DeliverOK
<1>5. \A c \in Callbacks : \A i \in DOMAIN seen[c] : Kept(seen[c][i])
  BY <1>0, <1>1 DEF DeliverOK
<1>6. CASE UNCHANGED <<queue, disp, item, work, seen>>
  BY <1>2, <1>3, <1>4, <1>5, <1>6 DEF OnDisk
<1>7. ASSUME NEW t \in Threads, Enqueue(t)
      PROVE  PathDurable'
  <2>1. Kept(Hand(t))
    BY <1>0, <1>1, <1>7 DEF WriterOK, HandsDurable, Enqueue, Hand
  <2>2. queue' = Append(queue, Hand(t)) /\ UNCHANGED <<disp, item, work, seen>>
    BY <1>7 DEF Enqueue, Hand
  <2>3. \A i \in DOMAIN queue' : Kept(queue'[i])
    BY <1>0, <1>2, <2>1, <2>2 DEF DeliverOK
  <2> QED BY <1>3, <1>4, <1>5, <2>2, <2>3 DEF OnDisk
<1>8. CASE GetEvent
  <2>1. Kept(Head(queue)) /\ \A i \in DOMAIN Tail(queue) : Kept(Tail(queue)[i])
    BY <1>0, <1>2, <1>8 DEF DeliverOK, GetEvent
  <2>2. queue' = Tail(queue) /\ item' = Head(queue) /\ UNCHANGED <<work, seen>>
    BY <1>8 DEF GetEvent
  <2> QED BY <1>4, <1>5, <2>1, <2>2 DEF OnDisk
<1>9. CASE CheckStop \/ GetTimeout \/ FanDone
  <2>1. disp' # "fan" /\ UNCHANGED <<queue, work, seen>>
    BY <1>9 DEF CheckStop, GetTimeout, FanDone
  <2> QED BY <1>2, <1>4, <1>5, <2>1 DEF OnDisk
<1>10. ASSUME NEW c \in Callbacks, Submit(c)
       PROVE  PathDurable'
  <2>1. disp = "fan" /\ UNCHANGED <<queue, item, seen>>
    BY <1>10 DEF Submit
  <2>2. work' = work \/ work' = [work EXCEPT ![c] = Append(@, item)]
    BY <1>10 DEF Submit
  <2>3. \A d \in Callbacks : \A i \in DOMAIN work'[d] : Kept(work'[d][i])
    <3>1. CASE work' = work
      BY <1>4, <3>1
    <3>2. CASE work' = [work EXCEPT ![c] = Append(@, item)]
      <4>1. \A i \in DOMAIN Append(work[c], item) : Kept(Append(work[c], item)[i])
        BY <1>0, <1>3, <1>4, <2>1 DEF DeliverOK
      <4>2. work'[c] = Append(work[c], item) /\ \A d \in Callbacks \ {c} : work'[d] = work[d]
        BY <1>0, <3>2 DEF DeliverOK
      <4> QED BY <1>4, <4>1, <4>2
    <3> QED BY <2>2, <3>1, <3>2
  <2> QED BY <1>2, <1>3, <1>5, <2>1, <2>3 DEF OnDisk
<1>11. ASSUME NEW c \in Callbacks, RunCallback(c)
       PROVE  PathDurable'
  <2>1. /\ work[c] # <<>> /\ UNCHANGED <<queue, disp, item>>
        /\ seen' = [seen EXCEPT ![c] = Append(@, Head(work[c]))] \/ seen' = seen
        /\ work' = [work EXCEPT ![c] = Tail(@)]
    BY <1>11 DEF RunCallback, dispatching
  <2>2. Kept(Head(work[c])) /\ \A i \in DOMAIN Tail(work[c]) : Kept(Tail(work[c])[i])
    BY <1>0, <1>4, <2>1 DEF DeliverOK
  <2>3. \A i \in DOMAIN Append(seen[c], Head(work[c])) :
            Kept(Append(seen[c], Head(work[c]))[i])
    BY <1>0, <1>5, <2>2 DEF DeliverOK
  <2>4. /\ work'[c] = Tail(work[c])
        /\ seen'[c] = Append(seen[c], Head(work[c])) \/ seen'[c] = seen[c]
        /\ \A d \in Callbacks \ {c} : work'[d] = work[d] /\ seen'[d] = seen[d]
    BY <1>0, <2>1 DEF DeliverOK
  <2>5. /\ \A i \in DOMAIN work'[c] : Kept(work'[c][i])
        /\ \A i \in DOMAIN seen'[c] : Kept(seen'[c][i])
    <3> HIDE DEF Kept
    <3> QED BY <1>5, <2>2, <2>3, <2>4
  <2>6. \A d \in Callbacks : /\ \A i \in DOMAIN work'[d] : Kept(work'[d][i])
                            /\ \A i \in DOMAIN seen'[d] : Kept(seen'[d][i])
    <3> HIDE DEF Kept
    <3> QED BY <1>4, <1>5, <2>4, <2>5
  <2> QED BY <1>2, <1>3, <2>1, <2>6 DEF OnDisk
<1>12. ASSUME NEW c \in Callbacks, Subscribe(c) \/ CleanUp(c)
       PROVE  PathDurable'
  BY <1>6, <1>12 DEF Subscribe, CleanUp, SubscribeCallback, SubscribePool,
     CleanUpLoop, CleanUpShutdown, CleanUpPool, CleanUpCallback, churn, dispatching
<1>13. CASE Close
  <2>1. CASE CloseDrain
    <3>1. queue' = <<>> /\ UNCHANGED <<disp, item, work, seen>>
      BY <2>1 DEF CloseDrain, dispatching
    <3> QED BY <1>3, <1>4, <1>5, <3>1 DEF OnDisk
  <2>2. CASE ~ CloseDrain
    BY <1>6, <1>13, <2>2 DEF Close, CloseBegin, CloseJoin, dispatching
  <2> QED BY <2>1, <2>2
<1>18. CASE Shutdown
  BY <1>6, <1>18 DEF Shutdown, dispatching
<1>14. CASE Crash
  BY <1>14 DEF Crash
<1>15. ASSUME NEW t \in Threads, AddEvent(t), ~ Enqueue(t)
       PROVE  PathDurable'
  BY <1>6, <1>15, WriterFrame DEF deliver
<1>16. ASSUME NEW r \in Readers, ComputeCurId(r)
       PROVE  PathDurable'
  BY <1>6, <1>16 DEF ComputeCurId, ReadCurId, ListEvents, SetCurId, deliver
<1>17. CASE UNCHANGED vars
  BY <1>6, <1>17 DEF vars, deliver
<1> QED BY <1>7, <1>8, <1>9, <1>10, <1>11, <1>12, <1>13, <1>14, <1>15, <1>16, <1>17,
        <1>18 DEF Next, ProcessQueue

(* A subscriber is called only with events that are in the file store, and *)
(* they stay there: no restart loses what somebody has acted upon.         *)
THEOREM SeenSurvives ==
    ASSUME Readers = {}
    PROVE  Spec => []SeenIsStored
<1> DEFINE Inv == LogInv /\ Durable
<1>1. Init => Inv
  BY LogInit, StreamAssumption DEF Init, NewStream, Durable, HandsDurable, PathDurable
<1>2. Inv /\ [Next]_vars => Inv'
  <2> SUFFICES ASSUME LogInv, Durable, [Next]_vars PROVE LogInv' /\ Durable'
    OBVIOUS
  <2>1. TypeOK /\ Append1
    BY NeverRewritten DEF LogInv
  <2> QED BY <2>1, LogStep, HandsStep, PathStep DEF Durable
<1>3. Inv => SeenIsStored
  BY DEF Durable, PathDurable, OnDisk, SeenIsStored
<1> QED BY <1>1, <1>2, <1>3, PTL DEF Spec
-----------------------------------------------------------------------------
(***************************************************************************)
(* No id is skipped.  The first id is 0 because cur_id is computed once,   *)
(* from an empty store, if nothing was killed; and a thread that has left  *)
(* add_event has left its file behind (HandsDurable).                      *)
(***************************************************************************)
EmptyAtFirst == crashes = 0 /\ cur = Unset => DOMAIN file = {}

NoGapInv == LogInv /\ Durable /\ EmptyAtFirst /\ NoGap

(* A step that keeps cur_id keeps what covers the ids below it.            *)
LEMMA GapFrame ==
    ASSUME NoGapInv, cur' = cur, crashes' = crashes,
           cur = Unset => DOMAIN file' = DOMAIN file,
           DOMAIN file \subseteq DOMAIN file',
           \A t \in Threads : pc[t] # "idle" =>
               my[t].id \in DOMAIN file' \/ (pc'[t] # "idle" /\ my'[t] = my[t])
    PROVE  EmptyAtFirst' /\ NoGap'
<1>1. EmptyAtFirst'
  BY DEF NoGapInv, EmptyAtFirst
<1>2. ASSUME crashes = 0, cur # Unset, NEW i \in 0..(cur - 1)
      PROVE  i \in DOMAIN file' \/ \E t \in Threads : pc'[t] # "idle" /\ my'[t].id = i
  BY <1>2 DEF NoGapInv, NoGap
<1> QED BY <1>1, <1>2 DEF NoGap

LEMMA GapStep ==
    ASSUME Readers = {}, NoGapInv, [Next]_vars
    PROVE  EmptyAtFirst' /\ NoGap'
<1>0. /\ WriterOK /\ DOMAIN file \subseteq Nat
      /\ pc \in [Threads -> {"idle", "locked", "write", "opened", "page", "paging", "put"}]
  BY DEF NoGapInv, LogInv, TypeOK, DiskOK, WriterOK
<1>1. CASE UNCHANGED <<file, cur, pc, my, crashes>>
  BY <1>1, GapFrame
<1>2. ASSUME NEW t \in Threads, TakeId(t)
      PROVE  EmptyAtFirst' /\ NoGap'
  <2> DEFINE id == IF cur = Unset THEN NextFree(DOMAIN file) ELSE cur
  <2>1. /\ cur' = id /\ UNCHANGED <<file, crashes>>
        /\ \A u \in Threads : pc[u] # "idle" => pc'[u] # "idle" /\ my'[u] = my[u]
    BY <1>0, <1>2 DEF TakeId, WriterOK, disk
  <2>2. id \in Nat
    BY NextFreeSpec, <1>0 DEF NoGapInv, LogInv, Bounded, WriterOK
  <2>3. cur' # Unset
    BY <2>1, <2>2, StreamAssumption DEF Unset
  <2>4. CASE cur = Unset
    <3>1. crashes = 0 => DOMAIN file = {}
      BY <2>4 DEF NoGapInv, EmptyAtFirst
    <3>2. crashes = 0 => id = 0
      BY <2>4, <3>1 DEF NextFree
    <3> HIDE DEF id
    <3> QED BY <2>1, <2>3, <3>2 DEF EmptyAtFirst, NoGap
  <2>5. CASE cur # Unset
    BY <2>1, <2>5, GapFrame
  <2> QED BY <2>4, <2>5
<1>3. ASSUME NEW t \in Threads, FillPage(t)
      PROVE  EmptyAtFirst' /\ NoGap'
  <2>1. /\ cur \in Nat /\ cur' = cur + 1 /\ my[t].id = cur
        /\ UNCHANGED <<file, my, crashes>>
        /\ pc[t] = "locked" /\ pc' = [pc EXCEPT ![t] = "write"]
    BY <1>0, <1>3 DEF FillPage, WriterOK, NoGapInv, LogInv, Flight, disk, past
  <2>2. \A u \in Threads : pc[u] # "idle" => pc'[u] # "idle"
    BY <1>0, <2>1
  <2>3. cur # Unset /\ cur' # Unset
    BY <2>1, StreamAssumption DEF Unset
  <2>4. ASSUME crashes = 0, NEW i \in 0..(cur' - 1)
        PROVE  i \in DOMAIN file \/ \E u \in Threads : pc'[u] # "idle" /\ my[u].id = i
    <3>1. CASE i = cur
      BY <1>0, <2>1, <3>1
    <3>2. CASE i \in 0..(cur - 1)
      BY <2>2, <2>3, <2>4, <3>2 DEF NoGapInv, NoGap
    <3> QED BY <2>1, <2>4, <3>1, <3>2
  <2> QED BY <2>1, <2>3, <2>4 DEF EmptyAtFirst, NoGap
<1>4. ASSUME NEW t \in Threads,
             \/ TruncateFile(t) \/ WriteFile(t)
             \/ TruncatePage(t) \/ StorePage(t)
      PROVE  EmptyAtFirst' /\ NoGap'
  <2>1. /\ UNCHANGED <<cur, my, crashes>> /\ pc[t] # "idle"
        /\ \A u \in Threads : pc[u] # "idle" => pc'[u] # "idle"
    BY <1>0, <1>4 DEF TruncateFile, WriteFile, TruncatePage, StorePage, past
  <2>2. DOMAIN file \subseteq DOMAIN file'
    BY <1>4 DEF TruncateFile, WriteFile, TruncatePage, StorePage, Put
  <2>3. cur # Unset
    BY <2>1 DEF NoGapInv, LogInv, Flight
  <2> QED BY <2>1, <2>2, <2>3, GapFrame
<1>5. ASSUME NEW t \in Threads, Enqueue(t)
      PROVE  EmptyAtFirst' /\ NoGap'
  <2>1. /\ UNCHANGED <<file, cur, crashes>> /\ pc[t] = "put"
        /\ \A u \in Threads \ {t} : pc'[u] = pc[u] /\ my'[u] = my[u]
    BY <1>0, <1>5 DEF Enqueue, WriterOK, disk, past
  <2>2. my[t].id \in DOMAIN file
    BY <2>1 DEF NoGapInv, Durable, HandsDurable, OnDisk, Hand
  <2> QED BY <2>1, <2>2, GapFrame
<1>6. CASE Crash
  <2>1. crashes' # 0
    BY <1>6 DEF Crash, NoGapInv, LogInv, TypeOK, DiskOK
  <2> QED BY <2>1 DEF EmptyAtFirst, NoGap
<1>7. CASE DeliverNext \/ UNCHANGED vars
  BY <1>1, <1>7, DeliverFrame DEF vars, disk, writer, past
<1> QED BY <1>2, <1>3, <1>4, <1>5, <1>6, <1>7 DEF Next, AddEvent, DeliverNext

(* Without a crash no id is skipped: each one below cur_id is in the store *)
(* or in the hands of a thread that will write it - provided cur_id is     *)
(* only ever computed under the lock.                                      *)
THEOREM NoIdIsSkipped ==
    ASSUME Readers = {}
    PROVE  Spec => []NoGap
<1>1. Init => NoGapInv
  <2>1. Init => Durable
    BY StreamAssumption DEF Init, NewStream, Durable, HandsDurable, PathDurable
  <2> QED BY <2>1, LogInit DEF Init, NewStream, NoGapInv, EmptyAtFirst, NoGap
<1>2. NoGapInv /\ [Next]_vars => NoGapInv'
  <2> SUFFICES ASSUME NoGapInv, [Next]_vars PROVE NoGapInv'
    OBVIOUS
  <2>1. LogInv /\ Durable /\ TypeOK /\ Append1
    BY NeverRewritten DEF NoGapInv, LogInv
  <2>2. LogInv' /\ Durable'
    BY <2>1, LogStep, HandsStep, PathStep DEF Durable
  <2> QED BY <2>2, GapStep DEF NoGapInv
<1>3. NoGapInv => NoGap
  BY DEF NoGapInv
<1> QED BY <1>1, <1>2, <1>3, PTL DEF Spec
-----------------------------------------------------------------------------
(***************************************************************************)
(* Page cache and files agree.  A page is a run of consecutive ids,        *)
(* because it is filled under the lock that also counts; it is stored      *)
(* under its first id, so a page that begins in the middle of an aligned   *)
(* range - after a crash - is never looked up; and what it holds has its   *)
(* file, gets it from a thread still at work, or was lost with a kill.     *)
(***************************************************************************)
Consecutive(p) == \A j \in DOMAIN p : p[j].id = p[1].id + j - 1
WritePage == pages[Len(pages)]

PagesShape ==
    /\ \A k \in DOMAIN pages : Consecutive(pages[k]) /\ Len(pages[k]) <= CacheSize
    /\ Len(WritePage) < CacheSize
    /\ WritePage # <<>> => cur # Unset /\ WritePage[1].id + Len(WritePage) = cur
    /\ \A t \in Threads : pc[t] = "locked" => my[t].page = Len(pages)

(* An entry of a page is on disk, or in the hands of the thread that is    *)
(* about to write its file, or the process died with it in a thread's      *)
(* hands.                                                                  *)
InHands(e) == \E t \in Threads : pc[t] \in {"write", "opened"} /\ e = Hand(t)
Stored(e) == OnDisk(e) \/ InHands(e) \/ e.id \in lost

PagesDurable == \A k \in DOMAIN pages : \A j \in DOMAIN pages[k] : Stored(pages[k][j])
CacheDurable ==
    \A s \in DOMAIN cached :
        \/ cached[s] = TornPage
        \/ /\ Len(cached[s]) = CacheSize
           /\ \A j \in 1..CacheSize : cached[s][j].id = s + j - 1 /\ Stored(cached[s][j])

(* Every page of a well-typed stream is a sequence of entries.             *)
LEMMA PageType ==
    ASSUME WriterOK, NEW k \in DOMAIN pages
    PROVE  /\ pages[k] \in Seq(Entry) /\ Len(pages[k]) \in Nat
           /\ DOMAIN pages[k] = 1..Len(pages[k])
<1>1. pages[k] \in Seq(Entry)
  BY DEF WriterOK
<1> QED BY <1>1

(* A run of ids is continued by the next id.                               *)
LEMMA AppendConsecutive ==
    ASSUME NEW p \in Seq(Entry), NEW e \in Entry, Consecutive(p),
           p # <<>> => p[1].id + Len(p) = e.id
    PROVE  Consecutive(Append(p, e)) /\ Append(p, e)[1].id + Len(Append(p, e)) = e.id + 1
<1> DEFINE q == Append(p, e)
<1>1. /\ Len(p) \in Nat /\ DOMAIN p = 1..Len(p) /\ Len(q) = Len(p) + 1
      /\ DOMAIN q = 1..(Len(p) + 1) /\ q[Len(p) + 1] = e
      /\ \A j \in 1..Len(p) : q[j] = p[j]
      /\ p = <<>> \/ Len(p) > 0
  OBVIOUS
<1> HIDE DEF q
<1>2. e.id \in Nat
  BY DEF Entry
<1>3. q[1].id \in Nat /\ q[1].id + Len(p) = e.id
  <2>1. CASE p = <<>>
    <3>1. Len(p) = 0
      BY <2>1
    <3> QED BY <1>1, <1>2, <3>1
  <2>2. CASE p # <<>>
    <3>1. p[1] \in Entry /\ q[1] = p[1]
      BY <1>1, <2>2
    <3> QED BY <2>2, <3>1 DEF Entry
  <2> QED BY <2>1, <2>2
<1>4. ASSUME NEW j \in DOMAIN q
      PROVE  q[j].id = q[1].id + j - 1
  <2>1. CASE j = Len(p) + 1
    BY <1>1, <1>2, <1>3, <2>1
  <2>2. CASE j # Len(p) + 1
    <3>1. j \in DOMAIN p /\ 1 \in DOMAIN p /\ q[j] = p[j] /\ q[1] = p[1]
      BY <1>1, <2>2
    <3> QED BY <3>1 DEF Consecutive
  <2> QED BY <2>1, <2>2
<1>5. q[1].id + Len(q) = e.id + 1
  BY <1>1, <1>2, <1>3
<1> QED BY <1>4, <1>5 DEF Consecutive, q
(* The full page: it is replaced by an empty one, after the last entry.    *)
LEMMA FilledPages ==
    ASSUME TypeOK, Flight, PagesShape, NEW t \in Threads, FillPage(t)
    PROVE  LET p == Append(WritePage, Hand(t))
               n == Len(pages)
           IN  /\ WritePage \in Seq(Entry) /\ Hand(t) \in Entry /\ n \in DOMAIN pages
               /\ p \in Seq(Entry) /\ Len(p) = Len(WritePage) + 1
               /\ \/ /\ Len(p) # CacheSize /\ DOMAIN pages' = DOMAIN pages /\ Len(pages') = n
                  \/ /\ Len(p) = CacheSize /\ DOMAIN pages' = DOMAIN pages \cup {n + 1}
                     /\ Len(pages') = n + 1 /\ pages'[n + 1] = <<>>
               /\ pages'[n] = p
               /\ \A k \in DOMAIN pages \ {n} : pages'[k] = pages[k]
<1> DEFINE n == Len(pages)
           p == Append(WritePage, Hand(t))
           filled == [pages EXCEPT ![n] = p]
<1>1. /\ pages \in Seq(Seq(Entry)) /\ n \in Nat /\ n > 0 /\ DOMAIN pages = 1..n
      /\ Hand(t) \in Entry /\ my[t].page = n
  BY DEF TypeOK, WriterOK, PagesShape, FillPage, Hand
<1>2. WritePage \in Seq(Entry)
  BY <1>1 DEF WritePage
<1>3. p \in Seq(Entry) /\ Len(p) = Len(WritePage) + 1
  BY <1>1, <1>2
<1>4. pages' = IF Len(p) = CacheSize THEN Append(filled, <<>>) ELSE filled
  BY <1>1 DEF FillPage, Hand, WritePage
<1> HIDE DEF p
<1>5. /\ filled \in Seq(Seq(Entry)) /\ Len(filled) = n /\ filled[n] = p /\ DOMAIN filled = 1..n
      /\ \A k \in DOMAIN pages \ {n} : filled[k] = pages[k]
  BY <1>1, <1>3
<1> HIDE DEF filled
<1> DEFINE Rest == /\ pages'[n] = p
                   /\ \A k \in DOMAIN pages \ {n} : pages'[k] = pages[k]
<1>6. CASE Len(p) # CacheSize
  <2>1. Rest /\ DOMAIN pages' = DOMAIN pages /\ Len(pages') = n
    BY <1>1, <1>4, <1>5, <1>6
  <2>2. n \in DOMAIN pages
    BY <1>1
  <2> QED BY <1>1, <1>2, <1>3, <1>6, <2>1, <2>2, Zenon DEF p
<1>7. CASE Len(p) = CacheSize
  <2>1. pages' = Append(filled, <<>>) /\ <<>> \in Seq(Entry)
    BY <1>4, <1>7
  <2>2. /\ Len(pages') = n + 1 /\ DOMAIN pages' = 1..(n + 1) /\ pages'[n + 1] = <<>>
        /\ \A k \in 1..n : pages'[k] = filled[k]
    BY <1>1, <1>5, <2>1
  <2>3. Rest /\ DOMAIN pages' = DOMAIN pages \cup {n + 1}
    BY <1>1, <1>5, <2>2
  <2>4. n \in DOMAIN pages
    BY <1>1
  <2> QED BY <1>1, <1>2, <1>3, <1>7, <2>2, <2>3, <2>4, Zenon DEF p
<1> QED BY <1>6, <1>7

(* A page is filled one id at a time, and never beyond its size.           *)
LEMMA ShapeStep ==
    ASSUME Readers = {}, TypeOK, Bounded, Flight, PagesShape, [Next]_vars
    PROVE  PagesShape'
<1> USE StreamAssumption
<1>0. /\ WriterOK /\ pages \in Seq(Seq(Entry)) /\ Len(pages) \in Nat /\ Len(pages) > 0
      /\ pc \in [Threads -> {"idle", "locked", "write", "opened", "page", "paging", "put"}]
      /\ my \in [Threads -> Locals]
  BY DEF TypeOK, WriterOK
<1>1. ASSUME UNCHANGED pages, cur' = cur \/ (cur = Unset /\ WritePage = <<>>),
             \A t \in Threads : pc'[t] = "locked" =>
                 my'[t].page = Len(pages) \/ (pc[t] = "locked" /\ my'[t] = my[t])
      PROVE  PagesShape'
  BY <1>1 DEF PagesShape, WritePage, Consecutive
<1>2. ASSUME NEW t \in Threads, TakeId(t)
      PROVE  PagesShape'
  <2>1. /\ UNCHANGED pages /\ my'[t].page = Len(pages)
        /\ cur' = cur \/ cur = Unset
        /\ \A u \in Threads \ {t} : pc'[u] = pc[u] /\ my'[u] = my[u]
    BY <1>0, <1>2 DEF TakeId
  <2>2. cur = Unset => WritePage = <<>>
    BY DEF PagesShape
  <2> QED BY <1>1, <2>1, <2>2
<1>3. ASSUME NEW t \in Threads, FillPage(t)
      PROVE  PagesShape'
  <2> DEFINE n == Len(pages)
             p == Append(WritePage, Hand(t))
  <2>1. /\ WritePage \in Seq(Entry) /\ Hand(t) \in Entry /\ n \in DOMAIN pages
        /\ p \in Seq(Entry) /\ Len(p) = Len(WritePage) + 1
        /\ \/ /\ Len(p) # CacheSize /\ DOMAIN pages' = DOMAIN pages /\ Len(pages') = n
           \/ /\ Len(p) = CacheSize /\ DOMAIN pages' = DOMAIN pages \cup {n + 1}
              /\ Len(pages') = n + 1 /\ pages'[n + 1] = <<>>
        /\ pages'[n] = p
        /\ \A k \in DOMAIN pages \ {n} : pages'[k] = pages[k]
    BY <1>3, FilledPages
  <2>2. /\ cur' = cur + 1 /\ Hand(t).id = cur /\ cur \in Nat
        /\ pc' = [pc EXCEPT ![t] = "write"] /\ pc[t] = "locked"
    BY <1>0, <1>3 DEF FillPage, Flight, Hand, WriterOK
  <2>3. Consecutive(WritePage) /\ (WritePage # <<>> => WritePage[1].id + Len(WritePage) = cur)
        /\ Len(WritePage) < CacheSize /\ Len(WritePage) \in Nat
    BY <2>1 DEF PagesShape, WritePage
  <2>4. Consecutive(p) /\ p[1].id + Len(p) = cur + 1
    BY <2>1, <2>2, <2>3, AppendConsecutive
  <2>5. Len(p) \in Nat /\ Len(p) <= CacheSize
    BY <2>1, <2>3
  <2> HIDE DEF p
  <2>6. ASSUME NEW k \in DOMAIN pages'
        PROVE  Consecutive(pages'[k]) /\ Len(pages'[k]) <= CacheSize
    <3>1. CASE k = n
      BY <2>1, <2>4, <2>5, <3>1
    <3>2. CASE k \in DOMAIN pages \ {n}
      BY <2>1, <3>2 DEF PagesShape
    <3>3. CASE k # n /\ k \notin DOMAIN pages
      <4>1. pages'[k] = <<>>
        BY <2>1, <3>3
      <4>2. Consecutive(<<>>) /\ Len(<<>>) = 0
        BY DEF Consecutive
      <4> QED BY <4>1, <4>2
    <3> QED BY <3>1, <3>2, <3>3
  <2>7. /\ Len(WritePage') < CacheSize
        /\ WritePage' # <<>> => cur' # Unset /\ WritePage'[1].id + Len(WritePage') = cur'
    <3>1. CASE Len(p) # CacheSize
      <4>1. WritePage' = p /\ cur' # Unset
        BY <2>1, <2>2, <3>1 DEF WritePage, Unset
      <4> QED BY <2>2, <2>4, <2>5, <3>1, <4>1
    <3>2. CASE Len(p) = CacheSize
      <4>1. WritePage' = <<>> /\ Len(<<>>) = 0
        BY <2>1, <3>2 DEF WritePage
      <4> QED BY <4>1
    <3> QED BY <3>1, <3>2
  <2>8. \A u \in Threads : pc'[u] # "locked"
    BY <1>0, <2>2 DEF WriterOK
  <2> QED BY <2>6, <2>7, <2>8 DEF PagesShape
<1>4. ASSUME NEW t \in Threads, AddEvent(t), ~ TakeId(t), ~ FillPage(t)
      PROVE  PagesShape'
  <2>1. /\ UNCHANGED <<pages, cur>>
        /\ \A u \in Threads : pc'[u] = "locked" => pc[u] = "locked" /\ my'[u] = my[u]
    BY <1>0, <1>4 DEF AddEvent, TruncateFile, WriteFile, TruncatePage, StorePage, Enqueue
  <2> QED BY <1>1, <2>1
<1>5. CASE Crash
  <2>1. pages' = << <<>> >> /\ cur' = Unset /\ \A t \in Threads : pc'[t] = "idle"
    BY <1>5 DEF Crash
  <2>2. /\ Len(pages') = 1 /\ DOMAIN pages' = {1} /\ pages'[1] = <<>> /\ Len(<<>>) = 0
        /\ Consecutive(<<>>)
    BY <2>1 DEF Consecutive
  <2> QED BY <2>1, <2>2 DEF PagesShape, WritePage
<1>6. CASE DeliverNext \/ UNCHANGED vars
  <2>1. UNCHANGED <<pages, cur, pc, my>>
    BY <1>6, DeliverFrame DEF vars, writer
  <2> QED BY <1>1, <2>1
<1> QED BY <1>2, <1>3, <1>4, <1>5, <1>6 DEF Next, AddEvent, DeliverNext

(* What a page holds stays so in every step: a thread that loses an event  *)
(* from its hands has written its file, or was killed.                     *)
LEMMA StoredStep ==
    ASSUME LogInv, Append1, [Next]_vars, NEW e \in Entry, Stored(e)
    PROVE  Stored(e)'
<1>0. /\ TypeOK /\ WriterOK
      /\ pc \in [Threads -> {"idle", "locked", "write", "opened", "page", "paging", "put"}]
  BY DEF LogInv, TypeOK, WriterOK
<1>1. CASE OnDisk(e)
  BY <1>1, StaysOnDisk DEF Stored
<1>2. CASE e.id \in lost
  <2>1. lost \subseteq lost'
    <3>1. ASSUME NEW t \in Threads, AddEvent(t) PROVE UNCHANGED lost
      BY <3>1 DEF AddEvent, TakeId, FillPage, TruncateFile, WriteFile, TruncatePage,
         StorePage, Enqueue, past
    <3>2. ASSUME NEW r \in Readers, ComputeCurId(r) PROVE UNCHANGED lost
      BY <3>2 DEF ComputeCurId, ReadCurId, ListEvents, SetCurId, past
    <3>3. CASE Crash
      BY <3>3 DEF Crash
    <3>4. CASE DeliverNext \/ UNCHANGED vars
      BY <3>4, DeliverFrame DEF vars, past
    <3> QED BY <3>1, <3>2, <3>3, <3>4 DEF Next, DeliverNext
  <2> QED BY <1>2, <2>1 DEF Stored
<1>3. ASSUME NEW t \in Threads, pc[t] \in {"write", "opened"}, e = Hand(t)
      PROVE  Stored(e)'
  <2>1. CASE Crash
    <3>1. e.id = my[t].id
      BY <1>3 DEF Hand
    <3>2. e.id \in lost'
      BY <1>3, <2>1, <3>1 DEF Crash
    <3> QED BY <3>2 DEF Stored
  <2>2. ASSUME pc'[t] \in {"write", "opened"}, my'[t] = my[t]
        PROVE  Stored(e)'
    BY <1>3, <2>2 DEF Stored, InHands, Hand
  <2>3. CASE WriteFile(t)
    BY <1>3, <2>3 DEF WriteFile, Put, Hand, OnDisk, Stored
  <2>4. CASE TruncateFile(t)
    BY <1>0, <2>2, <2>4 DEF TruncateFile
  <2>5. ASSUME NEW u \in Threads, AddEvent(u), ~ WriteFile(t), ~ TruncateFile(t)
        PROVE  Stored(e)'
    <3>1. u # t
      BY <1>3, <2>5 DEF AddEvent, TakeId, FillPage, TruncatePage, StorePage, Enqueue
    <3>2. pc'[t] = pc[t] /\ my'[t] = my[t]
      BY <1>0, <2>5, <3>1 DEF AddEvent, TakeId, FillPage, TruncateFile, WriteFile,
         TruncatePage, StorePage, Enqueue, WriterOK
    <3> QED BY <1>3, <2>2, <3>2
  <2>6. ASSUME NEW r \in Readers, ComputeCurId(r)
        PROVE  Stored(e)'
    BY <1>3, <2>2, <2>6 DEF ComputeCurId, ReadCurId, ListEvents, SetCurId
  <2>7. CASE DeliverNext \/ UNCHANGED vars
    BY <1>3, <2>2, <2>7, DeliverFrame DEF vars, writer
  <2> QED BY <2>1, <2>3, <2>4, <2>5, <2>6, <2>7 DEF Next, DeliverNext
<1> QED BY <1>1, <1>2, <1>3 DEF Stored, InHands

(* What a page holds is on disk, but for the event whose file its thread   *)
(* is about to write.                                                      *)
LEMMA PagesDurableStep ==
    ASSUME Readers = {}, LogInv, Append1, PagesShape, PagesDurable, [Next]_vars
    PROVE  PagesDurable'
<1>0. TypeOK /\ WriterOK /\ Flight
  BY DEF LogInv, TypeOK
<1> DEFINE Kept(e) == \/ e.id \in DOMAIN file' /\ file'[e.id] = e.ev
                      \/ \E t \in Threads : /\ pc'[t] \in {"write", "opened"}
                                             /\ e = [id |-> my'[t].id, ev |-> my'[t].ev]
                      \/ e.id \in lost'
<1>1. \A k \in DOMAIN pages : \A j \in DOMAIN pages[k] :
          pages[k][j] \in Entry /\ Stored(pages[k][j])
  BY <1>0, PageType DEF PagesDurable
<1>2. \A e \in Entry : Stored(e) => Kept(e)
  BY StoredStep DEF Stored, OnDisk, InHands, Hand
<1>3. CASE UNCHANGED pages
  <2>1. \A k \in DOMAIN pages : \A j \in DOMAIN pages[k] : Kept(pages[k][j])
    <3> HIDE DEF Kept
    <3> QED BY <1>1, <1>2
  <2> QED BY <1>3, <2>1 DEF PagesDurable, Stored, OnDisk, InHands, Hand
<1>4. ASSUME NEW t \in Threads, FillPage(t)
      PROVE  PagesDurable'
  <2> DEFINE n == Len(pages)
             e == Hand(t)
             p == Append(WritePage, e)
  <2>1. /\ WritePage \in Seq(Entry) /\ e \in Entry /\ n \in DOMAIN pages
        /\ p \in Seq(Entry) /\ Len(p) = Len(WritePage) + 1
        /\ \/ /\ Len(p) # CacheSize /\ DOMAIN pages' = DOMAIN pages /\ Len(pages') = n
           \/ /\ Len(p) = CacheSize /\ DOMAIN pages' = DOMAIN pages \cup {n + 1}
              /\ Len(pages') = n + 1 /\ pages'[n + 1] = <<>>
        /\ pages'[n] = p
        /\ \A k \in DOMAIN pages \ {n} : pages'[k] = pages[k]
    BY <1>0, <1>4, FilledPages
  <2>2. Kept(e)
    BY <1>0, <1>4 DEF FillPage, Hand, WriterOK
  <2>3. \A j \in DOMAIN p : (j \in DOMAIN WritePage /\ p[j] = WritePage[j]) \/ p[j] = e
    BY <2>1
  <2>4. \A k \in DOMAIN pages : \A j \in DOMAIN pages[k] : Kept(pages[k][j])
    <3> HIDE DEF Kept
    <3> QED BY <1>1, <1>2
  <2> HIDE DEF p, e, Kept
  <2>5. ASSUME NEW k \in DOMAIN pages', NEW j \in DOMAIN pages'[k]
        PROVE  Kept(pages'[k][j])
    <3>1. CASE k = n
      BY <2>1, <2>2, <2>3, <2>4, <3>1 DEF WritePage
    <3>2. CASE k \in DOMAIN pages \ {n}
      BY <2>1, <2>4, <3>2
    <3>3. CASE k # n /\ k \notin DOMAIN pages
      BY <2>1, <3>3
    <3> QED BY <3>1, <3>2, <3>3
  <2> QED BY <2>5 DEF PagesDurable, Kept, Stored, OnDisk, InHands, Hand
<1>5. ASSUME NEW t \in Threads, AddEvent(t), ~ FillPage(t)
      PROVE  PagesDurable'
  BY <1>3, <1>5 DEF AddEvent, TakeId, TruncateFile, WriteFile, TruncatePage, StorePage,
     Enqueue
<1>6. CASE Crash
  BY <1>6 DEF Crash, PagesDurable
<1>7. CASE DeliverNext \/ UNCHANGED vars
  BY <1>3, <1>7, DeliverFrame DEF vars, writer
<1> QED BY <1>4, <1>5, <1>6, <1>7 DEF Next, DeliverNext

(* A page in the cache is torn, or is full, a run of ids from its key on,  *)
(* with its events stored or lost.                                         *)
LEMMA CacheDurableStep ==
    ASSUME Readers = {}, LogInv, Append1, PagesShape, PagesDurable, CacheDurable,
           [Next]_vars
    PROVE  CacheDurable'
<1> USE StreamAssumption
<1>0. /\ WriterOK /\ \A s \in DOMAIN cached : cached[s] \in Seq(Entry)
      /\ DOMAIN cached \subseteq Nat
  BY DEF LogInv, TypeOK, DiskOK
<1> DEFINE Kept(e) == \/ e.id \in DOMAIN file' /\ file'[e.id] = e.ev
                      \/ \E t \in Threads : /\ pc'[t] \in {"write", "opened"}
                                             /\ e = [id |-> my'[t].id, ev |-> my'[t].ev]
                      \/ e.id \in lost'
           Good(s, p) == \/ p = TornPage
                         \/ /\ Len(p) = CacheSize
                            /\ \A j \in 1..CacheSize : p[j].id = s + j - 1 /\ Kept(p[j])
<1>1. \A e \in Entry : Stored(e) => Kept(e)
  BY StoredStep DEF Stored, OnDisk, InHands, Hand
<1>2. \A s \in DOMAIN cached : Good(s, cached[s])
  <2>1. \A s \in DOMAIN cached : Len(cached[s]) = CacheSize =>
            \A j \in 1..CacheSize : cached[s][j] \in Entry
    BY <1>0
  <2> HIDE DEF Kept
  <2> QED BY <1>1, <2>1 DEF CacheDurable
<1>3. (\A s \in DOMAIN cached' : Good(s, cached'[s])) => CacheDurable'
  BY DEF CacheDurable, Stored, OnDisk, InHands, Hand
<1> HIDE DEF Good
<1>4. CASE UNCHANGED cached
  BY <1>2, <1>3, <1>4
<1>5. ASSUME NEW t \in Threads, TruncatePage(t) \/ StorePage(t), ~ UNCHANGED cached
      PROVE  CacheDurable'
  <2> DEFINE k == my[t].page
             p == pages[k]
  <2>1. k \in DOMAIN pages /\ Full(t)
    <3>1. pc[t] # "idle" /\ Full(t)
      BY <1>5 DEF TruncatePage, StorePage
    <3>2. pages \in Seq(Seq(Entry)) /\ k \in 1..Len(pages)
      BY <1>0, <3>1 DEF WriterOK
    <3> QED BY <3>1, <3>2
  <2>2. /\ p \in Seq(Entry) /\ Len(p) = CacheSize /\ DOMAIN p = 1..CacheSize
        /\ Consecutive(p)
    <3>1. /\ p \in Seq(Entry) /\ Len(p) \in Nat /\ DOMAIN p = 1..Len(p)
          /\ Consecutive(p) /\ Len(p) <= CacheSize
      BY <1>0, <2>1, PageType DEF PagesShape
    <3> QED BY <2>1, <3>1 DEF Full
  <2>3. \A j \in DOMAIN p : Stored(p[j]) /\ p[j] \in Entry
    BY <2>1, <2>2 DEF PagesDurable
  <2>4. PICK q \in {p, TornPage} : cached' = Put(cached, p[1].id, q)
    BY <1>5, <2>1 DEF TruncatePage, StorePage
  <2> HIDE DEF p
  <2>5. \A j \in 1..CacheSize : p[j].id = p[1].id + j - 1 /\ Kept(p[j])
    <3> HIDE DEF Kept
    <3> QED BY <1>1, <2>2, <2>3 DEF Consecutive
  <2>6. Good(p[1].id, q)
    <3> HIDE DEF Kept
    <3> QED BY <2>2, <2>4, <2>5 DEF Good
  <2>7. \A s \in DOMAIN cached' : Good(s, cached'[s])
    BY <1>2, <2>4, <2>6 DEF Put
  <2> QED BY <1>3, <2>7
<1>6. ASSUME NEW t \in Threads, AddEvent(t), ~ (TruncatePage(t) \/ StorePage(t))
      PROVE  CacheDurable'
  BY <1>4, <1>6 DEF AddEvent, TakeId, FillPage, TruncateFile, WriteFile, Enqueue, disk
<1>7. CASE Crash \/ DeliverNext \/ UNCHANGED vars
  BY <1>4, <1>7, DeliverFrame DEF vars, disk, Crash
<1> QED BY <1>4, <1>5, <1>6, <1>7 DEF Next, DeliverNext

(* A search through the page cache yields what the files hold, however     *)
(* many threads write, on both kinds of store, and whenever they were      *)
(* killed and the store opened again, but for the pages a kill left torn   *)
(* and the ids whose events a kill kept from being written.                *)
THEOREM PagesAgree ==
    ASSUME Readers = {}
    PROVE  Spec => []SearchAgrees
<1> DEFINE Inv == LogInv /\ PagesShape /\ PagesDurable /\ CacheDurable
<1>1. Init => Inv
  <2> SUFFICES ASSUME Init PROVE Inv
    OBVIOUS
  <2>1. LogInv
    BY LogInit
  <2>2. /\ pages = << <<>> >> /\ cached = <<>> /\ \A t \in Threads : pc[t] = "idle"
    BY DEF Init, NewStream
  <2>3. /\ Len(pages) = 1 /\ DOMAIN pages = {1} /\ pages[1] = <<>> /\ Len(<<>>) = 0
        /\ Consecutive(<<>>) /\ DOMAIN cached = {}
    BY <2>2 DEF Consecutive
  <2>4. PagesShape
    BY <2>2, <2>3, StreamAssumption DEF PagesShape, WritePage
  <2>5. PagesDurable /\ CacheDurable
    BY <2>3 DEF PagesDurable, CacheDurable
  <2> QED BY <2>1, <2>4, <2>5
<1>2. Inv /\ [Next]_vars => Inv'
  <2> SUFFICES ASSUME Inv, [Next]_vars PROVE Inv'
    OBVIOUS
  <2>1. Append1 /\ TypeOK /\ Bounded /\ Flight
    BY NeverRewritten DEF LogInv
  <2> QED BY <2>1, LogStep, ShapeStep, PagesDurableStep, CacheDurableStep
<1>3. Inv => SearchAgrees
  <2> SUFFICES ASSUME LogInv, CacheDurable,
                      NEW i \in DOMAIN file, file[i] # Torn, i \notin lost,
                      cached[PageStart(i)] # TornPage
               PROVE  SearchAt(i) = file[i]
    BY DEF SearchAgrees
  <2> DEFINE s == PageStart(i)
             r == i % CacheSize
  <2>1. i \in Nat /\ CacheSize \in Nat \ {0} /\ DOMAIN cached \subseteq Nat
    BY StreamAssumption DEF LogInv, TypeOK, DiskOK
  <2>2. r \in Nat /\ r < CacheSize /\ s = i - r
    BY <2>1 DEF PageStart
  <2>3. CASE s \notin DOMAIN cached
    BY <2>3 DEF SearchAt
  <2>4. CASE s \in DOMAIN cached
    <3> DEFINE e == cached[s][r + 1]
    <3>0. cached[s] # TornPage
      OBVIOUS
    <3> HIDE DEF s, r
    <3>1. s \in Nat /\ r + 1 \in 1..CacheSize
      BY <2>1, <2>2, <2>4
    <3>2. e.id = s + (r + 1) - 1 /\ Stored(e)
      BY <2>4, <3>0, <3>1 DEF CacheDurable
    <3>3. e.id = i
      BY <2>1, <2>2, <3>1, <3>2
    <3>4. ~ InHands(e)
      <4>1. SUFFICES ASSUME NEW t \in Threads, pc[t] \in {"write", "opened"}, e = Hand(t)
                     PROVE  FALSE
        BY DEF InHands
      <4>2. my[t].id = i
        BY <3>3, <4>1 DEF Hand
      <4> QED BY <4>1, <4>2 DEF LogInv, Flight
    <3>5. e.ev = file[i]
      BY <3>2, <3>3, <3>4 DEF Stored, OnDisk
    <3> QED BY <2>4, <3>0, <3>5 DEF SearchAt, s, r
  <2> QED BY <2>3, <2>4
<1> QED BY <1>1, <1>2, <1>3, PTL DEF Spec
-----------------------------------------------------------------------------
(***************************************************************************)
(* The delivering side loses, repeats and reorders nothing for a callback  *)
(* that stays subscribed, for every set of threads, readers and callbacks, *)
(* whoever else subscribes, unsubscribes, closes the stream or is killed   *)
(* meanwhile; and it does not call one that has left.                      *)
(***************************************************************************)
(***************************************************************************)
(* Sequences: what the four moves of an event do to a concatenation.       *)
(***************************************************************************)
LEMMA ConcatSnoc ==
    ASSUME NEW S, NEW s \in Seq(S), NEW t \in Seq(S), NEW e \in S
    PROVE  s \o Append(t, e) = Append(s \o t, e)
<1>1. s \o t \in Seq(S) /\ Append(t, e) \in Seq(S)
  BY ConcatProperties
<1>2. s \o Append(t, e) \in Seq(S) /\ Append(s \o t, e) \in Seq(S)
  BY <1>1, ConcatProperties
<1>3. Len(s \o t) = Len(s) + Len(t) /\ Len(s) \in Nat /\ Len(t) \in Nat
  BY ConcatProperties
<1>4. Len(Append(t, e)) = Len(t) + 1 /\ Len(Append(s \o t, e)) = Len(s \o t) + 1
  BY <1>1
<1>5. Len(s \o Append(t, e)) = Len(s) + Len(t) + 1
  BY <1>1, <1>3, <1>4, ConcatProperties
<1>6. ASSUME NEW i \in 1..(Len(s) + Len(t) + 1)
      PROVE  (s \o Append(t, e))[i] = Append(s \o t, e)[i]
  <2>1. (s \o Append(t, e))[i] = IF i <= Len(s) THEN s[i] ELSE Append(t, e)[i - Len(s)]
    BY <1>1, <1>3, <1>4, ConcatProperties
  <2>2. Append(s \o t, e)[i] = IF i <= Len(s) + Len(t) THEN (s \o t)[i] ELSE e
    BY <1>1, <1>3
  <2>3. i <= Len(s) + Len(t) =>
            (s \o t)[i] = IF i <= Len(s) THEN s[i] ELSE t[i - Len(s)]
    BY <1>3, ConcatProperties
  <2>4. i > Len(s) => Append(t, e)[i - Len(s)] =
            IF i - Len(s) <= Len(t) THEN t[i - Len(s)] ELSE e
    BY <1>3
  <2> QED BY <1>3, <2>1, <2>2, <2>3, <2>4
<1> QED BY <1>2, <1>3, <1>4, <1>5, <1>6, SeqEqual

LEMMA HeadTailConcat ==
    ASSUME NEW S, NEW s \in Seq(S), s # <<>>
    PROVE  Head(s) \in S /\ Tail(s) \in Seq(S) /\ s = <<Head(s)>> \o Tail(s)
<1>1. Head(s) \in S /\ Tail(s) \in Seq(S) /\ Len(Tail(s)) = Len(s) - 1
      /\ Len(s) \in Nat \ {0} /\ \A i \in 1..Len(Tail(s)) : Tail(s)[i] = s[i + 1]
  BY HeadTailProperties, EmptySeq
<1>2. <<Head(s)>> \in Seq(S) /\ Len(<<Head(s)>>) = 1 /\ <<Head(s)>>[1] = s[1]
  BY <1>1
<1>3. <<Head(s)>> \o Tail(s) \in Seq(S) /\ Len(<<Head(s)>> \o Tail(s)) = Len(s)
  BY <1>1, <1>2, ConcatProperties
<1>4. ASSUME NEW i \in 1..Len(s) PROVE s[i] = (<<Head(s)>> \o Tail(s))[i]
  BY <1>1, <1>2, ConcatProperties
<1> QED BY <1>1, <1>3, <1>4, SeqEqual

(* An event is put on the queue; taken by the queue thread; handed to the  *)
(* pool; given to the callback.                                            *)
LEMMA MoveTake ==
    ASSUME NEW S, NEW p \in Seq(S), NEW q \in Seq(S), q # <<>>
    PROVE  p \o <<>> \o q = p \o <<Head(q)>> \o Tail(q)
<1>1. Head(q) \in S /\ Tail(q) \in Seq(S) /\ q = <<Head(q)>> \o Tail(q)
  BY HeadTailConcat
<1>2. <<Head(q)>> \in Seq(S)
  BY <1>1
<1>3. (p \o <<Head(q)>>) \o Tail(q) = p \o (<<Head(q)>> \o Tail(q))
  BY <1>1, <1>2, ConcatAssociative
<1>4. p \o <<>> = p
  BY ConcatEmptySeq
<1> QED BY <1>1, <1>3, <1>4

LEMMA MoveSubmit ==
    ASSUME NEW S, NEW a \in Seq(S), NEW w \in Seq(S), NEW e \in S
    PROVE  a \o w \o <<e>> = a \o Append(w, e) \o <<>>
<1>1. a \o w \in Seq(S) /\ Append(w, e) \in Seq(S)
  BY ConcatProperties
<1>2. a \o Append(w, e) = Append(a \o w, e) /\ Append(a \o w, e) = (a \o w) \o <<e>>
  BY <1>1, ConcatSnoc, AppendIsConcat
<1>3. a \o Append(w, e) \in Seq(S)
  BY <1>1, ConcatProperties
<1> QED BY <1>2, <1>3, ConcatEmptySeq

LEMMA MoveCall ==
    ASSUME NEW S, NEW a \in Seq(S), NEW w \in Seq(S), w # <<>>
    PROVE  a \o w = Append(a, Head(w)) \o Tail(w)
<1>1. Head(w) \in S /\ Tail(w) \in Seq(S) /\ w = <<Head(w)>> \o Tail(w)
  BY HeadTailConcat
<1>2. <<Head(w)>> \in Seq(S)
  BY <1>1
<1>3. Append(a, Head(w)) = a \o <<Head(w)>>
  BY <1>1, AppendIsConcat
<1>4. (a \o <<Head(w)>>) \o Tail(w) = a \o (<<Head(w)>> \o Tail(w))
  BY <1>1, <1>2, ConcatAssociative
<1> QED BY <1>1, <1>3, <1>4

(***************************************************************************)
(* A callback that stays has its key, its entry and an open pool until     *)
(* close() removes it, which happens after the queue thread has ended.     *)
(***************************************************************************)
Serving ==
    /\ Subscribed \subseteq keys
    /\ closing \in {"cleaning", "closed"} => disp \in {"stopped", "dead"}
    /\ closing \in {"no", "joining"} =>
          \A c \in Subscribed : sub[c] /\ pool[c] = "open" /\ cpc[c] = "on"

LEMMA ServingInit == Init => Serving
BY DEF Init, NewStream, Serving, Subscribed

LEMMA ServingStep ==
    ASSUME TypeOK, Serving, [Next]_vars
    PROVE  Serving'
<1> USE DEF TypeOK, DeliverOK, Serving
<1>1. CASE UNCHANGED <<keys, closing, disp, sub, pool, cpc>>
  BY <1>1
<1>2. ASSUME NEW t \in Threads, AddEvent(t) PROVE Serving'
  <2>1. CASE Enqueue(t)
    BY <1>1, <2>1 DEF Enqueue
  <2>2. CASE ~ Enqueue(t)
    BY <1>1, <1>2, <2>2, WriterFrame DEF deliver
  <2> QED BY <2>1, <2>2
<1>3. ASSUME NEW r \in Readers, ComputeCurId(r) PROVE Serving'
  BY <1>1, <1>3 DEF ComputeCurId, ReadCurId, ListEvents, SetCurId, deliver
<1>4. CASE CheckStop \/ GetEvent \/ GetTimeout \/ FanDone
  BY <1>4 DEF CheckStop, GetEvent, GetTimeout, FanDone, subscribing, ending
<1>5. ASSUME NEW c \in Callbacks, Submit(c) PROVE Serving'
  BY <1>5 DEF Submit, subscribing, ending
<1>6. ASSUME NEW c \in Callbacks, RunCallback(c) PROVE Serving'
  BY <1>1, <1>6 DEF RunCallback, dispatching, subscribing, ending
<1>7. ASSUME NEW c \in Callbacks, Subscribe(c) \/ CleanUp(c) PROVE Serving'
  <2>1. /\ UNCHANGED <<closing, disp>> /\ keys \subseteq keys'
        /\ \A d \in Callbacks \ {c} : UNCHANGED <<sub[d], pool[d], cpc[d]>>
    BY <1>7 DEF Subscribe, CleanUp, SubscribeCallback, SubscribePool,
       CleanUpLoop, CleanUpShutdown, CleanUpPool, CleanUpCallback, churn, dispatching,
       ending
  <2>2. c \notin Subscribed \/ closing \notin {"no", "joining"}
    BY <1>7 DEF Subscribe, CleanUp, SubscribeCallback, SubscribePool,
       CleanUpLoop, CleanUpShutdown, CleanUpPool, CleanUpCallback, Subscribed
  <2>3. Subscribed \subseteq Callbacks
    BY DEF Subscribed
  <2> QED BY <2>1, <2>2, <2>3
<1>8. CASE CloseBegin \/ CloseJoin \/ CloseDrain
  BY <1>8 DEF CloseBegin, CloseJoin, CloseDrain, dispatching, subscribing
<1>9. CASE Shutdown
  BY <1>1, <1>9 DEF Shutdown, dispatching, subscribing
<1>10. CASE Crash
  BY <1>10 DEF Crash, Subscribed
<1>11. CASE UNCHANGED vars
  BY <1>1, <1>11 DEF vars, deliver
<1> QED BY <1>2, <1>3, <1>4, <1>5, <1>6, <1>7, <1>8, <1>9, <1>10, <1>11
        DEF Next, ProcessQueue, Close

(***************************************************************************)
(* What a callback that stays has seen, what waits in its pool, what the   *)
(* queue thread holds for it and what is queued are what was put.          *)
(***************************************************************************)
Passage(c) == seen[c] \o work[c] \o InHand(c) \o queue

LEMMA WayParts ==
    ASSUME TypeOK, NEW c \in Callbacks, disp # "dead"
    PROVE  /\ seen[c] \in Seq(Entry) /\ work[c] \in Seq(Entry) /\ queue \in Seq(Entry)
           /\ seen[c] \o work[c] \in Seq(Entry)
           /\ InHand(c) \in Seq(Entry)
<1>1. seen[c] \in Seq(Entry) /\ work[c] \in Seq(Entry) /\ queue \in Seq(Entry)
  BY DEF TypeOK, DeliverOK
<1>2. disp = "fan" => <<item>> \in Seq(Entry)
  BY DEF TypeOK, DeliverOK
<1>3. <<>> \in Seq(Entry)
  OBVIOUS
<1> QED BY <1>1, <1>2, <1>3, ConcatProperties DEF InHand

LEMMA NothingLostStep ==
    ASSUME TypeOK, Serving, NothingLost, [Next]_vars
    PROVE  NothingLost'
<1> SUFFICES ASSUME closing' \in {"no", "joining"}, disp' # "dead", NEW c \in Subscribed
             PROVE  Passage(c)' = queued'
  BY DEF NothingLost, Passage
<1>0. c \in Callbacks
  BY DEF Subscribed
<1>1. CASE Crash
  <2>1. /\ seen'[c] = <<>> /\ work'[c] = <<>> /\ queue' = <<>> /\ queued' = <<>>
        /\ InHand(c)' = <<>>
    BY <1>0, <1>1 DEF Crash, InHand
  <2> QED BY <2>1 DEF Passage
<1>2. ASSUME ~ Crash
      PROVE  closing \in {"no", "joining"} /\ disp # "dead" /\ Passage(c) = queued
  <2>1. CASE UNCHANGED <<closing, disp>>
    BY <2>1 DEF NothingLost, Passage
  <2>2. CASE DeliverNext
    BY <2>2 DEF NothingLost, Passage, DeliverNext, ProcessQueue, RunCallback, Subscribe,
       CleanUp, Close, CheckStop, GetEvent, GetTimeout, Submit, FanDone,
       SubscribeCallback, SubscribePool, CleanUpLoop, CleanUpShutdown, CleanUpPool,
       CleanUpCallback, CloseBegin, CloseJoin, CloseDrain, Shutdown, churn,
       dispatching, ending
  <2>3. ASSUME NEW t \in Threads, AddEvent(t) PROVE UNCHANGED <<closing, disp>>
    BY <2>3, WriterFrame DEF deliver, Enqueue
  <2>4. ASSUME NEW r \in Readers, ComputeCurId(r) PROVE UNCHANGED <<closing, disp>>
    BY <2>4 DEF ComputeCurId, ReadCurId, ListEvents, SetCurId, deliver
  <2>5. UNCHANGED vars => UNCHANGED <<closing, disp>>
    BY DEF vars, deliver
  <2> QED BY <1>2, <2>1, <2>2, <2>3, <2>4, <2>5 DEF Next, DeliverNext
<1> USE DEF Passage
<1>3. ASSUME UNCHANGED <<queue, queued, item>>, seen'[c] = seen[c], work'[c] = work[c],
             InHand(c)' = InHand(c), ~ Crash
      PROVE  Passage(c)' = queued'
  BY <1>2, <1>3
<1>4. ASSUME UNCHANGED <<queue, queued, dispatching, seen, work>>, ~ Crash
      PROVE  Passage(c)' = queued'
  BY <1>3, <1>4 DEF dispatching, InHand
<1>5. ASSUME NEW t \in Threads, Enqueue(t), ~ Crash PROVE Passage(c)' = queued'
  <2> DEFINE e == [id |-> my[t].id, ev |-> my[t].ev]
  <2>1. e \in Entry
    BY <1>5 DEF Enqueue, TypeOK, WriterOK
  <2>2. /\ queue' = Append(queue, e) /\ queued' = Append(queued, e)
        /\ UNCHANGED <<seen, work, disp, item, todo>>
    BY <1>5 DEF Enqueue
  <2> HIDE DEF e
  <2> DEFINE p == seen[c] \o work[c] \o InHand(c)
  <2>3. p \in Seq(Entry) /\ queue \in Seq(Entry)
    BY <1>0, <1>2, <1>5, WayParts, ConcatProperties
  <2>4. InHand(c)' = InHand(c)
    BY <2>2 DEF InHand
  <2>5. p \o queue = queued
    BY <1>2, <1>5
  <2>6. Passage(c)' = p \o Append(queue, e)
    BY <2>2, <2>4
  <2> HIDE DEF p, Passage
  <2>7. p \o Append(queue, e) = Append(p \o queue, e)
    BY <2>1, <2>3, ConcatSnoc
  <2> QED BY <2>2, <2>5, <2>6, <2>7
<1>6. CASE GetEvent /\ ~ Crash
  <2>1. /\ InHand(c) = <<>> /\ InHand(c)' = <<Head(queue)>> /\ queue # <<>>
        /\ queue' = Tail(queue) /\ UNCHANGED <<seen, work, queued>>
    BY <1>6 DEF GetEvent, InHand, Serving
  <2>2. seen[c] \o work[c] \in Seq(Entry) /\ queue \in Seq(Entry)
    BY <1>0, <1>2, <1>6, WayParts
  <2> QED BY <1>2, <1>6, <2>1, <2>2, MoveTake
<1>7. CASE (CheckStop \/ GetTimeout \/ FanDone) /\ ~ Crash
  <2>1. /\ InHand(c) = <<>> /\ InHand(c)' = <<>>
        /\ UNCHANGED <<queue, queued, seen, work>>
    BY <1>7 DEF CheckStop, GetTimeout, FanDone, InHand
  <2> QED BY <1>2, <1>7, <2>1
<1>8. ASSUME NEW d \in Callbacks, Submit(d), ~ Crash PROVE Passage(c)' = queued'
  <2>1. /\ disp = "fan" /\ disp' = "fan" /\ d \in todo /\ todo' = todo \ {d}
        /\ UNCHANGED <<queue, queued, seen, item>>
    BY <1>8 DEF Submit
  <2>2. CASE d # c
    <3>1. work'[c] = work[c] /\ InHand(c)' = InHand(c)
      BY <1>0, <1>8, <2>1, <2>2 DEF Submit, InHand, TypeOK, DeliverOK
    <3> QED BY <1>3, <1>8, <2>1, <3>1
  <2>3. CASE d = c
    <3>1. sub[c] /\ pool[c] = "open"
      BY <1>2, <1>8, <2>1 DEF Serving, TypeOK, DeliverOK
    <3>2. work'[c] = Append(work[c], item)
      BY <1>0, <1>8, <2>3, <3>1 DEF Submit, TypeOK, DeliverOK
    <3>3. InHand(c) = <<item>> /\ InHand(c)' = <<>>
      BY <2>1, <2>3 DEF InHand
    <3>4. seen[c] \in Seq(Entry) /\ work[c] \in Seq(Entry) /\ item \in Entry
      BY <1>0, <2>1 DEF TypeOK, DeliverOK
    <3>5. seen[c] \o work[c] \o <<item>> = seen[c] \o Append(work[c], item) \o <<>>
      BY <3>4, MoveSubmit
    <3> QED BY <1>2, <1>8, <2>1, <3>2, <3>3, <3>5
  <2> QED BY <2>2, <2>3
<1>9. ASSUME NEW d \in Callbacks, RunCallback(d), ~ Crash PROVE Passage(c)' = queued'
  <2>1. UNCHANGED <<queue, queued, item>> /\ InHand(c)' = InHand(c)
    BY <1>9 DEF RunCallback, dispatching, InHand
  <2>2. CASE d # c
    <3>1. seen'[c] = seen[c] /\ work'[c] = work[c]
      BY <1>0, <1>9, <2>2 DEF RunCallback, TypeOK, DeliverOK
    <3> QED BY <1>3, <1>9, <2>1, <3>1
  <2>3. CASE d = c
    <3>0. cpc[c] = "on"
      BY <1>2, <1>9 DEF Serving
    <3>1. /\ work[c] # <<>> /\ work'[c] = Tail(work[c])
          /\ seen'[c] = Append(seen[c], Head(work[c]))
      BY <1>0, <1>9, <2>3, <3>0 DEF RunCallback, TypeOK, DeliverOK
    <3>2. seen[c] \o work[c] = seen'[c] \o work'[c]
      BY <1>0, <3>1, MoveCall DEF TypeOK, DeliverOK
    <3> QED BY <1>2, <1>9, <2>1, <3>2
  <2> QED BY <2>2, <2>3
<1>10. ASSUME NEW d \in Callbacks, Subscribe(d) \/ CleanUp(d), ~ Crash
       PROVE  Passage(c)' = queued'
  BY <1>4, <1>10 DEF Subscribe, CleanUp, SubscribeCallback, SubscribePool,
     CleanUpLoop, CleanUpShutdown, CleanUpPool, CleanUpCallback, churn
<1>11. CASE (Close \/ Shutdown) /\ ~ Crash
  BY <1>4, <1>11 DEF Close, CloseBegin, CloseJoin, CloseDrain, Shutdown
<1>12. ASSUME NEW t \in Threads, AddEvent(t), ~ Enqueue(t), ~ Crash
       PROVE  Passage(c)' = queued'
  BY <1>4, <1>12, WriterFrame DEF deliver, dispatching
<1>13. ASSUME NEW r \in Readers, ComputeCurId(r), ~ Crash PROVE Passage(c)' = queued'
  BY <1>4, <1>13 DEF ComputeCurId, ReadCurId, ListEvents, SetCurId, deliver, dispatching
<1>14. CASE UNCHANGED vars /\ ~ Crash
  BY <1>4, <1>14 DEF vars, deliver, dispatching
<1> QED BY <1>1, <1>5, <1>6, <1>7, <1>8, <1>9, <1>10, <1>11, <1>12, <1>13, <1>14
        DEF Next, ProcessQueue

(* Between the queue and a callback that stays subscribed nothing is lost, *)
(* repeated or reordered, until the stream is closed or the queue thread   *)
(* dies of a callback that leaves.                                         *)
THEOREM NothingIsLost == Spec => []NothingLost
<1>1. Init => NothingLost
  BY DEF Init, NewStream, NothingLost, InHand, Subscribed
<1>2. (TypeOK /\ Bounded /\ Serving /\ NothingLost) /\ [Next]_vars
        => (TypeOK /\ Bounded /\ Serving /\ NothingLost)'
  BY DiskStep, WriterStep, DeliverStep, ServingStep, NothingLostStep DEF TypeOK
<1> QED BY <1>1, <1>2, TypeInit, ServingInit, PTL DEF Spec
-----------------------------------------------------------------------------
(***************************************************************************)
(* A callback that has left is not called.  Its pool takes work only while *)
(* it is subscribed, and is deleted when it has none.                      *)
(***************************************************************************)
Pooled ==
    \A c \in Callbacks :
        /\ pool[c] = "open" => cpc[c] \in {"on", "stopping"}
        /\ cpc[c] \in {"removing", "off", "adding"} => work[c] = <<>>

LEMMA PooledStep ==
    ASSUME TypeOK, Pooled, [Next]_vars
    PROVE  Pooled'
<1> USE DEF TypeOK, DeliverOK, Pooled
<1>1. CASE UNCHANGED <<pool, cpc, work>>
  BY <1>1
<1>2. ASSUME NEW t \in Threads, AddEvent(t) PROVE Pooled'
  <2>1. CASE Enqueue(t)
    BY <1>1, <2>1 DEF Enqueue
  <2>2. CASE ~ Enqueue(t)
    BY <1>1, <1>2, <2>2, WriterFrame DEF deliver
  <2> QED BY <2>1, <2>2
<1>3. ASSUME NEW r \in Readers, ComputeCurId(r) PROVE Pooled'
  BY <1>1, <1>3 DEF ComputeCurId, ReadCurId, ListEvents, SetCurId, deliver
<1>4. CASE CheckStop \/ GetEvent \/ GetTimeout \/ FanDone
  BY <1>1, <1>4 DEF CheckStop, GetEvent, GetTimeout, FanDone, subscribing
<1>5. ASSUME NEW c \in Callbacks, Submit(c) PROVE Pooled'
  <2>1. UNCHANGED <<pool, cpc>>
    BY <1>5 DEF Submit, subscribing
  <2>2. \A d \in Callbacks : work'[d] = work[d] \/ (d = c /\ cpc[d] \in {"on", "stopping"})
    BY <1>5 DEF Submit
  <2> QED BY <2>1, <2>2
<1>6. ASSUME NEW c \in Callbacks, RunCallback(c) PROVE Pooled'
  <2>1. UNCHANGED <<pool, cpc>> /\ work[c] # <<>>
    BY <1>6 DEF RunCallback, subscribing
  <2>2. \A d \in Callbacks : d # c => work'[d] = work[d]
    BY <1>6 DEF RunCallback
  <2> QED BY <2>1, <2>2
<1>7. ASSUME NEW c \in Callbacks, Subscribe(c) \/ CleanUp(c) PROVE Pooled'
  BY <1>7 DEF Subscribe, CleanUp, SubscribeCallback, SubscribePool,
     CleanUpLoop, CleanUpShutdown, CleanUpPool, CleanUpCallback, churn
<1>8. CASE CloseBegin \/ CloseJoin \/ CloseDrain
  BY <1>1, <1>8 DEF CloseBegin, CloseJoin, CloseDrain, subscribing
<1>9. CASE Shutdown
  BY <1>1, <1>9 DEF Shutdown, subscribing
<1>10. CASE Crash
  BY <1>10 DEF Crash
<1>11. CASE UNCHANGED vars
  BY <1>1, <1>11 DEF vars, deliver
<1> QED BY <1>2, <1>3, <1>4, <1>5, <1>6, <1>7, <1>8, <1>9, <1>10, <1>11
        DEF Next, ProcessQueue, Close

(* After unsubscribe has returned, or close() has removed it, a callback   *)
(* is not called any more, whatever the queue thread was doing.            *)
THEOREM QuietAfterLeaving == Spec => []QuietWhenOff
<1>1. Init => Pooled
  BY DEF Init, NewStream, Pooled
<1>2. (TypeOK /\ Bounded /\ Pooled) /\ [Next]_vars => (TypeOK /\ Bounded /\ Pooled)'
  BY DiskStep, WriterStep, DeliverStep, PooledStep DEF TypeOK
<1>3. Pooled => QuietWhenOff
  BY DEF Pooled, QuietWhenOff
<1> QED BY <1>1, <1>2, <1>3, TypeInit, PTL DEF Spec
-----------------------------------------------------------------------------
(***************************************************************************)
(* EventStream implements DurableLog when nobody computes cur_id outside   *)
(* the lock.  The log only grows and what is on its way to a callback is   *)
(* in it (Append1, Durable).  What is added here is that no event is on    *)
(* its way twice: the ids between a thread's hands and a callback differ.  *)
(***************************************************************************)
Ids(s) == {s[i].id : i \in DOMAIN s}
Distinct(s) == \A i, j \in DOMAIN s : s[i].id = s[j].id => i = j

(* Ids that callback c has been called with or is about to be.             *)
Way(c) == Ids(seen[c]) \cup Ids(work[c]) \cup Ids(queue)
Held(c) == disp = "fan" /\ c \in todo

Once(c) ==
    /\ Distinct(queue) /\ Distinct(work[c]) /\ Distinct(seen[c])
    /\ Ids(queue) \cap Ids(work[c]) = {}
    /\ Ids(queue) \cap Ids(seen[c]) = {}
    /\ Ids(work[c]) \cap Ids(seen[c]) = {}
    /\ Held(c) => item.id \notin Way(c)
New(t, c) ==
    pc[t] # "idle" =>
        /\ my[t].id \notin Way(c)
        /\ disp = "fan" => my[t].id # item.id
OnceInv == \A c \in Callbacks : Once(c) /\ \A t \in Threads : New(t, c)

(* Appending an entry with a new id keeps the ids distinct.                *)
LEMMA AppendIds ==
    ASSUME NEW s \in Seq(Entry), NEW e \in Entry
    PROVE  /\ Ids(Append(s, e)) = Ids(s) \cup {e.id}
           /\ Distinct(s) /\ e.id \notin Ids(s) => Distinct(Append(s, e))
<1>1. /\ Len(s) \in Nat /\ DOMAIN s = 1..Len(s)
      /\ DOMAIN Append(s, e) = 1..(Len(s) + 1)
      /\ \A i \in 1..Len(s) : Append(s, e)[i] = s[i]
      /\ Append(s, e)[Len(s) + 1] = e
  OBVIOUS
<1>2. Ids(Append(s, e)) = Ids(s) \cup {e.id}
  <2>1. Ids(Append(s, e)) \subseteq Ids(s) \cup {e.id}
    BY <1>1 DEF Ids
  <2>2. Ids(s) \subseteq Ids(Append(s, e))
    BY <1>1 DEF Ids
  <2>3. e.id \in Ids(Append(s, e))
    BY <1>1 DEF Ids
  <2> QED BY <2>1, <2>2, <2>3
<1>3. ASSUME Distinct(s), e.id \notin Ids(s)
      PROVE  Distinct(Append(s, e))
  BY <1>1, <1>3 DEF Distinct, Ids
<1> QED BY <1>2, <1>3

(* The head of a sequence of distinct ids is not in its tail.              *)
LEMMA TailIds ==
    ASSUME NEW s \in Seq(Entry), s # <<>>
    PROVE  /\ Head(s) \in Entry /\ Tail(s) \in Seq(Entry)
           /\ Ids(Tail(s)) \subseteq Ids(s) /\ Head(s).id \in Ids(s)
           /\ Distinct(s) => Distinct(Tail(s)) /\ Head(s).id \notin Ids(Tail(s))
<1>1. /\ Len(s) \in Nat \ {0} /\ DOMAIN s = 1..Len(s)
      /\ DOMAIN Tail(s) = 1..(Len(s) - 1)
      /\ \A i \in 1..(Len(s) - 1) : Tail(s)[i] = s[i + 1]
      /\ Head(s) = s[1] /\ Head(s) \in Entry /\ Tail(s) \in Seq(Entry)
  OBVIOUS
<1>2. Ids(Tail(s)) \subseteq Ids(s)
  BY <1>1 DEF Ids
<1>3. Head(s).id \in Ids(s)
  BY <1>1 DEF Ids
<1>4. ASSUME Distinct(s)
      PROVE  Distinct(Tail(s)) /\ Head(s).id \notin Ids(Tail(s))
  <2>1. Distinct(Tail(s))
    <3>1. ASSUME NEW i \in DOMAIN Tail(s), NEW j \in DOMAIN Tail(s),
                 Tail(s)[i].id = Tail(s)[j].id
          PROVE  i = j
      <4>1. i + 1 \in DOMAIN s /\ j + 1 \in DOMAIN s /\ s[i + 1].id = s[j + 1].id
        BY <1>1, <3>1
      <4> QED BY <1>1, <1>4, <4>1 DEF Distinct
    <3> QED BY <3>1 DEF Distinct
  <2>2. ASSUME NEW i \in DOMAIN Tail(s), Tail(s)[i].id = Head(s).id
        PROVE  FALSE
    <3>1. i + 1 \in DOMAIN s /\ 1 \in DOMAIN s /\ s[i + 1].id = s[1].id /\ i + 1 # 1
      BY <1>1, <2>2
    <3> QED BY <1>4, <3>1 DEF Distinct
  <2> QED BY <2>1, <2>2 DEF Ids
<1> QED BY <1>1, <1>2, <1>3, <1>4

(* A new stream has no event on any way.                                   *)
LEMMA OnceInit == (\A c \in Callbacks : seen[c] = <<>> /\ work[c] = <<>>)
                  /\ queue = <<>> /\ disp # "fan" => OnceInv
<1>1. Ids(<<>>) = {} /\ Distinct(<<>>)
  BY DEF Ids, Distinct
<1> QED BY <1>1 DEF OnceInv, Once, New, Way, Held

(* A step that leaves the ways alone, or only drops the held event, and    *)
(* gives no thread a new id, keeps the ids apart.                          *)
LEMMA OnceFrame ==
    ASSUME OnceInv, UNCHANGED <<queue, work, seen>>,
           \A c \in Callbacks : Held(c)' => Held(c) /\ item' = item,
           disp' = "fan" => disp = "fan" /\ item' = item,
           \A t \in Threads : pc'[t] # "idle" => pc[t] # "idle" /\ my'[t].id = my[t].id
    PROVE  OnceInv'
<1>1. ASSUME NEW c \in Callbacks
      PROVE  Once(c)'
  <2>1. Way(c)' = Way(c)
    BY DEF Way, Ids
  <2>2. Once(c) /\ (Held(c)' => Held(c) /\ item' = item)
    BY DEF OnceInv
  <2>3. Held(c)' => (item.id \notin Way(c))'
    BY <2>1, <2>2 DEF Once
  <2>4. /\ Ids(queue)' = Ids(queue) /\ Ids(work[c])' = Ids(work[c])
        /\ Ids(seen[c])' = Ids(seen[c]) /\ Distinct(queue)' = Distinct(queue)
        /\ Distinct(work[c])' = Distinct(work[c])
        /\ Distinct(seen[c])' = Distinct(seen[c])
    BY DEF Ids, Distinct
  <2> QED BY <2>2, <2>3, <2>4 DEF Once
<1>2. ASSUME NEW c \in Callbacks, NEW t \in Threads
      PROVE  New(t, c)'
  <2>1. Way(c)' = Way(c)
    BY DEF Way, Ids
  <2> QED BY <2>1 DEF OnceInv, New
<1> QED BY <1>1, <1>2 DEF OnceInv

(* No step puts an event on a callback's way twice.                        *)
LEMMA OnceStep ==
    ASSUME Readers = {}, LogInv, Durable, OnceInv, [Next]_vars
    PROVE  OnceInv'
<1>0. TypeOK /\ DiskOK /\ WriterOK /\ DeliverOK /\ WriterOK' /\ Flight /\ Bounded
  BY WriterStep DEF LogInv, TypeOK
<1>a. /\ queue \in Seq(Entry)
      /\ \A c \in Callbacks : work[c] \in Seq(Entry) /\ seen[c] \in Seq(Entry)
      /\ disp = "fan" => item \in Entry
  BY <1>0 DEF DeliverOK
<1>b. \A c \in Callbacks : Once(c) /\ \A t \in Threads : New(t, c)
  BY DEF OnceInv
<1>1. ASSUME NEW t \in Threads, TakeId(t)
      PROVE  OnceInv'
  <2>1. /\ my'[t].id = cur' /\ UNCHANGED <<queue, work, seen, disp, todo, item, file>>
        /\ \A u \in Threads \ {t} : my'[u] = my[u] /\ pc'[u] = pc[u]
    BY <1>0, <1>1 DEF TakeId, WriterOK, deliver, disk
  <2>2. \A i \in DOMAIN file : i < cur' /\ cur' \in Nat
    BY <1>0, <1>1, NextFreeSpec DEF TakeId, Flight, DiskOK, WriterOK, Bounded
  <2>3. ASSUME NEW c \in Callbacks
        PROVE  Way(c) \subseteq DOMAIN file
    BY <1>a DEF Durable, PathDurable, OnDisk, Way, Ids
  <2>4. disp = "fan" => item.id \in DOMAIN file
    BY DEF Durable, PathDurable, OnDisk
  <2>5. ASSUME NEW c \in Callbacks
        PROVE  Once(c)'
    <3>1. Way(c)' = Way(c) /\ Held(c)' = Held(c) /\ item' = item
      BY <2>1 DEF Way, Ids, Held
    <3>2. Once(c)
      BY <1>b
    <3>3. /\ Ids(queue)' = Ids(queue) /\ Distinct(queue)' = Distinct(queue)
          /\ Ids(work[c])' = Ids(work[c]) /\ Distinct(work[c])' = Distinct(work[c])
          /\ Ids(seen[c])' = Ids(seen[c]) /\ Distinct(seen[c])' = Distinct(seen[c])
      BY <2>1 DEF Ids, Distinct
    <3> QED BY <3>1, <3>2, <3>3 DEF Once
  <2>6. ASSUME NEW c \in Callbacks, NEW u \in Threads
        PROVE  New(u, c)'
    <3>1. Way(c)' = Way(c) /\ item' = item /\ disp' = disp
      BY <2>1 DEF Way, Ids
    <3>2. CASE u = t
      <4>1. cur' \notin DOMAIN file
        BY <1>0, <2>2 DEF DiskOK
      <4> QED BY <2>1, <2>3, <2>4, <3>1, <3>2, <4>1 DEF New
    <3>3. CASE u # t
      <4>1. New(u, c)
        BY <1>b
      <4> QED BY <2>1, <3>1, <3>3, <4>1 DEF New
    <3> QED BY <3>2, <3>3
  <2> QED BY <2>5, <2>6 DEF OnceInv
<1>2. ASSUME NEW t \in Threads, Enqueue(t)
      PROVE  OnceInv'
  <2> DEFINE e == Hand(t)
  <2>1. /\ queue' = Append(queue, e) /\ e \in Entry /\ e.id = my[t].id
        /\ UNCHANGED <<work, seen, disp, todo, item>> /\ pc[t] = "put"
        /\ pc' = [pc EXCEPT ![t] = "idle"] /\ pc'[t] = "idle"
        /\ \A u \in Threads \ {t} : my'[u] = my[u] /\ pc'[u] = pc[u]
    BY <1>0, <1>2 DEF Enqueue, WriterOK, Hand
  <2> HIDE DEF e
  <2>2. Ids(queue)' = Ids(queue) \cup {e.id}
    BY <1>a, <2>1, AppendIds DEF Ids
  <2>3. ASSUME NEW c \in Callbacks
        PROVE  /\ Way(c)' = Way(c) \cup {e.id} /\ Held(c)' = Held(c)
               /\ Ids(work[c])' = Ids(work[c]) /\ Ids(seen[c])' = Ids(seen[c])
    BY <2>1, <2>2 DEF Way, Ids, Held
  <2>4. ASSUME NEW c \in Callbacks
        PROVE  Once(c)'
    <3>1. Once(c) /\ New(t, c)
      BY <1>b
    <3>2. e.id \notin Way(c) /\ (disp = "fan" => item.id # e.id)
      BY <2>1, <3>1 DEF New
    <3>3. e.id \notin Ids(queue) /\ e.id \notin Ids(work[c]) /\ e.id \notin Ids(seen[c])
      BY <3>2 DEF Way
    <3>4. Distinct(Append(queue, e))
      BY <1>a, <2>1, <3>1, <3>3, AppendIds DEF Once
    <3>5. Distinct(queue)'
      BY <2>1, <3>4 DEF Distinct
    <3>6. Distinct(work[c])' /\ Distinct(seen[c])'
      BY <2>1, <3>1 DEF Once, Distinct
    <3>7. Held(c)' => (item.id \notin Way(c))'
      BY <2>1, <2>3, <3>1, <3>2 DEF Once, Held
    <3> QED BY <2>2, <2>3, <3>1, <3>3, <3>5, <3>6, <3>7 DEF Once
  <2>5. ASSUME NEW c \in Callbacks, NEW u \in Threads
        PROVE  New(u, c)'
    <3>1. CASE u = t
      BY <2>1, <3>1 DEF New
    <3>2. CASE u # t
      <4>1. New(u, c) /\ (pc[u] # "idle" => my[u].id # e.id)
        BY <1>0, <1>b, <2>1, <3>2 DEF Flight
      <4> QED BY <2>1, <2>3, <3>2, <4>1 DEF New
    <3> QED BY <3>1, <3>2
  <2> QED BY <2>4, <2>5 DEF OnceInv
<1>3. CASE GetEvent
  <2>1. /\ queue # <<>> /\ queue' = Tail(queue) /\ item' = Head(queue)
        /\ disp' = "fan" /\ UNCHANGED <<work, seen, pc, my>>
    BY <1>3 DEF GetEvent, writer
  <2>2. /\ Ids(queue)' \subseteq Ids(queue) /\ item'.id \in Ids(queue)
        /\ Distinct(queue) => Distinct(queue)' /\ item'.id \notin Ids(queue)'
    <3>1. /\ Ids(Tail(queue)) \subseteq Ids(queue) /\ Head(queue).id \in Ids(queue)
          /\ Distinct(queue) =>
                 Distinct(Tail(queue)) /\ Head(queue).id \notin Ids(Tail(queue))
      BY <1>a, <2>1, TailIds
    <3> QED BY <2>1, <3>1 DEF Ids, Distinct
  <2>3. ASSUME NEW c \in Callbacks
        PROVE  Once(c)' /\ Way(c)' \subseteq Way(c)
    <3>1. Once(c)
      BY <1>b
    <3>2. /\ Ids(work[c])' = Ids(work[c]) /\ Ids(seen[c])' = Ids(seen[c])
          /\ Distinct(work[c])' = Distinct(work[c]) /\ Distinct(seen[c])' = Distinct(seen[c])
      BY <2>1 DEF Ids, Distinct
    <3>3. (item.id \notin Way(c))'
      BY <2>2, <3>1, <3>2 DEF Once, Way
    <3> QED BY <2>2, <3>1, <3>2, <3>3 DEF Once, Way
  <2>4. ASSUME NEW c \in Callbacks, NEW t \in Threads
        PROVE  New(t, c)'
    <3>1. New(t, c) /\ Ids(queue) \subseteq Way(c)
      BY <1>b DEF Way
    <3> QED BY <2>1, <2>2, <2>3, <3>1 DEF New
  <2> QED BY <2>3, <2>4 DEF OnceInv
<1>4. ASSUME NEW c \in Callbacks, Submit(c), work' = [work EXCEPT ![c] = Append(@, item)]
      PROVE  OnceInv'
  <2>1. /\ disp = "fan" /\ c \in todo /\ c \notin todo' /\ todo' \subseteq todo
        /\ work'[c] = Append(work[c], item)
        /\ \A d \in Callbacks \ {c} : work'[d] = work[d]
        /\ UNCHANGED <<queue, item, seen, pc, my>>
    BY <1>0, <1>4 DEF Submit, DeliverOK, writer
  <2>2. Held(c) /\ item \in Entry
    BY <1>a, <2>1 DEF Held
  <2>3. /\ Ids(work[c])' = Ids(work[c]) \cup {item.id}
        /\ Distinct(work[c]) /\ item.id \notin Ids(work[c]) => Distinct(work[c])'
    <3>1. Ids(work'[c]) = Ids(work[c]) \cup {item.id}
      BY <1>a, <2>1, <2>2, AppendIds
    <3>2. Distinct(work[c]) /\ item.id \notin Ids(work[c]) => Distinct(work'[c])
      BY <1>a, <2>1, <2>2, AppendIds
    <3> QED BY <3>1, <3>2 DEF Ids, Distinct
  <2>4. \A d \in Callbacks : Ids(queue)' = Ids(queue) /\ Ids(seen[d])' = Ids(seen[d])
           /\ Distinct(queue)' = Distinct(queue) /\ Distinct(seen[d])' = Distinct(seen[d])
    BY <2>1 DEF Ids, Distinct
  <2>5. ASSUME NEW d \in Callbacks
        PROVE  /\ Once(d)' /\ (d # c => Way(d)' = Way(d))
               /\ (d = c => Way(d)' = Way(d) \cup {item.id})
    <3>1. Once(d)
      BY <1>b
    <3>2. CASE d = c
      <4>1. /\ item.id \notin Ids(work[c]) /\ item.id \notin Ids(queue)
            /\ item.id \notin Ids(seen[c])
        BY <2>2, <3>1, <3>2 DEF Once, Way
      <4>2. ~ Held(c)'
        BY <2>1 DEF Held
      <4> QED BY <2>3, <2>4, <3>1, <3>2, <4>1, <4>2 DEF Once, Way
    <3>3. CASE d # c
      <4>1. Ids(work[d])' = Ids(work[d]) /\ Distinct(work[d])' = Distinct(work[d])
        BY <2>1, <3>3 DEF Ids, Distinct
      <4>2. Way(d)' = Way(d) /\ (Held(d)' => Held(d)) /\ item' = item
        BY <2>1, <2>4, <4>1 DEF Way, Held
      <4> QED BY <2>4, <3>1, <3>3, <4>1, <4>2 DEF Once
    <3> QED BY <3>2, <3>3
  <2>6. ASSUME NEW d \in Callbacks, NEW t \in Threads
        PROVE  New(t, d)'
    <3>1. New(t, d)
      BY <1>b
    <3> QED BY <2>1, <2>5, <3>1 DEF New
  <2> QED BY <2>5, <2>6 DEF OnceInv
<1>5. ASSUME NEW c \in Callbacks, RunCallback(c)
      PROVE  OnceInv'
  <2> DEFINE e == Head(work[c])
  <2>1. /\ work[c] # <<>> /\ work'[c] = Tail(work[c])
        /\ seen'[c] = Append(seen[c], e) \/ seen'[c] = seen[c]
        /\ \A d \in Callbacks \ {c} : work'[d] = work[d] /\ seen'[d] = seen[d]
        /\ UNCHANGED <<queue, item, disp, todo, pc, my>>
    BY <1>0, <1>5 DEF RunCallback, DeliverOK, writer, dispatching
  <2>2. /\ e \in Entry /\ Ids(work[c])' \subseteq Ids(work[c]) /\ e.id \in Ids(work[c])
        /\ Distinct(work[c]) => Distinct(work[c])' /\ e.id \notin Ids(work[c])'
    <3>1. /\ e \in Entry /\ Ids(Tail(work[c])) \subseteq Ids(work[c]) /\ e.id \in Ids(work[c])
          /\ Distinct(work[c]) =>
                 Distinct(Tail(work[c])) /\ e.id \notin Ids(Tail(work[c]))
      BY <1>a, <2>1, TailIds
    <3>2. Ids(work[c])' = Ids(Tail(work[c])) /\ Distinct(work[c])' = Distinct(Tail(work[c]))
      BY <2>1 DEF Ids, Distinct
    <3> QED BY <3>1, <3>2
  <2> HIDE DEF e
  <2>3. /\ Ids(seen[c])' \subseteq Ids(seen[c]) \cup {e.id}
        /\ Distinct(seen[c]) /\ e.id \notin Ids(seen[c]) => Distinct(seen[c])'
    <3>1. Ids(seen'[c]) \subseteq Ids(seen[c]) \cup {e.id}
      BY <1>a, <2>1, <2>2, AppendIds
    <3>2. Distinct(seen[c]) /\ e.id \notin Ids(seen[c]) => Distinct(seen'[c])
      BY <1>a, <2>1, <2>2, AppendIds
    <3> QED BY <3>1, <3>2 DEF Ids, Distinct
  <2>4. Ids(queue)' = Ids(queue) /\ Distinct(queue)' = Distinct(queue)
    BY <2>1 DEF Ids, Distinct
  <2>5. ASSUME NEW d \in Callbacks
        PROVE  Once(d)' /\ Way(d)' \subseteq Way(d)
    <3>1. Once(d) /\ (Held(d)' => Held(d)) /\ item' = item
      BY <1>b, <2>1 DEF Held
    <3>2. CASE d = c
      <4>1. Way(d)' \subseteq Way(d)
        BY <2>2, <2>3, <2>4, <3>2 DEF Way
      <4>2. e.id \notin Ids(queue) /\ e.id \notin Ids(seen[c])
        BY <2>2, <3>1, <3>2 DEF Once
      <4> QED BY <2>2, <2>3, <2>4, <3>1, <3>2, <4>1, <4>2 DEF Once
    <3>3. CASE d # c
      <4>1. /\ Ids(work[d])' = Ids(work[d]) /\ Distinct(work[d])' = Distinct(work[d])
            /\ Ids(seen[d])' = Ids(seen[d]) /\ Distinct(seen[d])' = Distinct(seen[d])
        BY <2>1, <3>3 DEF Ids, Distinct
      <4>2. Way(d)' = Way(d)
        BY <2>4, <4>1 DEF Way
      <4> QED BY <2>4, <3>1, <4>1, <4>2 DEF Once
    <3> QED BY <3>2, <3>3
  <2>6. ASSUME NEW d \in Callbacks, NEW t \in Threads
        PROVE  New(t, d)'
    <3>1. New(t, d)
      BY <1>b
    <3> QED BY <2>1, <2>5, <3>1 DEF New
  <2> QED BY <2>5, <2>6 DEF OnceInv
<1>6. ASSUME NEW t \in Threads, AddEvent(t), ~ TakeId(t), ~ Enqueue(t)
      PROVE  OnceInv'
  <2>1. /\ UNCHANGED <<queue, work, seen, disp, todo, item, my>>
        /\ \A u \in Threads : pc'[u] # "idle" => pc[u] # "idle"
    BY <1>0, <1>6 DEF AddEvent, FillPage, TruncateFile, WriteFile, TruncatePage,
       StorePage, deliver, WriterOK
  <2> QED BY <2>1, OnceFrame DEF Held
<1>7. CASE ProcessQueue /\ ~ GetEvent /\ UNCHANGED work
  <2>1. UNCHANGED <<queue, work, seen, pc, my>>
    BY <1>7 DEF ProcessQueue, CheckStop, GetTimeout, FanDone, Submit, writer
  <2>2. disp' = "fan" => disp = "fan" /\ item' = item /\ todo' \subseteq todo
    BY <1>7 DEF ProcessQueue, CheckStop, GetTimeout, FanDone, Submit
  <2> QED BY <2>1, <2>2, OnceFrame DEF Held
<1>8. ASSUME NEW c \in Callbacks, Subscribe(c) \/ CleanUp(c)
      PROVE  OnceInv'
  <2>1. UNCHANGED <<queue, work, seen, disp, todo, item, pc, my>>
    BY <1>8 DEF Subscribe, CleanUp, SubscribeCallback, SubscribePool,
       CleanUpLoop, CleanUpShutdown, CleanUpPool, CleanUpCallback, churn, dispatching, writer
  <2> QED BY <2>1, OnceFrame DEF Held
<1>9. CASE (Close \/ Shutdown) /\ ~ CloseDrain
  <2>1. UNCHANGED <<queue, work, seen, disp, todo, item, pc, my>>
    BY <1>9 DEF Close, CloseBegin, CloseJoin, Shutdown, dispatching, writer
  <2> QED BY <2>1, OnceFrame DEF Held
<1>10. CASE CloseDrain
  <2>1. queue' = <<>> /\ UNCHANGED <<work, seen, disp, todo, item, pc, my>>
    BY <1>10 DEF CloseDrain, dispatching, writer
  <2>2. Ids(queue)' = {} /\ Distinct(queue)'
    BY <2>1 DEF Ids, Distinct
  <2>3. ASSUME NEW c \in Callbacks
        PROVE  Once(c)' /\ Way(c)' \subseteq Way(c)
    <3>1. Once(c)
      BY <1>b
    <3>2. /\ Ids(work[c])' = Ids(work[c]) /\ Distinct(work[c])' = Distinct(work[c])
          /\ Ids(seen[c])' = Ids(seen[c]) /\ Distinct(seen[c])' = Distinct(seen[c])
          /\ Held(c)' = Held(c) /\ item' = item
      BY <2>1 DEF Ids, Distinct, Held
    <3> QED BY <2>2, <3>1, <3>2 DEF Once, Way
  <2>4. ASSUME NEW c \in Callbacks, NEW t \in Threads
        PROVE  New(t, c)'
    <3>1. New(t, c)
      BY <1>b
    <3> QED BY <2>1, <2>3, <3>1 DEF New
  <2> QED BY <2>3, <2>4 DEF OnceInv
<1>11. CASE Crash
  <2>1. /\ \A c \in Callbacks : seen'[c] = <<>> /\ work'[c] = <<>>
        /\ queue' = <<>> /\ disp' # "fan" /\ \A t \in Threads : pc'[t] = "idle"
    BY <1>11 DEF Crash
  <2>2. Ids(<<>>) = {} /\ Distinct(<<>>)
    BY DEF Ids, Distinct
  <2>3. \A c \in Callbacks :
           /\ Ids(queue)' = {} /\ Ids(work[c])' = {} /\ Ids(seen[c])' = {}
           /\ Distinct(queue)' /\ Distinct(work[c])' /\ Distinct(seen[c])'
    BY <2>1 DEF Ids, Distinct
  <2> QED BY <2>1, <2>3 DEF OnceInv, Once, New, Held
<1>12. CASE UNCHANGED vars
  <2>1. UNCHANGED <<queue, work, seen, disp, todo, item, pc, my>>
    BY <1>12 DEF vars, deliver, writer
  <2> QED BY <2>1, OnceFrame DEF Held
<1>13. CASE ProcessQueue
  <2>1. CASE GetEvent
    BY <1>3, <2>1
  <2>2. ASSUME NEW c \in Callbacks, Submit(c)
        PROVE  work' = work \/ work' = [work EXCEPT ![c] = Append(@, item)]
    BY <2>2 DEF Submit
  <2>3. CASE CheckStop \/ GetTimeout \/ FanDone
    <3>1. UNCHANGED work /\ ~ GetEvent
      BY <2>3 DEF CheckStop, GetTimeout, FanDone, GetEvent
    <3> QED BY <1>7, <1>13, <3>1
  <2>4. ASSUME NEW c \in Callbacks, Submit(c)
        PROVE  OnceInv'
    <3>1. ~ GetEvent
      BY <2>4 DEF Submit, GetEvent
    <3> QED BY <1>4, <1>7, <1>13, <2>2, <2>4, <3>1
  <2> QED BY <1>13, <2>1, <2>3, <2>4 DEF ProcessQueue
<1>14. ASSUME NEW r \in Readers, ComputeCurId(r)
       PROVE  OnceInv'
  OBVIOUS
<1> QED BY <1>1, <1>2, <1>5, <1>6, <1>8, <1>9, <1>10, <1>11, <1>12, <1>13, <1>14 DEF Next
-----------------------------------------------------------------------------
(***************************************************************************)
(* The refinement.                                                         *)
(***************************************************************************)
log == {[id |-> i, ev |-> file[i]] : i \in {j \in DOMAIN file : file[j] # Torn}}

(* The log follows the files ...                                           *)
LEMMA LogFrame == UNCHANGED file => UNCHANGED log
  BY DEF log

(* ... and an entry is in it when it is on disk.                           *)
LEMMA InLog ==
    ASSUME NEW e \in Entry, OnDisk(e)
    PROVE  e \in log
<1>1. e = [id |-> e.id, ev |-> e.ev] /\ e.ev \in Event
  BY DEF Entry
<1>2. e.ev # Torn
  BY <1>1, StreamAssumption DEF Event, Torn
<1> QED BY <1>1, <1>2 DEF log, OnDisk

(* A step on the files adds one entry under a new id, or none.             *)
LEMMA WriteRefines ==
    ASSUME LogInv, NEW t \in Threads, TruncateFile(t) \/ WriteFile(t)
    PROVE  /\ UNCHANGED seen
           /\ \/ UNCHANGED log
              \/ \E e \in log' : (\A f \in log : f.id # e.id) /\ log' = log \cup {e}
<1>1. UNCHANGED seen
  BY DEF TruncateFile, WriteFile, deliver
<1>2. my[t].id \in DOMAIN file => file[my[t].id] = Torn
  BY DEF LogInv, Flight, TruncateFile, WriteFile
<1>3. my[t].ev # Torn
  <2>1. my[t].ev \in Event
    BY EntryParts DEF LogInv, TypeOK, WriterOK, TruncateFile, WriteFile
  <2> QED BY <2>1, StreamAssumption DEF Event, Torn
<1>4. CASE TruncateFile(t)
  <2>1. file' = Put(file, my[t].id, Torn)
    BY <1>4 DEF TruncateFile
  <2>2. UNCHANGED log
    BY <1>2, <2>1 DEF log, Put
  <2> QED BY <1>1, <2>2
<1>5. CASE WriteFile(t)
  <2> DEFINE e == [id |-> my[t].id, ev |-> my[t].ev]
  <2>1. file' = Put(file, my[t].id, my[t].ev)
    BY <1>5 DEF WriteFile
  <2>2. log' = log \cup {e}
    <3>1. ASSUME NEW i \in DOMAIN file', i # my[t].id
          PROVE  i \in DOMAIN file /\ file'[i] = file[i]
      BY <2>1, <3>1 DEF Put
    <3>2. my[t].id \in DOMAIN file' /\ file'[my[t].id] = my[t].ev
      BY <2>1 DEF Put
    <3>3. log' \subseteq log \cup {e}
      BY <3>1, <3>2 DEF log
    <3>4. e \in log'
      BY <1>3, <3>2 DEF log
    <3>5. log \subseteq log'
      BY <1>2, <2>1 DEF log, Put
    <3> QED BY <3>3, <3>4, <3>5
  <2>3. \A f \in log : f.id # e.id
    BY <1>2 DEF log
  <2> QED BY <1>1, <2>2, <2>3
<1> QED BY <1>4, <1>5

(* A call of a callback is a delivery of a stored event it has not seen.   *)
LEMMA CallRefines ==
    ASSUME LogInv, Durable, OnceInv, NEW c \in Callbacks, RunCallback(c)
    PROVE  (\E e \in log : Log!Deliver(c, e)) \/ UNCHANGED <<log, seen>>
<1> DEFINE e == Head(work[c])
<1>0. CASE UNCHANGED seen
  BY <1>0, LogFrame DEF RunCallback, disk
<1> SUFFICES ASSUME ~ UNCHANGED seen
             PROVE  \E f \in log : Log!Deliver(c, f)
  BY <1>0
<1>1. /\ seen' = [seen EXCEPT ![c] = Append(@, e)] /\ UNCHANGED file /\ work[c] # <<>>
  BY DEF RunCallback, disk
<1>2. work[c] \in Seq(Entry)
  BY DEF LogInv, TypeOK, DeliverOK
<1>3. e \in Entry /\ e.id \in Ids(work[c]) /\ e = work[c][1] /\ 1 \in DOMAIN work[c]
  BY <1>1, <1>2, TailIds
<1>4. OnDisk(e)
  BY <1>3 DEF Durable, PathDurable
<1>5. e \in log /\ UNCHANGED log
  BY <1>1, <1>3, <1>4, InLog, LogFrame
<1>6. \A i \in DOMAIN seen[c] : seen[c][i].id # e.id
  BY <1>3 DEF OnceInv, Once, Ids
<1> HIDE DEF e
<1>7. Log!Deliver(c, e)
  BY <1>1, <1>5, <1>6 DEF Log!Deliver, log
<1> QED BY <1>5, <1>7

(* Every other step leaves the files and what was seen alone, or restarts. *)
LEMMA OtherRefines ==
    ASSUME Readers = {}, [Next]_vars,
           \A t \in Threads : ~ (TruncateFile(t) \/ WriteFile(t)),
           \A c \in Callbacks : ~ RunCallback(c)
    PROVE  UNCHANGED file /\ (seen' = [c \in Callbacks |-> <<>>] \/ UNCHANGED seen)
<1>1. CASE Crash
  BY <1>1 DEF Crash, disk
<1>2. CASE UNCHANGED vars
  BY <1>2 DEF vars, disk, deliver
<1>3. ASSUME NEW t \in Threads, AddEvent(t)
      PROVE  UNCHANGED file /\ UNCHANGED seen
  BY <1>3 DEF AddEvent, TakeId, FillPage, TruncatePage, StorePage, Enqueue, disk, deliver
<1>4. CASE ProcessQueue
  BY <1>4 DEF ProcessQueue, CheckStop, GetEvent, GetTimeout, Submit, FanDone, disk
<1>5. ASSUME NEW c \in Callbacks, Subscribe(c) \/ CleanUp(c)
      PROVE  UNCHANGED file /\ UNCHANGED seen
  BY <1>5 DEF Subscribe, CleanUp, SubscribeCallback, SubscribePool,
     CleanUpLoop, CleanUpShutdown, CleanUpPool, CleanUpCallback, churn, disk
<1>6. CASE Close
  BY <1>6 DEF Close, CloseBegin, CloseJoin, CloseDrain, disk
<1>7. CASE Shutdown
  BY <1>7 DEF Shutdown, disk
<1> QED BY <1>1, <1>2, <1>3, <1>4, <1>5, <1>6, <1>7 DEF Next

(* The stream implements the log it promises: an event that is stored is   *)
(* never replaced, and a subscriber is called with stored events, with     *)
(* none of them twice, whatever threads, subscriptions and crashes do.     *)
THEOREM StreamIsALog ==
    ASSUME Readers = {}
    PROVE  Spec => ImplementsLog
<1> DEFINE Inv == LogInv /\ Durable /\ OnceInv
<1>1. Init => Inv
  <2>1. Init => Durable
    BY StreamAssumption DEF Init, NewStream, Durable, HandsDurable, PathDurable
  <2>2. Init => OnceInv
    BY OnceInit DEF Init, NewStream
  <2> QED BY <2>1, <2>2, LogInit
<1>2. Inv /\ [Next]_vars => Inv'
  <2> SUFFICES ASSUME LogInv, Durable, OnceInv, [Next]_vars
               PROVE  LogInv' /\ Durable' /\ OnceInv'
    OBVIOUS
  <2>1. TypeOK /\ Append1
    BY NeverRewritten DEF LogInv
  <2> QED BY <2>1, LogStep, HandsStep, PathStep, OnceStep DEF Durable
<1>3. Init => Log!Init
  BY DEF Init, NewStream, Log!Init
<1>4. Inv /\ [Next]_vars => [Log!Next]_<<log, seen>>
  <2> SUFFICES ASSUME LogInv, Durable, OnceInv, [Next]_vars
               PROVE  Log!Next \/ UNCHANGED <<log, seen>>
    OBVIOUS
  <2>1. ASSUME NEW t \in Threads, TruncateFile(t) \/ WriteFile(t)
        PROVE  Log!Next \/ UNCHANGED <<log, seen>>
    <3>1. CASE UNCHANGED log
      BY <2>1, <3>1, WriteRefines
    <3>2. CASE ~ UNCHANGED log
      <4>1. PICK e \in log' : (\A f \in log : f.id # e.id) /\ log' = log \cup {e}
        BY <2>1, <3>2, WriteRefines
      <4>2. UNCHANGED seen
        BY <2>1, WriteRefines
      <4>3. Log!Add(e)
        BY <4>1, <4>2 DEF Log!Add, log
      <4> QED BY <4>1, <4>3 DEF Log!Next, log
    <3> QED BY <3>1, <3>2
  <2>2. ASSUME NEW c \in Callbacks, RunCallback(c)
        PROVE  Log!Next \/ UNCHANGED <<log, seen>>
    BY <2>2, CallRefines DEF Log!Next, log
  <2>3. CASE /\ \A t \in Threads : ~ (TruncateFile(t) \/ WriteFile(t))
             /\ \A c \in Callbacks : ~ RunCallback(c)
    <3>1. UNCHANGED log /\ (seen' = [c \in Callbacks |-> <<>>] \/ UNCHANGED seen)
      BY <2>3, OtherRefines, LogFrame
    <3> QED BY <3>1 DEF Log!Next, Log!Restart, log
  <2> QED BY <2>1, <2>2, <2>3
<1>5. Inv /\ [Next]_vars =>
        [Log!Next]_<<{[id |-> i, ev |-> file[i]] : i \in {j \in DOMAIN file : file[j] # Torn}},
                     seen>>
  BY <1>4 DEF log
<1> QED BY <1>1, <1>2, <1>3, <1>5, PTL DEF Spec, ImplementsLog, Log!Spec
-----------------------------------------------------------------------------
(***************************************************************************)
(* The order of calls.  The id is taken under the lock and the queue is    *)
(* filled outside it, so threads may overtake each other in between; but   *)
(* when one add_event had put its event on the queue before another began, *)
(* the second has the higher id and stays behind the first all the way to  *)
(* the callback: through the queue, the queue thread's hands and the pool. *)
(***************************************************************************)
Els(s) == {s[i] : i \in DOMAIN s}

(* No event of T was queued before the call that added one of S.           *)
Before(S, T) == \A a \in S, b \in T : <<b, a>> \notin prior
InOrder(s) == \A i, j \in DOMAIN s : i <= j => <<s[j], s[i]>> \notin prior

QueuedInv ==
    /\ \A e \in Els(queued) : e.id \in DOMAIN file
    /\ \A t \in Threads : pc[t] # "idle" => \A e \in Els(queued) : e.id # my[t].id
    /\ \A q \in prior : q[1] \in Els(queued) /\ q[1].id < q[2].id
Orderly(c) ==
    /\ InOrder(seen[c]) /\ InOrder(work[c]) /\ InOrder(queue)
    /\ Before(Els(seen[c]), Els(work[c]))
    /\ Before(Els(seen[c]) \cup Els(work[c]), Els(queue))
    /\ disp = "fan" => Before({item}, Els(queue))
    /\ Held(c) => Before(Els(seen[c]) \cup Els(work[c]), {item})
OrderInv == QueuedInv /\ \A c \in Callbacks : Orderly(c)

(* What the head, the tail and an appended entry do to the entries.        *)
LEMMA ElsParts ==
    ASSUME NEW s \in Seq(Entry)
    PROVE  /\ Els(s) \subseteq Entry
           /\ \A e \in Entry : Els(Append(s, e)) = Els(s) \cup {e}
           /\ s # <<>> => /\ Head(s) \in Els(s) /\ Head(s) \in Entry
                          /\ Tail(s) \in Seq(Entry) /\ Els(Tail(s)) \subseteq Els(s)
<1>1. Els(s) \subseteq Entry
  BY DEF Els
<1>2. ASSUME NEW e \in Entry
      PROVE  Els(Append(s, e)) = Els(s) \cup {e}
  <2>1. /\ Len(s) \in Nat /\ DOMAIN s = 1..Len(s)
        /\ DOMAIN Append(s, e) = 1..(Len(s) + 1)
        /\ \A i \in 1..Len(s) : Append(s, e)[i] = s[i]
        /\ Append(s, e)[Len(s) + 1] = e
    OBVIOUS
  <2>2. Els(Append(s, e)) \subseteq Els(s) \cup {e}
    BY <2>1 DEF Els
  <2>3. Els(s) \subseteq Els(Append(s, e))
    BY <2>1 DEF Els
  <2>4. e \in Els(Append(s, e))
    BY <2>1 DEF Els
  <2> QED BY <2>2, <2>3, <2>4
<1>3. ASSUME s # <<>>
      PROVE  /\ Head(s) \in Els(s) /\ Head(s) \in Entry
             /\ Tail(s) \in Seq(Entry) /\ Els(Tail(s)) \subseteq Els(s)
  <2>1. /\ Len(s) \in Nat \ {0} /\ DOMAIN s = 1..Len(s)
        /\ DOMAIN Tail(s) = 1..(Len(s) - 1)
        /\ \A i \in 1..(Len(s) - 1) : Tail(s)[i] = s[i + 1]
        /\ Head(s) = s[1] /\ Head(s) \in Entry /\ Tail(s) \in Seq(Entry)
    BY <1>3
  <2> QED BY <2>1 DEF Els
<1> QED BY <1>1, <1>2, <1>3

(* Appending an entry that was not queued before a call for one already    *)
(* there keeps a sequence in order.                                        *)
LEMMA AppendInOrder ==
    ASSUME NEW s \in Seq(Entry), NEW e \in Entry, InOrder(s), Before(Els(s) \cup {e}, {e})
    PROVE  InOrder(Append(s, e))
<1>1. /\ Len(s) \in Nat /\ DOMAIN s = 1..Len(s)
      /\ DOMAIN Append(s, e) = 1..(Len(s) + 1)
      /\ \A i \in 1..Len(s) : Append(s, e)[i] = s[i]
      /\ Append(s, e)[Len(s) + 1] = e
  OBVIOUS
<1>2. /\ \A i \in 1..Len(s) : <<e, s[i]>> \notin prior
      /\ <<e, e>> \notin prior
  BY <1>1 DEF Before, Els
<1> QED BY <1>1, <1>2 DEF InOrder

(* The head of a sequence in order comes before its tail.                  *)
LEMMA TailInOrder ==
    ASSUME NEW s \in Seq(Entry), s # <<>>, InOrder(s)
    PROVE  InOrder(Tail(s)) /\ Before({Head(s)}, Els(Tail(s)))
<1>1. /\ Len(s) \in Nat \ {0} /\ DOMAIN s = 1..Len(s)
      /\ DOMAIN Tail(s) = 1..(Len(s) - 1)
      /\ \A i \in 1..(Len(s) - 1) : Tail(s)[i] = s[i + 1]
      /\ Head(s) = s[1]
  OBVIOUS
<1>2. ASSUME NEW i \in DOMAIN Tail(s), NEW j \in DOMAIN Tail(s), i <= j
      PROVE  <<Tail(s)[j], Tail(s)[i]>> \notin prior
  BY <1>1, <1>2 DEF InOrder
<1>3. ASSUME NEW j \in DOMAIN Tail(s)
      PROVE  <<Tail(s)[j], Head(s)>> \notin prior
  BY <1>1 DEF InOrder
<1> QED BY <1>2, <1>3 DEF InOrder, Before, Els

(* What is queued is on disk and in nobody's hands, and a call has a       *)
(* higher id than what was queued before it began.                         *)
LEMMA QueuedStep ==
    ASSUME Readers = {}, LogInv, Durable, QueuedInv, [Next]_vars
    PROVE  QueuedInv'
<1>0. /\ TypeOK /\ DiskOK /\ WriterOK /\ Flight /\ Bounded /\ queued \in Seq(Entry)
      /\ prior \subseteq Entry \X Entry
  BY DEF LogInv, TypeOK, DeliverOK
<1>1. DOMAIN file \subseteq DOMAIN file'
  <2>1. ASSUME NEW t \in Threads, AddEvent(t) PROVE DOMAIN file \subseteq DOMAIN file'
    BY <2>1 DEF AddEvent, TakeId, FillPage, TruncateFile, WriteFile, TruncatePage,
       StorePage, Enqueue, disk, Put
  <2>2. CASE DeliverNext \/ Crash \/ UNCHANGED vars
    BY <2>2, DeliverFrame DEF disk, Crash, vars
  <2> QED BY <2>1, <2>2 DEF Next, DeliverNext
<1>2. ASSUME UNCHANGED <<queued, prior>>,
             \A u \in Threads : pc'[u] # "idle" => pc[u] # "idle" /\ my'[u] = my[u]
      PROVE  QueuedInv'
  BY <1>1, <1>2 DEF QueuedInv, Els
<1>3. ASSUME NEW t \in Threads, TakeId(t)
      PROVE  QueuedInv'
  <2> DEFINE e == [id |-> cur', ev |-> [by |-> t, n |-> added[t] + 1]]
  <2>1. /\ my'[t].id = cur' /\ UNCHANGED <<queued, file>>
        /\ prior' = prior \cup {<<queued[i], e>> : i \in DOMAIN queued}
        /\ \A u \in Threads \ {t} : my'[u] = my[u] /\ pc'[u] = pc[u]
    BY <1>0, <1>3 DEF TakeId, WriterOK, deliver, disk
  <2>2. \A i \in DOMAIN file : i < cur'
    BY <1>0, <1>3, NextFreeSpec DEF TakeId, Flight, DiskOK, WriterOK, Bounded
  <2>3. \A f \in Els(queued) : f.id < cur' /\ f.id # cur'
    <3>1. \A f \in Els(queued) : f.id < cur' /\ f.id \in Nat
      BY <1>0, <2>2 DEF QueuedInv, DiskOK
    <3> QED BY <3>1
  <2>4. \A q \in prior' : q[1] \in Els(queued) /\ q[1].id < q[2].id
    <3>1. e.id = cur'
      OBVIOUS
    <3> HIDE DEF e
    <3>2. \A i \in DOMAIN queued : queued[i] \in Els(queued) /\ queued[i].id < e.id
      BY <2>3, <3>1 DEF Els
    <3> QED BY <2>1, <3>2 DEF QueuedInv
  <2> QED BY <2>1, <2>3, <2>4 DEF QueuedInv, Els
<1>4. ASSUME NEW t \in Threads, Enqueue(t)
      PROVE  QueuedInv'
  <2> DEFINE e == Hand(t)
  <2>1. /\ queued' = Append(queued, e) /\ e \in Entry /\ e.id = my[t].id
        /\ pc[t] = "put" /\ pc'[t] = "idle" /\ UNCHANGED <<file, prior>>
        /\ \A u \in Threads \ {t} : my'[u] = my[u] /\ pc'[u] = pc[u]
    BY <1>0, <1>4 DEF Enqueue, WriterOK, Hand, disk, past
  <2>2. e.id \in DOMAIN file
    BY <2>1 DEF Durable, HandsDurable, OnDisk
  <2>3. \A u \in Threads : pc'[u] # "idle" => my'[u].id # e.id
    BY <1>0, <2>1 DEF Flight
  <2> HIDE DEF e
  <2>4. Els(queued') = Els(queued) \cup {e}
    BY <1>0, <2>1, ElsParts
  <2>5. \A u \in Threads : pc'[u] # "idle" => \A f \in Els(queued') : f.id # my'[u].id
    BY <2>1, <2>3, <2>4 DEF QueuedInv
  <2> QED BY <2>1, <2>2, <2>4, <2>5 DEF QueuedInv, Els
<1>5. ASSUME NEW t \in Threads, AddEvent(t), ~ TakeId(t), ~ Enqueue(t)
      PROVE  QueuedInv'
  <2>1. UNCHANGED <<queued, prior, my>> /\ \A u \in Threads : pc'[u] # "idle" => pc[u] # "idle"
    BY <1>0, <1>5 DEF AddEvent, FillPage, TruncateFile, WriteFile, TruncatePage,
       StorePage, deliver, past, WriterOK
  <2> QED BY <1>2, <2>1
<1>6. CASE Crash
  BY <1>6 DEF Crash, QueuedInv, Els
<1>7. CASE DeliverNext \/ UNCHANGED vars
  <2>1. UNCHANGED <<pc, my, prior>>
    BY <1>7, DeliverFrame DEF vars, writer, past
  <2>2. UNCHANGED queued
    BY <1>7 DEF DeliverNext, ProcessQueue, RunCallback, Subscribe, CleanUp, Close,
       CheckStop, GetEvent, GetTimeout, Submit, FanDone, SubscribeCallback,
       SubscribePool, CleanUpLoop, CleanUpShutdown, CleanUpPool, CleanUpCallback,
       CloseBegin, CloseJoin, CloseDrain, Shutdown, churn, vars, deliver
  <2> QED BY <1>2, <2>1, <2>2
<1> QED BY <1>3, <1>4, <1>5, <1>6, <1>7 DEF Next, DeliverNext

(* A step that leaves what is on the way alone, or only drops the event in *)
(* the queue thread's hands, keeps it in order.                            *)
LEMMA OrderFrame ==
    ASSUME \A c \in Callbacks : Orderly(c), UNCHANGED <<queue, work, seen, prior>>,
           \A c \in Callbacks : Held(c)' => Held(c) /\ item' = item,
           disp' = "fan" => disp = "fan" /\ item' = item
    PROVE  \A c \in Callbacks : Orderly(c)'
<1> SUFFICES ASSUME NEW c \in Callbacks PROVE Orderly(c)'
  OBVIOUS
<1>1. Orderly(c) /\ (Held(c)' => Held(c) /\ item' = item)
  OBVIOUS
<1>2. /\ Els(queue)' = Els(queue) /\ Els(work[c])' = Els(work[c])
      /\ Els(seen[c])' = Els(seen[c]) /\ InOrder(queue)' = InOrder(queue)
      /\ InOrder(work[c])' = InOrder(work[c]) /\ InOrder(seen[c])' = InOrder(seen[c])
  BY DEF Els, InOrder
<1> QED BY <1>1, <1>2 DEF Orderly, Before

(* No step lets an event overtake one that was queued before its call.     *)
LEMMA OrderStep ==
    ASSUME Readers = {}, LogInv, Durable, OrderInv, [Next]_vars
    PROVE  OrderInv'
<1>0. TypeOK /\ DiskOK /\ WriterOK /\ DeliverOK /\ Flight /\ Bounded
  BY DEF LogInv, TypeOK
<1>a. /\ queue \in Seq(Entry)
      /\ \A c \in Callbacks : work[c] \in Seq(Entry) /\ seen[c] \in Seq(Entry)
      /\ disp = "fan" => item \in Entry
  BY <1>0 DEF DeliverOK
<1>b. QueuedInv /\ \A c \in Callbacks : Orderly(c)
  BY DEF OrderInv
<1> SUFFICES \A c \in Callbacks : Orderly(c)'
  BY <1>b, QueuedStep DEF OrderInv
<1>c. QueuedInv /\ \A c \in Callbacks : Orderly(c)
  BY <1>b
<1>1. ASSUME NEW t \in Threads, TakeId(t)
      PROVE  \A c \in Callbacks : Orderly(c)'
  <2> DEFINE e == [id |-> cur', ev |-> [by |-> t, n |-> added[t] + 1]]
  <2>1. /\ UNCHANGED <<queue, work, seen, disp, todo, item>>
        /\ prior' = prior \cup {<<queued[i], e>> : i \in DOMAIN queued}
    BY <1>1 DEF TakeId, deliver
  <2>2. \A i \in DOMAIN file : i # e.id
    <3>1. \A i \in DOMAIN file : i < cur'
      BY <1>0, <1>1, NextFreeSpec DEF TakeId, Flight, DiskOK, WriterOK, Bounded
    <3> QED BY <1>0, <3>1 DEF DiskOK
  <2> HIDE DEF e
  <2>3. ASSUME NEW a, a.id \in DOMAIN file, NEW b, <<b, a>> \in prior'
        PROVE  <<b, a>> \in prior
    BY <2>1, <2>2, <2>3
  <2> SUFFICES ASSUME NEW c \in Callbacks PROVE Orderly(c)'
    OBVIOUS
  <2>4. /\ \A a \in Els(queue) \cup Els(work[c]) \cup Els(seen[c]) : a.id \in DOMAIN file
        /\ disp = "fan" => item.id \in DOMAIN file
    BY DEF Durable, PathDurable, OnDisk, Els
  <2>5. InOrder(seen[c])' /\ InOrder(work[c])' /\ InOrder(queue)'
    <3>1. ASSUME NEW s, InOrder(s), \A a \in Els(s) : a.id \in DOMAIN file,
                 NEW i \in DOMAIN s, NEW j \in DOMAIN s, i <= j
          PROVE  <<s[j], s[i]>> \notin prior'
      BY <2>3, <3>1 DEF InOrder, Els
    <3>2. InOrder(seen[c]) /\ InOrder(work[c]) /\ InOrder(queue)
      BY <1>c DEF Orderly
    <3> QED BY <2>1, <2>4, <3>1, <3>2 DEF InOrder
  <2>6. /\ Els(queue)' = Els(queue) /\ Els(work[c])' = Els(work[c])
        /\ Els(seen[c])' = Els(seen[c]) /\ Held(c)' = Held(c)
    BY <2>1 DEF Els, Held
  <2>7. /\ Before(Els(seen[c]), Els(work[c]))'
        /\ Before(Els(seen[c]) \cup Els(work[c]), Els(queue))'
        /\ disp' = "fan" => Before({item}, Els(queue))'
        /\ Held(c)' => Before(Els(seen[c]) \cup Els(work[c]), {item})'
    BY <1>c, <2>1, <2>3, <2>4, <2>6 DEF Orderly, Before, Held
  <2> QED BY <2>5, <2>7 DEF Orderly
<1>2. ASSUME NEW t \in Threads, Enqueue(t)
      PROVE  \A c \in Callbacks : Orderly(c)'
  <2> DEFINE e == Hand(t)
  <2>1. /\ queue' = Append(queue, e) /\ e \in Entry /\ e.id = my[t].id /\ pc[t] = "put"
        /\ UNCHANGED <<work, seen, disp, todo, item, prior>>
    BY <1>0, <1>2 DEF Enqueue, WriterOK, Hand, past
  <2> HIDE DEF e
  <2>2. \A x : <<e, x>> \notin prior
    <3>1. e \notin Els(queued)
      BY <1>c, <2>1 DEF QueuedInv
    <3>2. \A x : <<e, x>>[1] = e
      OBVIOUS
    <3> QED BY <1>c, <3>1, <3>2 DEF QueuedInv
  <2> SUFFICES ASSUME NEW c \in Callbacks PROVE Orderly(c)'
    OBVIOUS
  <2>3. Els(queue)' = Els(queue) \cup {e}
    <3>1. Els(queue') = Els(queue) \cup {e}
      BY <1>a, <2>1, ElsParts
    <3> QED BY <3>1 DEF Els
  <2>4. InOrder(queue)'
    <3>1. InOrder(Append(queue, e))
      BY <1>a, <1>c, <2>1, <2>2, AppendInOrder DEF Orderly, Before
    <3> QED BY <2>1, <3>1 DEF InOrder
  <2>5. /\ Els(work[c])' = Els(work[c]) /\ Els(seen[c])' = Els(seen[c])
        /\ InOrder(work[c])' = InOrder(work[c]) /\ InOrder(seen[c])' = InOrder(seen[c])
        /\ Held(c)' = Held(c)
    BY <2>1 DEF Els, InOrder, Held
  <2>6. /\ Before(Els(seen[c]), Els(work[c]))'
        /\ Before(Els(seen[c]) \cup Els(work[c]), Els(queue))'
        /\ disp' = "fan" => Before({item}, Els(queue))'
        /\ Held(c)' => Before(Els(seen[c]) \cup Els(work[c]), {item})'
    BY <1>c, <2>1, <2>2, <2>3, <2>5 DEF Orderly, Before
  <2> QED BY <1>c, <2>4, <2>5, <2>6 DEF Orderly
<1>3. CASE GetEvent
  <2>1. /\ queue # <<>> /\ queue' = Tail(queue) /\ item' = Head(queue)
        /\ disp' = "fan" /\ UNCHANGED <<work, seen, prior>>
    BY <1>3 DEF GetEvent, past
  <2> SUFFICES ASSUME NEW c \in Callbacks PROVE Orderly(c)'
    OBVIOUS
  <2>2. Orderly(c)
    BY <1>c
  <2>3. /\ InOrder(Tail(queue)) /\ Before({Head(queue)}, Els(Tail(queue)))
        /\ Els(Tail(queue)) \subseteq Els(queue) /\ Head(queue) \in Els(queue)
    BY <1>a, <2>1, <2>2, ElsParts, TailInOrder DEF Orderly
  <2>4. /\ InOrder(queue)' /\ Before({item}, Els(queue))'
        /\ Els(queue)' \subseteq Els(queue) /\ item' \in Els(queue)
    BY <2>1, <2>3 DEF InOrder, Before, Els
  <2>5. /\ Els(work[c])' = Els(work[c]) /\ Els(seen[c])' = Els(seen[c])
        /\ InOrder(work[c])' = InOrder(work[c]) /\ InOrder(seen[c])' = InOrder(seen[c])
    BY <2>1 DEF Els, InOrder
  <2>6. /\ Before(Els(seen[c]), Els(work[c]))'
        /\ Before(Els(seen[c]) \cup Els(work[c]), Els(queue))'
        /\ Before(Els(seen[c]) \cup Els(work[c]), {item})'
    BY <2>1, <2>2, <2>4, <2>5 DEF Orderly, Before
  <2> QED BY <2>2, <2>4, <2>5, <2>6 DEF Orderly
<1>4. ASSUME NEW c \in Callbacks, Submit(c), work' = [work EXCEPT ![c] = Append(@, item)]
      PROVE  \A d \in Callbacks : Orderly(d)'
  <2>1. /\ disp = "fan" /\ c \in todo /\ c \notin todo' /\ todo' \subseteq todo
        /\ work'[c] = Append(work[c], item)
        /\ \A d \in Callbacks \ {c} : work'[d] = work[d]
        /\ UNCHANGED <<queue, item, seen, prior>>
    BY <1>0, <1>4 DEF Submit, DeliverOK, past
  <2>2. Held(c) /\ item \in Entry /\ ~ Held(c)'
    BY <1>a, <2>1 DEF Held
  <2>3. Els(work[c])' = Els(work[c]) \cup {item}
    <3>1. Els(work'[c]) = Els(work[c]) \cup {item}
      BY <1>a, <2>1, <2>2, ElsParts
    <3> QED BY <3>1 DEF Els
  <2>4. \A d \in Callbacks : /\ Els(queue)' = Els(queue) /\ Els(seen[d])' = Els(seen[d])
           /\ InOrder(queue)' = InOrder(queue) /\ InOrder(seen[d])' = InOrder(seen[d])
    BY <2>1 DEF Els, InOrder
  <2>5. Orderly(c)'
    <3>1. /\ Orderly(c) /\ Before(Els(seen[c]) \cup Els(work[c]), {item})
          /\ Before({item}, Els(queue))
      BY <1>c, <2>1, <2>2 DEF Orderly
    <3>2. <<item, item>> \notin prior
      BY <1>0, <1>c, <2>2 DEF QueuedInv, Entry, DeliverOK
    <3>3. InOrder(Append(work[c], item))
      <4>1. InOrder(work[c]) /\ Before(Els(work[c]) \cup {item}, {item})
        BY <3>1, <3>2 DEF Orderly, Before
      <4> QED BY <1>a, <2>2, <4>1, AppendInOrder
    <3>4. InOrder(work[c])'
      BY <2>1, <3>3 DEF InOrder
    <3>5. /\ Before(Els(seen[c]), Els(work[c]))'
          /\ Before(Els(seen[c]) \cup Els(work[c]), Els(queue))'
          /\ Before({item}, Els(queue))'
      BY <2>1, <2>3, <2>4, <3>1 DEF Orderly, Before
    <3> QED BY <2>2, <2>4, <3>1, <3>4, <3>5 DEF Orderly
  <2>6. ASSUME NEW d \in Callbacks \ {c}
        PROVE  Orderly(d)'
    <3>1. Els(work[d])' = Els(work[d]) /\ InOrder(work[d])' = InOrder(work[d])
      BY <2>1 DEF Els, InOrder
    <3>2. Orderly(d) /\ (Held(d)' => Held(d)) /\ item' = item
      BY <1>c, <2>1 DEF Held
    <3> QED BY <2>1, <2>4, <3>1, <3>2 DEF Orderly, Before
  <2> QED BY <2>5, <2>6
<1>5. ASSUME NEW c \in Callbacks, RunCallback(c)
      PROVE  \A d \in Callbacks : Orderly(d)'
  <2> DEFINE e == Head(work[c])
  <2>1. /\ work[c] # <<>> /\ work'[c] = Tail(work[c])
        /\ seen'[c] = Append(seen[c], e) \/ seen'[c] = seen[c]
        /\ \A d \in Callbacks \ {c} : work'[d] = work[d] /\ seen'[d] = seen[d]
        /\ UNCHANGED <<queue, item, disp, todo, prior>>
    BY <1>0, <1>5 DEF RunCallback, DeliverOK, dispatching, past
  <2>2. Orderly(c)
    BY <1>c
  <2>3. /\ e \in Entry /\ Els(Tail(work[c])) \subseteq Els(work[c]) /\ e \in Els(work[c])
        /\ InOrder(Tail(work[c])) /\ Before({e}, Els(Tail(work[c])))
    BY <1>a, <2>1, <2>2, ElsParts, TailInOrder DEF Orderly
  <2> HIDE DEF e
  <2>4. /\ Els(work[c])' \subseteq Els(work[c]) /\ InOrder(work[c])'
        /\ \A b \in Els(work[c])' : <<b, e>> \notin prior
    BY <2>1, <2>3 DEF Els, InOrder, Before
  <2>5. Els(seen[c])' \subseteq Els(seen[c]) \cup {e} /\ InOrder(seen[c])'
    <3>0. <<e, e>> \notin prior
      BY <1>0, <1>c, <2>3 DEF QueuedInv, Entry, DeliverOK
    <3>1. InOrder(seen[c]) /\ Before(Els(seen[c]) \cup {e}, {e})
      BY <2>2, <2>3, <3>0 DEF Orderly, Before
    <3>2. /\ Els(Append(seen[c], e)) = Els(seen[c]) \cup {e}
          /\ InOrder(Append(seen[c], e))
      BY <1>a, <2>3, <3>1, ElsParts, AppendInOrder
    <3> QED BY <2>1, <3>1, <3>2 DEF Els, InOrder
  <2>6. /\ Els(queue)' = Els(queue) /\ InOrder(queue)' = InOrder(queue)
        /\ \A d \in Callbacks : Held(d)' = Held(d)
    BY <2>1 DEF Els, InOrder, Held
  <2>7. Orderly(c)'
    <3>1. /\ Before(Els(seen[c]), Els(work[c]))'
          /\ Before(Els(seen[c]) \cup Els(work[c]), Els(queue))'
          /\ disp' = "fan" => Before({item}, Els(queue))'
          /\ Held(c)' => Before(Els(seen[c]) \cup Els(work[c]), {item})'
      BY <2>1, <2>2, <2>3, <2>4, <2>5, <2>6 DEF Orderly, Before
    <3> QED BY <2>2, <2>4, <2>5, <2>6, <3>1 DEF Orderly
  <2>8. ASSUME NEW d \in Callbacks \ {c}
        PROVE  Orderly(d)'
    <3>1. /\ Els(work[d])' = Els(work[d]) /\ InOrder(work[d])' = InOrder(work[d])
          /\ Els(seen[d])' = Els(seen[d]) /\ InOrder(seen[d])' = InOrder(seen[d])
      BY <2>1 DEF Els, InOrder
    <3>2. Orderly(d)
      BY <1>c
    <3> QED BY <2>1, <2>6, <3>1, <3>2 DEF Orderly, Before
  <2> QED BY <2>7, <2>8
<1>6. ASSUME NEW t \in Threads, AddEvent(t), ~ TakeId(t), ~ Enqueue(t)
      PROVE  \A c \in Callbacks : Orderly(c)'
  <2>1. UNCHANGED <<queue, work, seen, disp, todo, item, prior>>
    BY <1>6 DEF AddEvent, FillPage, TruncateFile, WriteFile, TruncatePage, StorePage,
       deliver, past
  <2> QED BY <1>c, <2>1, OrderFrame DEF Held
<1>7. CASE ProcessQueue /\ ~ GetEvent /\ UNCHANGED work
  <2>1. UNCHANGED <<queue, work, seen, prior>>
    BY <1>7 DEF ProcessQueue, CheckStop, GetTimeout, FanDone, Submit, past
  <2>2. disp' = "fan" => disp = "fan" /\ item' = item /\ todo' \subseteq todo
    BY <1>7 DEF ProcessQueue, CheckStop, GetTimeout, FanDone, Submit
  <2> QED BY <1>c, <2>1, <2>2, OrderFrame DEF Held
<1>8. ASSUME NEW c \in Callbacks, Subscribe(c) \/ CleanUp(c)
      PROVE  \A d \in Callbacks : Orderly(d)'
  <2>1. UNCHANGED <<queue, work, seen, disp, todo, item, prior>>
    BY <1>8 DEF Subscribe, CleanUp, SubscribeCallback, SubscribePool, CleanUpLoop,
       CleanUpShutdown, CleanUpPool, CleanUpCallback, churn, dispatching, past
  <2> QED BY <1>c, <2>1, OrderFrame DEF Held
<1>9. CASE (Close \/ Shutdown) /\ ~ CloseDrain
  <2>1. UNCHANGED <<queue, work, seen, disp, todo, item, prior>>
    BY <1>9 DEF Close, CloseBegin, CloseJoin, Shutdown, dispatching, past
  <2> QED BY <1>c, <2>1, OrderFrame DEF Held
<1>10. CASE CloseDrain
  <2>1. queue' = <<>> /\ UNCHANGED <<work, seen, disp, todo, item, prior>>
    BY <1>10 DEF CloseDrain, dispatching, past
  <2> SUFFICES ASSUME NEW c \in Callbacks PROVE Orderly(c)'
    OBVIOUS
  <2>2. Els(queue)' = {} /\ InOrder(queue)'
    BY <2>1 DEF Els, InOrder
  <2>3. Orderly(c)
    BY <1>c
  <2>4. /\ Els(work[c])' = Els(work[c]) /\ InOrder(work[c])' = InOrder(work[c])
        /\ Els(seen[c])' = Els(seen[c]) /\ InOrder(seen[c])' = InOrder(seen[c])
        /\ Held(c)' = Held(c) /\ item' = item
    BY <2>1 DEF Els, InOrder, Held
  <2> QED BY <2>1, <2>2, <2>3, <2>4 DEF Orderly, Before
<1>11. CASE Crash
  BY <1>11 DEF Crash, Orderly, Els, InOrder, Held, Before
<1>12. CASE UNCHANGED vars
  <2>1. UNCHANGED <<queue, work, seen, disp, todo, item, prior>>
    BY <1>12 DEF vars, deliver, past
  <2> QED BY <1>c, <2>1, OrderFrame DEF Held
<1>13. CASE ProcessQueue
  <2>1. CASE GetEvent
    BY <1>3, <2>1
  <2>2. ASSUME NEW c \in Callbacks, Submit(c)
        PROVE  \A d \in Callbacks : Orderly(d)'
    <3>1. work' = work \/ work' = [work EXCEPT ![c] = Append(@, item)]
      BY <2>2 DEF Submit
    <3>2. ~ GetEvent
      BY <2>2 DEF Submit, GetEvent
    <3> QED BY <1>4, <1>7, <1>13, <2>2, <3>1, <3>2
  <2>3. CASE CheckStop \/ GetTimeout \/ FanDone
    <3>1. UNCHANGED work /\ ~ GetEvent
      BY <2>3 DEF CheckStop, GetTimeout, FanDone, GetEvent
    <3> QED BY <1>7, <1>13, <3>1
  <2> QED BY <1>13, <2>1, <2>2, <2>3 DEF ProcessQueue
<1> QED BY <1>1, <1>2, <1>5, <1>6, <1>8, <1>9, <1>10, <1>11, <1>12, <1>13 DEF Next

(* With cur_id only ever computed under the lock, of two calls of          *)
(* add_event one of which ended before the other began - in whatever       *)
(* threads - the second has the higher id, and every subscriber that sees  *)
(* both sees them in that order; one that comes and goes, too, and in a    *)
(* process started after any number of crashes.                            *)
THEOREM CallsInOrder ==
    ASSUME Readers = {}
    PROVE  Spec => []SeenInCallOrder
<1> DEFINE Inv == LogInv /\ Durable /\ OrderInv
<1>1. Init => Inv
  <2>1. Init => Durable
    BY StreamAssumption DEF Init, NewStream, Durable, HandsDurable, PathDurable
  <2>2. Init => OrderInv
    BY DEF Init, NewStream, OrderInv, QueuedInv, Orderly, Els, InOrder, Held, Before
  <2> QED BY <2>1, <2>2, LogInit
<1>2. Inv /\ [Next]_vars => Inv'
  <2> SUFFICES ASSUME LogInv, Durable, OrderInv, [Next]_vars
               PROVE  LogInv' /\ Durable' /\ OrderInv'
    OBVIOUS
  <2>1. TypeOK /\ Append1
    BY NeverRewritten DEF LogInv
  <2> QED BY <2>1, LogStep, HandsStep, PathStep, OrderStep DEF Durable
<1>3. Inv => SeenInCallOrder
  <2> SUFFICES ASSUME Inv, NEW c \in Callbacks,
                      NEW i \in DOMAIN seen[c], NEW j \in DOMAIN seen[c],
                      <<seen[c][i], seen[c][j]>> \in prior
               PROVE  i < j /\ seen[c][i].id < seen[c][j].id
    BY DEF SeenInCallOrder
  <2>1. seen[c][i].id < seen[c][j].id
    BY DEF OrderInv, QueuedInv
  <2>2. ~ (j <= i)
    BY DEF OrderInv, Orderly, InOrder
  <2>3. i \in Nat /\ j \in Nat
    <3>1. seen[c] \in Seq(Entry)
      BY DEF LogInv, TypeOK, DeliverOK
    <3> QED BY <3>1
  <2> QED BY <2>1, <2>2, <2>3
<1> QED BY <1>1, <1>2, <1>3, PTL DEF Spec
=============================================================================
