---------------------------- MODULE EventStream ----------------------------
(***************************************************************************)
(* The event stream of one conversation: openhands/events/stream.py and    *)
(* the store it extends, openhands/events/event_store.py.                  *)
(*                                                                         *)
(* Threads call add_event.  The id is taken and the write page filled      *)
(* under the stream's lock; the event file, the cache page and the queue   *)
(* are written after the lock is released, so those steps interleave.  One *)
(* queue thread hands every event to a single-worker pool per callback.    *)
(* Callbacks may be subscribed and unsubscribed meanwhile, close() may be  *)
(* called, and the process may be killed between any two steps: a new      *)
(* stream is then opened on the same file store.                           *)
(***************************************************************************)
EXTENDS Integers, Sequences, FiniteSets

CONSTANTS
    Threads,     \* threads that call add_event
    Readers,     \* threads that read cur_id without the lock (search_events)
    Callbacks,   \* subscribers, one callback each; numbers, for sorted(keys)
    Churning,    \* the callbacks that come and go while the stream is live
    CacheSize,   \* events per cache page (25 in the code)
    AtomicFiles, \* TRUE: object store; FALSE: open(..., 'w') of a local file
    MayExit,     \* the process may begin to shut down (should_continue)
    MaxAdds,     \* bound: calls of add_event per thread
    MaxCrashes   \* bound: kills of the process

Unset == -1   \* Python's None, as an id

ASSUME StreamAssumption ==
    /\ Unset \notin Threads
    /\ Callbacks \subseteq Nat
    /\ Churning \subseteq Callbacks
    /\ CacheSize \in Nat \ {0}
    /\ AtomicFiles \in BOOLEAN
    /\ MayExit \in BOOLEAN
    /\ MaxAdds \in Nat
    /\ MaxCrashes \in Nat

VARIABLES
    (* on disk: survives a crash *)
    file,     \* id -> event, or Torn while a local file is being written
    cached,   \* first id of a page -> the page
    (* the writing side *)
    cur,      \* _cur_id, Unset until the property is first read
    pages,    \* the page lists made so far; the last is _write_page_cache
    added,    \* calls of add_event each thread has made
    pc, my,   \* per thread: where it is in add_event, and its locals
    rpc, rid, \* per reader: where it is in the cur_id property, its local
    (* the delivering side *)
    queue,    \* _queue
    disp,     \* the queue thread
    item,     \* the event the queue thread holds
    todo,     \* the subscriber keys it has still to visit for that event
    keys,     \* keys of _subscribers: never removed once added
    sub,      \* the callback is in _subscribers
    pool,     \* its entry in _thread_pools
    work,     \* what is submitted to its pool and not yet run
    cpc,      \* per callback: where its subscribe / unsubscribe call is
    closing,  \* progress of close()
    exiting,  \* the process shuts down: should_continue() is false
    (* history *)
    queued,   \* everything put on the queue, in order
    seen,     \* per callback: the events it handled, in order
    prior,    \* <<a, b>>: a was on the queue when b's add_event began
    lost,     \* ids on a page whose file a killed process had not written
    crashes

disk   == <<file, cached>>
writer == <<cur, pages, added, pc, my, rpc, rid>>
reader == <<rpc, rid>>
deliver == <<queue, disp, item, todo, keys, sub, pool, work, cpc, closing,
             exiting, queued, seen>>
past == <<prior, lost, crashes>>
vars == <<disk, writer, deliver, past>>

Torn  == [by |-> Unset, n |-> 0]
TornPage == <<>>
Event == [by : Threads, n : Nat]
Entry == [id : Nat, ev : Event]
Locals == [id : Nat \cup {Unset}, ev : Event \cup {Torn}, page : Nat]
NoEntry == [id |-> Unset, ev |-> Torn]

(***************************************************************************)
(* Python dictionary assignment.                                           *)
(***************************************************************************)
Put(f, k, v) == [x \in DOMAIN f \cup {k} |-> IF x = k THEN v ELSE f[x]]

(* Mutant of NextFree: the number of ids.                                  *)
NextFreeCount(ids) == Cardinality(ids)

(***************************************************************************)
(* _calculate_cur_id: one more than the highest id in the store.           *)
(***************************************************************************)
NextFree(ids) == CHOOSE n \in {0} \cup {i + 1 : i \in ids} : \A i \in ids : i < n

Fresh == [t \in Threads |-> [id |-> Unset, ev |-> Torn, page |-> 0]]
Subscribed == Callbacks \ Churning

(***************************************************************************)
(* A new EventStream object: __init__, then the session's subscriptions.   *)
(***************************************************************************)
NewStream ==
    /\ cur = Unset
    /\ pages = << <<>> >>
    /\ pc = [t \in Threads |-> "idle"]
    /\ my = Fresh
    /\ rpc = [r \in Readers |-> "idle"]
    /\ rid = [r \in Readers |-> Unset]
    /\ queue = <<>>
    /\ disp = "check"
    /\ item = NoEntry
    /\ todo = {}
    /\ keys = Subscribed
    /\ sub = [c \in Callbacks |-> c \in Subscribed]
    /\ pool = [c \in Callbacks |-> IF c \in Subscribed THEN "open" ELSE "none"]
    /\ work = [c \in Callbacks |-> <<>>]
    /\ cpc = [c \in Callbacks |-> IF c \in Subscribed THEN "on" ELSE "off"]
    /\ closing = "no"
    /\ exiting = FALSE
    /\ queued = <<>>
    /\ seen = [c \in Callbacks |-> <<>>]
    /\ prior = {}

Init ==
    /\ file = <<>>
    /\ cached = <<>>
    /\ added = [t \in Threads |-> 0]
    /\ lost = {}
    /\ crashes = 0
    /\ NewStream
-----------------------------------------------------------------------------
(***************************************************************************)
(* add_event.                                                              *)
(***************************************************************************)
LockFree == \A t \in Threads : pc[t] # "locked"

(* Mutant of TakeId: the lock is not waited for.                           *)
TakeIdUnlocked(t) ==
    /\ pc[t] = "idle" /\ added[t] < MaxAdds
    /\ LET id == IF cur = Unset THEN NextFree(DOMAIN file) ELSE cur
       IN  /\ cur' = id
           /\ my' = [my EXCEPT ![t] = [id |-> id, ev |-> [by |-> t, n |-> added[t] + 1],
                                       page |-> Len(pages)]]
    /\ added' = [added EXCEPT ![t] = @ + 1]
    /\ pc' = [pc EXCEPT ![t] = "locked"]
    /\ UNCHANGED <<disk, pages, reader, deliver, past>>

(* Take the lock; event._id = self.cur_id, computing cur_id if it is unset. *)
TakeId(t) ==
    /\ pc[t] = "idle"
    /\ added[t] < MaxAdds
    /\ LockFree
    /\ LET id == IF cur = Unset THEN NextFree(DOMAIN file) ELSE cur
           ev == [by |-> t, n |-> added[t] + 1]
       IN  /\ cur' = id
           /\ my' = [my EXCEPT ![t] = [id |-> id, ev |-> ev, page |-> Len(pages)]]
           /\ prior' = prior \cup {<<queued[i], [id |-> id, ev |-> ev]>> : i \in DOMAIN queued}
    /\ added' = [added EXCEPT ![t] = @ + 1]
    /\ pc' = [pc EXCEPT ![t] = "locked"]
    /\ UNCHANGED <<disk, pages, reader, deliver, lost, crashes>>

(* self.cur_id += 1; append to the write page; a full page is replaced by  *)
(* an empty one; release the lock.                                         *)
FillPage(t) ==
    /\ pc[t] = "locked"
    /\ cur' = cur + 1
    /\ LET k == my[t].page
           p == Append(pages[k], [id |-> my[t].id, ev |-> my[t].ev])
           filled == [pages EXCEPT ![k] = p]
       IN  pages' = IF Len(p) = CacheSize THEN Append(filled, <<>>) ELSE filled
    /\ pc' = [pc EXCEPT ![t] = "write"]
    /\ UNCHANGED <<disk, added, my, reader, deliver, past>>

(* file_store.write(filename, event_json): an object store replaces the    *)
(* object at once, a local file is truncated first and then written.       *)
WriteFile(t) ==
    /\ \/ /\ pc[t] = "write" /\ AtomicFiles
       \/ pc[t] = "opened"
    /\ file' = Put(file, my[t].id, my[t].ev)
    /\ pc' = [pc EXCEPT ![t] = "page"]
    /\ UNCHANGED <<cached, cur, pages, added, my, reader, deliver, past>>

TruncateFile(t) ==
    /\ pc[t] = "write"
    /\ ~AtomicFiles
    /\ file' = Put(file, my[t].id, Torn)
    /\ pc' = [pc EXCEPT ![t] = "opened"]
    /\ UNCHANGED <<cached, cur, pages, added, my, reader, deliver, past>>

(* _store_cache_page: only a full page is stored, under its first id; it   *)
(* is written the way the event file is.                                   *)
Full(t) == Len(pages[my[t].page]) >= CacheSize

TruncatePage(t) ==
    /\ pc[t] = "page"
    /\ Full(t)
    /\ ~AtomicFiles
    /\ cached' = Put(cached, pages[my[t].page][1].id, TornPage)
    /\ pc' = [pc EXCEPT ![t] = "paging"]
    /\ UNCHANGED <<file, cur, pages, added, my, reader, deliver, past>>

(* Mutant of StorePage: the page is stored under the aligned start of the  *)
(* range its first id falls into.                                          *)
StorePageAligned(t) ==
    /\ \/ pc[t] = "page" /\ (AtomicFiles \/ ~Full(t))
       \/ pc[t] = "paging"
    /\ LET p == pages[my[t].page]
       IN  cached' = IF Full(t) THEN Put(cached, p[1].id - (p[1].id % CacheSize), p)
                     ELSE cached
    /\ pc' = [pc EXCEPT ![t] = "put"]
    /\ UNCHANGED <<file, cur, pages, added, my, reader, deliver, past>>

StorePage(t) ==
    /\ \/ pc[t] = "page" /\ (AtomicFiles \/ ~Full(t))
       \/ pc[t] = "paging"
    /\ LET p == pages[my[t].page]
       IN  cached' = IF Full(t) THEN Put(cached, p[1].id, p) ELSE cached
    /\ pc' = [pc EXCEPT ![t] = "put"]
    /\ UNCHANGED <<file, cur, pages, added, my, reader, deliver, past>>

(* Mutant of Enqueue: the event may be queued before its file is written.  *)
EnqueueEarly(t) ==
    /\ pc[t] \in {"write", "put"}
    /\ LET e == [id |-> my[t].id, ev |-> my[t].ev]
       IN  queue' = Append(queue, e) /\ queued' = Append(queued, e)
    /\ pc' = [pc EXCEPT ![t] = "idle"]
    /\ my' = [my EXCEPT ![t] = Fresh[t]]
    /\ UNCHANGED <<disk, cur, pages, added, reader, disp, item, todo, keys, sub,
                   pool, work, cpc, closing, exiting, seen, past>>

(* self._queue.put(event)                                                  *)
Enqueue(t) ==
    /\ pc[t] = "put"
    /\ LET e == [id |-> my[t].id, ev |-> my[t].ev]
       IN  queue' = Append(queue, e) /\ queued' = Append(queued, e)
    /\ pc' = [pc EXCEPT ![t] = "idle"]
    /\ my' = [my EXCEPT ![t] = Fresh[t]]
    /\ UNCHANGED <<disk, cur, pages, added, reader, disp, item, todo, keys, sub,
                   pool, work, cpc, closing, exiting, seen, past>>
-----------------------------------------------------------------------------
(***************************************************************************)
(* The cur_id property read without the lock, by search_events and         *)
(* get_latest_event_id: test for None, list the directory, assign.         *)
(***************************************************************************)
ReadCurId(r) ==
    /\ rpc[r] = "idle"
    /\ cur = Unset
    /\ rpc' = [rpc EXCEPT ![r] = "list"]
    /\ UNCHANGED <<disk, cur, pages, added, pc, my, rid, deliver, past>>

ListEvents(r) ==
    /\ rpc[r] = "list"
    /\ rid' = [rid EXCEPT ![r] = NextFree(DOMAIN file)]
    /\ rpc' = [rpc EXCEPT ![r] = "set"]
    /\ UNCHANGED <<disk, cur, pages, added, pc, my, deliver, past>>

SetCurId(r) ==
    /\ rpc[r] = "set"
    /\ cur' = rid[r]
    /\ rpc' = [rpc EXCEPT ![r] = "idle"]
    /\ rid' = [rid EXCEPT ![r] = Unset]
    /\ UNCHANGED <<disk, pages, added, pc, my, deliver, past>>
-----------------------------------------------------------------------------
(***************************************************************************)
(* _process_queue, the queue thread.                                       *)
(***************************************************************************)
dispatching == <<disp, item, todo>>
subscribing == <<keys, sub, pool, cpc>>
ending == <<closing, exiting>>

(* while should_continue() and not self._stop_flag.is_set()                *)
CheckStop ==
    /\ disp = "check"
    /\ disp' = IF closing = "no" /\ ~exiting THEN "get" ELSE "stopped"
    /\ UNCHANGED <<disk, writer, queue, item, todo, subscribing, work, ending, queued,
                   seen, past>>

(* Mutant of GetEvent: the event is looked at and left on the queue.       *)
GetEventPeek ==
    /\ disp = "get"
    /\ queue # <<>>
    /\ item' = Head(queue)
    /\ todo' = keys
    /\ disp' = "fan"
    /\ UNCHANGED <<disk, writer, queue, subscribing, work, ending, queued, seen, past>>

(* self._queue.get(timeout=0.1); then sorted(self._subscribers.keys())     *)
GetEvent ==
    /\ disp = "get"
    /\ queue # <<>>
    /\ item' = Head(queue)
    /\ queue' = Tail(queue)
    /\ todo' = keys
    /\ disp' = "fan"
    /\ UNCHANGED <<disk, writer, subscribing, work, ending, queued, seen, past>>

(* Mutants of GetTimeout: an empty queue ends the thread, or get() has no  *)
(* timeout.                                                                *)
GetTimeoutEnds ==
    /\ disp = "get" /\ queue = <<>>
    /\ disp' = "stopped"
    /\ UNCHANGED <<disk, writer, queue, item, todo, subscribing, work, ending, queued,
                   seen, past>>
GetTimeoutNever == FALSE /\ UNCHANGED vars

GetTimeout ==
    /\ disp = "get"
    /\ queue = <<>>
    /\ disp' = "check"
    /\ UNCHANGED <<disk, writer, queue, item, todo, subscribing, work, ending, queued,
                   seen, past>>

(* Mutant of Submit: a callback that is gone ends the round.               *)
SubmitBreaks(c) ==
    /\ disp = "fan"
    /\ c \in todo /\ \A d \in todo : c <= d
    /\ \/ /\ sub[c] /\ pool[c] = "open"
          /\ work' = [work EXCEPT ![c] = Append(@, item)]
          /\ disp' = disp /\ todo' = todo \ {c}
       \/ /\ ~sub[c]
          /\ todo' = {}
          /\ UNCHANGED <<work, disp>>
       \/ /\ sub[c] /\ pool[c] # "open"
          /\ disp' = "dead" /\ todo' = todo \ {c}
          /\ UNCHANGED work
    /\ UNCHANGED <<disk, writer, queue, item, subscribing, ending, queued, seen, past>>

(* Hand the event to the next key.  A callback that is gone is skipped; a  *)
(* callback without a pool raises KeyError and a pool that is shut down    *)
(* raises RuntimeError, and neither is caught: the queue thread ends.      *)
Submit(c) ==
    /\ disp = "fan"
    /\ c \in todo
    /\ \A d \in todo : c <= d
    /\ todo' = todo \ {c}
    /\ \/ /\ sub[c] /\ pool[c] = "open"
          /\ work' = [work EXCEPT ![c] = Append(@, item)]
          /\ disp' = disp
       \/ /\ ~sub[c]
          /\ UNCHANGED <<work, disp>>
       \/ /\ sub[c] /\ pool[c] # "open"
          /\ disp' = "dead"
          /\ UNCHANGED work
    /\ UNCHANGED <<disk, writer, queue, item, subscribing, ending, queued, seen, past>>

FanDone ==
    /\ disp = "fan"
    /\ todo = {}
    /\ disp' = "check"
    /\ item' = NoEntry
    /\ UNCHANGED <<disk, writer, queue, todo, subscribing, work, ending, queued, seen, past>>

(* Mutant of RunCallback: the pool starts with what came last.             *)
RunCallbackLast(c) ==
    /\ work[c] # <<>>
    /\ LET n == Len(work[c])
       IN  /\ seen' = [seen EXCEPT ![c] = Append(@, work[c][n])]
           /\ work' = [work EXCEPT ![c] = SubSeq(@, 1, n - 1)]
    /\ UNCHANGED <<disk, writer, queue, dispatching, subscribing, ending, queued, past>>

(* The single worker of the callback's pool calls the callback.  Once the  *)
(* loop of its thread is stopped or closed the call may raise.             *)
RunCallback(c) ==
    /\ work[c] # <<>>
    /\ \/ seen' = [seen EXCEPT ![c] = Append(@, Head(work[c]))]
       \/ cpc[c] \in {"stopping", "shutting"} /\ seen' = seen
    /\ work' = [work EXCEPT ![c] = Tail(@)]
    /\ UNCHANGED <<disk, writer, queue, dispatching, subscribing, ending, queued, past>>
-----------------------------------------------------------------------------
(***************************************************************************)
(* subscribe and unsubscribe of a callback while the stream is live.       *)
(***************************************************************************)
churn == <<disk, writer, queue, dispatching, work, ending, queued, seen, past>>

(* _subscribers[id][callback_id] = callback                                *)
SubscribeCallback(c) ==
    /\ c \in Churning
    /\ closing = "no"
    /\ cpc[c] = "off"
    /\ keys' = keys \cup {c}
    /\ sub' = [sub EXCEPT ![c] = TRUE]
    /\ cpc' = [cpc EXCEPT ![c] = "adding"]
    /\ UNCHANGED <<pool, churn>>

(* _thread_pools[id][callback_id] = pool                                   *)
SubscribePool(c) ==
    /\ cpc[c] = "adding"
    /\ pool' = [pool EXCEPT ![c] = "open"]
    /\ cpc' = [cpc EXCEPT ![c] = "on"]
    /\ UNCHANGED <<keys, sub, churn>>

(* _clean_up_subscriber, for unsubscribe and, one callback after the       *)
(* other, for close(): the loop of the callback's thread is stopped ...    *)
CleanUpLoop(c) ==
    /\ \/ c \in Churning /\ closing = "no"
       \/ closing = "cleaning" /\ \A d \in Callbacks : cpc[d] \in {"on", "off"}
    /\ cpc[c] = "on"
    /\ cpc' = [cpc EXCEPT ![c] = "stopping"]
    /\ UNCHANGED <<keys, sub, pool, churn>>

(* ... pool.shutdown() refuses new work at once ...                        *)
CleanUpShutdown(c) ==
    /\ cpc[c] = "stopping"
    /\ pool' = [pool EXCEPT ![c] = "shut"]
    /\ cpc' = [cpc EXCEPT ![c] = "shutting"]
    /\ UNCHANGED <<keys, sub, churn>>

(* Mutant of CleanUpPool: shutdown(wait=False).                            *)
CleanUpPoolNoWait(c) ==
    /\ cpc[c] = "shutting"
    /\ pool' = [pool EXCEPT ![c] = "none"]
    /\ cpc' = [cpc EXCEPT ![c] = "removing"]
    /\ UNCHANGED <<keys, sub, churn>>

(* ... and waits for the work it has; then the pool is deleted ...         *)
CleanUpPool(c) ==
    /\ cpc[c] = "shutting"
    /\ work[c] = <<>>
    /\ pool' = [pool EXCEPT ![c] = "none"]
    /\ cpc' = [cpc EXCEPT ![c] = "removing"]
    /\ UNCHANGED <<keys, sub, churn>>

(* ... and the callback last.                                              *)
CleanUpCallback(c) ==
    /\ cpc[c] = "removing"
    /\ sub' = [sub EXCEPT ![c] = FALSE]
    /\ cpc' = [cpc EXCEPT ![c] = "off"]
    /\ UNCHANGED <<keys, pool, churn>>
-----------------------------------------------------------------------------
(***************************************************************************)
(* close(), called by the thread that also subscribes and unsubscribes.    *)
(***************************************************************************)
CloseBegin ==
    /\ closing = "no"
    /\ \A c \in Callbacks : cpc[c] \in {"on", "off"}
    /\ closing' = "joining"
    /\ UNCHANGED <<disk, writer, queue, dispatching, subscribing, work, exiting, queued,
                   seen, past>>

CloseJoin ==
    /\ closing = "joining"
    /\ disp \in {"stopped", "dead"}
    /\ closing' = "cleaning"
    /\ UNCHANGED <<disk, writer, queue, dispatching, subscribing, work, exiting, queued,
                   seen, past>>

CloseDrain ==
    /\ closing = "cleaning"
    /\ \A c \in Callbacks : cpc[c] = "off"
    /\ queue' = <<>>
    /\ closing' = "closed"
    /\ UNCHANGED <<disk, writer, dispatching, subscribing, work, exiting, queued, seen,
                   past>>

(* The process is told to end: should_continue() is false from now on.     *)
Shutdown ==
    /\ MayExit
    /\ exiting' = TRUE
    /\ UNCHANGED <<disk, writer, queue, dispatching, subscribing, work, closing, queued,
                   seen, past>>
-----------------------------------------------------------------------------
(***************************************************************************)
(* The process is killed; the conversation is opened again later.  What is *)
(* in memory is lost, what is in the file store stays.                     *)
(***************************************************************************)
Crash ==
    /\ crashes < MaxCrashes
    /\ crashes' = crashes + 1
    /\ cur' = Unset
    /\ pages' = << <<>> >>
    /\ pc' = [t \in Threads |-> "idle"]
    /\ my' = Fresh
    /\ rpc' = [r \in Readers |-> "idle"]
    /\ rid' = [r \in Readers |-> Unset]
    /\ queue' = <<>>
    /\ disp' = "check"
    /\ item' = NoEntry
    /\ todo' = {}
    /\ keys' = Subscribed
    /\ sub' = [c \in Callbacks |-> c \in Subscribed]
    /\ pool' = [c \in Callbacks |-> IF c \in Subscribed THEN "open" ELSE "none"]
    /\ work' = [c \in Callbacks |-> <<>>]
    /\ cpc' = [c \in Callbacks |-> IF c \in Subscribed THEN "on" ELSE "off"]
    /\ closing' = "no"
    /\ exiting' = FALSE
    /\ queued' = <<>>
    /\ seen' = [c \in Callbacks |-> <<>>]
    /\ prior' = {}
    /\ lost' = lost \cup {my[t].id : t \in {u \in Threads : pc[u] \in {"write", "opened"}}}
    /\ UNCHANGED <<disk, added>>

AddEvent(t) ==
    \/ TakeId(t) \/ FillPage(t) \/ TruncateFile(t) \/ WriteFile(t)
    \/ TruncatePage(t) \/ StorePage(t) \/ Enqueue(t)
ComputeCurId(r) == ReadCurId(r) \/ ListEvents(r) \/ SetCurId(r)
ProcessQueue ==
    \/ CheckStop \/ GetEvent \/ GetTimeout \/ FanDone
    \/ \E c \in Callbacks : Submit(c)
Subscribe(c) == SubscribeCallback(c) \/ SubscribePool(c)
CleanUp(c) ==
    CleanUpLoop(c) \/ CleanUpShutdown(c) \/ CleanUpPool(c) \/ CleanUpCallback(c)
Close == CloseBegin \/ CloseJoin \/ CloseDrain

Next ==
    \/ \E t \in Threads : AddEvent(t)
    \/ \E r \in Readers : ComputeCurId(r)
    \/ ProcessQueue
    \/ \E c \in Callbacks : RunCallback(c) \/ Subscribe(c) \/ CleanUp(c)
    \/ Close
    \/ Shutdown
    \/ Crash

Spec == Init /\ [][Next]_vars

(***************************************************************************)
(* Fairness: threads and pool workers are scheduled by the operating       *)
(* system and locks are eventually granted.  Nothing obliges anybody to    *)
(* call add_event, subscribe, unsubscribe or close, but a call that has    *)
(* begun goes on.                                                          *)
(***************************************************************************)
Finish(t) == pc[t] # "idle" /\ AddEvent(t)
FinishClose == closing # "no" /\ (Close \/ \E c \in Callbacks : CleanUp(c))
FairSpec ==
    /\ Spec
    /\ \A t \in Threads : WF_vars(Finish(t))
    /\ WF_vars(ProcessQueue)
    /\ \A c \in Callbacks : WF_vars(RunCallback(c))
    /\ WF_vars(FinishClose)
-----------------------------------------------------------------------------
(***************************************************************************)
(* What search_events yields for an id: the page whose aligned range       *)
(* covers it if there is one in the cache, else the event's own file.  A   *)
(* torn page is not JSON: it raises, and yields nothing for any of its ids. *)
(***************************************************************************)
PageStart(i) == i - (i % CacheSize)
SearchAt(i) ==
    IF PageStart(i) \notin DOMAIN cached THEN file[i]
    ELSE IF cached[PageStart(i)] = TornPage THEN Torn
    ELSE cached[PageStart(i)][(i % CacheSize) + 1].ev

(* Type invariant: the shape of the disk, of the threads' locals and of    *)
(* the delivery state; it also says that the lock has at most one holder.  *)
DiskOK ==
    /\ DOMAIN file \subseteq Nat
    /\ \A i \in DOMAIN file : file[i] \in Event \cup {Torn}
    /\ DOMAIN cached \subseteq Nat
    /\ \A s \in DOMAIN cached : cached[s] \in Seq(Entry)
    /\ lost \subseteq Nat
    /\ crashes \in Nat
WriterOK ==
    /\ cur \in Nat \cup {Unset}
    /\ pages \in Seq(Seq(Entry)) /\ pages # <<>>
    /\ added \in [Threads -> Nat]
    /\ pc \in [Threads -> {"idle", "locked", "write", "opened", "page", "paging",
                               "put"}]
    /\ my \in [Threads -> Locals]
    /\ \A t \in Threads : pc[t] # "idle" =>
          /\ [id |-> my[t].id, ev |-> my[t].ev] \in Entry
          /\ my[t].page \in 1..Len(pages)
    /\ \A t, u \in Threads : pc[t] = "locked" /\ pc[u] = "locked" => t = u
    /\ \A t \in Threads : pc[t] = "locked" => cur # Unset
    /\ rpc \in [Readers -> {"idle", "list", "set"}]
    /\ rid \in [Readers -> Nat \cup {Unset}]
    /\ \A r \in Readers : rpc[r] = "set" => rid[r] # Unset
DeliverOK ==
    /\ queue \in Seq(Entry) /\ queued \in Seq(Entry)
    /\ disp \in {"check", "get", "fan", "dead", "stopped"}
    /\ item \in Entry \cup {NoEntry}
    /\ disp = "fan" => item \in Entry
    /\ todo \subseteq Callbacks /\ keys \subseteq Callbacks
    /\ sub \in [Callbacks -> BOOLEAN]
    /\ pool \in [Callbacks -> {"none", "open", "shut"}]
    /\ cpc \in [Callbacks -> {"off", "adding", "on", "stopping", "shutting", "removing"}]
    /\ work \in [Callbacks -> Seq(Entry)]
    /\ seen \in [Callbacks -> Seq(Entry)]
    /\ closing \in {"no", "joining", "cleaning", "closed"}
    /\ exiting \in BOOLEAN
    /\ prior \subseteq Entry \X Entry
TypeOK == DiskOK /\ WriterOK /\ DeliverOK

(* The history on disk is append-only: once the file of an id is written,  *)
(* no later add_event, in this process or in one started after a crash,    *)
(* writes that id again.                                                   *)
StoredForever ==
    [][\A i \in DOMAIN file : file[i] # Torn =>
          i \in DOMAIN file' /\ file'[i] = file[i]]_vars

(* The stream implements the log of DurableLog: an entry is in the log     *)
(* when its file is complete.  A step of the stream adds an entry under a  *)
(* new id, has a subscriber handle a stored event it did not handle        *)
(* before, restarts, or changes neither the log nor what was seen.         *)
Log == INSTANCE DurableLog WITH
           log <- {[id |-> i, ev |-> file[i]] : i \in {j \in DOMAIN file : file[j] # Torn}},
           Subscribers <- Callbacks
ImplementsLog == Log!Spec

(* Page cache and files agree: for an id whose file is written,            *)
(* search_events yields what that file holds, whatever pages were stored   *)
(* by threads that overtook each other or before a kill.  A kill excuses   *)
(* two things: a page it left torn, and the id of an event that was on a   *)
(* page when the process died before its file was written; a later event   *)
(* gets that id, and the stored page may still hold the one that is lost.  *)
SearchAgrees ==
    \A i \in DOMAIN file : file[i] # Torn /\ i \notin lost =>
        SearchAt(i) = file[i] \/ cached[PageStart(i)] = TornPage

(* No id is skipped: without a crash every id below cur_id is in the store *)
(* or in the hands of a thread that has yet to write it.                   *)
NoGap ==
    crashes = 0 /\ cur # Unset =>
        \A i \in 0..(cur - 1) :
            i \in DOMAIN file \/ \E t \in Threads : pc[t] # "idle" /\ my[t].id = i

(* A subscriber never handles an event that a restart could lose:          *)
(* add_event stores the event before it is put on the queue.               *)
SeenIsStored ==
    \A c \in Callbacks : \A k \in DOMAIN seen[c] :
        /\ seen[c][k].id \in DOMAIN file
        /\ file[seen[c][k].id] = seen[c][k].ev

(* Between the queue and the callback nothing is lost, repeated or         *)
(* reordered for a callback that stays subscribed: what it has seen, what  *)
(* waits in its pool, the event in the queue thread's hands and the queue  *)
(* make up exactly what was put, until close() stops the callback's loop.  *)
InHand(c) == IF disp \in {"fan", "dead"} /\ c \in todo THEN <<item>> ELSE <<>>
NothingLost ==
    closing \in {"no", "joining"} /\ disp # "dead" =>
        \A c \in Subscribed : seen[c] \o work[c] \o InHand(c) \o queue = queued

(* After unsubscribe has returned the callback is not called again: nothing *)
(* is left in its pool.                                                    *)
QuietWhenOff == \A c \in Callbacks : cpc[c] = "off" => work[c] = <<>>

(* The order in which events are added is the order of their ids and the   *)
(* order in which a subscriber sees them, when one add_event returned      *)
(* before the other was called, by whatever threads.  Of calls that        *)
(* overlap nothing is said: the ids are taken under the lock and the queue *)
(* is filled outside it.                                                   *)
SeenInCallOrder ==
    \A c \in Callbacks : \A i, j \in DOMAIN seen[c] :
        <<seen[c][i], seen[c][j]>> \in prior => i < j /\ seen[c][i].id < seen[c][j].id

(* The queue thread survives callbacks that come and go: a subscriber that *)
(* leaves must not stop the delivery to the others.                        *)
DispatcherSurvives == disp # "dead"

(* Every add_event call that has taken an id reaches every callback that   *)
(* stays subscribed, unless the stream is closed or the process shuts      *)
(* down.                                                                   *)
EventuallySeen ==
    \A c \in Subscribed, t \in Threads, n \in 1..MaxAdds :
        (pc[t] = "locked" /\ my[t].ev = [by |-> t, n |-> n])
            ~> (\/ \E k \in DOMAIN seen[c] : seen[c][k].ev = [by |-> t, n |-> n]
                \/ closing # "no" \/ exiting)

(* close() returns: the queue thread notices the stop flag although it may *)
(* be waiting on an empty queue, and the pools run out of work.            *)
CloseReturns == (closing = "joining") ~> (closing = "closed")
=============================================================================
