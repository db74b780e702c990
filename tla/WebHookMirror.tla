--------------------------- MODULE WebHookMirror ---------------------------
(***************************************************************************)
(* openhands/storage/batched_web_hook.py: a file store that reports its    *)
(* changes to a web hook in batches, sent when no change was queued for a  *)
(* while, when they reach a size, or on flush().                           *)
(*                                                                         *)
(* Threads write files, a timer thread per timer enqueues the batch, the   *)
(* threads of EXECUTOR send the batches, in any order.  What is done under *)
(* _batch_lock is one step, but flush() sends while it holds the lock.     *)
(***************************************************************************)
EXTENDS Integers, FiniteSets

CONSTANTS
    Writers,     \* threads that write and delete files
    Paths,
    Sizes,       \* sizes of the contents
    SizeLimit,   \* batch_size_limit_bytes
    MaxChanges,  \* bound: writes and deletes
    MaxFlushes   \* bound: calls of flush()

ASSUME HookAssumption ==
    /\ Sizes \subseteq Nat \ {0} /\ SizeLimit \in Nat
    /\ MaxChanges \in Nat /\ MaxFlushes \in Nat

VARIABLES
    writer,     \* per thread: the change it made to a file and has not queued
    changes,    \* changes so far, each with its number
    batch,      \* _batch: path -> the change to send
    batchSize,  \* _batch_size
    timer,      \* _batch_timer: "none", "armed", "fired"
    fired,      \* timer threads that wait for the lock
    jobs,       \* batches being sent
    flushing,   \* flush() holds the lock
    flushes,
    queuedLast, \* history: per path, the number of the change queued last
    settled     \* history: the paths for which that one was sent or given up

hookVars == <<writer, changes, batch, batchSize, timer, fired, jobs, flushing,
              flushes, queuedLast, settled>>

Attempts == 3
Change(p, n, z) == [path |-> p, no |-> n, size |-> z]
Deleted == 0                     \* the size counted for a delete
Nothing == [path |-> "none", no |-> 0, size |-> 0]
EmptyBatch == [p \in Paths |-> Nothing]

HookInit ==
    /\ writer = [w \in Writers |-> Nothing]
    /\ changes = 0
    /\ batch = EmptyBatch
    /\ batchSize = 0
    /\ timer = "none"
    /\ fired = 0
    /\ jobs = {}
    /\ flushing = FALSE
    /\ flushes = 0
    /\ queuedLast = [p \in Paths |-> 0]
    /\ settled = Paths

Job(b, by) == [batch |-> b, by |-> by, attempt |-> 1]

(* EXECUTOR.submit(_send_batch): an empty batch is not sent.               *)
Submitted(b, by) == IF b = EmptyBatch THEN jobs ELSE jobs \cup {Job(b, by)}
-----------------------------------------------------------------------------
(* write and delete: the file first, without the lock ...                  *)
ChangeFile(w, p, z) ==
    /\ writer[w] = Nothing
    /\ changes < MaxChanges
    /\ changes' = changes + 1
    /\ writer' = [writer EXCEPT ![w] = Change(p, changes + 1, z)]
    /\ UNCHANGED <<batch, batchSize, timer, fired, jobs, flushing, flushes,
                   queuedLast, settled>>

(* ... then _queue_update: the change replaces the one of the same path;   *)
(* the batch goes when it reaches the limit, else the timer starts anew.   *)
QueueUpdate(w) ==
    /\ writer[w] # Nothing
    /\ ~flushing
    /\ LET c == writer[w]
           b == [batch EXCEPT ![c.path] = c]
           size == batchSize - batch[c.path].size + c.size
       IN  /\ queuedLast' = [queuedLast EXCEPT ![c.path] = c.no]
           /\ settled' = settled \ {c.path}
           /\ IF size >= SizeLimit
              THEN /\ jobs' = Submitted(b, "executor")
                   /\ batch' = EmptyBatch /\ batchSize' = 0
                   /\ timer' = "none"
              ELSE /\ batch' = b /\ batchSize' = size
                   /\ timer' = "armed"
                   /\ UNCHANGED jobs
    /\ writer' = [writer EXCEPT ![w] = Nothing]
    /\ UNCHANGED <<changes, fired, flushing, flushes>>

(* The timer's thread wakes up; cancel() no longer stops it.               *)
TimerFires ==
    /\ timer = "armed"
    /\ timer' = "fired"
    /\ fired' = fired + 1
    /\ UNCHANGED <<writer, changes, batch, batchSize, jobs, flushing, flushes,
                   queuedLast, settled>>

(* Mutant: a timer that was replaced in the meantime sends nothing.       *)
EnqueueFromTimerOwn ==
    /\ fired > 0
    /\ ~flushing
    /\ fired' = fired - 1
    /\ IF timer = "fired"
       THEN jobs' = Submitted(batch, "executor") /\ batch' = EmptyBatch /\ batchSize' = 0
       ELSE UNCHANGED <<jobs, batch, batchSize>>
    /\ timer' = "none"
    /\ UNCHANGED <<writer, changes, flushing, flushes, queuedLast, settled>>

(* _enqueue_batch_from_timer: whatever is in the batch by then, and the    *)
(* timer that was started meanwhile is cancelled.                          *)
EnqueueFromTimer ==
    /\ fired > 0
    /\ ~flushing
    /\ fired' = fired - 1
    /\ jobs' = Submitted(batch, "executor")
    /\ batch' = EmptyBatch /\ batchSize' = 0
    /\ timer' = "none"
    /\ UNCHANGED <<writer, changes, flushing, flushes, queuedLast, settled>>

(* flush: the batch is sent by the caller, under the lock ...              *)
Flush ==
    /\ ~flushing
    /\ flushes < MaxFlushes
    /\ flushes' = flushes + 1
    /\ flushing' = TRUE
    /\ jobs' = Submitted(batch, "flush")
    /\ batch' = EmptyBatch /\ batchSize' = 0
    /\ UNCHANGED <<writer, changes, timer, fired, queuedLast, settled>>

(* ... and then the timer is cancelled.                                    *)
FlushEnds ==
    /\ flushing
    /\ \A j \in jobs : j.by # "flush"
    /\ flushing' = FALSE
    /\ timer' = "none"
    /\ UNCHANGED <<writer, changes, batch, batchSize, fired, jobs, flushes,
                   queuedLast, settled>>
-----------------------------------------------------------------------------
(* _send_batch_request: the POST is answered; or it fails, whether the     *)
(* hook got it or not, and is tried again.                                 *)
Settled(b) == settled \cup {p \in Paths : b[p] # Nothing /\ b[p].no = queuedLast[p]}

Delivered(j) ==
    /\ settled' = Settled(j.batch)
    /\ jobs' = jobs \ {j}
    /\ UNCHANGED <<writer, changes, batch, batchSize, timer, fired, flushing, flushes,
                   queuedLast>>

(* Mutant: the first failed attempt is the last one, and nobody notices.   *)
AttemptFailsOnce(j) ==
    /\ jobs' = jobs \ {j}
    /\ UNCHANGED <<writer, changes, batch, batchSize, timer, fired, flushing, flushes,
                   queuedLast, settled>>

AttemptFails(j) ==
    /\ \/ /\ j.attempt < Attempts
          /\ jobs' = (jobs \ {j}) \cup {[j EXCEPT !.attempt = @ + 1]}
          /\ UNCHANGED settled
       \/ /\ j.attempt = Attempts
          /\ jobs' = jobs \ {j}
          /\ settled' = Settled(j.batch)
    /\ UNCHANGED <<writer, changes, batch, batchSize, timer, fired, flushing, flushes,
                   queuedLast>>

Post == \E j \in jobs : Delivered(j) \/ AttemptFails(j)

HookNext ==
    \/ \E w \in Writers, p \in Paths, z \in Sizes \cup {Deleted} : ChangeFile(w, p, z)
    \/ \E w \in Writers : QueueUpdate(w)
    \/ TimerFires \/ EnqueueFromTimer
    \/ Flush \/ FlushEnds
    \/ Post

HookSpec == HookInit /\ [][HookNext]_hookVars
-----------------------------------------------------------------------------
(* Type invariant; the size kept with the batch is the size of what is in  *)
(* it, and below the limit.                                                *)
Bytes == UNION {{p} \X (1..batch[p].size) : p \in Paths}

HookTypeOK ==
    /\ changes \in 0..MaxChanges /\ flushes \in 0..MaxFlushes /\ fired \in Nat
    /\ timer \in {"none", "armed", "fired"} /\ flushing \in BOOLEAN
    /\ \A p \in Paths : batch[p] # Nothing => batch[p].path = p
    /\ batchSize = Cardinality(Bytes)
    /\ batchSize < SizeLimit \/ batch = EmptyBatch
    /\ \A j \in jobs : j.attempt \in 1..Attempts /\ j.batch # EmptyBatch

(* Changes in the batch are never stranded: a timer is running for them,   *)
(* or one has fired and its thread will get the lock, whichever timers     *)
(* were cancelled too late.                                                *)
NeverStranded ==
    batch # EmptyBatch => timer = "armed" \/ fired > 0

(* The last change queued for a path is somewhere: in the batch, being     *)
(* sent, at the hook, or given up after three attempts.  (Proved in        *)
(* ServerPartsProofs.)                                                     *)
NothingDropped ==
    \A p \in Paths :
        \/ p \in settled
        \/ batch[p].no = queuedLast[p]
        \/ \E j \in jobs : j.batch[p].no = queuedLast[p]

(* A change that was queued reaches the hook or is given up, unless a      *)
(* later one takes its place, with changes, timers and flushes at any      *)
(* moment.                                                                 *)
EventuallySent == \A p \in Paths : []<>(p \in settled)
=============================================================================
