----------------------------- MODULE DurableLog -----------------------------
(***************************************************************************)
(* What an event stream promises: a log that only grows, with one event    *)
(* per id, and subscribers that are called with events of the log only,    *)
(* with none of them twice while the process lives.  A restart forgets     *)
(* what the subscribers saw and keeps the log.  EventStream implements it. *)
(***************************************************************************)
EXTENDS Sequences

CONSTANT Subscribers

VARIABLES
    log,   \* the entries [id, ev] in the store
    seen   \* per subscriber: the entries it was called with since the restart

Init ==
    /\ log = {}
    /\ seen = [s \in Subscribers |-> <<>>]

(* A new entry gets an id of its own.  What the entries may be is left     *)
(* open: the one that is added is the one the next log has and this one    *)
(* has not.                                                                *)
Add(e) ==
    /\ \A f \in log : f.id # e.id
    /\ log' = log \cup {e}
    /\ UNCHANGED seen

(* A subscriber is called with an entry of the log, once.                  *)
Deliver(s, e) ==
    /\ e \in log
    /\ \A i \in DOMAIN seen[s] : seen[s][i].id # e.id
    /\ seen' = [seen EXCEPT ![s] = Append(@, e)]
    /\ UNCHANGED log

Restart ==
    /\ seen' = [s \in Subscribers |-> <<>>]
    /\ UNCHANGED log

Next ==
    \/ \E e \in log' : Add(e)
    \/ \E s \in Subscribers, e \in log : Deliver(s, e)
    \/ Restart

Spec == Init /\ [][Next]_<<log, seen>>
=============================================================================
