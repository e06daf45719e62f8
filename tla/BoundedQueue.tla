--------------------------- MODULE BoundedQueue ---------------------------
(***************************************************************************)
(* BoundedQueue<T> of src/src/output/database_backend.cpp: the queue       *)
(* between the thread that generates rows and the threads that write them. *)
(*                                                                         *)
(* Every operation holds mutex_ except while it waits on a condition       *)
(* variable, so each of push, pop and close is split at its wait: the part *)
(* that runs under the mutex is one action, and a thread that found its    *)
(* wait predicate false sits in the wait set until it is notified.  The    *)
(* stop flag belongs to the caller; it is an atomic that is read under the *)
(* mutex but WRITTEN without it, and it is never written back to false, so *)
(* the loads of lines 158 and 159 collapse into one.  The capacity is      *)
(* fixed when the queue is constructed and given to push here.             *)
(***************************************************************************)
EXTENDS Naturals, Sequences

VARIABLES
    queue,                                 \* queue_, oldest item first
    closed,                                \* closed_
    canPush,                               \* threads waiting on can_push_
    canPop                                 \* threads waiting on can_pop_

queueVars == <<queue, closed, canPush, canPop>>

QueueInit ==
    /\ queue = <<>>
    /\ closed = FALSE
    /\ canPush = {}
    /\ canPop = {}

(* What notify_one may leave of a wait set: it wakes one waiting thread,   *)
(* any one of them, and is lost when nobody waits.                         *)
NotifyOne(waiters) ==
    IF waiters = {} THEN {{}} ELSE {waiters \ {t} : t \in waiters}

(* push: the call returns false, returns true, or goes to sleep.           *)
PushRefused(t, stop) ==
    /\ t \notin canPush
    /\ closed \/ stop
    /\ UNCHANGED queueVars

PushDone(t, item, capacity, stop) ==
    /\ t \notin canPush
    /\ ~closed /\ ~stop
    /\ Len(queue) < capacity
    /\ queue' = Append(queue, item)
    /\ canPop' \in NotifyOne(canPop)
    /\ UNCHANGED <<closed, canPush>>

PushWait(t, capacity, stop) ==
    /\ t \notin canPush
    /\ ~closed /\ ~stop
    /\ Len(queue) >= capacity
    /\ canPush' = canPush \union {t}
    /\ UNCHANGED <<queue, closed, canPop>>

(* Mutant of PopDone: a waiting push is not notified.                      *)
PopDoneSilently(t) ==
    /\ t \notin canPop
    /\ queue # <<>>
    /\ queue' = Tail(queue)
    /\ UNCHANGED <<closed, canPush, canPop>>

(* pop: items that are already queued are handed out even after close or   *)
(* stop; it returns false only on an empty queue.                          *)
PopDone(t) ==
    /\ t \notin canPop
    /\ queue # <<>>
    /\ queue' = Tail(queue)
    /\ canPush' \in NotifyOne(canPush)
    /\ UNCHANGED <<closed, canPop>>

PopRefused(t, stop) ==
    /\ t \notin canPop
    /\ queue = <<>>
    /\ closed \/ stop
    /\ UNCHANGED queueVars

PopWait(t, stop) ==
    /\ t \notin canPop
    /\ queue = <<>>
    /\ ~closed /\ ~stop
    /\ canPop' = canPop \union {t}
    /\ UNCHANGED <<queue, closed, canPush>>

(* Mutant of Close: only the pushing side is notified.                     *)
CloseWithoutWakingPop ==
    /\ closed' = TRUE
    /\ canPush' = {}
    /\ UNCHANGED <<queue, canPop>>

Close ==
    /\ closed' = TRUE
    /\ canPush' = {}
    /\ canPop' = {}
    /\ UNCHANGED queue

(* std::condition_variable allows a wait to end without a notification;    *)
(* the thread then evaluates its predicate again.                          *)
SpuriousWakeup ==
    \/ \E t \in canPush : canPush' = canPush \ {t} /\ UNCHANGED <<queue, closed, canPop>>
    \/ \E t \in canPop : canPop' = canPop \ {t} /\ UNCHANGED <<queue, closed, canPush>>
=============================================================================
