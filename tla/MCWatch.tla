------------------------------ MODULE MCWatch ------------------------------
(* An instance of Watch for TLC.                                            *)
EXTENDS Watch, TLC

CONSTANTS a1, a2, o1, o2, t1, f, g, r

Call(fp, denied) ==
  [type |-> "call", fp |-> fp, error |-> IF denied THEN r ELSE None,
   denied |-> denied, poll |-> fp = f, cost |-> 0]

OfKind(type) ==
  [type |-> type, fp |-> None, error |-> None, denied |-> FALSE,
   poll |-> FALSE, cost |-> 0]

Paid == [OfKind("progress") EXCEPT !.cost = 1]

GatewayCalls == {Call(f, FALSE), Call(g, TRUE)}
Executed == {OfKind("result")}
Told == {Paid, OfKind("end"), OfKind("status")}

(* Thresholds of a few events; a pattern need not be repeated to be a cycle. *)
Loose == [calls |-> 2, errors |-> 2, denials |-> 2, polls |-> 2, cycles |-> 1,
          quiet |-> 3, runtime |-> 3, budget |-> 2, cost |-> 1]
Tight == Loose

(* What no property reads is left out of the view: which review a finding   *)
(* had, the audit rows of creations and reviews, those of the findings of a *)
(* task some observation of which was lost, and the failure of an observer  *)
(* for an agent the task does not belong to, which changes nothing but its  *)
(* own record.  Only differences of times are looked at, so the clock may   *)
(* as well stand still until there is a task, and when nobody is going to   *)
(* read it again.                                                           *)
OfOwner(o) == o.pc = "idle" \/ Owned(o.agent, o.task)

ViewedClock ==
  IF \A t \in Task : tasks[t] = None THEN 0
  ELSE IF (\A t \in Task : Len(events[t]) = MaxEvents)
          /\ \A c \in Observer : thread[c].pc # "reread" THEN MaxTime
  ELSE clock

FailedOwner(t) ==
  \E e \in trail : e.event = "failed" /\ e.task = t /\ Owned(e.agent, t)

Lost == {t \in Task : FailedOwner(t) \/ t \in unrecorded}

WatchView ==
  <<ViewedClock, tasks, events,
    [t \in Task |-> [code \in Code |->
       IF findings[t][code] = "acknowledged" THEN "resolved" ELSE findings[t][code]]],
    Lost, {e \in trail : e.event = "observed" /\ e.task \notin Lost},
    [c \in Observer |-> IF OfOwner(thread[c]) THEN thread[c] ELSE Idle],
    open, reviewed, upsets>>

WatchSymmetry == Permutations(Observer) \cup Permutations(Agent)
=============================================================================
