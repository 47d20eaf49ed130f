------------------------------ MODULE TaskLedger ------------------------------
(***************************************************************************)
(* What a workload run promises, whatever drives it (src/testbed/runner.py,*)
(* run(), "bounded concurrency"; README.md, the trace and summary files):  *)
(* at most `slots` tasks are worked on at once, a task is worked on once   *)
(* and leaves at most one line in the ledger, and the run is only reported *)
(* complete once every task has its line.  How tasks arrive, queue for a   *)
(* slot, talk to OpenCode or time out is left to the implementation.       *)
(***************************************************************************)
EXTENDS Integers, FiniteSets

CONSTANT Task            \* the tasks of the run

VARIABLES
  slots,                 \* how many tasks may be worked on at once
  busy,                  \* tasks being worked on
  ledger,                \* set of [task, success]: the lines of the trace
  lost,                  \* tasks whose worker died before its line was written
  status                 \* "open", "complete" or "abandoned"

vars == <<slots, busy, ledger, lost, status>>

Concluded == {line.task : line \in ledger}

Init ==
  /\ slots \in Nat
  /\ busy = {}
  /\ ledger = {}
  /\ lost = {}
  /\ status = "open"

Take(t) ==
  /\ status = "open"
  /\ t \notin busy \cup Concluded \cup lost
  /\ Cardinality(busy) < slots
  /\ busy' = busy \cup {t}
  /\ UNCHANGED <<slots, ledger, lost, status>>

\* The freed slot may be handed to the next task in the same step.
LetGo(t, next) ==
  /\ status = "open"
  /\ t \in busy
  /\ next \cap (busy \cup Concluded \cup lost) = {}
  /\ Cardinality(next) <= 1
  /\ busy' = (busy \ {t}) \cup next
  /\ UNCHANGED <<slots, status>>

Conclude(t, success, next) ==
  /\ LetGo(t, next)
  /\ ledger' = ledger \cup {[task |-> t, success |-> success]}
  /\ UNCHANGED lost

Lose(t, next) ==
  /\ LetGo(t, next)
  /\ lost' = lost \cup {t}
  /\ UNCHANGED ledger

Complete ==
  /\ status = "open"
  /\ Concluded = Task
  /\ status' = "complete"
  /\ UNCHANGED <<slots, busy, ledger, lost>>

\* Only the loss of a task makes a run give up.
Abandon ==
  /\ status = "open"
  /\ lost # {}
  /\ busy' = {}
  /\ status' = "abandoned"
  /\ UNCHANGED <<slots, ledger, lost>>

Next ==
  \/ \E t \in Task : Take(t)
  \/ \E t \in Task, success \in BOOLEAN, next \in SUBSET Task :
       Conclude(t, success, next) \/ Lose(t, next)
  \/ Complete
  \/ Abandon

Spec == Init /\ [][Next]_vars
===============================================================================
