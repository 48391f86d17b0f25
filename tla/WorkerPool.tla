----------------------------- MODULE WorkerPool -----------------------------
(***************************************************************************)
(* What a pool of Width worker threads promises to the threads that hand   *)
(* it tasks: a task is started at most once and only after it was          *)
(* submitted, and it is started before all but Width - 1 of those that     *)
(* were submitted before it: a worker that has taken an older task may be  *)
(* slower to call it.  With Width = 1 this is an Executor.                 *)
(***************************************************************************)
EXTENDS Naturals, Sequences, FiniteSets, Functions

CONSTANTS
  Tasks,            \* the tasks that can be submitted, each of them once
  Width             \* the number of workers

VARIABLES
  submitted,        \* every task ever submitted, in order
  started           \* the tasks that have been started, in order

Init == submitted = << >> /\ started = << >>

Submit(t) ==
  /\ t \notin Range(submitted)
  /\ submitted' = Append(submitted, t)
  /\ UNCHANGED started

\* The older tasks that the i-th one would overtake if it started now.
Overtaken(i) == {submitted[j] : j \in 1..(i - 1)} \ Range(started)

Start(i) ==
  /\ submitted[i] \notin Range(started)
  /\ Cardinality(Overtaken(i)) < Width
  /\ started' = Append(started, submitted[i])
  /\ UNCHANGED submitted

Next == (\E t \in Tasks : Submit(t)) \/ (\E i \in 1..Len(submitted) : Start(i))

Spec == Init /\ [][Next]_<<submitted, started>>
=============================================================================
