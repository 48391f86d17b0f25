------------------------------ MODULE Executor ------------------------------
(***************************************************************************)
(* What an EventLoop promises to the threads that hand it work with        *)
(* queueInLoop: the functors are executed one at a time, each of them at   *)
(* most once, in the order in which they were submitted.  It says nothing  *)
(* about mutexes, vectors that are swapped or file descriptors.            *)
(***************************************************************************)
EXTENDS Naturals, Sequences

CONSTANT Functors   \* the calls that can be submitted

VARIABLES
  submitted,        \* every functor ever submitted, in order
  executed          \* the functors that have been started, in order

Init ==
  /\ submitted = << >>
  /\ executed = << >>

Submit(f) ==
  /\ submitted' = Append(submitted, f)
  /\ UNCHANGED executed

\* The oldest functor that has not been executed yet is executed.
Execute ==
  /\ Len(executed) < Len(submitted)
  /\ executed' = Append(executed, submitted[Len(executed) + 1])
  /\ UNCHANGED submitted

Next == Execute \/ \E f \in Functors : Submit(f)

Spec == Init /\ [][Next]_<<submitted, executed>>
=============================================================================
