------------------------------ MODULE TaskBag ------------------------------
(***************************************************************************)
(* What a task queue promises its callers, without indices, slots or       *)
(* compare-and-swap: a bag into which tasks are put and from which each    *)
(* task is taken by exactly one thread, whole, and run.                    *)
(***************************************************************************)
CONSTANTS Threads, Items, NULL

VARIABLES
  bag,      \* the tasks that were put and not taken
  held,     \* the (function, payload) pair each thread is running
  started   \* the tasks that were ever put or run at once

bagVars == <<bag, held, started>>

Nothing == <<NULL, NULL>>
Pair(x) == << <<"fn", x>>, <<"arg", x>> >>

Init ==
  /\ bag = {}
  /\ held = [p \in Threads |-> Nothing]
  /\ started = {}

Put(x) ==
  /\ x \notin started
  /\ started' = started \cup {x}
  /\ bag' = bag \cup {x}
  /\ UNCHANGED held

(* A full bag makes the caller of Put run the task itself.                 *)
RunAtOnce(p, x) ==
  /\ x \notin started
  /\ held[p] = Nothing
  /\ started' = started \cup {x}
  /\ held' = [held EXCEPT ![p] = Pair(x)]
  /\ UNCHANGED bag

Take(p, x) ==
  /\ x \in bag
  /\ held[p] = Nothing
  /\ bag' = bag \ {x}
  /\ held' = [held EXCEPT ![p] = Pair(x)]
  /\ UNCHANGED started

Finish(p) ==
  /\ held[p] # Nothing
  /\ held' = [held EXCEPT ![p] = Nothing]
  /\ UNCHANGED <<bag, started>>

Next ==
  \/ \E x \in Items : Put(x)
  \/ \E p \in Threads, x \in Items : RunAtOnce(p, x) \/ Take(p, x)
  \/ \E p \in Threads : Finish(p)

Spec == Init /\ [][Next]_bagVars

(* Somebody takes from a bag that is not empty, and tasks end.             *)
LiveSpec ==
  /\ Spec
  /\ WF_bagVars(\E p \in Threads, x \in Items : Take(p, x))
  /\ \A p \in Threads : WF_bagVars(Finish(p))

=============================================================================
