----------------------------- MODULE TaskQueue -----------------------------
(***************************************************************************)
(* The per-worker task queue of ThreadContext.cpp: TaskQueue_Push,         *)
(* TaskQueue_Pop and TaskQueue_Steal, one action per access to memory that *)
(* another thread can see.  EngineTypes.h calls the structure a Chase-Lev  *)
(* queue; which thread may call which operation is a parameter here, so    *)
(* that the same code is checked under the discipline a Chase-Lev queue is *)
(* made for and under the way the scheduler really calls it.               *)
(*                                                                         *)
(* Atomic accesses are sequentially consistent: on the amd64 target only a *)
(* store followed by a load may be reordered, and the fence of Pop stands  *)
(* exactly between its store of bottom and its load of top.  The slots are *)
(* plain memory, so the function and the argument are read and written in  *)
(* steps of their own and a racing reader may see one of each.             *)
(***************************************************************************)
EXTENDS Integers, FiniteSets

CONSTANTS
  Queues,     \* the queues, one per worker
  Threads,    \* the threads that call the operations
  Items,      \* the tasks submitted, each a (function, payload) pair, once
  NULL,       \* what a slot that was never written reads as
  QueueSize,  \* queue.size, a power of two (4096 in the engine)
  PtrSize,    \* bytes in a task_t or payload_t (8 on amd64)
  MaxQueued,  \* a client bound: no push while this many entries are queued
  MayPush,    \* MayPush[q], MayPop[q], MaySteal[q]: the threads that call
  MayPop,     \*   Push, Pop and Steal on the queue q
  MaySteal

ASSUME QueueAssumption ==
  /\ Queues # {}
  /\ QueueSize \in Nat \ {0}
  /\ PtrSize \in Nat \ {0}
  /\ QueueSize % PtrSize = 0
  /\ MaxQueued \in Nat
  /\ NULL \notin {"fn", "arg"} \X Items
  /\ MayPush \in [Queues -> SUBSET Threads]
  /\ MayPop \in [Queues -> SUBSET Threads]
  /\ MaySteal \in [Queues -> SUBSET Threads]

VARIABLES
  top, bottom,   \* queue.top and queue.bottom of each queue
  cell,          \* the committed memory of each queue, in pointer-sized cells
  submitted,     \* items some Push was called with
  runs,          \* how often each item's function was run to its end
  pc,            \* where each thread is in the operation it executes
  on,            \* the queue that operation is called on
  locB, locT,    \* its locals b and t
  fn, arg        \* its task and payload: parameters of Push, results of others

memory == <<top, bottom, cell>>
history == <<submitted, runs>>
locals == <<pc, on, locB, locT, fn, arg>>
vars == <<memory, history, locals>>

-----------------------------------------------------------------------------
(* Memory.  InitializeQueue puts the payload array queue.size BYTES after  *)
(* the task array, that is QueueSize \div PtrSize cells.                   *)

FnWord(x)  == <<"fn", x>>
ArgWord(x) == <<"arg", x>>
Word == {NULL} \cup ({"fn", "arg"} \X Items)

FnCell(i)  == i % QueueSize
ArgCell(i) == (QueueSize \div PtrSize) + (i % QueueSize)
Cells == 0 .. (QueueSize + (QueueSize \div PtrSize) - 1)

PushLabel  == {"push_top", "push_fn", "push_arg", "push_bottom"}
PopLabel   == {"pop_store", "pop_top", "pop_fn", "pop_arg", "pop_cas",
               "pop_won", "pop_lost"}
StealLabel == {"steal_bottom", "steal_fn", "steal_arg", "steal_cas"}
(* "idle" and "empty": no operation runs, the last one returned false if   *)
(* "empty"; "run": the thread executes task(payload) that it holds.        *)
Ready == {"idle", "empty"}
Label == Ready \cup {"run"} \cup PushLabel \cup PopLabel \cup StealLabel

Init ==
  /\ top = [q \in Queues |-> 0]
  /\ bottom = [q \in Queues |-> 0]
  /\ cell = [q \in Queues |-> [c \in Cells |-> NULL]]
  /\ submitted = {}
  /\ runs = [x \in Items |-> 0]
  /\ pc = [p \in Threads |-> "idle"]
  /\ on = [p \in Threads |-> CHOOSE q \in Queues : TRUE]
  /\ locB = [p \in Threads |-> 0]
  /\ locT = [p \in Threads |-> 0]
  /\ fn = [p \in Threads |-> NULL]
  /\ arg = [p \in Threads |-> NULL]

Goto(p, label) == pc' = [pc EXCEPT ![p] = label]

(* Leaving an operation: its locals go out of scope.                       *)
Leave(p, label) ==
  /\ Goto(p, label)
  /\ locB' = [locB EXCEPT ![p] = 0]
  /\ locT' = [locT EXCEPT ![p] = 0]

Discard(p) ==
  /\ fn' = [fn EXCEPT ![p] = NULL]
  /\ arg' = [arg EXCEPT ![p] = NULL]

-----------------------------------------------------------------------------
(* TaskQueue_Push *)

PushBegin(p, q, x) ==
  /\ pc[p] \in Ready
  /\ x \in Items \ submitted
  /\ bottom[q] - top[q] < MaxQueued
  /\ submitted' = submitted \cup {x}
  /\ on' = [on EXCEPT ![p] = q]
  /\ fn' = [fn EXCEPT ![p] = FnWord(x)]
  /\ arg' = [arg EXCEPT ![p] = ArgWord(x)]
  /\ locB' = [locB EXCEPT ![p] = bottom[q]]
  /\ Goto(p, "push_top")
  /\ UNCHANGED <<memory, runs, locT>>

(* A full queue makes the caller run the task at once.                     *)
PushTop(p) ==
  /\ pc[p] = "push_top"
  /\ IF locB[p] - top[on[p]] > QueueSize
     THEN Leave(p, "run")
     ELSE /\ locT' = [locT EXCEPT ![p] = top[on[p]]]
          /\ Goto(p, "push_fn")
          /\ UNCHANGED locB
  /\ UNCHANGED <<memory, history, on, fn, arg>>

PushFn(p) ==
  /\ pc[p] = "push_fn"
  /\ cell' = [cell EXCEPT ![on[p]][FnCell(locB[p])] = fn[p]]
  /\ Goto(p, "push_arg")
  /\ UNCHANGED <<top, bottom, history, on, locB, locT, fn, arg>>

PushArg(p) ==
  /\ pc[p] = "push_arg"
  /\ cell' = [cell EXCEPT ![on[p]][ArgCell(locB[p])] = arg[p]]
  /\ Goto(p, "push_bottom")
  /\ UNCHANGED <<top, bottom, history, on, locB, locT, fn, arg>>

PushBottom(p) ==
  /\ pc[p] = "push_bottom"
  /\ bottom' = [bottom EXCEPT ![on[p]] = locB[p] + 1]
  /\ Leave(p, "idle")
  /\ Discard(p)
  /\ UNCHANGED <<top, cell, history, on>>

Push(p) == PushTop(p) \/ PushFn(p) \/ PushArg(p) \/ PushBottom(p)

-----------------------------------------------------------------------------
(* TaskQueue_Pop *)

PopBegin(p, q) ==
  /\ pc[p] \in Ready
  /\ on' = [on EXCEPT ![p] = q]
  /\ locB' = [locB EXCEPT ![p] = bottom[q] - 1]
  /\ Goto(p, "pop_store")
  /\ UNCHANGED <<memory, history, locT, fn, arg>>

PopStore(p) ==
  /\ pc[p] = "pop_store"
  /\ bottom' = [bottom EXCEPT ![on[p]] = locB[p]]
  /\ Goto(p, "pop_top")
  /\ UNCHANGED <<top, cell, history, on, locB, locT, fn, arg>>

PopTop(p) ==
  /\ pc[p] = "pop_top"
  /\ locT' = [locT EXCEPT ![p] = top[on[p]]]
  /\ Goto(p, IF top[on[p]] > locB[p] THEN "pop_lost" ELSE "pop_fn")
  /\ UNCHANGED <<memory, history, on, locB, fn, arg>>

PopFn(p) ==
  /\ pc[p] = "pop_fn"
  /\ fn' = [fn EXCEPT ![p] = cell[on[p]][FnCell(locB[p])]]
  /\ Goto(p, "pop_arg")
  /\ UNCHANGED <<memory, history, on, locB, locT, arg>>

(* Only the last entry is contended with the thieves.                      *)
(* Mutant: it is taken like any other.                                     *)
NoLastEntry(p) == FALSE
LastEntry(p) == locT[p] = locB[p]

PopArg(p) ==
  /\ pc[p] = "pop_arg"
  /\ arg' = [arg EXCEPT ![p] = cell[on[p]][ArgCell(locB[p])]]
  /\ IF LastEntry(p)
     THEN Goto(p, "pop_cas") /\ UNCHANGED <<locB, locT>>
     ELSE Leave(p, "run")
  /\ UNCHANGED <<memory, history, on, fn>>

(* The compare-and-swap of top, in Pop and in Steal.                       *)
(* Mutants: the exchange steps top the wrong way; nothing is compared.     *)
ExchangedBack(p) == locT[p] - 1
Exchanged(p) == locT[p] + 1

Uncompared(p) == TRUE
Compared(p) == top[on[p]] = locT[p]

PopCas(p) ==
  /\ pc[p] = "pop_cas"
  /\ IF Compared(p)
     THEN /\ top' = [top EXCEPT ![on[p]] = Exchanged(p)]
          /\ Goto(p, "pop_won")
     ELSE Goto(p, "pop_lost") /\ UNCHANGED top
  /\ UNCHANGED <<bottom, cell, history, on, locB, locT, fn, arg>>

(* Mutant: bottom is not put back after the last entry was taken or lost.  *)
RestoredNot(p) == locB[p]
Restored(p) == locB[p] + 1

PopWon(p) ==
  /\ pc[p] = "pop_won"
  /\ bottom' = [bottom EXCEPT ![on[p]] = Restored(p)]
  /\ Leave(p, "run")
  /\ UNCHANGED <<top, cell, history, on, fn, arg>>

PopLost(p) ==
  /\ pc[p] = "pop_lost"
  /\ bottom' = [bottom EXCEPT ![on[p]] = Restored(p)]
  /\ Leave(p, "empty")
  /\ Discard(p)
  /\ UNCHANGED <<top, cell, history, on>>

Pop(p) == \/ PopStore(p) \/ PopTop(p) \/ PopFn(p) \/ PopArg(p)
          \/ PopCas(p) \/ PopWon(p) \/ PopLost(p)

-----------------------------------------------------------------------------
(* TaskQueue_Steal *)

StealBegin(p, q) ==
  /\ pc[p] \in Ready
  /\ on' = [on EXCEPT ![p] = q]
  /\ locT' = [locT EXCEPT ![p] = top[q]]
  /\ Goto(p, "steal_bottom")
  /\ UNCHANGED <<memory, history, locB, fn, arg>>

(* Mutant: the emptiness test is off by one.                               *)
FoundEmptyLate(p) == locT[p] > bottom[on[p]]
FoundEmpty(p) == locT[p] >= bottom[on[p]]

StealBottom(p) ==
  /\ pc[p] = "steal_bottom"
  /\ IF FoundEmpty(p)
     THEN Leave(p, "empty")
     ELSE Goto(p, "steal_fn") /\ UNCHANGED <<locB, locT>>
  /\ UNCHANGED <<memory, history, on, fn, arg>>

StealFn(p) ==
  /\ pc[p] = "steal_fn"
  /\ fn' = [fn EXCEPT ![p] = cell[on[p]][FnCell(locT[p])]]
  /\ Goto(p, "steal_arg")
  /\ UNCHANGED <<memory, history, on, locB, locT, arg>>

StealArg(p) ==
  /\ pc[p] = "steal_arg"
  /\ arg' = [arg EXCEPT ![p] = cell[on[p]][ArgCell(locT[p])]]
  /\ Goto(p, "steal_cas")
  /\ UNCHANGED <<memory, history, on, locB, locT, fn>>

StealCas(p) ==
  /\ pc[p] = "steal_cas"
  /\ IF Compared(p)
     THEN /\ top' = [top EXCEPT ![on[p]] = Exchanged(p)]
          /\ Leave(p, "run")
          /\ UNCHANGED <<fn, arg>>
     ELSE Leave(p, "empty") /\ Discard(p) /\ UNCHANGED top
  /\ UNCHANGED <<bottom, cell, history, on>>

Steal(p) == StealBottom(p) \/ StealFn(p) \/ StealArg(p) \/ StealCas(p)

-----------------------------------------------------------------------------
(* task(payload) comes to its end.  A thread that holds anything but a     *)
(* function jumps to an address that is no code and never gets here.       *)
Run(p) ==
  /\ pc[p] = "run"
  /\ \E x \in Items :
       /\ fn[p] = FnWord(x)
       /\ runs' = [runs EXCEPT ![x] = @ + 1]
  /\ Goto(p, "idle")
  /\ Discard(p)
  /\ UNCHANGED <<memory, submitted, on, locB, locT>>

(* The calls: any thread that may call an operation calls it, whenever it  *)
(* is in no other one.                                                     *)
CallPush(p)  == \E q \in Queues : p \in MayPush[q] /\ \E x \in Items : PushBegin(p, q, x)
CallPop(p)   == \E q \in Queues : p \in MayPop[q] /\ PopBegin(p, q)
CallSteal(p) == \E q \in Queues : p \in MaySteal[q] /\ StealBegin(p, q)

Inside(p) == Push(p) \/ Pop(p) \/ Steal(p) \/ Run(p)

Next == \E p \in Threads :
          CallPush(p) \/ CallPop(p) \/ CallSteal(p) \/ Inside(p)

Spec == Init /\ [][Next]_vars

(* The system scheduler lets every thread go on with the operation it is   *)
(* in, and a worker's loop never stops calling Pop.  Nobody has to steal.  *)
Fairness ==
  \A p \in Threads : WF_vars(Inside(p)) /\ WF_vars(CallPop(p))

LiveSpec == Spec /\ Fairness

-----------------------------------------------------------------------------
(* Properties *)

(* Every variable stays in its type; a label says which locals are live.   *)
TypeOK ==
  /\ top \in [Queues -> Nat]
  /\ bottom \in [Queues -> Int]
  /\ cell \in [Queues -> [Cells -> Word]]
  /\ submitted \in SUBSET Items
  /\ runs \in [Items -> Nat]
  /\ pc \in [Threads -> Label]
  /\ on \in [Threads -> Queues]
  /\ locB \in [Threads -> Int]
  /\ locT \in [Threads -> Int]
  /\ fn \in [Threads -> Word]
  /\ arg \in [Threads -> Word]

Holds(p, x) == pc[p] = "run" /\ fn[p] = FnWord(x)

(* What Push, Pop or Steal hands to a thread to run is one submitted task  *)
(* with its own payload: the two plain slot accesses of ThreadContext.cpp  *)
(* never mix two entries, nor read an entry that is being overwritten.     *)
HandedOutWhole ==
  \A p \in Threads : pc[p] = "run" =>
    \E x \in submitted : fn[p] = FnWord(x) /\ arg[p] = ArgWord(x)

(* A task is taken by one thread and run once, whatever Pop and Steal do   *)
(* to the last entry at the same time.                                     *)
AtMostOnce ==
  \A x \in Items : runs[x] + Cardinality({p \in Threads : Holds(p, x)}) <= 1

(* When no operation is under way and every queue reads as empty, every    *)
(* submitted task has been run: an index never moves past an entry.        *)
NothingLost ==
  (/\ \A p \in Threads : pc[p] \in Ready
   /\ \A q \in Queues : top[q] >= bottom[q])
     => \A x \in submitted : runs[x] >= 1

PastTest == {"steal_fn", "steal_arg", "steal_cas"}

(* A thread that reads slots with no CAS to come: Pop found t < b.         *)
Claims(p) == pc[p] \in {"pop_fn", "pop_arg"} /\ locT[p] < locB[p]

(* The entry a Pop takes without a CAS cannot be stolen: top has not moved *)
(* past it and no Steal that has passed its emptiness test aims at it.     *)
ClaimedEntryIsSafe ==
  \A p \in Threads : Claims(p) =>
    /\ top[on[p]] <= locB[p]
    /\ \A s \in Threads :
         (pc[s] \in PastTest /\ on[s] = on[p])
           => locT[s] < locB[p]

(* Which indices the threads hold while only one thread pushes and pops    *)
(* each queue: the inductive invariant that ClaimedEntryIsSafe follows     *)
(* from.                                                                   *)
PopWindow == {"pop_top", "pop_fn", "pop_arg", "pop_cas", "pop_won", "pop_lost"}
InWindow(q) == \E p \in Threads : on[p] = q /\ pc[p] \in PopWindow

(* Only the owner of a queue is inside Push or Pop on it.                  *)
OwnerInside ==
  \A p \in Threads : pc[p] \in PushLabel \cup PopLabel
                       => p \in MayPush[on[p]] \cup MayPop[on[p]]

(* The owner's local b tells where bottom is.                              *)
OwnerKnowsBottom ==
  \A p \in Threads :
    /\ pc[p] \in PushLabel => locB[p] = bottom[on[p]]
    /\ pc[p] = "pop_store" => locB[p] = bottom[on[p]] - 1
    /\ pc[p] \in PopWindow => locB[p] = bottom[on[p]]
    /\ pc[p] \in {"pop_fn", "pop_arg"} => locT[p] <= locB[p]
    /\ pc[p] = "pop_cas" => locT[p] = locB[p]

(* top never passes bottom, except by one while a Pop is undecided.        *)
TopBehindBottom ==
  \A q \in Queues : top[q] <= bottom[q] + (IF InWindow(q) THEN 1 ELSE 0)

(* A Steal's t is no later than top; if its CAS can still succeed, the     *)
(* entry is queued or the one an undecided Pop contends for.               *)
StealAimsAtEntry ==
  \A q \in Queues, s \in Threads :
    (pc[s] \in StealLabel /\ on[s] = q) =>
      /\ locT[s] <= top[q]
      /\ (pc[s] \in PastTest /\ locT[s] = top[q])
            => \/ top[q] < bottom[q]
               \/ InWindow(q) /\ top[q] = bottom[q]

IndexInv ==
  /\ OwnerInside
  /\ OwnerKnowsBottom
  /\ TopBehindBottom
  /\ StealAimsAtEntry
  /\ ClaimedEntryIsSafe

(* A queue that its client lets fill up holds at most one entry more than  *)
(* it has slots; what Pop takes off and puts back never adds to that.      *)
QueueBounded == \A q \in Queues : bottom[q] - top[q] <= QueueSize + 1

(* Every task that is submitted is run in the end.                         *)
EveryTaskRuns == \A x \in Items : x \in submitted ~> runs[x] >= 1

(* "Execute immediately if the queue is full": an entry is written only    *)
(* while fewer than QueueSize are queued.                                  *)
FullQueueRunsAtOnce ==
  [][\A p \in Threads :
       (pc[p] = "push_top" /\ pc'[p] = "push_fn")
         => locB[p] - top[on[p]] < QueueSize]_vars

-----------------------------------------------------------------------------
(* What the queue promises: a bag of tasks (TaskBag).  A task is in the    *)
(* bag from the store that publishes it until a call returns it.           *)
BeingPushed(x) == \E p \in Threads : pc[p] \in PushLabel /\ fn[p] = FnWord(x)

Bag == INSTANCE TaskBag WITH
         bag <- {x \in submitted :
                   /\ ~ BeingPushed(x)
                   /\ runs[x] = 0
                   /\ \A p \in Threads : ~ Holds(p, x)},
         held <- [p \in Threads |->
                    IF pc[p] = "run" THEN <<fn[p], arg[p]>> ELSE <<NULL, NULL>>],
         started <- {x \in submitted : ~ BeingPushed(x)}

ImplementsBag == Bag!Spec
ImplementsFairBag == Bag!LiveSpec

=============================================================================
