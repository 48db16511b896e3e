-------------------------- MODULE TaskQueueProofs --------------------------
(***************************************************************************)
(* Theorems about TaskQueue, for every number of queues, threads and tasks *)
(* and every queue size.                                                   *)
(***************************************************************************)
EXTENDS TaskQueue, TLAPS

(* The tests and values of single steps are always looked into.            *)
USE DEF LastEntry, Compared, Exchanged, Restored, FoundEmpty

(* The slot of an index is a cell of the task array and of the payload     *)
(* array, inside the memory that InitializeQueue commits.                  *)
LEMMA CellsInRange ==
  ASSUME NEW i \in Int
  PROVE  FnCell(i) \in Cells /\ ArgCell(i) \in Cells
<1>1. i % QueueSize \in 0 .. QueueSize - 1
  BY QueueAssumption
<1>2. QueueSize \div PtrSize \in Nat
  BY QueueAssumption
<1>3. QED
  BY <1>1, <1>2, QueueAssumption DEF FnCell, ArgCell, Cells

(* The types hold at the start, and every step preserves them.             *)
LEMMA TypeInit == Init => TypeOK
BY QueueAssumption DEF Init, TypeOK, Label, Ready, Word

(* Every access of Push, Pop and Steal keeps the types.                    *)
LEMMA TypeStep ==
  ASSUME TypeOK, [Next]_vars
  PROVE  TypeOK'
<1> USE DEF TypeOK, memory, history, locals, Goto, Leave, Discard,
            Label, Ready, PushLabel, PopLabel, StealLabel
<1>a. \A x \in Items : FnWord(x) \in Word /\ ArgWord(x) \in Word
  BY DEF Word, FnWord, ArgWord
<1>b. NULL \in Word
  BY DEF Word
<1>1. ASSUME NEW p \in Threads, NEW q \in Queues, NEW x \in Items, PushBegin(p, q, x)
      PROVE  TypeOK'
  BY <1>1, <1>a DEF PushBegin
<1>2. ASSUME NEW p \in Threads, NEW q \in Queues, PopBegin(p, q)
      PROVE  TypeOK'
  BY <1>2 DEF PopBegin
<1>3. ASSUME NEW p \in Threads, NEW q \in Queues, StealBegin(p, q)
      PROVE  TypeOK'
  BY <1>3 DEF StealBegin
<1>4. ASSUME NEW p \in Threads, PushTop(p)
      PROVE  TypeOK'
  BY <1>4 DEF PushTop
<1>5. ASSUME NEW p \in Threads, PushFn(p)
      PROVE  TypeOK'
  BY <1>5 DEF PushFn
<1>6. ASSUME NEW p \in Threads, PushArg(p)
      PROVE  TypeOK'
  BY <1>6 DEF PushArg
<1>7. ASSUME NEW p \in Threads, PushBottom(p)
      PROVE  TypeOK'
  BY <1>7, <1>b DEF PushBottom
<1>8. ASSUME NEW p \in Threads, PopStore(p)
      PROVE  TypeOK'
  BY <1>8 DEF PopStore
<1>9. ASSUME NEW p \in Threads, PopTop(p)
      PROVE  TypeOK'
  BY <1>9 DEF PopTop
<1>10. ASSUME NEW p \in Threads, PopFn(p)
      PROVE  TypeOK'
  BY <1>10, CellsInRange DEF PopFn
<1>11. ASSUME NEW p \in Threads, PopArg(p)
      PROVE  TypeOK'
  <2>1. cell[on[p]][ArgCell(locB[p])] \in Word
    BY CellsInRange
  <2>2. CASE locT[p] = locB[p]
    BY <1>11, <2>1, <2>2 DEF PopArg
  <2>3. CASE locT[p] # locB[p]
    BY <1>11, <2>1, <2>3 DEF PopArg
  <2>4. QED
    BY <2>2, <2>3
<1>12. ASSUME NEW p \in Threads, PopCas(p)
      PROVE  TypeOK'
  BY <1>12 DEF PopCas
<1>13. ASSUME NEW p \in Threads, PopWon(p)
      PROVE  TypeOK'
  BY <1>13 DEF PopWon
<1>14. ASSUME NEW p \in Threads, PopLost(p)
      PROVE  TypeOK'
  BY <1>14, <1>b DEF PopLost
<1>15. ASSUME NEW p \in Threads, StealBottom(p)
      PROVE  TypeOK'
  BY <1>15 DEF StealBottom
<1>16. ASSUME NEW p \in Threads, StealFn(p)
      PROVE  TypeOK'
  BY <1>16, CellsInRange DEF StealFn
<1>17. ASSUME NEW p \in Threads, StealArg(p)
      PROVE  TypeOK'
  BY <1>17, CellsInRange DEF StealArg
<1>18. ASSUME NEW p \in Threads, StealCas(p)
      PROVE  TypeOK'
  <2>1. top' \in [Queues -> Nat]
    BY <1>18 DEF StealCas
  <2>2. fn' \in [Threads -> Word] /\ arg' \in [Threads -> Word]
    <3>1. CASE UNCHANGED <<fn, arg>>
      BY <3>1
    <3>2. CASE Discard(p)
      BY <3>2, <1>b
    <3>3. QED
      BY <1>18, <3>1, <3>2 DEF StealCas
  <2>3. /\ pc' \in [Threads -> Label]
        /\ locB' \in [Threads -> Int]
        /\ locT' \in [Threads -> Int]
    <3>1. CASE Leave(p, "run")
      BY <3>1
    <3>2. CASE Leave(p, "empty")
      BY <3>2
    <3>3. QED
      BY <1>18, <3>1, <3>2 DEF StealCas
  <2>4. QED
    BY <1>18, <2>1, <2>2, <2>3 DEF StealCas
<1>19. ASSUME NEW p \in Threads, Run(p)
      PROVE  TypeOK'
  BY <1>19, <1>b DEF Run
<1>20. CASE UNCHANGED vars
  BY <1>20 DEF vars
<1>21. QED
  BY <1>1, <1>2, <1>3, <1>4, <1>5, <1>6, <1>7, <1>8, <1>9, <1>10, <1>11, <1>12, <1>13, <1>14, <1>15, <1>16, <1>17, <1>18, <1>19, <1>20
     DEF Next, CallPush, CallPop, CallSteal, Inside, Push, Pop, Steal

(* Whoever calls the operations, every variable keeps its type: none of    *)
(* them leaves its label set, moves an index off the integers or writes a  *)
(* non-word.                                                               *)
THEOREM TypeCorrect == Spec => []TypeOK
BY TypeInit, TypeStep, PTL DEF Spec

(* Each queue has one owner: a single thread pushes to it and pops from it. *)
SingleOwner ==
  \A q \in Queues : \A p, r \in MayPush[q] \cup MayPop[q] : p = r

(* Two threads inside Push or Pop on the same queue are one.                *)
OneInside ==
  \A p, r \in Threads :
    /\ pc[p] \in PushLabel \cup PopLabel
    /\ pc[r] \in PushLabel \cup PopLabel
    /\ on[p] = on[r]
    => p = r

(* With one owner to a queue, no two threads are inside its Push or Pop.   *)
LEMMA OwnersExclude ==
  ASSUME SingleOwner, TypeOK, OwnerInside
  PROVE  OneInside
BY DEF SingleOwner, OwnerInside, OneInside, TypeOK

-----------------------------------------------------------------------------
(* Only the stepping thread's place and locals change.                     *)
Alone(p) ==
  \A s \in Threads : s # p =>
    pc'[s] = pc[s] /\ on'[s] = on[s] /\ locB'[s] = locB[s] /\ locT'[s] = locT[s]

(* The window of an undecided Pop is the thread's own: a step inside it or *)
(* outside of it leaves the windows of all queues alone.                   *)
LEMMA WindowKept ==
  ASSUME NEW p \in Threads, Alone(p),
         pc[p] \in PopWindow <=> pc'[p] \in PopWindow,
         pc'[p] \in PopWindow => on'[p] = on[p],
         NEW q \in Queues
  PROVE  InWindow(q)' <=> InWindow(q)
BY DEF Alone, InWindow

(* Entering the window opens it for the thread's own queue only.           *)
LEMMA WindowOpens ==
  ASSUME TypeOK, OneInside, NEW p \in Threads, Alone(p), on'[p] = on[p],
         pc[p] = "pop_store", pc'[p] \in PopWindow, NEW q \in Queues
  PROVE  IF q = on[p] THEN ~ InWindow(q) /\ InWindow(q)'
                      ELSE InWindow(q)' <=> InWindow(q)
BY DEF Alone, InWindow, OneInside, PopWindow, PopLabel, TypeOK

(* Leaving it closes it, since no other thread is inside the queue.        *)
LEMMA WindowCloses ==
  ASSUME TypeOK, OneInside, NEW p \in Threads, Alone(p), on'[p] = on[p],
         pc[p] \in PopWindow, pc'[p] \notin PopWindow, NEW q \in Queues
  PROVE  IF q = on[p] THEN InWindow(q) /\ ~ InWindow(q)'
                      ELSE InWindow(q)' <=> InWindow(q)
BY DEF Alone, InWindow, OneInside, PopWindow, PopLabel, TypeOK

(* Where the owner's own entries end: while a Pop is undecided, bottom is  *)
(* one below.  top never passes that, and a Steal whose CAS can still      *)
(* succeed aims below it.                                                  *)
Limit(q) == bottom[q] + (IF InWindow(q) THEN 1 ELSE 0)

BehindLimit == \A q \in Queues : top[q] <= Limit(q)
AimsBelowLimit ==
  \A q \in Queues, s \in Threads : pc[s] \in StealLabel /\ on[s] = q =>
    /\ locT[s] <= top[q]
    /\ pc[s] \in PastTest /\ locT[s] = top[q] => top[q] < Limit(q)

(* Two of the invariants in terms of where the entries of a queue end.     *)
LEMMA LimitForm ==
  ASSUME TypeOK, TypeOK'
  PROVE  /\ TopBehindBottom <=> BehindLimit
         /\ StealAimsAtEntry <=> AimsBelowLimit
         /\ TopBehindBottom' <=> BehindLimit'
         /\ StealAimsAtEntry' <=> AimsBelowLimit'
<1>1. \A q \in Queues : /\ top[q] \in Int /\ bottom[q] \in Int
                        /\ top'[q] \in Int /\ bottom'[q] \in Int
  BY DEF TypeOK
<1>2. ASSUME NEW q \in Queues
      PROVE  top[q] < Limit(q) <=> top[q] < bottom[q] \/ (InWindow(q) /\ top[q] = bottom[q])
  <2>1. CASE InWindow(q)
    BY <1>1, <2>1 DEF Limit
  <2>2. CASE ~ InWindow(q)
    BY <1>1, <2>2 DEF Limit
  <2>3. QED
    BY <2>1, <2>2
<1>a. ASSUME NEW q \in Queues
      PROVE  top'[q] < Limit(q)' <=> top'[q] < bottom'[q] \/ (InWindow(q)' /\ top'[q] = bottom'[q])
  <2>1. CASE InWindow(q)'
    BY <1>1, <2>1 DEF Limit
  <2>2. CASE ~ InWindow(q)'
    BY <1>1, <2>2 DEF Limit
  <2>3. QED
    BY <2>1, <2>2
<1>3. TopBehindBottom <=> BehindLimit
  BY DEF TopBehindBottom, BehindLimit, Limit
<1>4. TopBehindBottom' <=> BehindLimit'
  BY DEF TopBehindBottom, BehindLimit, Limit
<1>5. StealAimsAtEntry <=> AimsBelowLimit
  BY <1>2 DEF StealAimsAtEntry, AimsBelowLimit
<1>6. StealAimsAtEntry' <=> AimsBelowLimit'
  BY <1>a DEF StealAimsAtEntry, AimsBelowLimit
<1>7. QED
  BY <1>3, <1>4, <1>5, <1>6

(* What the stepping thread itself must know, and all that the others do.  *)
Knows(p) ==
  /\ pc[p] \in PushLabel => locB[p] = bottom[on[p]]
  /\ pc[p] = "pop_store" => locB[p] = bottom[on[p]] - 1
  /\ pc[p] \in PopWindow => locB[p] = bottom[on[p]]
  /\ pc[p] \in {"pop_fn", "pop_arg"} => locT[p] <= locB[p]
  /\ pc[p] = "pop_cas" => locT[p] = locB[p]

(* A step of one thread leaves what the other owners know of bottom true.  *)
LEMMA OthersKnow ==
  ASSUME TypeOK, OneInside, OwnerKnowsBottom, NEW p \in Threads, Alone(p), Knows(p)',
         \A q \in Queues : bottom'[q] # bottom[q] =>
           q = on[p] /\ pc[p] \in PushLabel \cup PopLabel
  PROVE  OwnerKnowsBottom'
<1> SUFFICES ASSUME NEW s \in Threads, s # p PROVE Knows(s)'
  BY DEF OwnerKnowsBottom, Knows
<1>1. Knows(s) /\ on[s] \in Queues
  BY DEF OwnerKnowsBottom, Knows, TypeOK
<1>2. pc'[s] = pc[s] /\ on'[s] = on[s] /\ locB'[s] = locB[s] /\ locT'[s] = locT[s]
  BY DEF Alone
<1>3. pc[s] \in PushLabel \cup PopLabel => bottom'[on[s]] = bottom[on[s]]
  BY <1>1 DEF OneInside
<1>4. QED
  BY <1>1, <1>2, <1>3 DEF Knows, PopWindow, PopLabel, PushLabel

-----------------------------------------------------------------------------
(* Steps that move neither top nor bottom nor a window.                    *)
StillStep(p) ==
  \/ \E q \in Queues : \/ p \in MayPush[q] /\ \E x \in Items : PushBegin(p, q, x)
                       \/ p \in MayPop[q] /\ PopBegin(p, q)
                       \/ p \in MaySteal[q] /\ StealBegin(p, q)
  \/ PushTop(p) \/ PushFn(p) \/ PushArg(p)
  \/ PopTop(p) \/ PopFn(p) \/ (PopArg(p) /\ LastEntry(p)) \/ (PopCas(p) /\ ~ Compared(p))
  \/ StealBottom(p) \/ StealFn(p) \/ StealArg(p) \/ (StealCas(p) /\ ~ Compared(p))
  \/ Run(p)

(* They change only the thread's own place and locals.                     *)
LEMMA StillFrame ==
  ASSUME TypeOK, NEW p \in Threads, StillStep(p)
  PROVE  /\ Alone(p) /\ UNCHANGED <<top, bottom>>
         /\ pc[p] \in PopWindow <=> pc'[p] \in PopWindow
         /\ pc'[p] \in PopWindow => on'[p] = on[p]
BY DEF StillStep, TypeOK, memory, Goto, Leave, Alone, Ready, PopWindow, PushBegin, PushTop, PushFn,
       PushArg, PopBegin, PopTop, PopFn, PopArg, PopCas, StealBegin, StealBottom, StealFn,
       StealArg, StealCas, Run

(* What the thread learns by such a step is where the indices are.         *)
LEMMA StillKeepsIndices ==
  ASSUME OneInside, TypeOK, TypeOK', IndexInv, NEW p \in Threads, StillStep(p)
  PROVE  IndexInv'
<1> USE DEF IndexInv
<1>1. /\ Alone(p) /\ top' = top /\ bottom' = bottom
      /\ \A q \in Queues : Limit(q)' = Limit(q)
  BY StillFrame, WindowKept DEF Limit
<1>2. BehindLimit /\ AimsBelowLimit
  BY LimitForm
<1>4. \A s \in Threads : on[s] \in Queues /\ on'[s] \in Queues
  BY DEF TypeOK
<1>5. OwnerInside'
  <2>1. pc'[p] \in PushLabel \cup PopLabel => p \in MayPush[on'[p]] \cup MayPop[on'[p]]
    BY DEF StillStep, OwnerInside, TypeOK, Goto, Leave, Ready, PushLabel, PopLabel, PushBegin,
           PushTop, PushFn, PushArg, PopBegin, PopTop, PopFn, PopArg, PopCas, StealBegin,
           StealBottom, StealFn, StealArg, StealCas, Run
  <2>2. QED
    BY <1>1, <2>1 DEF OwnerInside, Alone
<1>6. OwnerKnowsBottom'
  <2>1. Knows(p)'
    BY <1>1 DEF StillStep, OwnerKnowsBottom, Knows, TypeOK, Goto, Leave, Ready, PushLabel,
           PopWindow, PushBegin, PushTop, PushFn, PushArg, PopBegin, PopTop, PopFn, PopArg,
           PopCas, StealBegin, StealBottom, StealFn, StealArg, StealCas, Run
  <2>2. QED
    BY <1>1, <2>1, OthersKnow
<1>7. BehindLimit'
  BY <1>1, <1>2 DEF BehindLimit

(* A Steal begins at top, and goes on only below bottom.                   *)
<1>8. AimsBelowLimit'
  <2>1. \A q \in Queues : bottom[q] <= Limit(q) /\ bottom[q] \in Int /\ Limit(q) \in Int
    BY DEF Limit, TypeOK
  <2>2. ASSUME pc'[p] \in StealLabel
        PROVE  /\ locT'[p] <= top[on'[p]]
               /\ pc'[p] \in PastTest /\ locT'[p] = top[on'[p]] => top[on'[p]] < Limit(on'[p])
    <3>1. \/ pc'[p] = "steal_bottom" /\ locT'[p] = top[on'[p]]
          \/ /\ pc[p] = "steal_bottom" /\ pc'[p] = "steal_fn" /\ on'[p] = on[p]
             /\ locT'[p] = locT[p] /\ locT[p] < bottom[on[p]]
          \/ pc[p] \in PastTest /\ pc'[p] \in PastTest /\ on'[p] = on[p] /\ locT'[p] = locT[p]
      BY <2>2 DEF StillStep, TypeOK, Goto, Leave, Ready, StealLabel, PastTest, PushBegin, PushTop,
                  PushFn, PushArg, PopBegin, PopTop, PopFn, PopArg, PopCas, StealBegin,
                  StealBottom, StealFn, StealArg, StealCas, Run
    <3>2. locT[p] \in Int /\ top[on[p]] \in Int /\ top[on'[p]] \in Int
      BY <1>4 DEF TypeOK
    <3>3. QED
      BY <1>2, <1>4, <2>1, <3>1, <3>2 DEF AimsBelowLimit, StealLabel, PastTest
  <2>3. QED
    BY <1>1, <1>2, <1>4, <2>2 DEF AimsBelowLimit, Alone
<1>9. ClaimedEntryIsSafe'
  <2> SUFFICES ASSUME NEW c \in Threads, Claims(c)'
               PROVE  /\ top[on'[c]] <= locB'[c]
                      /\ \A s \in Threads : pc'[s] \in PastTest /\ on'[s] = on'[c]
                                              => locT'[s] < locB'[c]
    BY <1>1 DEF ClaimedEntryIsSafe
  <2>1. ASSUME c # p \/ pc[c] # "pop_top"
        PROVE  Claims(c) /\ on'[c] = on[c] /\ locB'[c] = locB[c]
    <3>1. CASE c # p
      BY <1>1, <3>1 DEF Alone, Claims
    <3>2. CASE c = p
      BY <2>1, <3>2 DEF Claims, StillStep, TypeOK, Goto, Leave, PushBegin, PushTop, PushFn, PushArg,
             PopBegin, PopTop, PopFn, PopArg, PopCas, StealBegin, StealBottom, StealFn,
             StealArg, StealCas, Run
    <3>3. QED
      BY <3>1, <3>2
  <2>2. CASE c = p /\ pc[c] = "pop_top"
    <3>1. on'[p] = on[p] /\ locB'[p] = locB[p] /\ top[on[p]] < locB[p]
      BY <2>2 DEF Claims, StillStep, TypeOK, Ready, PushBegin, PushTop, PushFn, PushArg, PopBegin,
                  PopTop, Goto, PopFn, PopArg, PopCas, StealBegin, StealBottom, StealFn, StealArg,
                  StealCas, Run
    <3>2. \A s \in Threads : pc'[s] \in PastTest /\ on'[s] = on[p]
                               => locT'[s] <= top[on[p]] /\ locT'[s] \in Int
      BY <1>1, <1>8 DEF AimsBelowLimit, PastTest, StealLabel, TypeOK
    <3>3. top[on[p]] \in Int /\ locB[p] \in Int
      BY DEF TypeOK
    <3>4. QED
      BY <2>2, <3>1, <3>2, <3>3
  <2>3. CASE c # p \/ pc[c] # "pop_top"
    <3>1. top[on[c]] <= locB[c]
      BY <2>1, <2>3 DEF ClaimedEntryIsSafe
    <3>2. ASSUME NEW s \in Threads, pc'[s] \in PastTest, on'[s] = on[c]
          PROVE  locT'[s] < locB[c]
      <4>1. CASE pc[s] \in PastTest /\ on[s] = on'[s] /\ locT[s] = locT'[s]
        BY <2>1, <2>3, <3>2, <4>1 DEF ClaimedEntryIsSafe
      <4>2. CASE s = p /\ pc[s] = "steal_bottom"
        <5>1. locT'[p] < bottom[on[p]] /\ on'[p] = on[p]
          BY <3>2, <4>2 DEF StillStep, TypeOK, Goto, Leave, Ready, PastTest, PushBegin, PushTop,
                            PushFn, PushArg, PopBegin, PopTop, PopFn, PopArg, PopCas, StealBegin,
                            StealBottom, StealFn, StealArg, StealCas, Run
        <5>2. locB[c] = bottom[on[c]]
          BY <2>1, <2>3 DEF Claims, OwnerKnowsBottom, PopWindow
        <5>3. QED
          BY <3>2, <4>2, <5>1, <5>2
      <4>3. ASSUME s = p, pc[s] # "steal_bottom"
            PROVE  pc[s] \in PastTest /\ on[s] = on'[s] /\ locT[s] = locT'[s]
        BY <3>2, <4>3 DEF StillStep, TypeOK, Goto, Leave, Ready, PastTest, PushBegin, PushTop,
                          PushFn, PushArg, PopBegin, PopTop, PopFn, PopArg, PopCas, StealBegin,
                          StealBottom, StealFn, StealArg, StealCas, Run
      <4>4. QED
        BY <1>1, <3>2, <4>1, <4>2, <4>3 DEF Alone
    <3>3. QED
      BY <2>1, <2>3, <3>1, <3>2
  <2>4. QED
    BY <2>2, <2>3
<1>10. QED
  BY <1>5, <1>6, <1>7, <1>8, <1>9, LimitForm

-----------------------------------------------------------------------------
(* The store of bottom: Push moves it past the new entry; Pop takes it     *)
(* back as the window opens and forward as it closes, so that the owner's  *)
(* entries end where they did.                                             *)
StoreStep(p) == PushBottom(p) \/ PopStore(p) \/ PopWon(p) \/ PopLost(p)

(* The stores of bottom in Push and Pop keep the indices in step.          *)
LEMMA StoreKeepsIndices ==
  ASSUME OneInside, TypeOK, TypeOK', IndexInv, NEW p \in Threads, StoreStep(p)
  PROVE  IndexInv'
<1> USE DEF IndexInv
<1>1. /\ Alone(p) /\ on' = on /\ top' = top
      /\ on[p] \in Queues /\ \A q \in Queues : q # on[p] => bottom'[q] = bottom[q]
      /\ pc[p] \in PushLabel \cup PopLabel
  BY DEF StoreStep, TypeOK, Goto, Leave, Alone, PushLabel, PopLabel, PushBottom, PopStore, PopWon,
         PopLost
<1>2. BehindLimit /\ AimsBelowLimit
  BY LimitForm
<1>3. \A q \in Queues : bottom[q] \in Int /\ top[q] \in Int
  BY DEF TypeOK
<1>4. \A q \in Queues : Limit(q)' = Limit(q) \/ (Limit(q)' = Limit(q) + 1)
  <2> SUFFICES ASSUME NEW q \in Queues
               PROVE  Limit(q)' = Limit(q) \/ (Limit(q)' = Limit(q) + 1)
    OBVIOUS
  <2>1. CASE PushBottom(p)
    <3>1. InWindow(q)' <=> InWindow(q)
      BY <1>1, <2>1, WindowKept DEF PushBottom, TypeOK, Leave, Goto, PopWindow
    <3>2. bottom'[on[p]] = bottom[on[p]] + 1
      BY <2>1 DEF PushBottom, OwnerKnowsBottom, PushLabel, TypeOK
    <3>3. QED
      BY <1>1, <1>3, <3>1, <3>2 DEF Limit
  <2>2. CASE PopStore(p)
    <3>1. IF q = on[p] THEN ~ InWindow(q) /\ InWindow(q)' ELSE InWindow(q)' <=> InWindow(q)
      BY <1>1, <2>2, WindowOpens DEF PopStore, TypeOK, Goto, PopWindow
    <3>2. bottom'[on[p]] = bottom[on[p]] - 1
      BY <2>2 DEF PopStore, OwnerKnowsBottom, TypeOK
    <3>3. QED
      BY <1>1, <1>3, <3>1, <3>2 DEF Limit
  <2>3. CASE PopWon(p) \/ PopLost(p)
    <3>a. pc[p] \in PopWindow /\ pc'[p] \notin PopWindow
      BY <2>3 DEF PopWon, PopLost, TypeOK, Leave, Goto, PopWindow
    <3>1. IF q = on[p] THEN InWindow(q) /\ ~ InWindow(q)' ELSE InWindow(q)' <=> InWindow(q)
      BY <1>1, <3>a, WindowCloses
    <3>2. bottom'[on[p]] = bottom[on[p]] + 1
      BY <2>3 DEF PopWon, PopLost, OwnerKnowsBottom, PopWindow, TypeOK
    <3>3. QED
      BY <1>1, <1>3, <3>1, <3>2 DEF Limit
  <2>4. QED
    BY <2>1, <2>2, <2>3 DEF StoreStep
<1>5. pc'[p] \notin StealLabel /\ ~ Claims(p)'
  BY DEF StoreStep, TypeOK, Goto, Leave, StealLabel, Claims, PushBottom, PopStore, PopWon, PopLost
<1>6. OwnerInside'
  <2>1. pc'[p] \in PushLabel \cup PopLabel => pc[p] \in PushLabel \cup PopLabel
    BY <1>1
  <2>2. QED
    BY <1>1, <2>1 DEF OwnerInside, Alone
<1>7. OwnerKnowsBottom'
  <2>1. Knows(p)'
    BY DEF StoreStep, OwnerKnowsBottom, Knows, TypeOK, Goto, Leave, PushLabel, PopWindow,
           PushBottom, PopStore, PopWon, PopLost
  <2>2. QED
    BY <1>1, <1>3, <2>1, OthersKnow
<1>8. BehindLimit'
  BY <1>1, <1>2, <1>3, <1>4 DEF BehindLimit, Limit
<1>9. AimsBelowLimit'
  <2> SUFFICES ASSUME NEW q \in Queues, NEW s \in Threads, s # p, pc[s] \in StealLabel, on[s] = q
               PROVE  /\ locT[s] <= top[q]
                      /\ pc[s] \in PastTest /\ locT[s] = top[q] => top[q] < Limit(q)'
    BY <1>1, <1>5 DEF AimsBelowLimit, Alone
  <2>1. Limit(q) \in Int
    BY <1>3 DEF Limit
  <2>2. QED
    BY <1>2, <1>3, <1>4, <2>1 DEF AimsBelowLimit
<1>10. ClaimedEntryIsSafe'
  BY <1>1, <1>5 DEF ClaimedEntryIsSafe, Claims, Alone, PastTest, StealLabel
<1>11. QED
  BY <1>6, <1>7, <1>8, <1>9, <1>10, LimitForm

(* Pop leaves with an entry that nobody contends for: bottom stays where   *)
(* it is as the window closes.                                             *)
LEMMA TakingKeepsIndices ==
  ASSUME OneInside, TypeOK, TypeOK', IndexInv, NEW p \in Threads, PopArg(p), ~ LastEntry(p)
  PROVE  IndexInv'
<1> USE DEF IndexInv
<1>1. /\ Alone(p) /\ on' = on /\ top' = top /\ bottom' = bottom
      /\ on[p] \in Queues /\ pc[p] = "pop_arg" /\ pc'[p] = "run"
  BY DEF PopArg, TypeOK, memory, Goto, Leave, Alone
<1>2. BehindLimit /\ AimsBelowLimit
  BY LimitForm
<1>3. \A q \in Queues : bottom[q] \in Int /\ top[q] \in Int
  BY DEF TypeOK
<1>4. /\ top[on[p]] <= bottom[on[p]]
      /\ \A s \in Threads : pc[s] \in PastTest /\ on[s] = on[p] => locT[s] < bottom[on[p]]
  <2>1. locB[p] = bottom[on[p]] /\ locT[p] <= locB[p] /\ locT[p] \in Int /\ locB[p] \in Int
    BY <1>1 DEF OwnerKnowsBottom, PopWindow, TypeOK
  <2>2. Claims(p)
    BY <1>1, <2>1 DEF Claims
  <2>3. QED
    BY <2>1, <2>2 DEF ClaimedEntryIsSafe
<1>5. \A q \in Queues : Limit(q)' = IF q = on[p] THEN bottom[q] ELSE Limit(q)
  <2> SUFFICES ASSUME NEW q \in Queues
               PROVE  Limit(q)' = IF q = on[p] THEN bottom[q] ELSE Limit(q)
    OBVIOUS
  <2>1. IF q = on[p] THEN InWindow(q) /\ ~ InWindow(q)' ELSE InWindow(q)' <=> InWindow(q)
    BY <1>1, WindowCloses DEF PopWindow
  <2>2. QED
    BY <1>1, <1>3, <2>1 DEF Limit
<1>6. OwnerInside'
  BY <1>1 DEF OwnerInside, Alone, PushLabel, PopLabel
<1>7. OwnerKnowsBottom'
  <2>1. Knows(p)'
    BY <1>1 DEF Knows, PushLabel, PopWindow
  <2>2. QED
    BY <1>1, <2>1, OthersKnow
<1>8. BehindLimit'
  BY <1>1, <1>2, <1>4, <1>5 DEF BehindLimit
<1>9. AimsBelowLimit'
  <2> SUFFICES ASSUME NEW q \in Queues, NEW s \in Threads, s # p, pc[s] \in StealLabel, on[s] = q
               PROVE  /\ locT[s] <= top[q]
                      /\ pc[s] \in PastTest /\ locT[s] = top[q] => top[q] < Limit(q)'
    BY <1>1 DEF AimsBelowLimit, Alone, StealLabel
  <2>1. QED
    BY <1>2, <1>4, <1>5 DEF AimsBelowLimit
<1>10. ClaimedEntryIsSafe'
  BY <1>1 DEF ClaimedEntryIsSafe, Claims, Alone, PastTest
<1>11. QED
  BY <1>6, <1>7, <1>8, <1>9, <1>10, LimitForm

(* A successful exchange moves top by one, below where the entries end.    *)
LEMMA ExchangeKeepsIndices ==
  ASSUME OneInside, TypeOK, TypeOK', IndexInv,
         NEW p \in Threads, PopCas(p) \/ StealCas(p), Compared(p)
  PROVE  IndexInv'
<1> USE DEF IndexInv
<1>1. /\ Alone(p) /\ on' = on /\ bottom' = bottom /\ on[p] \in Queues
      /\ top \in [Queues -> Nat] /\ top' = [top EXCEPT ![on[p]] = top[on[p]] + 1]
      /\ locT[p] = top[on[p]]
      /\ \/ pc[p] = "pop_cas" /\ pc'[p] = "pop_won" /\ locB'[p] = locB[p]
         \/ pc[p] = "steal_cas" /\ pc'[p] = "run"
  BY DEF PopCas, StealCas, TypeOK, Goto, Leave, Alone
<1>2. BehindLimit /\ AimsBelowLimit
  BY LimitForm
<1>3. \A q \in Queues : /\ bottom[q] \in Int /\ top[q] \in Int /\ Limit(q) \in Int
                        /\ top[q] <= top'[q] /\ top'[q] \in Int
  BY <1>1 DEF TypeOK, Limit
<1>4. \A q \in Queues : Limit(q)' = Limit(q)
  BY <1>1, WindowKept DEF Limit, PopWindow
<1>5. top[on[p]] < Limit(on[p])
  <2>1. CASE pc[p] = "pop_cas"
    <3>1. locT[p] = locB[p] /\ locB[p] = bottom[on[p]]
      BY <2>1 DEF OwnerKnowsBottom, PopWindow
    <3>2. InWindow(on[p])
      BY <2>1 DEF InWindow, PopWindow
    <3>3. QED
      BY <1>1, <1>3, <3>1, <3>2 DEF Limit
  <2>2. CASE pc[p] = "steal_cas"
    BY <1>1, <1>2, <2>2 DEF AimsBelowLimit, StealLabel, PastTest
  <2>3. QED
    BY <1>1, <2>1, <2>2
<1>6. OwnerInside'
  BY <1>1 DEF OwnerInside, Alone, PushLabel, PopLabel
<1>7. OwnerKnowsBottom'
  <2>1. Knows(p)'
    BY <1>1 DEF OwnerKnowsBottom, Knows, PushLabel, PopWindow
  <2>2. QED
    BY <1>1, <2>1, OthersKnow
<1>8. BehindLimit'
  BY <1>1, <1>2, <1>3, <1>4, <1>5 DEF BehindLimit
<1>9. AimsBelowLimit'
  <2> SUFFICES ASSUME NEW q \in Queues, NEW s \in Threads, s # p, pc[s] \in StealLabel, on[s] = q
               PROVE  /\ locT[s] <= top'[q]
                      /\ pc[s] \in PastTest /\ locT[s] = top'[q] => top'[q] < Limit(q)
    BY <1>1, <1>4 DEF AimsBelowLimit, Alone, StealLabel
  <2>1. locT[s] \in Int /\ locT[s] <= top[q]
    BY <1>2 DEF AimsBelowLimit, TypeOK
  <2>2. CASE q = on[p]
    BY <1>1, <1>3, <2>1, <2>2
  <2>3. CASE q # on[p]
    BY <1>1, <1>2, <1>3, <2>1, <2>3 DEF AimsBelowLimit
  <2>4. QED
    BY <2>2, <2>3

(* An entry that a Pop has claimed is not the first while a thief that has *)
(* passed its test aims at the first; another Pop cannot be on the queue.  *)
<1>10. ClaimedEntryIsSafe'
  <2> SUFFICES ASSUME NEW c \in Threads, c # p, Claims(c)
               PROVE  /\ top'[on[c]] <= locB[c]
                      /\ \A s \in Threads : pc'[s] \in PastTest /\ on[s] = on[c] => locT'[s] < locB[c]
    BY <1>1 DEF ClaimedEntryIsSafe, Claims, Alone
  <2>1. /\ top[on[c]] <= locB[c] /\ on[c] \in Queues /\ locB[c] \in Int
        /\ \A s \in Threads : pc[s] \in PastTest /\ on[s] = on[c] => locT[s] < locB[c]
    BY DEF ClaimedEntryIsSafe, TypeOK
  <2>2. on[c] = on[p] => top[on[p]] < locB[c]
    BY <1>1, <2>1 DEF OneInside, Claims, PopLabel, PastTest
  <2>3. top'[on[c]] <= locB[c]
    BY <1>1, <1>3, <2>1, <2>2
  <2>4. QED
    BY <1>1, <2>1, <2>3 DEF Alone, PastTest
<1>11. QED
  BY <1>6, <1>7, <1>8, <1>9, <1>10, LimitForm

(* Every step is of one of these kinds.                                    *)
LEMMA StepKinds ==
  ASSUME [Next]_vars
  PROVE  \/ \E p \in Threads : \/ StillStep(p)
                              \/ StoreStep(p)
                              \/ (PopArg(p) /\ ~ LastEntry(p))
                              \/ ((PopCas(p) \/ StealCas(p)) /\ Compared(p))
         \/ UNCHANGED vars
<1> HIDE DEF LastEntry, Compared
<1>1. ASSUME NEW p \in Threads, CallPush(p) \/ CallPop(p) \/ CallSteal(p)
      PROVE  StillStep(p)
  BY <1>1 DEF CallPush, CallPop, CallSteal, StillStep
<1>2. ASSUME NEW p \in Threads, Inside(p)
      PROVE  \/ StillStep(p)
             \/ StoreStep(p)
             \/ (PopArg(p) /\ ~ LastEntry(p))
             \/ ((PopCas(p) \/ StealCas(p)) /\ Compared(p))
  <2>1. CASE Push(p)
    BY <2>1 DEF Push, StillStep, StoreStep
  <2>2. CASE Pop(p)
    BY <2>2 DEF Pop, StillStep, StoreStep
  <2>3. CASE Steal(p) \/ Run(p)
    BY <2>3 DEF Steal, StillStep
  <2>4. QED
    BY <1>2, <2>1, <2>2, <2>3 DEF Inside
<1>3. ASSUME NEW p \in Threads, CallPush(p) \/ CallPop(p) \/ CallSteal(p) \/ Inside(p)
      PROVE  \/ StillStep(p)
             \/ StoreStep(p)
             \/ (PopArg(p) /\ ~ LastEntry(p))
             \/ ((PopCas(p) \/ StealCas(p)) /\ Compared(p))
  BY <1>1, <1>2, <1>3
<1>4. CASE Next
  <2>1. PICK p \in Threads : CallPush(p) \/ CallPop(p) \/ CallSteal(p) \/ Inside(p)
    BY <1>4 DEF Next
  <2>2. QED
    BY <1>3, <2>1
<1>5. CASE UNCHANGED vars
  BY <1>5
<1>6. QED
  BY <1>4, <1>5

(* Every step keeps the indices in place, if no two threads are inside Push *)
(* or Pop of one queue.                                                     *)
LEMMA IndexInvInductive ==
  ASSUME OneInside, TypeOK, IndexInv, [Next]_vars
  PROVE  IndexInv'
<1>1. TypeOK'
  BY TypeStep
<1>2. ASSUME NEW p \in Threads, StillStep(p)
      PROVE  IndexInv'
  BY <1>1, <1>2, StillKeepsIndices
<1>3. ASSUME NEW p \in Threads, StoreStep(p)
      PROVE  IndexInv'
  BY <1>1, <1>3, StoreKeepsIndices
<1>4. ASSUME NEW p \in Threads, PopArg(p), ~ LastEntry(p)
      PROVE  IndexInv'
  BY <1>1, <1>4, TakingKeepsIndices
<1>5. ASSUME NEW p \in Threads, PopCas(p) \/ StealCas(p), Compared(p)
      PROVE  IndexInv'
  BY <1>1, <1>5, ExchangeKeepsIndices
<1>6. CASE UNCHANGED vars
  BY <1>6 DEF vars, memory, history, locals, IndexInv, OwnerInside, OwnerKnowsBottom,
              TopBehindBottom, StealAimsAtEntry, ClaimedEntryIsSafe, InWindow, Claims
<1>7. QED
  BY <1>2, <1>3, <1>4, <1>5, <1>6, StepKinds

(* At the start no thread is inside an operation.                          *)
LEMMA IndexInit == Init => IndexInv
BY DEF Init, IndexInv, OwnerInside, OwnerKnowsBottom, TopBehindBottom,
       StealAimsAtEntry, ClaimedEntryIsSafe, Claims, PushLabel, PopLabel,
       StealLabel, PopWindow, PastTest, Ready

(* While each queue has one owner, bottom is where the owner's local says, *)
(* top never passes it but by the entry being taken, and every Steal past  *)
(* its test aims at an entry below it.                                     *)
THEOREM IndicesAreSound ==
  ASSUME SingleOwner
  PROVE  Spec => []IndexInv
<1>1. TypeOK /\ IndexInv /\ [Next]_vars => IndexInv'
  BY IndexInvInductive, OwnersExclude DEF IndexInv
<1>2. QED
  BY <1>1, IndexInit, TypeCorrect, PTL DEF Spec

(* Pop needs no compare-and-swap when it finds t < b: no thief can reach   *)
(* that entry, whatever the number of queues, thieves and entries          *)
(* (TaskQueue_Pop's uncontended path).                                     *)
THEOREM UncontendedPopIsSafe ==
  ASSUME SingleOwner
  PROVE  Spec => []ClaimedEntryIsSafe
<1>1. IndexInv => ClaimedEntryIsSafe
  BY DEF IndexInv
<1>2. QED
  BY <1>1, IndicesAreSound, PTL

-----------------------------------------------------------------------------
(* What the callers of the queues can tell from where a thread is.         *)
Drained(q) == top[q] >= bottom[q]

(* A step inside an operation leaves the other threads where they are and  *)
(* takes this one on within the operation, or out of it.                   *)
LEMMA InsideFrame ==
  ASSUME TypeOK, NEW p \in Threads, Inside(p)
  PROVE  /\ Alone(p) /\ on' = on /\ submitted' = submitted /\ pc[p] \notin Ready
         /\ \A s \in Threads : s # p => fn'[s] = fn[s] /\ arg'[s] = arg[s]
         /\ pc[p] \in PushLabel => pc'[p] \in PushLabel \cup {"run", "idle"}
         /\ pc[p] \in PopLabel => pc'[p] \in PopLabel \cup {"run", "empty"}
         /\ pc[p] \in StealLabel => pc'[p] \in StealLabel \cup {"run", "empty"}
         /\ pc[p] = "run" => pc'[p] = "idle"
         /\ pc'[p] \in StealLabel => locT'[p] = locT[p]
         /\ pc[p] # "run" => runs' = runs
<1> USE DEF TypeOK, memory, history, Goto, Leave, Discard, Alone, Ready, PushLabel, PopLabel,
            StealLabel
<1>1. CASE Push(p)
  BY <1>1 DEF Push, PushTop, PushFn, PushArg, PushBottom
<1>2. CASE Pop(p)
  BY <1>2 DEF Pop, PopStore, PopTop, PopFn, PopArg, PopCas, PopWon, PopLost
<1>3. CASE Steal(p)
  BY <1>3 DEF Steal, StealBottom, StealFn, StealArg, StealCas
<1>4. CASE Run(p)
  BY <1>4 DEF Run
<1>5. QED
  BY <1>1, <1>2, <1>3, <1>4 DEF Inside

(* top has passed the entry that a Pop has won or lost, and is never       *)
(* behind what a Pop has read of it.                                       *)
PopOutcome ==
  \A p \in Threads :
    /\ pc[p] \in {"pop_fn", "pop_arg", "pop_cas"} => locT[p] <= top[on[p]]
    /\ pc[p] \in {"pop_won", "pop_lost"} => locB[p] < top[on[p]]

(* Every step of the queues keeps what Pop and Steal have found out true.  *)
LEMMA OutcomeInductive ==
  ASSUME TypeOK, IndexInv, PopOutcome, [Next]_vars
  PROVE  PopOutcome'
<1> USE DEF TypeOK, memory, Goto, Leave, Ready
<1>1. \A p \in Threads : on[p] \in Queues /\ top[on[p]] \in Int /\ locT[p] \in Int /\ locB[p] \in Int
  OBVIOUS

(* No step takes top back, so the other threads lose nothing.              *)
<1>2. ASSUME NEW p \in Threads, Alone(p), \A q \in Queues : top[q] <= top'[q] /\ top'[q] \in Int,
             /\ pc'[p] \in {"pop_fn", "pop_arg", "pop_cas"} => locT'[p] <= top'[on'[p]]
             /\ pc'[p] \in {"pop_won", "pop_lost"} => locB'[p] < top'[on'[p]]
      PROVE  PopOutcome'
  BY <1>1, <1>2 DEF PopOutcome, Alone
<1>3. ASSUME NEW p \in Threads, StillStep(p)
      PROVE  PopOutcome'
  <2>1. Alone(p) /\ top' = top
    BY <1>3, StillFrame
  <2>2. /\ pc'[p] \in {"pop_fn", "pop_arg", "pop_cas"} => locT'[p] <= top[on'[p]]
        /\ pc'[p] \in {"pop_won", "pop_lost"} => locB'[p] < top[on'[p]]
    <3>1. CASE PopTop(p)
      BY <3>1 DEF PopTop
    <3>2. CASE PopFn(p) \/ (PopArg(p) /\ LastEntry(p))
      BY <3>2 DEF PopFn, PopArg, PopOutcome
    <3>3. CASE PopCas(p) /\ ~ Compared(p)
      <4>1. /\ pc[p] = "pop_cas" /\ pc'[p] = "pop_lost" /\ top[on[p]] # locT[p]
            /\ on'[p] = on[p] /\ locB'[p] = locB[p]
        BY <3>3 DEF PopCas
      <4>2. locT[p] = locB[p] /\ locT[p] <= top[on[p]]
        BY <4>1 DEF IndexInv, OwnerKnowsBottom, PopOutcome
      <4>3. top[on[p]] \in Int /\ locB[p] \in Int /\ locT[p] \in Int
        BY <1>1
      <4>4. locB[p] < top[on[p]]
        <5> HIDE DEF TypeOK
        <5> QED
          BY <4>1, <4>2, <4>3
      <4>5. locB'[p] < top[on'[p]]
        BY <4>1, <4>4
      <4>6. QED
        BY <4>1, <4>5
    <3>4. ASSUME ~ PopTop(p), ~ (PopFn(p) \/ (PopArg(p) /\ LastEntry(p))),
                 ~ (PopCas(p) /\ ~ Compared(p))
          PROVE  pc'[p] \notin {"pop_fn", "pop_arg", "pop_cas", "pop_won", "pop_lost"}
      BY <1>3, <3>4 DEF StillStep, PushBegin, PushTop, PushFn, PushArg, PopBegin, StealBegin,
                        StealBottom, StealFn, StealArg, StealCas, Run
    <3>5. QED
      BY <3>1, <3>2, <3>3, <3>4
  <2>3. QED
    BY <1>2, <2>1, <2>2
<1>4. ASSUME NEW p \in Threads, StoreStep(p) \/ (PopArg(p) /\ ~ LastEntry(p))
      PROVE  PopOutcome'
  <2>1. /\ Alone(p) /\ top' = top
        /\ pc'[p] \notin {"pop_fn", "pop_arg", "pop_cas", "pop_won", "pop_lost"}
    BY <1>4 DEF StoreStep, Alone, PushBottom, PopStore, PopWon, PopLost, PopArg
  <2>2. QED
    BY <1>2, <2>1
<1>5. ASSUME NEW p \in Threads, PopCas(p) \/ StealCas(p), Compared(p)
      PROVE  PopOutcome'
  <2>1. /\ Alone(p) /\ top' = [top EXCEPT ![on[p]] = top[on[p]] + 1] /\ locT[p] = top[on[p]]
        /\ \/ pc[p] = "pop_cas" /\ pc'[p] = "pop_won" /\ on'[p] = on[p] /\ locB'[p] = locB[p]
           \/ pc'[p] = "run"
    BY <1>5 DEF PopCas, StealCas, Alone
  <2>2. pc[p] = "pop_cas" => locT[p] = locB[p]
    BY DEF IndexInv, OwnerKnowsBottom
  <2>3. \A q \in Queues : top[q] <= top'[q] /\ top'[q] \in Int
    BY <2>1
  <2>4. pc'[p] \in {"pop_won", "pop_lost"} => locB'[p] < top'[on'[p]]
    BY <1>1, <2>1, <2>2
  <2>5. pc'[p] \notin {"pop_fn", "pop_arg", "pop_cas"}
    BY <2>1
  <2>6. QED
    BY <1>2, <2>1, <2>3, <2>4, <2>5
<1>6. CASE UNCHANGED vars
  BY <1>6 DEF vars, locals, PopOutcome
<1>7. QED
  BY <1>3, <1>4, <1>5, <1>6, StepKinds

(* Unless a Push publishes an entry, those of a queue only go: an empty    *)
(* queue stays empty although an undecided Pop puts bottom back.           *)
LEMMA OnlyPushFills ==
  ASSUME TypeOK, OneInside, IndexInv, PopOutcome, [Next]_vars, NEW q \in Queues,
         \A p \in Threads : PushBottom(p) => on[p] # q
  PROVE  /\ top[q] <= top'[q] /\ Limit(q)' <= Limit(q)
         /\ Drained(q) => Drained(q)'
<1> DEFINE Goal == /\ top[q] <= top'[q] /\ Limit(q)' <= Limit(q)
                   /\ Drained(q) => Drained(q)'
<1>1. top[q] \in Nat /\ bottom[q] \in Int /\ Limit(q) \in Int
  BY DEF TypeOK, Limit
<1>2. ASSUME NEW p \in Threads, StillStep(p)
      PROVE  Goal
  <2>1. Limit(q)' = Limit(q) /\ top'[q] = top[q] /\ bottom'[q] = bottom[q]
    BY <1>2, StillFrame, WindowKept DEF Limit
  <2>2. QED
    BY <1>1, <2>1 DEF Drained
<1>3. ASSUME NEW p \in Threads, StoreStep(p)
      PROVE  Goal
  <2>1. Alone(p) /\ on' = on /\ top' = top
    BY <1>3 DEF StoreStep, Alone, PushBottom, PopStore, PopWon, PopLost, Leave, Goto, TypeOK
  <2>2. CASE on[p] # q
    <3>1. bottom'[q] = bottom[q]
      BY <1>3, <2>2 DEF StoreStep, PushBottom, PopStore, PopWon, PopLost, TypeOK
    <3>2. InWindow(q)' <=> InWindow(q)
      BY <2>1, <2>2 DEF InWindow, Alone
    <3>3. QED
      BY <1>1, <2>1, <3>1, <3>2 DEF Limit, Drained
  <2>3. CASE on[p] = q /\ PopStore(p)
    <3>1. /\ bottom'[q] = bottom[q] - 1 /\ pc[p] = "pop_store" /\ pc'[p] \in PopWindow
      BY <2>3 DEF PopStore, Goto, TypeOK, PopWindow, IndexInv, OwnerKnowsBottom
    <3>2. ~ InWindow(q) /\ InWindow(q)'
      BY <2>1, <2>3, <3>1, WindowOpens
    <3>3. QED
      BY <1>1, <2>1, <3>1, <3>2 DEF Limit, Drained
  <2>4. CASE on[p] = q /\ (PopWon(p) \/ PopLost(p))
    <3>1. /\ bottom'[q] = locB[p] + 1 /\ locB[p] = bottom[q] /\ locB[p] < top[q]
          /\ pc[p] \in PopWindow /\ pc'[p] \notin PopWindow
      BY <2>4 DEF PopWon, PopLost, Leave, Goto, TypeOK, PopWindow, IndexInv, OwnerKnowsBottom,
                  PopOutcome
    <3>2. InWindow(q) /\ ~ InWindow(q)'
      BY <2>1, <2>4, <3>1, WindowCloses
    <3>3. QED
      BY <1>1, <2>1, <3>1, <3>2 DEF Limit, Drained
  <2>5. ~ (on[p] = q /\ PushBottom(p))
    OBVIOUS
  <2>6. QED
    BY <1>3, <2>2, <2>3, <2>4, <2>5 DEF StoreStep
<1>4. ASSUME NEW p \in Threads, PopArg(p), ~ LastEntry(p)
      PROVE  Goal
  <2>1. Alone(p) /\ on' = on /\ top' = top /\ bottom' = bottom
    BY <1>4 DEF PopArg, Alone, Leave, Goto, TypeOK, memory
  <2>2. InWindow(q)' => InWindow(q)
    BY <1>4, <2>1 DEF InWindow, Alone, PopArg, PopWindow
  <2>3. QED
    BY <1>1, <2>1, <2>2 DEF Limit, Drained
<1>5. ASSUME NEW p \in Threads, PopCas(p) \/ StealCas(p), Compared(p)
      PROVE  Goal
  <2>1. Alone(p) /\ on' = on /\ bottom' = bottom
    BY <1>5 DEF PopCas, StealCas, Alone, Leave, Goto, TypeOK
  <2>2. top'[q] \in Nat /\ top[q] <= top'[q]
    BY <1>5 DEF PopCas, StealCas, TypeOK
  <2>3. InWindow(q)' => InWindow(q)
    BY <1>5, <2>1 DEF InWindow, Alone, PopCas, StealCas, PopWindow, Leave, Goto, TypeOK
  <2>4. QED
    BY <1>1, <2>1, <2>2, <2>3 DEF Limit, Drained
<1>6. CASE UNCHANGED vars
  <2>1. InWindow(q)' <=> InWindow(q)
    BY <1>6 DEF vars, locals, InWindow
  <2>2. QED
    BY <1>1, <1>6, <2>1 DEF vars, memory, Limit, Drained
<1>7. QED
  BY <1>2, <1>3, <1>4, <1>5, <1>6, StepKinds

(* An entry that is published is one entry.                                *)
LEMMA PushFillsByOne ==
  ASSUME TypeOK, OneInside, IndexInv, NEW p \in Threads, PushBottom(p), NEW q \in Queues
  PROVE  /\ top' = top /\ Limit(q)' <= Limit(q) + 1
         /\ q # on[p] => Limit(q)' = Limit(q) /\ bottom'[q] = bottom[q]
         /\ q = on[p] => Limit(q)' = bottom[q] + 1
<1>1. /\ Alone(p) /\ on' = on /\ top' = top
      /\ bottom' = [bottom EXCEPT ![on[p]] = bottom[on[p]] + 1]
      /\ pc[p] \in PushLabel /\ pc'[p] \notin PopWindow
  BY DEF PushBottom, Alone, Leave, Goto, TypeOK, IndexInv, OwnerKnowsBottom, PushLabel, PopWindow
<1>2. \A r \in Queues : InWindow(r)' <=> InWindow(r)
  BY <1>1, WindowKept DEF PopWindow, PushLabel
<1>3. ~ InWindow(on[p])
  BY <1>1 DEF OneInside, InWindow, PopWindow, PopLabel, PushLabel
<1>4. on[p] \in Queues /\ bottom \in [Queues -> Int]
  BY DEF TypeOK
<1>5. QED
  BY <1>1, <1>2, <1>3, <1>4 DEF Limit

(* Pop returns false on an empty queue only, and so does Steal if one      *)
(* entry at most was left when it began: losing the exchange means that    *)
(* this entry is gone.                                                     *)
LEMMA FalseMeansEmpty ==
  ASSUME TypeOK, IndexInv, PopOutcome, NEW p \in Threads, Inside(p), pc'[p] = "empty",
         pc[p] \in StealLabel => Limit(on[p]) <= locT[p] + 1
  PROVE  Drained(on[p])'
<1> SUFFICES top'[on[p]] >= bottom'[on[p]]
  BY InsideFrame DEF Drained
<1>1. /\ on[p] \in Queues /\ top[on[p]] \in Int /\ bottom[on[p]] \in Int
      /\ locT[p] \in Int /\ locB[p] \in Int
  BY DEF TypeOK
<1>2. CASE PopLost(p)
  <2>1. /\ top' = top /\ bottom'[on[p]] = locB[p] + 1 /\ locB[p] < top[on[p]]
    BY <1>2 DEF PopLost, TypeOK, PopOutcome
  <2>2. QED
    BY <1>1, <2>1
<1>3. CASE StealBottom(p)
  <2>1. /\ top' = top /\ bottom' = bottom /\ locT[p] >= bottom[on[p]]
    BY <1>3 DEF StealBottom, Goto, TypeOK, memory
  <2>2. locT[p] <= top[on[p]]
    BY <1>3 DEF IndexInv, StealAimsAtEntry, StealBottom, StealLabel, TypeOK
  <2>3. QED
    BY <1>1, <2>1, <2>2
<1>4. CASE StealCas(p)
  <2>1. /\ top' = top /\ bottom' = bottom /\ locT[p] # top[on[p]]
    BY <1>4 DEF StealCas, Leave, Goto, TypeOK
  <2>2. locT[p] <= top[on[p]] /\ Limit(on[p]) <= locT[p] + 1
    BY <1>4 DEF IndexInv, StealAimsAtEntry, StealCas, StealLabel, TypeOK
  <2>3. bottom[on[p]] <= Limit(on[p]) /\ Limit(on[p]) \in Int
    BY <1>1 DEF Limit
  <2>4. QED
    BY <1>1, <2>1, <2>2, <2>3
<1>5. QED
  <2>1. PopLost(p) \/ StealBottom(p) \/ StealCas(p)
    BY DEF Inside, Push, Pop, Steal, Run, PushTop, PushFn, PushArg, PushBottom, PopStore,
           PopTop, PopFn, PopArg, PopCas, PopWon, StealFn, StealArg, Leave, Goto, TypeOK
  <2>2. QED
    BY <1>2, <1>3, <1>4, <2>1

=============================================================================
