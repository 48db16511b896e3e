------------------------ MODULE TaskQueueEntryProofs ------------------------
(***************************************************************************)
(* Theorems about the entries of the queues: where each task is, and what  *)
(* the slots of an entry hold.  They need that no two threads are inside   *)
(* Push or Pop of one queue at a time, and that no more entries are queued *)
(* than the overlapping slot arrays bear.                                  *)
(***************************************************************************)
EXTENDS TaskQueueProofs, FiniteSetTheorems

(* The entries of a queue.                                                 *)
Live(q) == top[q] .. Limit(q) - 1

FnAt(q, i)  == cell[q][FnCell(i)]
ArgAt(q, i) == cell[q][ArgCell(i)]

(* Where a task may be: in the hands of a thread, or queued.               *)
Handling == PushLabel \cup {"run", "pop_won"}
Has(p, x) == pc[p] \in Handling /\ fn[p] = FnWord(x)
Queued(q, i, x) == i \in Live(q) /\ FnAt(q, i) = FnWord(x)

(* A task is in one place at most, and only while it has not been run;     *)
(* once submitted it is in one or has been run.                            *)
InOneHand == \A p, r \in Threads, x \in Items : Has(p, x) /\ Has(r, x) => p = r

InOneSlot ==
  \A q, r \in Queues, i, j \in Int, x \in Items :
    Queued(q, i, x) /\ Queued(r, j, x) => q = r /\ i = j

HandOrSlot ==
  \A p \in Threads, q \in Queues, i \in Int, x \in Items : ~ (Has(p, x) /\ Queued(q, i, x))

RunFromHand ==
  \A x \in Items :
    /\ runs[x] \in {0, 1}
    /\ runs[x] = 1 => /\ \A p \in Threads : ~ Has(p, x)
                      /\ \A q \in Queues, i \in Int : ~ Queued(q, i, x)

Accounted ==
  \A x \in Items :
    x \in submitted <=> \/ runs[x] = 1
                        \/ \E p \in Threads : Has(p, x)
                        \/ \E q \in Queues, i \in Int : Queued(q, i, x)

OnePlace == InOneHand /\ InOneSlot /\ HandOrSlot /\ RunFromHand /\ Accounted

(* Entries and what threads hold are a function with its own payload.      *)
EntriesWhole ==
  \A q \in Queues : \A i \in Live(q) :
    \E x \in Items : FnAt(q, i) = FnWord(x) /\ ArgAt(q, i) = ArgWord(x)

HandsWhole ==
  \A p \in Threads : pc[p] \in Handling =>
    \E x \in Items : fn[p] = FnWord(x) /\ arg[p] = ArgWord(x)

(* What Push has written, and what Pop has read, is what the slot holds;   *)
(* for Steal that is so while its CAS can still succeed.                   *)
SlotsWritten ==
  \A p \in Threads :
    /\ pc[p] \in {"push_arg", "push_bottom"} => FnAt(on[p], locB[p]) = fn[p]
    /\ pc[p] = "push_bottom" => ArgAt(on[p], locB[p]) = arg[p]

SlotsRead ==
  \A p \in Threads :
    /\ pc[p] \in {"pop_arg", "pop_cas"} => fn[p] = FnAt(on[p], locB[p])
    /\ pc[p] = "pop_cas" => arg[p] = ArgAt(on[p], locB[p])
    /\ locT[p] = top[on[p]] =>
         /\ pc[p] \in {"steal_arg", "steal_cas"} => fn[p] = FnAt(on[p], locT[p])
         /\ pc[p] = "steal_cas" => arg[p] = ArgAt(on[p], locT[p])

EntryInv == OnePlace /\ EntriesWhole /\ HandsWhole /\ SlotsWritten /\ SlotsRead

-----------------------------------------------------------------------------
(* The payload array starts queue.size bytes after the task array; with    *)
(* pointers of two bytes or more, entries that are less than that many     *)
(* cells apart share none.                                                 *)
Gap == QueueSize \div PtrSize

(* Two gaps fit in the slots of a queue.                                   *)
LEMMA GapFits ==
  ASSUME PtrSize >= 2
  PROVE  Gap \in Nat \ {0} /\ 2 * Gap <= QueueSize
<1>1. /\ QueueSize \in Nat \ {0} /\ PtrSize \in Nat \ {0}
      /\ QueueSize % PtrSize = 0
  BY QueueAssumption
<1>2. Gap \in Nat /\ QueueSize = PtrSize * Gap
  BY <1>1 DEF Gap
<1>3. QED
  BY <1>1, <1>2

(* Entries less than a gap apart share no cell, neither of one array nor   *)
(* of one with the other.                                                  *)
LEMMA SlotsApart ==
  ASSUME PtrSize >= 2, NEW i \in Int, NEW j \in Int, i <= j, j - i < Gap
  PROVE  /\ i # j => FnCell(i) # FnCell(j) /\ ArgCell(i) # ArgCell(j)
         /\ FnCell(i) # ArgCell(j)
         /\ ArgCell(i) # FnCell(j)
<1> DEFINE a == i \div QueueSize
           b == j \div QueueSize
           r == i % QueueSize
           s == j % QueueSize
           n == QueueSize
<1>1. n \in Nat \ {0} /\ Gap \in Nat /\ 2 * Gap <= n
  BY GapFits, QueueAssumption
<1>2. /\ a \in Int /\ b \in Int
      /\ r \in 0 .. n - 1 /\ s \in 0 .. n - 1
      /\ i = n * a + r /\ j = n * b + s
  BY <1>1
<1>3. FnCell(i) = r /\ FnCell(j) = s /\ ArgCell(i) = Gap + r /\ ArgCell(j) = Gap + s
  BY DEF FnCell, ArgCell, Gap
<1> HIDE DEF a, b, r, s, n
<1>4. n * (b - a) = n * b - n * a /\ j - i = n * (b - a) + (s - r)
  BY <1>1, <1>2
<1>5. CASE a = b
  <2>1. j - i = s - r
    BY <1>1, <1>2, <1>4, <1>5
  <2>2. QED
    BY <2>1, <1>1, <1>2, <1>3
<1>6. CASE b - a = 1
  BY <1>1, <1>2, <1>3, <1>4, <1>6
<1>7. CASE b - a >= 2
  <2>1. n * (b - a) >= 2 * n
    BY <1>1, <1>2, <1>7
  <2>2. QED
    BY <2>1, <1>1, <1>2, <1>4
<1>8. CASE b - a <= -1
  <2>1. n * (b - a) <= - n
    BY <1>1, <1>2, <1>8
  <2>2. QED
    BY <2>1, <1>1, <1>2, <1>4
<1>9. QED
  BY <1>1, <1>2, <1>5, <1>6, <1>7, <1>8

-----------------------------------------------------------------------------
(* What a step of one thread does to the windows and to the entries.       *)
USE DEF LastEntry, Compared, Exchanged, Restored, FoundEmpty

LiveKept == \A q \in Queues : Live(q)' = Live(q)
HandsKept == \A p \in Threads, x \in Items : Has(p, x)' <=> Has(p, x)

(* Steps that neither move a task nor write a slot.                        *)
QuietStep(p) ==
  \/ \E q \in Queues : PopBegin(p, q) \/ StealBegin(p, q)
  \/ PushTop(p)
  \/ PopStore(p) \/ PopTop(p) \/ PopFn(p) \/ (PopArg(p) /\ LastEntry(p))
  \/ (PopCas(p) /\ ~ Compared(p)) \/ PopWon(p) \/ PopLost(p)
  \/ StealBottom(p) \/ StealFn(p) \/ StealArg(p) \/ (StealCas(p) /\ ~ Compared(p))

(* A quiet step of Pop or Steal adds no entry and takes none.              *)
LEMMA QuietKeepsLive ==
  ASSUME TypeOK, OneInside, IndexInv, NEW p \in Threads, QuietStep(p)
  PROVE  LiveKept
<1> USE DEF TypeOK, memory, history, locals, Goto, Leave, Discard,
            Ready, PopWindow, PushLabel, PopLabel, StealLabel, Alone
<1> SUFFICES ASSUME NEW q \in Queues PROVE Live(q)' = Live(q)
  BY DEF LiveKept
<1>1. ASSUME NEW r \in Queues, PopBegin(p, r) \/ StealBegin(p, r)
      PROVE  Live(q)' = Live(q)
  BY <1>1, WindowKept DEF PopBegin, StealBegin, Live, Limit
<1>2. CASE PushTop(p)
  BY <1>2, WindowKept DEF PushTop, Live, Limit
<1>3. CASE PopStore(p)
  <2>1. bottom'[on[p]] = bottom[on[p]] - 1 /\ \A r \in Queues : r # on[p] => bottom'[r] = bottom[r]
    BY <1>3 DEF PopStore, IndexInv, OwnerKnowsBottom
  <2>2. top' = top
    BY <1>3 DEF PopStore
  <2>3. IF q = on[p] THEN ~ InWindow(q) /\ InWindow(q)' ELSE InWindow(q)' <=> InWindow(q)
    BY <1>3, WindowOpens DEF PopStore
  <2>4. QED
    BY <2>1, <2>2, <2>3 DEF Live, Limit
<1>4. CASE PopTop(p) \/ PopFn(p) \/ (PopArg(p) /\ LastEntry(p)) \/ (PopCas(p) /\ ~ Compared(p))
  BY <1>4, WindowKept DEF PopTop, PopFn, PopArg, PopCas, Live, Limit
<1>5. CASE PopWon(p) \/ PopLost(p)
  <2>1. bottom'[on[p]] = bottom[on[p]] + 1 /\ \A r \in Queues : r # on[p] => bottom'[r] = bottom[r]
    BY <1>5 DEF PopWon, PopLost, IndexInv, OwnerKnowsBottom
  <2>2. top' = top
    BY <1>5 DEF PopWon, PopLost
  <2>3. IF q = on[p] THEN InWindow(q) /\ ~ InWindow(q)' ELSE InWindow(q)' <=> InWindow(q)
    BY <1>5, WindowCloses DEF PopWon, PopLost
  <2>4. QED
    BY <2>1, <2>2, <2>3 DEF Live, Limit
<1>6. CASE \/ StealBottom(p) \/ StealFn(p) \/ StealArg(p)
           \/ (StealCas(p) /\ ~ Compared(p))
  BY <1>6, WindowKept DEF StealBottom, StealFn, StealArg, StealCas, Live, Limit
<1>7. QED
  BY <1>1, <1>2, <1>3, <1>4, <1>5, <1>6 DEF QuietStep

(* A quiet step writes no slot and hands nothing out.                      *)
LEMMA QuietKeepsHands ==
  ASSUME TypeOK, NEW p \in Threads, QuietStep(p)
  PROVE  /\ UNCHANGED <<cell, history>>
         /\ HandsKept
         /\ \A s \in Threads : pc'[s] \in Handling =>
              pc[s] \in Handling /\ fn'[s] = fn[s] /\ arg'[s] = arg[s]
BY DEF QuietStep, TypeOK, memory, history, locals, Goto, Leave, Discard, Ready, Handling,
       PushLabel, HandsKept, Has, PopBegin, StealBegin, PushTop, PopStore, PopTop, PopFn,
       PopArg, PopCas, PopWon, PopLost, StealBottom, StealFn, StealArg, StealCas

-----------------------------------------------------------------------------
(* How a step may move one task, whichever operation it belongs to.        *)
Stays == /\ HandsKept
         /\ \A q \in Queues, i \in Int, x \in Items : Queued(q, i, x)' <=> Queued(q, i, x)
         /\ UNCHANGED history

Appears(p, x) ==
  /\ x \notin submitted
  /\ \A s \in Threads, y \in Items : Has(s, y)' <=> Has(s, y) \/ (s = p /\ y = x)
  /\ \A q \in Queues, i \in Int, y \in Items : Queued(q, i, y)' <=> Queued(q, i, y)
  /\ submitted' = submitted \cup {x} /\ runs' = runs

Published(p, r, j, x) ==
  /\ Has(p, x)
  /\ \A s \in Threads, y \in Items : Has(s, y)' <=> Has(s, y) /\ s # p
  /\ \A q \in Queues, i \in Int, y \in Items :
       Queued(q, i, y)' <=> Queued(q, i, y) \/ (q = r /\ i = j /\ y = x)
  /\ UNCHANGED history

Taken(p, r, j, x) ==
  /\ Queued(r, j, x)
  /\ \A s \in Threads, y \in Items : Has(s, y)' <=> Has(s, y) \/ (s = p /\ y = x)
  /\ \A q \in Queues, i \in Int, y \in Items :
       Queued(q, i, y)' <=> Queued(q, i, y) /\ ~ (q = r /\ i = j)
  /\ UNCHANGED history

Finished(p, x) ==
  /\ Has(p, x)
  /\ \A s \in Threads, y \in Items : Has(s, y)' <=> Has(s, y) /\ s # p
  /\ \A q \in Queues, i \in Int, y \in Items : Queued(q, i, y)' <=> Queued(q, i, y)
  /\ submitted' = submitted /\ runs' = [runs EXCEPT ![x] = @ + 1]

(* Each of these moves leaves every task in one place.                     *)
LEMMA StayingInPlace ==
  ASSUME OnePlace, Stays
  PROVE  OnePlace'
BY DEF OnePlace, InOneHand, InOneSlot, HandOrSlot, RunFromHand, Accounted, Stays, HandsKept,
       history

(* ... also the call that brings the task,                                 *)
LEMMA AppearingInPlace ==
  ASSUME OnePlace, TypeOK, NEW p \in Threads, NEW x \in Items, Appears(p, x)
  PROVE  OnePlace'
<1>1. /\ runs[x] = 0
      /\ \A s \in Threads : ~ Has(s, x)
      /\ \A q \in Queues, i \in Int : ~ Queued(q, i, x)
  BY DEF OnePlace, Accounted, RunFromHand, Appears
<1>2. InOneHand' /\ InOneSlot' /\ HandOrSlot'
  BY <1>1 DEF OnePlace, InOneHand, InOneSlot, HandOrSlot, Appears
<1>3. RunFromHand' /\ Accounted'
  BY <1>1 DEF OnePlace, RunFromHand, Accounted, Appears
<1>4. QED
  BY <1>2, <1>3 DEF OnePlace

(* ... the store of bottom that moves it from the hand to the queue,       *)
LEMMA PublishingInPlace ==
  ASSUME OnePlace, NEW p \in Threads, NEW r \in Queues, NEW j \in Int, NEW x \in Items,
         Published(p, r, j, x)
  PROVE  OnePlace'
<1>1. /\ runs[x] = 0
      /\ \A s \in Threads : s # p => ~ Has(s, x)
      /\ \A q \in Queues, i \in Int : ~ Queued(q, i, x)
  BY DEF OnePlace, RunFromHand, InOneHand, HandOrSlot, Published
<1>2. \A y \in Items : Has(p, y) => y = x
  BY DEF Published, Has, FnWord
<1>3. InOneHand' /\ InOneSlot' /\ HandOrSlot'
  BY <1>1, <1>2 DEF OnePlace, InOneHand, InOneSlot, HandOrSlot, Published
<1>4. RunFromHand' /\ Accounted'
  BY <1>1, <1>2 DEF OnePlace, RunFromHand, Accounted, Published, history
<1>5. QED
  BY <1>3, <1>4 DEF OnePlace

(* ... the access that moves it from the queue to the hand,                *)
LEMMA TakingInPlace ==
  ASSUME OnePlace, NEW p \in Threads, NEW r \in Queues, NEW j \in Int, NEW x \in Items,
         Taken(p, r, j, x)
  PROVE  OnePlace'
<1>1. /\ runs[x] = 0
      /\ \A s \in Threads : ~ Has(s, x)
      /\ \A q \in Queues, i \in Int : Queued(q, i, x) => q = r /\ i = j
  BY DEF OnePlace, RunFromHand, InOneSlot, HandOrSlot, Taken
<1>2. \A y \in Items : Queued(r, j, y) => y = x
  BY DEF Taken, Queued, FnWord
<1>3. InOneHand' /\ InOneSlot' /\ HandOrSlot'
  BY <1>1, <1>2 DEF OnePlace, InOneHand, InOneSlot, HandOrSlot, Taken
<1>4. RunFromHand' /\ Accounted'
  BY <1>1, <1>2 DEF OnePlace, RunFromHand, Accounted, Taken, history
<1>5. QED
  BY <1>3, <1>4 DEF OnePlace

(* ... and the return of the function that was run.                        *)
LEMMA FinishingInPlace ==
  ASSUME OnePlace, TypeOK, NEW p \in Threads, NEW x \in Items, Finished(p, x)
  PROVE  OnePlace'
<1>1. /\ runs[x] = 0
      /\ \A s \in Threads : s # p => ~ Has(s, x)
      /\ \A q \in Queues, i \in Int : ~ Queued(q, i, x)
  BY DEF OnePlace, RunFromHand, InOneHand, HandOrSlot, Finished
<1>2. \A y \in Items : Has(p, y) => y = x
  BY DEF Finished, Has, FnWord
<1>3. /\ runs'[x] = 1
      /\ \A y \in Items : y # x => runs'[y] = runs[y]
  BY <1>1 DEF Finished, TypeOK
<1>4. InOneHand' /\ InOneSlot' /\ HandOrSlot'
  BY DEF OnePlace, InOneHand, InOneSlot, HandOrSlot, Finished
<1>5. RunFromHand' /\ Accounted'
  BY <1>1, <1>2, <1>3 DEF OnePlace, RunFromHand, Accounted, Finished
<1>6. QED
  BY <1>4, <1>5 DEF OnePlace

-----------------------------------------------------------------------------
(* While a thread pushes, the entries queued leave room for one more.      *)
Room == \A p \in Threads : pc[p] \in PushLabel => bottom[on[p]] - top[on[p]] < Gap

(* Which entry each step is about, and that it is one of the queue.        *)
LEMMA PushAimsPastEntries ==
  ASSUME PtrSize >= 2, TypeOK, OneInside, IndexInv, Room,
         NEW p \in Threads, pc[p] \in PushLabel
  PROVE  /\ locB[p] = bottom[on[p]]
         /\ Live(on[p]) = top[on[p]] .. locB[p] - 1
         /\ ~ InWindow(on[p])
         /\ \A i \in Live(on[p]) :
              /\ FnCell(i) # FnCell(locB[p]) /\ FnCell(i) # ArgCell(locB[p])
              /\ ArgCell(i) # FnCell(locB[p]) /\ ArgCell(i) # ArgCell(locB[p])
<1>1. locB[p] = bottom[on[p]] /\ on[p] \in Queues /\ locB[p] \in Int /\ top[on[p]] \in Nat
  BY DEF IndexInv, OwnerKnowsBottom, TypeOK
<1>2. ~ InWindow(on[p])
  BY DEF InWindow, OneInside, PopWindow, PopLabel, PushLabel
<1>3. Live(on[p]) = top[on[p]] .. locB[p] - 1
  BY <1>1, <1>2 DEF Live, Limit
<1>4. ASSUME NEW i \in Live(on[p])
      PROVE  i \in Int /\ i < locB[p] /\ locB[p] - i < Gap
  <2>1. locB[p] - top[on[p]] < Gap
    BY <1>1 DEF Room
  <2>2. i \in Int /\ i < locB[p] /\ top[on[p]] <= i
    BY <1>1, <1>3
  <2>3. Gap \in Nat
    BY GapFits
  <2>4. QED
    BY <1>1, <2>1, <2>2, <2>3
<1>5. QED
  BY <1>1, <1>2, <1>3, <1>4, SlotsApart

(* Past its store of bottom, Pop looks at the last entry, or at the one it *)
(* contends for.                                                           *)
LEMMA PopAimsAtLast ==
  ASSUME TypeOK, IndexInv, NEW p \in Threads, pc[p] \in {"pop_fn", "pop_arg", "pop_cas"},
         pc[p] = "pop_cas" => Compared(p)
  PROVE  locB[p] = bottom[on[p]] /\ InWindow(on[p])
         /\ (pc[p] # "pop_cas" /\ ~ LastEntry(p) => locB[p] \in Live(on[p]))
         /\ (pc[p] = "pop_cas" => top[on[p]] \in Live(on[p]))
<1>1. /\ locB[p] = bottom[on[p]] /\ locT[p] <= locB[p]
      /\ on[p] \in Queues /\ locB[p] \in Int /\ locT[p] \in Int /\ top[on[p]] \in Nat
  BY DEF IndexInv, OwnerKnowsBottom, TypeOK, PopWindow
<1>2. InWindow(on[p])
  BY DEF InWindow, PopWindow
<1>3. Live(on[p]) = top[on[p]] .. locB[p]
  BY <1>1, <1>2 DEF Live, Limit
<1>4. CASE pc[p] # "pop_cas" /\ ~ LastEntry(p)
  BY <1>1, <1>2, <1>3, <1>4 DEF IndexInv, ClaimedEntryIsSafe, Claims
<1>5. CASE pc[p] = "pop_cas"
  BY <1>1, <1>2, <1>3, <1>5
<1>6. QED
  BY <1>1, <1>2, <1>4, <1>5

(* When its exchange succeeds, Steal has read the first entry.             *)
LEMMA StealAimsAtFirst ==
  ASSUME TypeOK, IndexInv, NEW p \in Threads, pc[p] \in PastTest, Compared(p)
  PROVE  locT[p] = top[on[p]] /\ top[on[p]] \in Live(on[p])
BY DEF IndexInv, StealAimsAtEntry, TypeOK, Live, Limit, PastTest, StealLabel

(* Writing a slot touches no entry; publishing adds the entry written;     *)
(* taking removes the last entry, or the first by an exchange of top.      *)
LEMMA WritingKeepsEntries ==
  ASSUME PtrSize >= 2, TypeOK, OneInside, IndexInv, Room,
         NEW p \in Threads, PushFn(p) \/ PushArg(p), NEW q \in Queues
  PROVE  /\ Live(q)' = Live(q)
         /\ \A i \in Live(q) : FnAt(q, i)' = FnAt(q, i) /\ ArgAt(q, i)' = ArgAt(q, i)
<1>1. InWindow(q)' <=> InWindow(q)
  BY WindowKept DEF PushFn, PushArg, Alone, Goto, TypeOK, PopWindow
<1>2. Live(q)' = Live(q)
  BY <1>1 DEF PushFn, PushArg, Live, Limit
<1>3. CASE q = on[p]
  <2>1. \A i \in Live(on[p]) :
          /\ FnCell(i) # FnCell(locB[p]) /\ FnCell(i) # ArgCell(locB[p])
          /\ ArgCell(i) # FnCell(locB[p]) /\ ArgCell(i) # ArgCell(locB[p])
    BY PushAimsPastEntries DEF PushFn, PushArg, PushLabel
  <2>2. ASSUME NEW i \in Live(q)
        PROVE  FnAt(q, i)' = FnAt(q, i) /\ ArgAt(q, i)' = ArgAt(q, i)
    <3>1. i \in Int
      BY DEF Live, Limit, TypeOK
    <3>2. FnCell(i) \in Cells /\ ArgCell(i) \in Cells
      BY <3>1, CellsInRange
    <3>3. FnCell(i)' = FnCell(i) /\ ArgCell(i)' = ArgCell(i)
      BY DEF FnCell, ArgCell
    <3>4. /\ cell'[q][FnCell(i)] = cell[q][FnCell(i)]
          /\ cell'[q][ArgCell(i)] = cell[q][ArgCell(i)]
      BY <1>3, <2>1, <3>2 DEF PushFn, PushArg, TypeOK
    <3>5. QED
      BY <3>3, <3>4 DEF FnAt, ArgAt
  <2>3. QED
    BY <1>2, <2>2
<1>4. CASE q # on[p]
  BY <1>2, <1>4 DEF PushFn, PushArg, TypeOK, FnAt, ArgAt, FnCell, ArgCell
<1>5. QED
  BY <1>3, <1>4

(* The store of bottom in Push adds the entry it wrote, and no other.      *)
LEMMA PublishingAddsEntry ==
  ASSUME PtrSize >= 2, TypeOK, OneInside, IndexInv, Room,
         NEW p \in Threads, PushBottom(p), NEW q \in Queues
  PROVE  Live(q)' = IF q = on[p] THEN Live(q) \cup {locB[p]} ELSE Live(q)
<1>1. InWindow(q)' <=> InWindow(q)
  BY WindowKept DEF PushBottom, Alone, Leave, Goto, TypeOK, PopWindow
<1>2. /\ top' = top /\ bottom' = [bottom EXCEPT ![on[p]] = locB[p] + 1]
      /\ on[p] \in Queues /\ top \in [Queues -> Nat] /\ bottom \in [Queues -> Int]
  BY DEF PushBottom, TypeOK
<1>3. CASE q = on[p]
  <2>1. /\ locB[p] = bottom[on[p]] /\ Live(on[p]) = top[on[p]] .. locB[p] - 1
        /\ ~ InWindow(on[p])
    BY PushAimsPastEntries DEF PushBottom, PushLabel
  <2>2. top[on[p]] <= bottom[on[p]]
    BY <2>1, <1>2 DEF IndexInv, TopBehindBottom
  <2>3. Live(q)' = top[q] .. bottom[q]
    BY <1>1, <1>2, <1>3, <2>1 DEF Live, Limit
  <2>4. QED
    BY <1>2, <1>3, <2>1, <2>2, <2>3
<1>4. CASE q # on[p]
  BY <1>1, <1>2, <1>4 DEF Live, Limit
<1>5. QED
  BY <1>3, <1>4

(* Pop without an exchange removes the last entry, and no other.           *)
LEMMA PoppingTakesLast ==
  ASSUME TypeOK, OneInside, IndexInv,
         NEW p \in Threads, PopArg(p), ~ LastEntry(p), NEW q \in Queues
  PROVE  Live(q)' = IF q = on[p] THEN Live(q) \ {locB[p]} ELSE Live(q)
<1>1. /\ top' = top /\ bottom' = bottom /\ on' = on /\ pc[p] = "pop_arg" /\ pc'[p] = "run"
      /\ on[p] \in Queues /\ top \in [Queues -> Nat] /\ bottom \in [Queues -> Int]
  BY DEF PopArg, TypeOK, memory, Leave, Goto
<1>2. Alone(p)
  BY DEF PopArg, Leave, Goto, TypeOK, Alone
<1>3. IF q = on[p] THEN InWindow(q) /\ ~ InWindow(q)' ELSE InWindow(q)' <=> InWindow(q)
  BY <1>1, <1>2, WindowCloses DEF PopWindow
<1>4. locB[p] = bottom[on[p]] /\ locB[p] \in Live(on[p])
  BY <1>1, PopAimsAtLast
<1>5. CASE q = on[p]
  <2>1. Live(q) = top[q] .. bottom[q] /\ Live(q)' = top[q] .. bottom[q] - 1
    BY <1>1, <1>3, <1>5 DEF Live, Limit
  <2>2. QED
    BY <1>1, <1>4, <1>5, <2>1
<1>6. CASE q # on[p]
  BY <1>1, <1>3, <1>6 DEF Live, Limit
<1>7. QED
  BY <1>5, <1>6

(* An exchange that succeeds, in Pop or in Steal, removes the first entry. *)
LEMMA ExchangeTakesFirst ==
  ASSUME TypeOK, IndexInv,
         NEW p \in Threads, PopCas(p) \/ StealCas(p), Compared(p), NEW q \in Queues
  PROVE  /\ top[on[p]] \in Live(on[p])
         /\ Live(q)' = IF q = on[p] THEN Live(q) \ {top[on[p]]} ELSE Live(q)
<1>1. /\ top' = [top EXCEPT ![on[p]] = top[on[p]] + 1] /\ bottom' = bottom
      /\ on[p] \in Queues /\ top \in [Queues -> Nat] /\ bottom \in [Queues -> Int]
  BY DEF PopCas, StealCas, TypeOK
<1>2. InWindow(q)' <=> InWindow(q)
  BY WindowKept DEF PopCas, StealCas, Alone, Leave, Goto, TypeOK, PopWindow
<1>3. top[on[p]] \in Live(on[p])
  BY PopAimsAtLast, StealAimsAtFirst DEF PopCas, StealCas, PastTest
<1>4. CASE q = on[p]
  <2>1. Limit(q)' = Limit(q) /\ Limit(q) \in Int /\ top'[q] = top[q] + 1
    BY <1>1, <1>2, <1>4 DEF Limit
  <2>2. QED
    BY <1>1, <1>3, <1>4, <2>1 DEF Live
<1>5. CASE q # on[p]
  BY <1>1, <1>2, <1>3, <1>5 DEF Live, Limit
<1>6. QED
  BY <1>3, <1>4, <1>5

-----------------------------------------------------------------------------
(* Each step keeps tasks in one place, entries whole and slots in step     *)
(* with the threads that write and read them.                              *)
LEMMA QuietKeepsEntryInv ==
  ASSUME TypeOK, OneInside, IndexInv, EntryInv, NEW p \in Threads, QuietStep(p)
  PROVE  EntryInv'
<1> USE DEF EntryInv
<1>1. LiveKept
  BY QuietKeepsLive
<1>2. /\ UNCHANGED <<cell, history>>
      /\ HandsKept
      /\ \A s \in Threads : pc'[s] \in Handling =>
           pc[s] \in Handling /\ fn'[s] = fn[s] /\ arg'[s] = arg[s]
  BY QuietKeepsHands
<1>3. ASSUME NEW q \in Queues, NEW i \in Int
      PROVE  FnAt(q, i)' = FnAt(q, i) /\ ArgAt(q, i)' = ArgAt(q, i)
  BY <1>2 DEF FnAt, ArgAt, FnCell, ArgCell
<1>4. OnePlace'
  <2>1. Stays
    BY <1>1, <1>2, <1>3 DEF Stays, LiveKept, Queued
  <2>2. QED
    BY <2>1, StayingInPlace
<1>5. EntriesWhole'
  <2>1. \A q \in Queues : \A i \in Live(q) : i \in Int
    BY DEF Live, Limit, TypeOK
  <2>2. QED
    BY <1>1, <1>3, <2>1 DEF EntriesWhole, LiveKept
<1>6. HandsWhole'
  BY <1>2 DEF HandsWhole
<1>7. SlotsWritten'
  <2>1. ASSUME NEW s \in Threads, pc'[s] \in {"push_arg", "push_bottom"}
        PROVE  /\ pc[s] = pc'[s] /\ on'[s] = on[s] /\ locB'[s] = locB[s]
               /\ fn'[s] = fn[s] /\ arg'[s] = arg[s]
    BY <2>1 DEF QuietStep, TypeOK, Goto, Leave, Discard, PopBegin, StealBegin, PushTop, PopStore,
                PopTop, PopFn, PopArg, PopCas, PopWon, PopLost, StealBottom, StealFn, StealArg,
                StealCas
  <2>2. \A s \in Threads : on[s] \in Queues /\ locB[s] \in Int
    BY DEF TypeOK
  <2>3. QED
    BY <1>3, <2>1, <2>2 DEF SlotsWritten
<1>8. SlotsRead'
  <2>1. top' = top
    BY DEF QuietStep, memory, Leave, Goto, PopBegin, StealBegin, PushTop, PopStore,
           PopTop, PopFn, PopArg, PopCas, PopWon, PopLost, StealBottom, StealFn, StealArg, StealCas
  <2>2. ASSUME NEW s \in Threads,
               pc'[s] \in {"pop_arg", "pop_cas", "steal_arg", "steal_cas"}
        PROVE  /\ on'[s] = on[s] /\ locB'[s] = locB[s] /\ locT'[s] = locT[s]
               /\ \/ pc'[s] = pc[s] /\ fn'[s] = fn[s] /\ arg'[s] = arg[s]
                  \/ pc'[s] = "pop_arg" /\ fn'[s] = FnAt(on[s], locB[s])
                  \/ /\ pc[s] = "pop_arg" /\ pc'[s] = "pop_cas" /\ fn'[s] = fn[s]
                     /\ arg'[s] = ArgAt(on[s], locB[s])
                  \/ pc'[s] = "steal_arg" /\ fn'[s] = FnAt(on[s], locT[s])
                  \/ /\ pc[s] = "steal_arg" /\ pc'[s] = "steal_cas" /\ fn'[s] = fn[s]
                     /\ arg'[s] = ArgAt(on[s], locT[s])
    BY <2>2 DEF QuietStep, TypeOK, Goto, Leave, Discard, PopBegin, StealBegin, PushTop, PopStore,
                PopTop, PopFn, PopArg, PopCas, PopWon, PopLost, StealBottom, StealFn, StealArg,
                StealCas, FnAt, ArgAt
  <2>3. \A s \in Threads : on[s] \in Queues /\ locB[s] \in Int /\ locT[s] \in Int
    BY DEF TypeOK
  <2>4. QED
    BY <1>3, <2>1, <2>2, <2>3 DEF SlotsRead
<1>9. QED
  BY <1>4, <1>5, <1>6, <1>7, <1>8

(* Push writes only slots that nobody will read before they are published. *)
LEMMA WritingKeepsEntryInv ==
  ASSUME PtrSize >= 2, TypeOK, OneInside, IndexInv, Room, EntryInv,
         NEW p \in Threads, PushFn(p) \/ PushArg(p)
  PROVE  EntryInv'
<1> USE DEF EntryInv
<1>1. \A q \in Queues :
        /\ Live(q)' = Live(q)
        /\ \A i \in Live(q) : FnAt(q, i)' = FnAt(q, i) /\ ArgAt(q, i)' = ArgAt(q, i)
  BY WritingKeepsEntries
<1>2. \A s \in Threads : /\ on'[s] = on[s] /\ locB'[s] = locB[s] /\ locT'[s] = locT[s]
                         /\ fn'[s] = fn[s] /\ arg'[s] = arg[s]
                         /\ s # p => pc'[s] = pc[s]
                         /\ pc'[s] \in Handling <=> pc[s] \in Handling
                         /\ top'[on[s]] = top[on[s]]
  BY DEF PushFn, PushArg, Goto, TypeOK, Handling, PushLabel
<1>3. \A s \in Threads : on[s] \in Queues /\ locB[s] \in Int /\ locT[s] \in Int
  BY DEF TypeOK
<1>4. OnePlace'
  <2>1. HandsKept
    BY <1>2 DEF HandsKept, Has
  <2>2. Stays
    BY <1>1, <2>1 DEF Stays, Queued, PushFn, PushArg
  <2>3. QED
    BY <2>2, StayingInPlace
<1>5. EntriesWhole'
  BY <1>1 DEF EntriesWhole
<1>6. HandsWhole'
  BY <1>2 DEF HandsWhole

(* No other thread pushes to this queue.                                   *)
<1>7. ASSUME NEW s \in Threads, s # p, pc[s] \in PushLabel \cup PopLabel, NEW i \in Int
      PROVE  FnAt(on[s], i)' = FnAt(on[s], i) /\ ArgAt(on[s], i)' = ArgAt(on[s], i)
  <2>1. on[s] # on[p]
    BY <1>7 DEF OneInside, PushFn, PushArg, PushLabel
  <2>2. QED
    BY <2>1 DEF PushFn, PushArg, FnAt, ArgAt, FnCell, ArgCell, TypeOK
<1>8. SlotsWritten'
  <2> SUFFICES ASSUME NEW s \in Threads
               PROVE  (/\ pc[s] \in {"push_arg", "push_bottom"} => FnAt(on[s], locB[s]) = fn[s]
                       /\ pc[s] = "push_bottom" => ArgAt(on[s], locB[s]) = arg[s])'
    BY DEF SlotsWritten
  <2>1. CASE s # p
    BY <1>2, <1>3, <1>7, <2>1 DEF SlotsWritten, PushLabel, FnAt, ArgAt, FnCell, ArgCell
  <2>2. CASE s = p
    <3>1. FnCell(locB[p]) \in Cells /\ ArgCell(locB[p]) \in Cells
      BY <1>3, CellsInRange
    <3>2. FnCell(locB[p]) # ArgCell(locB[p])
      BY <1>3, SlotsApart, GapFits
    <3>3. FnAt(on[p], locB[p])' = cell'[on[p]][FnCell(locB[p])]
          /\ ArgAt(on[p], locB[p])' = cell'[on[p]][ArgCell(locB[p])]
      BY <1>2 DEF FnAt, ArgAt, FnCell, ArgCell
    <3>4. CASE PushFn(p)
      BY <1>2, <1>3, <2>2, <3>1, <3>3, <3>4 DEF PushFn, Goto, TypeOK
    <3>5. CASE PushArg(p)
      BY <1>2, <1>3, <2>2, <3>1, <3>2, <3>3, <3>5 DEF PushArg, Goto, TypeOK, SlotsWritten, FnAt
    <3>6. QED
      BY <3>4, <3>5
  <2>3. QED
    BY <2>1, <2>2

(* A Steal that can still succeed reads the first entry of the queue.      *)
<1>9. SlotsRead'
  <2> SUFFICES ASSUME NEW s \in Threads
               PROVE  (/\ pc[s] \in {"pop_arg", "pop_cas"} => fn[s] = FnAt(on[s], locB[s])
                       /\ pc[s] = "pop_cas" => arg[s] = ArgAt(on[s], locB[s])
                       /\ locT[s] = top[on[s]] =>
                            /\ pc[s] \in {"steal_arg", "steal_cas"} => fn[s] = FnAt(on[s], locT[s])
                            /\ pc[s] = "steal_cas" => arg[s] = ArgAt(on[s], locT[s]))'
    BY DEF SlotsRead
  <2>1. CASE s = p
    BY <2>1 DEF PushFn, PushArg, Goto, TypeOK
  <2>2. CASE s # p /\ pc[s] \in PopLabel
    BY <1>2, <1>3, <1>7, <2>2 DEF SlotsRead, PopLabel, FnAt, ArgAt, FnCell, ArgCell
  <2>3. CASE s # p /\ pc[s] \in {"steal_arg", "steal_cas"} /\ locT[s] = top[on[s]]
    <3>1. locT[s] \in Live(on[s])
      BY <2>3, StealAimsAtFirst DEF PastTest
    <3>2. /\ FnAt(on[s], locT[s])' = FnAt(on[s], locT[s])
          /\ ArgAt(on[s], locT[s])' = ArgAt(on[s], locT[s])
      BY <1>1, <1>2, <1>3, <3>1 DEF FnAt, ArgAt, FnCell, ArgCell
    <3>3. QED
      BY <1>2, <2>3, <3>2 DEF SlotsRead
  <2>4. CASE s # p /\ pc[s] \notin PopLabel /\ ~ (pc[s] \in {"steal_arg", "steal_cas"} /\ locT[s] = top[on[s]])
    BY <1>2, <2>4 DEF PopLabel
  <2>5. QED
    BY <2>1, <2>2, <2>3, <2>4
<1>10. QED
  BY <1>4, <1>5, <1>6, <1>8, <1>9

(* The entry Push publishes is whole.                                      *)
LEMMA PublishingKeepsEntryInv ==
  ASSUME PtrSize >= 2, TypeOK, OneInside, IndexInv, Room, EntryInv,
         NEW p \in Threads, PushBottom(p)
  PROVE  EntryInv'
<1> USE DEF EntryInv
<1>1. \A q \in Queues : Live(q)' = IF q = on[p] THEN Live(q) \cup {locB[p]} ELSE Live(q)
  BY PublishingAddsEntry
<1>2. /\ pc[p] = "push_bottom" /\ pc'[p] = "idle" /\ on' = on /\ top' = top
      /\ on[p] \in Queues /\ locB[p] \in Int
      /\ \A s \in Threads : s # p => /\ pc'[s] = pc[s] /\ fn'[s] = fn[s] /\ arg'[s] = arg[s]
                                     /\ locB'[s] = locB[s] /\ locT'[s] = locT[s]
  BY DEF PushBottom, TypeOK, Leave, Goto, Discard
<1>3. ASSUME NEW q \in Queues, NEW i \in Int
      PROVE  FnAt(q, i)' = FnAt(q, i) /\ ArgAt(q, i)' = ArgAt(q, i)
  BY DEF PushBottom, FnAt, ArgAt, FnCell, ArgCell
<1>4. PICK x \in Items : fn[p] = FnWord(x) /\ arg[p] = ArgWord(x)
  BY <1>2 DEF HandsWhole, Handling, PushLabel
<1>5. FnAt(on[p], locB[p]) = FnWord(x) /\ ArgAt(on[p], locB[p]) = ArgWord(x)
  BY <1>2, <1>4 DEF SlotsWritten
<1>6. \A q \in Queues : \A i \in Live(q) : i \in Int
  BY DEF Live, Limit, TypeOK
<1>7. OnePlace'
  <2>1. Has(p, x)
    BY <1>2, <1>4 DEF Has, Handling, PushLabel
  <2>2. \A s \in Threads, y \in Items : Has(s, y)' <=> Has(s, y) /\ s # p
    BY <1>2 DEF Has, Handling, PushLabel
  <2>3. \A q \in Queues, i \in Int, y \in Items :
          Queued(q, i, y)' <=> Queued(q, i, y) \/ (q = on[p] /\ i = locB[p] /\ y = x)
    BY <1>1, <1>3, <1>5 DEF Queued, FnWord
  <2>4. Published(p, on[p], locB[p], x)
    BY <2>1, <2>2, <2>3 DEF Published, PushBottom
  <2>5. QED
    BY <1>2, <2>4, PublishingInPlace
<1>8. EntriesWhole'
  BY <1>1, <1>2, <1>3, <1>5, <1>6 DEF EntriesWhole
<1>9. HandsWhole'
  BY <1>2 DEF HandsWhole, Handling, PushLabel
<1>10. \A s \in Threads : on[s] \in Queues /\ locB[s] \in Int /\ locT[s] \in Int
  BY DEF TypeOK
<1>11. SlotsWritten'
  BY <1>2, <1>3, <1>10 DEF SlotsWritten
<1>12. SlotsRead'
  BY <1>2, <1>3, <1>10 DEF SlotsRead
<1>13. QED
  BY <1>7, <1>8, <1>9, <1>11, <1>12

(* What the taking steps have in common: the thread leaves with the entry  *)
(* it has read, and no slot and no other thread changes.                   *)
LEMMA TakingKeepsEntryInv ==
  ASSUME TypeOK, EntryInv, NEW p \in Threads, NEW j \in Live(on[p]),
         \A q \in Queues : Live(q)' = IF q = on[p] THEN Live(q) \ {j} ELSE Live(q),
         pc[p] \notin Handling, pc'[p] \in {"run", "pop_won"}, Alone(p),
         UNCHANGED <<cell, history, on>>,
         \A s \in Threads : s # p => fn'[s] = fn[s] /\ arg'[s] = arg[s],
         fn'[p] = FnAt(on[p], j), arg'[p] = ArgAt(on[p], j),
         \A s \in Threads : s # p /\ pc[s] \in StealLabel /\ locT[s] = top'[on[s]]
                             => locT[s] = top[on[s]]
  PROVE  EntryInv'
<1> USE DEF EntryInv
<1>1. \A s \in Threads : on[s] \in Queues /\ locB[s] \in Int /\ locT[s] \in Int
  BY DEF TypeOK
<1>2. \A q \in Queues : \A i \in Live(q) : i \in Int
  BY DEF Live, Limit, TypeOK
<1>3. ASSUME NEW q \in Queues, NEW i \in Int
      PROVE  FnAt(q, i)' = FnAt(q, i) /\ ArgAt(q, i)' = ArgAt(q, i)
  BY DEF FnAt, ArgAt, FnCell, ArgCell
<1>4. PICK x \in Items : FnAt(on[p], j) = FnWord(x) /\ ArgAt(on[p], j) = ArgWord(x)
  BY <1>1 DEF EntriesWhole
<1>5. OnePlace'
  <2>1. Queued(on[p], j, x)
    BY <1>4 DEF Queued
  <2>2. \A s \in Threads, y \in Items : Has(s, y)' <=> Has(s, y) \/ (s = p /\ y = x)
    BY <1>4 DEF Has, Handling, Alone, FnWord
  <2>3. \A q \in Queues, i \in Int, y \in Items :
          Queued(q, i, y)' <=> Queued(q, i, y) /\ ~ (q = on[p] /\ i = j)
    BY <1>3 DEF Queued
  <2>4. Taken(p, on[p], j, x)
    BY <2>1, <2>2, <2>3 DEF Taken
  <2>5. QED
    BY <1>1, <1>2, <2>4, TakingInPlace
<1>6. EntriesWhole'
  BY <1>2, <1>3 DEF EntriesWhole
<1>7. HandsWhole'
  BY <1>4 DEF HandsWhole, Alone
<1>8. SlotsWritten'
  BY <1>1, <1>3 DEF SlotsWritten, Alone
<1>9. SlotsRead'
  BY <1>1, <1>3 DEF SlotsRead, Alone, StealLabel
<1>10. QED
  BY <1>5, <1>6, <1>7, <1>8, <1>9

(* The entry Pop takes as one of several leaves the queue whole.           *)
LEMMA PoppingKeepsEntryInv ==
  ASSUME TypeOK, OneInside, IndexInv, EntryInv,
         NEW p \in Threads, PopArg(p), ~ LastEntry(p)
  PROVE  EntryInv'
<1>1. \A q \in Queues : Live(q)' = IF q = on[p] THEN Live(q) \ {locB[p]} ELSE Live(q)
  BY PoppingTakesLast
<1>2. locB[p] \in Live(on[p])
  BY PopAimsAtLast DEF PopArg
<1>3. /\ pc[p] = "pop_arg" /\ pc'[p] = "run" /\ Alone(p) /\ UNCHANGED <<cell, history, on, top>>
      /\ \A s \in Threads : s # p => /\ locB'[s] = locB[s] /\ locT'[s] = locT[s]
                                     /\ fn'[s] = fn[s] /\ arg'[s] = arg[s]
      /\ fn'[p] = fn[p] /\ arg'[p] = ArgAt(on[p], locB[p])
  BY DEF PopArg, TypeOK, Leave, Goto, Alone, memory, ArgAt
<1>4. fn'[p] = FnAt(on[p], locB[p])
  BY <1>3 DEF EntryInv, SlotsRead
<1>5. QED
  BY <1>1, <1>2, <1>3, <1>4, TakingKeepsEntryInv DEF Handling, PushLabel

(* So does the entry an exchange takes; a thief that read it too fails.    *)
LEMMA ExchangingKeepsEntryInv ==
  ASSUME TypeOK, OneInside, IndexInv, EntryInv,
         NEW p \in Threads, PopCas(p) \/ StealCas(p), Compared(p)
  PROVE  EntryInv'
<1>1. /\ top[on[p]] \in Live(on[p])
      /\ \A q \in Queues : Live(q)' = IF q = on[p] THEN Live(q) \ {top[on[p]]} ELSE Live(q)
  BY ExchangeTakesFirst DEF TypeOK
<1>2. /\ pc[p] \in {"pop_cas", "steal_cas"} /\ pc'[p] \in {"run", "pop_won"}
      /\ Alone(p) /\ UNCHANGED <<cell, history, on, fn, arg>>
      /\ top' = [top EXCEPT ![on[p]] = top[on[p]] + 1] /\ locT[p] = top[on[p]]
      /\ \A s \in Threads : s # p => locB'[s] = locB[s] /\ locT'[s] = locT[s]
  BY DEF PopCas, StealCas, TypeOK, Leave, Goto, Alone
<1>3. pc[p] = "pop_cas" => locB[p] = locT[p]
  BY DEF IndexInv, OwnerKnowsBottom
<1>4. fn'[p] = FnAt(on[p], top[on[p]]) /\ arg'[p] = ArgAt(on[p], top[on[p]])
  BY <1>2, <1>3 DEF EntryInv, SlotsRead
<1>5. ASSUME NEW s \in Threads, s # p, pc[s] \in StealLabel, locT[s] = top'[on[s]]
      PROVE  locT[s] = top[on[s]]
  BY <1>2, <1>5 DEF IndexInv, StealAimsAtEntry, TypeOK
<1>6. QED
  BY <1>1, <1>2, <1>4, <1>5, TakingKeepsEntryInv DEF Handling, PushLabel

(* A task that is submitted is nowhere else yet.                           *)
LEMMA SubmittingKeepsEntryInv ==
  ASSUME TypeOK, EntryInv,
         NEW p \in Threads, NEW q \in Queues, NEW x \in Items, PushBegin(p, q, x)
  PROVE  EntryInv'
<1> USE DEF EntryInv
<1>1. /\ pc[p] \in Ready /\ pc'[p] = "push_top" /\ UNCHANGED <<top, bottom, cell>>
      /\ fn'[p] = FnWord(x) /\ arg'[p] = ArgWord(x)
      /\ \A s \in Threads : s # p => /\ pc'[s] = pc[s] /\ fn'[s] = fn[s] /\ arg'[s] = arg[s]
                                     /\ on'[s] = on[s] /\ locB'[s] = locB[s] /\ locT'[s] = locT[s]
  BY DEF PushBegin, TypeOK, Goto, memory
<1>2. ASSUME NEW r \in Queues
      PROVE  Live(r)' = Live(r)
  <2>1. InWindow(r)' <=> InWindow(r)
    BY <1>1, WindowKept DEF Alone, Ready, PopWindow
  <2>2. QED
    BY <1>1, <2>1 DEF Live, Limit
<1>3. ASSUME NEW r \in Queues, NEW i \in Int
      PROVE  FnAt(r, i)' = FnAt(r, i) /\ ArgAt(r, i)' = ArgAt(r, i)
  BY <1>1 DEF FnAt, ArgAt, FnCell, ArgCell
<1>4. \A r \in Queues : \A i \in Live(r) : i \in Int
  BY DEF Live, Limit, TypeOK
<1>5. \A s \in Threads : on[s] \in Queues /\ locB[s] \in Int /\ locT[s] \in Int
  BY DEF TypeOK
<1>6. OnePlace'
  <2>1. \A s \in Threads, y \in Items : Has(s, y)' <=> Has(s, y) \/ (s = p /\ y = x)
    BY <1>1 DEF Has, Handling, PushLabel, Ready, FnWord
  <2>2. \A r \in Queues, i \in Int, y \in Items : Queued(r, i, y)' <=> Queued(r, i, y)
    BY <1>2, <1>3 DEF Queued
  <2>3. Appears(p, x)
    BY <2>1, <2>2 DEF Appears, PushBegin
  <2>4. QED
    BY <2>3, AppearingInPlace
<1>7. EntriesWhole'
  BY <1>2, <1>3, <1>4 DEF EntriesWhole
<1>8. HandsWhole'
  BY <1>1 DEF HandsWhole
<1>9. SlotsWritten'
  BY <1>1, <1>3, <1>5 DEF SlotsWritten
<1>10. SlotsRead'
  BY <1>1, <1>3, <1>5 DEF SlotsRead
<1>11. QED
  BY <1>6, <1>7, <1>8, <1>9, <1>10

(* A task that was run is nowhere any more.                                *)
LEMMA RunningKeepsEntryInv ==
  ASSUME TypeOK, EntryInv, NEW p \in Threads, Run(p)
  PROVE  EntryInv'
<1> USE DEF EntryInv
<1>1. /\ pc[p] = "run" /\ pc'[p] = "idle" /\ UNCHANGED <<top, bottom, cell, on, locB, locT>>
      /\ \A s \in Threads : s # p => pc'[s] = pc[s] /\ fn'[s] = fn[s] /\ arg'[s] = arg[s]
  BY DEF Run, TypeOK, Goto, Discard, memory
<1>2. ASSUME NEW r \in Queues
      PROVE  Live(r)' = Live(r)
  <2>1. InWindow(r)' <=> InWindow(r)
    BY <1>1, WindowKept DEF Alone, PopWindow
  <2>2. QED
    BY <1>1, <2>1 DEF Live, Limit
<1>3. ASSUME NEW r \in Queues, NEW i \in Int
      PROVE  FnAt(r, i)' = FnAt(r, i) /\ ArgAt(r, i)' = ArgAt(r, i)
  BY <1>1 DEF FnAt, ArgAt, FnCell, ArgCell
<1>4. \A r \in Queues : \A i \in Live(r) : i \in Int
  BY DEF Live, Limit, TypeOK
<1>5. \A s \in Threads : on[s] \in Queues /\ locB[s] \in Int /\ locT[s] \in Int
  BY DEF TypeOK
<1>6. OnePlace'
  <2>1. PICK x \in Items : fn[p] = FnWord(x) /\ runs' = [runs EXCEPT ![x] = @ + 1]
    BY DEF Run
  <2>2. \A s \in Threads, y \in Items : Has(s, y)' <=> Has(s, y) /\ s # p
    BY <1>1 DEF Has, Handling, PushLabel
  <2>3. \A r \in Queues, i \in Int, y \in Items : Queued(r, i, y)' <=> Queued(r, i, y)
    BY <1>2, <1>3 DEF Queued
  <2>4. Finished(p, x)
    BY <1>1, <2>1, <2>2, <2>3 DEF Finished, Has, Handling, Run
  <2>5. QED
    BY <2>4, FinishingInPlace
<1>7. EntriesWhole'
  BY <1>2, <1>3, <1>4 DEF EntriesWhole
<1>8. HandsWhole'
  BY <1>1 DEF HandsWhole, Handling, PushLabel
<1>9. SlotsWritten'
  BY <1>1, <1>3, <1>5 DEF SlotsWritten
<1>10. SlotsRead'
  BY <1>1, <1>3, <1>5 DEF SlotsRead
<1>11. QED
  BY <1>6, <1>7, <1>8, <1>9, <1>10

-----------------------------------------------------------------------------
(* Together: whoever the clients are, a step of the queues keeps every     *)
(* task in one place and every entry whole while no two threads are inside *)
(* Push or Pop of one queue and pushing leaves room.                       *)
LEMMA EntryInvInductive ==
  ASSUME PtrSize >= 2, TypeOK, OneInside, IndexInv, Room, EntryInv, [Next]_vars
  PROVE  EntryInv'
<1>1. ASSUME NEW p \in Threads, NEW q \in Queues, NEW x \in Items, PushBegin(p, q, x)
      PROVE  EntryInv'
  BY <1>1, SubmittingKeepsEntryInv
<1>2. ASSUME NEW p \in Threads, QuietStep(p)
      PROVE  EntryInv'
  BY <1>2, QuietKeepsEntryInv
<1>3. ASSUME NEW p \in Threads, PushFn(p) \/ PushArg(p)
      PROVE  EntryInv'
  BY <1>3, WritingKeepsEntryInv
<1>4. ASSUME NEW p \in Threads, PushBottom(p)
      PROVE  EntryInv'
  BY <1>4, PublishingKeepsEntryInv
<1>5. ASSUME NEW p \in Threads, PopArg(p), ~ LastEntry(p)
      PROVE  EntryInv'
  BY <1>5, PoppingKeepsEntryInv
<1>6. ASSUME NEW p \in Threads, PopCas(p) \/ StealCas(p), Compared(p)
      PROVE  EntryInv'
  BY <1>6, ExchangingKeepsEntryInv
<1>7. ASSUME NEW p \in Threads, Run(p)
      PROVE  EntryInv'
  BY <1>7, RunningKeepsEntryInv
<1>8. CASE UNCHANGED vars
  BY <1>8 DEF vars, memory, history, locals, EntryInv, OnePlace, InOneHand, InOneSlot, HandOrSlot,
              RunFromHand, Accounted, Has, Queued, Live, Limit, InWindow, FnAt, ArgAt, FnCell,
              ArgCell, EntriesWhole, HandsWhole, SlotsWritten, SlotsRead
<1>9. QED
  <2> HIDE DEF LastEntry, Compared
  <2>1. ASSUME NEW p \in Threads, Push(p) \/ Pop(p) \/ Steal(p)
        PROVE  \/ QuietStep(p) \/ PushFn(p) \/ PushArg(p) \/ PushBottom(p)
               \/ PopArg(p) /\ ~ LastEntry(p)
               \/ (PopCas(p) \/ StealCas(p)) /\ Compared(p)
    BY <2>1 DEF Push, Pop, Steal, QuietStep
  <2>2. ASSUME NEW p \in Threads, CallPop(p) \/ CallSteal(p)
        PROVE  QuietStep(p)
    BY <2>2 DEF CallPop, CallSteal, QuietStep
  <2>3. QED
    BY <1>1, <1>2, <1>3, <1>4, <1>5, <1>6, <1>7, <1>8, <2>1, <2>2 DEF Next, CallPush, Inside

(* Queues as InitializeQueue leaves them hold nothing.                     *)
LEMMA EntryInit == Init => EntryInv
<1> SUFFICES ASSUME Init PROVE EntryInv
  OBVIOUS
<1>1. /\ \A p \in Threads : pc[p] = "idle"
      /\ \A q \in Queues : top[q] = 0 /\ bottom[q] = 0
      /\ \A x \in Items : runs[x] = 0
      /\ submitted = {}
  BY DEF Init
<1>2. \A q \in Queues : Live(q) = {}
  BY <1>1 DEF Live, Limit, InWindow, PopWindow
<1>3. \A p \in Threads : pc[p] \notin Handling
  BY <1>1 DEF Handling, PushLabel
<1>4. OnePlace
  BY <1>1, <1>2, <1>3 DEF OnePlace, InOneHand, InOneSlot, HandOrSlot, RunFromHand, Accounted,
                          Has, Queued
<1>5. EntriesWhole /\ HandsWhole /\ SlotsWritten /\ SlotsRead
  BY <1>1, <1>2, <1>3 DEF EntriesWhole, HandsWhole, SlotsWritten, SlotsRead
<1>6. QED
  BY <1>4, <1>5 DEF EntryInv

(* A queue that is pushed to only while it holds fewer than MaxQueued      *)
(* entries leaves room for the next until the push is over.                *)
LEMMA RoomInductive ==
  ASSUME MaxQueued <= Gap, Gap \in Nat, TypeOK, OneInside, Room, [Next]_vars
  PROVE  Room'
<1> USE DEF Room, TypeOK, memory, history, locals, Goto, Leave, Discard, Ready,
            PushLabel, PopLabel, StealLabel
<1>1. ASSUME NEW p \in Threads, NEW q \in Queues, NEW x \in Items, PushBegin(p, q, x)
      PROVE  Room'
  <2>1. bottom[q] - top[q] < Gap
    BY <1>1, QueueAssumption DEF PushBegin
  <2>2. QED
    BY <1>1, <2>1 DEF PushBegin
<1>2. ASSUME NEW p \in Threads,
             \/ \E q \in Queues : PopBegin(p, q) \/ StealBegin(p, q)
             \/ PushTop(p) \/ PushFn(p) \/ PushArg(p) \/ PopTop(p) \/ PopFn(p) \/ PopArg(p)
             \/ StealBottom(p) \/ StealFn(p) \/ StealArg(p) \/ Run(p)
      PROVE  Room'
  BY <1>2 DEF PopBegin, StealBegin, PushTop, PushFn, PushArg, PopTop, PopFn, PopArg,
              StealBottom, StealFn, StealArg, Run

(* Only the thread inside Push or Pop moves bottom.                        *)
<1>3. ASSUME NEW p \in Threads, PushBottom(p) \/ PopStore(p) \/ PopWon(p) \/ PopLost(p)
      PROVE  Room'
  <2> SUFFICES ASSUME NEW s \in Threads, pc'[s] \in PushLabel
               PROVE  bottom'[on'[s]] - top'[on'[s]] < Gap
    OBVIOUS
  <2>1. s # p /\ pc[s] \in PushLabel /\ on' = on /\ top' = top
    BY <1>3 DEF PushBottom, PopStore, PopWon, PopLost
  <2>2. on[s] # on[p]
    BY <1>3, <2>1 DEF OneInside, PushBottom, PopStore, PopWon, PopLost
  <2>3. bottom'[on[s]] = bottom[on[s]]
    BY <1>3, <2>2 DEF PushBottom, PopStore, PopWon, PopLost
  <2>4. QED
    BY <2>1, <2>3
<1>4. ASSUME NEW p \in Threads, PopCas(p) \/ StealCas(p)
      PROVE  Room'
  <2> SUFFICES ASSUME NEW s \in Threads, pc'[s] \in PushLabel
               PROVE  bottom'[on'[s]] - top'[on'[s]] < Gap
    OBVIOUS
  <2>1. pc[s] \in PushLabel /\ on' = on /\ bottom' = bottom
    BY <1>4 DEF PopCas, StealCas
  <2>2. top'[on[s]] \in Nat /\ top[on[s]] <= top'[on[s]]
    <3>1. top' = top \/ (top' = [top EXCEPT ![on[p]] = @ + 1])
      BY <1>4 DEF PopCas, StealCas
    <3>2. QED
      BY <3>1
  <2>3. bottom[on[s]] - top[on[s]] < Gap /\ bottom[on[s]] \in Int /\ top[on[s]] \in Int
    BY <2>1
  <2>4. QED
    BY <2>1, <2>2, <2>3
<1>5. CASE UNCHANGED vars
  BY <1>5 DEF vars
<1>6. QED
  BY <1>1, <1>2, <1>3, <1>4, <1>5 DEF Next, CallPush, CallPop, CallSteal, Inside, Push, Pop, Steal

-----------------------------------------------------------------------------
(* What follows for the callers of the queues.                             *)
LEMMA WholeInHand == EntryInv => HandedOutWhole
<1> SUFFICES ASSUME EntryInv, NEW p \in Threads, pc[p] = "run"
             PROVE  \E x \in submitted : fn[p] = FnWord(x) /\ arg[p] = ArgWord(x)
  BY DEF HandedOutWhole
<1>1. PICK x \in Items : fn[p] = FnWord(x) /\ arg[p] = ArgWord(x)
  BY DEF EntryInv, HandsWhole, Handling
<1>2. x \in submitted
  BY <1>1 DEF EntryInv, OnePlace, Accounted, Has, Handling
<1>3. QED
  BY <1>1, <1>2

(* A task in one place is in one hand at most, and run once.               *)
LEMMA OnceInHand == EntryInv => AtMostOnce
<1> SUFFICES ASSUME EntryInv, NEW x \in Items
             PROVE  runs[x] + Cardinality({p \in Threads : Holds(p, x)}) <= 1
  BY DEF AtMostOnce
<1>1. \A p \in Threads : Holds(p, x) => Has(p, x)
  BY DEF Holds, Has, Handling
<1>2. runs[x] \in {0, 1}
  BY DEF EntryInv, OnePlace, RunFromHand
<1>3. CASE \E p \in Threads : Holds(p, x)
  <2>1. PICK p \in Threads : Holds(p, x)
    BY <1>3
  <2>2. \A r \in Threads : Holds(r, x) => r = p
    BY <1>1, <2>1 DEF EntryInv, OnePlace, InOneHand
  <2>3. {r \in Threads : Holds(r, x)} = {p}
    BY <2>1, <2>2
  <2>4. runs[x] = 0
    BY <1>1, <1>2, <2>1 DEF EntryInv, OnePlace, RunFromHand
  <2>5. QED
    BY <2>3, <2>4, FS_Singleton
<1>4. CASE \A p \in Threads : ~ Holds(p, x)
  <2>1. {r \in Threads : Holds(r, x)} = {}
    BY <1>4
  <2>2. QED
    BY <1>2, <2>1, FS_EmptySet
<1>5. QED
  BY <1>3, <1>4

(* A task that is in no hand and in no queue was run.                      *)
LEMMA EmptyMeansRun ==
  ASSUME TypeOK, EntryInv
  PROVE  NothingLost
<1> SUFFICES ASSUME \A p \in Threads : pc[p] \in Ready,
                    \A q \in Queues : top[q] >= bottom[q],
                    NEW x \in submitted
             PROVE  runs[x] >= 1
  BY DEF NothingLost
<1>1. \A q \in Queues : ~ InWindow(q)
  BY DEF InWindow, PopWindow, Ready
<1>2. \A q \in Queues : Live(q) = {}
  BY <1>1 DEF Live, Limit, TypeOK
<1>3. \A p \in Threads : ~ Has(p, x)
  BY DEF Has, Handling, PushLabel, Ready
<1>4. QED
  BY <1>2, <1>3 DEF EntryInv, OnePlace, Accounted, Queued, TypeOK

(* While each queue has one owner and holds no more entries than the       *)
(* overlapping slot arrays bear, every task is in one place and whole.     *)
THEOREM EntriesAreSound ==
  ASSUME SingleOwner, PtrSize >= 2, MaxQueued <= QueueSize \div PtrSize
  PROVE  Spec => [](TypeOK /\ IndexInv /\ Room /\ EntryInv)
<1> DEFINE Sound == TypeOK /\ IndexInv /\ Room /\ EntryInv
<1>1. Gap \in Nat /\ MaxQueued <= Gap
  BY GapFits DEF Gap
<1>2. Init => Sound
  <2>1. Init => Room
    BY DEF Init, Room, PushLabel
  <2>2. QED
    BY <2>1, TypeInit, IndexInit, EntryInit
<1>3. Sound /\ [Next]_vars => Sound'
  <2> SUFFICES ASSUME Sound, [Next]_vars PROVE Sound'
    OBVIOUS
  <2>1. OneInside
    BY OwnersExclude DEF IndexInv
  <2>2. TypeOK'
    BY TypeStep
  <2>3. IndexInv'
    BY <2>1, IndexInvInductive
  <2>4. Room'
    BY <1>1, <2>1, RoomInductive
  <2>5. EntryInv'
    BY <2>1, EntryInvInductive
  <2>6. QED
    BY <2>2, <2>3, <2>4, <2>5
<1>4. QED
  BY <1>2, <1>3, PTL DEF Spec

(* What Pop and Steal hand out is one task with its own payload: the two   *)
(* slot accesses of an entry never mix two tasks.                          *)
THEOREM WholeTasksOnly ==
  ASSUME SingleOwner, PtrSize >= 2, MaxQueued <= QueueSize \div PtrSize
  PROVE  Spec => []HandedOutWhole
BY EntriesAreSound, WholeInHand, PTL

(* However many thieves contend with the owner for the last entry, a task  *)
(* is taken by one thread and run once.                                    *)
THEOREM NoTaskTwice ==
  ASSUME SingleOwner, PtrSize >= 2, MaxQueued <= QueueSize \div PtrSize
  PROVE  Spec => []AtMostOnce
BY EntriesAreSound, OnceInHand, PTL

(* When the queues read as empty and nobody is in an operation, all that   *)
(* was submitted has been run.                                             *)
THEOREM NoTaskLost ==
  ASSUME SingleOwner, PtrSize >= 2, MaxQueued <= QueueSize \div PtrSize
  PROVE  Spec => []NothingLost
<1>1. TypeOK /\ EntryInv => NothingLost
  BY EmptyMeansRun
<1>2. QED
  BY <1>1, EntriesAreSound, PTL

-----------------------------------------------------------------------------
(* The queues implement the bag of TaskBag: every step puts a task, takes  *)
(* one, runs one at once, finishes one or does nothing the bag can see.    *)
InBag(x) == /\ x \in submitted /\ ~ BeingPushed(x) /\ runs[x] = 0
            /\ \A p \in Threads : ~ Holds(p, x)
Started(x) == x \in submitted /\ ~ BeingPushed(x)
InHand(p) == IF pc[p] = "run" THEN <<fn[p], arg[p]>> ELSE <<NULL, NULL>>

BagUnseen == /\ \A x \in Items : (InBag(x)' <=> InBag(x)) /\ (Started(x)' <=> Started(x))
             /\ \A p \in Threads : InHand(p)' = InHand(p)

(* Seen from the bag, such a step changes nothing.                         *)
LEMMA UnseenStutters ==
  ASSUME TypeOK, TypeOK', BagUnseen
  PROVE  UNCHANGED Bag!bagVars
<1>1. {x \in submitted : /\ ~ BeingPushed(x) /\ runs[x] = 0
                         /\ \A p \in Threads : ~ Holds(p, x)}'
      = {x \in submitted : /\ ~ BeingPushed(x) /\ runs[x] = 0
                          /\ \A p \in Threads : ~ Holds(p, x)}
  BY DEF BagUnseen, InBag, TypeOK
<1>2. [p \in Threads |-> IF pc[p] = "run" THEN <<fn[p], arg[p]>> ELSE <<NULL, NULL>>]'
      = [p \in Threads |-> IF pc[p] = "run" THEN <<fn[p], arg[p]>> ELSE <<NULL, NULL>>]
  BY DEF BagUnseen, InHand
<1>3. {x \in submitted : ~ BeingPushed(x)}' = {x \in submitted : ~ BeingPushed(x)}
  BY DEF BagUnseen, Started, TypeOK
<1>4. QED
  BY <1>1, <1>2, <1>3 DEF Bag!bagVars

(* Reading, writing slots and losing an exchange cannot be seen.           *)
LEMMA UnseenSteps ==
  ASSUME TypeOK, NEW p \in Threads,
         \/ QuietStep(p) /\ ~ PopWon(p) /\ pc'[p] # "run"
         \/ PushFn(p) \/ PushArg(p) \/ PopCas(p)
  PROVE  BagUnseen
<1>1. UNCHANGED history
  BY DEF QuietStep, PushFn, PushArg, PopBegin, StealBegin, PushTop, PopStore, PopTop, PopFn, PopArg,
         PopCas, PopLost, StealBottom, StealFn, StealArg, StealCas
<1>2. \A s \in Threads :
        /\ pc'[s] \in PushLabel <=> pc[s] \in PushLabel
        /\ pc'[s] = "run" <=> pc[s] = "run"
        /\ pc[s] \in PushLabel \cup {"run"} => fn'[s] = fn[s] /\ arg'[s] = arg[s]
  BY DEF QuietStep, TypeOK, Goto, Leave, Discard, Ready, PushLabel, PushFn, PushArg, PopBegin,
         StealBegin, PushTop, PopStore, PopTop, PopFn, PopArg, PopCas, PopLost, StealBottom,
         StealFn, StealArg, StealCas
<1>3. \A s \in Threads : InHand(s)' = InHand(s)
  BY <1>2 DEF InHand
<1>4. \A x \in Items : /\ BeingPushed(x)' <=> BeingPushed(x)
                       /\ \A s \in Threads : Holds(s, x)' <=> Holds(s, x)
  BY <1>2 DEF BeingPushed, Holds
<1>5. QED
  BY <1>1, <1>3, <1>4 DEF BagUnseen, InBag, Started, history

(* Nor can a call of Push, before it has published the task.               *)
LEMMA SubmittingUnseen ==
  ASSUME TypeOK, EntryInv, NEW p \in Threads, NEW q \in Queues, NEW x \in Items,
         PushBegin(p, q, x)
  PROVE  BagUnseen
<1>1. /\ pc[p] \in Ready /\ pc'[p] = "push_top" /\ fn'[p] = FnWord(x)
      /\ x \notin submitted /\ submitted' = submitted \cup {x} /\ runs' = runs
      /\ \A s \in Threads : s # p => pc'[s] = pc[s] /\ fn'[s] = fn[s] /\ arg'[s] = arg[s]
  BY DEF PushBegin, TypeOK, Goto
<1>2. \A s \in Threads : InHand(s)' = InHand(s)
  BY <1>1 DEF InHand, Ready
<1>3. /\ \A y \in Items : BeingPushed(y)' <=> BeingPushed(y) \/ y = x
      /\ \A y \in Items, s \in Threads : Holds(s, y)' <=> Holds(s, y)
  BY <1>1 DEF BeingPushed, Holds, PushLabel, Ready, FnWord
<1>4. QED
  BY <1>1, <1>2, <1>3 DEF BagUnseen, InBag, Started

(* A step of the queues as the bag sees it, item by item.                  *)
Gets(p, x) == /\ InHand(p) = <<NULL, NULL>> /\ InHand(p)' = <<FnWord(x), ArgWord(x)>>
              /\ \A s \in Threads : s # p => InHand(s)' = InHand(s)
Starts(x) == /\ ~ Started(x)
             /\ \A y \in Items : Started(y)' <=> Started(y) \/ y = x

SeenPut(x) == /\ Starts(x) /\ \A y \in Items : InBag(y)' <=> InBag(y) \/ y = x
              /\ \A s \in Threads : InHand(s)' = InHand(s)
SeenRunAtOnce(p, x) == Starts(x) /\ Gets(p, x) /\ \A y \in Items : InBag(y)' <=> InBag(y)
SeenTake(p, x) == /\ InBag(x) /\ Gets(p, x)
                  /\ \A y \in Items : (InBag(y)' <=> InBag(y) /\ y # x) /\ (Started(y)' <=> Started(y))
SeenFinish(p, x) ==
  /\ InHand(p) = <<FnWord(x), ArgWord(x)>> /\ InHand(p)' = <<NULL, NULL>>
  /\ \A s \in Threads : s # p => InHand(s)' = InHand(s)
  /\ \A y \in Items : (InBag(y)' <=> InBag(y)) /\ (Started(y)' <=> Started(y))

(* What can be seen of the others is a step of the bag.                    *)
LEMMA SeenSteps ==
  ASSUME TypeOK, TypeOK', NEW p \in Threads, NEW x \in Items,
         SeenPut(x) \/ SeenRunAtOnce(p, x) \/ SeenTake(p, x) \/ SeenFinish(p, x)
  PROVE  Bag!Next
<1> DEFINE bag  == {y \in submitted : /\ ~ BeingPushed(y) /\ runs[y] = 0
                                     /\ \A s \in Threads : ~ Holds(s, y)}
           held == [s \in Threads |-> IF pc[s] = "run" THEN <<fn[s], arg[s]>> ELSE <<NULL, NULL>>]
           started == {y \in submitted : ~ BeingPushed(y)}
<1>1. /\ bag \subseteq Items /\ bag' \subseteq Items
      /\ started \subseteq Items /\ started' \subseteq Items
  BY DEF TypeOK
<1>2. /\ \A y \in Items : (y \in bag <=> InBag(y)) /\ (y \in bag' <=> InBag(y)')
      /\ \A y \in Items : (y \in started <=> Started(y)) /\ (y \in started' <=> Started(y)')
  BY DEF InBag, Started
<1>3. /\ \A s \in Threads : held[s] = InHand(s) /\ held'[s] = InHand(s)'
      /\ held = [s \in Threads |-> held[s]] /\ held' = [s \in Threads |-> held'[s]]
  BY DEF InHand
<1>4. <<FnWord(x), ArgWord(x)>> # <<NULL, NULL>>
  BY QueueAssumption DEF FnWord, ArgWord
<1>5. /\ Bag!Nothing = <<NULL, NULL>>
      /\ Bag!Pair(x) = <<FnWord(x), ArgWord(x)>>
  BY DEF Bag!Nothing, Bag!Pair, FnWord, ArgWord
<1> HIDE DEF bag, held, started
<1>6. \/ /\ x \notin started /\ started' = started \cup {x}
         /\ bag' = bag \cup {x} /\ held' = held
      \/ /\ x \notin started /\ held[p] = Bag!Nothing
         /\ started' = started \cup {x} /\ held' = [held EXCEPT ![p] = Bag!Pair(x)]
         /\ bag' = bag
      \/ /\ x \in bag /\ held[p] = Bag!Nothing
         /\ bag' = bag \ {x} /\ held' = [held EXCEPT ![p] = Bag!Pair(x)]
         /\ started' = started
      \/ /\ held[p] # Bag!Nothing /\ held' = [held EXCEPT ![p] = Bag!Nothing]
         /\ bag' = bag /\ started' = started
  BY <1>1, <1>2, <1>3, <1>4, <1>5 DEF SeenPut, SeenRunAtOnce, SeenTake, SeenFinish, Gets, Starts
<1>7. Bag!Put(x) \/ Bag!RunAtOnce(p, x) \/ Bag!Take(p, x) \/ Bag!Finish(p)
  BY <1>6 DEF bag, held, started, Bag!Put, Bag!RunAtOnce, Bag!Take, Bag!Finish
<1>8. QED
  BY <1>7 DEF Bag!Next

(* The store of bottom in Push puts its task into the bag.                 *)
LEMMA PublishingPuts ==
  ASSUME TypeOK, EntryInv, NEW p \in Threads, PushBottom(p)
  PROVE  \E x \in Items : SeenPut(x)
<1>1. /\ pc[p] = "push_bottom" /\ pc'[p] = "idle" /\ UNCHANGED history
      /\ \A s \in Threads : s # p => pc'[s] = pc[s] /\ fn'[s] = fn[s] /\ arg'[s] = arg[s]
  BY DEF PushBottom, TypeOK, Leave, Goto, Discard
<1>2. PICK x \in Items : fn[p] = FnWord(x)
  BY <1>1 DEF EntryInv, HandsWhole, Handling, PushLabel
<1>3. Has(p, x)
  BY <1>1, <1>2 DEF Has, Handling, PushLabel
<1>4. /\ x \in submitted /\ runs[x] = 0
      /\ \A s \in Threads : Has(s, x) => s = p
  BY <1>3 DEF EntryInv, OnePlace, InOneHand, RunFromHand, Accounted
<1>5. /\ BeingPushed(x)
      /\ \A y \in Items : BeingPushed(y)' <=> BeingPushed(y) /\ y # x
      /\ \A s \in Threads : ~ Holds(s, x)
      /\ \A s \in Threads, y \in Items : Holds(s, y)' <=> Holds(s, y)
  BY <1>1, <1>2, <1>3, <1>4 DEF BeingPushed, Holds, Has, Handling, PushLabel, FnWord
<1>6. \A s \in Threads : InHand(s)' = InHand(s)
  BY <1>1 DEF InHand
<1>7. SeenPut(x)
  BY <1>1, <1>4, <1>5, <1>6 DEF SeenPut, Starts, Started, InBag, history
<1>8. QED
  BY <1>7

(* A Push that finds no room runs the task instead.                        *)
LEMMA FullPushRunsAtOnce ==
  ASSUME TypeOK, EntryInv, NEW p \in Threads, PushTop(p), pc'[p] = "run"
  PROVE  \E x \in Items : SeenRunAtOnce(p, x)
<1>1. /\ pc[p] = "push_top" /\ UNCHANGED <<history, fn, arg>>
      /\ \A s \in Threads : s # p => pc'[s] = pc[s]
  BY DEF PushTop, TypeOK, Leave, Goto
<1>2. PICK x \in Items : fn[p] = FnWord(x) /\ arg[p] = ArgWord(x)
  BY <1>1 DEF EntryInv, HandsWhole, Handling, PushLabel
<1>3. Has(p, x)
  BY <1>1, <1>2 DEF Has, Handling, PushLabel
<1>4. /\ x \in submitted /\ runs[x] = 0
      /\ \A s \in Threads : Has(s, x) => s = p
  BY <1>3 DEF EntryInv, OnePlace, InOneHand, RunFromHand, Accounted
<1>5. /\ BeingPushed(x)
      /\ \A y \in Items : BeingPushed(y)' <=> BeingPushed(y) /\ y # x
      /\ \A s \in Threads, y \in Items : Holds(s, y)' <=> Holds(s, y) \/ (s = p /\ y = x)
  BY <1>1, <1>2, <1>3, <1>4 DEF BeingPushed, Holds, Has, Handling, PushLabel, FnWord
<1>6. Gets(p, x)
  BY <1>1, <1>2 DEF Gets, InHand
<1>7. SeenRunAtOnce(p, x)
  BY <1>1, <1>4, <1>5, <1>6 DEF SeenRunAtOnce, Starts, Started, InBag, history
<1>8. QED
  BY <1>7

(* The step by which a thread leaves Pop or Steal with a task in its hand. *)
LeavesWithTask(p) == \/ PopArg(p) /\ ~ LastEntry(p)
                     \/ PopWon(p)
                     \/ StealCas(p) /\ Compared(p)

(* A Pop or Steal that returns a task takes it out of the bag,             *)
LEMMA LeavingTakes ==
  ASSUME TypeOK, EntryInv, NEW p \in Threads,
         LeavesWithTask(p),
         NEW x \in Items, runs[x] = 0, x \in submitted,
         fn'[p] = FnWord(x), arg'[p] = ArgWord(x),
         \A s \in Threads : Has(s, x) => s = p
  PROVE  SeenTake(p, x)
<1>1. /\ pc[p] \in {"pop_arg", "pop_won", "steal_cas"} /\ pc'[p] = "run"
      /\ UNCHANGED history
      /\ \A s \in Threads : s # p => pc'[s] = pc[s] /\ fn'[s] = fn[s] /\ arg'[s] = arg[s]
  BY DEF LeavesWithTask, PopArg, PopWon, StealCas, TypeOK, Leave, Goto
<1>2. /\ ~ BeingPushed(x) /\ \A s \in Threads : ~ Holds(s, x)
      /\ \A y \in Items : BeingPushed(y)' <=> BeingPushed(y)
      /\ \A s \in Threads, y \in Items : Holds(s, y)' <=> Holds(s, y) \/ (s = p /\ y = x)
  BY <1>1 DEF BeingPushed, Holds, Has, Handling, PushLabel, FnWord
<1>3. Gets(p, x)
  BY <1>1 DEF Gets, InHand
<1>4. QED
  BY <1>1, <1>2, <1>3 DEF SeenTake, Started, InBag, history

(* ... be it the last entry or the first,                                  *)
LEMMA EntryTaken ==
  ASSUME TypeOK, EntryInv, NEW p \in Threads, NEW j \in Live(on[p]),
         LeavesWithTask(p), ~ PopWon(p),
         fn'[p] = FnAt(on[p], j), arg'[p] = ArgAt(on[p], j)
  PROVE  \E x \in Items : SeenTake(p, x)
<1>1. on[p] \in Queues /\ j \in Int
  BY DEF TypeOK, Live, Limit
<1>2. PICK x \in Items : FnAt(on[p], j) = FnWord(x) /\ ArgAt(on[p], j) = ArgWord(x)
  BY <1>1 DEF EntryInv, EntriesWhole
<1>3. Queued(on[p], j, x)
  BY <1>2 DEF Queued
<1>4. x \in submitted /\ runs[x] = 0 /\ \A s \in Threads : ~ Has(s, x)
  BY <1>1, <1>3 DEF EntryInv, OnePlace, Accounted, RunFromHand, HandOrSlot
<1>5. SeenTake(p, x)
  BY <1>2, <1>4, LeavingTakes
<1>6. QED
  BY <1>5

(* ... or the one a Pop has won.                                           *)
LEMMA WinnerTakes ==
  ASSUME TypeOK, EntryInv, NEW p \in Threads, PopWon(p)
  PROVE  \E x \in Items : SeenTake(p, x)
<1>1. pc[p] = "pop_won" /\ UNCHANGED <<fn, arg>>
  BY DEF PopWon
<1>2. PICK x \in Items : fn[p] = FnWord(x) /\ arg[p] = ArgWord(x)
  BY <1>1 DEF EntryInv, HandsWhole, Handling
<1>3. Has(p, x)
  BY <1>1, <1>2 DEF Has, Handling
<1>4. x \in submitted /\ runs[x] = 0 /\ \A s \in Threads : Has(s, x) => s = p
  BY <1>3 DEF EntryInv, OnePlace, Accounted, RunFromHand, InOneHand
<1>5. fn'[p] = FnWord(x) /\ arg'[p] = ArgWord(x) /\ LeavesWithTask(p)
  BY <1>1, <1>2 DEF LeavesWithTask
<1>6. SeenTake(p, x)
  BY <1>4, <1>5, LeavingTakes
<1>7. QED
  BY <1>6

(* The return of the function finishes its task.                           *)
LEMMA RunningFinishes ==
  ASSUME TypeOK, EntryInv, NEW p \in Threads, Run(p)
  PROVE  \E x \in Items : SeenFinish(p, x)
<1>1. PICK x \in Items : fn[p] = FnWord(x) /\ runs' = [runs EXCEPT ![x] = @ + 1]
  BY DEF Run
<1>2. /\ pc[p] = "run" /\ pc'[p] = "idle" /\ submitted' = submitted
      /\ \A s \in Threads : s # p => pc'[s] = pc[s] /\ fn'[s] = fn[s] /\ arg'[s] = arg[s]
  BY DEF Run, TypeOK, Goto, Discard
<1>3. arg[p] = ArgWord(x)
  BY <1>1, <1>2 DEF EntryInv, HandsWhole, Handling, FnWord
<1>4. Has(p, x)
  BY <1>1, <1>2 DEF Has, Handling
<1>5. runs[x] = 0
  BY <1>4 DEF EntryInv, OnePlace, RunFromHand
<1>6. /\ Holds(p, x) /\ \A y \in Items : BeingPushed(y)' <=> BeingPushed(y)
      /\ \A s \in Threads, y \in Items : Holds(s, y)' <=> Holds(s, y) /\ s # p
      /\ \A y \in Items : Holds(p, y) => y = x
  BY <1>1, <1>2 DEF BeingPushed, Holds, PushLabel, FnWord
<1>7. /\ runs'[x] = 1 /\ \A y \in Items : y # x => runs'[y] = runs[y]
  BY <1>1, <1>5 DEF TypeOK
<1>8. SeenFinish(p, x)
  BY <1>1, <1>2, <1>3, <1>6, <1>7 DEF SeenFinish, Started, InBag, InHand
<1>9. QED
  BY <1>8

(* Every step of the queues is a step of the bag or cannot be seen.        *)
LEMMA BagStep ==
  ASSUME TypeOK, TypeOK', OneInside, IndexInv, EntryInv, [Next]_vars
  PROVE  [Bag!Next]_(Bag!bagVars)
<1>1. ASSUME NEW p \in Threads, NEW q \in Queues, NEW x \in Items, PushBegin(p, q, x)
      PROVE  BagUnseen
  BY <1>1, SubmittingUnseen
<1>2. ASSUME NEW p \in Threads,
             \/ QuietStep(p) /\ ~ PopWon(p) /\ pc'[p] # "run"
             \/ PushFn(p) \/ PushArg(p) \/ PopCas(p)
      PROVE  BagUnseen
  BY <1>2, UnseenSteps
<1>3. ASSUME NEW p \in Threads,
             PushBottom(p) \/ (PushTop(p) /\ pc'[p] = "run") \/ PopWon(p) \/ Run(p)
      PROVE  Bag!Next
  BY <1>3, PublishingPuts, FullPushRunsAtOnce, WinnerTakes, RunningFinishes, SeenSteps
<1>4. ASSUME NEW p \in Threads, PopArg(p), ~ LastEntry(p)
      PROVE  Bag!Next
  <2>1. locB[p] \in Live(on[p])
    BY <1>4, PopAimsAtLast DEF PopArg
  <2>2. fn'[p] = FnAt(on[p], locB[p]) /\ arg'[p] = ArgAt(on[p], locB[p])
    BY <1>4 DEF PopArg, EntryInv, SlotsRead, TypeOK, ArgAt
  <2>3. LeavesWithTask(p) /\ ~ PopWon(p)
    BY <1>4 DEF LeavesWithTask, PopArg, PopWon
  <2>4. \E x \in Items : SeenTake(p, x)
    BY <2>1, <2>2, <2>3, EntryTaken
  <2>5. QED
    BY <2>4, SeenSteps
<1>5. ASSUME NEW p \in Threads, StealCas(p), Compared(p)
      PROVE  Bag!Next
  <2>1. locT[p] = top[on[p]] /\ top[on[p]] \in Live(on[p])
    BY <1>5, StealAimsAtFirst DEF StealCas, PastTest
  <2>2. fn'[p] = FnAt(on[p], top[on[p]]) /\ arg'[p] = ArgAt(on[p], top[on[p]])
    BY <1>5, <2>1 DEF StealCas, EntryInv, SlotsRead
  <2>3. LeavesWithTask(p) /\ ~ PopWon(p)
    BY <1>5 DEF LeavesWithTask, StealCas, PopWon
  <2>4. \E x \in Items : SeenTake(p, x)
    BY <2>1, <2>2, <2>3, EntryTaken
  <2>5. QED
    BY <2>4, SeenSteps
<1>6. ASSUME UNCHANGED vars
      PROVE  BagUnseen
  BY <1>6 DEF vars, memory, history, locals, BagUnseen, InBag, Started, InHand, BeingPushed, Holds
<1>7. QED
  <2> HIDE DEF LastEntry, Compared
  <2>1. ASSUME NEW p \in Threads, Push(p) \/ Pop(p) \/ Steal(p)
        PROVE  \/ QuietStep(p) /\ ~ PopWon(p) /\ pc'[p] # "run"
               \/ PushFn(p) \/ PushArg(p) \/ PopCas(p)
               \/ PushBottom(p) \/ (PushTop(p) /\ pc'[p] = "run") \/ PopWon(p)
               \/ PopArg(p) /\ ~ LastEntry(p)
               \/ StealCas(p) /\ Compared(p)
    <3>1. ASSUME QuietStep(p), ~ PopWon(p), ~ PushTop(p)
          PROVE  pc'[p] # "run"
      BY <3>1 DEF QuietStep, TypeOK, Goto, Leave, PopBegin, StealBegin, PopStore, PopTop, PopFn,
                  PopArg, PopCas, PopLost, StealBottom, StealFn, StealArg, StealCas
    <3>2. QED
      BY <2>1, <3>1 DEF Push, Pop, Steal, QuietStep
  <2>2. ASSUME NEW p \in Threads, CallPop(p) \/ CallSteal(p)
        PROVE  QuietStep(p) /\ ~ PopWon(p) /\ pc'[p] # "run"
    BY <2>2 DEF CallPop, CallSteal, QuietStep, PopBegin, StealBegin, PopWon, TypeOK, Goto, Ready
  <2>3. BagUnseen \/ Bag!Next
    BY <1>1, <1>2, <1>3, <1>4, <1>5, <1>6, <2>1, <2>2 DEF Next, CallPush, Inside
  <2>4. QED
    BY <2>3, UnseenStutters

(* Empty queues are an empty bag.                                          *)
LEMMA BagInit == Init => Bag!Init
BY DEF Init, Bag!Init, Bag!Nothing

(* Tasks go in, each is taken whole by one thread and finished, and        *)
(* nothing else can be seen of the indices, the slots and the exchanges.   *)
THEOREM QueueIsABag ==
  ASSUME SingleOwner, PtrSize >= 2, MaxQueued <= QueueSize \div PtrSize
  PROVE  Spec => ImplementsBag
<1>1. /\ TypeOK /\ IndexInv /\ Room /\ EntryInv
      /\ (TypeOK /\ IndexInv /\ Room /\ EntryInv)'
      /\ [Next]_vars
      => [Bag!Next]_(Bag!bagVars)
  BY BagStep, OwnersExclude DEF IndexInv
<1>2. QED
  BY <1>1, BagInit, EntriesAreSound, PTL DEF Spec, ImplementsBag, Bag!Spec

=============================================================================
