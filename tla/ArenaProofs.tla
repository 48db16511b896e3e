---------------------------- MODULE ArenaProofs ----------------------------
(***************************************************************************)
(* Theorems about Arena, for every number of workers and blocks, every     *)
(* page, zone and request size, and every depth of nested Scheduler_Sync   *)
(* calls, in a build with assertions.                                      *)
(***************************************************************************)
EXTENDS Arena, SequenceTheorems, TLAPS

(* ALIGN never moves an address down.                                      *)
LEMMA PaddingIsNat ==
  ASSUME NEW address \in Nat, NEW alignment \in Nat \ {0}
  PROVE  Padding(address, alignment) \in Nat
<1>1. address % alignment \in 0 .. alignment - 1
  OBVIOUS
<1>2. alignment - (address % alignment) \in Nat
  BY <1>1
<1>3. QED
  BY <1>2 DEF Padding

(* The arenas, their kinds, and the zones of two arenas of one thread.     *)
LEMMA ArenaFacts ==
  /\ Persistent \in Arenas
  /\ \A p \in Threads : Transient(p) \in Arenas /\ Transient(p) # Persistent
  /\ \A p, q \in Threads : Transient(p) = Transient(q) => p = q
  /\ Main \in Threads /\ Workers \subseteq Threads
  /\ \A a \in Arenas : Base(a) \in Nat /\ MaxCapacity(a) \in Nat /\ a[1] \in Threads
BY ArenaAssumption DEF Arenas, Transient, Persistent, Threads, Base, MaxCapacity

(* The two zones of the main thread do not overlap, those of another       *)
(* thread are one.                                                         *)
LEMMA ZonesApart ==
  ASSUME NEW a \in Arenas, NEW b \in Arenas, a # b, a[1] = b[1]
  PROVE  \/ Base(a) + MaxCapacity(a) <= Base(b)
         \/ Base(b) + MaxCapacity(b) <= Base(a)
<1>1. \/ a = Persistent /\ b = Transient(Main)
      \/ b = Persistent /\ a = Transient(Main)
  BY DEF Arenas, Transient, Persistent, Threads
<1>2. QED
  BY <1>1, ArenaFacts, ArenaAssumption DEF Base, MaxCapacity

-----------------------------------------------------------------------------
(* What an allocation does to the types and, if it does not overflow, to   *)
(* the invariant: the new block lies above all blocks of its arena.        *)

(* Moving the offset hands out a block of the type of blocks.              *)
LEMMA BumpType ==
  ASSUME TypeOK, NEW a \in Arenas, NEW id \in Ids, NEW padding \in Nat,
         NEW size \in Nat, Bump(a, id, padding, size)
  PROVE  offset' \in [Arenas -> Nat] /\ blocks' \in SUBSET Block
<1>1. offset' \in [Arenas -> Nat]
  BY DEF Bump, NewOffset, TypeOK
<1>2. Base(a) + offset[a] + padding \in Nat
  BY ArenaFacts DEF TypeOK
<1>3. (IF a = Transient(Main) THEN Len(saved) ELSE 0) \in Nat
  BY DEF TypeOK
<1>4. [id |-> id, arena |-> a, start |-> Base(a) + offset[a] + padding,
       end |-> Base(a) + offset[a] + padding + size,
       depth |-> IF a = Transient(Main) THEN Len(saved) ELSE 0] \in Block
  BY <1>2, <1>3 DEF Block
<1>5. QED
  BY <1>1, <1>4 DEF Bump, NewOffset, HandOut, TypeOK

(* Committing more pages keeps the types, whether the system grants them   *)
(* or not.                                                                 *)
LEMMA GrowType ==
  ASSUME TypeOK, NEW a \in Arenas, NEW id \in Ids, NEW padding \in Nat,
         NEW size \in Nat, padding + size > capacity[a], Grow(a, id, padding, size)
  PROVE  /\ offset' \in [Arenas -> Nat] /\ blocks' \in SUBSET Block
         /\ capacity' \in [Arenas -> Nat]
         /\ committed' \in [Threads -> SUBSET Nat]
<1> DEFINE bytesNeeded == padding + size - capacity[a]
           spaceInPages == PageAlign(bytesNeeded) * 2
           pages == PagesOf(Base(a) + capacity[a], spaceInPages)
<1>1. bytesNeeded \in Nat
  BY DEF TypeOK
<1>2. PageAlign(bytesNeeded) \in Nat
  BY <1>1, PaddingIsNat, ArenaAssumption DEF PageAlign
<1>3. spaceInPages \in Nat
  BY <1>2
<1>4. pages \in SUBSET Nat
  BY DEF PagesOf
<1>5. a[1] \in Threads
  BY ArenaFacts
<1> HIDE DEF pages, spaceInPages, bytesNeeded
<1>6. PICK commits, locks \in BOOLEAN :
        /\ committed' = IF commits
                        THEN [committed EXCEPT ![a[1]] = @ \cup pages]
                        ELSE committed
        /\ IF commits /\ locks
           THEN UNCHANGED <<offset, capacity, blocks>>
           ELSE /\ capacity' = [capacity EXCEPT ![a] = @ + spaceInPages]
                /\ Bump(a, id, padding, size)
  BY DEF Grow, pages, spaceInPages, bytesNeeded
<1>7. committed' \in [Threads -> SUBSET Nat]
  BY <1>4, <1>5, <1>6 DEF TypeOK
<1>8. CASE commits /\ locks
  BY <1>6, <1>7, <1>8 DEF TypeOK
<1>9. CASE ~ (commits /\ locks)
  <2>1. capacity' = [capacity EXCEPT ![a] = @ + spaceInPages] /\ Bump(a, id, padding, size)
    BY <1>6, <1>9
  <2>2. capacity' \in [Arenas -> Nat]
    BY <2>1, <1>3 DEF TypeOK
  <2>3. QED
    BY <1>7, <2>1, <2>2, BumpType
<1>10. QED
  BY <1>8, <1>9

(* So does ThreadArena_Allocate as a whole.                                *)
LEMMA AllocateType ==
  ASSUME TypeOK, NEW a \in Arenas, NEW id \in Ids, NEW size \in Sizes,
         NEW alignment \in Alignments, ThreadArenaAllocate(a, id, size, alignment)
  PROVE  TypeOK'
<1> DEFINE padding == Padding(Base(a) + offset[a], alignment)
<1>1. size \in Nat /\ padding \in Nat
  <2>1. Base(a) + offset[a] \in Nat
    BY ArenaFacts DEF TypeOK
  <2>2. QED
    BY <2>1, PaddingIsNat, ArenaAssumption
<1> HIDE DEF padding
<1>2. /\ saved' = saved /\ inTask' = inTask /\ frame' = frame
      /\ aborted' \in BOOLEAN
  BY DEF ThreadArenaAllocate, TypeOK
<1>3. CASE UNCHANGED <<offset, capacity, committed, blocks>>
  BY <1>2, <1>3 DEF TypeOK
<1>4. CASE padding + size > capacity[a] /\ Grow(a, id, padding, size)
  BY <1>1, <1>2, <1>4, GrowType DEF TypeOK
<1>5. CASE Bump(a, id, padding, size) /\ UNCHANGED <<capacity, committed>>
  BY <1>1, <1>2, <1>5, BumpType DEF TypeOK
<1>6. QED
  BY <1>3, <1>4, <1>5 DEF ThreadArenaAllocate, padding

(* ThreadArena_Reset takes blocks away and adds none.                      *)
LEMMA ResetType ==
  ASSUME TypeOK, NEW p, Reset(p)
  PROVE  offset' \in [Arenas -> Nat] /\ blocks' \in SUBSET Block
<1>1. offset' \in [Arenas -> Nat]
  BY DEF Reset, TypeOK
<1>2. blocks' \subseteq blocks
  BY DEF Reset
<1>3. QED
  BY <1>1, <1>2 DEF TypeOK

(* Every operation keeps every variable in its type.                       *)
THEOREM TypeCorrect == Spec => []TypeOK
<1>1. Init => TypeOK
  <2> SUFFICES ASSUME Init PROVE TypeOK
    OBVIOUS
  <2>1. PagesOf(0, Baseline) \in SUBSET Nat /\ PagesOf(ZoneSize, Baseline) \in SUBSET Nat
    BY DEF PagesOf
  <2>2. committed \in [Threads -> SUBSET Nat]
    BY <2>1 DEF Init
  <2>3. offset \in [Arenas -> Nat] /\ capacity \in [Arenas -> Nat]
    BY ArenaAssumption DEF Init
  <2>4. blocks \in SUBSET Block /\ saved \in Seq(Nat)
    BY DEF Init
  <2>5. QED
    BY <2>2, <2>3, <2>4 DEF Init, TypeOK
<1>2. TypeOK /\ [Next]_vars => TypeOK'
  <2> SUFFICES ASSUME TypeOK, [Next]_vars PROVE TypeOK'
    OBVIOUS
  <2>1. ASSUME NEW p \in Threads, NEW id \in Ids, NEW size \in Sizes,
               NEW alignment \in Alignments, AllocateTransient(p, id, size, alignment)
        PROVE  TypeOK'
    BY <2>1, ArenaFacts, AllocateType DEF AllocateTransient
  <2>2. ASSUME NEW id \in Ids, NEW size \in Sizes, NEW alignment \in Alignments,
               AllocatePersistent(id, size, alignment)
        PROVE  TypeOK'
    BY <2>2, ArenaFacts, AllocateType DEF AllocatePersistent
  <2>3. ASSUME NEW w \in Workers,
               PersistentOnWorker(w) \/ WorkerTask(w) \/ WorkerIdle(w)
        PROVE  TypeOK'
    <3>1. CASE PersistentOnWorker(w)
      BY <3>1, ArenaAssumption DEF PersistentOnWorker, TypeOK
    <3>2. CASE WorkerTask(w)
      BY <3>2 DEF WorkerTask, TypeOK
    <3>3. CASE WorkerIdle(w)
      BY <3>3, ResetType DEF WorkerIdle, TypeOK
    <3>4. QED
      BY <2>3, <3>1, <3>2, <3>3
  <2>4. ASSUME NEW b \in blocks, Free(b) PROVE TypeOK'
    BY <2>4 DEF Free, TypeOK
  <2>5. CASE Update
    <3>1. frame' \in {0, 1}
      BY <2>5 DEF Update, TypeOK
    <3>2. QED
      BY <2>5, <3>1, ResetType DEF Update, TypeOK
  <2>6. CASE SyncTaskBegins
    BY <2>6, ArenaFacts DEF SyncTaskBegins, TypeOK
  <2>7. CASE SyncTaskEnds
    <3>1. Len(saved) \in 1 .. Len(saved) /\ saved[Len(saved)] \in Nat
      BY <2>7 DEF SyncTaskEnds, Innermost, TypeOK
    <3>2. SubSeq(saved, 1, Len(saved) - 1) \in Seq(Nat)
      BY <3>1 DEF TypeOK
    <3>3. QED
      BY <2>7, <3>1, <3>2 DEF SyncTaskEnds, Innermost, RestoreTo, TypeOK
  <2>8. CASE UNCHANGED vars
    BY <2>8 DEF vars, TypeOK
  <2>9. QED
    BY <2>1, <2>2, <2>3, <2>4, <2>5, <2>6, <2>7, <2>8 DEF Next
<1>3. QED
  BY <1>1, <1>2, PTL DEF Spec

-----------------------------------------------------------------------------
(* The invariant of the offsets.                                           *)

(* The fields of a block.                                                  *)
LEMMA BlockFields ==
  ASSUME NEW id, NEW arena, NEW start, NEW end, NEW depth
  PROVE  LET b == [id |-> id, arena |-> arena, start |-> start, end |-> end,
                   depth |-> depth]
         IN  b.arena = arena /\ b.start = start /\ b.end = end /\ b.depth = depth
  OBVIOUS

(* A block that is bumped off lies above all blocks of its arena and below *)
(* the end of its zone.                                                    *)
LEMMA BumpInv ==
  ASSUME TypeOK, ArenaInv, NEW a \in Arenas, NEW id \in Ids, NEW padding \in Nat,
         NEW size \in Nat \ {0}, offset[a] + padding + size <= MaxCapacity(a),
         Bump(a, id, padding, size), saved' = saved
  PROVE  ArenaInv'
<1> DEFINE start == Base(a) + offset[a] + padding
           depth == IF a = Transient(Main) THEN Len(saved) ELSE 0
           new == [id |-> id, arena |-> a, start |-> start, end |-> start + size,
                   depth |-> depth]
<1>1. /\ blocks' = blocks \cup {new}
      /\ offset' = [offset EXCEPT ![a] = @ + padding + size]
  BY DEF Bump, NewOffset, HandOut
<1>2. /\ new.arena = a /\ new.start = start /\ new.end = start + size
      /\ (a = Transient(Main) => new.depth = Len(saved))
  <2>1. /\ new.arena = a /\ new.start = start
        /\ new.end = start + size /\ new.depth = depth
    BY BlockFields
  <2>2. a = Transient(Main) => depth = Len(saved)
    OBVIOUS
  <2>3. QED
    BY <2>1, <2>2
<1>3. Base(a) \in Nat /\ offset[a] \in Nat /\ start \in Nat /\ Len(saved) \in Nat
  <2>1. Base(a) \in Nat
    BY ArenaFacts
  <2>2. offset[a] \in Nat
    BY DEF TypeOK
  <2>3. Len(saved) \in Nat
    BY DEF TypeOK
  <2>4. QED
    BY <2>1, <2>2, <2>3
<1>4. /\ offset'[a] = offset[a] + padding + size
      /\ \A c \in Arenas : offset[c] <= offset'[c]
  BY <1>1 DEF TypeOK
<1>5. \A b \in blocks : /\ b.arena \in Arenas /\ b.start \in Nat /\ b.end \in Nat
                        /\ b.depth \in Nat
                        /\ Base(b.arena) \in Nat /\ offset[b.arena] \in Nat
                        /\ offset'[b.arena] \in Nat
  <2>1. \A b \in blocks : b.arena \in Arenas /\ b.start \in Nat /\ b.end \in Nat
                           /\ b.depth \in Nat
    BY DEF TypeOK, Block
  <2>2. \A c \in Arenas : offset[c] \in Nat
    BY DEF TypeOK
  <2>3. \A c \in Arenas : offset'[c] \in Nat
    BY BumpType
  <2>4. \A c \in Arenas : Base(c) \in Nat
    BY ArenaFacts
  <2>5. QED
    BY <2>1, <2>2, <2>3, <2>4
<1> HIDE DEF new, start
<1>zone. Base(a) <= start /\ new.end <= Base(a) + MaxCapacity(a)
  <2>1. MaxCapacity(a) \in Nat
    BY ArenaFacts
  <2>2. start = Base(a) + offset[a] + padding
    BY DEF start
  <2>3. QED
    BY <1>2, <1>3, <2>1, <2>2
<1>6. BlocksBelowOffset'
  <2> SUFFICES ASSUME NEW b \in blocks'
               PROVE  b.start <= b.end /\ b.end <= Base(b.arena) + offset'[b.arena]
    BY DEF BlocksBelowOffset
  <2>1. CASE b = new
    BY <2>1, <1>2, <1>3, <1>4 DEF start
  <2>2. CASE b \in blocks
    BY <2>2, <1>4, <1>5 DEF ArenaInv, BlocksBelowOffset
  <2>3. QED
    BY <1>1, <2>1, <2>2
<1>7. OffsetsInZone'
  <2> SUFFICES ASSUME NEW c \in Arenas PROVE offset'[c] <= MaxCapacity(c)
    BY DEF OffsetsInZone
  <2>1. CASE c = a
    BY <2>1, <1>4
  <2>2. CASE c # a
    BY <2>2, <1>1 DEF ArenaInv, OffsetsInZone, TypeOK
  <2>3. QED
    BY <2>1, <2>2
<1>8. SavedAscend'
  <2>1. ASSUME NEW d \in 1 .. Len(saved) PROVE saved[d] <= offset'[Transient(Main)]
    <3>1. saved[d] <= offset[Transient(Main)]
      BY DEF ArenaInv, SavedAscend
    <3>2. offset[Transient(Main)] <= offset'[Transient(Main)]
      BY <1>4, ArenaFacts
    <3>3. saved[d] \in Nat
      BY DEF TypeOK
    <3>4. offset[Transient(Main)] \in Nat
      BY ArenaFacts DEF TypeOK
    <3>5. offset'[Transient(Main)] \in Nat
      BY ArenaFacts, BumpType
    <3>6. QED
      BY <3>1, <3>2, <3>3, <3>4, <3>5
  <2>2. QED
    BY <2>1 DEF ArenaInv, SavedAscend
<1>9. \A b \in blocks : b.arena[1] = a[1] => b.end <= start \/ new.end <= b.start
  <2> SUFFICES ASSUME NEW b \in blocks, b.arena[1] = a[1]
               PROVE  b.end <= start \/ new.end <= b.start
    OBVIOUS
  <2>1. CASE b.arena = a
    BY <2>1, <1>3, <1>5 DEF ArenaInv, BlocksBelowOffset, start
  <2>2. CASE b.arena # a
    <3>1. /\ Base(b.arena) <= b.start /\ b.end <= Base(b.arena) + MaxCapacity(b.arena)
      BY DEF ArenaInv, BlocksInZone
    <3>2. Base(a) <= start /\ new.end <= Base(a) + MaxCapacity(a)
      BY <1>zone
    <3>3. \/ Base(a) + MaxCapacity(a) <= Base(b.arena)
          \/ Base(b.arena) + MaxCapacity(b.arena) <= Base(a)
      BY <2>2, <1>5, ZonesApart
    <3>4. /\ MaxCapacity(a) \in Nat /\ MaxCapacity(b.arena) \in Nat
          /\ new.end \in Nat
      BY <1>2, <1>3, <1>5, ArenaFacts
    <3>5. b.start \in Nat /\ b.end \in Nat /\ Base(b.arena) \in Nat
      BY <1>5
    <3>6. Base(a) \in Nat /\ start \in Nat
      BY <1>3
    <3>7. QED
      BY <3>1, <3>2, <3>3, <3>4, <3>5, <3>6
  <2>3. QED
    BY <2>1, <2>2
<1>10. LiveBlocksDisjoint'
  BY <1>1, <1>2, <1>9 DEF ArenaInv, LiveBlocksDisjoint
<1>11. BlocksInZone'
  <2>1. Base(a) <= new.start /\ new.end <= Base(a) + MaxCapacity(a)
    BY <1>2, <1>zone
  <2>2. QED
    BY <1>1, <1>2, <2>1 DEF ArenaInv, BlocksInZone
<1>12. SnapshotsNest'
  <2>1. a = Transient(Main) =>
          /\ new.depth <= Len(saved)
          /\ \A d \in new.depth + 1 .. Len(saved) : new.end <= saved[d]
    BY <1>2, <1>3
  <2>2. QED
    BY <1>1, <1>2, <2>1 DEF ArenaInv, SnapshotsNest
<1>13. QED
  BY <1>6, <1>7, <1>8, <1>10, <1>11, <1>12 DEF ArenaInv

(* Blocks only go out of use: nothing else changes.                        *)
LEMMA FewerBlocksInv ==
  ASSUME ArenaInv, blocks' \subseteq blocks, offset' = offset, saved' = saved
  PROVE  ArenaInv'
BY DEF ArenaInv, BlocksBelowOffset, OffsetsInZone, SavedAscend,
       LiveBlocksDisjoint, BlocksInZone, SnapshotsNest

(* After a reset no block is left in the arena, and the main thread resets *)
(* only where it holds no snapshot.                                        *)
LEMMA ResetInv ==
  ASSUME TypeOK, ArenaInv, NEW p \in Threads, Reset(p), saved' = saved,
         p = Main => saved = <<>>
  PROVE  ArenaInv'
<1>1. /\ blocks' = {b \in blocks : b.arena # Transient(p)}
      /\ offset' = [offset EXCEPT ![Transient(p)] = 0]
  BY DEF Reset
<1>2. \A a \in Arenas : a # Transient(p) => offset'[a] = offset[a]
  BY <1>1 DEF TypeOK
<1>3. BlocksBelowOffset'
  BY <1>1, <1>2 DEF ArenaInv, BlocksBelowOffset, TypeOK, Block
<1>4. OffsetsInZone'
  <2> SUFFICES ASSUME NEW c \in Arenas PROVE offset'[c] <= MaxCapacity(c)
    BY DEF OffsetsInZone
  <2>1. CASE c = Transient(p)
    BY <2>1, <1>1, ArenaFacts DEF TypeOK
  <2>2. CASE c # Transient(p)
    BY <2>2, <1>2 DEF ArenaInv, OffsetsInZone
  <2>3. QED
    BY <2>1, <2>2
<1>5. SavedAscend'
  <2>1. CASE p = Main
    BY <2>1 DEF SavedAscend
  <2>2. CASE p # Main
    <3>1. offset'[Transient(Main)] = offset[Transient(Main)]
      BY <2>2, <1>2, ArenaFacts
    <3>2. QED
      BY <3>1 DEF ArenaInv, SavedAscend
  <2>3. QED
    BY <2>1, <2>2
<1>6. LiveBlocksDisjoint' /\ BlocksInZone' /\ SnapshotsNest'
  BY <1>1 DEF ArenaInv, LiveBlocksDisjoint, BlocksInZone, SnapshotsNest
<1>7. QED
  BY <1>3, <1>4, <1>5, <1>6 DEF ArenaInv

(* Growing moves the offset by what is asked for, or not at all.           *)
LEMMA GrowInv ==
  ASSUME TypeOK, ArenaInv, NEW a \in Arenas, NEW id \in Ids, NEW padding \in Nat,
         NEW size \in Nat \ {0}, offset[a] + padding + size <= MaxCapacity(a),
         Grow(a, id, padding, size), saved' = saved
  PROVE  ArenaInv'
<1>1. CASE UNCHANGED <<offset, capacity, blocks>>
  BY <1>1, FewerBlocksInv
<1>2. CASE Bump(a, id, padding, size)
  BY <1>2, BumpInv
<1>3. QED
  BY <1>1, <1>2 DEF Grow

(* With assertions ThreadArena_Allocate never gets past an overflow.       *)
LEMMA AllocateInv ==
  ASSUME AssertsOn = TRUE, TypeOK, ArenaInv, NEW a \in Arenas, NEW id \in Ids,
         NEW size \in Sizes, NEW alignment \in Alignments,
         ThreadArenaAllocate(a, id, size, alignment)
  PROVE  ArenaInv'
<1> DEFINE padding == Padding(Base(a) + offset[a], alignment)
<1>1. size \in Nat \ {0} /\ padding \in Nat
  <2>1. Base(a) + offset[a] \in Nat
    BY ArenaFacts DEF TypeOK
  <2>2. QED
    BY <2>1, PaddingIsNat, ArenaAssumption
<1> HIDE DEF padding
<1>2. saved' = saved
  BY DEF ThreadArenaAllocate
<1>3. CASE UNCHANGED <<offset, capacity, committed, blocks>>
  BY <1>2, <1>3, FewerBlocksInv
<1>4. CASE ~ Overflown(a, padding + size)
  <2>1. offset[a] + padding + size <= MaxCapacity(a)
    <3>1. offset[a] \in Nat
      BY DEF TypeOK
    <3>2. MaxCapacity(a) \in Nat
      BY ArenaFacts
    <3>3. QED
      BY <1>1, <1>4, <3>1, <3>2 DEF Overflown
  <2>2. CASE Grow(a, id, padding, size)
    BY <1>1, <1>2, <2>1, <2>2, GrowInv
  <2>3. CASE Bump(a, id, padding, size)
    BY <1>1, <1>2, <2>1, <2>3, BumpInv
  <2>4. QED
    BY <1>3, <2>2, <2>3 DEF ThreadArenaAllocate, padding
<1>5. QED
  BY <1>3, <1>4 DEF ThreadArenaAllocate, padding

-----------------------------------------------------------------------------
(* The snapshot of Scheduler_Sync: taken at the offset, restored in the    *)
(* opposite order.                                                         *)

(* A new snapshot is not below the older ones.                             *)
LEMMA SyncTaskBeginsInv ==
  ASSUME TypeOK, ArenaInv, SyncTaskBegins
  PROVE  ArenaInv'
<1> DEFINE main == Transient(Main)
           n == Len(saved)
<1>1. /\ saved' = Append(saved, offset[main])
      /\ offset' = offset /\ blocks' = blocks
  BY DEF SyncTaskBegins
<1>2. /\ n \in Nat /\ Len(saved') = n + 1 /\ saved'[n + 1] = offset[main]
      /\ \A d \in 1 .. n : saved'[d] = saved[d] /\ saved[d] \in Nat
  BY <1>1 DEF TypeOK
<1>3. main \in Arenas /\ offset[main] \in Nat
  BY ArenaFacts DEF TypeOK
<1>4. \A d \in 1 .. n : saved[d] <= offset[main]
  BY DEF ArenaInv, SavedAscend
<1>5. BlocksBelowOffset' /\ OffsetsInZone' /\ LiveBlocksDisjoint' /\ BlocksInZone'
  BY <1>1 DEF ArenaInv, BlocksBelowOffset, OffsetsInZone, LiveBlocksDisjoint, BlocksInZone
<1>6. SavedAscend'
  <2>1. ASSUME NEW d \in 1 .. n + 1 PROVE saved'[d] <= offset[main]
    BY <1>2, <1>3, <1>4, <2>1
  <2>2. ASSUME NEW d \in 1 .. n + 1, NEW e \in 1 .. n + 1, d <= e
        PROVE  saved'[d] <= saved'[e]
    <3>1. CASE e = n + 1
      BY <3>1, <1>2, <2>1
    <3>2. CASE e # n + 1
      <4>1. d \in 1 .. n /\ e \in 1 .. n
        BY <3>2, <2>2, <1>2
      <4>2. saved[d] <= saved[e]
        BY <4>1, <2>2 DEF ArenaInv, SavedAscend
      <4>3. QED
        BY <4>1, <4>2, <1>2
    <3>3. QED
      BY <3>1, <3>2
  <2>3. QED
    BY <1>1, <1>2, <2>1, <2>2 DEF SavedAscend
<1>7. SnapshotsNest'
  <2> SUFFICES ASSUME NEW b \in blocks, b.arena = main
               PROVE  /\ b.depth <= n + 1
                      /\ \A d \in b.depth + 1 .. n + 1 : b.end <= saved'[d]
    BY <1>1, <1>2 DEF SnapshotsNest
  <2>1. b.depth \in Nat /\ b.end \in Nat
    BY DEF TypeOK, Block
  <2>2. b.depth <= n /\ \A d \in b.depth + 1 .. n : b.end <= saved[d]
    BY DEF ArenaInv, SnapshotsNest
  <2>3. b.end <= offset[main]
    <3>1. b.end <= Base(main) + offset[main]
      BY DEF ArenaInv, BlocksBelowOffset
    <3>2. Base(main) = 0
      BY ArenaFacts DEF Base
    <3>3. QED
      BY <3>1, <3>2, <1>3
  <2>4. ASSUME NEW d \in b.depth + 1 .. n + 1 PROVE b.end <= saved'[d]
    <3>1. CASE d = n + 1
      BY <3>1, <2>3, <1>2
    <3>2. CASE d # n + 1
      <4>1. d \in b.depth + 1 .. n /\ d \in 1 .. n
        BY <3>2, <2>1, <1>2
      <4>2. QED
        BY <4>1, <2>2, <1>2
    <3>3. QED
      BY <3>1, <3>2
  <2>5. QED
    BY <2>1, <2>2, <2>4, <1>2
<1>8. QED
  BY <1>5, <1>6, <1>7 DEF ArenaInv

(* A snapshot that is restored takes only blocks younger than itself.      *)
LEMMA SyncTaskEndsInv ==
  ASSUME TypeOK, ArenaInv, SyncTaskEnds
  PROVE  ArenaInv'
<1> DEFINE main == Transient(Main)
           n == Len(saved)
<1>1. /\ saved # <<>>
      /\ offset' = [offset EXCEPT ![main] = saved[n]]
      /\ blocks' = {b \in blocks : ~ (b.arena = main /\ b.depth = n)}
      /\ saved' = SubSeq(saved, 1, n - 1)
  BY DEF SyncTaskEnds, Innermost, RestoreTo
<1>2. /\ n \in Nat /\ n >= 1 /\ n \in 1 .. n
      /\ \A d \in 1 .. n : saved[d] \in Nat
  BY <1>1 DEF TypeOK
<1>3. /\ Len(saved') = n - 1
      /\ \A d \in 1 .. n - 1 : saved'[d] = saved[d]
  <2>1. \A d \in 1 .. n - 1 : saved[d] \in Nat
    BY <1>2
  <2>2. /\ Len(SubSeq(saved, 1, n - 1)) = IF 1 <= n - 1 THEN n - 1 - 1 + 1 ELSE 0
        /\ \A d \in 1 .. n - 1 - 1 + 1 : SubSeq(saved, 1, n - 1)[d] = saved[1 + d - 1]
    BY <2>1, <1>2, SubSeqProperties
  <2>3. Len(SubSeq(saved, 1, n - 1)) = n - 1
    BY <2>2, <1>2
  <2>4. ASSUME NEW d \in 1 .. n - 1
        PROVE  SubSeq(saved, 1, n - 1)[d] = saved[d]
    <3>1. d \in 1 .. n - 1 - 1 + 1 /\ 1 + d - 1 = d
      BY <1>2
    <3>2. QED
      BY <2>2, <3>1
  <2>5. QED
    BY <1>1, <2>3, <2>4
<1>4. main \in Arenas
  BY ArenaFacts
<1>5. /\ offset'[main] = saved[n]
      /\ \A a \in Arenas : a # main => offset'[a] = offset[a]
  BY <1>1, <1>4 DEF TypeOK
<1>6. saved[n] <= offset[main] /\ offset[main] \in Nat
  BY <1>2, <1>4 DEF TypeOK, ArenaInv, SavedAscend
<1>7. ASSUME NEW b \in blocks', b.arena = main
      PROVE  /\ b \in blocks /\ b.depth <= n - 1
             /\ \A d \in b.depth + 1 .. n : b.end <= saved[d]
  <2>1. b \in blocks /\ b.depth # n
    BY <1>1, <1>7
  <2>2. b.depth \in Nat
    BY <2>1 DEF TypeOK, Block
  <2>3. b.depth <= n /\ \A d \in b.depth + 1 .. n : b.end <= saved[d]
    BY <2>1, <1>7 DEF ArenaInv, SnapshotsNest
  <2>4. QED
    BY <2>1, <2>2, <2>3, <1>2
<1>8. BlocksBelowOffset'
  <2> SUFFICES ASSUME NEW b \in blocks'
               PROVE  b.start <= b.end /\ b.end <= Base(b.arena) + offset'[b.arena]
    BY DEF BlocksBelowOffset
  <2>1. b \in blocks /\ b.arena \in Arenas
    BY <1>1 DEF TypeOK, Block
  <2>2. b.start <= b.end /\ b.end <= Base(b.arena) + offset[b.arena]
    BY <2>1 DEF ArenaInv, BlocksBelowOffset
  <2>3. CASE b.arena = main
    <3>1. b.depth \in Nat
      BY <2>1 DEF TypeOK, Block
    <3>2. n \in b.depth + 1 .. n
      BY <3>1, <1>7, <1>2, <2>3
    <3>3. b.end <= saved[n]
      BY <3>2, <1>7, <2>3
    <3>4. Base(main) = 0
      BY ArenaFacts DEF Base
    <3>5. QED
      BY <2>2, <2>3, <3>3, <3>4, <1>2, <1>5
  <2>4. CASE b.arena # main
    BY <2>1, <2>2, <2>4, <1>5
  <2>5. QED
    BY <2>3, <2>4
<1>9. OffsetsInZone'
  <2> SUFFICES ASSUME NEW c \in Arenas PROVE offset'[c] <= MaxCapacity(c)
    BY DEF OffsetsInZone
  <2>1. offset[c] <= MaxCapacity(c)
    BY DEF ArenaInv, OffsetsInZone
  <2>2. CASE c = main
    BY <2>1, <2>2, <1>2, <1>5, <1>6, ArenaFacts
  <2>3. CASE c # main
    BY <2>1, <2>3, <1>5
  <2>4. QED
    BY <2>2, <2>3
<1>10. SavedAscend'
  <2>1. \A d, e \in 1 .. n : d <= e => saved[d] <= saved[e]
    BY DEF ArenaInv, SavedAscend
  <2>2. \A d \in 1 .. n - 1 : d \in 1 .. n /\ d <= n
    BY <1>2
  <2>3. \A d \in 1 .. n - 1 : saved'[d] <= offset'[main]
    BY <2>1, <2>2, <1>2, <1>3, <1>5
  <2>4. \A d, e \in 1 .. n - 1 : d <= e => saved'[d] <= saved'[e]
    BY <2>1, <2>2, <1>3
  <2>5. QED
    BY <2>3, <2>4, <1>3 DEF SavedAscend
<1>11. LiveBlocksDisjoint' /\ BlocksInZone'
  BY <1>1 DEF ArenaInv, LiveBlocksDisjoint, BlocksInZone
<1>12. SnapshotsNest'
  <2> SUFFICES ASSUME NEW b \in blocks', b.arena = main
               PROVE  /\ b.depth <= n - 1
                      /\ \A d \in b.depth + 1 .. n - 1 : b.end <= saved'[d]
    BY <1>3 DEF SnapshotsNest
  <2>1. b.depth \in Nat
    BY <1>7 DEF TypeOK, Block
  <2>2. \A d \in b.depth + 1 .. n - 1 : d \in b.depth + 1 .. n /\ d \in 1 .. n - 1
    BY <2>1, <1>2
  <2>3. QED
    BY <2>2, <1>7, <1>3
<1>13. QED
  BY <1>8, <1>9, <1>10, <1>11, <1>12 DEF ArenaInv

-----------------------------------------------------------------------------
(* In a build with assertions the blocks in use lie below their arena's     *)
(* offset, which stays in the zone, and the snapshots ascend.              *)
THEOREM ArenaInvariance ==
  ASSUME AssertsOn = TRUE
  PROVE  Spec => []ArenaInv
<1>1. Init => ArenaInv
  BY ArenaAssumption, ArenaFacts
     DEF Init, ArenaInv, BlocksBelowOffset, OffsetsInZone, SavedAscend,
         LiveBlocksDisjoint, BlocksInZone, SnapshotsNest
<1>2. TypeOK /\ ArenaInv /\ [Next]_vars => ArenaInv'
  <2> SUFFICES ASSUME TypeOK, ArenaInv, [Next]_vars PROVE ArenaInv'
    OBVIOUS
  <2>1. ASSUME NEW p \in Threads, NEW id \in Ids, NEW size \in Sizes,
               NEW alignment \in Alignments, AllocateTransient(p, id, size, alignment)
        PROVE  ArenaInv'
    BY <2>1, ArenaFacts, AllocateInv DEF AllocateTransient
  <2>2. ASSUME NEW id \in Ids, NEW size \in Sizes, NEW alignment \in Alignments,
               AllocatePersistent(id, size, alignment)
        PROVE  ArenaInv'
    BY <2>2, ArenaFacts, AllocateInv DEF AllocatePersistent
  <2>3. ASSUME NEW w \in Workers,
               PersistentOnWorker(w) \/ WorkerTask(w) \/ WorkerIdle(w)
        PROVE  ArenaInv'
    <3>1. CASE PersistentOnWorker(w) \/ WorkerTask(w)
      BY <3>1, FewerBlocksInv DEF PersistentOnWorker, WorkerTask
    <3>2. CASE WorkerIdle(w)
      <4>1. w \in Threads /\ w # Main
        BY ArenaAssumption DEF Threads
      <4>2. QED
        BY <3>2, <4>1, ResetInv DEF WorkerIdle
    <3>3. QED
      BY <2>3, <3>1, <3>2
  <2>4. ASSUME NEW b \in blocks, Free(b) PROVE ArenaInv'
    BY <2>4, FewerBlocksInv DEF Free
  <2>5. CASE Update
    BY <2>5, ArenaFacts, ResetInv DEF Update
  <2>6. CASE SyncTaskBegins
    BY <2>6, SyncTaskBeginsInv
  <2>7. CASE SyncTaskEnds
    BY <2>7, SyncTaskEndsInv
  <2>8. CASE UNCHANGED vars
    BY <2>8, FewerBlocksInv DEF vars
  <2>9. QED
    BY <2>1, <2>2, <2>3, <2>4, <2>5, <2>6, <2>7, <2>8 DEF Next
<1>3. QED
  BY <1>1, <1>2, TypeCorrect, PTL DEF Spec

(* For every sequence of allocations, frees, resets and nested             *)
(* Scheduler_Sync calls: blocks in use never share a byte.                 *)
THEOREM BlocksAreApart ==
  ASSUME AssertsOn = TRUE
  PROVE  Spec => []LiveBlocksDisjoint
<1>1. ArenaInv => LiveBlocksDisjoint
  BY DEF ArenaInv
<1>2. QED
  BY <1>1, ArenaInvariance, PTL

(* They stay in their arena's zone: no request reaches the task queue or   *)
(* the persistent arena behind a transient one.                            *)
THEOREM BlocksStayInZone ==
  ASSUME AssertsOn = TRUE
  PROVE  Spec => []BlocksInZone
<1>1. ArenaInv => BlocksInZone
  BY DEF ArenaInv
<1>2. QED
  BY <1>1, ArenaInvariance, PTL

(* They survive every snapshot that is younger, however deep tasks call    *)
(* Scheduler_Sync in one another.                                          *)
THEOREM SnapshotsAreNested ==
  ASSUME AssertsOn = TRUE
  PROVE  Spec => []SnapshotsNest
<1>1. ArenaInv => SnapshotsNest
  BY DEF ArenaInv
<1>2. QED
  BY <1>1, ArenaInvariance, PTL

=============================================================================
