-------------------------- MODULE WorkerPoolProofs --------------------------
(***************************************************************************)
(* Proofs about the worker pool for any number of workers, messages and    *)
(* tracks.                                                                 *)
(***************************************************************************)
EXTENDS WorkerPool, FoldLemmas, SequenceTheorems

(* The tail of a sequence that is not empty is a shorter sequence. *)
LEMMA TailShorter ==
  ASSUME NEW S, NEW q \in Seq(S), q # <<>>
  PROVE  /\ Head(q) \in S /\ Tail(q) \in Seq(S)
         /\ Len(q) \in Nat /\ Len(Tail(q)) \in Nat /\ Len(q) = Len(Tail(q)) + 1
<1>1. Len(q) \in Nat /\ Len(q) # 0 BY EmptySeq, LenProperties
<1>2. Head(q) \in S /\ Tail(q) \in Seq(S) /\ Len(Tail(q)) = Len(q) - 1
  BY HeadTailProperties
<1> QED BY <1>1, <1>2

(* Capacity is a natural number, and holds a window when messages may be    *)
(* dropped.                                                                 *)
LEMMA CapacityBound ==
  ChanCap \in Nat /\ (~mode.blocking => PerWindow <= ChanCap)
<1>1. Cardinality(Workers) \in Nat BY PoolAssumption, FS_CardinalityType
<1>2. PerWindow \in Nat BY PoolAssumption
<1> QED BY <1>1, <1>2 DEF ChanCap

(* The mode stays, so the capacity does. *)
LEMMA ModeStays == Next => mode' = mode /\ ChanCap' = ChanCap
<1>1. Next => mode' = mode
  BY DEF Next, Producer, Offer, Drop, Close, Worker, StartUp, LeaveFailed, Take, Leave,
         Correlate, Completed, CreateEntry, Idle, vars
<1>2. mode' = mode => ChanCap' = ChanCap BY DEF ChanCap
<1> QED BY <1>1, <1>2

(* The invariant. A worker is Safe when it has not failed and would not     *)
(* fail if it took its next step now: a worker about to create a track      *)
(* still finds it missing.                                                  *)
Safe(w) == /\ pc[w] # "failed"
           /\ pc[w] = "create" => Track(msg[w]) \notin Database(w)

Survival ==
  mode.startable =>
    /\ \E w \in Workers : Safe(w)
    /\ ~mode.shared => errors = 0 /\ \A w \in Workers : Safe(w)

QueueBounded == Len(jobs) + dropped <= next

(* Every message offered is somewhere, *)
Accounting ==
  mode.startable => next = dropped + Len(jobs) + Cardinality(Busy) + AllRuns + errors

(* and the channel a worker has left is closed and empty. *)
Drained == /\ closed => next = Total
           /\ \A w \in Workers : pc[w] = "done" => closed /\ jobs = <<>>

PoolInv ==
  TypeOK /\ QueueBounded /\ FirstWindowFits /\ Survival /\ Accounting /\ Drained

(* The sum of the workers' counts. *)
LEMMA RunsAre == AllRuns = SumOver(count, Workers)
BY DEF AllRuns, SumOver, MapThenSumSet, MapThenFoldSet

(* The pool starts in a state of the invariant. *)
LEMMA PoolInit == Init => PoolInv
<1> SUFFICES ASSUME Init PROVE PoolInv OBVIOUS
<1> USE DEF Init
<1>1. TypeOK
  <2>1. jobs \in Seq(0..(Total - 1)) OBVIOUS
  <2>2. Len(jobs) <= ChanCap
    <3>1. Len(jobs) = 0 OBVIOUS
    <3> QED BY <3>1, CapacityBound
  <2>3. next \in 0..Total /\ dropped \in 0..next BY PoolAssumption
  <2>4. QueueTypes BY <2>1, <2>2, <2>3 DEF QueueTypes
  <2>5. NoMsg \in Int BY DEF NoMsg
  <2>6. msg \in [Workers -> Int] /\ count \in [Workers -> Nat] BY <2>5
  <2>7. pc \in [Workers -> {"starting", "waiting", "correlate", "create", "failed", "done"}]
    OBVIOUS
  <2>8. \A w \in Workers : pc[w] = "starting" /\ msg[w] = NoMsg OBVIOUS
  <2>9. processed \in Nat /\ errors \in Nat OBVIOUS
  <2>10. db \in [Workers -> SUBSET (0..(Tracks - 1))] OBVIOUS
  <2>11. WorkerTypes BY <2>6, <2>7, <2>8, <2>9, <2>10 DEF WorkerTypes
  <2> QED BY <2>4, <2>11 DEF TypeOK
<1>2. QueueBounded
  <2>1. Len(<<>>) = 0 OBVIOUS
  <2> QED BY <2>1 DEF QueueBounded
<1>3. FirstWindowFits BY DEF FirstWindowFits
<1>4. Survival
  <2>1. \A w \in Workers : Safe(w) BY DEF Safe
  <2> QED BY <2>1, PoolAssumption DEF Survival
<1>5. Accounting
  <2>1. Cardinality(Busy) = 0
    <3>1. Busy = {} BY DEF Busy
    <3> QED BY <3>1, FS_EmptySet
  <2>2. AllRuns = 0
    <3>1. \A w \in Workers : count[w] = 0 OBVIOUS
    <3> QED BY <3>1, RunsAre, SumZero, PoolAssumption
  <2>3. Len(jobs) = 0 OBVIOUS
  <2> QED BY <2>1, <2>2, <2>3 DEF Accounting
<1>6. Drained BY DEF Drained
<1> QED BY <1>1, <1>2, <1>3, <1>4, <1>5, <1>6 DEF PoolInv

(* The producer keeps the types and the bounds: it drops only when the      *)
(* channel, which holds a window, is full.                                  *)
LEMMA ProducerBounds ==
  ASSUME QueueTypes, QueueBounded, FirstWindowFits, Producer
  PROVE  QueueTypes' /\ QueueBounded' /\ FirstWindowFits'
<1>0. /\ Len(jobs) \in Nat /\ next \in Nat /\ Total \in Nat /\ next <= Total
      /\ dropped \in Nat /\ dropped <= next /\ ChanCap \in Nat /\ PerWindow \in Nat
  BY LenProperties, CapacityBound, PoolAssumption DEF QueueTypes
<1>1. mode' = mode /\ ChanCap' = ChanCap
  BY ModeStays DEF Next
<1>2. CASE Offer
  <2>1. next \in 0..(Total - 1) BY <1>0, <1>2 DEF Offer
  <2>2. jobs' \in Seq(0..(Total - 1)) /\ Len(jobs') = Len(jobs) + 1
    <3>1. jobs \in Seq(0..(Total - 1)) BY DEF QueueTypes
    <3> QED BY <1>2, <2>1, <3>1, AppendProperties DEF Offer
  <2>3. next' = next + 1 /\ dropped' = dropped /\ closed' = closed BY <1>2 DEF Offer
  <2>4. Len(jobs') <= ChanCap' BY <1>0, <1>1, <1>2, <2>2 DEF Offer
  <2>5. next' \in 0..Total /\ dropped' \in 0..next' BY <1>0, <1>2, <2>3 DEF Offer
  <2>6. QueueTypes' BY <1>1, <2>2, <2>3, <2>4, <2>5 DEF QueueTypes
  <2>7. QueueBounded' BY <1>0, <2>2, <2>3 DEF QueueBounded
  <2>8. FirstWindowFits' BY <1>0, <2>3 DEF FirstWindowFits
  <2> QED BY <2>6, <2>7, <2>8
<1>3. CASE Drop
  <2>1. next' = next + 1 /\ dropped' = dropped + 1 /\ UNCHANGED <<jobs, closed>>
    BY <1>3 DEF Drop
  <2>2. next' \in 0..Total /\ dropped' \in 0..next' BY <1>0, <1>3, <2>1 DEF Drop
  <2>3. QueueTypes' BY <1>1, <2>1, <2>2 DEF QueueTypes
  <2>4. Len(jobs) = ChanCap /\ ~mode.blocking BY <1>3 DEF Drop
  <2>5. QueueBounded' BY <1>0, <2>1 DEF QueueBounded
  <2>6. FirstWindowFits'
    <3>1. PerWindow <= next BY <1>0, <2>4, CapacityBound DEF QueueBounded
    <3> QED BY <1>0, <2>1, <3>1 DEF FirstWindowFits
  <2> QED BY <2>3, <2>5, <2>6
<1>4. CASE Close
  BY <1>1, <1>4 DEF Close, QueueTypes, QueueBounded, FirstWindowFits
<1> QED BY <1>2, <1>3, <1>4 DEF Producer

(* A worker keeps the types of the workers' variables. *)
LEMMA WorkerTypesStep ==
  ASSUME QueueTypes, WorkerTypes, NEW w \in Workers, Worker(w) PROVE WorkerTypes'
<1> USE DEF WorkerTypes
<1>0. w \in DOMAIN pc /\ count[w] \in Nat /\ (pc[w] = "waiting" => msg[w] = NoMsg)
  OBVIOUS
<1>1. NoMsg \in Int BY DEF NoMsg
<1>2. CASE LeaveFailed(w)
  BY <1>0, <1>1, <1>2 DEF LeaveFailed
<1>3. CASE StartUp(w) /\ ~LeaveFailed(w)
  BY <1>0, <1>3 DEF StartUp, report
<1>4. CASE Take(w)
  <2>1. Head(jobs) \in 0..(Total - 1)
    <3>1. jobs \in Seq(0..(Total - 1)) /\ jobs # <<>>
      BY <1>4 DEF Take, QueueTypes
    <3> QED BY <3>1, TailShorter
  <2>2. \A i \in 0..(Total - 1) : i \in Int OBVIOUS
  <2> QED BY <1>0, <1>4, <2>1, <2>2 DEF Take, report
<1>5. CASE Leave(w)
  BY <1>0, <1>5 DEF Leave
<1>6. ASSUME Completed(w), db' \in [Workers -> SUBSET (0..(Tracks - 1))] PROVE WorkerTypes'
  BY <1>0, <1>1, <1>6 DEF Completed, report
<1>7. CASE Correlate(w)
  <2>1. CASE Completed(w) /\ UNCHANGED db BY <1>6, <2>1
  <2>2. CASE ~(Completed(w) /\ UNCHANGED db)
    BY <1>0, <1>7, <2>2 DEF Correlate, report
  <2> QED BY <2>1, <2>2
<1>8. CASE CreateEntry(w) /\ ~LeaveFailed(w)
  <2>1. Track(msg[w]) \in 0..(Tracks - 1)
    <3>1. msg[w] \in Int /\ Tracks \in Nat /\ Tracks > 0 BY PoolAssumption
    <3> QED BY <3>1 DEF Track
  <2>2. db' \in [Workers -> SUBSET (0..(Tracks - 1))]
    BY <1>8, <2>1 DEF CreateEntry
  <2> QED BY <1>6, <1>8, <2>2 DEF CreateEntry
<1> QED BY <1>2, <1>3, <1>4, <1>5, <1>7, <1>8 DEF Worker

(* A worker only ever shortens the channel, so the bounds stay. *)
LEMMA WorkerBounds ==
  ASSUME QueueTypes, QueueBounded, FirstWindowFits, NEW w \in Workers, Worker(w)
  PROVE  QueueTypes' /\ QueueBounded' /\ FirstWindowFits'
<1>1. mode' = mode /\ ChanCap' = ChanCap BY ModeStays DEF Next
<1>2. UNCHANGED <<next, closed, dropped>>
  BY DEF Worker, StartUp, LeaveFailed, Take, Leave, Correlate, Completed, CreateEntry,
         producer
<1>3. Len(jobs) \in Nat /\ Len(jobs') \in Nat /\ Len(jobs') <= Len(jobs)
      /\ jobs' \in Seq(0..(Total - 1))
  <2>1. jobs \in Seq(0..(Total - 1)) BY DEF QueueTypes
  <2>2. CASE jobs' = jobs BY <2>1, <2>2, LenProperties
  <2>3. CASE jobs # <<>> /\ jobs' = Tail(jobs)
    <3>1. /\ Len(jobs) \in Nat /\ Len(Tail(jobs)) \in Nat
          /\ Len(jobs) = Len(Tail(jobs)) + 1 /\ Tail(jobs) \in Seq(0..(Total - 1))
      BY <2>1, <2>3, TailShorter
    <3>2. \A m, n \in Nat : n = m + 1 => m <= n OBVIOUS
    <3> QED BY <2>3, <3>1, <3>2, Zenon
  <2> QED BY <2>2, <2>3 DEF Worker, StartUp, LeaveFailed, Take, Leave, Correlate,
             Completed, CreateEntry
<1>4. ChanCap \in Nat /\ dropped \in Nat /\ next \in Nat
  BY CapacityBound, PoolAssumption DEF QueueTypes
<1>5. Len(jobs') <= ChanCap' /\ Len(jobs') + dropped' <= next'
  <2>1. Len(jobs) <= ChanCap /\ Len(jobs) + dropped <= next
    BY DEF QueueTypes, QueueBounded
  <2>2. \A a, b, c, d, n \in Nat :
          b <= a /\ a <= c /\ a + d <= n => b <= c /\ b + d <= n
    OBVIOUS
  <2> QED BY <1>1, <1>2, <1>3, <1>4, <2>1, <2>2
<1> QED BY <1>1, <1>2, <1>3, <1>5 DEF QueueTypes, QueueBounded, FirstWindowFits

(* A step that leaves the databases alone leaves the other workers as safe  *)
(* as they were.                                                            *)
LEMMA OthersStaySafe ==
  ASSUME NEW x \in Workers, Safe(x), mode' = mode, db' = db,
         pc'[x] = pc[x], msg'[x] = msg[x]
  PROVE  Safe(x)'
<1>1. Database(x)' = Database(x) BY DEF Database
<1> QED BY <1>1 DEF Safe, Track

(* Survival is inductive: the worker that adds a track is safe afterwards,  *)
(* a step that adds none leaves the others safe, and a worker that fails    *)
(* was not safe, so another one was.                                        *)
LEMMA SurvivalStep ==
  ASSUME WorkerTypes, Survival, Next PROVE Survival'
<1>0. mode' = mode BY ModeStays
<1>1. CASE Producer \/ Idle
  <2>1. UNCHANGED <<pc, msg, db, errors>>
    BY <1>1 DEF Producer, Offer, Drop, Close, Idle, report, vars
  <2>2. \A x \in Workers : Safe(x)' = Safe(x)
    BY <1>0, <2>1 DEF Safe, Database, Track
  <2> QED BY <1>0, <2>1, <2>2 DEF Survival
<1>2. ASSUME NEW w \in Workers, Worker(w), mode.startable PROVE Survival'
  <2> USE <1>0
  <2>1. /\ \A x \in Workers \ {w} : pc'[x] = pc[x] /\ msg'[x] = msg[x]
        /\ w \in DOMAIN pc
    BY <1>2 DEF Worker, StartUp, LeaveFailed, Take, Leave, Correlate, Completed,
               CreateEntry, WorkerTypes
  <2>2. PICK s \in Workers : Safe(s) BY <1>2 DEF Survival
  <2>3. CASE db' = db /\ errors' = errors /\ Safe(w)'
    <3>1. \A x \in Workers : Safe(x) => Safe(x)'
      BY <2>1, <2>3, OthersStaySafe
    <3> QED BY <1>2, <2>2, <2>3, <3>1 DEF Survival
  <2>4. CASE StartUp(w) \/ Take(w) \/ Leave(w)
    <3>1. db' = db /\ errors' = errors /\ pc'[w] \in {"waiting", "correlate", "done"}
      BY <1>2, <2>1, <2>4 DEF StartUp, LeaveFailed, Take, Leave, report
    <3> QED BY <2>3, <3>1 DEF Safe
  <2>5. CASE Correlate(w)
    <3>1. db' = db /\ errors' = errors
      BY <2>5 DEF Correlate, Completed, report
    <3>2. Safe(w)'
      <4>1. CASE pc'[w] = "waiting" BY <4>1 DEF Safe
      <4>2. CASE pc'[w] # "waiting"
        <5>1. Track(msg[w]) \notin Database(w) /\ msg' = msg /\ pc'[w] = "create"
          BY <2>1, <2>5, <4>2 DEF Correlate, Completed
        <5>2. Database(w)' = Database(w) BY <3>1 DEF Database
        <5> QED BY <5>1, <5>2 DEF Safe, Track
      <4> QED BY <4>1, <4>2
    <3> QED BY <2>3, <3>1, <3>2
  <2>6. CASE CreateEntry(w) /\ Completed(w)
    <3>1. errors' = errors /\ pc'[w] = "waiting"
      BY <2>1, <2>6 DEF Completed, report
    <3>2. Safe(w)' BY <3>1 DEF Safe
    <3>3. ASSUME ~mode.shared, NEW x \in Workers PROVE Safe(x)'
      <4>1. CASE x = w BY <3>2, <4>1
      <4>2. CASE x # w
        <5>1. Safe(x) BY <1>2, <3>3 DEF Survival
        <5>2. db'[x] = db[x]
          <6>1. ~LeaveFailed(w) BY <2>1, <3>1 DEF LeaveFailed
          <6>2. db' = [db EXCEPT ![w] = @ \union {Track(msg[w])}]
            BY <2>6, <6>1 DEF CreateEntry
          <6> QED BY <4>2, <6>2 DEF WorkerTypes
        <5>3. Database(x)' = Database(x) BY <3>3, <5>2 DEF Database
        <5> QED BY <2>1, <4>2, <5>1, <5>3 DEF Safe, Track
      <4> QED BY <4>1, <4>2
    <3> QED BY <1>2, <3>1, <3>2, <3>3 DEF Survival
  <2>7. CASE CreateEntry(w) /\ LeaveFailed(w) /\ ~Completed(w)
    <3>1. ~Safe(w) BY <2>7 DEF CreateEntry, Safe
    <3>2. s # w /\ db' = db BY <2>2, <2>7, <3>1 DEF LeaveFailed
    <3>3. Safe(s)' BY <2>1, <2>2, <3>2, OthersStaySafe
    <3>4. mode.shared BY <1>2, <3>1 DEF Survival
    <3> QED BY <3>3, <3>4 DEF Survival
  <2> QED BY <1>2, <2>4, <2>5, <2>6, <2>7 DEF Worker, CreateEntry
<1>3. CASE ~mode.startable BY <1>0, <1>3 DEF Survival
<1> QED BY <1>1, <1>2, <1>3 DEF Next

(* The numbers in the equation are integers. *)
LEMMA CountsTyped ==
  ASSUME TypeOK
  PROVE  /\ next \in Int /\ dropped \in Int /\ errors \in Int /\ Len(jobs) \in Int
         /\ IsFiniteSet(Busy) /\ Cardinality(Busy) \in Int /\ AllRuns \in Int
<1>1. next \in Int /\ dropped \in Int /\ errors \in Int
  BY PoolAssumption DEF TypeOK, QueueTypes, WorkerTypes
<1>2. Len(jobs) \in Int
  <2>1. jobs \in Seq(0..(Total - 1)) BY DEF TypeOK, QueueTypes
  <2> QED BY <2>1, LenProperties
<1>3. IsFiniteSet(Busy) /\ Cardinality(Busy) \in Int
  BY PoolAssumption, FS_Subset, FS_CardinalityType DEF Busy
<1>4. AllRuns \in Int
  <2>1. Integral(count, Workers) BY DEF Integral, TypeOK, WorkerTypes
  <2> QED BY <2>1, PoolAssumption, RunsAre, SumTyped
<1> QED BY <1>1, <1>2, <1>3, <1>4

(* A worker that puts its message away. *)
LEMMA PutsAway ==
  ASSUME TypeOK, NEW w \in Workers, pc[w] \in {"correlate", "create"},
         msg' = [msg EXCEPT ![w] = NoMsg]
  PROVE  Cardinality(Busy') = Cardinality(Busy) - 1
<1>1. msg[w] # NoMsg /\ msg \in [Workers -> Int]
  BY DEF TypeOK, WorkerTypes, NoMsg
<1>2. w \in Busy /\ Busy' = Busy \ {w} BY <1>1 DEF Busy
<1> QED BY <1>2, CountsTyped, FS_RemoveElement

(* A completed run moves a message from those in hand to those processed. *)
LEMMA CompletedAccounts ==
  ASSUME TypeOK, NEW w \in Workers, pc[w] \in {"correlate", "create"}, Completed(w)
  PROVE  Cardinality(Busy') = Cardinality(Busy) - 1 /\ AllRuns' = AllRuns + 1
<1>1. Cardinality(Busy') = Cardinality(Busy) - 1 BY PutsAway DEF Completed
<1>2. AllRuns' = AllRuns + 1
  <2>1. count \in [Workers -> Int] BY DEF TypeOK, WorkerTypes
  <2>2. count' = [count EXCEPT ![w] = @ + 1] BY DEF Completed
  <2>3. SumOver(count', Workers) = SumOver(count, Workers) + 1
    BY <2>1, <2>2, PoolAssumption, SumBumps
  <2>4. AllRuns' = SumOver(count', Workers)
    BY DEF AllRuns, SumOver, MapThenSumSet, MapThenFoldSet
  <2> QED BY <2>3, <2>4, RunsAre
<1> QED BY <1>1, <1>2

(* Every step moves a message from one term of the equation to another. *)
LEMMA AccountingStep ==
  ASSUME TypeOK, Accounting, Next
  PROVE  Accounting'
<1> SUFFICES ASSUME mode'.startable
             PROVE  next' = dropped' + Len(jobs)' + Cardinality(Busy)' + AllRuns' + errors'
  BY DEF Accounting
<1>1. mode' = mode BY ModeStays
<1>2. next = dropped + Len(jobs) + Cardinality(Busy) + AllRuns + errors
  BY <1>1 DEF Accounting
<1>3. /\ next \in Int /\ dropped \in Int /\ errors \in Int /\ Len(jobs) \in Int
      /\ IsFiniteSet(Busy) /\ Cardinality(Busy) \in Int /\ AllRuns \in Int
  BY CountsTyped
<1>4. jobs \in Seq(0..(Total - 1)) BY DEF TypeOK, QueueTypes
<1>5. msg' = msg => Cardinality(Busy)' = Cardinality(Busy) BY DEF Busy
<1>6. count' = count => AllRuns' = AllRuns
  <2>1. AllRuns' = SumOver(count', Workers)
    BY DEF AllRuns, SumOver, MapThenSumSet, MapThenFoldSet
  <2> QED BY <2>1, RunsAre
<1>7. CASE Offer
  <2>1. UNCHANGED <<msg, count, errors, dropped>> /\ next' = next + 1
    BY <1>7 DEF Offer, report
  <2>2. Len(jobs)' = Len(jobs) + 1
    <3>1. next \in 0..(Total - 1)
      BY <1>7, PoolAssumption DEF Offer, TypeOK, QueueTypes
    <3> QED BY <1>4, <1>7, <3>1, AppendProperties DEF Offer
  <2> QED BY <1>2, <1>3, <1>5, <1>6, <2>1, <2>2
<1>8. CASE Drop
  <2>1. UNCHANGED <<msg, count, errors, jobs>> /\ next' = next + 1 /\ dropped' = dropped + 1
    BY <1>8 DEF Drop, report
  <2> QED BY <1>2, <1>3, <1>5, <1>6, <2>1
<1>9. CASE Close \/ Idle
  <2>1. UNCHANGED <<msg, count, errors, jobs, next, dropped>>
    BY <1>9 DEF Close, Idle, report, vars, producer
  <2> QED BY <1>2, <1>5, <1>6, <2>1
<1>10. ASSUME NEW w \in Workers, StartUp(w) \/ Leave(w)
       PROVE  next' = dropped' + Len(jobs)' + Cardinality(Busy)' + AllRuns' + errors'
  <2>1. UNCHANGED <<msg, count, errors, jobs, next, dropped>>
    BY <1>1, <1>10 DEF StartUp, Leave, report, producer
  <2> QED BY <1>2, <1>5, <1>6, <2>1
<1>11. ASSUME NEW w \in Workers, Take(w)
       PROVE  next' = dropped' + Len(jobs)' + Cardinality(Busy)' + AllRuns' + errors'
  <2>1. /\ UNCHANGED <<count, errors, next, dropped>> /\ jobs' = Tail(jobs) /\ jobs # <<>>
        /\ msg' = [msg EXCEPT ![w] = Head(jobs)] /\ pc[w] = "waiting"
    BY <1>11 DEF Take, report, producer
  <2>2. Len(jobs) = Len(jobs)' + 1 /\ Len(jobs)' \in Int /\ Head(jobs) \in 0..(Total - 1)
    <3>1. /\ Head(jobs) \in 0..(Total - 1) /\ Len(Tail(jobs)) \in Nat
          /\ Len(jobs) = Len(Tail(jobs)) + 1
      BY <1>4, <2>1, TailShorter
    <3> QED BY <2>1, <3>1
  <2>3. Cardinality(Busy)' = Cardinality(Busy) + 1
    <3>1. msg[w] = NoMsg /\ msg \in [Workers -> Int]
      BY <2>1 DEF TypeOK, WorkerTypes
    <3>2. Head(jobs) # NoMsg BY <2>2 DEF NoMsg
    <3>3. w \notin Busy /\ Busy' = Busy \union {w} BY <2>1, <3>1, <3>2 DEF Busy
    <3> QED BY <1>3, <3>3, FS_AddElement
  <2> QED BY <1>2, <1>3, <1>6, <2>1, <2>2, <2>3
<1>12. ASSUME NEW w \in Workers, pc[w] \in {"correlate", "create"}, Completed(w)
       PROVE  next' = dropped' + Len(jobs)' + Cardinality(Busy)' + AllRuns' + errors'
  <2>1. UNCHANGED <<jobs, errors, next, dropped>>
    BY <1>12 DEF Completed, report, producer
  <2>2. Cardinality(Busy') = Cardinality(Busy) - 1 /\ AllRuns' = AllRuns + 1
    BY <1>12, CompletedAccounts
  <2> QED BY <1>2, <1>3, <2>1, <2>2
<1>13. ASSUME NEW w \in Workers, pc[w] = "create", LeaveFailed(w)
       PROVE  next' = dropped' + Len(jobs)' + Cardinality(Busy)' + AllRuns' + errors'
  <2>1. UNCHANGED <<jobs, count, next, dropped>> /\ errors' = errors + 1
    BY <1>13 DEF LeaveFailed, producer
  <2>2. Cardinality(Busy') = Cardinality(Busy) - 1
    BY <1>13, PutsAway DEF LeaveFailed
  <2>3. AllRuns' = AllRuns /\ Len(jobs)' = Len(jobs) BY <1>6, <2>1
  <2> QED BY <1>2, <1>3, <2>1, <2>2, <2>3
<1>14. ASSUME NEW w \in Workers, Correlate(w)
       PROVE  next' = dropped' + Len(jobs)' + Cardinality(Busy)' + AllRuns' + errors'
  <2>1. CASE Completed(w) BY <1>12, <1>14, <2>1 DEF Correlate
  <2>2. CASE ~Completed(w)
    <3>1. UNCHANGED <<msg, count, errors, jobs, next, dropped>>
      BY <1>14, <2>2 DEF Correlate, report, producer
    <3> QED BY <1>2, <1>5, <1>6, <3>1
  <2> QED BY <2>1, <2>2
<1>15. ASSUME NEW w \in Workers, CreateEntry(w)
       PROVE  next' = dropped' + Len(jobs)' + Cardinality(Busy)' + AllRuns' + errors'
  BY <1>12, <1>13, <1>15 DEF CreateEntry
<1> QED BY <1>7, <1>8, <1>9, <1>10, <1>11, <1>14, <1>15 DEF Next, Producer, Worker

(* Nothing is offered after the channel is closed, and a worker leaves only *)
(* a closed channel that is empty.                                          *)
LEMMA DrainedStep ==
  ASSUME TypeOK, Drained, Next
  PROVE  Drained'
<1>1. next \in Int /\ Total \in Int BY PoolAssumption DEF TypeOK, QueueTypes
<1>2. CASE Producer
  <2>1. UNCHANGED pc BY <1>2 DEF Producer, Offer, Drop, Close
  <2>3. CASE Close BY <2>1, <2>3 DEF Close, Drained
  <2>4. CASE Offer \/ Drop
    <3>1. next < Total /\ closed' = closed BY <2>4 DEF Offer, Drop
    <3>2. ~closed BY <1>1, <3>1 DEF Drained
    <3> QED BY <2>1, <3>1, <3>2 DEF Drained
  <2> QED BY <1>2, <2>3, <2>4 DEF Producer
<1>3. ASSUME NEW w \in Workers, Worker(w) PROVE Drained'
  <2>1. closed' = closed /\ next' = next
    BY <1>3 DEF Worker, StartUp, LeaveFailed, Take, Leave, Correlate, Completed,
               CreateEntry, producer
  <2>2. jobs' = jobs \/ jobs # <<>>
    BY <1>3 DEF Worker, StartUp, LeaveFailed, Take, Leave, Correlate, Completed, CreateEntry
  <2>3. \A x \in Workers : pc'[x] = "done" => pc[x] = "done" \/ Leave(w)
    BY <1>3 DEF Worker, StartUp, LeaveFailed, Take, Leave, Correlate, Completed,
               CreateEntry, TypeOK, WorkerTypes
  <2>4. Leave(w) => closed /\ jobs = <<>> /\ jobs' = jobs BY DEF Leave
  <2> QED BY <2>1, <2>2, <2>3, <2>4 DEF Drained
<1>4. CASE Idle BY <1>4 DEF Idle, vars, producer, Drained
<1> QED BY <1>2, <1>3, <1>4 DEF Next

(* The invariant holds throughout. *)
THEOREM PoolInvariant == Spec => []PoolInv
<1>1. PoolInv /\ [Next]_vars => PoolInv'
  <2> SUFFICES ASSUME PoolInv, [Next]_vars PROVE PoolInv' OBVIOUS
  <2> USE DEF PoolInv
  <2>1. CASE UNCHANGED vars
    <3>1. \A x \in Workers : Safe(x)' = Safe(x)
      BY <2>1 DEF vars, Safe, Database, Track
    <3>2. Accounting'
      <4>1. AllRuns' = SumOver(count', Workers)
        BY DEF AllRuns, SumOver, MapThenSumSet, MapThenFoldSet
      <4>2. AllRuns' = AllRuns BY <2>1, <4>1, RunsAre DEF vars
      <4>3. Cardinality(Busy)' = Cardinality(Busy) BY <2>1 DEF Busy, vars
      <4> QED BY <2>1, <4>2, <4>3 DEF Accounting, vars, producer, report
    <3> QED BY <2>1, <3>1, <3>2 DEF vars, producer, report, TypeOK, QueueTypes,
                WorkerTypes, QueueBounded, FirstWindowFits, Survival, ChanCap, Drained
  <2>2. CASE Next
    <3>1. Survival' /\ Accounting' /\ Drained'
      BY <2>2, SurvivalStep, AccountingStep, DrainedStep DEF TypeOK
    <3>2. CASE Producer
      <4>1. UNCHANGED <<pc, msg, db, count, report>>
        BY <3>2 DEF Producer, Offer, Drop, Close
      <4>2. WorkerTypes' BY <4>1 DEF WorkerTypes, TypeOK, report
      <4> QED BY <3>1, <3>2, <4>2, ProducerBounds DEF TypeOK
    <3>3. ASSUME NEW w \in Workers, Worker(w) PROVE PoolInv'
      BY <3>1, <3>3, WorkerTypesStep, WorkerBounds DEF TypeOK
    <3>4. CASE Idle BY <2>1, <3>4 DEF Idle
    <3> QED BY <2>2, <3>2, <3>3, <3>4 DEF Next
  <2> QED BY <2>1, <2>2
<1> QED BY <1>1, PoolInit, PTL DEF Spec

(* Every reachable state is well typed, and the channel within capacity. *)
THEOREM PoolTypeCorrect == Spec => []TypeOK
BY PoolInvariant, PTL DEF PoolInv

(* Nothing of the first window is ever dropped, whatever the sizes. *)
THEOREM FirstWindowAlwaysFits == Spec => []FirstWindowFits
BY PoolInvariant, PTL DEF PoolInv

(* The create race never takes the last worker, however many workers and    *)
(* tracks there are.                                                        *)
THEOREM AlwaysASurvivor == Spec => []SomeWorkerSurvives
<1>1. PoolInv => SomeWorkerSurvives BY DEF PoolInv, Survival, SomeWorkerSurvives, Safe
<1> QED BY <1>1, PoolInvariant, PTL

(* No message is lost in the pool, and none is left in the channel. *)
THEOREM AlwaysAccounted == Spec => []MessagesAccounted
<1>1. PoolInv => MessagesAccounted
  <2> SUFFICES ASSUME PoolInv, mode.startable PROVE MessagesAccounted
    BY DEF MessagesAccounted
  <2>1. PICK w \in Workers : pc[w] # "failed" BY DEF PoolInv, Survival, Safe
  <2>2. Returned => jobs = <<>> BY <2>1 DEF PoolInv, Drained, Returned, Left
  <2> QED BY <2>2 DEF PoolInv, Accounting, MessagesAccounted
<1> QED BY <1>1, PoolInvariant, PTL

(* Workers with databases of their own never fail. *)
THEOREM PrivateWorkersNeverFail == Spec => []ErrorsNeedSharing
<1>1. PoolInv => ErrorsNeedSharing BY DEF PoolInv, Survival, ErrorsNeedSharing
<1> QED BY <1>1, PoolInvariant, PTL
=============================================================================
