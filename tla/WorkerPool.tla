----------------------------- MODULE WorkerPool -----------------------------
(***************************************************************************)
(* The worker pools of internal/exp/exp.go: a producer feeds a bounded     *)
(* channel, workers take messages from it and run the receive stage, and a *)
(* worker whose run fails leaves.  RunThroughputTotal drops a message when *)
(* the channel is full, RunCapacity waits.                                 *)
(*                                                                         *)
(* Of the receive stage only what decides whether the run fails is kept:   *)
(* whether the track is in the worker's database when ppli_correlate looks *)
(* and, if it is not, when create_entry tries to add it.  (TrackStages has *)
(* the rest; no clear stage runs here, so an update never fails.)          *)
(***************************************************************************)
EXTENDS Integers, Sequences, FiniteSets, FiniteSetsExt

CONSTANTS Workers,
          Total,      \* messages offered
          PerWindow,  \* messages per window of the paced producer
          Tracks,     \* message i is for track i % Tracks
          Modes       \* how the pool may be run: [blocking, shared, startable]

ASSUME PoolAssumption ==
  /\ IsFiniteSet(Workers) /\ Workers # {}
  /\ Total \in Nat /\ PerWindow \in Nat \ {0} /\ Tracks \in Nat \ {0}

(* blocking: RunCapacity's producer rather than RunThroughputTotal's;       *)
(* shared: one database for all workers rather than one each;               *)
(* startable: the workflow file can be loaded.                              *)
ASSUME ModesAssumption ==
  Modes \subseteq [blocking : BOOLEAN, shared : BOOLEAN, startable : BOOLEAN]

VARIABLES mode,     \* one of Modes
          jobs,     \* the channel
          next,     \* messages offered so far: the number of the next one
          closed,   \* the producer has closed the channel
          dropped,
          pc,       \* "starting", "waiting", "correlate", "create", "failed", "done"
          msg,      \* the message a worker holds
          db,       \* tracks in each worker's database
          count,    \* runs each worker has completed
          processed, errors \* what the pool reports of the workers that have left

producer == <<next, closed, dropped>>
report   == <<processed, errors>>
vars     == <<mode, jobs, producer, pc, msg, db, count, report>>

(* Faulty variant: the channel is not made to hold a whole window. *)
SmallChanCap == Cardinality(Workers) * 2

ChanCap ==
  LET least == Cardinality(Workers) * 2
  IN IF mode.blocking \/ PerWindow < least THEN least ELSE PerWindow

Track(i) == i % Tracks
NoMsg    == -1
Left(w)  == pc[w] \in {"failed", "done"}

Init == /\ mode \in Modes
        /\ jobs = <<>>
        /\ next = 0 /\ closed = FALSE /\ dropped = 0
        /\ pc = [w \in Workers |-> "starting"]
        /\ msg = [w \in Workers |-> NoMsg]
        /\ db = [w \in Workers |-> {}]
        /\ count = [w \in Workers |-> 0]
        /\ processed = 0 /\ errors = 0
-----------------------------------------------------------------------------
(* The producer. *)
Offer ==
  /\ next < Total
  /\ Len(jobs) < ChanCap
  /\ jobs' = Append(jobs, next)
  /\ next' = next + 1
  /\ UNCHANGED <<mode, closed, dropped, pc, msg, db, count, report>>

(* Faulty variant: the message dropped is not counted. *)
DropUncounted ==
  /\ next < Total
  /\ Len(jobs) = ChanCap
  /\ ~mode.blocking
  /\ next' = next + 1
  /\ UNCHANGED <<mode, jobs, dropped, closed, pc, msg, db, count, report>>

Drop ==
  /\ next < Total
  /\ Len(jobs) = ChanCap
  /\ ~mode.blocking
  /\ dropped' = dropped + 1
  /\ next' = next + 1
  /\ UNCHANGED <<mode, jobs, closed, pc, msg, db, count, report>>

Close ==
  /\ next = Total
  /\ ~closed
  /\ closed' = TRUE
  /\ UNCHANGED <<mode, jobs, next, dropped, pc, msg, db, count, report>>

(* The workers. One that fails reports an error and none of its count. *)
LeaveFailed(w) ==
  /\ pc' = [pc EXCEPT ![w] = "failed"]
  /\ msg' = [msg EXCEPT ![w] = NoMsg]
  /\ errors' = errors + 1
  /\ UNCHANGED <<mode, jobs, producer, db, count, processed>>

StartUp(w) ==
  /\ pc[w] = "starting"
  /\ \/ /\ mode.startable
        /\ pc' = [pc EXCEPT ![w] = "waiting"]
        /\ UNCHANGED <<mode, jobs, producer, msg, db, count, report>>
     \/ ~mode.startable /\ LeaveFailed(w)

Take(w) ==
  /\ pc[w] = "waiting"
  /\ jobs # <<>>
  /\ jobs' = Tail(jobs)
  /\ msg' = [msg EXCEPT ![w] = Head(jobs)]
  /\ pc' = [pc EXCEPT ![w] = "correlate"]
  /\ UNCHANGED <<mode, producer, db, count, report>>

(* The worker's range over the closed, drained channel ends. *)
Leave(w) ==
  /\ pc[w] = "waiting"
  /\ jobs = <<>> /\ closed
  /\ pc' = [pc EXCEPT ![w] = "done"]
  /\ processed' = processed + count[w]
  /\ UNCHANGED <<mode, jobs, producer, msg, db, count, errors>>

Database(w) == IF mode.shared THEN UNION {db[x] : x \in Workers} ELSE db[w]

(* Faulty variant: the worker holds on to its message. *)
CompletedKeeping(w) ==
  /\ pc' = [pc EXCEPT ![w] = "waiting"]
  /\ count' = [count EXCEPT ![w] = @ + 1]
  /\ UNCHANGED <<mode, jobs, producer, msg, report>>

Completed(w) ==
  /\ pc' = [pc EXCEPT ![w] = "waiting"]
  /\ msg' = [msg EXCEPT ![w] = NoMsg]
  /\ count' = [count EXCEPT ![w] = @ + 1]
  /\ UNCHANGED <<mode, jobs, producer, report>>

(* Faulty variant: every message is taken to be for a new track. *)
CorrelateAsNew(w) ==
  /\ pc[w] = "correlate"
  /\ pc' = [pc EXCEPT ![w] = "create"]
  /\ UNCHANGED <<mode, jobs, producer, msg, db, count, report>>

(* ppli_correlate. A track that is there is updated or kept. *)
Correlate(w) ==
  /\ pc[w] = "correlate"
  /\ \/ Track(msg[w]) \in Database(w) /\ Completed(w) /\ UNCHANGED db
     \/ /\ Track(msg[w]) \notin Database(w)
        /\ pc' = [pc EXCEPT ![w] = "create"]
        /\ UNCHANGED <<mode, jobs, producer, msg, db, count, report>>

(* create_entry: Create refuses a track another worker has just added. *)
CreateEntry(w) ==
  /\ pc[w] = "create"
  /\ \/ /\ Track(msg[w]) \notin Database(w)
        /\ db' = [db EXCEPT ![w] = @ \union {Track(msg[w])}]
        /\ Completed(w)
     \/ Track(msg[w]) \in Database(w) /\ LeaveFailed(w)

(* The pool returns once the producer and all workers have finished. *)
Returned == closed /\ \A w \in Workers : Left(w)
Idle     == Returned /\ UNCHANGED vars

Worker(w) == StartUp(w) \/ Take(w) \/ Leave(w) \/ Correlate(w) \/ CreateEntry(w)
Producer  == Offer \/ Drop \/ Close
Next      == Producer \/ (\E w \in Workers : Worker(w)) \/ Idle

Spec == Init /\ [][Next]_vars

(* The Go scheduler runs every goroutine that can run. *)
Fairness == WF_vars(Producer) /\ \A w \in Workers : WF_vars(Worker(w))
FairSpec == Spec /\ Fairness
-----------------------------------------------------------------------------
(***************************************************************************)
(* Properties.                                                             *)
(***************************************************************************)
QueueTypes ==
  /\ mode \in Modes
  /\ jobs \in Seq(0..(Total - 1)) /\ Len(jobs) <= ChanCap
  /\ next \in 0..Total /\ closed \in BOOLEAN /\ dropped \in 0..next

WorkerTypes ==
  /\ pc \in [Workers -> {"starting", "waiting", "correlate", "create", "failed", "done"}]
  /\ msg \in [Workers -> Int]
  /\ \A w \in Workers : IF pc[w] \in {"correlate", "create"}
                         THEN msg[w] \in 0..(Total - 1) ELSE msg[w] = NoMsg
  /\ db \in [Workers -> SUBSET (0..(Tracks - 1))]
  /\ count \in [Workers -> Nat]
  /\ processed \in Nat /\ errors \in Nat

TypeOK == QueueTypes /\ WorkerTypes

(* Runs fail only when another worker creates the track first, so the       *)
(* workers never all fail: whoever added the last track goes on. This is    *)
(* what keeps the blocking producer of RunCapacity (exp.go:303) from        *)
(* waiting for ever.                                                        *)
SomeWorkerSurvives == mode.startable => \E w \in Workers : pc[w] # "failed"

(* With a database of its own no worker ever fails (README.md:115).         *)
ErrorsNeedSharing == mode.startable /\ ~mode.shared => errors = 0

(* Every message offered is dropped, in the channel, with a worker,         *)
(* completed, or cost its worker; nothing is left in the channel in the end.*)
Busy    == {w \in Workers : msg[w] # NoMsg}
AllRuns == MapThenSumSet(LAMBDA w : count[w], Workers)

MessagesAccounted ==
  mode.startable =>
    /\ next = dropped + Len(jobs) + Cardinality(Busy) + AllRuns + errors
    /\ Returned => jobs = <<>>

(* Processed counts the messages processed by workers (exp.go:97).          *)
ReportComplete == Returned => processed = AllRuns

(* The channel holds a window, so nothing of the first one is dropped       *)
(* (exp.go:130-133).                                                        *)
FirstWindowFits == next <= PerWindow => dropped = 0

(* The pool returns: every worker leaves, every message has been taken.     *)
PoolReturns == <>Returned

(* RunCapacity returns and reports a rate (exp.go:259-261), also when its   *)
(* workers fail to start.                                                   *)
CapacityReturns == mode.blocking => <>Returned
=============================================================================
