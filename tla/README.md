# Verification of the workflow engine

TLA+ models of `engineforworkflow`: a workflow engine in Go and the tactical
data link stages that run on it. TLC checks the models on small instances,
TLAPS proves most of what they say for every value of the constants. Paths are
relative to the repository's source tree.

1. [The system](#the-system)
2. [The modules](#the-modules)
3. [The runs](#the-runs)
4. [Fairness](#fairness)
5. [Where the code and its own words differ](#where-the-code-and-its-own-words-differ)
6. [The proofs](#the-proofs)
7. [What is left out](#what-is-left-out)
8. [Plan](#plan)

## The system

A workflow definition is a list of stages, a stage a list of steps, and a step
names a node, the branches to take on its output, a policy for when it fails
and a default target. `Engine.Run` carries a token through one stage. An
instance is private to a goroutine, but its nodes hold a track database or a
queue set that any number of instances may share, and each of whose methods
takes the object's own lock.

| component | code | state | operations | what makes it correct |
|---|---|---|---|---|
| Engine | `workflow/engine.go` | registry, definition, tokens, position of the run | Register, LoadWorkflow, NewInstance, InjectToken, Run | a run only moves forward and returns; a validated definition is never refused at run time; the context keeps its fields |
| Router | `workflow/router.go` | none | Route, evaluateCondition | the first branch that holds decides, by the kind of the value compared |
| Definitions | `workflow/types.go` | none | GetStage, StepIndex, Validate | Validate accepts only targets Run can follow |
| Node registry | `node/node.go` | name to node | Register, Get, List | a name is taken once |
| Track databases | `model/track_db.go`, `model/j32_track_db.go` | track to entry, behind a lock | Create, Get, Update, Delete, CheckExpired, CleanExpired, SetTTL | an entry holds the newest message of its track; only what has expired goes |
| Receive and clear (T3, T4) | `node/ppli_nodes.go`, `node/j32_nodes.go`, `node/common_nodes.go`, `config/*_stages.json` | the token, and the entry a `Get` returned | the nodes of the two stages | the same, although a stage takes the lock once per node |
| Prepare, send, special (T1, T2, T5) | same files | the message object its nodes share | the nodes of the three stages | the payload says what the message says; a denied message is not sent; repaired messages are in range, but for one edge |
| J2.2 codec | `model/j22_codec.go` | none | EncodeJ22, DecodeJ22 | what is decoded is what was encoded; a bit error is noticed |
| Priority queues | `model/priority_queue.go`, `node/priority_nodes.go`, `config/priority_stages.json` | a queue per NPG, each behind a lock | enqueue_host_message, terminal_preempt, purge_stale, dispatch_slot | nothing lost, precedence kept, only stale messages purged, the terminal not starved while slots come |
| Worker pools | `internal/exp/exp.go` | channel, workers, counters | the two producers, the workers | the pool returns and its report adds up |
| Baselines | `monolithic/` | the track database | the five stages by hand, T3 also as a state machine | the same result as the routed stages |
| Message types | `model/message.go`, `model/j32_message.go` | | | plain records |
| Priority experiment | `cmd/priorityexp` | a queue set | five scenarios | what each scenario expects comes true |
| Demo, other experiments, timing, figures | `main.go`, `cmd/`, `internal/timing`, `figures/` | | | scripts that drive the rest |

How they interact. The programs build a registry whose nodes hold the shared
database or queue set, load a definition, and call `Run` in one goroutine or
in several (`exp.RunThroughputTotal` with `shared`). `Run` calls a node, merges
its output into the token's data, and asks the router where to go. Nodes call
the database or the queue, one locked call at a time. T1 leaves an encoded
payload in its token, which a caller may hand to T3; how it gets there is not
part of the system, so it may come late, twice, damaged or never. Nothing is
persisted, so there are no crashes to recover from. What makes the system hard
is

* steps of two runs between one another: `ppli_correlate` reads an entry, and
  `create_entry` or `update_entry` acts on what it saw two locks ago;
  `check_ttl` and `delete_entry` likewise;
* runs that end half-way: a node that fails, an output no branch covers, a
  definition nobody validated;
* workers that leave on their first error while a producer counts on them;
* a clock read before the lock under which the reading is used;
* an entry read through a pointer, without its lock, while it is overwritten;
* messages received in another order than they were sent, with times that the
  codec has cut to seconds and IDs it has cut to eight bytes;
* more messages than slots to send them in;
* numbers at their limits: rounding, saturation, two's complement, remainders.

`PROJECT.json` lists these hazards with the lines where they bite and the
properties that speak of them.

## The modules

```
Router - WorkflowDef - Engine (implements ForwardWalk) - MCEngine, EngineProofs
              |
         StageTables -+- TrackStages (implements LatestTable) - MCTrackStages
                      |       |    `- TrackNodesProofs - TrackStagesProofs
                      |       |                                  |
                      |   Exchange - MCExchange, -------- ExchangeProofs
                      |       |                                  |
         J22Codec ----+- MessageStages - MCMessageStages, MessageStagesProofs (*)
PriorityQueue -+- MCPriorityQueue
               +- PriorityScenarios - MCPriorityScenarios, PriorityQueueProofs (*)
WorkerPool - MCWorkerPool, WorkerPoolProofs (*)
FoldLemmas: what the proofs marked (*) need to know of loops and sums
```

Definitions whose comment begins with "Faulty variant" belong to no behaviour.
Each is a plausible mistake in the definition after it; the property named with
it in `PROJECT.json` fails as soon as that definition is replaced by it.

**Router, WorkflowDef.** Operators without state. A node's output is a function
from fields to typed values; a condition is a record that says whether the
pattern of `evaluateCondition` matches its text. Positions count from 1, and 0
is the code's -1 or nil. `Route` takes the first matching branch; the number
that `Sscanf` reads off a literal, trailing text or not, is the constant
`ScannedNumber`. `Validate` looks at step IDs, targets and empty conditions, and,
as the code, at nothing else.

**Engine.** `registry`, `def`, `tokens` are the fields of the registry and the
instance; `pc`, `stage`, `idx`, `result` are the local state of `Run`.
`Register`, `LoadWorkflow`, `NewInstance`, `InjectToken` are calls, `RunRefused`
and `StartRun` the two ways `Run` begins, and one iteration of its loop is
`StepFails` or `StepSucceeds`, whose disjuncts are its ways to go on (fall
through, "end", a later step) and to refuse (undefined routing, target not
found, target not forward). What a node returns is open: it fails, or returns
any output at all, so the results hold for every node ever written.
`NewInstance` takes a definition nobody validated, as Go code may.
`executed` and `lastOutput` are history.

**ForwardWalk.** Proposition 1 as an abstract specification: a walk over
`1..limit` that moves forward only and stops. `Engine` implements it with
`pos <- idx`.

**StageTables.** The stages of the two workflow files, step by step, and the
roles their node names stand for. J2.2 and J3.2 nodes that do the same share an
action.

**TrackStages.** The database is `entries`, every `TrackEntry` ever created, and
`tracks`, the position of the one a track has now. An entry taken out of the
map lives on for a worker whose `Get` returned it (`held`). Each worker runs a
stage: `stage`, `step`, `job` (its token), `phase` (a node that takes the lock
twice, or reads an entry after unlocking, has a second part), `outcome`.
`Continue` and `Fail` are what `Run` does after a node. One action per locked
call: `CorrelateGet` and `CorrelateCompare`, `CreateEntry`, `UpdateEntry`,
`StoreGet` and `StoreCreate`, `CheckTTL` or `Sweep`, `DeleteEntry`. Of a message
the track and the time are kept, whether it decodes, and the manual correlation
hint. `kind` says whose stages run: J2.2 and J3.2 have their own tables and bulk
sweep and share the rest, as their nodes and databases are the same code twice.
`CorrelateCompare` reads the entry without the lock. If another worker is about
to write that entry (`TornRead`), the two may run at the same moment: the time,
three machine words, may be read in part before and in part after the write,
so the comparison may come out either way.

**LatestTable.** What the database promises to one caller: per track the time
of the newest message, gone once too old. `TrackStages` implements it when
one worker runs, which the run `exchange` checks and `TrackStagesProofs` proves.

**MessageStages, J22Codec.** T1, T2 and T5 of both message types, a node per
action. The message is one object that nodes change in place, `data` the rest
of the token. The codec works on words as sets of bit positions, with the
code's rounding, saturation, two's complement and checksum: a latitude is an
integer number of half resolution steps, so that every rounding of the code is
one of the model. Between two half degrees lies one course, `Hair`: a negative
number so small that 360 plus it is 360 in `float64`. `Wrap` gives 360 for it, as
the code does, and puts every other course into 0..359.5. `T1SendPreparation` and
`T5SpecialProcessing` are the baselines the stages are compared with.

**Exchange.** `MessageStages` (the sender, `tx` variables) and `TrackStages` with
one worker (the receiver) side by side. `PrepareLast` puts the payload T1 has
made on the `wire`, where it stays: `Deliver` hands any of them, once more and
perhaps with a bit flipped, to T3, so payloads are lost, delayed, reordered,
repeated and damaged. `Receipt` is what `decode_message` makes of one. Deliver
also runs the two baselines of T3 on the decoded message, and a clear run
`T4Clear`, on databases of their own (`twins`). `Transition` is one turn of the
loop of the state machine. `origin`, `offered` and `parted` are history: the
message each entry was written from, when the messages a track was received
with had been sent, and the tracks of which a baseline refused a message.

**PriorityQueue.** `queues[n]` is the slice of NPG `n`. `Enqueue`, `Purge` and the
scan of `Dequeue` are single steps under the queue's lock (`Fresh` is the queue
that the purge leaves, the stale entries filtered out); `dispatch_slot` is
`StartDispatch` (the clock is read), `PurgeFirst` and `Dequeue`. `older[m]` is
history: what was queued when `m` arrived.

**PriorityScenarios.** The five programs of `cmd/priorityexp` as scripts, each a
sequence of commands (enqueue, perhaps enqueue, dispatch, sleep, purge, drain)
that drive the queue. The commands of one script run one after the other; the
clock may advance between any two steps. Loops are shortened, and the drawing of
random types is a choice. A sixth "scenario" is `free`: clients that call the
nodes in any order, the general case.

**WorkerPool.** The channel, the two producers (`Offer` and `Drop`, or `Offer`
alone), workers that start or do not, take a message, find its track or create
it, fail, leave. Of the receive stage only the create race is kept, since it is
the only thing that makes a run fail there; the rest is in `TrackStages`.

## The runs

| run | instance | what it checks |
|---|---|---|
| `engine` | one stage of no step or of three, every combination of 7, 3 and 2 branch lists, policies and defaults (backward, missing, "end", repeated step IDs), validated or not; two node names registered or not; a second stage ID no definition has | `ForwardProgress`, `LoadedNeverMisroutes`, `SkipsAreDeclared`, `BothBooleansRouted`, `RunTerminates`, and `WalkSpec`: the engine implements the forward walk, fairness included |
| `track_stages` | two workers, one track, the J2.2 or the J3.2 stages, messages of three times, one undecodable, three hints; three receive runs, any number of clear runs | `KeepLatest`, `VersionCountsWrites`, `SafetyNetUnused`, `AbortsNeedInterference`, `OnlyExpiredRemoved`, `UndefinedOnlyAfterSweep` |
| `track_overwrite`, `track_removal` | as `track_stages`, J2.2, without hints; the first also without torn comparisons (`WholeSpec`) | findings, see below |
| `exchange` | three reports, two of tracks that agree in eight bytes, one of these out of position; two payloads, three deliveries, two kinds of damage per word; a second of two ticks | `TableSpec`, `NearlyLatest`, `ExpiredWithinSecond`, `Intact`, `BaselinesAgree` |
| `exchange_stale` | one report in position, no damage | finding |
| `priority_queue` | two dispatchers, one NPG; the scenarios with two to four messages of a kind; free clients with four messages: two that tie, one above them, one terminal, limits 0 and 1, clock up to 2 | `Conservation`, `SentInPrecedence`, `OnlyStalePurged`, `FreshAtReading`, `ScenariosAsExpected`, `FloodProtection` |
| `terminal_sent` | one dispatcher, two NPGs, messages that return for ever, slots that keep coming (an assumption, see [Fairness](#fairness)) | `TerminalSent` |
| `message_stages` | reports at, below and above every limit the code compares with, half steps on both sides of zero, a course a hair below zero; with or without a report, a message, a denial, a claimed anomaly; both kinds | `PreparedAlike`, `PayloadFaithful`, `BitErrorsDetected`, `TransmittedUnlessDenied`, `ClampedAlike`, `SpecialRepairs` |
| `worker_pool` | two workers, two tracks, nine messages, windows of five; both producers, private or shared databases, workers that start or not | `SomeWorkerSurvives`, `MessagesAccounted`, `FirstWindowFits`, `PoolReturns` |
| `pool_stuck`, `pool_report` | the same | findings |

Every passing run checks its module's type invariant or shares the module with
a run that does.

What the track runs say, taken together. Keep-latest does not hold when
receive runs overlap on one track, and expiry does not hold when a clear run
overlaps a receive run. So the properties name the interference: `overlapped`,
`disturbed` and `hinted` are the tracks on which two receive runs, a receive and
a clear run, or a manual hint got in each other's way, and each property is
claimed for all other tracks. `KeepLatest` holds through any number of
concurrent clear runs; `OnlyExpiredRemoved` through any number of concurrent
receive runs of the same track with one another; a receive run is aborted by
`create_entry` only if another receive run overlapped, and by `update_entry`
only if a clear run did. A comparison torn by a concurrent write changes none of
this, since it takes two overlapping receive runs to begin with.

What `exchange` says. With one caller the database is a keep-latest table
(`TableSpec`), but the table knows times in whole seconds. By the sender's clock
that costs less than a second each way: a track holds a message less than a
second older than the newest it was received with, and is swept less than a
second early. Nothing of a damaged payload reaches the database. The baselines
agree with one another always, and with the routed stages on every track of
which they refused no message.

What the scenarios say. `FloodProtection` is relative to the dispatcher: with
priority on, a J13.3 leaves in the slot it came in, however many J2.2 wait; with
priority off, no message leaves before one that was queued ahead of it, so its
wait grows with the backlog.

Bounds, and why they are enough. Where a property is proved as well, the proof
removes the bound and the run shows that the interesting case happens.

* Engine: three steps are what a jump over a step, a backward jump, a jump to
  oneself and a repeated ID need.
* TrackStages: the races need two runs to overlap and a third to have stored
  the message they compare with, so three receive runs (`MaxReceives`); clear
  runs are not counted. With TTL 1 or 0 and a clock to 3 (`MaxNow`) a track
  can expire, be refreshed and expire again. Workers are symmetric.
* Exchange: two payloads can be reordered or share a second, the third delivery
  repeats one; two tracks that collide and one that does not. The clock (5)
  passes the default TTL (4) and the age of refusal (2, for the code's 30 s).
  Bits 67 and 72 are a data bit of the last group and a parity bit; all bits
  are flipped in `message_stages`. No symmetry, since it checks a refinement.
* PriorityQueue: a tie, a higher priority and another class are what `Less`
  tells apart; two dispatchers race for one queue. A clock to 2 passes a limit of
  1 and lets a message go stale between the reading and the purge. Scripts have
  a clock to 3, so that time passes beside the two sleeps of scenario 4. Two
  slots of two J2.2 each already leave a backlog in which a J13.3 could wait.
* WorkerPool: nine messages exceed the channel (five, one window) and what two
  workers hold and fail with; with fewer the blocking producer would never
  block. Two tracks let both workers race twice, and one of them survive.
* MessageStages: the code's behaviour changes at a limit or at half a step, so
  the reports lie on both sides of each; one field is varied at a time, except
  for pairs that share a word and one report wrong in three fields.

Deadlock is checked everywhere except in `pool_stuck`, whose subject is the pool
that stops. In `worker_pool` the pool that has returned stutters (`Idle`), so
any other state without a successor would be reported.

## Fairness

* Engine: `WF(RunStep)`. `Run` is a loop in the caller's goroutine and nodes
  return; nothing obliges a caller to start a run.
* PriorityQueue: `NodesReturn`, `WF` on the parts of a node, is the code's: a
  node that has begun returns. `SlotsKeepComing`, `SF` on the start of a dispatch
  for every NPG, is an assumption on the callers and not something the repository
  schedules: no code reads the `"trigger": "timer"` of stage `dispatch`
  (`priority_stages.json:28`, `types.go:17`), the programs dispatch in bounded
  loops, and `dispatch_slot` serves NPG 6 unless it is given another. So
  `TerminalSent` says what the queues promise a caller who does keep dispatching
  for every NPG: then no stream of other messages holds a terminal's back. The
  fairness is strong because such a caller is not put off by a worker that is
  busy with another NPG. Enqueuing and the clock have no fairness.
* WorkerPool: `WF(Producer)` and `WF(Worker(w))`: the Go scheduler runs every
  goroutine that can run. A worker that waits for a message and the producer
  that waits for room are not enabled, as in the code.
* TrackStages, MessageStages, Exchange and PriorityScenarios claim no liveness.

## Where the code and its own words differ

* `track_overwrite`. `edge_cases_test.go:60-61`: an out-of-order update "must be
  resolved as a duplicate and the newer stored state preserved"; the test runs
  one goroutine. With two, both receive runs compare their messages, of times 2
  and 3, with the stored message of time 1, and both decide for "update". The one
  of time 3 is written, then the one of time 2 over it: `Update` overwrites
  whatever is there. The run leaves torn comparisons out (`ReadsWhole`), so
  two locks in a row are enough for it.
* `track_removal`. `edge_cases_test.go:151`: T4 "removes only expired tracks".
  `check_ttl` finds a track expired, a receive run refreshes it, `delete_entry`
  deletes the fresh message.
* `pool_report`. `exp.go:97`: `Processed` is "messages processed by workers". A
  worker that fails has processed messages and sends none of its count.
* `pool_stuck`. `exp.go:259-261`: `RunCapacity` "reports the sustained processing
  rate". If the workers cannot load `config/ppli_stages.json`, they all leave, the
  channel fills and the producer waits for ever.
* `exchange_stale`. `statemachine.go:26-27`: the state machine "performs the same
  node-level work as the engine's routed T3 stage". It refuses a message older
  than 30 seconds, or out of position; the routed stage runs `receive_filter`,
  whose output no branch of the stage looks at, and stores the message. In the
  run a payload arrives late and the databases differ.

Things the models show that no line of the repository clearly denies. A bulk J3.2
clear sweeps the database and then ends in an undefined routing, because
`check_ttl_j32` sets no field the branches of its step test
(`UndefinedOnlyAfterSweep` says it happens there and nowhere else, and after
the sweep). `detect_anomaly` compares the first ten characters of a track ID
with a text of nine, so it never reports a conflict; a position out of range is
repaired without a report. `clamp_field` adds 360 to a negative remainder, and of
a course or heading not below -2^-45 the sum is 360 in `float64`: the field it has
called "range_normalized" (`ppli_nodes.go:307`, `j32_nodes.go:427`) is then one that
`validate_j32_message` and `j32_detect_anomaly` call out of range
(`j32_nodes.go:150`, `391`). `SpecialRepairs` says that this is the only such message,
and that a second T5 repairs it. A payload in the token
takes `decode_message` past its own checks (`common_nodes.go:185`); what
`DecodeJ22` returns is in range by construction of the fields, as
`PayloadFaithful` shows. And while `j22_codec.go:47-48` speaks of a round trip that
"preserves all 15 fields", the layout above it gives a track ID eight bytes and
times whole seconds, so `NEW_TRK100` of `main.go` arrives as `NEW_TRK1`; `exchange`
contains two such tracks, and the receiver has them as one.

## The proofs

All theorems are checked by tlapm, to the last leaf.

A component's proofs rest on one inductive invariant each: what the properties
say, and what a step needs to know so that they are still true after it. TLC has
checked every such invariant on the run of its component.

**EngineProofs**, for every set of definitions, nodes, stage IDs, fields, values
and injected data. `EngineInv` strengthens the type invariant with what the
properties need to be inductive: the definition is one of `Definitions`
(`DefinitionOK`), a loaded one is valid, there is no result before there is a
definition or while a run is in progress, and the position of such a run is at
most one past the end and above everything executed. From it follow `TypeCorrect`,
`ForwardProgressHolds` (Proposition 1, also for definitions nobody validated:
there it is the run-time check that keeps it), `ValidatedNeverMisroutes` (what
`Validate` accepts the two run-time checks accept), `ContextNeverShrinks`,
`BothBooleansAlwaysRouted` (one of two branches on a boolean always holds, and a
valid branch has a target), `SkipsAlwaysDeclared` (what `StepIndex` returns for
a target is the first step of that name, so a jump lands where a branch or a
default says), and `EngineImplementsWalk`, the step simulation behind `WalkSpec`.

**TrackNodesProofs, TrackStagesProofs**, for any number of workers, tracks and
messages and for both message types. `TrackNodesProofs` reads the stage tables
off once: which node stands at which step (`Places`), and where a run goes on
after each (`ReceiveGoesOn`, `ClearGoesOn`), down to one lemma per action
(`CreateEntryDoes` and the like) that says at which step it can happen and how it
leaves the run. `TracksInv` is the inductive invariant.

* `Noted`: whatever interferes is on record. While a receive run is under way,
  a clear run on the same track has put the track in `disturbed`, a second
  receive run has put it in `overlapped`, a hint in `hinted`.
* `Receiving(w)`: what a receive run has learned of its track, as far as no such
  record releases it. Past the comparison the track is there; at `create_entry`
  it is not; the entry compared with is the one the track still has, or the track
  is gone; at `update_entry` the stored message is older than the one in hand.
* `Clearing(w)`: a track found expired stays expired until `delete_entry`.
* `TracksGood`, by `Newest`: an entry has the newest time it has seen, and its
  version is the number of times written to it.

An action of one worker must not spoil what another has learned. It can only by
working on the same track, and then `Noted` has the record that releases the
other's claim: that is the argument of every step. Hence `LatestKept`,
`VersionsCount`, `SafetyNet`, and, of single steps, `AbortsExplained`,
`RemovalsExplained` and `UndefinedExplained`.

The module ends with the abstract table, for one caller without hints
(`OneCaller`). Then nothing is ever on record (`Alone`), so every claim of
`TracksInv` holds without exception: what is created was not there, what is
updated was older, what is deleted was expired. Each of these is a step of
`LatestTable`, and `TableImplemented` follows.

**FoldLemmas.** The loops of the code are recursive functions or folds here, and
induction over data is out of the provers' reach. What stands in for it is
minimality: every nonempty set of numbers has a least element (`LeastExists`), so
a loop that goes wrong has a first round in which it does; every nonempty collection of
subsets of a finite set has a smallest one (`SmallestExists`), so a sum that is
not what it should be has a smallest set over which it is not. From this the
module derives that the fold of the community modules is a sum: taking an element
out subtracts its term (`SumTake`), equal terms give equal sums (`SumAgree`),
and a term that grows by one makes the sum grow by one (`SumBumps`).

**MessageStagesProofs**, for every message, in particular every altitude,
position and text. `StagesInv` says what the token of each stage holds before
each step, as a function of the message the run began with: `Classified` after
`classify_platform`, the payload after `encode`, the repaired message after
`clamp_field`. At the end of a run it names the result, which is then compared
with what the hand-inlined functions make of the same message: `PreparesAlike`,
`ClampsAlike`, `SpecialAlwaysRepairs` (in range but for what was a hair below zero,
untouched if it was in range, an anomaly reported if and only if there was one
that T5 looks for), `TransmitsUnlessDenied`. `PayloadBitErrors`:
`DecodeJ22` accepts what `EncodeJ22` produced and rejects it with any one bit of
the two words changed. The lemmas under it say that a data bit lies in exactly one
group of five, that flipping it changes the size of that group by one and hence
the parity the checksum compares, and that a parity bit flipped disagrees by
itself. `BitErrorsAlwaysDetected` carries it to every run of T1.
`PayloadAlwaysFaithful` says that what the receiver decodes is the valid message
T1 was given. Its half about the context block is `ContextAlwaysFaithful`. The
half about the words goes from the bits up: `GetBits` is a sum of powers of two,
the bits `SetBits` puts into a field are those of the value modulo the field's size, and
fields that do not overlap do not disturb one another (`InitialFields`,
`ExtensionFields`); so a field gives back the count that was put in, provided it
is in range. That it is, after rounding, at both ends and on both sides of zero,
and that it says the value to half a step, is arithmetic on each of the five
fields.

**ExchangeProofs**, for any reports, TTLs, clock, damage and number of payloads.
Sender and receiver are instances of the two components, so their invariants are
at hand. `ExchangeInv` ties them together.

* `Wire`: every payload is the encoding of a message T1 has prepared. Damaged
  copies are rejected by the codec lemmas, so a message `InHand` that decodes is
  intact, and has the track and the second of what was sent.
* `Origins`: an entry has the second of the message it was written from, and
  no message the track was received with lies in a later second. A message that
  decides for "duplicate" is not newer than the entry until its run is over.
* `Twins`: the baselines receive at once what T3 does in up to seven steps. So of
  the track in hand they hold what T3 will make of it (`Received`), of all others
  what the routed stages hold (`Routed`), with the exception of the tracks a
  baseline has refused a message of.

The first two give `AlwaysIntact`, `AlwaysNearlyLatest` and `ExpiresWithinSecond`,
the third `BaselinesAlwaysAgree`. It rests on `MachineAgrees`: unrolled five times,
the loop of the state machine does what the inlined function does, on every message
and every database. `ExchangeImplementsTable` takes the table's refinement
over from `TrackStagesProofs`, as the exchange has one caller and no hints. As each
component is instantiated twice, by `Exchange` and with its proofs, the module
begins with lemmas that both instances define the same.

**PriorityQueueProofs**, for any number of messages, NPGs and dispatchers, and for
scenarios of any length.
`QueueInv` says of each queue that it holds exactly the queued messages of its NPG
(`Msgs`), none twice (`Distinct`), stamped in the past and in the order they came in
(`Ordered`, the one place where `older` matters), and of a dispatcher between its two
locks that no entry is stale by the clock it read: `Enqueue` stamps with the
clock, which has not gone back. The scan of `Dequeue` and the filter of `Purge` are
recursive functions. That the scan finds a best entry and the filter keeps
exactly the fresh ones is shown by the first round in which it would go wrong;
there is a first by `LeastExists`. Hence `QueuesConserve`,
`PrecedenceKept`, `SentFresh` and `PurgedStale`.

The programs of `cmd/priorityexp` come second. Every command of a script enqueues
messages of its own or none (`ScriptTyped`), so a step of a program is a step of the
queues or leaves them alone: `ScenariosRunTheQueues`, and with it `ScenariosKept`,
all of the above in every scenario. The floods of scenario 2 need to know where in
the script a dispatch runs. Their scripts are concatenations of slots of four
commands each (`FlattenEvenly`), so the position gives the slot and the command in it
(`FloodCommand`). `FloodInv` says that one dispatch runs per slot, at its last
command; that with priority on at most one J13.3 is queued and it is the slot's own;
that with priority off all that was queued before a sent message has been sent or
purged. A dispatch sends a message that outranks all others (`DequeueSends`): a J13.3
before any J2.2, and among equals one that no other preceded. Hence `FloodsProtected`.

The other four programs come last. What `ScenariosAsExpected` says of the end of a
program is far from inductive: it needs, for every command, what is queued, what
has been sent and, for scenario 4, how old it all is. `ProgramInv` says it.

* `Calm`: a program is inside one node at a time, and only at a command that has
  it run that node. `ProgramSteps` sums up what is then left of the steps: a
  message is added or is not, a dispatch or a purge begins, its purge removes
  what is stale, it sends something or finds nothing, the program sleeps.
* `BatchInv`, scenarios 1 and 3. While messages arrive, those queued are a
  beginning of `Came` and each has the ones before it in `older`; then those sent
  are a beginning of `Goes` and those queued the rest. The second batch outranks
  the first, so what `Dequeue` takes is next in `Goes` (`BatchSends`); no limit
  runs out, so the purge of a dispatch takes nothing (`BatchCleans`).
* `StaleInv` and `AgeInv`, scenario 4. In every slot what is sent is what has just
  come. Whatever is left of `Brief` has been queued for `s` units once the
  program has slept `s` times, and the purge at the end reads its clock after
  that; as the limits are below the number of slots, it takes them all. Earlier
  purges may have taken some, depending on the clock: the invariant leaves that
  open, as the code does.
* `DrainInv`, scenario 5. Producers add messages in any order, so the invariant
  counts: before the drain as many have come as commands have run. Of the drain,
  what was sent outranks all that is left, so what is sent next is outranked by
  all before it. The drain ends when nothing is queued, and then all have been sent.

Hence `ProgramsAsExpected`.

**WorkerPoolProofs**, for any number of workers, messages, windows and tracks.
That not all workers have failed is not inductive: nothing in it says why the
last one does not fail next. `PoolInv` therefore adds `Survival` to the types:
some worker is safe, that is, it has not failed and, if it is about to create a
track, the track is still missing. The worker that adds a track is safe
afterwards; the worker that fails was not safe, so the safe one is another.
Hence `AlwaysASurvivor`, and with it that the producer of `RunCapacity` keeps
a reader; `PrivateWorkersNeverFail`; and `FirstWindowAlwaysFits`, by counting
what is in the channel against what has been offered. `AlwaysAccounted`: each
step moves one message from one term of `Accounting` to another; a worker that
completes a message adds one to the sum over all workers, which `SumBumps` says.
That the channel is empty when the pool returns needs `Drained`: a worker leaves in good
order only from a closed and empty channel, and `Survival` says that some worker
leaves that way.

Every component also has its type invariant as a theorem.

What constants must satisfy is stated by the named assumptions of the modules,
which TLC evaluates in every run: no definition is the value `NoDef`, raw data
is not an output, there is a worker, windows are not empty, `NoMessage` is
neither a report nor a message, `Hair` not an integer, `AllTracks` neither a track
nor a number (so that an empty token and an absent time are told from real ones), a
second has a tick,
the stages of the two workflow files pass `Validate`. The scenarios use one NPG,
send no message twice, tell J2.2 from J13.3 and the terminal's messages by the
priorities the programs give them, and have two J2.2 for each slot of a flood.
`PartsAssumption` says
the same of what `Exchange` hands to its parts.

Only model-checked. Every safety property the passing runs check, invariant or
action property, is proved, and so are both refinements, of `WalkSpec` the safety
part. What is left is what holds under fairness: `RunTerminates`, the liveness of
`WalkSpec`, `TerminalSent` (on its assumption) and `PoolReturns`, since the prover
does not deal with `ENABLED`. The findings are traces TLC found, and have no proof.

## What is left out

* Formatting, logging, latencies, rates and percentiles.
* `T2Send` of `monolithic/`, which checks an argument and changes nothing.
* Fields of an entry but the time, when read while it is written: only the demo
  reads them, to print them, after its last run.
* `receive_filter` reports a stale or misplaced message and no branch looks at
  it; it is a passive step here.
* `SetTTL` between runs only, as the programs call it.
* Damage to the context block of a payload. Only the two words carry a checksum
  (`j22_codec.go:85-90`); a flipped bit in the ID or the time is taken as it comes.
* J3.2 messages have no codec, so `exchange` is about J2.2.
* Of the codec, `TrackNum` and `NPGNumber`, which fit their fields, and three of
  the four texts. Numbers are exact in the model, at half a step of each field;
  of what `float64` does beyond that only `Hair` is kept.
* `Peek`, `Len`, `SortedNPGs` and `List`, which only report, and the nodes
  `timer_trigger` and `skip`, which no stage of the workflow files uses.
* The demo, the timing helper, the figures, and of the experiment programs all but
  `priorityexp`, `measure` and the pools: they time what is modelled, resample
  timings or print. `bootstrap`, `ablation` and `changetask` are statistics and text;
  a model of them would say nothing about the system.

## Plan

Done: the engine with its router and definitions (the core every other part
runs on), the track stages of both message types, T1/T2/T5 with the codec, their
composition with the baselines, the queues and the scenarios that drive them,
the pools, and the proofs above. The order was: first what every stage depends
on, then what several goroutines share, then how the parts fit together.

Proved: every safety property of the passing runs, for every value of the
constants. Last came what needs sums or whole runs: `MessagesAccounted`,
`PayloadFaithful` and `ScenariosAsExpected`, program by program.

Left: the liveness properties under fairness, which stay with TLC.
