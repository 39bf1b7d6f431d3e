------------------------- MODULE PriorityScenarios -------------------------
(***************************************************************************)
(* The five scenarios of cmd/priorityexp/main.go, as programs that drive   *)
(* the queue of one NPG, and beside them ("free") clients that do as they  *)
(* please.  A program is a sequence of commands; time may pass between any *)
(* two steps, and must during a sleep.                                     *)
(*                                                                         *)
(* Loops of the code are shortened to the messages of the constants.  The  *)
(* producers of scenario 5 enqueue in any order; each draws the type of    *)
(* its next message at random.                                             *)
(***************************************************************************)
EXTENDS PriorityQueue

CONSTANTS Low,    \* sequences of messages: J2.2 of priority 1
          High,   \* J13.3 of priority 4
          Flat,   \* J13.3 of priority 1
          RTT,    \* terminal messages
          Brief,  \* J2.2 with a limit that runs out while the program sleeps
          Mixed,  \* set of messages of several types, without limits that run out
          Free,   \* set of messages the other clients send
          FreeNow \* bound: the clock beside these clients

ASSUME ScenariosAssumption ==
  \* the programs use one NPG, and every message they make is a new one
  /\ (\E n \in Npgs : Npgs = {n}) /\ ~Resend
  /\ \A s \in {Low, High, Flat, RTT, Brief} : s \in Seq(Messages) /\ IsInjective(s)
  \* two messages of Low for a slot of a flood
  /\ Len(Low) >= 2 * Len(High) /\ Len(Low) >= 2 * Len(Flat)
  /\ Free \union Mixed \subseteq Messages /\ IsFiniteSet(Mixed) /\ FreeNow \in Nat
  /\ \A m \in Range(Low) \union Range(Flat) \union Range(Brief) : ~Terminal(m) /\ Priority(m) = 1
  /\ \A m \in Range(High) : ~Terminal(m) /\ Priority(m) = 4
  /\ \A m \in Range(RTT) : Terminal(m)
  \* limits of an hour do not run out, short ones do
  /\ \A m \in Mixed \union Range(Low \o High \o Flat) : Staleness(m) > MaxNow
  /\ \A m \in Range(Brief) : Staleness(m) \in 1..(Len(High) - 1)

VARIABLES scenario, \* which program runs, or "free"
          at,       \* position of its next command
          turn,     \* dispatches so far
          slotOf,   \* enqueue_slot of each message
          order     \* sequence of the messages the dispatches returned

scriptVars   == <<scenario, at, turn, slotOf, order>>
scenarioVars == <<vars, scriptVars>>

Command(op, msgs) == [op |-> op, msgs |-> msgs]

Enqueues(ms)  == [i \in DOMAIN ms |-> Command("enqueue", {ms[i]})]
Dispatches(n) == [i \in 1..n |-> Command("dispatch", {})]

(* One slot of runFlood: J2.2 messages, perhaps a J13.3, one dispatch. *)
FloodSlot(i, j13) ==
  Enqueues(<<Low[2 * i - 1], Low[2 * i]>>) \o <<Command("maybe", {j13[i]})>> \o Dispatches(1)

(* One slot of scenario 4. *)
StaleSlot(i) == Enqueues(<<High[i]>>) \o Dispatches(1) \o <<Command("sleep", {})>>

Script ==
  [insertion  |-> Enqueues(Low) \o Enqueues(High) \o Dispatches(Len(Low) + Len(High)),
   flood_on   |-> FlattenSeq([i \in DOMAIN High |-> FloodSlot(i, High)]),
   flood_off  |-> FlattenSeq([i \in DOMAIN Flat |-> FloodSlot(i, Flat)]),
   preemption |-> Enqueues(Low) \o Enqueues(RTT) \o Dispatches(Len(Low) + Len(RTT)),
   staleness  |-> Enqueues(Brief) \o FlattenSeq([i \in DOMAIN High |-> StaleSlot(i)])
                    \o <<Command("purge", {})>>,
   parallel   |-> [i \in 1..Cardinality(Mixed) |-> Command("enqueue", Mixed)]
                    \o <<Command("drain", {})>>]

ScenarioInit == /\ Init
                /\ scenario \in {"free"} \union DOMAIN Script
                /\ at = 1
                /\ turn = 0
                /\ slotOf = [m \in Messages |-> 0]
                /\ order = <<>>
-----------------------------------------------------------------------------
(* The next command is one of ops, and the program is not inside a node. *)
Due(ops) == /\ scenario # "free"
            /\ at \in DOMAIN Script[scenario]
            /\ Script[scenario][at].op \in ops
            /\ \A w \in Workers : pc[w] = "idle"

EnqueueDue ==
  /\ Due({"enqueue", "maybe"})
  /\ \E m \in Script[scenario][at].msgs : Enqueue(m) /\ slotOf' = [slotOf EXCEPT ![m] = turn]
  /\ at' = at + 1
  /\ UNCHANGED <<scenario, turn, order>>

SkipMaybe ==
  /\ Due({"maybe"})
  /\ at' = at + 1
  /\ UNCHANGED <<vars, scenario, turn, slotOf, order>>

DispatchDue(w, n) ==
  /\ Due({"dispatch", "drain"})
  /\ StartDispatch(w, n)
  /\ UNCHANGED scriptVars

DispatchPurges(w) ==
  /\ scenario # "free"
  /\ PurgeFirst(w)
  /\ UNCHANGED scriptVars

(* The program goes on once dispatch_slot has returned; a drain ends when   *)
(* nothing was dispatched.                                                  *)
DispatchReturns(w) ==
  /\ scenario # "free"
  /\ Dequeue(w)
  /\ LET sent == {m \in Messages : status[m] # status'[m]}
     IN /\ order' = order \o SetToSeq(sent)
        /\ at' = IF Script[scenario][at].op = "drain" /\ sent # {} THEN at ELSE at + 1
  /\ turn' = turn + 1
  /\ UNCHANGED <<scenario, slotOf>>

(* The last purge of scenario 4. *)
PurgeDue(w, n) ==
  /\ Due({"purge"})
  /\ StartPurge(w, n)
  /\ UNCHANGED scriptVars

PurgeReturns(w) ==
  /\ scenario # "free"
  /\ PurgeOnly(w)
  /\ at' = at + 1
  /\ UNCHANGED <<scenario, turn, slotOf, order>>

Sleep == /\ Due({"sleep"})
         /\ Tick
         /\ at' = at + 1
         /\ UNCHANGED <<scenario, turn, slotOf, order>>

(* Time that passes elsewhere leaves the sleeps theirs, below the bound. *)
SleepsLeft == Cardinality({i \in DOMAIN Script[scenario] : i >= at /\ Script[scenario][i].op = "sleep"})

Pass == /\ scenario # "free"
        /\ at \in DOMAIN Script[scenario]
        /\ now + SleepsLeft < MaxNow
        /\ Tick
        /\ UNCHANGED scriptVars

Over == scenario # "free" /\ at \notin DOMAIN Script[scenario]
Ended == Over /\ UNCHANGED scenarioVars

FreeStep == /\ scenario = "free"
            /\ \/ now < FreeNow /\ Tick
               \/ \E m \in Free : Enqueue(m)
               \/ \E w \in Workers : Serve(w)
            /\ UNCHANGED scriptVars

ScenarioNext ==
  \/ EnqueueDue \/ SkipMaybe \/ Sleep \/ Pass \/ Ended \/ FreeStep
  \/ \E w \in Workers : \/ \E n \in Npgs : DispatchDue(w, n) \/ PurgeDue(w, n)
                        \/ DispatchPurges(w) \/ DispatchReturns(w) \/ PurgeReturns(w)

ScenarioSpec == ScenarioInit /\ [][ScenarioNext]_scenarioVars
-----------------------------------------------------------------------------
(***************************************************************************)
(* Properties.                                                             *)
(***************************************************************************)
(* What the program says it expects: no J2.2 before a J13.3 (main.go:153,   *)
(* first come first served among equals), terminal messages first           *)
(* (main.go:218), messages behind a steady stream of others purged          *)
(* (main.go:239, all of them here), and of the parallel producers'          *)
(* messages, every one dispatched, by priority (main.go:300-302).           *)
ScenariosAsExpected ==
  Over =>
    /\ scenario = "insertion"  => order = High \o Low
    /\ scenario = "preemption" => order = RTT \o Low
    /\ scenario = "staleness"  => /\ order = High
                                  /\ \A m \in Range(Brief) : status[m] = "purged"
    /\ scenario = "parallel"   =>
         /\ \A m \in Mixed : status[m] = "sent"
         /\ \A i, j \in DOMAIN order :
              i < j => Priority(order[i]) >= Priority(order[j])

(* With priority on, a flood of J2.2 never makes a J13.3 wait for another   *)
(* slot ("J13.x waits stay bounded", main.go:9-11); with priority off it    *)
(* waits for all that came before it: none is sent ahead of an older one.   *)
FloodProtection ==
  /\ scenario = "flood_on"  =>
       \A m \in Range(High) : status[m] = "queued" => slotOf[m] = turn
  /\ scenario = "flood_off" =>
       \A i, j \in DOMAIN order : i < j => order[j] \notin older[order[i]]
=============================================================================
