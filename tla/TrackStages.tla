---------------------------- MODULE TrackStages ----------------------------
(***************************************************************************)
(* Workers that run the receive (T3) and clear (T4) stages on one shared   *)
(* track database: model/track_db.go, the nodes of node/ppli_nodes.go,     *)
(* node/j32_nodes.go and node/common_nodes.go that use it, and the stages  *)
(* of StageTables, routed the way Engine's Run routes them.                *)
(*                                                                         *)
(* A run of the model is about one message type, J2.2 or J3.2: each has a   *)
(* database, nodes and stages of its own, which differ in names, in the    *)
(* stages' tables and in what a bulk clear returns.                        *)
(*                                                                         *)
(* Every call on the database holds its lock and is one step.  A node that *)
(* makes two calls, or reads an entry after the lock is released, takes    *)
(* two.  The database maps a track to a pointer: entries are the objects   *)
(* pointed to, and an entry deleted from the map can still be read through *)
(* a pointer that Get returned.                                            *)
(***************************************************************************)
EXTENDS StageTables, FiniteSets, Integers

CONSTANTS Workers,
          Ids,          \* track IDs
          AllTracks,    \* in place of an ID: a clear run without a track_id
          Messages,     \* [id, time, decodes, hint] a worker may receive
          Kinds,        \* message types, of "J2.2" and "J3.2"
          DefaultTTL,   \* TTL of a new entry
          TTLs,         \* values SetTTL is called with
          MaxReceives,  \* bound: receive runs started
          MaxNow        \* bound: the clock

ReceiveSteps(k) == IF k = "J2.2" THEN PpliReceive ELSE J32Receive
ClearSteps(k)   == IF k = "J2.2" THEN PpliClear ELSE J32Clear

(* What check_ttl returns after a bulk sweep. *)
BulkOutput(k) == IF k = "J2.2" THEN PpliBulk ELSE J32Bulk

ASSUME StagesAssumption ==
  /\ Kinds \subseteq {"J2.2", "J3.2"}
  /\ \A k \in Kinds : Validate(<<[id |-> "receive", steps |-> ReceiveSteps(k)],
                                [id |-> "clear", steps |-> ClearSteps(k)]>>)

ASSUME BoundsAssumption ==
  /\ AllTracks \notin Ids \union Nat
  /\ DefaultTTL \in Nat /\ TTLs \subseteq Nat
  /\ MaxReceives \in Nat /\ MaxNow \in Nat

ASSUME MessagesAssumption ==
  \A m \in Messages : /\ m.id \in Ids
                      /\ m.time \in Nat
                      /\ m.decodes \in BOOLEAN
                      /\ m.hint \in {"auto", "new", "update", "duplicate"}

VARIABLES kind,     \* the message type
          now,      \* the clock
          entries,  \* every TrackEntry ever created
          tracks,   \* the database: position in entries, 0 when absent
          stage,    \* stage each worker is running, or "idle"
          step,     \* position of its step
          job,      \* its token: the message received, or [id] for clear
          phase,    \* "call", or what is left of the node after its first call
          held,     \* entry position a Get returned, 0 for none
          outcome,  \* how the worker's last run ended
          receives, \* receive runs started
          overlapped, \* history: tracks two receive runs worked on at once
          disturbed,  \* history: tracks cleared while being received, or the reverse
          hinted      \* history: tracks received with a manual hint

dbVars   == <<now, entries, tracks>>
workVars == <<stage, step, job, phase, held, outcome>>
history  == <<receives, overlapped, disturbed, hinted>>
vars     == <<kind, dbVars, workVars, history>>

StepsOf(w)     == IF stage[w] = "receive" THEN ReceiveSteps(kind) ELSE ClearSteps(kind)
Current(w)     == StepsOf(w)[step[w]]
At(w, role, p) == /\ stage[w] # "idle"
                  /\ Current(w).node \in NodeNames(role)
                  /\ phase[w] = p
NoJob          == [id |-> AllTracks]

Init == /\ kind \in Kinds
        /\ now = 0
        /\ entries = <<>>
        /\ tracks = [id \in Ids |-> 0]
        /\ stage = [w \in Workers |-> "idle"]
        /\ step = [w \in Workers |-> 1]
        /\ job = [w \in Workers |-> NoJob]
        /\ phase = [w \in Workers |-> "call"]
        /\ held = [w \in Workers |-> 0]
        /\ outcome = [w \in Workers |-> "none"]
        /\ receives = 0
        /\ overlapped = {}
        /\ disturbed = {}
        /\ hinted = {}
-----------------------------------------------------------------------------
(* How a run goes on after a node (Run, engine.go:80-136). The stages are   *)
(* validated, so a target that is neither "" nor "end" is a later step.     *)
Return(w, result) ==
  /\ stage' = [stage EXCEPT ![w] = "idle"]
  /\ step' = [step EXCEPT ![w] = 1]
  /\ job' = [job EXCEPT ![w] = NoJob]
  /\ outcome' = [outcome EXCEPT ![w] = result]

(* Faulty variant: one step too many. *)
GotoPastEnd(w, i) ==
  \/ /\ i <= Len(StepsOf(w)) + 1
     /\ step' = [step EXCEPT ![w] = i]
     /\ UNCHANGED <<stage, job, outcome>>
  \/ i > Len(StepsOf(w)) + 1 /\ Return(w, "completed")

Goto(w, i) ==
  \/ /\ i <= Len(StepsOf(w))
     /\ step' = [step EXCEPT ![w] = i]
     /\ UNCHANGED <<stage, job, outcome>>
  \/ i > Len(StepsOf(w)) /\ Return(w, "completed")

Continue(w, output) ==
  LET next == Route(output, Current(w))
  IN /\ \/ next = "end" /\ Return(w, "completed")
        \/ next \notin {"", "end"} /\ Goto(w, StepIndex(StepsOf(w), next))
        \/ next = "" /\ Current(w).branches = <<>> /\ Goto(w, step[w] + 1)
        \/ next = "" /\ Current(w).branches # <<>> /\ Return(w, "undefined_routing")
     /\ phase' = [phase EXCEPT ![w] = "call"]
     /\ held' = [held EXCEPT ![w] = 0]

Fail(w) ==
  /\ \/ Current(w).onReject = "abort" /\ Return(w, "aborted")
     \/ Current(w).onReject # "abort" /\ Goto(w, step[w] + 1)
  /\ phase' = [phase EXCEPT ![w] = "call"]
  /\ held' = [held EXCEPT ![w] = 0]

(* The node goes on to its second part with entry e at hand. *)
Hold(w, p, e) == /\ phase' = [phase EXCEPT ![w] = p]
                 /\ held' = [held EXCEPT ![w] = e]
                 /\ UNCHANGED <<stage, step, job, outcome>>
-----------------------------------------------------------------------------
(* The track database. Two fields are history: written, the times of the    *)
(* messages the entry was created from or updated with, and seen, those and *)
(* the times of the messages found to duplicate it.                         *)
Entry(id) == entries[tracks[id]]

Create(m) ==
  /\ entries' = Append(entries, [id |-> m.id, time |-> m.time, ttl |-> DefaultTTL,
                                 version |-> 1, written |-> {m.time}, seen |-> {m.time}])
  /\ tracks' = [tracks EXCEPT ![m.id] = Len(entries) + 1]
  /\ UNCHANGED now

(* Faulty variant: the entry starts over with the default TTL. *)
UpdateResetsTTL(m) ==
  /\ entries' = [entries EXCEPT ![tracks[m.id]].time = m.time,
                                ![tracks[m.id]].ttl = DefaultTTL,
                                ![tracks[m.id]].version = @ + 1,
                                ![tracks[m.id]].written = @ \union {m.time},
                                ![tracks[m.id]].seen = @ \union {m.time}]
  /\ UNCHANGED <<tracks, now>>

(* Update overwrites whatever the entry holds. *)
Update(m) ==
  /\ entries' = [entries EXCEPT ![tracks[m.id]].time = m.time,
                                ![tracks[m.id]].version = @ + 1,
                                ![tracks[m.id]].written = @ \union {m.time},
                                ![tracks[m.id]].seen = @ \union {m.time}]
  /\ UNCHANGED <<tracks, now>>

(* CheckExpired: age of the message against the entry's TTL. *)
Expired(e) == now - e.time > e.ttl

(* Faulty variant: the sweep empties the database. *)
SweepEverything == [id \in Ids |-> 0]

CleanExpired == [id \in Ids |-> IF tracks[id] # 0 /\ Expired(Entry(id))
                                THEN 0 ELSE tracks[id]]

(* Programs set a TTL while they prepare the database, between runs. *)
SetTTL(id, ttl) ==
  /\ \A w \in Workers : stage[w] = "idle"
  /\ tracks[id] # 0
  /\ Entry(id).ttl # ttl
  /\ entries' = [entries EXCEPT ![tracks[id]].ttl = ttl]
  /\ UNCHANGED <<now, tracks, workVars, history>>

Tick == /\ now < MaxNow
        /\ now' = now + 1
        /\ UNCHANGED <<entries, tracks, workVars, history>>
-----------------------------------------------------------------------------
Running(id, s) == {w \in Workers : stage[w] = s /\ job[w].id = id}

Start(w, s, token) ==
  /\ stage[w] = "idle"
  /\ stage' = [stage EXCEPT ![w] = s]
  /\ step' = [step EXCEPT ![w] = 1]
  /\ job' = [job EXCEPT ![w] = token]
  /\ outcome' = [outcome EXCEPT ![w] = "none"]
  /\ UNCHANGED <<dbVars, phase, held>>

StartReceive(w, m) ==
  /\ receives < MaxReceives
  /\ m.time <= now
  /\ Start(w, "receive", m)
  /\ receives' = receives + 1
  /\ overlapped' = IF Running(m.id, "receive") = {} THEN overlapped
                   ELSE overlapped \union {m.id}
  /\ disturbed' = IF Running(m.id, "clear") = {} THEN disturbed
                  ELSE disturbed \union {m.id}
  /\ hinted' = IF m.hint = "auto" THEN hinted ELSE hinted \union {m.id}

(* A clear run names a track, or none to sweep them all. *)
StartClear(w, id) ==
  /\ Start(w, "clear", [id |-> id])
  /\ disturbed' = IF Running(id, "receive") = {} THEN disturbed
                  ELSE disturbed \union {id}
  /\ UNCHANGED <<receives, overlapped, hinted>>

(* Nodes that leave the database alone. *)
Passive(w) ==
  /\ At(w, "passive", "call")
  /\ Continue(w, <<>>)
  /\ UNCHANGED <<dbVars, history>>

Decode(w) ==
  /\ At(w, "decode", "call")
  /\ \/ job[w].decodes /\ Continue(w, <<>>)
     \/ ~job[w].decodes /\ Fail(w)
  /\ UNCHANGED <<dbVars, history>>

Correlation(w, result) == Continue(w, [correlation |-> Text(result)])

CorrelateManual(w) ==
  /\ At(w, "correlate", "call")
  /\ job[w].hint # "auto"
  /\ Correlation(w, job[w].hint)
  /\ UNCHANGED <<dbVars, history>>

CorrelateGet(w) ==
  /\ At(w, "correlate", "call")
  /\ job[w].hint = "auto"
  /\ \/ tracks[job[w].id] = 0 /\ Correlation(w, "new")
     \/ tracks[job[w].id] # 0 /\ Hold(w, "compare", tracks[job[w].id])
  /\ UNCHANGED <<dbVars, history>>

(* Faulty variant: the two times are swapped. *)
NewerSwapped(time, stored) == stored > time

Newer(time, stored) == time > stored

(* Another worker is about to overwrite the message of the entry that w     *)
(* compares with: w reads the time while it is being written.               *)
TornRead(w) ==
  \E v \in Workers \ {w} : /\ At(v, "update", "call")
                           /\ tracks[job[v].id] = held[w]

(* The comparison, on the entry the pointer leads to, without the lock. A   *)
(* time that is read while it is being written may come out as anything.    *)
CorrelateCompare(w) ==
  /\ At(w, "correlate", "compare")
  /\ \/ /\ Newer(job[w].time, entries[held[w]].time) \/ TornRead(w)
        /\ Correlation(w, "update")
        /\ UNCHANGED entries
     \/ /\ ~Newer(job[w].time, entries[held[w]].time) \/ TornRead(w)
        /\ Correlation(w, "duplicate")
        /\ entries' = [entries EXCEPT ![held[w]].seen = @ \union {job[w].time}]
  /\ UNCHANGED <<now, tracks, history>>

CreateEntry(w) ==
  /\ At(w, "create", "call")
  /\ \/ tracks[job[w].id] = 0 /\ Create(job[w]) /\ Continue(w, <<>>)
     \/ tracks[job[w].id] # 0 /\ Fail(w) /\ UNCHANGED dbVars
  /\ UNCHANGED history

UpdateEntry(w) ==
  /\ At(w, "update", "call")
  /\ \/ tracks[job[w].id] # 0 /\ Update(job[w]) /\ Continue(w, <<>>)
     \/ tracks[job[w].id] = 0 /\ Fail(w) /\ UNCHANGED dbVars
  /\ UNCHANGED history

StoreGet(w) ==
  /\ At(w, "store", "call")
  /\ \/ tracks[job[w].id] # 0 /\ Continue(w, <<>>)
     \/ tracks[job[w].id] = 0 /\ Hold(w, "create", 0)
  /\ UNCHANGED <<dbVars, history>>

StoreCreate(w) ==
  /\ At(w, "store", "create")
  /\ \/ tracks[job[w].id] = 0 /\ Create(job[w]) /\ Continue(w, <<>>)
     \/ tracks[job[w].id] # 0 /\ Fail(w) /\ UNCHANGED dbVars
  /\ UNCHANGED history

(* A track that is not there counts as not expired. *)
CheckTTL(w) ==
  /\ At(w, "check_ttl", "call")
  /\ job[w].id # AllTracks
  /\ Continue(w, [expired |-> Flag(tracks[job[w].id] # 0 /\ Expired(Entry(job[w].id)))])
  /\ UNCHANGED <<dbVars, history>>

Sweep(w) ==
  /\ At(w, "check_ttl", "call")
  /\ job[w].id = AllTracks
  /\ tracks' = CleanExpired
  /\ disturbed' = disturbed \union
       {id \in Ids : tracks'[id] # tracks[id] /\ Running(id, "receive") # {}}
  /\ Continue(w, BulkOutput(kind))
  /\ UNCHANGED <<now, entries, receives, overlapped, hinted>>

DeleteEntry(w) ==
  /\ At(w, "delete", "call")
  /\ tracks' = [tracks EXCEPT ![job[w].id] = 0]
  /\ Continue(w, <<>>)
  /\ UNCHANGED <<now, entries, history>>

Node(w) == \/ Passive(w) \/ Decode(w)
           \/ CorrelateManual(w) \/ CorrelateGet(w) \/ CorrelateCompare(w)
           \/ CreateEntry(w) \/ UpdateEntry(w) \/ StoreGet(w) \/ StoreCreate(w)
           \/ CheckTTL(w) \/ Sweep(w) \/ DeleteEntry(w)

Work == \/ Tick
        \/ \E id \in Ids, ttl \in TTLs : SetTTL(id, ttl)
        \/ \E w \in Workers :
              \/ \E m \in Messages : StartReceive(w, m)
              \/ \E id \in Ids \union {AllTracks} : StartClear(w, id)
              \/ Node(w)

Next == Work /\ UNCHANGED kind

Spec == Init /\ [][Next]_vars
-----------------------------------------------------------------------------
(***************************************************************************)
(* Properties.                                                             *)
(***************************************************************************)
EntryTypes == [id : Ids, time : Nat, ttl : Nat, version : Nat \ {0},
               written : SUBSET Nat, seen : SUBSET Nat]

TypeOK ==
  /\ kind \in Kinds
  /\ now \in Nat
  /\ entries \in Seq(EntryTypes)
  /\ tracks \in [Ids -> 0..Len(entries)]
  /\ \A id \in Ids : tracks[id] # 0 => Entry(id).id = id
  /\ stage \in [Workers -> {"idle", "receive", "clear"}]
  /\ step \in [Workers -> Nat]
  /\ job \in [Workers -> Messages \union [id : Ids \union {AllTracks}]]
  /\ \A w \in Workers :
       /\ stage[w] = "idle" => job[w] = NoJob
       /\ stage[w] = "receive" => job[w] \in Messages
       /\ stage[w] = "clear" => job[w] \in [id : Ids \union {AllTracks}]
       /\ step[w] \in DOMAIN StepsOf(w)
       /\ held[w] # 0 => entries[held[w]].id = job[w].id
  /\ phase \in [Workers -> {"call", "compare", "create"}]
  /\ held \in [Workers -> 0..Len(entries)]
  /\ outcome \in [Workers -> {"none", "completed", "aborted", "undefined_routing"}]
  /\ receives \in 0..MaxReceives
  /\ overlapped \subseteq Ids /\ disturbed \subseteq Ids /\ hinted \subseteq Ids

(* Keep-latest (ppli_nodes.go:157-160): an entry holds the newest message   *)
(* it was compared or written with, as long as no two receive runs worked   *)
(* on its track at once and no manual hint overrode the comparison.  Clear  *)
(* runs may interfere at any point.                                         *)
KeepLatest ==
  \A id \in Ids \ (overlapped \union hinted) :
     tracks[id] # 0 => Entry(id).time = Max(Entry(id).seen)

(* An older message does not overwrite a newer one, with receive runs on    *)
(* one track in parallel either: what ppli_nodes.go:198-200 and the         *)
(* out-of-order test (edge_cases_test.go:60-61) say.                        *)
NewerPreserved ==
  [][\A id \in Ids \ hinted :
       tracks[id] # 0 /\ tracks'[id] = tracks[id] => Entry(id).time <= Entry(id)'.time]_vars

(* A message is written at most once and each write raises the version: a   *)
(* message of equal time is a duplicate and leaves the version alone        *)
(* (edge_cases_test.go:174-198), also when the stage continues after it.    *)
VersionCountsWrites ==
  \A id \in Ids \ (overlapped \union hinted) :
     tracks[id] # 0 => Entry(id).version = Cardinality(Entry(id).written)

(* create_entry fails only when another receive run got in between, and     *)
(* update_entry only when a clear run did (ppli_nodes.go:220, 243): on its  *)
(* own, a receive run whose message decodes is never aborted.               *)
AbortsNeedInterference ==
  [][\A w \in Workers :
       outcome[w] = "none" /\ outcome'[w] = "aborted" =>
         \/ At(w, "decode", "call") /\ ~job[w].decodes
         \/ At(w, "create", "call") /\ job[w].id \in overlapped \union hinted
         \/ At(w, "update", "call") /\ job[w].id \in disturbed \union hinted]_vars

(* The create in store_ppli (ppli_nodes.go:189-192) is a safety net: it is  *)
(* reached only if the track was cleared while it was being received.       *)
SafetyNetUnused ==
  \A w \in Workers :
     phase[w] = "create" => job[w].id \in disturbed \union hinted

(* A track is taken out of the database only when it has expired, unless it *)
(* was received while a clear run on it was under way.                      *)
OnlyExpiredRemoved ==
  [][\A id \in Ids \ disturbed :
       tracks[id] # 0 /\ tracks'[id] = 0 => now > Entry(id).time + Entry(id).ttl]_vars

(* The same without the exception: "removes only expired tracks"            *)
(* (edge_cases_test.go:151).                                                *)
OnlyExpiredRemovedAlways ==
  [][\A id \in Ids :
       tracks[id] # 0 /\ tracks'[id] = 0 => now > Entry(id).time + Entry(id).ttl]_vars

(* Whatever a node returns, a branch of its step covers it (engine.go:112), *)
(* with one exception: check_ttl_j32 does not say whether anything expired  *)
(* in a clear run without a track_id (j32_nodes.go:337). Such a run ends in *)
(* an undefined routing, and only after it has swept the database.          *)
UndefinedOnlyAfterSweep ==
  [][\A w \in Workers :
       outcome[w] # "undefined_routing" /\ outcome'[w] = "undefined_routing" =>
         /\ kind = "J3.2" /\ job[w].id = AllTracks
         /\ \A id \in Ids : tracks'[id] # 0 => now <= Entry(id).time + Entry(id).ttl]_vars

(* With one worker, the table of entries behaves like the abstract one: a   *)
(* track appears, moves to a strictly newer message, or expires.            *)
Table == INSTANCE LatestTable WITH
  None <- AllTracks,
  DefaultLimit <- DefaultTTL,
  clock <- now,
  latest <- [id \in Ids |-> IF tracks[id] = 0 THEN AllTracks ELSE Entry(id).time],
  limit <- [id \in Ids |-> IF tracks[id] = 0 THEN DefaultTTL ELSE Entry(id).ttl]
TableSpec == Table!Spec
=============================================================================
