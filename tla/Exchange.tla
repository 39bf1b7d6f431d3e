------------------------------ MODULE Exchange ------------------------------
(***************************************************************************)
(* From report to track: a caller prepares J2.2 messages (stage T1 of      *)
(* MessageStages), hands the payloads to the receive stage (T3) and clears *)
(* the database (T4, both of TrackStages).  The baselines of               *)
(* monolithic/monolithic.go and monolithic/statemachine.go receive the     *)
(* same messages into databases of their own.                              *)
(*                                                                         *)
(* One caller runs one stage after the other.  What becomes of a payload   *)
(* between T1 and T3 is open: it may arrive late, after later ones, more   *)
(* than once or never, and with a bit of a word flipped.                   *)
(***************************************************************************)
EXTENDS FiniteSets, Integers, Sequences

CONSTANTS Fields, Values, Literals, ScannedNumber, \* of Router
          Reports, NoMessage, TicksPerSecond, Hair, \* of MessageStages
          AllTracks, DefaultTTL, TTLs, MaxReceives, MaxNow, \* of TrackStages
          Receiver,  \* the one worker
          StaleAge,  \* age from which the baselines refuse a message
          Damage,    \* bits of a word that may flip on the way
          MaxSends   \* bound: payloads prepared

ASSUME ExchangeAssumption ==
  /\ StaleAge \in Nat /\ MaxSends \in Nat
  /\ Damage \subseteq 0..74

Heads == {r.id.head : r \in Reports}

(* What T3 can be handed: the receive stage decides by ID and time, and a   *)
(* payload either decodes or not.                                           *)
Heard == [id : Heads, time : {TicksPerSecond * s : s \in 0..(MaxNow \div TicksPerSecond)},
          decodes : BOOLEAN, hint : {"auto"}]

VARIABLES txKind, txStage, txStep, txMessage, txOriginal, txData, \* of MessageStages
          kind, now, entries, tracks, stage, step, job, phase, held, outcome,
          receives, overlapped, disturbed, hinted,                \* of TrackStages
          wire,    \* [payload, sent]: every payload T1 has left, and its message
          current, \* history: the one being received, and whether it is intact
          origin,  \* history: per track, the one its entry was written from
          offered, \* history: per track, when the messages received were sent
          twins,   \* the database of each baseline
          parted   \* history: tracks of messages the baselines refused

txVars  == <<txKind, txStage, txStep, txMessage, txOriginal, txData>>
rxVars  == <<kind, now, entries, tracks, stage, step, job, phase, held, outcome,
             receives, overlapped, disturbed, hinted>>
ghosts  == <<current, origin, offered, parted>>
vars    == <<txVars, rxVars, ghosts, wire, twins>>

Tx == INSTANCE MessageStages WITH
  kind <- txKind, stage <- txStage, step <- txStep, message <- txMessage,
  original <- txOriginal, data <- txData, Clock <- 0..MaxNow

Rx == INSTANCE TrackStages WITH
  Workers <- {Receiver}, Ids <- Heads, Messages <- Heard, Kinds <- {"J2.2"}

(* What the two parts assume of their constants. *)
ASSUME PartsAssumption ==
  /\ DOMAIN ScannedNumber \subseteq Literals
  /\ NoMessage \notin Reports \union Tx!MessageTypes
  /\ Hair \notin Int
  /\ \A r \in Reports : {r.lat, r.lon, r.alt, r.speed} \subseteq Int /\ r.course \in Tx!Courses
  /\ TicksPerSecond \in Nat \ {0}
  /\ AllTracks \notin Heads \union Nat
  /\ DefaultTTL \in Nat /\ TTLs \subseteq Nat
  /\ MaxReceives \in Nat /\ MaxNow \in Nat
  /\ Rx!Validate(<<[id |-> "receive", steps |-> Rx!ReceiveSteps("J2.2")],
                   [id |-> "clear", steps |-> Rx!ClearSteps("J2.2")]>>)

Idle == txStep = 0 /\ stage[Receiver] = "idle"
-----------------------------------------------------------------------------
(* The baselines. A database maps a track to [time, ttl, version].          *)
Baselines == {"T3Receive", "T3StateMachineReceive"}
NoEntry   == [version |-> 0]

Created(db, m) == [db EXCEPT ![m.id.head] = [time |-> m.time, ttl |-> DefaultTTL, version |-> 1]]
Updated(db, m) == [db EXCEPT ![m.id.head].time = m.time, ![m.id.head].version = @ + 1]

Refused(m) == \/ now - m.time > StaleAge
              \/ Tx!OutOfRange("J2.2", m, "latitude")
              \/ Tx!OutOfRange("J2.2", m, "longitude")

T3Receive(m, db) ==
  CASE Refused(m) -> db
    [] ~Refused(m) /\ db[m.id.head] = NoEntry -> Created(db, m)
    [] ~Refused(m) /\ db[m.id.head] # NoEntry ->
         IF m.time > db[m.id.head].time THEN Updated(db, m) ELSE db

(* Faulty variant: what is not newer is updated all the same. *)
TransitionAlwaysUpdates(c, m) ==
  CASE c.state = "decode"    -> [c EXCEPT !.state = "filter"]
    [] c.state = "filter"    -> [c EXCEPT !.state = IF Refused(m) THEN "done" ELSE "correlate"]
    [] c.state = "correlate" -> [c EXCEPT !.state = IF c.db[m.id.head] = NoEntry THEN "create"
                                                    ELSE "update"]
    [] c.state = "create"    -> [state |-> "store", db |-> Created(c.db, m)]
    [] c.state = "update"    -> [state |-> "store", db |-> Updated(c.db, m)]
    [] OTHER                 -> [c EXCEPT !.state = "done"]

(* One iteration of the loop over the state. *)
Transition(c, m) ==
  CASE c.state = "decode"    -> [c EXCEPT !.state = "filter"]
    [] c.state = "filter"    -> [c EXCEPT !.state = IF Refused(m) THEN "done" ELSE "correlate"]
    [] c.state = "correlate" -> [c EXCEPT !.state =
                                   IF c.db[m.id.head] = NoEntry THEN "create"
                                   ELSE IF m.time > c.db[m.id.head].time THEN "update"
                                   ELSE "dup_resolve"]
    [] c.state = "create"    -> [state |-> "store", db |-> Created(c.db, m)]
    [] c.state = "update"    -> [state |-> "store", db |-> Updated(c.db, m)]
    [] c.state = "dup_resolve" -> [c EXCEPT !.state = "store"]
    [] c.state \in {"store", "done"} -> [c EXCEPT !.state = "done"]

(* Five iterations lead from "decode" to "done". *)
T3StateMachineReceive(m, db) ==
  LET loop[n \in 0..5] == IF n = 0 THEN [state |-> "decode", db |-> db]
                          ELSE Transition(loop[n - 1], m)
  IN loop[5].db

(* Faulty variant: a track may be as old as its TTL. *)
T4ClearEarly(db) == [id \in Heads |-> IF db[id] # NoEntry /\ now - db[id].time >= db[id].ttl
                                      THEN NoEntry ELSE db[id]]

T4Clear(db) == [id \in Heads |-> IF db[id] # NoEntry /\ now - db[id].time > db[id].ttl
                                 THEN NoEntry ELSE db[id]]
-----------------------------------------------------------------------------
Nobody == [sent |-> NoMessage, intact |-> TRUE]

Init == /\ Tx!Init /\ Rx!Init
        /\ wire = {}
        /\ current = Nobody
        /\ origin = [id \in Heads |-> Nobody]
        /\ offered = [id \in Heads |-> {}]
        /\ twins = [b \in Baselines |-> [id \in Heads |-> NoEntry]]
        /\ parted = {}

(* T1, node by node; the caller takes the payload out of the token. *)
StartPrepare ==
  /\ Idle
  /\ Cardinality(wire) < MaxSends
  /\ \E r \in Reports : Tx!StartPrepare("J2.2", r)
  /\ UNCHANGED <<rxVars, ghosts, wire, twins>>

PrepareNode ==
  /\ Tx!InitData(now) \/ Tx!Classify \/ Tx!Encode
  /\ UNCHANGED <<rxVars, ghosts, wire, twins>>

PrepareLast ==
  /\ Tx!ValidateMessage
  /\ wire' = wire \union {[payload |-> txData.j22, sent |-> txMessage]}
  /\ UNCHANGED <<rxVars, ghosts, twins>>

(* A payload as it may arrive. *)
Copies(p) == {p} \union {[p EXCEPT !.iw = Tx!Flip(@, b)] : b \in Damage}
                 \union {[p EXCEPT !.e0 = Tx!Flip(@, b)] : b \in Damage}

(* Faulty variant: the second is taken for the time. *)
ReceiptInSeconds(p) == [id |-> p.ctx.id.head, time |-> p.ctx.time,
                        decodes |-> ~Tx!Rejects(p), hint |-> "auto"]

Receipt(p) == [id |-> p.ctx.id.head, time |-> Tx!DecodeJ22(p).time,
               decodes |-> ~Tx!Rejects(p), hint |-> "auto"]

(* A payload reaches T3, and the message in it, if there is one, the        *)
(* baselines.                                                               *)
Deliver ==
  /\ Idle
  /\ \E item \in wire : \E p \in Copies(item.payload) :
       LET m == Tx!DecodeJ22(p)
       IN /\ Rx!StartReceive(Receiver, Receipt(p))
          /\ current' = [sent |-> item.sent, intact |-> p = item.payload]
          /\ \/ /\ Tx!Rejects(p)
                /\ UNCHANGED <<twins, parted>>
             \/ /\ ~Tx!Rejects(p)
                /\ twins' = [T3Receive |-> T3Receive(m, twins["T3Receive"]),
                             T3StateMachineReceive |->
                               T3StateMachineReceive(m, twins["T3StateMachineReceive"])]
                /\ parted' = IF Refused(m) THEN parted \union {m.id.head} ELSE parted
  /\ UNCHANGED <<txVars, kind, wire, origin, offered>>

(* What the history notes of a step of T3 or T4. *)
Written(id) == \/ tracks[id] = 0
               \/ entries'[tracks'[id]].version # entries[tracks[id]].version

Note ==
  /\ origin' = [id \in Heads |-> IF tracks'[id] = 0 THEN Nobody
                                 ELSE IF Written(id) THEN current ELSE origin[id]]
  /\ offered' = [id \in Heads |->
       IF tracks'[id] = 0 THEN {}
       ELSE IF job[Receiver].id = id /\ outcome'[Receiver] = "completed"
            THEN offered[id] \union {current.sent.time}
            ELSE offered[id]]

ReceiveNode ==
  /\ stage[Receiver] = "receive"
  /\ Rx!Node(Receiver)
  /\ Note
  /\ current' = IF stage'[Receiver] = "idle" THEN Nobody ELSE current
  /\ UNCHANGED <<txVars, kind, wire, twins, parted>>

(* T4 without a track_id, and T4Clear at the same moment. *)
StartClear ==
  /\ Idle
  /\ Rx!StartClear(Receiver, AllTracks)
  /\ UNCHANGED <<txVars, kind, wire, ghosts, twins>>

Sweeping == Rx!At(Receiver, "check_ttl", "call")

ClearNode ==
  /\ stage[Receiver] = "clear"
  /\ Rx!Node(Receiver)
  /\ Note
  /\ twins' = IF Sweeping THEN [b \in Baselines |-> T4Clear(twins[b])] ELSE twins
  /\ UNCHANGED <<txVars, kind, wire, current, parted>>

SetTTL(id, ttl) ==
  /\ Idle
  /\ Rx!SetTTL(id, ttl)
  /\ twins' = [b \in Baselines |-> IF twins[b][id] = NoEntry THEN twins[b]
                                   ELSE [twins[b] EXCEPT ![id].ttl = ttl]]
  /\ UNCHANGED <<txVars, kind, wire, ghosts>>

Tick == Rx!Tick /\ UNCHANGED <<txVars, kind, wire, ghosts, twins>>

Next == \/ StartPrepare \/ PrepareNode \/ PrepareLast
        \/ Deliver \/ ReceiveNode
        \/ StartClear \/ ClearNode
        \/ \E id \in Heads, ttl \in TTLs : SetTTL(id, ttl)
        \/ Tick

Spec == Init /\ [][Next]_vars
-----------------------------------------------------------------------------
(***************************************************************************)
(* Properties.                                                             *)
(***************************************************************************)
Databases == [Heads -> [time : Nat, ttl : Nat, version : Nat \ {0}] \union {NoEntry}]

TypeOK ==
  /\ Tx!TypeOK /\ Rx!TypeOK
  /\ \A item \in wire : item.sent \in Tx!MessageTypes
  /\ \A n \in {current} \union {origin[id] : id \in Heads} :
       n.intact \in BOOLEAN /\ (n.sent = NoMessage \/ n.sent \in Tx!MessageTypes)
  /\ offered \in [Heads -> SUBSET Nat]
  /\ \A b \in Baselines : twins[b] \in Databases
  /\ parted \subseteq Heads

(* The database as one caller sees it: per track the newest message, to the *)
(* second, gone once too old.                                               *)
TableSpec == Rx!TableSpec

(* However late, often or reordered payloads arrive, a track holds a        *)
(* message less than a second older than the newest it was received with:   *)
(* what keep-latest (ppli_nodes.go:157-160) is worth once the codec has cut *)
(* the times to seconds (j22_codec.go:65).                                  *)
NearlyLatest ==
  \A id \in Heads : \A t \in offered[id] : origin[id].sent.time > t - TicksPerSecond

(* By the sender's clock, too, a sweep takes a track less than a second     *)
(* before its message is older than the TTL, and leaves none that is.       *)
Age(id) == now - origin[id].sent.time

ExpiredWithinSecond ==
  [][\A id \in Heads : tracks[id] # 0 =>
       /\ tracks'[id] = 0 => Age(id) > Rx!Entry(id).ttl - TicksPerSecond
       /\ Sweeping /\ Age(id) > Rx!Entry(id).ttl /\ stage[Receiver] = "clear"
            /\ step' # step => tracks'[id] = 0]_vars

(* No payload with a flipped bit leaves a trace in the database             *)
(* (j22_codec.go:85-90, common_nodes.go:186-189): every entry was written   *)
(* from an intact one, of the track its ID names.                           *)
Intact ==
  \A id \in Heads : tracks[id] # 0 =>
     /\ origin[id].intact
     /\ origin[id].sent.id.head = id
     /\ Rx!Entry(id).time = TicksPerSecond * Tx!Unix(origin[id].sent.time)

(* The two baselines of T3 do the same, and but for the messages they       *)
(* refuse, what the routed stages do; T4Clear clears like the routed T4.    *)
Routed(id) == IF tracks[id] = 0 THEN NoEntry
              ELSE [time |-> Rx!Entry(id).time, ttl |-> Rx!Entry(id).ttl,
                    version |-> Rx!Entry(id).version]

BaselinesAgree ==
  /\ twins["T3Receive"] = twins["T3StateMachineReceive"]
  /\ Idle => \A id \in Heads \ parted : twins["T3Receive"][id] = Routed(id)

(* "the same node-level work as the engine's routed T3 stage"               *)
(* (statemachine.go:26-27), with no exception.                              *)
SameWorkAlways ==
  Idle => \A id \in Heads : twins["T3StateMachineReceive"][id] = Routed(id)
=============================================================================
