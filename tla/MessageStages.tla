---------------------------- MODULE MessageStages ----------------------------
(***************************************************************************)
(* The stages that prepare a message (T1), send it (T2) and repair it (T5):*)
(* the nodes of node/ppli_nodes.go, node/j32_nodes.go and                  *)
(* node/common_nodes.go that touch no database, and beside them the        *)
(* hand-inlined functions of monolithic/monolithic.go that do T1 and T5.   *)
(*                                                                         *)
(* One caller runs one stage after the other, a node a step.  The nodes    *)
(* share one message object through a pointer in the token's data:         *)
(* classify and clamp change it in place, the caller's object included.    *)
(* Units are those of J22Codec; a J3.2 heading is a course and a J3.2      *)
(* classification a platform.                                              *)
(***************************************************************************)
EXTENDS J22Codec, StageTables

CONSTANTS Reports,   \* what callers say of a track: id, lat, lon, alt, course, speed
          NoMessage, \* in place of a report or a message
          Clock      \* readings of the clock

ASSUME ReportsAssumption ==
  /\ NoMessage \notin Reports
  /\ \A r \in Reports : {r.lat, r.lon, r.alt, r.speed} \subseteq Int /\ r.course \in Courses

ASSUME ClockAssumption == Clock \subseteq Nat

VARIABLES kind,    \* "J2.2" or "J3.2": the workflow of the last run
          stage,   \* its stage, "none" at first
          step,    \* position of its next step, 0 when it is over
          message, \* the object the token's "message" points to
          original,\* history: that object before the nodes changed it
          data     \* the other fields of the token's data

vars == <<kind, stage, step, message, original, data>>

Kinds == {"J2.2", "J3.2"}
Steps == CASE stage = "prepare_send" -> IF kind = "J2.2" THEN PpliPrepare ELSE J32Prepare
           [] stage = "send" -> Send
           [] stage = "special_process" -> IF kind = "J2.2" THEN PpliSpecial ELSE J32Special

At(role) == step # 0 /\ Steps[step].node \in NodeNames(role)

Init == /\ kind = "J2.2"
        /\ stage = "none"
        /\ step = 0
        /\ message = NoMessage
        /\ original = NoMessage
        /\ data = <<>>

Start(k, s, m, fields) ==
  /\ step = 0
  /\ kind' = k
  /\ stage' = s
  /\ step' = 1
  /\ message' = m
  /\ original' = m
  /\ data' = fields

(* The token of T1 holds a report, or nothing that names a track. *)
StartPrepare(k, r) == Start(k, "prepare_send", NoMessage, [report |-> r])

StartSend(k, npg, deny) ==
  Start(k, "send", NoMessage, [npg_number |-> npg, force_deny |-> deny])

(* The token of T5 holds the caller's message and what it says is wrong. *)
StartSpecial(k, m, claim) ==
  Start(k, "special_process", m, [anomaly_type |-> claim])
-----------------------------------------------------------------------------
(* How a run goes on after a node (Run and mergeContext, engine.go:80-156).*)

(* Faulty variant: one step too many. *)
GotoPastEnd(i) == step' = IF i <= Len(Steps) + 1 THEN i ELSE 0

Goto(i) == step' = IF i <= Len(Steps) THEN i ELSE 0

Continue(output) ==
  LET next == Route(output, Steps[step])
  IN /\ data' = [f \in DOMAIN data \union DOMAIN output |->
                   IF f \in DOMAIN output THEN output[f] ELSE data[f]]
     /\ \/ next = "end" /\ step' = 0
        \/ next = "" /\ Goto(step + 1)
        \/ next \notin {"", "end"} /\ Goto(StepIndex(Steps, next))
     /\ UNCHANGED <<kind, stage>>

(* The one node that can fail, clamp_field, has no policy: it is skipped.   *)
Skip == Goto(step + 1) /\ UNCHANGED <<kind, stage, data>>
-----------------------------------------------------------------------------
MaxLat     == 8307692   \* 90 degrees, rounded down to half a step
MaxLon     == 16615384  \* 180 degrees, likewise
FullCircle == 720
FullSpeed  == 4092      \* the largest speed the extension word holds
MaxAlt(k)  == IF k = "J2.2" THEN 50000 ELSE 100000

OutOfRange(k, m, field) ==
  \/ field = "latitude"  /\ m.lat \notin -MaxLat..MaxLat
  \/ field = "longitude" /\ m.lon \notin -MaxLon..MaxLon
  \/ field = "altitude"  /\ m.alt \notin 0..MaxAlt(k)
  \/ field = "heading"   /\ k = "J3.2" /\ m.course \notin 0..(FullCircle - 1)

(* What validate_message finds wrong with a message, field by field. *)
Errors(k, m) ==
  LET Error(f) == IF OutOfRange(k, m, f) THEN <<f>> ELSE <<>>
  IN Error("latitude") \o Error("longitude") \o Error("altitude") \o Error("heading")

(* Without a report the nodes make up a message. *)
DefaultReport(k) ==
  [id |-> [head |-> IF k = "J2.2" THEN "TRK001" ELSE "ATK001", tail |-> ""],
   lat |-> 3293649, lon |-> 12901578, course |-> 180,
   alt |-> IF k = "J2.2" THEN 10000 ELSE 8000,
   speed |-> IF k = "J2.2" THEN 600 ELSE 840]

Message(r, platform, now) ==
  [id |-> r.id, lat |-> r.lat, lon |-> r.lon, alt |-> r.alt, course |-> r.course,
   speed |-> r.speed, platform |-> platform, time |-> now, valid |-> TRUE]

(* The messages there may be; an absent one is none of them. *)
MessageTypes ==
  [id : {r.id : r \in Reports} \union {DefaultReport(k).id : k \in Kinds},
   lat : Int, lon : Int, alt : Int, course : Courses, speed : Int, time : Clock,
   platform : {"", "air", "surface", "subsurface", "land"}, valid : {TRUE}]

ASSUME NoMessageAssumption == NoMessage \notin MessageTypes

InitData(now) ==
  /\ At("init")
  /\ message' = IF data.report = NoMessage
                THEN Message(DefaultReport(kind), "air", now)
                ELSE Message(data.report, IF kind = "J2.2" THEN "" ELSE "air", now)
  /\ original' = message'
  /\ Continue(<<>>)

(* Faulty variant: 5000 feet are flown, not sailed. *)
PlatformOfInclusive(k, alt) ==
  CASE k = "J2.2" /\ alt >= 5000 -> "air"
    [] k = "J2.2" /\ alt > 100 /\ alt < 5000 -> "surface"
    [] k = "J2.2" /\ alt <= 100 -> "land"
    [] k = "J3.2" /\ alt > 500 -> "air"
    [] k = "J3.2" /\ alt >= 0 /\ alt <= 500 -> "surface"
    [] k = "J3.2" /\ alt < 0 -> "subsurface"

PlatformOf(k, alt) ==
  CASE k = "J2.2" /\ alt > 5000 -> "air"
    [] k = "J2.2" /\ alt > 100 /\ alt <= 5000 -> "surface"
    [] k = "J2.2" /\ alt <= 100 -> "land"
    [] k = "J3.2" /\ alt > 500 -> "air"
    [] k = "J3.2" /\ alt >= 0 /\ alt <= 500 -> "surface"
    [] k = "J3.2" /\ alt < 0 -> "subsurface"

Classify ==
  /\ At("classify")
  /\ message' = [message EXCEPT !.platform = PlatformOf(kind, message.alt)]
  /\ Continue(<<>>)
  /\ UNCHANGED original

(* encode_j32_message only reports a length. *)
Encode ==
  /\ At("encode")
  /\ \/ kind = "J2.2" /\ Continue([j22 |-> EncodeJ22(message)])
     \/ kind = "J3.2" /\ Continue(<<>>)
  /\ UNCHANGED <<message, original>>

(* A message out of range is no failure: the node only says so. *)
ValidateMessage ==
  /\ At("validate")
  /\ Continue([errors |-> Errors(kind, message)])
  /\ UNCHANGED <<message, original>>
-----------------------------------------------------------------------------
CheckSendCondition ==
  /\ At("check_send")
  /\ Continue([can_send |-> Flag(~data.force_deny)])
  /\ UNCHANGED <<message, original>>

AssignNPGSlot ==
  /\ At("assign")
  /\ Continue([npg_number |-> 6, assigned |-> TRUE])
  /\ UNCHANGED <<message, original>>

Transmit ==
  /\ At("transmit")
  /\ Continue([transmitted |-> data.npg_number])
  /\ UNCHANGED <<message, original>>
-----------------------------------------------------------------------------
(* The first test of detect_anomaly compares ten characters of the track ID *)
(* with a text of nine: it never holds.                                     *)
Anomaly(k, m) ==
  CASE m = NoMessage -> ""
    [] m # NoMessage /\ OutOfRange(k, m, "heading") -> "heading_out_of_range"
    [] m # NoMessage /\ ~OutOfRange(k, m, "heading") /\ OutOfRange(k, m, "altitude")
         -> "field_out_of_range"
    [] OTHER -> ""

DetectAnomaly ==
  /\ At("detect")
  /\ Continue([anomaly_type |-> Anomaly(kind, message)])
  /\ UNCHANGED <<message, original>>

ResolveConflict ==
  /\ At("resolve")
  /\ Continue([conflict_type |-> data.anomaly_type])
  /\ UNCHANGED <<message, original>>

(* Faulty variant: a negative remainder is left negative. *)
WrapTruncated(c) == IF c = Hair THEN Hair
                    ELSE IF c >= 0 THEN c % FullCircle ELSE -((-c) % FullCircle)

(* math.Mod, and a turn added to a negative remainder, to the nearest       *)
(* float64: of a hair nothing is left.                                      *)
Wrap(c) == IF c = Hair THEN FullCircle ELSE c % FullCircle

Clamped(k, m) == [m EXCEPT !.lat = ClampInt64(@, -MaxLat, MaxLat),
                           !.lon = ClampInt64(@, -MaxLon, MaxLon),
                           !.alt = ClampInt64(@, 0, MaxAlt(k)),
                           !.course = Wrap(@)]

ClampField ==
  /\ At("clamp")
  /\ \/ message = NoMessage /\ Skip /\ UNCHANGED message
     \/ /\ message # NoMessage
        /\ message' = Clamped(kind, message)
        /\ Continue([clamped |-> TRUE])
  /\ UNCHANGED original

LogResult ==
  /\ At("log")
  /\ Continue([logged |-> TRUE])
  /\ UNCHANGED <<message, original>>

Node == \/ \E now \in Clock : InitData(now)
        \/ Classify \/ Encode \/ ValidateMessage
        \/ CheckSendCondition \/ AssignNPGSlot \/ Transmit
        \/ DetectAnomaly \/ ResolveConflict \/ ClampField \/ LogResult

Next == \/ \E k \in Kinds :
             \/ \E r \in Reports \union {NoMessage} : StartPrepare(k, r)
             \/ \E npg \in {0, 7}, deny \in BOOLEAN : StartSend(k, npg, deny)
             \/ \E claim \in {"", "track_id_conflict"} :
                  \/ StartSpecial(k, NoMessage, claim)
                  \/ \E r \in Reports, now \in Clock :
                       StartSpecial(k, Message(r, "air", now), claim)
        \/ Node

Spec == Init /\ [][Next]_vars
-----------------------------------------------------------------------------
(***************************************************************************)
(* The hand-inlined functions (monolithic.go).                             *)
(***************************************************************************)
T1SendPreparation(m) ==
  [message |-> [m EXCEPT !.platform = IF m.alt > 100 /\ m.alt > 5000 THEN "air"
                                      ELSE IF m.alt > 100 THEN "surface" ELSE "land"],
   error |-> IF m.lat < -MaxLat \/ m.lat > MaxLat THEN "latitude"
             ELSE IF m.lon < -MaxLon \/ m.lon > MaxLon THEN "longitude"
             ELSE IF m.alt < 0 \/ m.alt > 50000 THEN "altitude" ELSE "none"]

T5SpecialProcessing(m) ==
  [m EXCEPT !.lat = IF @ < -MaxLat THEN -MaxLat ELSE IF @ > MaxLat THEN MaxLat ELSE @,
            !.lon = IF @ < -MaxLon THEN -MaxLon ELSE IF @ > MaxLon THEN MaxLon ELSE @,
            !.alt = IF @ < 0 THEN 0 ELSE IF @ > 50000 THEN 50000 ELSE @,
            !.course = IF @ = Hair THEN FullCircle ELSE @ % FullCircle]
-----------------------------------------------------------------------------
(***************************************************************************)
(* Properties.                                                             *)
(***************************************************************************)
TypeOK ==
  /\ kind \in Kinds
  /\ stage \in {"none", "prepare_send", "send", "special_process"}
  /\ step = 0 \/ step \in DOMAIN Steps
  /\ \A m \in {message, original} \ {NoMessage} : m \in MessageTypes
  /\ message = NoMessage <=> original = NoMessage

Ended(s)      == stage = s /\ step = 0
Near(a, b, d) == a - b \in -d..d
Flip(w, b)    == IF b \in w THEN w \ {b} ELSE w \union {b}

(* The routed T1 does to a J2.2 message what T1SendPreparation does         *)
(* ("mirroring the engine's prepare_send stage", monolithic.go:15-16), and  *)
(* its first validation error is the error the function returns.            *)
PreparedAlike ==
  Ended("prepare_send") /\ kind = "J2.2" =>
    LET b == T1SendPreparation(original)
    IN /\ message = b.message
       /\ b.error = (IF data.errors = <<>> THEN "none" ELSE Head(data.errors))

(* The context block carries what has no field in the words. *)
ContextFaithful ==
  LET d == DecodeJ22(data.j22)
  IN /\ ~Rejects(data.j22)
     /\ d.platform = message.platform /\ d.valid = message.valid
     /\ d.id.head = message.id.head
     /\ d.time \in (message.time - TicksPerSecond + 1)..message.time

(* The words carry the rest. *)
WordsFaithful ==
  LET d == DecodeJ22(data.j22)
  IN /\ Errors("J2.2", d) = <<>>
     /\ Near(d.lat, message.lat, 1) /\ Near(d.lon, message.lon, 1)
     /\ Near(d.alt, message.alt, 12)
     /\ HalfDegrees(message.course) \in 0..(FullCircle - 2) =>
          Near(d.course, HalfDegrees(message.course), 1)
     /\ message.speed \in 0..FullSpeed => Near(d.speed, message.speed, 1)

(* The payload T1 leaves in the context decodes to the message T1 leaves    *)
(* there (j22_codec.go:43-48), within the resolution of the fields, once    *)
(* the message is valid: except that track IDs are cut to their field, that *)
(* courses and speeds, which are not validated, saturate, and that a time   *)
(* keeps its second only.  No rounding carries a field out of its range:    *)
(* decode_message (common_nodes.go:185-196) does not look at the position   *)
(* of a message it got as a payload.                                        *)
PayloadFaithful ==
  Ended("prepare_send") /\ kind = "J2.2" /\ data.errors = <<>> =>
    ContextFaithful /\ WordsFaithful

(* DecodeJ22 rejects a payload in which one bit of a word, data or parity,  *)
(* has changed (j22_codec.go:85-90), whatever the message.                *)
BitErrorsDetected ==
  Ended("prepare_send") /\ kind = "J2.2" =>
    \A b \in 0..74 : /\ Rejects([data.j22 EXCEPT !.iw = Flip(@, b)])
                     /\ Rejects([data.j22 EXCEPT !.e0 = Flip(@, b)])

(* T2 transmits unless it is denied, never on a slot it has not assigned,   *)
(* and always on the NPG it assigned, whatever NPG the caller named         *)
(* (edge_cases_test.go:200-219).                                            *)
TransmittedUnlessDenied ==
  Ended("send") =>
    /\ "transmitted" \in DOMAIN data <=> ~data.force_deny
    /\ "transmitted" \in DOMAIN data => /\ "assigned" \in DOMAIN data
                                        /\ data.transmitted = 6

(* The routed T5 does to a J2.2 message what T5SpecialProcessing does       *)
(* (monolithic.go:83-105).                                                  *)
ClampedAlike ==
  Ended("special_process") /\ kind = "J2.2" /\ message # NoMessage =>
    message = T5SpecialProcessing(original)

InRange(k, m) == Errors(k, m) = <<>> /\ m.course \in 0..(FullCircle - 1)

(* T5 ends with its log entry and a message every field of which is in      *)
(* range, unchanged if it was so before.  One exception: a course a hair    *)
(* below zero becomes 360 degrees, which j32_detect_anomaly itself calls    *)
(* out of range (j32_nodes.go:391); a second T5 repairs that.  An anomaly,  *)
(* and as much of a conflict, is reported if and only if the altitude or a  *)
(* J3.2 heading was out of range, whatever the caller claimed; a position   *)
(* or an ID never is (common_nodes.go:306-328, j32_nodes.go:383-396).       *)
SpecialRepairs ==
  Ended("special_process") =>
    /\ "logged" \in DOMAIN data
    /\ "clamped" \in DOMAIN data <=> message # NoMessage
    /\ data.conflict_type = data.anomaly_type
    /\ data.anomaly_type # "" <=>
         /\ original # NoMessage
         /\ OutOfRange(kind, original, "altitude") \/ OutOfRange(kind, original, "heading")
    /\ message # NoMessage =>
         /\ IF original.course = Hair
            THEN message.course = FullCircle /\ InRange(kind, [message EXCEPT !.course = 0])
            ELSE InRange(kind, message)
         /\ InRange(kind, original) => message = original
         /\ InRange(kind, Clamped(kind, message))
=============================================================================
