--------------------------- MODULE ExchangeProofs ---------------------------
(***************************************************************************)
(* What a caller who prepares, delivers and clears may rely on, for any    *)
(* reports, TTLs, clock and damage: the properties of Exchange, from one   *)
(* inductive invariant over sender, wire, receiver and baselines.          *)
(*                                                                         *)
(* The invariants of the parts are those of MessageStagesProofs and of     *)
(* TrackStagesProofs, instantiated here; the lemmas that open this module  *)
(* say that both instances of a part mean the same by its definitions.     *)
(***************************************************************************)
EXTENDS Exchange, SequenceTheorems, TLAPS

(* The sender, with what is proved of it.                                   *)
TxP == INSTANCE MessageStagesProofs WITH
  kind <- txKind, stage <- txStage, step <- txStep, message <- txMessage,
  original <- txOriginal, data <- txData, Clock <- 0..MaxNow

(* The receiver, with what is proved of it.                                 *)
RxP == INSTANCE TrackStagesProofs WITH
  Workers <- {Receiver}, Ids <- Heads, Messages <- Heard, Kinds <- {"J2.2"}

(* Routing and validation. *)
LEMMA RxRouting ==
  /\ \A o, s : Rx!Route(o, s) = RxP!Route(o, s)
  /\ \A s, i : Rx!StepIndex(s, i) = RxP!StepIndex(s, i)
  /\ \A d : Rx!Validate(d) = RxP!Validate(d)
<1>1. \A s : Rx!Min(s) = RxP!Min(s)
  BY DEF Rx!Min, RxP!Min
<1>2. \A v, l : Rx!BoolEquals(v, l) = RxP!BoolEquals(v, l)
  BY DEF Rx!BoolEquals, RxP!BoolEquals
<1>3. \A c, o : Rx!Holds(c, o) = RxP!Holds(c, o)
  BY <1>2 DEF Rx!Holds, RxP!Holds
<1>4. \A o, s : Rx!Matching(o, s) = RxP!Matching(o, s)
  BY <1>3 DEF Rx!Matching, RxP!Matching
<1>5. \A o, s : Rx!Route(o, s) = RxP!Route(o, s)
  BY <1>1, <1>4 DEF Rx!Route, RxP!Route
<1>6. \A s, i : Rx!StepIndex(s, i) = RxP!StepIndex(s, i)
  BY <1>1 DEF Rx!StepIndex, RxP!StepIndex
<1>7. \A s, i, t : Rx!ForwardTarget(s, i, t) = RxP!ForwardTarget(s, i, t)
  BY <1>6 DEF Rx!ForwardTarget, RxP!ForwardTarget
<1>8. \A s, i : Rx!ValidStep(s, i) = RxP!ValidStep(s, i)
  BY <1>7 DEF Rx!ValidStep, RxP!ValidStep
<1>9. \A d : Rx!Validate(d) = RxP!Validate(d)
  BY <1>8 DEF Rx!Validate, RxP!Validate, Rx!UniqueStepIds, RxP!UniqueStepIds
<1> QED
  BY <1>5, <1>6, <1>9

(* The stages. *)
LEMMA RxTables ==
  /\ \A k : Rx!ReceiveSteps(k) = RxP!ReceiveSteps(k)
  /\ \A k : Rx!ClearSteps(k) = RxP!ClearSteps(k)
  /\ \A k : Rx!BulkOutput(k) = RxP!BulkOutput(k)
  /\ \A r : Rx!NodeNames(r) = RxP!NodeNames(r)
  /\ \A s : Rx!Text(s) = RxP!Text(s)
  /\ \A b : Rx!Flag(b) = RxP!Flag(b)
<1>1. \A f, l, g : Rx!Branch(f, l, g) = RxP!Branch(f, l, g)
  BY DEF Rx!Branch, RxP!Branch
<1>2. \A i, n, r, b, d : Rx!StepOf(i, n, r, b, d) = RxP!StepOf(i, n, r, b, d)
  BY DEF Rx!StepOf, RxP!StepOf
<1>3. Rx!OnCorrelation = RxP!OnCorrelation
  BY <1>1 DEF Rx!OnCorrelation, RxP!OnCorrelation
<1>4. Rx!OnExpiry = RxP!OnExpiry
  BY <1>1 DEF Rx!OnExpiry, RxP!OnExpiry
<1>5. Rx!PpliReceive = RxP!PpliReceive
  BY <1>2, <1>3 DEF Rx!PpliReceive, RxP!PpliReceive
<1>6. Rx!PpliClear = RxP!PpliClear
  BY <1>2, <1>4 DEF Rx!PpliClear, RxP!PpliClear
<1>7. Rx!J32Receive = RxP!J32Receive
  BY <1>2, <1>3 DEF Rx!J32Receive, RxP!J32Receive
<1>8. Rx!J32Clear = RxP!J32Clear
  BY <1>2, <1>4 DEF Rx!J32Clear, RxP!J32Clear
<1>9. \A b : Rx!Flag(b) = RxP!Flag(b)
  BY DEF Rx!Flag, RxP!Flag
<1>10. \A k : Rx!ReceiveSteps(k) = RxP!ReceiveSteps(k)
  BY <1>5, <1>7 DEF Rx!ReceiveSteps, RxP!ReceiveSteps
<1>11. \A k : Rx!ClearSteps(k) = RxP!ClearSteps(k)
  BY <1>6, <1>8 DEF Rx!ClearSteps, RxP!ClearSteps
<1>12. \A k : Rx!BulkOutput(k) = RxP!BulkOutput(k)
  BY <1>9 DEF Rx!BulkOutput, RxP!BulkOutput, Rx!PpliBulk, RxP!PpliBulk, Rx!J32Bulk,
     RxP!J32Bulk
<1>13. \A r : Rx!NodeNames(r) = RxP!NodeNames(r)
  BY DEF Rx!NodeNames, RxP!NodeNames
<1>14. \A s : Rx!Text(s) = RxP!Text(s)
  BY DEF Rx!Text, RxP!Text
<1> QED
  BY <1>10, <1>11, <1>12, <1>13, <1>14, <1>9

(* How a run goes on. *)
LEMMA RxRuns ==
  /\ \A w : Rx!StepsOf(w) = RxP!StepsOf(w)
  /\ \A w, r, p : Rx!At(w, r, p) = RxP!At(w, r, p)
  /\ \A w, o : Rx!Continue(w, o) = RxP!Continue(w, o)
  /\ \A w : Rx!Fail(w) = RxP!Fail(w)
  /\ \A w, p, e : Rx!Hold(w, p, e) = RxP!Hold(w, p, e)
  /\ \A w, r : Rx!Correlation(w, r) = RxP!Correlation(w, r)
<1>1. \A w : Rx!StepsOf(w) = RxP!StepsOf(w)
  BY RxTables DEF Rx!StepsOf, RxP!StepsOf
<1>2. \A w : Rx!Current(w) = RxP!Current(w)
  BY <1>1 DEF Rx!Current, RxP!Current
<1>3. \A w, r, p : Rx!At(w, r, p) = RxP!At(w, r, p)
  BY <1>2, RxTables DEF Rx!At, RxP!At
<1>4. \A w, r : Rx!Return(w, r) = RxP!Return(w, r)
  BY DEF Rx!Return, RxP!Return, Rx!NoJob, RxP!NoJob
<1>5. \A w, i : Rx!Goto(w, i) = RxP!Goto(w, i)
  BY <1>4, <1>1 DEF Rx!Goto, RxP!Goto
<1>6. \A w, o : Rx!Continue(w, o) = RxP!Continue(w, o)
  <2> TAKE w, o
  <2>1. Rx!Route(o, Rx!Current(w)) = RxP!Route(o, RxP!Current(w))
    BY <1>2, RxRouting
  <2>2. \A t : Rx!StepIndex(Rx!StepsOf(w), t) = RxP!StepIndex(RxP!StepsOf(w), t)
    BY <1>1, RxRouting
  <2>3. /\ \A i : Rx!Goto(w, i) <=> RxP!Goto(w, i)
        /\ \A r : Rx!Return(w, r) <=> RxP!Return(w, r)
    BY <1>4, <1>5
  <2> QED
    BY <1>2, <2>1, <2>2, <2>3, Zenon DEF Rx!Continue, RxP!Continue
<1>7. \A w : Rx!Fail(w) = RxP!Fail(w)
  BY <1>4, <1>5, <1>2 DEF Rx!Fail, RxP!Fail
<1>8. \A w, p, e : Rx!Hold(w, p, e) = RxP!Hold(w, p, e)
  BY DEF Rx!Hold, RxP!Hold
<1>9. \A w, r : Rx!Correlation(w, r) = RxP!Correlation(w, r)
  BY <1>6, RxTables DEF Rx!Correlation, RxP!Correlation
<1> QED
  BY <1>1, <1>3, <1>6, <1>7, <1>8, <1>9

(* The database. *)
LEMMA RxDatabase ==
  /\ \A i : Rx!Entry(i) = RxP!Entry(i)
  /\ \A e : Rx!Expired(e) = RxP!Expired(e)
  /\ \A m : Rx!Create(m) = RxP!Create(m)
  /\ \A m : Rx!Update(m) = RxP!Update(m)
  /\ Rx!CleanExpired = RxP!CleanExpired
  /\ \A i, s : Rx!Running(i, s) = RxP!Running(i, s)
  /\ \A t, s : Rx!Newer(t, s) = RxP!Newer(t, s)
  /\ \A w : Rx!TornRead(w) = RxP!TornRead(w)
<1>1. \A i : Rx!Entry(i) = RxP!Entry(i)
  BY DEF Rx!Entry, RxP!Entry
<1>2. \A e : Rx!Expired(e) = RxP!Expired(e)
  BY DEF Rx!Expired, RxP!Expired
<1>3. \A m : Rx!Create(m) = RxP!Create(m)
  BY DEF Rx!Create, RxP!Create
<1>4. \A m : Rx!Update(m) = RxP!Update(m)
  BY DEF Rx!Update, RxP!Update
<1>5. Rx!CleanExpired = RxP!CleanExpired
  BY <1>1, <1>2 DEF Rx!CleanExpired, RxP!CleanExpired
<1>6. \A i, s : Rx!Running(i, s) = RxP!Running(i, s)
  BY DEF Rx!Running, RxP!Running
<1>7. \A t, s : Rx!Newer(t, s) = RxP!Newer(t, s)
  BY DEF Rx!Newer, RxP!Newer
<1>8. \A w : Rx!TornRead(w) = RxP!TornRead(w)
  BY RxRuns DEF Rx!TornRead, RxP!TornRead
<1> QED
  BY <1>1, <1>2, <1>3, <1>4, <1>5, <1>6, <1>7, <1>8

(* The nodes. *)
LEMMA RxNodes ==
  /\ \A w : Rx!Node(w) = RxP!Node(w)
<1>1. \A w : Rx!Passive(w) = RxP!Passive(w)
  BY RxRuns DEF Rx!Passive, RxP!Passive, Rx!dbVars, RxP!dbVars, Rx!history, RxP!history
<1>2. \A w : Rx!Decode(w) = RxP!Decode(w)
  BY RxRuns DEF Rx!Decode, RxP!Decode, Rx!dbVars, RxP!dbVars, Rx!history, RxP!history
<1>3. \A w : Rx!CorrelateManual(w) = RxP!CorrelateManual(w)
  BY RxRuns DEF Rx!CorrelateManual, RxP!CorrelateManual, Rx!dbVars, RxP!dbVars,
     Rx!history, RxP!history
<1>4. \A w : Rx!CorrelateGet(w) = RxP!CorrelateGet(w)
  BY RxRuns DEF Rx!CorrelateGet, RxP!CorrelateGet, Rx!dbVars, RxP!dbVars, Rx!history,
     RxP!history
<1>5. \A w : Rx!CorrelateCompare(w) = RxP!CorrelateCompare(w)
  BY RxRuns, RxDatabase DEF Rx!CorrelateCompare, RxP!CorrelateCompare, Rx!history,
     RxP!history
<1>6. \A w : Rx!CreateEntry(w) = RxP!CreateEntry(w)
  BY RxRuns, RxDatabase DEF Rx!CreateEntry, RxP!CreateEntry, Rx!dbVars, RxP!dbVars,
     Rx!history, RxP!history
<1>7. \A w : Rx!UpdateEntry(w) = RxP!UpdateEntry(w)
  BY RxRuns, RxDatabase DEF Rx!UpdateEntry, RxP!UpdateEntry, Rx!dbVars, RxP!dbVars,
     Rx!history, RxP!history
<1>8. \A w : Rx!StoreGet(w) = RxP!StoreGet(w)
  BY RxRuns DEF Rx!StoreGet, RxP!StoreGet, Rx!dbVars, RxP!dbVars, Rx!history, RxP!history
<1>9. \A w : Rx!StoreCreate(w) = RxP!StoreCreate(w)
  BY RxRuns, RxDatabase DEF Rx!StoreCreate, RxP!StoreCreate, Rx!dbVars, RxP!dbVars,
     Rx!history, RxP!history
<1>10. \A w : Rx!CheckTTL(w) = RxP!CheckTTL(w)
  BY RxRuns, RxDatabase, RxTables DEF Rx!CheckTTL, RxP!CheckTTL, Rx!dbVars, RxP!dbVars,
     Rx!history, RxP!history
<1>11. \A w : Rx!Sweep(w) = RxP!Sweep(w)
  BY RxRuns, RxDatabase, RxTables DEF Rx!Sweep, RxP!Sweep
<1>12. \A w : Rx!DeleteEntry(w) = RxP!DeleteEntry(w)
  BY RxRuns DEF Rx!DeleteEntry, RxP!DeleteEntry, Rx!history, RxP!history
<1>13. \A w : Rx!Node(w) = RxP!Node(w)
  BY <1>1, <1>2, <1>3, <1>4, <1>5, <1>6, <1>7, <1>8, <1>9, <1>10, <1>11, <1>12 DEF
     Rx!Node, RxP!Node
<1> QED
  BY <1>13

(* The other steps of the receiver. *)
LEMMA RxSteps ==
  /\ \A i, t : Rx!SetTTL(i, t) = RxP!SetTTL(i, t)
  /\ Rx!Tick = RxP!Tick
  /\ \A w, m : Rx!StartReceive(w, m) = RxP!StartReceive(w, m)
  /\ \A w, i : Rx!StartClear(w, i) = RxP!StartClear(w, i)
  /\ Rx!Init = RxP!Init
  /\ Rx!TypeOK = RxP!TypeOK
<1>1. \A i, t : Rx!SetTTL(i, t) = RxP!SetTTL(i, t)
  BY RxDatabase DEF Rx!SetTTL, RxP!SetTTL, Rx!workVars, RxP!workVars, Rx!history,
     RxP!history
<1>2. Rx!Tick = RxP!Tick
  BY DEF Rx!Tick, RxP!Tick, Rx!workVars, RxP!workVars, Rx!history, RxP!history
<1>3. \A w, s, t : Rx!Start(w, s, t) = RxP!Start(w, s, t)
  BY DEF Rx!Start, RxP!Start, Rx!dbVars, RxP!dbVars
<1>4. \A w, m : Rx!StartReceive(w, m) = RxP!StartReceive(w, m)
  BY <1>3, RxDatabase DEF Rx!StartReceive, RxP!StartReceive
<1>5. \A w, i : Rx!StartClear(w, i) = RxP!StartClear(w, i)
  BY <1>3, RxDatabase DEF Rx!StartClear, RxP!StartClear
<1>6. Rx!Init = RxP!Init
  BY DEF Rx!Init, RxP!Init, Rx!NoJob, RxP!NoJob
<1>7. Rx!TypeOK = RxP!TypeOK
  BY RxRuns, RxDatabase DEF Rx!TypeOK, RxP!TypeOK, Rx!EntryTypes, RxP!EntryTypes,
     Rx!NoJob, RxP!NoJob
<1> QED
  BY <1>1, <1>2, <1>4, <1>5, <1>6, <1>7

(* Routing of the sender. *)
LEMMA TxRouting ==
  /\ \A o, s : Tx!Route(o, s) = TxP!Route(o, s)
  /\ \A s, i : Tx!StepIndex(s, i) = TxP!StepIndex(s, i)
<1>1. \A s : Tx!Min(s) = TxP!Min(s)
  BY DEF Tx!Min, TxP!Min
<1>2. \A v, l : Tx!BoolEquals(v, l) = TxP!BoolEquals(v, l)
  BY DEF Tx!BoolEquals, TxP!BoolEquals
<1>3. \A c, o : Tx!Holds(c, o) = TxP!Holds(c, o)
  BY <1>2 DEF Tx!Holds, TxP!Holds
<1>4. \A o, s : Tx!Matching(o, s) = TxP!Matching(o, s)
  BY <1>3 DEF Tx!Matching, TxP!Matching
<1>5. \A o, s : Tx!Route(o, s) = TxP!Route(o, s)
  BY <1>1, <1>4 DEF Tx!Route, TxP!Route
<1>6. \A s, i : Tx!StepIndex(s, i) = TxP!StepIndex(s, i)
  BY <1>1 DEF Tx!StepIndex, TxP!StepIndex
<1> QED
  BY <1>5, <1>6

(* The steps of T1, and how a run goes on. *)
LEMMA TxRuns ==
  /\ Tx!Steps = TxP!Steps
  /\ \A r : Tx!At(r) = TxP!At(r)
  /\ \A o : Tx!Continue(o) = TxP!Continue(o)
<1>1. \A f, l, g : Tx!Branch(f, l, g) = TxP!Branch(f, l, g)
  BY DEF Tx!Branch, TxP!Branch
<1>2. \A i, n, r, b, d : Tx!StepOf(i, n, r, b, d) = TxP!StepOf(i, n, r, b, d)
  BY DEF Tx!StepOf, TxP!StepOf
<1>3. Tx!PpliPrepare = TxP!PpliPrepare
  BY <1>2 DEF Tx!PpliPrepare, TxP!PpliPrepare
<1>4. Tx!J32Prepare = TxP!J32Prepare
  BY <1>2 DEF Tx!J32Prepare, TxP!J32Prepare
<1>5. Tx!Send = TxP!Send
  BY <1>2, <1>1 DEF Tx!Send, TxP!Send
<1>6. Tx!PpliSpecial = TxP!PpliSpecial
  BY <1>2 DEF Tx!PpliSpecial, TxP!PpliSpecial
<1>7. Tx!J32Special = TxP!J32Special
  BY <1>2 DEF Tx!J32Special, TxP!J32Special
<1>8. Tx!Steps = TxP!Steps
  BY <1>3, <1>4, <1>5, <1>6, <1>7 DEF Tx!Steps, TxP!Steps
<1>9. \A r : Tx!NodeNames(r) = TxP!NodeNames(r)
  BY DEF Tx!NodeNames, TxP!NodeNames
<1>10. \A r : Tx!At(r) = TxP!At(r)
  BY <1>8, <1>9 DEF Tx!At, TxP!At
<1>11. \A i : Tx!Goto(i) = TxP!Goto(i)
  BY <1>8 DEF Tx!Goto, TxP!Goto
<1>12. \A o : Tx!Continue(o) = TxP!Continue(o)
  BY <1>8, <1>11, TxRouting DEF Tx!Continue, TxP!Continue
<1> QED
  BY <1>8, <1>10, <1>12

(* Messages. *)
LEMMA TxMessages ==
  /\ Tx!MessageTypes = TxP!MessageTypes
  /\ \A r, p, n : Tx!Message(r, p, n) = TxP!Message(r, p, n)
  /\ \A k, a : Tx!PlatformOf(k, a) = TxP!PlatformOf(k, a)
<1>1. \A k : Tx!DefaultReport(k) = TxP!DefaultReport(k)
  BY DEF Tx!DefaultReport, TxP!DefaultReport
<1>2. Tx!MessageTypes = TxP!MessageTypes
  BY <1>1 DEF Tx!MessageTypes, TxP!MessageTypes, Tx!Kinds, TxP!Kinds,
              Tx!Courses, TxP!Courses
<1>3. \A r, p, n : Tx!Message(r, p, n) = TxP!Message(r, p, n)
  BY DEF Tx!Message, TxP!Message
<1>4. \A k, a : Tx!PlatformOf(k, a) = TxP!PlatformOf(k, a)
  BY DEF Tx!PlatformOf, TxP!PlatformOf
<1> QED
  BY <1>2, <1>3, <1>4

(* The checksum of a word, and the second of a time. *)
LEMMA TxCodec ==
  /\ \A w : Tx!SetParity(w) = TxP!SetParity(w)
  /\ \A w : Tx!VerifyWordParity(w) = TxP!VerifyWordParity(w)
  /\ \A w, b : Tx!Flip(w, b) = TxP!Flip(w, b)
  /\ \A t : Tx!Unix(t) = TxP!Unix(t)
<1>1. \A w, i : Tx!Group(w, i) = TxP!Group(w, i)
  BY DEF Tx!Group, TxP!Group
<1>2. \A w : Tx!WordParity(w) = TxP!WordParity(w)
  BY <1>1 DEF Tx!WordParity, TxP!WordParity, Tx!Cardinality, TxP!Cardinality
<1>3. \A w : Tx!SetParity(w) = TxP!SetParity(w)
  BY <1>2 DEF Tx!SetParity, TxP!SetParity
<1>4. \A w : Tx!VerifyWordParity(w) = TxP!VerifyWordParity(w)
  BY <1>2 DEF Tx!VerifyWordParity, TxP!VerifyWordParity
<1>5. \A w, b : Tx!Flip(w, b) = TxP!Flip(w, b)
  BY DEF Tx!Flip, TxP!Flip
<1>6. \A t : Tx!Unix(t) = TxP!Unix(t)
  BY DEF Tx!Unix, TxP!Unix
<1> QED
  BY <1>3, <1>4, <1>5, <1>6
-----------------------------------------------------------------------------
(* The second of a time is a number, and so is that second in ticks.        *)
LEMMA Times == \A t \in Nat : Tx!Unix(t) \in Nat /\ Tx!Unix(t) * TicksPerSecond \in Nat
<1>1. \A d \in Nat \ {0}, t \in Nat : t \div d \in Nat /\ (t \div d) * d \in Nat
  BY SMT
<1> QED
  BY <1>1, PartsAssumption DEF Tx!Unix

(* What the sender assumes of its constants.                                *)
SenderFit == /\ DOMAIN ScannedNumber \subseteq Literals
             /\ TicksPerSecond \in Nat \ {0}
             /\ NoMessage \notin Reports
             /\ Hair \notin Int
             /\ \A r \in Reports : /\ {r.lat, r.lon, r.alt, r.speed} \subseteq Int
                                  /\ r.course \in TxP!Courses
             /\ 0..MaxNow \subseteq Nat
             /\ NoMessage \notin TxP!MessageTypes

(* The exchange gives it such constants.                                    *)
LEMMA SenderFits == SenderFit
BY PartsAssumption, TxMessages DEF SenderFit, Tx!Courses, TxP!Courses

(* What the receiver assumes of its constants.                              *)
ReceiverFit ==
  /\ DOMAIN ScannedNumber \subseteq Literals
  /\ {"J2.2"} \subseteq {"J2.2", "J3.2"}
  /\ \A k \in {"J2.2"} : RxP!Validate(<<[id |-> "receive", steps |-> RxP!ReceiveSteps(k)],
                                        [id |-> "clear", steps |-> RxP!ClearSteps(k)]>>)
  /\ AllTracks \notin Heads \union Nat
  /\ DefaultTTL \in Nat /\ TTLs \subseteq Nat
  /\ MaxReceives \in Nat /\ MaxNow \in Nat
  /\ \A m \in Heard : /\ m.id \in Heads
                      /\ m.time \in Nat
                      /\ m.decodes \in BOOLEAN
                      /\ m.hint \in {"auto", "new", "update", "duplicate"}

(* What T3 can be handed has a track, a time and no hint.                   *)
LEMMA HeardTyped ==
  ASSUME NEW m \in Heard
  PROVE  m.id \in Heads /\ m.time \in Nat /\ m.decodes \in BOOLEAN /\ m.hint = "auto"
<1> DEFINE times == {TicksPerSecond * s : s \in 0..(MaxNow \div TicksPerSecond)}
<1>1. times \subseteq Nat
  <2>1. \A a \in Nat, b \in Nat : a * b \in Nat
    BY SMT
  <2>2. TicksPerSecond \in Nat
    BY PartsAssumption
  <2>3. \A s \in 0..(MaxNow \div TicksPerSecond) : s \in Nat
    OBVIOUS
  <2> QED
    BY <2>1, <2>2, <2>3
<1> HIDE DEF times
<1>2. m \in [id : Heads, time : times, decodes : BOOLEAN, hint : {"auto"}]
  BY DEF Heard, times
<1> QED
  BY <1>1, <1>2

(* The exchange gives it such constants, and one caller.                    *)
LEMMA ReceiverFits == ReceiverFit /\ RxP!OneCaller
<1>1. RxP!Validate(<<[id |-> "receive", steps |-> RxP!ReceiveSteps("J2.2")],
                     [id |-> "clear", steps |-> RxP!ClearSteps("J2.2")]>>)
  BY PartsAssumption, RxRouting, RxTables
<1>2. RxP!OneCaller
  BY HeardTyped DEF RxP!OneCaller
<1> QED
  BY <1>1, <1>2, PartsAssumption, HeardTyped DEF ReceiverFit
-----------------------------------------------------------------------------
(* The payload of a message is taken, and none with a bit changed.          *)
LEMMA FlipsRejected ==
  ASSUME NEW m, NEW b \in 0..74
  PROVE  /\ Tx!Rejects([Tx!EncodeJ22(m) EXCEPT !.iw = Tx!Flip(@, b)])
         /\ Tx!Rejects([Tx!EncodeJ22(m) EXCEPT !.e0 = Tx!Flip(@, b)])
<1> DEFINE p == Tx!EncodeJ22(m)
<1>1. ASSUME NEW w
      PROVE  ~Tx!VerifyWordParity(Tx!Flip(Tx!SetParity(w), b))
  <2>1. TxP!VerifyWordParity(TxP!SetParity(w))
    BY SenderFits, TxP!SetThenVerify DEF SenderFit
  <2>2. \A x : TxP!VerifyWordParity(x) => ~TxP!VerifyWordParity(TxP!Flip(x, b))
    BY SenderFits, TxP!FlipRejected DEF SenderFit
  <2> QED
    BY <2>1, <2>2, TxCodec
<1>2. ~Tx!VerifyWordParity(Tx!Flip(p.iw, b)) /\ ~Tx!VerifyWordParity(Tx!Flip(p.e0, b))
  BY <1>1 DEF Tx!EncodeJ22, Tx!EncodeInitialWord, Tx!EncodeExtensionWord
<1>3. /\ [p EXCEPT !.iw = Tx!Flip(@, b)].iw = Tx!Flip(p.iw, b)
      /\ [p EXCEPT !.e0 = Tx!Flip(@, b)].e0 = Tx!Flip(p.e0, b)
  BY DEF Tx!EncodeJ22
<1> QED
  BY <1>2, <1>3 DEF Tx!Rejects

(* What arrives of a payload: its ID and its second, and a message only if  *)
(* no bit has changed.                                                      *)
LEMMA WhatArrives ==
  ASSUME NEW m, NEW p \in Copies(Tx!EncodeJ22(m))
  PROVE  /\ ~Tx!Rejects(p) => p = Tx!EncodeJ22(m)
         /\ Receipt(p).id = m.id.head
         /\ Receipt(p).time = Tx!Unix(m.time) * TicksPerSecond
         /\ Receipt(p).decodes = ~Tx!Rejects(p)
         /\ Receipt(p).hint = "auto"
         /\ Tx!DecodeJ22(p).id.head = m.id.head
         /\ Tx!DecodeJ22(p).time = Tx!Unix(m.time) * TicksPerSecond
<1> DEFINE q == Tx!EncodeJ22(m)
<1>1. p = q \/ \E b \in 0..74 : \/ p = [q EXCEPT !.iw = Tx!Flip(@, b)]
                                \/ p = [q EXCEPT !.e0 = Tx!Flip(@, b)]
  BY ExchangeAssumption DEF Copies
<1>2. ~Tx!Rejects(p) => p = q
  BY <1>1, FlipsRejected
<1>3. q.ctx.id = Tx!PutASCII(m.id) /\ q.ctx.time = Tx!Unix(m.time)
  BY DEF Tx!EncodeJ22
<1>4. p.ctx = q.ctx
  BY <1>1 DEF Tx!EncodeJ22
<1>5. p.ctx.id.head = m.id.head
  <2>1. \A i : Tx!PutASCII(i).head = i.head
    BY DEF Tx!PutASCII
  <2> QED
    BY <1>3, <1>4, <2>1
<1> HIDE DEF q
<1>6. Tx!DecodeJ22(p).id = p.ctx.id /\ Tx!DecodeJ22(p).time = p.ctx.time * TicksPerSecond
  BY Zenon DEF Tx!DecodeJ22
<1>7. /\ Receipt(p).id = p.ctx.id.head /\ Receipt(p).time = Tx!DecodeJ22(p).time
      /\ Receipt(p).decodes = ~Tx!Rejects(p) /\ Receipt(p).hint = "auto"
  BY Zenon DEF Receipt
<1> QED
  BY <1>2, <1>3, <1>4, <1>5, <1>6, <1>7 DEF q
-----------------------------------------------------------------------------
(***************************************************************************)
(* The inductive invariant.                                                *)
(***************************************************************************)

(* A message T1 may have prepared: of a report's track. *)
Sendable == {m \in Tx!MessageTypes : m.id.head \in Heads}

(* T1 is under way: what its nodes have left in the token.                  *)
Prepared ==
  /\ txKind = "J2.2" /\ txStage \in {"none", "prepare_send"}
  /\ txStep \in 0..4 /\ (txStage = "none" => txStep = 0)
  /\ txMessage \in Sendable \union {NoMessage}
  /\ txOriginal \in Sendable \union {NoMessage}
  /\ txMessage = NoMessage <=> txOriginal = NoMessage
  /\ txStep = 1 => txData.report \in Reports
  /\ txStep \in 2..4 => txMessage # NoMessage
  /\ txStep = 4 => txData.j22 = Tx!EncodeJ22(txMessage)

(* What T1 has left is the payload of its message.                          *)
Wire == \A item \in wire :
          item.sent \in Sendable /\ item.payload = Tx!EncodeJ22(item.sent)

(* The second of a message, in ticks.                                       *)
Second(m) == TicksPerSecond * Tx!Unix(m.time)

(* What the receiver has in hand: a receive run, of a payload that decodes  *)
(* only if it is intact, or a bulk clear.                                   *)
InHand ==
  LET m == job[Receiver]
  IN /\ stage[Receiver] = "receive" =>
          /\ outcome[Receiver] = "none"
          /\ current.sent \in Sendable /\ current.intact \in BOOLEAN
          /\ m.id = current.sent.id.head /\ m.time = Second(current.sent)
          /\ m.decodes => current.intact
          /\ step[Receiver] # 1 => m.decodes
          /\ step[Receiver] \in {6, 7} => tracks[m.id] # 0 /\ m.time <= Rx!Entry(m.id).time
     /\ stage[Receiver] # "receive" => current = Nobody
     /\ stage[Receiver] = "clear" => m.id = AllTracks

(* What the history knows of a track.                                       *)
Origin(id) ==
  /\ offered[id] \in SUBSET Nat
  /\ tracks[id] = 0 => origin[id] = Nobody /\ offered[id] = {}
  /\ tracks[id] # 0 =>
       /\ origin[id].intact = TRUE /\ origin[id].sent \in Sendable
       /\ origin[id].sent.id.head = id /\ Rx!Entry(id).time = Second(origin[id].sent)
       /\ \A t \in offered[id] : TicksPerSecond * Tx!Unix(t) <= Rx!Entry(id).time

(* And of every track.                                                      *)
Origins == /\ origin = [id \in Heads |-> origin[id]]
           /\ offered = [id \in Heads |-> offered[id]]
           /\ \A id \in Heads : Origin(id)

(* What T3Receive makes of a track at once, the routed T3 does by its       *)
(* seventh step.                                                            *)
Received(id, time) ==
  CASE tracks[id] = 0 -> [time |-> time, ttl |-> DefaultTTL, version |-> 1]
    [] tracks[id] # 0 /\ time > Rx!Entry(id).time ->
         [time |-> time, ttl |-> Rx!Entry(id).ttl, version |-> Rx!Entry(id).version + 1]
    [] tracks[id] # 0 /\ ~(time > Rx!Entry(id).time) -> Routed(id)

(* The message in hand has yet to reach the track.                          *)
Pending(id) == /\ stage[Receiver] = "receive" /\ step[Receiver] \in 1..5
               /\ job[Receiver].id = id /\ job[Receiver].decodes

(* The baselines agree with one another, and on every track they refused    *)
(* nothing of with the routed stages, one message in hand ahead of them.    *)
Twins ==
  /\ DOMAIN twins = Baselines
  /\ twins["T3Receive"] \in Databases
  /\ twins["T3StateMachineReceive"] = twins["T3Receive"]
  /\ parted \subseteq Heads
  /\ \A id \in Heads \ parted :
       twins["T3Receive"][id] = IF Pending(id) THEN Received(id, job[Receiver].time)
                                ELSE Routed(id)

(* The inductive invariant of the exchange.                                 *)
ExchangeInv == /\ kind = "J2.2" /\ now <= MaxNow /\ RxP!TracksInv /\ RxP!Alone
               /\ Prepared /\ Wire /\ InHand /\ Origins /\ Twins
-----------------------------------------------------------------------------
(***************************************************************************)
(* The sender.                                                             *)
(***************************************************************************)

(* Which node of T1 acts at which step. *)
LEMMA PrepareAt ==
  ASSUME Prepared
  PROVE  /\ Tx!At("init") => txStep = 1
         /\ Tx!At("classify") => txStep = 2
         /\ Tx!At("encode") => txStep = 3
         /\ Tx!At("validate") => txStep = 4
<1> USE SenderFits DEF SenderFit
<1>1. ASSUME NEW r \in TxP!Roles, Tx!At(r)
      PROVE  /\ TxP!At(r) /\ txStage = "prepare_send" /\ txStep \in {1, 2, 3, 4}
             /\ txKind \in TxP!Kinds
  <2>1. TxP!At(r)
    BY <1>1, TxRuns, Zenon
  <2>2. txStep # 0
    BY <1>1, Zenon DEF Tx!At
  <2> QED
    BY <2>1, <2>2 DEF Prepared, TxP!Kinds
<1>2. ASSUME NEW r \in TxP!Roles, Tx!At(r)
      PROVE  /\ TxP!Steps[1].node \in TxP!NodeNames("init")
             /\ TxP!Steps[2].node \in TxP!NodeNames("classify")
             /\ TxP!Steps[3].node \in TxP!NodeNames("encode")
             /\ TxP!Steps[4].node \in TxP!NodeNames("validate")
  BY <1>1, <1>2, TxP!PrepareSteps
<1>3. {"init", "classify", "encode", "validate"} \subseteq TxP!Roles
  BY DEF TxP!Roles
<1>4. ASSUME NEW r \in TxP!Roles, Tx!At(r), NEW s \in TxP!Roles,
             TxP!Steps[txStep].node \in TxP!NodeNames(s)
      PROVE  s = r
  BY <1>1, <1>4, TxP!RoleAtStep
<1>5. ASSUME NEW r \in TxP!Roles, Tx!At(r)
      PROVE  \/ txStep = 1 /\ r = "init"
             \/ txStep = 2 /\ r = "classify"
             \/ txStep = 3 /\ r = "encode"
             \/ txStep = 4 /\ r = "validate"
  BY <1>1, <1>2, <1>3, <1>4, <1>5
<1> QED
  BY <1>3, <1>5

(* How T1 goes on after a node. *)
LEMMA PrepareOn ==
  ASSUME Prepared, NEW i \in 1..4, txStep = i, NEW output, Tx!Continue(output)
  PROVE  /\ txStep' = IF i = 4 THEN 0 ELSE i + 1
         /\ UNCHANGED <<txKind, txStage>> /\ txStage = "prepare_send"
         /\ txData' = [f \in DOMAIN txData \union DOMAIN output |->
                         IF f \in DOMAIN output THEN output[f] ELSE txData[f]]
<1> USE SenderFits DEF SenderFit
<1>1. txStage = "prepare_send" /\ txKind \in TxP!Kinds
  BY DEF Prepared, TxP!Kinds
<1>2. TxP!Continue(output)
  BY TxRuns
<1>3. Len(TxP!Steps) = 4 /\ TxP!Straight(TxP!Steps[i])
  BY <1>1, TxP!PrepareSteps
<1>4. txStep' = IF i = 4 THEN 0 ELSE i + 1
  BY <1>2, <1>3, TxP!StraightStep
<1> QED
  BY <1>1, <1>4 DEF Tx!Continue

(* The same step by step, whatever the node returned. *)
LEMMA PrepareNext ==
  ASSUME Prepared, NEW output, Tx!Continue(output)
  PROVE  /\ txStep = 1 => txStep' = 2
         /\ txStep = 2 => txStep' = 3
         /\ txStep = 4 => txStep' = 0
         /\ txStep # 0 => UNCHANGED <<txKind, txStage>> /\ txStage = "prepare_send"
<1>1. ASSUME NEW i \in 1..4, txStep = i
      PROVE  /\ txStep' = IF i = 4 THEN 0 ELSE i + 1
             /\ UNCHANGED <<txKind, txStage>> /\ txStage = "prepare_send"
  BY <1>1, PrepareOn, Zenon
<1>2. txStep = 0 \/ txStep \in 1..4
  BY DEF Prepared
<1> QED
  BY <1>1, <1>2

(* init_ppli_data makes a message of the report's track. *)
LEMMA InitKeeps ==
  ASSUME Prepared, now \in 0..MaxNow, Tx!InitData(now)
  PROVE  Prepared'
<1> USE SenderFits DEF SenderFit
<1>1. txStep = 1 /\ txKind = "J2.2" /\ txData.report \in Reports
  BY PrepareAt DEF Tx!InitData, Prepared
<1>2. txMessage' = Tx!Message(txData.report, "", now) /\ txOriginal' = txMessage'
  BY <1>1 DEF Tx!InitData
<1>3. txStep' = 2 /\ UNCHANGED <<txKind, txStage>> /\ txStage = "prepare_send"
  <2>1. PICK output : Tx!Continue(output)
    BY Zenon DEF Tx!InitData
  <2> QED
    BY <1>1, <2>1, PrepareNext
<1>4. PICK r \in Reports : r = txData.report
  BY <1>1
<1>5. Tx!Message(r, "", now) \in Tx!MessageTypes
  <2>1. r \in Reports \union {TxP!DefaultReport("J2.2")} /\ "J2.2" \in TxP!Kinds
        /\ "" \in TxP!PlatformNames
    BY DEF TxP!Kinds, TxP!PlatformNames
  <2>2. TxP!Message(r, "", now) \in TxP!MessageTypes
    BY <2>1, TxP!MessageTyped
  <2> QED
    BY <2>2, TxMessages
<1>6. Tx!Message(r, "", now).id.head \in Heads
  BY DEF Tx!Message, Heads
<1>7. txMessage' \in Sendable
  BY <1>2, <1>4, <1>5, <1>6 DEF Sendable
<1>8. NoMessage \notin Sendable
  BY PartsAssumption DEF Sendable
<1>9. txOriginal' \in Sendable
  BY <1>2, <1>7
<1> HIDE SenderFits DEF SenderFit
<1>10. Prepared'
  BY <1>1, <1>3, <1>7, <1>8, <1>9 DEF Prepared
<1> QED
  BY <1>10

(* classify_platform leaves the message one of that track. *)
LEMMA ClassifyKeeps ==
  ASSUME Prepared, Tx!Classify
  PROVE  Prepared'
<1> USE SenderFits DEF SenderFit
<1>1. txStep = 2 /\ txKind = "J2.2" /\ txMessage \in Sendable /\ txOriginal \in Sendable
  BY PrepareAt DEF Tx!Classify, Prepared
<1>2. PICK m \in Sendable : m = txMessage
  BY <1>1
<1>3. txMessage' = [m EXCEPT !.platform = Tx!PlatformOf("J2.2", m.alt)]
      /\ txOriginal' = txOriginal
  BY <1>1, <1>2 DEF Tx!Classify
<1>4. txStep' = 3 /\ UNCHANGED <<txKind, txStage>> /\ txStage = "prepare_send"
  <2>1. PICK output : Tx!Continue(output)
    BY Zenon DEF Tx!Classify
  <2> QED
    BY <1>1, <2>1, PrepareNext
<1>5. txMessage' \in Sendable
  <2>1. m \in TxP!MessageTypes /\ m.id.head \in Heads /\ "J2.2" \in TxP!Kinds
    BY TxMessages DEF Sendable, TxP!Kinds
  <2>2. TxP!Classified("J2.2", m) \in TxP!MessageTypes
    BY <2>1, TxP!ClassifiedTyped
  <2>3. txMessage' = TxP!Classified("J2.2", m)
    BY <1>3, TxMessages DEF TxP!Classified
  <2>4. txMessage'.id = m.id
    BY <1>3, <2>1 DEF TxP!MessageTypes
  <2> QED
    BY <2>1, <2>2, <2>3, <2>4, TxMessages DEF Sendable
<1>6. NoMessage \notin Sendable
  BY PartsAssumption DEF Sendable
<1>7. Prepared'
  BY <1>1, <1>3, <1>4, <1>5, <1>6 DEF Prepared
<1> QED
  BY <1>7

(* encode_ppli_message leaves the payload beside it. *)
LEMMA EncodeKeeps ==
  ASSUME Prepared, Tx!Encode
  PROVE  Prepared'
<1>1. txStep = 3 /\ txKind = "J2.2" /\ txMessage \in Sendable /\ txOriginal \in Sendable
  BY PrepareAt DEF Tx!Encode, Prepared
<1>2. Tx!Continue([j22 |-> Tx!EncodeJ22(txMessage)]) /\ UNCHANGED <<txMessage, txOriginal>>
  BY <1>1 DEF Tx!Encode
<1>3. /\ txStep' = 4 /\ UNCHANGED <<txKind, txStage>> /\ txStage = "prepare_send"
      /\ txData' = [f \in DOMAIN txData \union {"j22"} |->
                      IF f \in {"j22"} THEN [j22 |-> Tx!EncodeJ22(txMessage)][f] ELSE txData[f]]
  BY <1>1, <1>2, PrepareOn
<1>4. txData'.j22 = Tx!EncodeJ22(txMessage)
  BY <1>3
<1>5. NoMessage \notin Sendable
  BY PartsAssumption DEF Sendable
<1>6. Tx!EncodeJ22(txMessage)' = Tx!EncodeJ22(txMessage)
  BY <1>2, Zenon
<1> QED
  BY <1>1, <1>2, <1>3, <1>4, <1>5, <1>6 DEF Prepared

(* What T1 does to the wire, step by step. *)
LEMMA SenderKeeps ==
  ASSUME Prepared, Wire, now \in 0..MaxNow, StartPrepare \/ PrepareNode \/ PrepareLast
  PROVE  Prepared' /\ Wire'
<1> USE DEF txVars
<1>1. CASE StartPrepare
  <2>1. PICK r \in Reports : Tx!StartPrepare("J2.2", r)
    BY <1>1 DEF StartPrepare
  <2>2. Prepared'
    BY <2>1 DEF Tx!StartPrepare, Tx!Start, Prepared
  <2> QED
    BY <1>1, <2>2 DEF StartPrepare, Wire
<1>2. CASE PrepareNode
  BY <1>2, InitKeeps, ClassifyKeeps, EncodeKeeps DEF PrepareNode, Wire
<1>3. CASE PrepareLast
  <2>1. /\ Tx!At("validate") /\ UNCHANGED <<txMessage, txOriginal>>
        /\ Tx!Continue([errors |-> Tx!Errors(txKind, txMessage)])
        /\ wire' = wire \union {[payload |-> txData.j22, sent |-> txMessage]}
    BY <1>3 DEF PrepareLast, Tx!ValidateMessage
  <2>2. /\ txStep = 4 /\ txMessage \in Sendable
        /\ txData.j22 = Tx!EncodeJ22(txMessage)
    BY <2>1, PrepareAt DEF Prepared
  <2>3. txStep' = 0 /\ UNCHANGED <<txKind, txStage>> /\ txStage = "prepare_send"
    <3>1. PICK output : Tx!Continue(output)
      BY <2>1, Zenon
    <3> QED
      BY <2>2, <3>1, PrepareNext
  <2>4. Prepared'
    BY <2>1, <2>3 DEF Prepared
  <2>5. Wire'
    BY <2>1, <2>2 DEF Wire
  <2> QED
    BY <2>4, <2>5
<1> QED
  BY <1>1, <1>2, <1>3

-----------------------------------------------------------------------------
(***************************************************************************)
(* The baselines.                                                          *)
(***************************************************************************)

(* A configuration of the state machine. *)
At(s, db) == [state |-> s, db |-> db]

(* Where each state leads. *)
LEMMA Transitions ==
  ASSUME NEW m, NEW db
  PROVE  /\ Transition(At("decode", db), m) = At("filter", db)
         /\ Refused(m) => Transition(At("filter", db), m) = At("done", db)
         /\ ~Refused(m) => Transition(At("filter", db), m) = At("correlate", db)
         /\ db[m.id.head] = NoEntry => Transition(At("correlate", db), m) = At("create", db)
         /\ db[m.id.head] # NoEntry /\ m.time > db[m.id.head].time
              => Transition(At("correlate", db), m) = At("update", db)
         /\ db[m.id.head] # NoEntry /\ ~(m.time > db[m.id.head].time)
              => Transition(At("correlate", db), m) = At("dup_resolve", db)
         /\ Transition(At("create", db), m) = At("store", Created(db, m))
         /\ Transition(At("update", db), m) = At("store", Updated(db, m))
         /\ Transition(At("dup_resolve", db), m) = At("store", db)
         /\ Transition(At("store", db), m) = At("done", db)
         /\ Transition(At("done", db), m) = At("done", db)
<1>1. \A s : At(s, db).state = s /\ At(s, db).db = db
  BY DEF At
<1>2. \A s, t : [At(s, db) EXCEPT !.state = t] = At(t, db)
  BY DEF At
<1>3. \A x : [state |-> "store", db |-> x] = At("store", x)
  BY DEF At
<1> HIDE DEF At
<1>4. Transition(At("decode", db), m) = At("filter", db)
  BY <1>1, <1>2 DEF Transition
<1>5. /\ Refused(m) => Transition(At("filter", db), m) = At("done", db)
      /\ ~Refused(m) => Transition(At("filter", db), m) = At("correlate", db)
  BY <1>1, <1>2 DEF Transition
<1>6. /\ db[m.id.head] = NoEntry => Transition(At("correlate", db), m) = At("create", db)
      /\ db[m.id.head] # NoEntry /\ m.time > db[m.id.head].time
           => Transition(At("correlate", db), m) = At("update", db)
      /\ db[m.id.head] # NoEntry /\ ~(m.time > db[m.id.head].time)
           => Transition(At("correlate", db), m) = At("dup_resolve", db)
  BY <1>1, <1>2 DEF Transition
<1>7. /\ Transition(At("create", db), m) = At("store", Created(db, m))
      /\ Transition(At("update", db), m) = At("store", Updated(db, m))
  BY <1>1, <1>3 DEF Transition
<1>8. /\ Transition(At("dup_resolve", db), m) = At("store", db)
      /\ Transition(At("store", db), m) = At("done", db)
      /\ Transition(At("done", db), m) = At("done", db)
  BY <1>1, <1>2 DEF Transition
<1> QED
  BY <1>4, <1>5, <1>6, <1>7, <1>8

(* The loop of the state machine, unrolled. *)
LEMMA LoopUnrolled ==
  ASSUME NEW m, NEW db
  PROVE  T3StateMachineReceive(m, db) =
           Transition(Transition(Transition(Transition(Transition(
             At("decode", db), m), m), m), m), m).db
<1> DEFINE c0 == At("decode", db)
           c1 == Transition(c0, m)
           c2 == Transition(c1, m)
           c3 == Transition(c2, m)
           c4 == Transition(c3, m)
           c5 == Transition(c4, m)
           Loop(f) == f = [n \in 0..5 |-> IF n = 0 THEN [state |-> "decode", db |-> db]
                                          ELSE Transition(f[n - 1], m)]
           g == [n \in 0..5 |-> IF n = 0 THEN c0 ELSE IF n = 1 THEN c1
                                ELSE IF n = 2 THEN c2 ELSE IF n = 3 THEN c3
                                ELSE IF n = 4 THEN c4 ELSE c5]
<1>1. c0 = [state |-> "decode", db |-> db]
  BY DEF At
<1>2. /\ g[0] = c0 /\ g[1] = c1 /\ g[2] = c2 /\ g[3] = c3 /\ g[4] = c4 /\ g[5] = c5
      /\ DOMAIN g = 0..5
  <2> HIDE DEF c0, c1, c2, c3, c4, c5
  <2> QED
    OBVIOUS
<1>3. \A n \in 0..5 : g[n] = IF n = 0 THEN [state |-> "decode", db |-> db]
                             ELSE Transition(g[n - 1], m)
  <2>1. \A n \in 0..5 : \/ n = 0
                        \/ n = 1 /\ n - 1 = 0
                        \/ n = 2 /\ n - 1 = 1
                        \/ n = 3 /\ n - 1 = 2
                        \/ n = 4 /\ n - 1 = 3
                        \/ n = 5 /\ n - 1 = 4
    OBVIOUS
  <2>2. /\ c1 = Transition(c0, m) /\ c2 = Transition(c1, m) /\ c3 = Transition(c2, m)
        /\ c4 = Transition(c3, m) /\ c5 = Transition(c4, m)
    OBVIOUS
  <2> HIDE DEF c0, c1, c2, c3, c4, c5, g
  <2> QED
    BY <1>1, <1>2, <2>1, <2>2
<1>4. Loop(g)
  <2>1. g = [n \in 0..5 |-> g[n]]
    BY <1>2
  <2> HIDE DEF g
  <2> QED
    BY <1>3, <2>1
<1>5. PICK f : f = (CHOOSE h : Loop(h))
  OBVIOUS
<1>6. Loop(f)
  BY <1>4, <1>5
<1>7. f[5] = c5
  <2>1. /\ f[0] = c0 /\ f[1] = Transition(f[0], m) /\ f[2] = Transition(f[1], m)
        /\ f[3] = Transition(f[2], m) /\ f[4] = Transition(f[3], m)
        /\ f[5] = Transition(f[4], m)
    <3> HIDE DEF c0
    <3>1. \A n \in 0..5 : f[n] = IF n = 0 THEN c0 ELSE Transition(f[n - 1], m)
      BY <1>1, <1>6
    <3> HIDE DEF Loop
    <3> QED
      BY <3>1
  <2> QED
    BY <2>1, Zenon
<1>8. T3StateMachineReceive(m, db) = f[5].db
  BY <1>5, Zenon DEF T3StateMachineReceive
<1> QED
  BY <1>7, <1>8, Zenon

(* On every message and every database the loop of T3StateMachineReceive    *)
(* (statemachine.go:32-83) does what the inlined T3Receive does.            *)
THEOREM MachineAgrees ==
  ASSUME NEW m, NEW db
  PROVE  T3StateMachineReceive(m, db) = T3Receive(m, db)
<1> DEFINE t(c) == Transition(c, m)
<1>1. \A x : \A s : At(s, x).db = x
  BY DEF At
<1>2. \A x : /\ t(At("store", x)) = At("done", x)
             /\ t(At("done", x)) = At("done", x)
  BY Transitions
<1>3. t(At("decode", db)) = At("filter", db)
  BY Transitions
<1>4. CASE Refused(m)
  <2>1. t(At("filter", db)) = At("done", db)
    BY <1>4, Transitions
  <2>2. t(t(t(t(t(At("decode", db)))))) = At("done", db)
    BY <1>2, <1>3, <2>1, Zenon
  <2>3. T3Receive(m, db) = db
    BY <1>4 DEF T3Receive
  <2> QED
    BY <1>1, <2>2, <2>3, LoopUnrolled, Zenon
<1>5. CASE ~Refused(m) /\ db[m.id.head] = NoEntry
  <2>1. t(At("filter", db)) = At("correlate", db) /\ t(At("correlate", db)) = At("create", db)
        /\ t(At("create", db)) = At("store", Created(db, m))
    BY <1>5, Transitions
  <2>2. t(t(t(t(t(At("decode", db)))))) = At("done", Created(db, m))
    BY <1>2, <1>3, <2>1, Zenon
  <2>3. T3Receive(m, db) = Created(db, m)
    BY <1>5 DEF T3Receive
  <2> QED
    BY <1>1, <2>2, <2>3, LoopUnrolled, Zenon
<1>6. CASE ~Refused(m) /\ db[m.id.head] # NoEntry
  <2>1. t(At("filter", db)) = At("correlate", db)
    BY <1>6, Transitions
  <2>2. CASE m.time > db[m.id.head].time
    <3>1. t(At("correlate", db)) = At("update", db)
          /\ t(At("update", db)) = At("store", Updated(db, m))
      BY <1>6, <2>2, Transitions
    <3>2. t(t(t(t(t(At("decode", db)))))) = At("done", Updated(db, m))
      BY <1>2, <1>3, <2>1, <3>1, Zenon
    <3>3. T3Receive(m, db) = Updated(db, m)
      BY <1>6, <2>2 DEF T3Receive
    <3> QED
      BY <1>1, <3>2, <3>3, LoopUnrolled, Zenon
  <2>3. CASE ~(m.time > db[m.id.head].time)
    <3>1. t(At("correlate", db)) = At("dup_resolve", db)
          /\ t(At("dup_resolve", db)) = At("store", db)
      BY <1>6, <2>3, Transitions
    <3>2. t(t(t(t(t(At("decode", db)))))) = At("done", db)
      BY <1>2, <1>3, <2>1, <3>1, Zenon
    <3>3. T3Receive(m, db) = db
      BY <1>6, <2>3 DEF T3Receive
    <3> QED
      BY <1>1, <3>2, <3>3, LoopUnrolled, Zenon
  <2> QED
    BY <2>2, <2>3
<1> QED
  BY <1>4, <1>5, <1>6

(* Entries of the baselines' databases. *)
EntryOf(time, ttl, version) == [time |-> time, ttl |-> ttl, version |-> version]

(* An entry of a baseline differs from none, and has the fields given to it. *)
LEMMA BaselineEntries ==
  ASSUME NEW t \in Nat, NEW l \in Nat, NEW v \in Nat \ {0}
  PROVE  /\ EntryOf(t, l, v) \in [time : Nat, ttl : Nat, version : Nat \ {0}]
         /\ EntryOf(t, l, v) # NoEntry
         /\ EntryOf(t, l, v).time = t /\ EntryOf(t, l, v).ttl = l
         /\ EntryOf(t, l, v).version = v
<1>1. EntryOf(t, l, v).version = v /\ NoEntry.version = 0
  BY DEF EntryOf, NoEntry
<1> QED
  BY <1>1 DEF EntryOf

(* What T3Receive does to a database. *)
LEMMA BaselineReceives ==
  ASSUME NEW db \in Databases, NEW m, NEW id \in Heads, m.id.head = id, NEW t \in Nat,
         m.time = t
  PROVE  /\ T3Receive(m, db) \in Databases
         /\ \A x \in Heads : x # id => T3Receive(m, db)[x] = db[x]
         /\ ~Refused(m) =>
              /\ db[id] = NoEntry => T3Receive(m, db)[id] = EntryOf(t, DefaultTTL, 1)
              /\ db[id] # NoEntry /\ t > db[id].time =>
                   T3Receive(m, db)[id] = EntryOf(t, db[id].ttl, db[id].version + 1)
              /\ db[id] # NoEntry /\ ~(t > db[id].time) => T3Receive(m, db)[id] = db[id]
<1> DEFINE full == [time : Nat, ttl : Nat, version : Nat \ {0}]
<1>1. db \in [Heads -> full \union {NoEntry}]
  BY DEF Databases
<1>2. DefaultTTL \in Nat
  BY PartsAssumption
<1>3. /\ Created(db, m) \in Databases
      /\ \A x \in Heads : x # id => Created(db, m)[x] = db[x]
      /\ Created(db, m)[id] = EntryOf(t, DefaultTTL, 1)
  <2>1. EntryOf(t, DefaultTTL, 1) \in full
    BY <1>2, BaselineEntries
  <2>2. Created(db, m) = [db EXCEPT ![id] = EntryOf(t, DefaultTTL, 1)]
    BY DEF Created, EntryOf
  <2> HIDE DEF full
  <2>3. Created(db, m) \in [Heads -> full \union {NoEntry}]
    BY <1>1, <2>1, <2>2
  <2> QED
    BY <1>1, <2>2, <2>3 DEF Databases, full
<1>4. ASSUME db[id] # NoEntry
      PROVE  /\ Updated(db, m) \in Databases
             /\ \A x \in Heads : x # id => Updated(db, m)[x] = db[x]
             /\ Updated(db, m)[id] = EntryOf(t, db[id].ttl, db[id].version + 1)
  <2>1. PICK e \in full : e = db[id]
    BY <1>1, <1>4
  <2>2. EntryOf(t, e.ttl, e.version + 1) \in full
    <3>1. e.ttl \in Nat /\ e.version + 1 \in Nat \ {0}
      BY <2>1
    <3> QED
      BY <3>1, BaselineEntries, Zenon
  <2>3. Updated(db, m) = [db EXCEPT ![id] = EntryOf(t, e.ttl, e.version + 1)]
    <3>1. Updated(db, m) = [[db EXCEPT ![id].time = t] EXCEPT ![id].version = @ + 1]
      BY DEF Updated
    <3>2. [e EXCEPT !.time = t] = EntryOf(t, e.ttl, e.version)
      BY <2>1 DEF EntryOf
    <3>3. [EntryOf(t, e.ttl, e.version) EXCEPT !.version = @ + 1]
            = EntryOf(t, e.ttl, e.version + 1)
      BY DEF EntryOf
    <3> HIDE DEF full
    <3>4. [db EXCEPT ![id].time = t] = [db EXCEPT ![id] = EntryOf(t, e.ttl, e.version)]
      BY <1>1, <2>1, <3>2
    <3>5. \A f, x : f \in [Heads -> full \union {NoEntry}] =>
            [f EXCEPT ![id] = x][id] = x /\ \A y : [[f EXCEPT ![id] = x] EXCEPT ![id] = y] = [f EXCEPT ![id] = y]
      OBVIOUS
    <3>6. [[db EXCEPT ![id] = EntryOf(t, e.ttl, e.version)] EXCEPT ![id].version = @ + 1]
            = [[db EXCEPT ![id] = EntryOf(t, e.ttl, e.version)] EXCEPT
                 ![id] = EntryOf(t, e.ttl, e.version + 1)]
      BY <1>1, <3>3, <3>5
    <3>7. Updated(db, m) = [[db EXCEPT ![id] = EntryOf(t, e.ttl, e.version)] EXCEPT
                              ![id] = EntryOf(t, e.ttl, e.version + 1)]
      BY <3>1, <3>4, <3>6, Zenon
    <3> QED
      BY <1>1, <3>5, <3>7, Zenon
  <2> HIDE DEF full
  <2>4. Updated(db, m) \in [Heads -> full \union {NoEntry}]
    BY <1>1, <2>2, <2>3
  <2> QED
    BY <1>1, <2>1, <2>3, <2>4 DEF Databases, full
<1>5. CASE Refused(m)
  BY <1>5 DEF T3Receive
<1>6. CASE ~Refused(m) /\ db[id] = NoEntry
  <2>1. T3Receive(m, db) = Created(db, m)
    BY <1>6 DEF T3Receive
  <2> QED
    BY <1>3, <1>6, <2>1
<1>7. CASE ~Refused(m) /\ db[id] # NoEntry
  <2>1. T3Receive(m, db) = IF t > db[id].time THEN Updated(db, m) ELSE db
    BY <1>7 DEF T3Receive
  <2> QED
    BY <1>4, <1>7, <2>1
<1> QED
  BY <1>5, <1>6, <1>7

(* What T4Clear does. *)
LEMMA BaselineClears ==
  ASSUME NEW db \in Databases, NEW n \in Nat, now = n
  PROVE  /\ T4Clear(db) \in Databases
         /\ \A id \in Heads :
              /\ db[id] = NoEntry => T4Clear(db)[id] = NoEntry
              /\ db[id] # NoEntry /\ n - db[id].time > db[id].ttl => T4Clear(db)[id] = NoEntry
              /\ db[id] # NoEntry /\ ~(n - db[id].time > db[id].ttl) => T4Clear(db)[id] = db[id]
<1> DEFINE full == [time : Nat, ttl : Nat, version : Nat \ {0}]
<1>1. db \in [Heads -> full \union {NoEntry}]
  BY DEF Databases
<1> HIDE DEF full
<1>2. T4Clear(db) \in [Heads -> full \union {NoEntry}]
  BY <1>1 DEF T4Clear
<1>3. T4Clear(db) \in Databases
  BY <1>2 DEF Databases, full
<1> QED
  BY <1>3 DEF T4Clear

-----------------------------------------------------------------------------
(***************************************************************************)
(* The receiver.                                                           *)
(***************************************************************************)

(* What the invariant says of the receiver. *)
LEMMA ReceiverParts ==
  ASSUME RxP!TracksInv
  PROVE  /\ RxP!TypeOK /\ RxP!DbOK /\ now \in Nat
         /\ stage \in [{Receiver} -> {"idle", "receive", "clear"}]
         /\ step \in [{Receiver} -> Nat]
         /\ DOMAIN job = {Receiver} /\ DOMAIN outcome = {Receiver}
         /\ tracks \in [Heads -> Nat]
         /\ stage[Receiver] = "receive" => job[Receiver] \in Heard /\ step[Receiver] \in 1..7
         /\ stage[Receiver] = "clear" => RxP!Clearing(Receiver)
<1> USE ReceiverFits DEF ReceiverFit
<1>1. /\ RxP!TypeOK /\ RxP!DbOK /\ RxP!WorkTypes
      /\ \A w \in {Receiver} : RxP!RunOK(w) /\ RxP!RunInv(w)
  BY RxP!InvParts
<1>2. tracks \in [Heads -> Nat]
  <2>1. Len(entries) \in Nat
    BY <1>1, LenProperties DEF RxP!DbOK
  <2> QED
    BY <1>1, <2>1 DEF RxP!DbOK
<1>3. stage[Receiver] = "receive" => step[Receiver] \in 1..7
  <2>1. kind \in {"J2.2"}
    BY <1>1 DEF RxP!TypeOK
  <2>2. RxP!TypeOK /\ stage[Receiver] = "receive" => step[Receiver] \in 1..7
    BY <2>1, RxP!StepLimits DEF RxP!TypeOK
  <2> QED
    BY <1>1, <2>2
<1> QED
  BY <1>1, <1>2, <1>3 DEF RxP!DbOK, RxP!WorkTypes, RxP!RunOK, RxP!RunInv

(* A track that is there has an entry. *)
LEMMA RoutedEntry ==
  ASSUME RxP!TracksInv, NEW id \in Heads
  PROVE  /\ tracks[id] = 0 => Routed(id) = NoEntry
         /\ tracks[id] # 0 =>
              /\ Rx!Entry(id).time \in Nat /\ Rx!Entry(id).ttl \in Nat
              /\ Rx!Entry(id).version \in Nat \ {0}
              /\ Routed(id) = EntryOf(Rx!Entry(id).time, Rx!Entry(id).ttl, Rx!Entry(id).version)
              /\ Routed(id) # NoEntry
              /\ Routed(id).time = Rx!Entry(id).time /\ Routed(id).ttl = Rx!Entry(id).ttl
              /\ Routed(id).version = Rx!Entry(id).version
<1> USE ReceiverFits DEF ReceiverFit
<1>1. tracks[id] = 0 => Routed(id) = NoEntry
  BY DEF Routed
<1>2. ASSUME tracks[id] # 0
      PROVE  LET e == Rx!Entry(id)
             IN /\ e.time \in Nat /\ e.ttl \in Nat /\ e.version \in Nat \ {0}
                /\ Routed(id) = EntryOf(e.time, e.ttl, e.version)
                /\ Routed(id) # NoEntry
                /\ Routed(id).time = e.time /\ Routed(id).ttl = e.ttl
                /\ Routed(id).version = e.version
  <2>1. RxP!DbOK /\ tracks[id] \in 1..Len(entries)
    <3>1. RxP!DbOK
      BY RxP!InvParts
    <3>2. Len(entries) \in Nat /\ tracks[id] \in 0..Len(entries)
      BY <3>1, LenProperties DEF RxP!DbOK
    <3> QED
      BY <1>2, <3>1, <3>2
  <2>2. PICK e : e = Rx!Entry(id)
    OBVIOUS
  <2>3. e.time \in Nat /\ e.ttl \in Nat /\ e.version \in Nat \ {0}
    BY <2>1, <2>2, RxP!EntryThere DEF Rx!Entry
  <2>4. Routed(id) = EntryOf(e.time, e.ttl, e.version)
    BY <1>2, <2>2 DEF Routed, EntryOf
  <2> HIDE ReceiverFits DEF ReceiverFit
  <2> DEFINE t == e.time
             l == e.ttl
             v == e.version
  <2>5. /\ EntryOf(t, l, v) # NoEntry
        /\ EntryOf(t, l, v).time = t /\ EntryOf(t, l, v).ttl = l
        /\ EntryOf(t, l, v).version = v
    <3>1. t \in Nat /\ l \in Nat /\ v \in Nat \ {0}
      BY <2>3
    <3> HIDE DEF t, l, v
    <3> QED
      BY <3>1, BaselineEntries
  <2> QED
    BY <2>2, <2>3, <2>4, <2>5, Zenon
<1> QED
  BY <1>1, <1>2, Zenon

(* What is the same of a track when its entry is. *)
LEMMA SameLooks ==
  ASSUME NEW id \in Heads, RxP!Same(id)
  PROVE  /\ tracks'[id] = tracks[id]
         /\ tracks[id] # 0 => /\ Rx!Entry(id)'.time = Rx!Entry(id).time
                              /\ Rx!Entry(id)'.version = Rx!Entry(id).version
         /\ Routed(id)' = Routed(id)
         /\ \A t : Received(id, t)' = Received(id, t)
         /\ Written(id) <=> tracks[id] = 0
<1>1. /\ tracks'[id] = tracks[id]
      /\ tracks[id] # 0 => /\ Rx!Entry(id)'.time = Rx!Entry(id).time
                           /\ Rx!Entry(id)'.ttl = Rx!Entry(id).ttl
                           /\ Rx!Entry(id)'.version = Rx!Entry(id).version
  BY RxDatabase DEF RxP!Same, RxP!Entry, Rx!Entry
<1>2. Routed(id)' = Routed(id)
  BY <1>1 DEF Routed
<1>3. \A t : Received(id, t)' = Received(id, t)
  BY <1>1, <1>2 DEF Received
<1>4. Written(id) <=> tracks[id] = 0
  BY <1>1 DEF Written, Rx!Entry
<1> QED
  BY <1>1, <1>2, <1>3, <1>4

(* What a write makes of a track. *)
LEMMA WrittenLooks ==
  ASSUME NEW id \in Heads, NEW t, NEW l, NEW v, RxP!Writes(id, t, l, v)
  PROVE  /\ tracks'[id] # 0 /\ Rx!Entry(id)'.time = t
         /\ Routed(id)' = EntryOf(t, l, v)
         /\ tracks[id] # 0 /\ v # Rx!Entry(id).version => Written(id)
<1>1. /\ tracks'[id] # 0
      /\ Rx!Entry(id)'.time = t /\ Rx!Entry(id)'.ttl = l /\ Rx!Entry(id)'.version = v
  BY DEF RxP!Writes, Rx!Entry
<1> QED
  BY <1>1 DEF Routed, EntryOf, Written, Rx!Entry

(* What a node of the receiver leaves of its run. *)
LEMMA RunGoesOn ==
  ASSUME RxP!TracksInv
  PROVE  /\ \A i : RxP!MovesTo(Receiver, i) =>
              /\ step'[Receiver] = i /\ UNCHANGED <<stage, job, outcome>>
         /\ \A r : RxP!Ends(Receiver, r) =>
              stage'[Receiver] = "idle" /\ outcome'[Receiver] = r
<1>1. Receiver \in DOMAIN step /\ Receiver \in DOMAIN stage /\ Receiver \in DOMAIN outcome
  BY ReceiverParts
<1>2. \A i : RxP!MovesTo(Receiver, i) =>
        step'[Receiver] = i /\ UNCHANGED <<stage, job, outcome>>
  BY <1>1 DEF RxP!MovesTo
<1>3. \A r : RxP!Ends(Receiver, r) => stage'[Receiver] = "idle" /\ outcome'[Receiver] = r
  BY <1>1 DEF RxP!Ends, RxP!Return
<1> QED
  BY <1>2, <1>3

-----------------------------------------------------------------------------
(***************************************************************************)
(* Every step keeps the invariant.                                         *)
(***************************************************************************)

(* The part of the invariant that the receiver's steps are about. *)
ReceiverInv == InHand /\ Origins /\ Twins

(* A step of neither the receiver nor the database. *)
LEMMA QuietKeeps ==
  ASSUME ReceiverInv,
         UNCHANGED <<entries, tracks, stage, step, job, outcome, current, origin, offered,
                     twins, parted>>
  PROVE  ReceiverInv'
<1>1. \A id \in Heads : /\ Routed(id)' = Routed(id) /\ (Pending(id)' <=> Pending(id))
                        /\ Received(id, job[Receiver].time)' = Received(id, job[Receiver].time)
                        /\ (Origin(id)' <=> Origin(id))
  BY DEF Routed, Pending, Received, Origin, Rx!Entry
<1>2. InHand'
  BY DEF ReceiverInv, InHand, Rx!Entry
<1>3. Origins'
  BY <1>1 DEF ReceiverInv, Origins
<1>4. Twins'
  BY <1>1 DEF ReceiverInv, Twins
<1> QED
  BY <1>2, <1>3, <1>4 DEF ReceiverInv

(* A run that starts: nothing else changes. *)
LEMMA StartDoes ==
  ASSUME RxP!TracksInv, NEW s, NEW token, Rx!Start(Receiver, s, token)
  PROVE  /\ stage[Receiver] = "idle" /\ stage'[Receiver] = s /\ step'[Receiver] = 1
         /\ job'[Receiver] = token /\ outcome'[Receiver] = "none"
         /\ UNCHANGED <<now, entries, tracks>>
<1>1. Receiver \in DOMAIN step /\ Receiver \in DOMAIN stage /\ Receiver \in DOMAIN outcome
      /\ Receiver \in DOMAIN job
  BY ReceiverParts
<1> QED
  BY <1>1 DEF Rx!Start, Rx!dbVars

(* The database looks the same while nothing is written. *)
LEMMA NothingWritten ==
  ASSUME UNCHANGED <<entries, tracks>>, NEW id
  PROVE  /\ Routed(id)' = Routed(id) /\ Rx!Entry(id)' = Rx!Entry(id)
         /\ \A t : Received(id, t)' = Received(id, t)
BY DEF Routed, Received, Rx!Entry

(* A bulk clear starts with nothing in hand. *)
LEMMA StartClearKeeps ==
  ASSUME RxP!TracksInv, ReceiverInv, StartClear
  PROVE  ReceiverInv'
<1>1. /\ stage[Receiver] = "idle" /\ stage'[Receiver] = "clear"
      /\ job'[Receiver] = [id |-> AllTracks] /\ UNCHANGED <<entries, tracks>>
  BY StartDoes DEF StartClear, Rx!StartClear
<1>2. UNCHANGED <<current, origin, offered, twins, parted>>
  BY DEF StartClear, ghosts
<1>3. \A id \in Heads : Routed(id)' = Routed(id) /\ Rx!Entry(id)' = Rx!Entry(id)
  BY <1>1, NothingWritten
<1>4. InHand'
  BY <1>1, <1>2 DEF ReceiverInv, InHand
<1>5. Origins'
  BY <1>1, <1>2, <1>3 DEF ReceiverInv, Origins, Origin
<1>6. Twins'
  <2>1. \A id \in Heads : ~Pending(id) /\ ~Pending(id)'
    BY <1>1 DEF Pending
  <2> QED
    BY <1>2, <1>3, <2>1 DEF ReceiverInv, Twins
<1> QED
  BY <1>4, <1>5, <1>6 DEF ReceiverInv

(* SetTTL sets the limit in every database. *)
LEMMA SetTTLKeeps ==
  ASSUME RxP!TracksInv, ReceiverInv, NEW id \in Heads, NEW ttl \in TTLs, SetTTL(id, ttl)
  PROVE  ReceiverInv'
<1> USE ReceiverFits DEF ReceiverFit
<1>1. /\ tracks[id] # 0 /\ UNCHANGED <<now, tracks>> /\ stage[Receiver] = "idle"
      /\ entries' = [entries EXCEPT ![tracks[id]].ttl = ttl]
      /\ UNCHANGED <<stage, step, job, outcome, current, origin, offered, parted>>
  BY DEF SetTTL, Rx!SetTTL, Rx!workVars, ghosts, Idle
<1>2. ttl \in Nat
  BY PartsAssumption
<1>3. RxP!DbOK
  BY ReceiverParts
<1>4. /\ \A x \in Heads : x # id => RxP!Same(x)
      /\ RxP!Entry(id)'.time = RxP!Entry(id).time /\ RxP!Entry(id)'.ttl = ttl
      /\ RxP!Entry(id)'.version = RxP!Entry(id).version
  BY <1>1, <1>2, <1>3, RxP!TTLChanges
<1> HIDE ReceiverFits DEF ReceiverFit
<1>5. /\ Rx!Entry(id)'.time = Rx!Entry(id).time /\ Rx!Entry(id)'.ttl = ttl
      /\ Rx!Entry(id)'.version = Rx!Entry(id).version
  BY <1>4 DEF Rx!Entry, RxP!Entry
<1>6. /\ \A x \in Heads : tracks[x] # 0 => Rx!Entry(x)'.time = Rx!Entry(x).time
      /\ \A x \in Heads : x # id => Routed(x)' = Routed(x)
      /\ Routed(id)' = EntryOf(Rx!Entry(id).time, ttl, Rx!Entry(id).version)
  BY <1>1, <1>4, <1>5, SameLooks DEF Routed, EntryOf
<1>7. InHand'
  BY <1>1 DEF ReceiverInv, InHand
<1>8. Origins'
  BY <1>1, <1>6 DEF ReceiverInv, Origins, Origin
<1>9. \A x \in Heads : ~Pending(x) /\ ~Pending(x)'
  BY <1>1 DEF Pending
<1>10. Twins'
  <2>1. PICK db \in Databases : /\ db = twins["T3Receive"] /\ DOMAIN twins = Baselines
                                /\ db = twins["T3StateMachineReceive"]
    BY DEF ReceiverInv, Twins
  <2>2. PICK new : new = IF db[id] = NoEntry THEN db ELSE [db EXCEPT ![id].ttl = ttl]
    OBVIOUS
  <2>3. twins' = [b \in Baselines |-> new]
    BY <2>1, <2>2 DEF SetTTL, Baselines
  <2>4. new \in Databases /\ \A x \in Heads : x # id => new[x] = db[x]
    <3> DEFINE full == [time : Nat, ttl : Nat, version : Nat \ {0}]
    <3>1. db \in [Heads -> full \union {NoEntry}]
      BY DEF Databases
    <3>2. db[id] # NoEntry => [db[id] EXCEPT !.ttl = ttl] \in full
      BY <1>2, <3>1
    <3> HIDE DEF full
    <3>3. new \in [Heads -> full \union {NoEntry}]
      BY <2>2, <3>1, <3>2
    <3> QED
      BY <2>2, <3>1, <3>3 DEF Databases, full
  <2>5. id \notin parted => new[id] = EntryOf(Rx!Entry(id).time, ttl, Rx!Entry(id).version)
    <3>1. SUFFICES ASSUME id \notin parted
                   PROVE  new[id] = EntryOf(Rx!Entry(id).time, ttl, Rx!Entry(id).version)
      OBVIOUS
    <3>2. db[id] = Routed(id)
      BY <1>9, <2>1, <3>1 DEF ReceiverInv, Twins
    <3>3. /\ db[id] # NoEntry
          /\ db[id] = EntryOf(Rx!Entry(id).time, Rx!Entry(id).ttl, Rx!Entry(id).version)
      BY <1>1, <3>2, RoutedEntry
    <3>4. new[id] = [db[id] EXCEPT !.ttl = ttl]
      <4>1. DOMAIN db = Heads
        BY DEF Databases
      <4> QED
        BY <2>2, <3>3, <4>1
    <3>5. \A t, l, v : [EntryOf(t, l, v) EXCEPT !.ttl = ttl] = EntryOf(t, ttl, v)
      BY DEF EntryOf
    <3> QED
      BY <3>3, <3>4, <3>5
  <2>6. \A x \in Heads \ parted : new[x] = Routed(x)'
    <3>1. \A x \in Heads \ parted : db[x] = Routed(x)
      BY <1>9, <2>1 DEF ReceiverInv, Twins
    <3> QED
      BY <1>6, <2>4, <2>5, <3>1
  <2>7. parted' = parted /\ parted \subseteq Heads
    BY <1>1 DEF ReceiverInv, Twins
  <2> QED
    BY <1>9, <2>3, <2>4, <2>6, <2>7 DEF Twins, Baselines
<1> QED
  BY <1>7, <1>8, <1>10 DEF ReceiverInv

(* What there is to know of the delivery of a payload p of the message s. *)
Delivery(s, p) ==
  /\ Rx!StartReceive(Receiver, Receipt(p)) /\ Receipt(p) \in Heard
  /\ current'.sent = s /\ current'.intact \in BOOLEAN
  /\ ~Tx!Rejects(p) => current'.intact
  /\ Receipt(p).id = s.id.head /\ Receipt(p).time = Second(s)
  /\ Receipt(p).time \in Nat /\ s.id.head \in Heads
  /\ Receipt(p).decodes <=> ~Tx!Rejects(p)
  /\ Tx!DecodeJ22(p).id.head = s.id.head /\ Tx!DecodeJ22(p).time = Second(s)
  /\ \/ Tx!Rejects(p) /\ UNCHANGED <<twins, parted>>
     \/ /\ ~Tx!Rejects(p)
        /\ twins' = [T3Receive |-> T3Receive(Tx!DecodeJ22(p), twins["T3Receive"]),
                     T3StateMachineReceive |->
                       T3StateMachineReceive(Tx!DecodeJ22(p), twins["T3StateMachineReceive"])]
        /\ parted' = IF Refused(Tx!DecodeJ22(p))
                     THEN parted \union {Tx!DecodeJ22(p).id.head} ELSE parted

(* Every delivery is one of a message T1 has prepared. *)
LEMMA Delivered ==
  ASSUME RxP!TracksInv, Wire, Deliver
  PROVE  \E s \in Sendable : \E p : Delivery(s, p)
<1>1. PICK item \in wire : \E p \in Copies(item.payload) :
        /\ Rx!StartReceive(Receiver, Receipt(p))
        /\ current' = [sent |-> item.sent, intact |-> p = item.payload]
        /\ \/ Tx!Rejects(p) /\ UNCHANGED <<twins, parted>>
           \/ /\ ~Tx!Rejects(p)
              /\ twins' = [T3Receive |-> T3Receive(Tx!DecodeJ22(p), twins["T3Receive"]),
                           T3StateMachineReceive |->
                             T3StateMachineReceive(Tx!DecodeJ22(p),
                                                   twins["T3StateMachineReceive"])]
              /\ parted' = IF Refused(Tx!DecodeJ22(p))
                           THEN parted \union {Tx!DecodeJ22(p).id.head} ELSE parted
  BY Zenon DEF Deliver
<1>0. PICK p \in Copies(item.payload) :
        /\ Rx!StartReceive(Receiver, Receipt(p))
        /\ current' = [sent |-> item.sent, intact |-> p = item.payload]
        /\ \/ Tx!Rejects(p) /\ UNCHANGED <<twins, parted>>
           \/ /\ ~Tx!Rejects(p)
              /\ twins' = [T3Receive |-> T3Receive(Tx!DecodeJ22(p), twins["T3Receive"]),
                           T3StateMachineReceive |->
                             T3StateMachineReceive(Tx!DecodeJ22(p),
                                                   twins["T3StateMachineReceive"])]
              /\ parted' = IF Refused(Tx!DecodeJ22(p))
                           THEN parted \union {Tx!DecodeJ22(p).id.head} ELSE parted
  BY <1>1, Zenon
<1>2. PICK s \in Sendable : s = item.sent /\ item.payload = Tx!EncodeJ22(s)
  BY DEF Wire
<1>3. /\ s.id.head \in Heads /\ s.time \in 0..MaxNow
  BY DEF Sendable, Tx!MessageTypes
<1>4. /\ ~Tx!Rejects(p) => p = Tx!EncodeJ22(s)
      /\ Receipt(p).id = s.id.head
      /\ Receipt(p).time = Tx!Unix(s.time) * TicksPerSecond
      /\ Receipt(p).decodes = ~Tx!Rejects(p)
      /\ Receipt(p).hint = "auto"
      /\ Tx!DecodeJ22(p).id.head = s.id.head
      /\ Tx!DecodeJ22(p).time = Tx!Unix(s.time) * TicksPerSecond
  BY <1>2, WhatArrives
<1>5. /\ Tx!Unix(s.time) \in 0..(MaxNow \div TicksPerSecond)
      /\ Tx!Unix(s.time) * TicksPerSecond = Second(s) /\ Second(s) \in Nat
  <2>1. \A d \in Nat \ {0}, n \in Nat : \A t \in 0..n : t \div d \in 0..(n \div d)
    <3>1. \A d \in Nat \ {0}, n \in Nat : \A t \in 0..n : t \div d \in Nat /\ n \div d \in Nat
      BY SMT
    <3>2. \A d \in Nat \ {0}, n \in Nat : \A t \in 0..n : t \div d <= n \div d
      BY SMT
    <3> QED
      BY <3>1, <3>2
  <2>2. TicksPerSecond \in Nat \ {0} /\ MaxNow \in Nat
    BY PartsAssumption
  <2>3. Tx!Unix(s.time) \in 0..(MaxNow \div TicksPerSecond)
    BY <1>3, <2>1, <2>2 DEF Tx!Unix
  <2>4. \A a, b \in Nat : a * b = b * a /\ b * a \in Nat
    BY SMT
  <2>5. Tx!Unix(s.time) \in Nat
    BY <1>3, Times
  <2> QED
    BY <2>2, <2>3, <2>4, <2>5 DEF Second
<1>6. Receipt(p) \in Heard
  <2>1. Receipt(p) = [id |-> Receipt(p).id, time |-> Receipt(p).time,
                      decodes |-> Receipt(p).decodes, hint |-> Receipt(p).hint]
    BY DEF Receipt
  <2>2. Receipt(p).decodes \in BOOLEAN
    BY <1>4
  <2>3. Receipt(p).time \in {TicksPerSecond * n : n \in 0..(MaxNow \div TicksPerSecond)}
    BY <1>4, <1>5 DEF Second
  <2>4. Receipt(p).id \in Heads /\ Receipt(p).hint = "auto"
    BY <1>3, <1>4
  <2> DEFINE a == Receipt(p).id
             b == Receipt(p).time
             c == Receipt(p).decodes
             d == Receipt(p).hint
             times == {TicksPerSecond * n : n \in 0..(MaxNow \div TicksPerSecond)}
  <2>5. a \in Heads /\ b \in times /\ c \in BOOLEAN /\ d \in {"auto"}
    BY <2>2, <2>3, <2>4
  <2>6. Heard = [id : Heads, time : times, decodes : BOOLEAN, hint : {"auto"}]
    BY DEF Heard
  <2>7. Receipt(p) = [id |-> a, time |-> b, decodes |-> c, hint |-> d]
    BY <2>1
  <2> HIDE DEF a, b, c, d, times
  <2> QED
    BY <2>5, <2>6, <2>7
<1>7. /\ current'.sent = s /\ current'.intact = (p = item.payload)
  BY <1>0, <1>2
<1>8. current'.intact \in BOOLEAN /\ (~Tx!Rejects(p) => current'.intact)
  BY <1>2, <1>4, <1>7
<1>9. Receipt(p).decodes <=> ~Tx!Rejects(p)
  BY <1>4, Zenon
<1>10. Receipt(p).time = Second(s) /\ Tx!DecodeJ22(p).time = Second(s)
  BY <1>4, <1>5
<1>11. Delivery(s, p)
  BY <1>0, <1>3, <1>4, <1>5, <1>6, <1>7, <1>8, <1>9, <1>10, Zenon DEF Delivery
<1> QED
  BY <1>11, Zenon

(* A payload is received, and its message by the baselines at once. *)
LEMMA DeliverKeeps ==
  ASSUME RxP!TracksInv, Wire, ReceiverInv, Deliver
  PROVE  ReceiverInv'
<1>0. PICK s \in Sendable : \E p : Delivery(s, p)
  BY Delivered, Zenon
<1>1. PICK p : Delivery(s, p)
  BY <1>0, Zenon
<1> USE DEF Delivery
<1>2. PICK m : m = Receipt(p)
  OBVIOUS
<1>3. /\ stage[Receiver] = "idle" /\ stage'[Receiver] = "receive" /\ step'[Receiver] = 1
      /\ job'[Receiver] = m /\ outcome'[Receiver] = "none"
      /\ UNCHANGED <<entries, tracks>>
  BY <1>1, <1>2, StartDoes DEF Rx!StartReceive
<1>4. UNCHANGED <<origin, offered>>
  BY DEF Deliver
<1>5. \A id \in Heads : /\ Routed(id)' = Routed(id) /\ Rx!Entry(id)' = Rx!Entry(id)
                        /\ \A t : Received(id, t)' = Received(id, t)
  BY <1>3, NothingWritten
<1>6. InHand'
  BY <1>1, <1>2, <1>3 DEF InHand, Second
<1>7. Origins'
  BY <1>3, <1>4, <1>5 DEF ReceiverInv, Origins, Origin
<1>8. PICK db \in Databases : /\ db = twins["T3Receive"] /\ DOMAIN twins = Baselines
                              /\ db = twins["T3StateMachineReceive"]
  BY DEF ReceiverInv, Twins
<1>9. parted \subseteq Heads /\ \A id \in Heads \ parted : db[id] = Routed(id)
  <2>1. \A id \in Heads : ~Pending(id)
    BY <1>3 DEF Pending
  <2> QED
    BY <1>8, <2>1 DEF ReceiverInv, Twins
<1>10. \A id \in Heads : Pending(id)' <=> id = m.id /\ m.decodes
  BY <1>3 DEF Pending
<1>11. CASE Tx!Rejects(p)
  <2>1. \A id \in Heads : ~Pending(id)'
    BY <1>1, <1>2, <1>10, <1>11
  <2>2. UNCHANGED <<twins, parted>>
    BY <1>1, <1>11
  <2>3. Twins'
    BY <1>5, <1>8, <1>9, <2>1, <2>2 DEF Twins
  <2> QED
    BY <1>6, <1>7, <2>3 DEF ReceiverInv
<1>12. CASE ~Tx!Rejects(p)
  <2>0. PICK d : d = Tx!DecodeJ22(p)
    OBVIOUS
  <2>1. PICK id \in Heads, t \in Nat :
          id = d.id.head /\ t = d.time /\ id = m.id /\ t = m.time
    BY <1>1, <1>2, <2>0
  <2>2. PICK new : new = T3Receive(d, db)
    OBVIOUS
  <2>3. T3StateMachineReceive(d, db) = new
    BY <2>2, MachineAgrees
  <2>4. /\ twins' = [T3Receive |-> new, T3StateMachineReceive |-> new]
        /\ parted' = IF Refused(d) THEN parted \union {id} ELSE parted
    BY <1>1, <1>8, <1>12, <2>0, <2>1, <2>2, <2>3
  <2>5. /\ new \in Databases
        /\ \A x \in Heads : x # id => new[x] = db[x]
        /\ ~Refused(d) =>
              /\ db[id] = NoEntry => new[id] = EntryOf(t, DefaultTTL, 1)
              /\ db[id] # NoEntry /\ t > db[id].time =>
                   new[id] = EntryOf(t, db[id].ttl, db[id].version + 1)
              /\ db[id] # NoEntry /\ ~(t > db[id].time) => new[id] = db[id]
    <3>1. d.id.head = id /\ d.time = t
      BY <2>1, Zenon
    <3>2. /\ T3Receive(d, db) \in Databases
          /\ \A x \in Heads : x # id => T3Receive(d, db)[x] = db[x]
          /\ ~Refused(d) =>
                /\ db[id] = NoEntry => T3Receive(d, db)[id] = EntryOf(t, DefaultTTL, 1)
                /\ db[id] # NoEntry /\ t > db[id].time =>
                     T3Receive(d, db)[id] = EntryOf(t, db[id].ttl, db[id].version + 1)
                /\ db[id] # NoEntry /\ ~(t > db[id].time) => T3Receive(d, db)[id] = db[id]
      BY <3>1, BaselineReceives
    <3> QED
      BY <2>2, <3>2, Zenon
  <2>6. ~Refused(d) /\ id \notin parted => new[id] = Received(id, t)
    <3>1. SUFFICES ASSUME ~Refused(d), id \notin parted PROVE new[id] = Received(id, t)
      OBVIOUS
    <3>2. db[id] = Routed(id)
      BY <1>9, <3>1
    <3>3. CASE tracks[id] = 0
      BY <2>5, <3>1, <3>2, <3>3, RoutedEntry DEF Received, EntryOf
    <3>4. CASE tracks[id] # 0
      <4>1. /\ db[id] # NoEntry /\ db[id].time = Rx!Entry(id).time
            /\ db[id].ttl = Rx!Entry(id).ttl /\ db[id].version = Rx!Entry(id).version
        BY <3>2, <3>4, RoutedEntry
      <4>2. CASE t > Rx!Entry(id).time
        <5>1. new[id] = EntryOf(t, Rx!Entry(id).ttl, Rx!Entry(id).version + 1)
          BY <2>5, <3>1, <4>1, <4>2
        <5> QED
          BY <3>4, <4>2, <5>1 DEF Received, EntryOf
      <4>3. CASE ~(t > Rx!Entry(id).time)
        <5>1. new[id] = Routed(id)
          BY <2>5, <3>1, <3>2, <4>1, <4>3
        <5> QED
          BY <3>4, <4>3, <5>1 DEF Received
      <4> QED
        BY <4>2, <4>3
    <3> QED
      BY <3>3, <3>4
  <2>7. m.decodes
    BY <1>1, <1>2, <1>12
  <2>8. \A x \in Heads \ parted' :
          new[x] = IF Pending(x)' THEN Received(x, m.time)' ELSE Routed(x)'
    BY <1>5, <1>9, <1>10, <2>1, <2>4, <2>5, <2>6, <2>7
  <2>9. Twins'
    BY <1>3, <1>9, <2>4, <2>5, <2>8 DEF Twins, Baselines
  <2> QED
    BY <1>6, <1>7, <2>9 DEF ReceiverInv
<1> QED
  BY <1>11, <1>12

(* What a node leaves of a track's history. *)
LEMMA Noted ==
  ASSUME Note, NEW id \in Heads
  PROVE  /\ origin'[id] = IF tracks'[id] = 0 THEN Nobody
                          ELSE IF Written(id) THEN current ELSE origin[id]
         /\ offered'[id] = IF tracks'[id] = 0 THEN {}
                           ELSE IF job[Receiver].id = id /\ outcome'[Receiver] = "completed"
                                THEN offered[id] \union {current.sent.time}
                                ELSE offered[id]
BY DEF Note

(* The history is kept for every track.                                     *)
LEMMA NotedShape ==
  ASSUME Note
  PROVE  origin' = [id \in Heads |-> origin'[id]] /\ offered' = [id \in Heads |-> offered'[id]]
BY DEF Note

(* A track that nothing is written to keeps its history, but for the time   *)
(* of a message just received.                                              *)
LEMMA UnwrittenOrigin ==
  ASSUME Note, NEW id \in Heads, RxP!Same(id), Origin(id),
         job[Receiver].id = id /\ outcome'[Receiver] = "completed" /\ tracks[id] # 0 =>
           /\ current.sent.time \in Nat
           /\ TicksPerSecond * Tx!Unix(current.sent.time) <= Rx!Entry(id).time
  PROVE  Origin(id)'
<1>1. /\ tracks'[id] = tracks[id] /\ (Written(id) <=> tracks[id] = 0)
      /\ tracks[id] # 0 => Rx!Entry(id)'.time = Rx!Entry(id).time
  BY SameLooks
<1>2. CASE tracks[id] = 0
  BY <1>1, <1>2, Noted DEF Origin
<1>3. CASE tracks[id] # 0
  <2>1. origin'[id] = origin[id]
    BY <1>1, <1>3, Noted
  <2>2. PICK t : t = current.sent.time
    OBVIOUS
  <2>3. \/ offered'[id] = offered[id]
        \/ /\ offered'[id] = offered[id] \union {t} /\ t \in Nat
           /\ TicksPerSecond * Tx!Unix(t) <= Rx!Entry(id).time
    BY <1>1, <1>3, <2>2, Noted
  <2> QED
    BY <1>1, <1>3, <2>1, <2>3 DEF Origin
<1> QED
  BY <1>2, <1>3

(* A track that is written to now stems from the message in hand. *)
LEMMA WrittenOrigin ==
  ASSUME Note, NEW id \in Heads, Origin(id), Written(id), tracks'[id] # 0,
         outcome'[Receiver] # "completed",
         current.intact = TRUE, current.sent \in Sendable, current.sent.id.head = id,
         Rx!Entry(id)'.time = Second(current.sent), Second(current.sent) \in Nat,
         tracks[id] # 0 => Rx!Entry(id).time \in Nat /\ Second(current.sent) > Rx!Entry(id).time
  PROVE  Origin(id)'
<1>1. origin'[id] = current /\ offered'[id] = offered[id]
  BY Noted
<1>2. PICK c : c = current
  OBVIOUS
<1>3. PICK e, f \in Nat : /\ tracks[id] # 0 => e = Rx!Entry(id).time /\ f > e
                          /\ f = Second(c.sent)
  BY <1>2
<1>4. \A t \in offered[id] : TicksPerSecond * Tx!Unix(t) <= f
  <2>1. SUFFICES ASSUME NEW t \in offered[id] PROVE TicksPerSecond * Tx!Unix(t) <= f
    OBVIOUS
  <2>2. tracks[id] # 0 /\ t \in Nat
    BY <2>1 DEF Origin
  <2>3. PICK s : s = TicksPerSecond * Tx!Unix(t)
    OBVIOUS
  <2>4. s \in Nat
    <3>1. Tx!Unix(t) \in Nat /\ TicksPerSecond \in Nat
      BY <2>2, Times, PartsAssumption
    <3>2. \A a, b \in Nat : a * b \in Nat
      BY SMT
    <3> QED
      BY <2>3, <3>1, <3>2
  <2>5. s <= e
    BY <1>3, <2>1, <2>2, <2>3 DEF Origin
  <2> QED
    BY <1>3, <2>2, <2>3, <2>4, <2>5
<1>5. c.intact = TRUE /\ c.sent \in Sendable /\ c.sent.id.head = id /\ Rx!Entry(id)'.time = f
  BY <1>2, <1>3
<1>6. offered[id] \in SUBSET Nat /\ origin'[id] = c /\ Second(c.sent) = f
  BY <1>1, <1>2, <1>3 DEF Origin
<1> QED
  BY <1>1, <1>4, <1>5, <1>6 DEF Origin, Second

(* A node of a receive run, in the terms of the exchange. *)
LEMMA ReceiveDoes ==
  ASSUME RxP!TracksInv, RxP!Alone, ReceiverInv, ReceiveNode
  PROVE  \E m \in Heard :
           /\ m = job[Receiver] /\ m.id \in Heads /\ m.time \in Nat
           /\ \/ (\A id \in Heads : RxP!Same(id)) /\ RxP!Looks(Receiver)
              \/ /\ step[Receiver] = 4 /\ tracks[m.id] = 0 /\ RxP!MovesTo(Receiver, 7)
                 /\ RxP!Writes(m.id, m.time, DefaultTTL, 1)
              \/ /\ step[Receiver] = 5 /\ tracks[m.id] # 0 /\ RxP!MovesTo(Receiver, 7)
                 /\ m.time > Rx!Entry(m.id).time
                 /\ RxP!Writes(m.id, m.time, Rx!Entry(m.id).ttl, Rx!Entry(m.id).version + 1)
<1> USE ReceiverFits DEF ReceiverFit
<1>1. stage[Receiver] = "receive" /\ RxP!Node(Receiver)
  BY RxNodes, Zenon DEF ReceiveNode
<1>2. job[Receiver] \in Heard
  BY <1>1, ReceiverParts
<1>3. /\ \/ (\A id \in Heads : RxP!Same(id)) /\ RxP!Looks(Receiver)
         \/ /\ step[Receiver] = 4 /\ tracks[job[Receiver].id] = 0 /\ RxP!MovesTo(Receiver, 7)
            /\ RxP!Writes(job[Receiver].id, job[Receiver].time, DefaultTTL, 1)
         \/ /\ step[Receiver] = 5 /\ tracks[job[Receiver].id] # 0 /\ RxP!MovesTo(Receiver, 7)
            /\ job[Receiver].time > RxP!Entry(job[Receiver].id).time
            /\ RxP!Writes(job[Receiver].id, job[Receiver].time, RxP!Entry(job[Receiver].id).ttl,
                          RxP!Entry(job[Receiver].id).version + 1)
  <2>1. Receiver \in {Receiver}
    OBVIOUS
  <2> QED
    BY <1>1, <2>1, RxP!LoneReceive, Zenon
<1> HIDE ReceiverFits DEF ReceiverFit
<1>4. \A id : RxP!Entry(id) = Rx!Entry(id)
  BY RxDatabase
<1>5. PICK m \in Heard : m = job[Receiver]
  BY <1>2
<1>6. m.id \in Heads /\ m.time \in Nat
  BY HeardTyped
<1> QED
  BY <1>3, <1>4, <1>5, <1>6, Zenon

(* A node of a receive run that writes nothing. *)
LEMMA LookKeeps ==
  ASSUME RxP!TracksInv, ReceiverInv, ReceiveNode, NEW m \in Heard, m = job[Receiver],
         \A id \in Heads : RxP!Same(id), RxP!Looks(Receiver)
  PROVE  ReceiverInv'
<1>1. /\ stage[Receiver] = "receive" /\ Note /\ UNCHANGED <<twins, parted>>
      /\ current' = IF stage'[Receiver] = "idle" THEN Nobody ELSE current
  BY DEF ReceiveNode
<1>2. m.id \in Heads /\ m.time \in Nat
  BY HeardTyped
<1>3. /\ outcome[Receiver] = "none" /\ current.sent \in Sendable /\ current.intact \in BOOLEAN
      /\ m.id = current.sent.id.head /\ m.time = Second(current.sent)
      /\ m.decodes => current.intact
      /\ step[Receiver] # 1 => m.decodes
      /\ step[Receiver] \in {6, 7} => tracks[m.id] # 0 /\ m.time <= Rx!Entry(m.id).time
  BY <1>1 DEF ReceiverInv, InHand
<1>4. PICK i : i = step[Receiver]
  OBVIOUS
<1>5. \/ /\ UNCHANGED <<stage, job, outcome>>
         /\ \/ i = 1 /\ m.decodes /\ step'[Receiver] = 2
            \/ i = 2 /\ step'[Receiver] = 3
            \/ i = 3 /\ step'[Receiver] = 3
            \/ i = 3 /\ step'[Receiver] = 4
            \/ i = 3 /\ step'[Receiver] = 5
            \/ i = 3 /\ tracks[m.id] # 0 /\ ~(m.time > Rx!Entry(m.id).time) /\ step'[Receiver] = 6
            \/ i = 6 /\ step'[Receiver] = 7
      \/ /\ stage'[Receiver] = "idle"
         /\ \/ i = 1 /\ ~m.decodes /\ outcome'[Receiver] = "aborted"
            \/ i = 7 /\ outcome'[Receiver] = "completed"
  BY <1>4, RunGoesOn, RxDatabase DEF RxP!Looks
<1>6. /\ tracks'[m.id] = tracks[m.id]
      /\ tracks[m.id] # 0 => /\ Rx!Entry(m.id)'.time = Rx!Entry(m.id).time
                             /\ Rx!Entry(m.id).time \in Nat
  BY <1>2, SameLooks, RoutedEntry
<1>7. InHand'
  <2>1. CASE stage'[Receiver] = "idle"
    BY <1>1, <2>1 DEF InHand
  <2>2. CASE UNCHANGED <<stage, job, outcome>> /\ stage'[Receiver] # "idle"
    <3>1. current' = current /\ job'[Receiver] = m /\ stage'[Receiver] = "receive"
          /\ outcome'[Receiver] = "none"
      BY <1>1, <1>3, <2>2
    <3>2. step'[Receiver] # 1 => m.decodes
      BY <1>3, <1>4, <1>5, <2>2
    <3>3. step'[Receiver] \in {6, 7} =>
            tracks'[m.id] # 0 /\ m.time <= Rx!Entry(m.id)'.time
      <4>1. CASE step'[Receiver] \notin {6, 7}
        BY <4>1
      <4>2. CASE step'[Receiver] = 6 /\ i = 3
        <5>1. tracks[m.id] # 0 /\ ~(m.time > Rx!Entry(m.id).time)
          BY <1>5, <2>2, <4>2
        <5> QED
          BY <1>2, <1>6, <5>1
      <4>3. CASE step'[Receiver] = 7 /\ i = 6
        BY <1>3, <1>4, <1>6, <4>3
      <4> QED
        BY <1>5, <2>2, <4>1, <4>2, <4>3
    <3> QED
      BY <1>3, <3>1, <3>2, <3>3 DEF InHand, Rx!Entry
  <2> QED
    BY <1>1, <1>5, <2>1, <2>2
<1>8. Origins'
  <2>1. ASSUME NEW id \in Heads PROVE Origin(id)'
    <3>1. Origin(id) /\ RxP!Same(id)
      BY DEF ReceiverInv, Origins
    <3>2. job[Receiver].id = id /\ outcome'[Receiver] = "completed" /\ tracks[id] # 0 =>
            /\ current.sent.time \in Nat
            /\ TicksPerSecond * Tx!Unix(current.sent.time) <= Rx!Entry(id).time
      <4>1. SUFFICES ASSUME m.id = id, outcome'[Receiver] = "completed"
                     PROVE  /\ current.sent.time \in Nat
                            /\ Second(current.sent) <= Rx!Entry(id).time
        BY DEF Second
      <4>2. i = 7
        BY <1>3, <1>5, <4>1
      <4>3. current.sent.time \in Nat
        <5>1. PICK s \in Sendable : s = current.sent
          BY <1>3
        <5>2. s.time \in 0..MaxNow
          BY DEF Sendable, Tx!MessageTypes
        <5> QED
          BY <5>1, <5>2
      <4> QED
        BY <1>3, <1>4, <4>1, <4>2, <4>3
    <3> QED
      BY <1>1, <3>1, <3>2, UnwrittenOrigin
  <2> QED
    BY <1>1, <2>1, NotedShape DEF Origins
<1>9. Twins'
  <2>1. /\ DOMAIN twins = Baselines /\ twins["T3Receive"] \in Databases
        /\ twins["T3StateMachineReceive"] = twins["T3Receive"] /\ parted \subseteq Heads
        /\ \A id \in Heads \ parted :
             twins["T3Receive"][id] = IF Pending(id) THEN Received(id, m.time) ELSE Routed(id)
    BY DEF ReceiverInv, Twins
  <2>2. ASSUME NEW id \in Heads \ parted
        PROVE  twins["T3Receive"][id] =
                 IF Pending(id)' THEN Received(id, job[Receiver].time)' ELSE Routed(id)'
    <3>1. Routed(id)' = Routed(id) /\ \A t : Received(id, t)' = Received(id, t)
      BY SameLooks
    <3>2. CASE stage'[Receiver] = "idle"
      <4>1. ~Pending(id)' /\ ~Pending(id)
        BY <1>4, <1>5, <1>1, <3>2 DEF Pending
      <4> QED
        BY <2>1, <3>1, <4>1
    <3>3. CASE UNCHANGED <<stage, job, outcome>>
      <4>1. CASE step'[Receiver] \in 1..5
        <5>1. Pending(id)' <=> Pending(id)
          BY <1>4, <1>5, <1>1, <3>3, <4>1 DEF Pending
        <5>2. Received(id, job[Receiver].time)' = Received(id, m.time)
          <6>1. PICK t : t = m.time
            OBVIOUS
          <6>2. job'[Receiver].time = t
            BY <3>3, <6>1
          <6>3. Received(id, job[Receiver].time)' = Received(id, t)'
            BY <6>2 DEF Received
          <6> QED
            BY <3>1, <6>1, <6>3
        <5> QED
          BY <2>1, <3>1, <5>1, <5>2
      <4>2. CASE step'[Receiver] = 6 /\ i = 3
        <5>1. ~Pending(id)'
          BY <4>2 DEF Pending
        <5>2. Pending(id) => Received(id, m.time) = Routed(id)
          BY <1>1, <1>5, <3>3, <4>2 DEF Pending, Received
        <5> QED
          BY <2>1, <3>1, <5>1, <5>2
      <4>3. CASE step'[Receiver] = 7 /\ i = 6
        <5>1. ~Pending(id)' /\ ~Pending(id)
          BY <1>4, <4>3 DEF Pending
        <5> QED
          BY <2>1, <3>1, <5>1
      <4> QED
        BY <1>1, <1>5, <3>3, <4>1, <4>2, <4>3
    <3> QED
      BY <1>5, <3>2, <3>3
  <2> QED
    BY <1>1, <2>1, <2>2 DEF Twins
<1> QED
  BY <1>7, <1>8, <1>9 DEF ReceiverInv


(* A track that no received message is of keeps its history.                *)
LEMMA OtherOrigin ==
  ASSUME Note, NEW id \in Heads, RxP!Same(id), Origin(id),
         job[Receiver].id # id \/ outcome'[Receiver] # "completed"
  PROVE  Origin(id)'
BY UnwrittenOrigin

(* A node of a receive run that writes.                                     *)
LEMMA WriteKeeps ==
  ASSUME RxP!TracksInv, ReceiverInv, ReceiveNode, NEW m \in Heard, m = job[Receiver],
         NEW t \in Nat, t = m.time, NEW l, NEW v,
         RxP!MovesTo(Receiver, 7), RxP!Writes(m.id, t, l, v),
         step[Receiver] \in {4, 5},
         Received(m.id, t) = EntryOf(t, l, v),
         tracks[m.id] # 0 => v # Rx!Entry(m.id).version /\ t > Rx!Entry(m.id).time
  PROVE  ReceiverInv'
<1>1. /\ stage[Receiver] = "receive" /\ Note /\ UNCHANGED <<twins, parted>>
      /\ current' = IF stage'[Receiver] = "idle" THEN Nobody ELSE current
  BY DEF ReceiveNode
<1>2. m.id \in Heads
  BY HeardTyped
<1>3. PICK c : c = current
  OBVIOUS
<1>4. /\ outcome[Receiver] = "none" /\ c.sent \in Sendable /\ c.intact = TRUE
      /\ m.id = c.sent.id.head /\ t = Second(c.sent) /\ m.decodes
  BY <1>1, <1>3 DEF ReceiverInv, InHand
<1>5. step'[Receiver] = 7 /\ UNCHANGED <<stage, job, outcome>>
  BY RunGoesOn
<1>6. /\ tracks'[m.id] # 0 /\ Rx!Entry(m.id)'.time = t /\ Routed(m.id)' = EntryOf(t, l, v)
      /\ Written(m.id)
  <2>1. tracks[m.id] = 0 => Written(m.id)
    BY DEF Written
  <2> QED
    BY <1>2, <2>1, WrittenLooks
<1>7. \A x \in Heads : x # m.id => RxP!Same(x)
  BY DEF RxP!Writes
<1>8. current' = c /\ job'[Receiver] = m /\ stage'[Receiver] = "receive"
      /\ outcome'[Receiver] = "none"
  BY <1>1, <1>3, <1>4, <1>5
<1>9. InHand'
  <2>1. t <= Rx!Entry(m.id)'.time
    BY <1>6
  <2>2. Rx!Entry(m.id)' = entries'[tracks'[m.id]]
    BY DEF Rx!Entry
  <2> QED
    BY <1>4, <1>5, <1>6, <1>8, <2>1, <2>2 DEF InHand, Rx!Entry, Second
<1>10. Origins'
  <2>1. ASSUME NEW id \in Heads PROVE Origin(id)'
    <3>1. Origin(id)
      BY DEF ReceiverInv, Origins
    <3>2. CASE id # m.id
      BY <1>1, <1>7, <1>8, <3>1, <3>2, OtherOrigin
    <3>3. CASE id = m.id
      <4>1. tracks[id] # 0 => Rx!Entry(id).time \in Nat
        BY RoutedEntry
      <4>2. /\ outcome'[Receiver] # "completed"
            /\ current.intact = TRUE /\ current.sent \in Sendable /\ current.sent.id.head = id
            /\ Second(current.sent) = t
        BY <1>3, <1>4, <1>8, <3>3
      <4>3. /\ Written(id) /\ tracks'[id] # 0 /\ Rx!Entry(id)'.time = Second(current.sent)
            /\ tracks[id] # 0 => Second(current.sent) > Rx!Entry(id).time
            /\ Second(current.sent) \in Nat
        BY <1>6, <3>3, <4>2
      <4> QED
        BY <1>1, <3>1, <4>1, <4>2, <4>3, WrittenOrigin
    <3> QED
      BY <3>2, <3>3
  <2> QED
    BY <1>1, <2>1, NotedShape DEF Origins
<1>11. Twins'
  <2>1. /\ DOMAIN twins = Baselines /\ twins["T3Receive"] \in Databases
        /\ twins["T3StateMachineReceive"] = twins["T3Receive"] /\ parted \subseteq Heads
        /\ \A id \in Heads \ parted :
             twins["T3Receive"][id] = IF Pending(id) THEN Received(id, m.time) ELSE Routed(id)
    BY DEF ReceiverInv, Twins
  <2>2. Pending(m.id) /\ \A id \in Heads : ~Pending(id)' /\ (id # m.id => ~Pending(id))
    BY <1>1, <1>2, <1>4, <1>5 DEF Pending
  <2>3. \A id \in Heads \ parted : twins["T3Receive"][id] = Routed(id)'
    BY <1>6, <1>7, <2>1, <2>2, SameLooks
  <2> QED
    BY <1>1, <2>1, <2>2, <2>3 DEF Twins
<1> QED
  BY <1>9, <1>10, <1>11 DEF ReceiverInv

(* Every node of a receive run.                                             *)
LEMMA ReceiveKeeps ==
  ASSUME RxP!TracksInv, RxP!Alone, ReceiverInv, ReceiveNode
  PROVE  ReceiverInv'
<1>1. PICK m \in Heard :
        /\ m = job[Receiver] /\ m.id \in Heads /\ m.time \in Nat
        /\ \/ (\A id \in Heads : RxP!Same(id)) /\ RxP!Looks(Receiver)
           \/ /\ step[Receiver] = 4 /\ tracks[m.id] = 0 /\ RxP!MovesTo(Receiver, 7)
              /\ RxP!Writes(m.id, m.time, DefaultTTL, 1)
           \/ /\ step[Receiver] = 5 /\ tracks[m.id] # 0 /\ RxP!MovesTo(Receiver, 7)
              /\ m.time > Rx!Entry(m.id).time
              /\ RxP!Writes(m.id, m.time, Rx!Entry(m.id).ttl, Rx!Entry(m.id).version + 1)
  BY ReceiveDoes, Zenon
<1>2. PICK t \in Nat : t = m.time
  BY <1>1
<1>3. CASE (\A id \in Heads : RxP!Same(id)) /\ RxP!Looks(Receiver)
  BY <1>1, <1>3, LookKeeps
<1>4. CASE /\ step[Receiver] = 4 /\ tracks[m.id] = 0 /\ RxP!MovesTo(Receiver, 7)
           /\ RxP!Writes(m.id, m.time, DefaultTTL, 1)
  <2>1. Received(m.id, t) = EntryOf(t, DefaultTTL, 1)
    BY <1>4 DEF Received, EntryOf
  <2> QED
    BY <1>1, <1>2, <1>4, <2>1, WriteKeeps
<1>5. CASE /\ step[Receiver] = 5 /\ tracks[m.id] # 0 /\ RxP!MovesTo(Receiver, 7)
           /\ m.time > Rx!Entry(m.id).time
           /\ RxP!Writes(m.id, m.time, Rx!Entry(m.id).ttl, Rx!Entry(m.id).version + 1)
  <2>1. PICK l, v : l = Rx!Entry(m.id).ttl /\ v = Rx!Entry(m.id).version + 1
    OBVIOUS
  <2>2. Received(m.id, t) = EntryOf(t, l, v)
    BY <1>2, <1>5, <2>1 DEF Received, EntryOf
  <2>3. v # Rx!Entry(m.id).version /\ t > Rx!Entry(m.id).time
    <3>1. Rx!Entry(m.id).version \in Nat
      BY <1>1, <1>5, RoutedEntry
    <3> QED
      BY <1>2, <1>5, <2>1, <3>1
  <2>4. RxP!Writes(m.id, t, l, v) /\ RxP!MovesTo(Receiver, 7) /\ step[Receiver] \in {4, 5}
    BY <1>2, <1>5, <2>1
  <2> QED
    BY <1>1, <1>2, <2>2, <2>3, <2>4, WriteKeeps
<1> QED
  BY <1>1, <1>3, <1>4, <1>5

(* A node of a clear run, in the terms of the exchange. *)
LEMMA ClearDoes ==
  ASSUME RxP!TracksInv, ReceiverInv, kind = "J2.2", ClearNode
  PROVE  /\ UNCHANGED <<now, entries>> /\ job[Receiver].id = AllTracks
         /\ \/ /\ Sweeping /\ UNCHANGED <<stage, job>>
               /\ tracks' = [id \in Heads |-> IF tracks[id] # 0 /\ Rx!Expired(Rx!Entry(id))
                                              THEN 0 ELSE tracks[id]]
            \/ ~Sweeping /\ tracks' = tracks /\ stage'[Receiver] = "idle"
         /\ \A id \in Heads : /\ tracks'[id] # 0 => RxP!Same(id)
                              /\ tracks'[id] = tracks[id] => RxP!Same(id)
<1> USE ReceiverFits DEF ReceiverFit
<1>1. stage[Receiver] = "clear" /\ RxP!Node(Receiver) /\ Receiver \in {Receiver}
  BY RxNodes, Zenon DEF ClearNode
<1>2. job[Receiver].id = AllTracks
  BY <1>1 DEF ReceiverInv, InHand
<1>3. RxP!TypeOK /\ RxP!DbOK /\ RxP!Clearing(Receiver)
  BY <1>1, ReceiverParts
<1>4. /\ UNCHANGED <<now, entries>>
      /\ \/ step[Receiver] = 1 /\ tracks' = RxP!CleanExpired /\ RxP!MovesTo(Receiver, 3)
         \/ step[Receiver] # 1 /\ tracks' = tracks /\ RxP!Ends(Receiver, "completed")
  BY <1>1, <1>2, RxP!LoneClear, Zenon
<1>5. Sweeping <=> step[Receiver] = 1
  <2>1. /\ RxP!At(Receiver, "check_ttl", "call") <=>
             stage[Receiver] = "clear" /\ step[Receiver] = 1 /\ phase[Receiver] = "call"
    BY <1>1, <1>3, RxP!Places, Zenon
  <2>2. phase[Receiver] = "call"
    BY <1>3 DEF RxP!Clearing
  <2> QED
    BY <1>1, <2>1, <2>2, RxRuns, Zenon DEF Sweeping
<1>6. RxP!CleanExpired = [id \in Heads |-> IF tracks[id] # 0 /\ Rx!Expired(Rx!Entry(id))
                                           THEN 0 ELSE tracks[id]]
  BY RxDatabase DEF Rx!CleanExpired
<1>7. tracks \in [Heads -> Nat]
  BY ReceiverParts
<1>8. tracks' \in [Heads -> Nat] /\ \A id \in Heads : tracks'[id] \in {0, tracks[id]}
  BY <1>4, <1>6, <1>7
<1>9. \A id \in Heads : /\ tracks'[id] # 0 => RxP!Same(id)
                        /\ tracks'[id] = tracks[id] => RxP!Same(id)
  BY <1>3, <1>4, <1>8, RxP!RemovalChanges
<1> HIDE ReceiverFits DEF ReceiverFit
<1> QED
  BY <1>2, <1>4, <1>5, <1>6, <1>9, RunGoesOn

(* Every node of a clear run.                                               *)
LEMMA ClearKeeps ==
  ASSUME RxP!TracksInv, ReceiverInv, kind = "J2.2", ClearNode
  PROVE  ReceiverInv'
<1>1. /\ UNCHANGED <<now, entries>> /\ job[Receiver].id = AllTracks
      /\ \/ /\ Sweeping /\ UNCHANGED <<stage, job>>
            /\ tracks' = [id \in Heads |-> IF tracks[id] # 0 /\ Rx!Expired(Rx!Entry(id))
                                           THEN 0 ELSE tracks[id]]
         \/ ~Sweeping /\ tracks' = tracks /\ stage'[Receiver] = "idle"
      /\ \A id \in Heads : /\ tracks'[id] # 0 => RxP!Same(id)
                           /\ tracks'[id] = tracks[id] => RxP!Same(id)
  BY ClearDoes
<1>2. /\ stage[Receiver] = "clear" /\ Note /\ UNCHANGED <<current, parted>>
      /\ twins' = IF Sweeping THEN [b \in Baselines |-> T4Clear(twins[b])] ELSE twins
  BY DEF ClearNode
<1>3. current = Nobody /\ AllTracks \notin Heads
  BY <1>2, PartsAssumption DEF ReceiverInv, InHand
<1>4. InHand'
  BY <1>1, <1>2, <1>3 DEF InHand
<1>5. Origins'
  <2>1. ASSUME NEW id \in Heads PROVE Origin(id)'
    <3>1. Origin(id)
      BY DEF ReceiverInv, Origins
    <3>2. CASE tracks'[id] = 0
      <4>1. origin'[id] = Nobody /\ offered'[id] = {}
        BY <1>2, <3>2, Noted
      <4> QED
        BY <3>2, <4>1 DEF Origin
    <3>3. CASE tracks'[id] # 0
      BY <1>1, <1>2, <1>3, <3>1, <3>3, OtherOrigin
    <3> QED
      BY <3>2, <3>3
  <2> QED
    BY <1>2, <2>1, NotedShape DEF Origins
<1>6. Twins'
  <2>1. PICK db \in Databases : /\ db = twins["T3Receive"] /\ DOMAIN twins = Baselines
                                /\ db = twins["T3StateMachineReceive"]
    BY DEF ReceiverInv, Twins
  <2>2. \A id \in Heads : ~Pending(id) /\ ~Pending(id)'
    BY <1>1, <1>2 DEF Pending
  <2>3. parted \subseteq Heads /\ \A id \in Heads \ parted : db[id] = Routed(id)
    BY <2>1, <2>2 DEF ReceiverInv, Twins
  <2>4. CASE ~Sweeping
    <3>1. twins' = twins /\ \A id \in Heads : Routed(id)' = Routed(id)
      BY <1>1, <1>2, <2>4, SameLooks
    <3> QED
      BY <1>2, <2>1, <2>2, <2>3, <3>1 DEF Twins
  <2>5. CASE Sweeping
    <3>1. PICK n \in Nat : n = now
      BY ReceiverParts
    <3>2. PICK new : new = T4Clear(db)
      OBVIOUS
    <3>3. /\ new \in Databases
          /\ \A id \in Heads :
               /\ db[id] = NoEntry => new[id] = NoEntry
               /\ db[id] # NoEntry /\ n - db[id].time > db[id].ttl => new[id] = NoEntry
               /\ db[id] # NoEntry /\ ~(n - db[id].time > db[id].ttl) => new[id] = db[id]
      BY <3>1, <3>2, BaselineClears
    <3>4. twins' = [b \in Baselines |-> T4Clear(twins[b])]
      BY <1>2, <2>5
    <3>5. /\ DOMAIN twins' = Baselines /\ twins'["T3Receive"] = new
          /\ twins'["T3StateMachineReceive"] = new
      BY <2>1, <3>2, <3>4 DEF Baselines
    <3>6. ASSUME NEW id \in Heads \ parted PROVE new[id] = Routed(id)'
      <4>1. db[id] = Routed(id)
        BY <2>3
      <4>2. tracks'[id] = IF tracks[id] # 0 /\ Rx!Expired(Rx!Entry(id)) THEN 0 ELSE tracks[id]
        BY <1>1, <2>5
      <4>3. CASE tracks[id] = 0
        <5>1. tracks'[id] = tracks[id] /\ db[id] = NoEntry
          BY <4>1, <4>2, <4>3, RoutedEntry
        <5> QED
          BY <1>1, <3>3, <4>1, <5>1, SameLooks
      <4>4. CASE tracks[id] # 0
        <5>1. /\ db[id] # NoEntry /\ db[id].time = Rx!Entry(id).time
              /\ db[id].ttl = Rx!Entry(id).ttl
          BY <4>1, <4>4, RoutedEntry
        <5>2. Rx!Expired(Rx!Entry(id)) <=> n - db[id].time > db[id].ttl
          BY <3>1, <5>1 DEF Rx!Expired
        <5>3. CASE Rx!Expired(Rx!Entry(id))
          <6>1. tracks'[id] = 0 /\ new[id] = NoEntry
            BY <3>3, <4>2, <4>4, <5>1, <5>2, <5>3
          <6> QED
            BY <6>1 DEF Routed
        <5>4. CASE ~Rx!Expired(Rx!Entry(id))
          <6>1. tracks'[id] = tracks[id] /\ new[id] = db[id]
            BY <3>3, <4>2, <4>4, <5>1, <5>2, <5>4
          <6> QED
            BY <1>1, <4>1, <6>1, SameLooks
        <5> QED
          BY <5>3, <5>4
      <4> QED
        BY <4>3, <4>4
    <3> QED
      BY <1>2, <2>2, <2>3, <3>3, <3>5, <3>6 DEF Twins
  <2> QED
    BY <2>4, <2>5
<1> QED
  BY <1>4, <1>5, <1>6 DEF ReceiverInv
-----------------------------------------------------------------------------
(* A node takes no time.                                                    *)
LEMMA NodeInstant ==
  ASSUME Rx!Node(Receiver)
  PROVE  now' = now
BY DEF Rx!Node, Rx!Passive, Rx!Decode, Rx!CorrelateManual, Rx!CorrelateGet,
   Rx!CorrelateCompare, Rx!CreateEntry, Rx!UpdateEntry, Rx!StoreGet, Rx!StoreCreate,
   Rx!CheckTTL, Rx!Sweep, Rx!DeleteEntry, Rx!Create, Rx!Update, Rx!dbVars

(* Every step of the exchange is one of the receiver or leaves it alone.    *)
LEMMA StepsOfReceiver ==
  ASSUME RxP!TracksInv, Wire, [Next]_vars
  PROVE  [RxP!Next]_(RxP!vars)
<1>1. UNCHANGED rxVars => UNCHANGED RxP!vars
  BY DEF rxVars, RxP!vars, RxP!dbVars, RxP!workVars, RxP!history
<1>2. CASE StartPrepare \/ PrepareNode \/ PrepareLast \/ UNCHANGED vars
  <2>1. UNCHANGED rxVars
    BY <1>2, Zenon DEF StartPrepare, PrepareNode, PrepareLast, vars
  <2> QED
    BY <1>1, <2>1
<1>3. CASE Deliver
  <2>1. PICK m \in Heard : Rx!StartReceive(Receiver, m)
    BY <1>3, Delivered, Zenon DEF Delivery
  <2>2. RxP!StartReceive(Receiver, m)
    BY <2>1, RxSteps, Zenon
  <2>3. kind' = kind
    BY <1>3 DEF Deliver
  <2> QED
    BY <2>2, <2>3, Zenon DEF RxP!Next, RxP!Work
<1>4. CASE ReceiveNode \/ ClearNode
  <2>1. RxP!Node(Receiver) /\ kind' = kind
    BY <1>4, RxNodes DEF ReceiveNode, ClearNode
  <2> QED
    BY <2>1, Zenon DEF RxP!Next, RxP!Work
<1>5. CASE StartClear
  <2>1. RxP!StartClear(Receiver, AllTracks) /\ kind' = kind
    BY <1>5, RxSteps DEF StartClear
  <2> QED
    BY <2>1, Zenon DEF RxP!Next, RxP!Work
<1>6. ASSUME NEW id \in Heads, NEW ttl \in TTLs, SetTTL(id, ttl)
      PROVE  RxP!Next
  <2>1. RxP!SetTTL(id, ttl) /\ kind' = kind
    BY <1>6, RxSteps DEF SetTTL
  <2> QED
    BY <2>1, Zenon DEF RxP!Next, RxP!Work
<1>7. CASE Tick
  <2>1. RxP!Tick /\ kind' = kind
    BY <1>7, RxSteps DEF Tick
  <2> QED
    BY <2>1, Zenon DEF RxP!Next, RxP!Work
<1> QED
  BY <1>2, <1>3, <1>4, <1>5, <1>6, <1>7, Zenon DEF Next

(* The clock stops at MaxNow.                                               *)
LEMMA ClockKeeps ==
  ASSUME RxP!TracksInv, Wire, now <= MaxNow, [Next]_vars
  PROVE  now' <= MaxNow
<1>1. now \in Nat /\ MaxNow \in Nat
  BY ReceiverParts, PartsAssumption
<1>2. CASE StartPrepare \/ PrepareNode \/ PrepareLast \/ UNCHANGED vars
  <2>1. now' = now
    BY <1>2 DEF StartPrepare, PrepareNode, PrepareLast, vars, rxVars
  <2> QED
    BY <2>1
<1>3. CASE Deliver
  <2>1. PICK m \in Heard : Rx!StartReceive(Receiver, m)
    BY <1>3, Delivered, Zenon DEF Delivery
  <2> QED
    BY <2>1, StartDoes DEF Rx!StartReceive
<1>4. CASE StartClear
  BY <1>4, StartDoes DEF StartClear, Rx!StartClear
<1>5. CASE ReceiveNode \/ ClearNode
  BY <1>5, NodeInstant DEF ReceiveNode, ClearNode
<1>6. ASSUME NEW id \in Heads, NEW ttl \in TTLs, SetTTL(id, ttl)
      PROVE  now' = now
  BY <1>6 DEF SetTTL, Rx!SetTTL
<1>7. CASE Tick
  BY <1>1, <1>7 DEF Tick, Rx!Tick
<1> QED
  BY <1>2, <1>3, <1>4, <1>5, <1>6, <1>7 DEF Next

(* The sender is left alone by the steps of the receiver.                   *)
LEMMA SenderAlone ==
  ASSUME Prepared, Wire, UNCHANGED <<txVars, wire>>
  PROVE  Prepared' /\ Wire'
BY DEF Prepared, Wire, txVars

(* Every step keeps the invariant.                                          *)
LEMMA NextKeeps == ExchangeInv /\ [Next]_vars => ExchangeInv'
<1> SUFFICES ASSUME ExchangeInv, [Next]_vars PROVE ExchangeInv'
  OBVIOUS
<1>1. /\ kind = "J2.2" /\ now <= MaxNow /\ RxP!TracksInv /\ RxP!Alone
      /\ Prepared /\ Wire /\ ReceiverInv
  BY DEF ExchangeInv, ReceiverInv
<1>2. [RxP!Next]_(RxP!vars)
  BY <1>1, StepsOfReceiver, Zenon
<1>3. RxP!TracksInv'
  <2>1. ReceiverFit
    BY ReceiverFits
  <2> USE DEF ReceiverFit
  <2> QED
    BY <1>1, <1>2, <2>1, RxP!NextKeeps, Zenon
<1>4. RxP!Alone'
  <2>1. ReceiverFit /\ RxP!OneCaller
    BY ReceiverFits
  <2> USE DEF ReceiverFit
  <2> QED
    BY <1>1, <1>2, <2>1, RxP!StaysAlone, Zenon
<1>5. now' <= MaxNow
  BY <1>1, ClockKeeps
<1>6. CASE StartPrepare \/ PrepareNode \/ PrepareLast
  <2>1. now \in 0..MaxNow
    BY <1>1, ReceiverParts, PartsAssumption
  <2>2. Prepared' /\ Wire'
    BY <1>1, <1>6, <2>1, SenderKeeps
  <2>3. UNCHANGED <<kind, entries, tracks, stage, step, job, outcome, current, origin,
                    offered, twins, parted>>
    BY <1>6 DEF StartPrepare, PrepareNode, PrepareLast, rxVars, ghosts
  <2>4. ReceiverInv'
    BY <1>1, <2>3, QuietKeeps
  <2> QED
    BY <1>1, <1>3, <1>4, <1>5, <2>2, <2>3, <2>4 DEF ExchangeInv, ReceiverInv
<1>7. ASSUME UNCHANGED <<txVars, wire, kind>>, ReceiverInv'
      PROVE  ExchangeInv'
  <2>1. Prepared' /\ Wire'
    BY <1>1, <1>7, SenderAlone
  <2> QED
    BY <1>1, <1>3, <1>4, <1>5, <1>7, <2>1 DEF ExchangeInv, ReceiverInv
<1>8. CASE Deliver
  <2>1. UNCHANGED <<txVars, wire, kind>>
    BY <1>8 DEF Deliver
  <2> QED
    BY <1>1, <1>7, <1>8, <2>1, DeliverKeeps
<1>9. CASE ReceiveNode
  <2>1. UNCHANGED <<txVars, wire, kind>>
    BY <1>9 DEF ReceiveNode
  <2> QED
    BY <1>1, <1>7, <1>9, <2>1, ReceiveKeeps
<1>10. CASE StartClear
  <2>1. UNCHANGED <<txVars, wire, kind>>
    BY <1>10 DEF StartClear
  <2> QED
    BY <1>1, <1>7, <1>10, <2>1, StartClearKeeps
<1>11. CASE ClearNode
  <2>1. UNCHANGED <<txVars, wire, kind>>
    BY <1>11 DEF ClearNode
  <2> QED
    BY <1>1, <1>7, <1>11, <2>1, ClearKeeps
<1>12. ASSUME NEW id \in Heads, NEW ttl \in TTLs, SetTTL(id, ttl)
       PROVE  ExchangeInv'
  <2>1. UNCHANGED <<txVars, wire, kind>>
    BY <1>12 DEF SetTTL
  <2> QED
    BY <1>1, <1>7, <1>12, <2>1, SetTTLKeeps
<1>13. CASE Tick \/ UNCHANGED vars
  <2>1. UNCHANGED <<txVars, wire, kind>>
    BY <1>13 DEF Tick, vars, rxVars
  <2>2. UNCHANGED <<entries, tracks, stage, step, job, outcome, current, origin, offered,
                    twins, parted>>
    BY <1>13 DEF Tick, Rx!Tick, Rx!workVars, vars, rxVars, ghosts
  <2> QED
    BY <1>1, <1>7, <2>1, <2>2, QuietKeeps
<1> QED
  BY <1>6, <1>8, <1>9, <1>10, <1>11, <1>12, <1>13 DEF Next

(* At first nothing is prepared, nothing received and every database empty. *)
LEMMA InitExchange == Init => ExchangeInv /\ RxP!Init
<1> SUFFICES ASSUME Init PROVE ExchangeInv /\ RxP!Init
  OBVIOUS
<1>1. RxP!Init /\ Rx!Init /\ Tx!Init
  BY RxSteps DEF Init
<1>2. RxP!TracksInv /\ RxP!Alone
  <2>1. ReceiverFit
    BY ReceiverFits
  <2> USE DEF ReceiverFit
  <2> QED
    BY <1>1, <2>1, RxP!TracksInit, RxP!InitSimulates, Zenon
<1>3. kind = "J2.2" /\ now <= MaxNow
  BY <1>1, PartsAssumption DEF Rx!Init
<1>4. Prepared /\ Wire
  BY <1>1 DEF Prepared, Wire, Init, Tx!Init
<1>5. /\ stage[Receiver] = "idle" /\ \A id \in Heads : tracks[id] = 0
      /\ current = Nobody /\ origin = [id \in Heads |-> Nobody]
      /\ offered = [id \in Heads |-> {}] /\ parted = {}
      /\ twins = [b \in Baselines |-> [id \in Heads |-> NoEntry]]
  BY <1>1 DEF Init, Rx!Init
<1>6. InHand /\ Origins
  BY <1>5 DEF InHand, Origins, Origin
<1>7. Twins
  <2>1. [id \in Heads |-> NoEntry] \in Databases
    BY DEF Databases
  <2>2. \A id \in Heads : ~Pending(id) /\ Routed(id) = NoEntry
    BY <1>5 DEF Pending, Routed
  <2> QED
    BY <1>5, <2>1, <2>2 DEF Twins, Baselines
<1> QED
  BY <1>1, <1>2, <1>3, <1>4, <1>6, <1>7 DEF ExchangeInv

(* The invariant of the exchange, for any reports, TTLs, clock and damage:  *)
(* what the stages of sender and receiver (stages.go) keep between them.    *)
THEOREM ExchangeInvariant == Spec => []ExchangeInv
BY InitExchange, NextKeeps, PTL DEF Spec
-----------------------------------------------------------------------------
(***************************************************************************)
(* The properties.                                                         *)
(***************************************************************************)

(* Variables, messages and databases of the exchange keep their types       *)
(* (types.go, track_db.go).                                                 *)
THEOREM ExchangeTyped == Spec => []TypeOK
<1>1. ExchangeInv => TypeOK
  <2> SUFFICES ASSUME ExchangeInv PROVE TypeOK
    OBVIOUS
  <2>1. Rx!TypeOK
    BY RxSteps, ReceiverParts, Zenon DEF ExchangeInv
  <2>2. Tx!TypeOK
    <3>1. Prepared
      BY DEF ExchangeInv
    <3>2. txKind \in Tx!Kinds /\ txStage \in {"none", "prepare_send", "send", "special_process"}
      BY <3>1 DEF Prepared, Tx!Kinds
    <3>3. txStep = 0 \/ txStep \in DOMAIN Tx!Steps
      <4>1. CASE txStep = 0
        BY <4>1
      <4>2. CASE txStep # 0
        <5>1. txKind \in TxP!Kinds /\ txStage = "prepare_send" /\ txStep \in 1..4
          BY <3>1, <4>2 DEF Prepared, TxP!Kinds
        <5>2. SenderFit
          BY SenderFits
        <5>3. DOMAIN TxP!Steps = 1..4
          BY <5>1, <5>2, TxP!PrepareSteps DEF SenderFit
        <5> QED
          BY <5>1, <5>3, TxRuns
      <4> QED
        BY <4>1, <4>2
    <3>4. \A m \in {txMessage, txOriginal} \ {NoMessage} : m \in Tx!MessageTypes
      BY <3>1 DEF Prepared, Sendable
    <3> QED
      BY <3>1, <3>2, <3>3, <3>4 DEF Prepared, Tx!TypeOK
  <2>3. \A item \in wire : item.sent \in Tx!MessageTypes
    BY DEF ExchangeInv, Wire, Sendable
  <2>4. \A n \in {current} \union {origin[id] : id \in Heads} :
          n.intact \in BOOLEAN /\ (n.sent = NoMessage \/ n.sent \in Tx!MessageTypes)
    <3>1. Nobody.intact = TRUE /\ Nobody.sent = NoMessage
      BY DEF Nobody
    <3>2. current.intact \in BOOLEAN
          /\ (current.sent = NoMessage \/ current.sent \in Tx!MessageTypes)
      BY <3>1 DEF ExchangeInv, InHand, Sendable
    <3>3. ASSUME NEW id \in Heads
          PROVE  /\ origin[id].intact \in BOOLEAN
                 /\ origin[id].sent = NoMessage \/ origin[id].sent \in Tx!MessageTypes
      BY <3>1 DEF ExchangeInv, Origins, Origin, Sendable
    <3> QED
      BY <3>2, <3>3
  <2>5. offered \in [Heads -> SUBSET Nat]
    BY DEF ExchangeInv, Origins, Origin
  <2>6. (\A b \in Baselines : twins[b] \in Databases) /\ parted \subseteq Heads
    BY DEF ExchangeInv, Twins, Baselines
  <2> QED
    BY <2>1, <2>2, <2>3, <2>4, <2>5, <2>6 DEF TypeOK
<1> QED
  BY <1>1, ExchangeInvariant, PTL

(* A payload with a flipped bit never reaches the database                  *)
(* (j22_codec.go:85-90): every entry is of an intact message of its track.  *)
THEOREM AlwaysIntact == Spec => []Intact
<1>1. ExchangeInv => Intact
  BY DEF ExchangeInv, Origins, Origin, Intact, Second
<1> QED
  BY <1>1, ExchangeInvariant, PTL

(* A message and the second the codec makes of its time (j22_codec.go:65).  *)
LEMMA WithinOneSecond ==
  ASSUME NEW m \in Sendable
  PROVE  \E t, s, d \in Nat : /\ t = m.time /\ s = Second(m) /\ d = TicksPerSecond
                              /\ s <= t /\ t < s + d
<1>1. PICK t \in Nat : t = m.time
  <2>1. m.time \in 0..MaxNow
    BY DEF Sendable, Tx!MessageTypes
  <2> QED
    BY <2>1
<1>2. PICK d \in Nat \ {0} : d = TicksPerSecond
  BY PartsAssumption
<1>3. \A a \in Nat \ {0}, b \in Nat :
        LET s == a * (b \div a) IN s \in Nat /\ s <= b /\ b < s + a
  BY SMT
<1>4. Second(m) = d * (t \div d)
  BY <1>1, <1>2 DEF Second, Tx!Unix
<1> QED
  BY <1>1, <1>2, <1>3, <1>4

(* Late, repeated or reordered payloads never leave a track with a message  *)
(* a second older than one it was received with (ppli_nodes.go:157-160).    *)
THEOREM AlwaysNearlyLatest == Spec => []NearlyLatest
<1>1. ExchangeInv => NearlyLatest
  <2> SUFFICES ASSUME ExchangeInv, NEW id \in Heads, NEW u \in offered[id]
               PROVE  origin[id].sent.time > u - TicksPerSecond
    BY DEF NearlyLatest
  <2>1. Origin(id) /\ tracks[id] # 0
    BY DEF ExchangeInv, Origins, Origin
  <2>2. u \in Nat /\ TicksPerSecond * Tx!Unix(u) <= Rx!Entry(id).time
    BY <2>1 DEF Origin
  <2>3. PICK m \in Sendable : m = origin[id].sent /\ Rx!Entry(id).time = Second(m)
    BY <2>1 DEF Origin
  <2>4. PICK t, s, d \in Nat : /\ t = m.time /\ s = Second(m) /\ d = TicksPerSecond
                               /\ s <= t /\ t < s + d
    BY WithinOneSecond
  <2>5. PICK f \in Nat : f = d * Tx!Unix(u) /\ u < f + d
    <3>1. \A a \in Nat \ {0}, b \in Nat :
            a * (b \div a) \in Nat /\ b < a * (b \div a) + a
      BY SMT
    <3>2. d \in Nat \ {0} /\ Tx!Unix(u) = u \div d
      BY <2>4, PartsAssumption DEF Tx!Unix
    <3> QED
      BY <2>2, <3>1, <3>2
  <2>6. f <= s
    BY <2>2, <2>3, <2>4, <2>5
  <2>7. t > u - d
    BY <2>2, <2>4, <2>5, <2>6
  <2> QED
    BY <2>3, <2>4, <2>7
<1> QED
  BY <1>1, ExchangeInvariant, PTL

(* The baselines receive and clear like one another always, and like the    *)
(* routed stages unless they refuse a message (monolithic.go,               *)
(* statemachine.go): "the same node-level work".                            *)
THEOREM BaselinesAlwaysAgree == Spec => []BaselinesAgree
<1>1. ExchangeInv => BaselinesAgree
  <2> SUFFICES ASSUME ExchangeInv PROVE BaselinesAgree
    OBVIOUS
  <2>1. Idle => \A id \in Heads : ~Pending(id)
    BY DEF Idle, Pending
  <2> QED
    BY <2>1 DEF ExchangeInv, Twins, BaselinesAgree
<1> QED
  BY <1>1, ExchangeInvariant, PTL

(* Only a sweep takes a track, and only an expired one. *)
LEMMA OnlySweepsTake ==
  ASSUME ExchangeInv, [Next]_vars, NEW id \in Heads, tracks[id] # 0
  PROVE  /\ tracks'[id] = 0 => Rx!Expired(Rx!Entry(id))
         /\ Sweeping /\ Rx!Expired(Rx!Entry(id)) /\ stage[Receiver] = "clear" /\ step' # step
              => tracks'[id] = 0
<1>1. RxP!TracksInv /\ RxP!Alone /\ ReceiverInv /\ Wire /\ kind = "J2.2"
  BY DEF ExchangeInv, ReceiverInv
<1>2. CASE StartPrepare \/ PrepareNode \/ PrepareLast \/ UNCHANGED vars
  BY <1>2 DEF StartPrepare, PrepareNode, PrepareLast, vars, rxVars
<1>3. CASE Deliver
  <2>1. PICK m \in Heard : Rx!StartReceive(Receiver, m)
    BY <1>1, <1>3, Delivered, Zenon DEF Delivery
  <2> QED
    BY <1>1, <2>1, StartDoes DEF Rx!StartReceive
<1>4. CASE StartClear
  BY <1>1, <1>4, StartDoes DEF StartClear, Rx!StartClear
<1>5. CASE ReceiveNode
  <2>1. stage[Receiver] = "receive"
    BY <1>5 DEF ReceiveNode
  <2>2. PICK m \in Heard :
          /\ m = job[Receiver] /\ m.id \in Heads /\ m.time \in Nat
          /\ \/ (\A x \in Heads : RxP!Same(x)) /\ RxP!Looks(Receiver)
             \/ /\ step[Receiver] = 4 /\ tracks[m.id] = 0 /\ RxP!MovesTo(Receiver, 7)
                /\ RxP!Writes(m.id, m.time, DefaultTTL, 1)
             \/ /\ step[Receiver] = 5 /\ tracks[m.id] # 0 /\ RxP!MovesTo(Receiver, 7)
                /\ m.time > Rx!Entry(m.id).time
                /\ RxP!Writes(m.id, m.time, Rx!Entry(m.id).ttl, Rx!Entry(m.id).version + 1)
    BY <1>1, <1>5, ReceiveDoes, Zenon
  <2>3. \/ RxP!Same(id)
        \/ tracks'[id] # 0
    BY <2>2 DEF RxP!Writes
  <2> QED
    BY <2>1, <2>3 DEF RxP!Same
<1>6. CASE ClearNode
  <2>1. \/ /\ Sweeping
           /\ tracks' = [x \in Heads |-> IF tracks[x] # 0 /\ Rx!Expired(Rx!Entry(x))
                                         THEN 0 ELSE tracks[x]]
        \/ ~Sweeping /\ tracks' = tracks
    BY <1>1, <1>6, ClearDoes
  <2> QED
    BY <2>1
<1>7. ASSUME NEW x \in Heads, NEW ttl \in TTLs, SetTTL(x, ttl)
      PROVE  tracks' = tracks /\ step' = step
  BY <1>7 DEF SetTTL, Rx!SetTTL, Rx!workVars
<1>8. CASE Tick
  BY <1>8 DEF Tick, Rx!Tick, Rx!workVars
<1> QED
  BY <1>2, <1>3, <1>4, <1>5, <1>6, <1>7, <1>8 DEF Next

(* By the sender's clock, too, T4 (track_db.go: CleanExpired) takes a track *)
(* within a second of its TTL, and whatever is older.                       *)
THEOREM ExpiresWithinSecond == Spec => ExpiredWithinSecond
<1> DEFINE Within(id) ==
             tracks[id] # 0 =>
               /\ tracks'[id] = 0 => Age(id) > Rx!Entry(id).ttl - TicksPerSecond
               /\ Sweeping /\ Age(id) > Rx!Entry(id).ttl /\ stage[Receiver] = "clear"
                    /\ step' # step => tracks'[id] = 0
<1>1. ASSUME ExchangeInv, [Next]_vars, NEW id \in Heads
      PROVE  Within(id)
  <2> SUFFICES ASSUME tracks[id] # 0 PROVE Within(id)
    OBVIOUS
  <2>1. RxP!TracksInv /\ Origin(id)
    BY <1>1 DEF ExchangeInv, Origins
  <2>2. PICK m \in Sendable : m = origin[id].sent /\ Rx!Entry(id).time = Second(m)
    BY <2>1 DEF Origin
  <2>3. PICK t, s, d \in Nat : /\ t = m.time /\ s = Second(m) /\ d = TicksPerSecond
                               /\ s <= t /\ t < s + d
    BY WithinOneSecond
  <2>4. PICK n, l \in Nat : n = now /\ l = Rx!Entry(id).ttl
    BY <2>1, ReceiverParts, RoutedEntry
  <2>5. Age(id) = n - t
    BY <2>2, <2>3, <2>4 DEF Age
  <2>6. Rx!Expired(Rx!Entry(id)) <=> n - s > l
    BY <2>2, <2>3, <2>4 DEF Rx!Expired
  <2>7. /\ tracks'[id] = 0 => n - s > l
        /\ Sweeping /\ n - s > l /\ stage[Receiver] = "clear" /\ step' # step => tracks'[id] = 0
    BY <1>1, <2>6, OnlySweepsTake
  <2>8. /\ n - s > l => n - t > l - d
        /\ n - t > l => n - s > l
    BY <2>3, <2>4
  <2> QED
    BY <2>3, <2>4, <2>5, <2>7, <2>8
<1>2. ExchangeInv /\ [Next]_vars => [\A id \in Heads : Within(id)]_vars
  BY <1>1
<1>3. ExpiredWithinSecond <=> [][\A id \in Heads : Within(id)]_vars
  BY DEF ExpiredWithinSecond
<1> HIDE DEF Within
<1> QED
  BY <1>2, <1>3, ExchangeInvariant, PTL DEF Spec

(* The table of both views of the receiver is the same. *)
LEMMA RxTableSame ==
  /\ Rx!Table!Init <=> RxP!Table!Init
  /\ Rx!Table!Next <=> RxP!Table!Next
  /\ Rx!Table!vars = RxP!Table!vars
<1>1. Rx!Table!vars = RxP!Table!vars
  BY RxDatabase DEF Rx!Table!vars, RxP!Table!vars
<1>2. Rx!Table!Init <=> RxP!Table!Init
  BY DEF Rx!Table!Init, RxP!Table!Init, Rx!Entry, RxP!Entry
<1>3. Rx!Table!Pass <=> RxP!Table!Pass
  BY DEF Rx!Table!Pass, RxP!Table!Pass, Rx!Entry, RxP!Entry
<1>4. \A id : Rx!Table!SetLimit(id) <=> RxP!Table!SetLimit(id)
  BY DEF Rx!Table!SetLimit, RxP!Table!SetLimit, Rx!Entry, RxP!Entry
<1>5. \A id : Rx!Table!Appear(id) <=> RxP!Table!Appear(id)
  BY DEF Rx!Table!Appear, RxP!Table!Appear, Rx!Entry, RxP!Entry
<1>6. \A id : Rx!Table!Refresh(id) <=> RxP!Table!Refresh(id)
  BY DEF Rx!Table!Refresh, RxP!Table!Refresh, Rx!Entry, RxP!Entry
<1>7. \A gone : Rx!Table!Vanish(gone) <=> RxP!Table!Vanish(gone)
  BY DEF Rx!Table!Vanish, RxP!Table!Vanish, Rx!Entry, RxP!Entry
<1>8. Rx!Table!Next <=> RxP!Table!Next
  BY <1>3, <1>4, <1>5, <1>6, <1>7 DEF Rx!Table!Next, RxP!Table!Next
<1> QED
  BY <1>1, <1>2, <1>8

(* The receiver of the exchange implements LatestTable: in the database     *)
(* (track_db.go) a track appears, moves to a strictly newer message only    *)
(* and vanishes only when expired, however payloads travel.                 *)
THEOREM ExchangeImplementsTable == Spec => TableSpec
<1>1. ExchangeInv /\ [Next]_vars => [RxP!Table!Next]_(RxP!Table!vars)
  <2> SUFFICES ASSUME ExchangeInv, [Next]_vars PROVE [RxP!Table!Next]_(RxP!Table!vars)
    OBVIOUS
  <2>1. RxP!TracksInv /\ RxP!Alone /\ [RxP!Next]_(RxP!vars)
    BY StepsOfReceiver, Zenon DEF ExchangeInv
  <2>2. ReceiverFit
    BY ReceiverFits
  <2> USE DEF ReceiverFit
  <2> QED
    BY <2>1, <2>2, RxP!NextSimulates, Zenon
<1>2. ExchangeInv /\ [Next]_vars => [Rx!Table!Next]_(Rx!Table!vars)
  <2>1. Rx!Table!Next <=> RxP!Table!Next
    BY RxTableSame
  <2>2. UNCHANGED Rx!Table!vars <=> UNCHANGED RxP!Table!vars
    BY RxTableSame DEF Rx!Table!vars, RxP!Table!vars, Rx!Entry, RxP!Entry
  <2> QED
    BY <1>1, <2>1, <2>2, Zenon
<1>3. Init => Rx!Table!Init
  <2> SUFFICES ASSUME Init PROVE Rx!Table!Init
    OBVIOUS
  <2>1. RxP!Init
    BY InitExchange
  <2>2. ReceiverFit
    BY ReceiverFits
  <2> USE DEF ReceiverFit
  <2>3. RxP!Table!Init
    BY <2>1, <2>2, RxP!InitSimulates, Zenon
  <2> QED
    BY <2>3, RxTableSame, Zenon
<1> QED
  BY <1>2, <1>3, ExchangeInvariant, PTL DEF Spec, TableSpec, Rx!TableSpec, Rx!Table!Spec
=============================================================================
