------------------------- MODULE TrackStagesProofs --------------------------
(***************************************************************************)
(* Proofs about the receive and clear stages on a shared track database,   *)
(* for every set of workers, tracks and messages, and about what one       *)
(* caller finds in it.                                                     *)
(***************************************************************************)
EXTENDS TrackNodesProofs

(***************************************************************************)
(* The inductive invariant.                                                *)
(***************************************************************************)

(* The history variables note which runs under way share a track, and which *)
(* have a manual hint.                                                      *)
Noted ==
  \A w \in Workers : stage[w] = "receive" =>
    /\ job[w].hint # "auto" => job[w].id \in hinted
    /\ \A v \in Workers : job[v].id = job[w].id =>
         /\ stage[v] = "clear" => job[w].id \in disturbed
         /\ stage[v] = "receive" /\ v # w => job[w].id \in overlapped

(* What a receive run has learned of its track still holds, unless another  *)
(* run interfered: past the comparison the track is there, before           *)
(* create_entry it is not, and what update_entry overwrites is older than   *)
(* the message.                                                             *)
Receiving(w) ==
  LET id == job[w].id
  IN /\ job[w].time <= now
     /\ phase[w] = "compare" => step[w] = 3 /\ held[w] # 0 /\ job[w].hint = "auto"
     /\ phase[w] = "create"  => step[w] = 7 /\ id \in disturbed \union hinted
     /\ phase[w] = "compare" \/ step[w] \in {5, 6, 7} =>
          tracks[id] # 0 \/ id \in disturbed \union hinted
     /\ id \notin overlapped \union hinted =>
          /\ phase[w] = "compare" => tracks[id] \in {0, held[w]}
          /\ step[w] = 4 => tracks[id] = 0
          /\ step[w] = 5 /\ tracks[id] # 0 => job[w].time > Entry(id).time

(* Between the check and the deletion, an expired track stays expired,      *)
(* unless a receive run interfered.                                         *)
Clearing(w) ==
  LET id == job[w].id
  IN /\ phase[w] = "call"
     /\ step[w] \in {2, 4} => id \in Ids
     /\ step[w] \in {2, 4} /\ id \notin disturbed /\ tracks[id] # 0 => Expired(Entry(id))

(* An entry holds the newest time it has seen, and its version counts the   *)
(* distinct times written to it.                                            *)
Newest(e) ==
  /\ e.time \in e.seen /\ \A t \in e.seen : t <= e.time
  /\ e.written \subseteq e.seen
  /\ IsFiniteSet(e.written) /\ e.version = Cardinality(e.written)

(* The run of one worker, and the tracks on which nothing interfered. *)
RunInv(w) == /\ stage[w] = "idle" => phase[w] = "call" /\ held[w] = 0
             /\ stage[w] = "receive" => Receiving(w)
             /\ stage[w] = "clear" => Clearing(w)

(* The table holds tracks, each under its own track ID.                     *)
TracksGood ==
  \A id \in Ids \ (overlapped \union hinted) : tracks[id] # 0 => Newest(Entry(id))

(* The inductive invariant of the track stages.                             *)
TracksInv == TypeOK /\ Noted /\ (\A w \in Workers : RunInv(w)) /\ TracksGood
-----------------------------------------------------------------------------
(***************************************************************************)
(* What the calls on the database change.                                  *)
(***************************************************************************)

(* The database is well-formed. *)
DbOK == /\ now \in Nat
        /\ entries \in Seq(EntryTypes)
        /\ tracks \in [Ids -> 0..Len(entries)]
        /\ \A id \in Ids : tracks[id] # 0 => Entry(id).id = id

(* Entries are never taken away and keep their track. *)
Grows == /\ Len(entries) \in Nat /\ Len(entries') \in Nat /\ Len(entries') >= Len(entries)
         /\ \A i \in 1..Len(entries) : entries'[i].id = entries[i].id

(* Nothing that a run has learned of a track changes. *)
Same(id) == /\ tracks'[id] = tracks[id]
            /\ tracks[id] # 0 => /\ Entry(id)'.time = Entry(id).time
                                 /\ Entry(id)'.ttl = Entry(id).ttl
                                 /\ Entry(id)'.version = Entry(id).version

(* A track that is there stays the newest message it was compared with. *)
StaysNewest(id) ==
  tracks'[id] # 0 /\ (tracks[id] # 0 => Newest(Entry(id))) => Newest(Entry(id)')

(* What an entry consists of.                                               *)
LEMMA EntryThere ==
  ASSUME DbOK, NEW i \in 1..Len(entries)
  PROVE  /\ entries[i] \in EntryTypes
         /\ entries[i].id \in Ids /\ entries[i].time \in Nat /\ entries[i].ttl \in Nat
         /\ entries[i].version \in Nat \ {0}
         /\ entries[i].written \in SUBSET Nat /\ entries[i].seen \in SUBSET Nat
<1>1. entries[i] \in EntryTypes
  BY ElementOfSeq DEF DbOK
<1> QED
  BY <1>1 DEF EntryTypes

(* A step that leaves the database alone.                                   *)
LEMMA Untouched ==
  ASSUME DbOK, UNCHANGED <<entries, tracks>>, now' \in Nat
  PROVE  DbOK' /\ Grows /\ \A id \in Ids : Same(id) /\ StaysNewest(id)
<1>1. Len(entries) \in Nat
  BY LenProperties DEF DbOK
<1>2. DbOK'
  BY DEF DbOK, Entry
<1>3. Grows
  BY <1>1 DEF Grows
<1>4. ASSUME NEW id \in Ids PROVE Same(id) /\ StaysNewest(id)
  BY DEF Same, StaysNewest, Entry
<1> QED
  BY <1>2, <1>3, <1>4

(* Create adds one track, which holds the newest message seen of it.        *)
LEMMA CreateChanges ==
  ASSUME DbOK, NEW m \in Messages, tracks[m.id] = 0, Create(m)
  PROVE  /\ DbOK' /\ Grows /\ now' = now
         /\ \A id \in Ids : (id # m.id => Same(id)) /\ StaysNewest(id)
         /\ tracks'[m.id] # 0
         /\ Entry(m.id)'.time = m.time /\ Entry(m.id)'.ttl = DefaultTTL
         /\ Entry(m.id)'.version = 1
<1> DEFINE e == [id |-> m.id, time |-> m.time, ttl |-> DefaultTTL,
                 version |-> 1, written |-> {m.time}, seen |-> {m.time}]
           n == Len(entries)
<1>1. m.id \in Ids /\ m.time \in Nat /\ DefaultTTL \in Nat
  BY MessagesAssumption, BoundsAssumption
<1>2. e \in EntryTypes
  BY <1>1 DEF EntryTypes
<1>3. n \in Nat
  BY LenProperties DEF DbOK
<1>4. /\ entries' = Append(entries, e) /\ tracks' = [tracks EXCEPT ![m.id] = n + 1]
      /\ now' = now
  BY DEF Create
<1>11. e.id = m.id
  OBVIOUS
<1> HIDE DEF e
<1>5. /\ entries' \in Seq(EntryTypes) /\ Len(entries') = n + 1 /\ entries'[n + 1] = e
      /\ \A i \in 1..n : entries'[i] = entries[i]
  BY <1>2, <1>4, AppendProperties DEF DbOK
<1>6. \A id \in Ids : tracks'[id] = IF id = m.id THEN n + 1 ELSE tracks[id]
  BY <1>4 DEF DbOK
<1>7. \A id \in Ids : tracks[id] \in 0..n
  BY DEF DbOK
<1>8. DbOK'
  <2>1. tracks' \in [Ids -> 0..(n + 1)]
    BY <1>1, <1>3, <1>4 DEF DbOK
  <2>2. ASSUME NEW id \in Ids, tracks'[id] # 0 PROVE entries'[tracks'[id]].id = id
    BY <1>3, <1>5, <1>6, <1>7, <1>11, <2>2 DEF DbOK, Entry
  <2> QED
    BY <1>4, <1>5, <2>1, <2>2 DEF DbOK, Entry
<1>9. Grows
  BY <1>3, <1>5 DEF Grows
<1>10. ASSUME NEW id \in Ids, id # m.id PROVE Same(id) /\ StaysNewest(id)
  <2>1. tracks'[id] = tracks[id] /\ (tracks[id] # 0 => entries'[tracks[id]] = entries[tracks[id]])
    BY <1>3, <1>5, <1>6, <1>7, <1>10
  <2> QED
    BY <2>1 DEF Same, StaysNewest, Entry
<1>12. /\ StaysNewest(m.id)
       /\ Entry(m.id)'.time = m.time /\ Entry(m.id)'.ttl = DefaultTTL
       /\ Entry(m.id)'.version = 1
  <2>1. Entry(m.id)' = e
    BY <1>1, <1>5, <1>6 DEF Entry
  <2>2. /\ e.time = m.time /\ e.written = {m.time} /\ e.seen = {m.time} /\ e.version = 1
        /\ e.ttl = DefaultTTL
    BY DEF e
  <2>3. IsFiniteSet({m.time}) /\ Cardinality({m.time}) = 1
    BY FS_Singleton
  <2> QED
    BY <1>1, <2>1, <2>2, <2>3 DEF StaysNewest, Newest
<1> QED
  BY <1>1, <1>3, <1>4, <1>6, <1>8, <1>9, <1>10, <1>12
(* A write to one entry.                                                    *)
LEMMA EntryRewritten ==
  ASSUME DbOK, NEW i \in 1..Len(entries), NEW e \in EntryTypes, e.id = entries[i].id,
         entries' = [entries EXCEPT ![i] = e], UNCHANGED <<now, tracks>>
  PROVE  /\ DbOK' /\ Grows
         /\ \A id \in Ids : tracks[id] # 0 =>
              Entry(id)' = IF tracks[id] = i THEN e ELSE Entry(id)
<1>1. /\ entries' \in Seq(EntryTypes) /\ Len(entries') = Len(entries)
      /\ \A j \in 1..Len(entries) : entries'[j] = IF j = i THEN e ELSE entries[j]
  BY ExceptSeq DEF DbOK
<1>2. Len(entries) \in Nat
  BY LenProperties DEF DbOK
<1>3. \A id \in Ids : tracks[id] # 0 => tracks[id] \in 1..Len(entries)
  BY <1>2 DEF DbOK
<1>4. ASSUME NEW id \in Ids, tracks[id] # 0
      PROVE  Entry(id)' = IF tracks[id] = i THEN e ELSE Entry(id)
  BY <1>1, <1>3, <1>4 DEF Entry
<1>5. \A id \in Ids : tracks[id] # 0 => Entry(id)'.id = id
  BY <1>4 DEF DbOK, Entry
<1>6. DbOK'
  BY <1>1, <1>5 DEF DbOK, Entry
<1>7. Grows
  BY <1>1, <1>2 DEF Grows
<1> QED
  BY <1>4, <1>6, <1>7

(* An updated entry, field by field.                                        *)
LEMMA EntryUpdated ==
  ASSUME NEW o \in EntryTypes, NEW t
  PROVE  [o EXCEPT !.time = t, !.version = @ + 1,
                   !.written = @ \union {t}, !.seen = @ \union {t}]
           = [id |-> o.id, time |-> t, ttl |-> o.ttl, version |-> o.version + 1,
              written |-> o.written \union {t}, seen |-> o.seen \union {t}]
<1> DEFINE f == [o EXCEPT !.time = t, !.version = @ + 1,
                          !.written = @ \union {t}, !.seen = @ \union {t}]
<1>1. DOMAIN o = {"id", "time", "ttl", "version", "written", "seen"}
  BY DEF EntryTypes
<1>2. f = [k \in DOMAIN o |-> f[k]]
  OBVIOUS
<1>3. /\ f.id = o.id /\ f.time = t /\ f.ttl = o.ttl /\ f.version = o.version + 1
      /\ f.written = o.written \union {t} /\ f.seen = o.seen \union {t}
  BY <1>1
<1> HIDE DEF f
<1>4. f = [id |-> f.id, time |-> f.time, ttl |-> f.ttl, version |-> f.version,
           written |-> f.written, seen |-> f.seen]
  BY <1>1, <1>2
<1> QED
  BY <1>3, <1>4 DEF f

(* Update changes one track, which stays the newest if the message is newer. *)
LEMMA UpdateChanges ==
  ASSUME DbOK, NEW m \in Messages, tracks[m.id] # 0, Update(m)
  PROVE  /\ DbOK' /\ Grows /\ now' = now /\ tracks' = tracks
         /\ \A id \in Ids : id # m.id => Same(id) /\ StaysNewest(id)
         /\ m.time > Entry(m.id).time => StaysNewest(m.id)
         /\ Entry(m.id)'.time = m.time /\ Entry(m.id)'.ttl = Entry(m.id).ttl
         /\ Entry(m.id)'.version = Entry(m.id).version + 1
<1> DEFINE i == tracks[m.id]
           o == entries[i]
           e == [o EXCEPT !.time = m.time, !.version = @ + 1,
                          !.written = @ \union {m.time}, !.seen = @ \union {m.time}]
<1>1. m.id \in Ids /\ m.time \in Nat
  BY MessagesAssumption
<1>2. i \in 1..Len(entries)
  <2>1. Len(entries) \in Nat
    BY LenProperties DEF DbOK
  <2> QED
    BY <1>1, <2>1 DEF DbOK
<1>3. o \in EntryTypes
  BY <1>2, EntryThere
<1>7. /\ o.id \in Ids /\ o.ttl \in Nat /\ o.time \in Nat /\ o.version \in Nat
      /\ o.written \in SUBSET Nat /\ o.seen \in SUBSET Nat
  BY <1>2, EntryThere
<1> HIDE DEF o
<1>4. e \in EntryTypes
  <2>1. /\ o.id \in Ids /\ o.ttl \in Nat /\ o.version + 1 \in Nat \ {0}
        /\ o.written \union {m.time} \in SUBSET Nat /\ o.seen \union {m.time} \in SUBSET Nat
    BY <1>1, <1>7
  <2>2. e = [id |-> o.id, time |-> m.time, ttl |-> o.ttl, version |-> o.version + 1,
             written |-> o.written \union {m.time}, seen |-> o.seen \union {m.time}]
    BY <1>3, EntryUpdated
  <2> HIDE DEF e
  <2> QED
    BY <1>1, <2>1, <2>2 DEF EntryTypes
<1>5. /\ e.id = o.id /\ e.time = m.time /\ e.ttl = o.ttl /\ e.version = o.version + 1
      /\ e.written = o.written \union {m.time} /\ e.seen = o.seen \union {m.time}
  <2>1. e = [id |-> o.id, time |-> m.time, ttl |-> o.ttl, version |-> o.version + 1,
             written |-> o.written \union {m.time}, seen |-> o.seen \union {m.time}]
    BY <1>3, EntryUpdated
  <2> HIDE DEF e
  <2> QED
    BY <2>1
<1>6. entries' = [entries EXCEPT ![i] = e] /\ UNCHANGED <<now, tracks>>
  BY DEF Update, o
<1>9. o = Entry(m.id)
  BY DEF Entry, o
<1> HIDE DEF e
<1>8. /\ DbOK' /\ Grows
      /\ \A id \in Ids : tracks[id] # 0 => Entry(id)' = IF tracks[id] = i THEN e ELSE Entry(id)
  <2>1. e.id = entries[i].id
    BY <1>5 DEF o
  <2> QED
    BY <1>2, <1>4, <1>6, <2>1, EntryRewritten
<1>10. ASSUME NEW id \in Ids, id # m.id PROVE Same(id) /\ StaysNewest(id)
  <2>1. tracks[id] # 0 => tracks[id] # i
    BY <1>1, <1>10 DEF DbOK, Entry
  <2>2. tracks' = tracks /\ (tracks[id] # 0 => Entry(id)' = Entry(id))
    BY <1>6, <1>8, <2>1
  <2> QED
    BY <2>2 DEF Same, StaysNewest
<1>11. ASSUME m.time > o.time, Newest(o) PROVE Newest(e)
  <2>1. o.time \in o.seen /\ (\A t \in o.seen : t <= o.time) /\ o.written \subseteq o.seen
    BY <1>11 DEF Newest
  <2>2. \A t \in e.seen : t <= e.time
    BY <1>1, <1>5, <1>7, <1>11, <2>1
  <2>3. m.time \notin o.written
    BY <1>1, <1>7, <1>11, <2>1
  <2>4. IsFiniteSet(o.written) /\ o.version = Cardinality(o.written)
    BY <1>11 DEF Newest
  <2>5. IsFiniteSet(e.written) /\ Cardinality(e.written) = Cardinality(o.written) + 1
    <3>1. e.written = o.written \union {m.time}
      BY <1>5, Zenon
    <3>2. /\ IsFiniteSet(o.written \union {m.time})
          /\ Cardinality(o.written \union {m.time}) = Cardinality(o.written) + 1
      <4> DEFINE S == o.written
                 x == m.time
      <4>1. IsFiniteSet(S) /\ x \notin S
        BY <2>3, <2>4
      <4> HIDE DEF S, x
      <4>2. IsFiniteSet(S \union {x}) /\ Cardinality(S \union {x}) = Cardinality(S) + 1
        BY <4>1, FS_AddElement
      <4> QED
        BY <4>2 DEF S, x
    <3> QED
      BY <3>1, <3>2, Zenon
  <2>6. e.time \in e.seen /\ e.written \subseteq e.seen
    BY <1>5, <2>1
  <2>7. e.version = Cardinality(e.written)
    BY <1>5, <2>4, <2>5, Zenon
  <2> QED
    BY <2>2, <2>5, <2>6, <2>7 DEF Newest
<1>12. /\ m.time > Entry(m.id).time => StaysNewest(m.id)
       /\ Entry(m.id)'.time = m.time /\ Entry(m.id)'.ttl = Entry(m.id).ttl
       /\ Entry(m.id)'.version = Entry(m.id).version + 1
  <2>1. Entry(m.id)' = e
    BY <1>1, <1>8
  <2> QED
    BY <1>5, <1>9, <1>11, <2>1 DEF StaysNewest
<1> QED
  BY <1>6, <1>8, <1>10, <1>12

(* Noting a duplicate leaves the track the newest unless it was newer.      *)
LEMMA DuplicateChanges ==
  ASSUME DbOK, NEW i \in 1..Len(entries), NEW t \in Nat, UNCHANGED <<now, tracks>>,
         entries' = [entries EXCEPT ![i].seen = @ \union {t}]
  PROVE  /\ DbOK' /\ Grows
         /\ \A id \in Ids : /\ Same(id)
                            /\ (tracks[id] = i => t <= Entry(id).time) => StaysNewest(id)
<1> DEFINE o == entries[i]
           e == [o EXCEPT !.seen = @ \union {t}]
<1>1. o \in EntryTypes
  BY EntryThere
<1>2. /\ e \in EntryTypes /\ e.id = o.id /\ e.time = o.time /\ e.ttl = o.ttl
      /\ e.version = o.version /\ e.written = o.written /\ e.seen = o.seen \union {t}
  BY <1>1 DEF EntryTypes
<1>3. entries' = [entries EXCEPT ![i] = e]
  OBVIOUS
<1> HIDE DEF e
<1>4. /\ DbOK' /\ Grows
      /\ \A id \in Ids : tracks[id] # 0 => Entry(id)' = IF tracks[id] = i THEN e ELSE Entry(id)
  BY <1>2, <1>3, EntryRewritten
<1>5. ASSUME NEW id \in Ids
      PROVE  Same(id)
  <2>1. tracks[id] # 0 => /\ Entry(id)'.time = Entry(id).time /\ Entry(id)'.ttl = Entry(id).ttl
                          /\ Entry(id)'.version = Entry(id).version
    BY <1>2, <1>4 DEF Entry
  <2> QED
    BY <2>1 DEF Same
<1>6. ASSUME NEW id \in Ids, tracks[id] = i => t <= Entry(id).time
      PROVE  StaysNewest(id)
  <2>1. CASE tracks[id] = i
    <3>1. Entry(id)' = e /\ Entry(id) = o
      BY <1>4, <2>1 DEF Entry
    <3>2. Newest(o) => Newest(e)
      BY <1>2, <1>6, <2>1, <3>1 DEF Newest
    <3> QED
      BY <2>1, <3>1, <3>2 DEF StaysNewest
  <2>2. CASE tracks[id] # i
    BY <1>4, <2>2 DEF StaysNewest
  <2> QED
    BY <2>1, <2>2
<1> QED
  BY <1>4, <1>5, <1>6

(* SetTTL changes no time, version or history.                              *)
LEMMA TTLChanges ==
  ASSUME DbOK, NEW id \in Ids, NEW ttl \in Nat, tracks[id] # 0, UNCHANGED <<now, tracks>>,
         entries' = [entries EXCEPT ![tracks[id]].ttl = ttl]
  PROVE  /\ DbOK' /\ Grows
         /\ \A other \in Ids : (other # id => Same(other)) /\ StaysNewest(other)
         /\ Entry(id)'.time = Entry(id).time /\ Entry(id)'.ttl = ttl
         /\ Entry(id)'.version = Entry(id).version
<1> DEFINE i == tracks[id]
           o == entries[i]
           e == [o EXCEPT !.ttl = ttl]
<1>5. i \in 1..Len(entries)
  <2>1. Len(entries) \in Nat
    BY LenProperties DEF DbOK
  <2> QED
    BY <2>1 DEF DbOK
<1>1. o \in EntryTypes
  BY <1>5, EntryThere
<1>2. /\ e \in EntryTypes /\ e.id = o.id /\ e.time = o.time /\ e.ttl = ttl
      /\ e.version = o.version /\ e.written = o.written /\ e.seen = o.seen
  BY <1>1 DEF EntryTypes
<1>3. entries' = [entries EXCEPT ![i] = e]
  OBVIOUS
<1> HIDE DEF e
<1>4. /\ DbOK' /\ Grows
      /\ \A x \in Ids : tracks[x] # 0 => Entry(x)' = IF tracks[x] = i THEN e ELSE Entry(x)
  BY <1>2, <1>3, <1>5, EntryRewritten
<1>6. Newest(o) => Newest(e)
  BY <1>2 DEF Newest
<1>7. \A x \in Ids : StaysNewest(x)
  BY <1>4, <1>6 DEF StaysNewest, Entry
<1>8. ASSUME NEW x \in Ids, x # id PROVE Same(x)
  <2>1. tracks[x] # 0 => tracks[x] # i
    BY <1>8 DEF DbOK, Entry
  <2> QED
    BY <1>4, <2>1 DEF Same
<1>9. /\ Entry(id)'.time = Entry(id).time /\ Entry(id)'.ttl = ttl
      /\ Entry(id)'.version = Entry(id).version
  BY <1>2, <1>4 DEF Entry
<1> QED
  BY <1>4, <1>7, <1>8, <1>9

(* Removing tracks changes none of those that remain.                       *)
LEMMA RemovalChanges ==
  ASSUME DbOK, UNCHANGED <<now, entries>>, tracks' \in [Ids -> Nat],
         \A id \in Ids : tracks'[id] \in {0, tracks[id]}
  PROVE  /\ DbOK' /\ Grows
         /\ \A id \in Ids : /\ tracks'[id] # 0 => Same(id)
                            /\ tracks'[id] = tracks[id] => Same(id)
                            /\ StaysNewest(id)
<1>1. Len(entries) \in Nat
  BY LenProperties DEF DbOK
<1>2. tracks' \in [Ids -> 0..Len(entries)]
  BY <1>1 DEF DbOK
<1>3. DbOK'
  BY <1>2 DEF DbOK, Entry
<1>4. Grows
  BY <1>1 DEF Grows
<1>5. ASSUME NEW id \in Ids
      PROVE  /\ tracks'[id] # 0 => Same(id)
             /\ tracks'[id] = tracks[id] => Same(id)
             /\ StaysNewest(id)
  BY DEF Same, StaysNewest, Entry
<1> QED
  BY <1>3, <1>4, <1>5
-----------------------------------------------------------------------------
(***************************************************************************)
(* What a step changes of the runs.                                         *)
(***************************************************************************)
WorkTypes ==
  /\ stage \in [Workers -> {"idle", "receive", "clear"}]
  /\ step \in [Workers -> Nat]
  /\ job \in [Workers -> Messages \union [id : Ids \union {AllTracks}]]
  /\ phase \in [Workers -> {"call", "compare", "create"}]
  /\ held \in [Workers -> 0..Len(entries)]
  /\ outcome \in [Workers -> {"none", "completed", "aborted", "undefined_routing"}]

(* What a step of the worker itself may assume of its run.                  *)
RunOK(w) ==
  /\ stage[w] = "idle" => job[w] = NoJob
  /\ stage[w] = "receive" => job[w] \in Messages
  /\ stage[w] = "clear" => job[w] \in [id : Ids \union {AllTracks}]
  /\ step[w] \in DOMAIN StepsOf(w)
  /\ held[w] # 0 => entries[held[w]].id = job[w].id

(* What the history variables record of the table.                          *)
HistoryOK ==
  /\ receives \in 0..MaxReceives
  /\ overlapped \subseteq Ids /\ disturbed \subseteq Ids /\ hinted \subseteq Ids

(* The type invariant is that of the database, of the runs and of the history. *)
LEMMA TypeParts ==
  TypeOK <=> kind \in Kinds /\ DbOK /\ WorkTypes /\ (\A w \in Workers : RunOK(w)) /\ HistoryOK
BY DEF TypeOK, DbOK, WorkTypes, RunOK, HistoryOK

(* The same in the next state.                                              *)
LEMMA TypePartsAfter ==
  kind' \in Kinds /\ DbOK' /\ WorkTypes' /\ (\A w \in Workers : RunOK(w)') /\ HistoryOK'
    => TypeOK'
BY DEF TypeOK, DbOK, WorkTypes, RunOK, HistoryOK

(* The run of this worker is left alone.                                    *)
SameRun(w) == /\ stage'[w] = stage[w] /\ step'[w] = step[w] /\ job'[w] = job[w]
              /\ phase'[w] = phase[w] /\ held'[w] = held[w]

(* The runs of all the other workers are left alone.                        *)
Others(w) == \A v \in Workers \ {w} : SameRun(v)

(* A receive stage has seven steps, a clear stage four.                     *)
LEMMA StepLimits ==
  ASSUME NEW w \in Workers, kind \in Kinds
  PROVE  DOMAIN StepsOf(w) = IF stage[w] = "receive" THEN 1..7 ELSE 1..4
<1>1. kind \in {"J2.2", "J3.2"}
  BY StagesAssumption
<1> QED
  BY <1>1, ReceiveTable, ClearTable DEF StepsOf

(* The same in the next state.                                              *)
LEMMA StepLimitsAfter ==
  ASSUME NEW w \in Workers, kind' \in Kinds
  PROVE  DOMAIN StepsOf(w)' = IF stage'[w] = "receive" THEN 1..7 ELSE 1..4
<1>1. kind' \in {"J2.2", "J3.2"}
  BY StagesAssumption
<1> QED
  BY <1>1, ReceiveTable, ClearTable DEF StepsOf

(* A run that goes on changes its step and nothing else of any run.         *)
LEMMA MoveChanges ==
  ASSUME TypeOK, NEW w \in Workers, NEW i \in Nat, MovesTo(w, i), Grows, kind' = kind,
         i \in 1..4 \/ (stage[w] = "receive" /\ i \in 1..7)
  PROVE  /\ WorkTypes' /\ Others(w) /\ RunOK(w)' /\ outcome' = outcome
         /\ stage'[w] = stage[w] /\ job'[w] = job[w] /\ step'[w] = i
         /\ phase'[w] = "call" /\ held'[w] = 0
<1>1. /\ step' = [step EXCEPT ![w] = i] /\ UNCHANGED <<stage, job, outcome>>
      /\ phase' = [phase EXCEPT ![w] = "call"] /\ held' = [held EXCEPT ![w] = 0]
  BY DEF MovesTo, Proceeds
<1>2. WorkTypes
  BY TypeParts
<1>3. WorkTypes'
  BY <1>1, <1>2 DEF WorkTypes, Grows
<1>4. Others(w)
  BY <1>1, <1>2 DEF WorkTypes, Others, SameRun
<1>5. /\ stage'[w] = stage[w] /\ job'[w] = job[w] /\ step'[w] = i
      /\ phase'[w] = "call" /\ held'[w] = 0
  BY <1>1, <1>2 DEF WorkTypes
<1>6. i \in DOMAIN StepsOf(w)'
  BY <1>5, StepLimitsAfter DEF TypeOK
<1>7. RunOK(w)'
  BY <1>5, <1>6, TypeParts DEF RunOK
<1> QED
  BY <1>1, <1>3, <1>4, <1>5, <1>7

(* A run that ends leaves its worker idle.                                  *)
LEMMA EndChanges ==
  ASSUME TypeOK, NEW w \in Workers, NEW result, Ends(w, result), Grows, kind' = kind,
         result \in {"completed", "aborted", "undefined_routing"}
  PROVE  /\ WorkTypes' /\ Others(w) /\ RunOK(w)' /\ outcome' = [outcome EXCEPT ![w] = result]
         /\ stage'[w] = "idle" /\ job'[w] = NoJob
         /\ phase'[w] = "call" /\ held'[w] = 0
<1>1. /\ stage' = [stage EXCEPT ![w] = "idle"] /\ step' = [step EXCEPT ![w] = 1]
      /\ job' = [job EXCEPT ![w] = NoJob] /\ outcome' = [outcome EXCEPT ![w] = result]
      /\ phase' = [phase EXCEPT ![w] = "call"] /\ held' = [held EXCEPT ![w] = 0]
  BY DEF Ends, Return, Proceeds
<1>2. WorkTypes
  BY TypeParts
<1>3. WorkTypes'
  BY <1>1, <1>2 DEF WorkTypes, Grows, NoJob
<1>4. Others(w)
  BY <1>1, <1>2 DEF WorkTypes, Others, SameRun
<1>5. /\ stage'[w] = "idle" /\ job'[w] = NoJob /\ step'[w] = 1
      /\ phase'[w] = "call" /\ held'[w] = 0
  BY <1>1, <1>2 DEF WorkTypes
<1>6. 1 \in DOMAIN StepsOf(w)'
  <2>1. kind' \in Kinds
    BY DEF TypeOK
  <2> QED
    BY <1>5, <2>1, StepLimitsAfter
<1>7. RunOK(w)'
  BY <1>5, <1>6 DEF RunOK, NoJob
<1> QED
  BY <1>1, <1>3, <1>4, <1>5, <1>7

(* A node that goes on to its second part keeps its place.                  *)
LEMMA HoldChanges ==
  ASSUME TypeOK, NEW w \in Workers, NEW p \in {"compare", "create"}, NEW e \in 0..Len(entries),
         Hold(w, p, e), UNCHANGED <<kind, dbVars>>, e # 0 => entries[e].id = job[w].id
  PROVE  /\ WorkTypes' /\ Others(w) /\ RunOK(w)' /\ outcome' = outcome
         /\ stage'[w] = stage[w] /\ job'[w] = job[w] /\ step'[w] = step[w]
         /\ phase'[w] = p /\ held'[w] = e
<1>1. /\ UNCHANGED <<stage, step, job, outcome, entries>>
      /\ phase' = [phase EXCEPT ![w] = p] /\ held' = [held EXCEPT ![w] = e]
  BY DEF Hold, dbVars
<1>2. WorkTypes
  BY TypeParts
<1>3. WorkTypes'
  BY <1>1, <1>2 DEF WorkTypes
<1>4. Others(w)
  BY <1>1, <1>2 DEF WorkTypes, Others, SameRun
<1>5. phase'[w] = p /\ held'[w] = e
  BY <1>1, <1>2 DEF WorkTypes
<1>7. RunOK(w)'
  BY <1>1, <1>5, TypeParts DEF RunOK, StepsOf
<1> QED
  BY <1>1, <1>3, <1>4, <1>5, <1>7

(* A run that a step leaves alone stays well-formed.                        *)
LEMMA OthersFine ==
  ASSUME TypeOK, NEW v \in Workers, SameRun(v), Grows, kind' = kind
  PROVE  RunOK(v)'
<1>1. RunOK(v)
  BY TypeParts
<1>2. DOMAIN StepsOf(v)' = DOMAIN StepsOf(v)
  BY DEF StepsOf, SameRun
<1>3. held[v] # 0 => entries'[held[v]].id = entries[held[v]].id
  BY DEF TypeOK, Grows
<1> QED
  BY <1>1, <1>2, <1>3 DEF RunOK, SameRun
(* What a receive run has learned still holds after a step of another run.  *)
LEMMA ReceivingKept ==
  ASSUME NEW v \in Workers, SameRun(v), Receiving(v), UNCHANGED <<now, overlapped, hinted>>,
         disturbed \subseteq disturbed',
         LET id == job[v].id
         IN \/ Same(id)
            \/ tracks'[id] # 0 /\ id \in overlapped
            \/ tracks'[id] = 0 /\ id \in disturbed'
  PROVE  Receiving(v)'
<1> DEFINE id == job[v].id
<1>1. job'[v].id = id /\ job'[v] = job[v]
  BY DEF SameRun
<1>2. CASE Same(id)
  BY <1>2 DEF Receiving, SameRun, Same, Entry
<1>3. CASE tracks'[id] # 0 /\ id \in overlapped
  BY <1>3 DEF Receiving, SameRun
<1>4. CASE tracks'[id] = 0 /\ id \in disturbed'
  BY <1>4 DEF Receiving, SameRun
<1> QED
  BY <1>2, <1>3, <1>4

(* What a clear run has learned still holds after a step of another run.    *)
LEMMA ClearingKept ==
  ASSUME NEW v \in Workers, SameRun(v), Clearing(v), now' = now,
         disturbed \subseteq disturbed',
         LET id == job[v].id
         IN id \in Ids \ disturbed => Same(id) \/ tracks'[id] = 0
  PROVE  Clearing(v)'
BY DEF Clearing, SameRun, Same, Expired, Entry

(* A node starts no run, so what was noted of the runs under way suffices.  *)
LEMMA NotedKept ==
  ASSUME Noted, NEW w \in Workers, Others(w),
         stage'[w] = "idle" \/ (stage'[w] = stage[w] /\ job'[w] = job[w]),
         UNCHANGED <<overlapped, hinted>>, disturbed \subseteq disturbed'
  PROVE  Noted'
<1>1. \A v \in Workers : stage'[v] # "idle" => stage'[v] = stage[v] /\ job'[v] = job[v]
  BY DEF Others, SameRun
<1> SUFFICES ASSUME NEW u \in Workers, stage'[u] = "receive"
             PROVE  /\ job'[u].hint # "auto" => job'[u].id \in hinted'
                    /\ \A v \in Workers : job'[v].id = job'[u].id =>
                         /\ stage'[v] = "clear" => job'[u].id \in disturbed'
                         /\ stage'[v] = "receive" /\ v # u => job'[u].id \in overlapped'
  BY DEF Noted
<1>2. stage[u] = "receive" /\ job'[u] = job[u]
  BY <1>1
<1>3. job'[u].hint # "auto" => job'[u].id \in hinted'
  BY <1>2 DEF Noted
<1>4. ASSUME NEW v \in Workers, job'[v].id = job'[u].id
      PROVE  /\ stage'[v] = "clear" => job'[u].id \in disturbed'
             /\ stage'[v] = "receive" /\ v # u => job'[u].id \in overlapped'
  <2>1. CASE stage'[v] = "idle"
    BY <2>1
  <2>2. CASE stage'[v] # "idle"
    <3>1. stage'[v] = stage[v] /\ job'[v] = job[v]
      BY <1>1, <2>2
    <3> QED
      BY <1>2, <1>4, <3>1 DEF Noted
  <2> QED
    BY <2>1, <2>2
<1> QED
  BY <1>3, <1>4

(* A run that a node of w's leaves alone. *)
Undisturbed(v) ==
  LET id == job[v].id
  IN /\ stage[v] = "receive" => \/ Same(id)
                                \/ tracks'[id] # 0 /\ id \in overlapped
                                \/ tracks'[id] = 0 /\ id \in disturbed'
     /\ stage[v] = "clear" => (id \in Ids \ disturbed => Same(id) \/ tracks'[id] = 0)

(* A node of one worker keeps the invariant if that worker's run is as it should *)
(* be and the others' are undisturbed.                                      *)
LEMMA NodeKeeps ==
  ASSUME TracksInv, NEW w \in Workers, kind' = kind, now' = now, DbOK', Grows,
         UNCHANGED <<receives, overlapped, hinted>>,
         disturbed \subseteq disturbed', disturbed' \subseteq Ids,
         WorkTypes', Others(w), RunOK(w)',
         stage'[w] = "idle" \/ (stage'[w] = stage[w] /\ job'[w] = job[w]),
         RunInv(w)',
         \A v \in Workers \ {w} : Undisturbed(v),
         \A id \in Ids \ (overlapped \union hinted) : StaysNewest(id)
  PROVE  TracksInv'
<1>1. TypeOK /\ Noted /\ (\A v \in Workers : RunInv(v)) /\ TracksGood
  BY DEF TracksInv
<1>2. TypeOK'
  <2>1. \A v \in Workers : RunOK(v)'
    BY <1>1, OthersFine DEF Others
  <2>2. kind' \in Kinds /\ HistoryOK'
    BY <1>1, TypeParts DEF HistoryOK
  <2> QED
    BY <2>1, <2>2, TypePartsAfter
<1>3. Noted'
  BY <1>1, NotedKept
<1>4. ASSUME NEW v \in Workers, v # w PROVE RunInv(v)'
  <2>1. SameRun(v) /\ RunInv(v) /\ Undisturbed(v)
    BY <1>1, <1>4 DEF Others
  <2>2. stage[v] = "idle" => RunInv(v)'
    BY <2>1 DEF RunInv, SameRun
  <2>3. stage[v] = "receive" => RunInv(v)'
    <3>1. stage[v] = "receive" => Receiving(v)'
      BY <2>1, ReceivingKept DEF RunInv, Undisturbed
    <3> QED
      BY <2>1, <3>1 DEF RunInv, SameRun
  <2>4. stage[v] = "clear" => RunInv(v)'
    <3>1. stage[v] = "clear" => Clearing(v)'
      BY <2>1, ClearingKept DEF RunInv, Undisturbed
    <3> QED
      BY <2>1, <3>1 DEF RunInv, SameRun
  <2>5. stage[v] \in {"idle", "receive", "clear"}
    BY <1>1 DEF TypeOK
  <2> QED
    BY <2>2, <2>3, <2>4, <2>5
<1>5. TracksGood'
  BY <1>1 DEF TracksGood, StaysNewest
<1> QED
  BY <1>2, <1>3, <1>4, <1>5 DEF TracksInv
-----------------------------------------------------------------------------
(***************************************************************************)
(* Every node keeps the invariant.                                          *)
(***************************************************************************)
(* The parts of the invariant.                                              *)
LEMMA InvParts ==
  ASSUME TracksInv
  PROVE  /\ TypeOK /\ DbOK /\ WorkTypes /\ HistoryOK /\ Noted /\ TracksGood
         /\ \A w \in Workers : RunOK(w) /\ RunInv(w)
BY TypeParts DEF TracksInv

(* A receive run works on a message, on the track it names.                 *)
LEMMA ReceivedTrack ==
  ASSUME TypeOK, NEW w \in Workers, stage[w] = "receive"
  PROVE  job[w] \in Messages /\ job[w].id \in Ids /\ job[w].time \in Nat
BY MessagesAssumption DEF TypeOK

(* A step that leaves the database and the history alone disturbs no run.   *)
LEMMA Quiet ==
  ASSUME TracksInv, UNCHANGED <<dbVars, history>>
  PROVE  /\ DbOK' /\ Grows /\ \A id \in Ids : Same(id) /\ StaysNewest(id)
         /\ \A v \in Workers : Undisturbed(v)
<1>1. DbOK' /\ Grows /\ \A id \in Ids : Same(id) /\ StaysNewest(id)
  BY InvParts, Untouched DEF dbVars, DbOK
<1>2. ASSUME NEW v \in Workers PROVE Undisturbed(v)
  BY <1>1, InvParts, ReceivedTrack DEF Undisturbed
<1> QED
  BY <1>1, <1>2

(* A receive run touches no track but its own, which it does not remove. *)
LEMMA ReceiverInterferes ==
  ASSUME TracksInv, NEW w \in Workers, stage[w] = "receive",
         \A id \in Ids : id # job[w].id => Same(id),
         Same(job[w].id) \/ tracks'[job[w].id] # 0
  PROVE  \A v \in Workers \ {w} : Undisturbed(v)
<1> SUFFICES ASSUME NEW v \in Workers \ {w} PROVE Undisturbed(v)
  OBVIOUS
<1>1. Noted
  BY InvParts
<1>2. CASE stage[v] = "receive"
  <2>1. job[v].id \in Ids
    BY <1>2, InvParts, ReceivedTrack
  <2>2. job[v].id = job[w].id => job[w].id \in overlapped
    BY <1>1, <1>2 DEF Noted
  <2> QED
    BY <1>2, <2>1, <2>2 DEF Undisturbed
<1>3. CASE stage[v] = "clear"
  <2>1. job[v].id = job[w].id => job[w].id \in disturbed
    BY <1>1, <1>3 DEF Noted
  <2> QED
    BY <1>3, <2>1 DEF Undisturbed
<1> QED
  BY <1>2, <1>3 DEF Undisturbed

(* The steps of a node after which its run has ended. *)
LEMMA EndKeeps ==
  ASSUME TracksInv, NEW w \in Workers, NEW result, Ends(w, result),
         result \in {"completed", "aborted", "undefined_routing"},
         kind' = kind, now' = now, DbOK', Grows,
         UNCHANGED <<receives, overlapped, hinted>>,
         disturbed \subseteq disturbed', disturbed' \subseteq Ids,
         \A v \in Workers \ {w} : Undisturbed(v),
         \A id \in Ids \ (overlapped \union hinted) : StaysNewest(id)
  PROVE  TracksInv'
<1>1. /\ WorkTypes' /\ Others(w) /\ RunOK(w)' /\ stage'[w] = "idle"
      /\ phase'[w] = "call" /\ held'[w] = 0
  BY InvParts, EndChanges
<1>2. RunInv(w)'
  BY <1>1 DEF RunInv
<1> QED
  BY <1>1, <1>2, NodeKeeps

(* The steps of a node after which its run goes on. *)
LEMMA MoveKeeps ==
  ASSUME TracksInv, NEW w \in Workers, NEW i \in Nat, MovesTo(w, i),
         i \in 1..4 \/ (stage[w] = "receive" /\ i \in 1..7),
         kind' = kind, now' = now, DbOK', Grows,
         UNCHANGED <<receives, overlapped, hinted>>,
         disturbed \subseteq disturbed', disturbed' \subseteq Ids,
         stage'[w] = stage[w] /\ job'[w] = job[w] /\ step'[w] = i
           /\ phase'[w] = "call" => RunInv(w)',
         \A v \in Workers \ {w} : Undisturbed(v),
         \A id \in Ids \ (overlapped \union hinted) : StaysNewest(id)
  PROVE  TracksInv'
<1>1. /\ WorkTypes' /\ Others(w) /\ RunOK(w)'
      /\ stage'[w] = stage[w] /\ job'[w] = job[w] /\ step'[w] = i /\ phase'[w] = "call"
  BY InvParts, MoveChanges
<1> QED
  BY <1>1, NodeKeeps

(* A node that leaves the database alone. *)
LEMMA QuietEndKeeps ==
  ASSUME TracksInv, NEW w \in Workers, NEW result, Ends(w, result),
         result \in {"completed", "aborted", "undefined_routing"},
         kind' = kind, UNCHANGED <<dbVars, history>>
  PROVE  TracksInv'
<1>1. disturbed \subseteq Ids
  BY InvParts DEF HistoryOK
<1> QED
  BY <1>1, Quiet, EndKeeps DEF dbVars, history

(* The same for a run that goes on.                                         *)
LEMMA QuietMoveKeeps ==
  ASSUME TracksInv, NEW w \in Workers, NEW i \in Nat, MovesTo(w, i),
         i \in 1..4 \/ (stage[w] = "receive" /\ i \in 1..7),
         kind' = kind, UNCHANGED <<dbVars, history>>,
         stage'[w] = stage[w] /\ job'[w] = job[w] /\ step'[w] = i
           /\ phase'[w] = "call" => RunInv(w)'
  PROVE  TracksInv'
<1>1. disturbed \subseteq Ids
  BY InvParts DEF HistoryOK
<1> QED
  BY <1>1, Quiet, MoveKeeps DEF dbVars, history

(* Passive nodes keep the invariant.                                        *)
LEMMA PassiveKeeps ==
  ASSUME TracksInv, NEW w \in Workers, Passive(w), kind' = kind
  PROVE  TracksInv'
<1>1. TypeOK /\ RunInv(w)
  BY InvParts
<1>2. UNCHANGED <<dbVars, history>> /\ phase[w] = "call"
  BY <1>1, PassiveDoes
<1>3. CASE stage[w] = "receive" /\ step[w] = 2 /\ MovesTo(w, 3)
  <2>1. stage'[w] = stage[w] /\ job'[w] = job[w] /\ step'[w] = 3 /\ phase'[w] = "call"
          => RunInv(w)'
    BY <1>1, <1>2, <1>3 DEF RunInv, Receiving, dbVars, history
  <2> QED
    BY <1>2, <1>3, <2>1, QuietMoveKeeps
<1>4. CASE stage[w] = "receive" /\ step[w] = 6 /\ MovesTo(w, 7)
  <2>1. stage'[w] = stage[w] /\ job'[w] = job[w] /\ step'[w] = 7 /\ phase'[w] = "call"
          => RunInv(w)'
    BY <1>1, <1>2, <1>4 DEF RunInv, Receiving, dbVars, history
  <2> QED
    BY <1>2, <1>4, <2>1, QuietMoveKeeps
<1>5. CASE stage[w] = "clear" /\ step[w] = 2 /\ MovesTo(w, 4)
  <2>1. stage'[w] = stage[w] /\ job'[w] = job[w] /\ step'[w] = 4 /\ phase'[w] = "call"
          => RunInv(w)'
    BY <1>1, <1>2, <1>5 DEF RunInv, Clearing, Expired, Entry, dbVars, history
  <2> QED
    BY <1>2, <1>5, <2>1, QuietMoveKeeps
<1>6. CASE stage[w] = "clear" /\ step[w] = 3 /\ Ends(w, "completed")
  BY <1>2, <1>6, QuietEndKeeps
<1> QED
  BY <1>1, <1>3, <1>4, <1>5, <1>6, PassiveDoes

(* So does decode_message.                                                  *)
LEMMA DecodeKeeps ==
  ASSUME TracksInv, NEW w \in Workers, Decode(w), kind' = kind
  PROVE  TracksInv'
<1>1. TypeOK /\ RunInv(w)
  BY InvParts
<1>2. /\ stage[w] = "receive" /\ step[w] = 1 /\ phase[w] = "call"
      /\ UNCHANGED <<dbVars, history>>
      /\ MovesTo(w, 2) \/ Ends(w, "aborted")
  BY <1>1, DecodeDoes
<1>3. stage'[w] = stage[w] /\ job'[w] = job[w] /\ step'[w] = 2 /\ phase'[w] = "call"
        => RunInv(w)'
  BY <1>1, <1>2 DEF RunInv, Receiving, dbVars, history
<1> QED
  BY <1>2, <1>3, QuietMoveKeeps, QuietEndKeeps

(* So does correlate with a hint: the track is noted as hinted.             *)
LEMMA CorrelateManualKeeps ==
  ASSUME TracksInv, NEW w \in Workers, CorrelateManual(w), kind' = kind
  PROVE  TracksInv'
<1>1. TypeOK /\ RunInv(w) /\ Noted
  BY InvParts
<1>2. /\ stage[w] = "receive" /\ step[w] = 3 /\ phase[w] = "call"
      /\ job[w].hint # "auto" /\ UNCHANGED <<dbVars, history>>
      /\ MovesTo(w, 4) \/ MovesTo(w, 5) \/ MovesTo(w, 6)
  BY <1>1, CorrelateManualDoes
<1>3. job[w].id \in hinted
  BY <1>1, <1>2 DEF Noted
<1>4. PICK i \in {4, 5, 6} : MovesTo(w, i)
  BY <1>2
<1>5. stage'[w] = stage[w] /\ job'[w] = job[w] /\ step'[w] = i /\ phase'[w] = "call"
        => RunInv(w)'
  BY <1>1, <1>2, <1>3 DEF RunInv, Receiving, dbVars, history
<1> QED
  BY <1>2, <1>4, <1>5, QuietMoveKeeps

(* So does a node that goes on to its second part.                          *)
LEMMA HoldKeeps ==
  ASSUME TracksInv, NEW w \in Workers, NEW p \in {"compare", "create"}, NEW e \in 0..Len(entries),
         Hold(w, p, e), kind' = kind, UNCHANGED <<dbVars, history>>,
         e # 0 => entries[e].id = job[w].id,
         stage'[w] = stage[w] /\ job'[w] = job[w] /\ step'[w] = step[w]
           /\ phase'[w] = p /\ held'[w] = e => RunInv(w)'
  PROVE  TracksInv'
<1>1. /\ WorkTypes' /\ Others(w) /\ RunOK(w)'
      /\ stage'[w] = stage[w] /\ job'[w] = job[w] /\ step'[w] = step[w]
      /\ phase'[w] = p /\ held'[w] = e
  BY InvParts, HoldChanges
<1>2. disturbed \subseteq Ids
  BY InvParts DEF HistoryOK
<1> QED
  BY <1>1, <1>2, Quiet, NodeKeeps DEF dbVars, history

(* So does the lookup of correlate.                                         *)
LEMMA CorrelateGetKeeps ==
  ASSUME TracksInv, NEW w \in Workers, CorrelateGet(w), kind' = kind
  PROVE  TracksInv'
<1>1. TypeOK /\ DbOK /\ RunInv(w)
  BY InvParts
<1>2. /\ stage[w] = "receive" /\ step[w] = 3 /\ phase[w] = "call"
      /\ job[w].hint = "auto" /\ UNCHANGED <<dbVars, history>>
      /\ \/ tracks[job[w].id] = 0 /\ MovesTo(w, 4)
         \/ tracks[job[w].id] # 0 /\ Hold(w, "compare", tracks[job[w].id])
  BY <1>1, CorrelateGetDoes
<1>3. CASE tracks[job[w].id] = 0 /\ MovesTo(w, 4)
  <2>1. stage'[w] = stage[w] /\ job'[w] = job[w] /\ step'[w] = 4 /\ phase'[w] = "call"
          => RunInv(w)'
    BY <1>1, <1>2, <1>3 DEF RunInv, Receiving, dbVars, history
  <2> QED
    BY <1>2, <1>3, <2>1, QuietMoveKeeps
<1>4. CASE tracks[job[w].id] # 0 /\ Hold(w, "compare", tracks[job[w].id])
  <2> DEFINE e == tracks[job[w].id]
  <2>1. e \in 0..Len(entries) /\ entries[e].id = job[w].id
    BY <1>1, <1>2, <1>4, ReceivedTrack DEF DbOK, Entry
  <2>2. stage'[w] = stage[w] /\ job'[w] = job[w] /\ step'[w] = step[w]
          /\ phase'[w] = "compare" /\ held'[w] = e => RunInv(w)'
    BY <1>1, <1>2, <1>4 DEF RunInv, Receiving, dbVars, history
  <2> QED
    BY <1>2, <1>4, <2>1, <2>2, HoldKeeps
<1> QED
  BY <1>2, <1>3, <1>4
(* Whoever is about to overwrite the entry that w compares with received    *)
(* the same track.                                                          *)
LEMMA TornMeansOverlap ==
  ASSUME TracksInv, NEW w \in Workers, stage[w] = "receive", phase[w] = "compare", TornRead(w)
  PROVE  job[w].id \in overlapped
<1>1. TypeOK /\ DbOK /\ Noted /\ RunInv(w) /\ RunOK(w)
  BY InvParts
<1>2. PICK v \in Workers \ {w} : At(v, "update", "call") /\ tracks[job[v].id] = held[w]
  BY DEF TornRead
<1>3. stage[v] = "receive"
  BY <1>1, <1>2, Places
<1>4. held[w] # 0 /\ entries[held[w]].id = job[w].id
  BY <1>1 DEF RunInv, Receiving, RunOK
<1>5. job[v].id \in Ids
  BY <1>1, <1>3, ReceivedTrack
<1>6. job[v].id = job[w].id
  BY <1>1, <1>2, <1>4, <1>5 DEF DbOK, Entry
<1> QED
  BY <1>1, <1>3, <1>6 DEF Noted

(* So does the comparison of correlate: without an overlap it is not torn.  *)
LEMMA CorrelateCompareKeeps ==
  ASSUME TracksInv, NEW w \in Workers, CorrelateCompare(w), kind' = kind
  PROVE  TracksInv'
<1>1. TypeOK /\ DbOK /\ Noted /\ RunInv(w) /\ RunOK(w) /\ disturbed \subseteq Ids /\ WorkTypes
  BY InvParts DEF HistoryOK
<1>2. /\ stage[w] = "receive" /\ step[w] = 3 /\ phase[w] = "compare"
      /\ UNCHANGED <<now, tracks, history>>
  BY <1>1, CorrelateCompareDoes
<1> DEFINE id == job[w].id
<1>3. id \in Ids /\ job[w].time \in Nat
  BY <1>1, <1>2, ReceivedTrack
<1>4. /\ held[w] # 0
      /\ tracks[id] # 0 \/ id \in disturbed \union hinted
      /\ id \notin overlapped \union hinted => tracks[id] \in {0, held[w]}
      /\ job[w].time <= now
  BY <1>1, <1>2 DEF RunInv, Receiving
<1>5. held[w] \in 1..Len(entries)
  <2>1. Len(entries) \in Nat
    BY <1>1, LenProperties DEF DbOK
  <2> QED
    BY <1>1, <1>4, <2>1 DEF WorkTypes
<1>6. id \notin overlapped => ~TornRead(w)
  BY <1>2, TornMeansOverlap
<1>7. CASE /\ job[w].time > entries[held[w]].time \/ TornRead(w)
           /\ MovesTo(w, 5) /\ UNCHANGED entries
  <2>1. stage'[w] = stage[w] /\ job'[w] = job[w] /\ step'[w] = 5 /\ phase'[w] = "call"
          => RunInv(w)'
    BY <1>2, <1>4, <1>6, <1>7 DEF RunInv, Receiving, Entry, history
  <2> QED
    BY <1>2, <1>7, <2>1, QuietMoveKeeps DEF dbVars
<1>8. CASE /\ ~(job[w].time > entries[held[w]].time) \/ TornRead(w)
           /\ MovesTo(w, 6)
           /\ entries' = [entries EXCEPT ![held[w]].seen = @ \union {job[w].time}]
  <2>1. /\ DbOK' /\ Grows
        /\ \A x \in Ids : /\ Same(x)
                          /\ (tracks[x] = held[w] => job[w].time <= Entry(x).time)
                               => StaysNewest(x)
    BY <1>1, <1>2, <1>3, <1>5, <1>8, DuplicateChanges
  <2>2. ASSUME NEW x \in Ids \ (overlapped \union hinted) PROVE StaysNewest(x)
    <3>1. CASE tracks[x] = held[w]
      <4>1. x = id
        BY <1>1, <1>4, <3>1 DEF DbOK, Entry, RunOK
      <4>2. entries[held[w]].time \in Nat
        BY <1>1, <1>5, EntryThere
      <4>3. job[w].time <= Entry(x).time
        BY <1>3, <1>6, <1>8, <3>1, <4>1, <4>2 DEF Entry
      <4> QED
        BY <2>1, <4>3
    <3>2. CASE tracks[x] # held[w]
      BY <2>1, <3>2
    <3> QED
      BY <3>1, <3>2
  <2>3. \A v \in Workers \ {w} : Undisturbed(v)
    BY <1>2, <1>3, <2>1, ReceiverInterferes
  <2>4. stage'[w] = stage[w] /\ job'[w] = job[w] /\ step'[w] = 6 /\ phase'[w] = "call"
          => RunInv(w)'
    BY <1>2, <1>4 DEF RunInv, Receiving, history
  <2> QED
    BY <1>1, <1>2, <1>8, <2>1, <2>2, <2>3, <2>4, MoveKeeps DEF history
<1> QED
  BY <1>1, <1>7, <1>8, CorrelateCompareDoes

(* So does create_entry.                                                    *)
LEMMA CreateEntryKeeps ==
  ASSUME TracksInv, NEW w \in Workers, CreateEntry(w), kind' = kind
  PROVE  TracksInv'
<1>1. TypeOK /\ DbOK /\ RunInv(w) /\ disturbed \subseteq Ids
  BY InvParts DEF HistoryOK
<1>2. /\ stage[w] = "receive" /\ step[w] = 4 /\ phase[w] = "call" /\ UNCHANGED history
      /\ \/ tracks[job[w].id] = 0 /\ Create(job[w]) /\ MovesTo(w, 7)
         \/ tracks[job[w].id] # 0 /\ Ends(w, "aborted") /\ UNCHANGED dbVars
  BY <1>1, CreateEntryDoes
<1>3. job[w] \in Messages
  BY <1>1, <1>2, ReceivedTrack
<1>4. CASE tracks[job[w].id] = 0 /\ Create(job[w]) /\ MovesTo(w, 7)
  <2>1. /\ DbOK' /\ Grows /\ now' = now /\ tracks'[job[w].id] # 0
        /\ \A x \in Ids : (x # job[w].id => Same(x)) /\ StaysNewest(x)
    BY <1>1, <1>3, <1>4, CreateChanges
  <2>2. \A v \in Workers \ {w} : Undisturbed(v)
    BY <1>2, <2>1, ReceiverInterferes
  <2>3. stage'[w] = stage[w] /\ job'[w] = job[w] /\ step'[w] = 7 /\ phase'[w] = "call"
          => RunInv(w)'
    BY <1>1, <1>2, <2>1 DEF RunInv, Receiving, history
  <2> QED
    BY <1>1, <1>2, <1>4, <2>1, <2>2, <2>3, MoveKeeps DEF history
<1>5. CASE Ends(w, "aborted") /\ UNCHANGED dbVars
  BY <1>2, <1>5, QuietEndKeeps
<1> QED
  BY <1>2, <1>4, <1>5

(* So does update_entry: without an overlap it writes a newer message.      *)
LEMMA UpdateEntryKeeps ==
  ASSUME TracksInv, NEW w \in Workers, UpdateEntry(w), kind' = kind
  PROVE  TracksInv'
<1>1. TypeOK /\ DbOK /\ RunInv(w) /\ disturbed \subseteq Ids
  BY InvParts DEF HistoryOK
<1>2. /\ stage[w] = "receive" /\ step[w] = 5 /\ phase[w] = "call" /\ UNCHANGED history
      /\ \/ tracks[job[w].id] # 0 /\ Update(job[w]) /\ MovesTo(w, 7)
         \/ tracks[job[w].id] = 0 /\ Ends(w, "aborted") /\ UNCHANGED dbVars
  BY <1>1, UpdateEntryDoes
<1>3. job[w] \in Messages
  BY <1>1, <1>2, ReceivedTrack
<1>4. CASE tracks[job[w].id] # 0 /\ Update(job[w]) /\ MovesTo(w, 7)
  <2>1. /\ DbOK' /\ Grows /\ now' = now /\ tracks' = tracks
        /\ \A x \in Ids : x # job[w].id => Same(x) /\ StaysNewest(x)
        /\ job[w].time > Entry(job[w].id).time => StaysNewest(job[w].id)
    BY <1>1, <1>3, <1>4, UpdateChanges
  <2>2. \A v \in Workers \ {w} : Undisturbed(v)
    BY <1>2, <1>4, <2>1, ReceiverInterferes
  <2>3. stage'[w] = stage[w] /\ job'[w] = job[w] /\ step'[w] = 7 /\ phase'[w] = "call"
          => RunInv(w)'
    BY <1>1, <1>2, <1>4, <2>1 DEF RunInv, Receiving, history
  <2>4. ASSUME NEW x \in Ids \ (overlapped \union hinted) PROVE StaysNewest(x)
    <3>1. x = job[w].id => job[w].time > Entry(x).time
      BY <1>1, <1>2, <1>4 DEF RunInv, Receiving
    <3> QED
      BY <2>1, <3>1
  <2> QED
    BY <1>1, <1>2, <1>4, <2>1, <2>2, <2>3, <2>4, MoveKeeps DEF history
<1>5. CASE Ends(w, "aborted") /\ UNCHANGED dbVars
  BY <1>2, <1>5, QuietEndKeeps
<1> QED
  BY <1>2, <1>4, <1>5

(* So does the lookup of store_ppli.                                        *)
LEMMA StoreGetKeeps ==
  ASSUME TracksInv, NEW w \in Workers, StoreGet(w), kind' = kind
  PROVE  TracksInv'
<1>1. TypeOK /\ RunInv(w)
  BY InvParts
<1>2. /\ stage[w] = "receive" /\ step[w] = 7 /\ phase[w] = "call"
      /\ UNCHANGED <<dbVars, history>>
      /\ \/ tracks[job[w].id] # 0 /\ Ends(w, "completed")
         \/ tracks[job[w].id] = 0 /\ Hold(w, "create", 0)
  BY <1>1, StoreGetDoes
<1>3. CASE tracks[job[w].id] = 0 /\ Hold(w, "create", 0)
  <2>1. stage'[w] = stage[w] /\ job'[w] = job[w] /\ step'[w] = step[w]
          /\ phase'[w] = "create" /\ held'[w] = 0 => RunInv(w)'
    BY <1>1, <1>2, <1>3 DEF RunInv, Receiving, dbVars, history
  <2>2. 0 \in 0..Len(entries)
    BY <1>1, LenProperties DEF TypeOK
  <2> QED
    BY <1>2, <1>3, <2>1, <2>2, HoldKeeps
<1> QED
  BY <1>2, <1>3, QuietEndKeeps

(* So does its safety net.                                                  *)
LEMMA StoreCreateKeeps ==
  ASSUME TracksInv, NEW w \in Workers, StoreCreate(w), kind' = kind
  PROVE  TracksInv'
<1>1. TypeOK /\ DbOK /\ disturbed \subseteq Ids
  BY InvParts DEF HistoryOK
<1>2. /\ stage[w] = "receive" /\ UNCHANGED history /\ Ends(w, "completed")
      /\ \/ tracks[job[w].id] = 0 /\ Create(job[w])
         \/ tracks[job[w].id] # 0 /\ UNCHANGED dbVars
  BY <1>1, StoreCreateDoes
<1>3. job[w] \in Messages
  BY <1>1, <1>2, ReceivedTrack
<1>4. CASE tracks[job[w].id] = 0 /\ Create(job[w])
  <2>1. /\ DbOK' /\ Grows /\ now' = now /\ tracks'[job[w].id] # 0
        /\ \A x \in Ids : (x # job[w].id => Same(x)) /\ StaysNewest(x)
    BY <1>1, <1>3, <1>4, CreateChanges
  <2>2. \A v \in Workers \ {w} : Undisturbed(v)
    BY <1>2, <2>1, ReceiverInterferes
  <2> QED
    BY <1>1, <1>2, <2>1, <2>2, EndKeeps DEF history
<1>5. CASE UNCHANGED dbVars
  BY <1>2, <1>5, QuietEndKeeps
<1> QED
  BY <1>2, <1>4, <1>5

(* So does check_ttl on one track.                                          *)
LEMMA CheckTTLKeeps ==
  ASSUME TracksInv, NEW w \in Workers, CheckTTL(w), kind' = kind
  PROVE  TracksInv'
<1>1. TypeOK /\ RunInv(w)
  BY InvParts
<1>2. /\ stage[w] = "clear" /\ step[w] = 1 /\ phase[w] = "call"
      /\ job[w].id # AllTracks /\ UNCHANGED <<dbVars, history>>
      /\ \/ /\ tracks[job[w].id] # 0 /\ Expired(Entry(job[w].id))
            /\ MovesTo(w, 2)
         \/ MovesTo(w, 3)
  BY <1>1, CheckTTLDoes
<1>3. job[w].id \in Ids
  BY <1>1, <1>2 DEF TypeOK
<1>4. CASE Expired(Entry(job[w].id)) /\ MovesTo(w, 2)
  <2>1. stage'[w] = stage[w] /\ job'[w] = job[w] /\ step'[w] = 2 /\ phase'[w] = "call"
          => RunInv(w)'
    BY <1>2, <1>3, <1>4 DEF RunInv, Clearing, Expired, Entry, dbVars
  <2> QED
    BY <1>2, <1>4, <2>1, QuietMoveKeeps
<1>5. CASE MovesTo(w, 3)
  <2>1. stage'[w] = stage[w] /\ job'[w] = job[w] /\ step'[w] = 3 /\ phase'[w] = "call"
          => RunInv(w)'
    BY <1>2 DEF RunInv, Clearing
  <2> QED
    BY <1>2, <1>5, <2>1, QuietMoveKeeps
<1> QED
  BY <1>2, <1>4, <1>5

(* So does a sweep: receive runs whose track goes are noted as disturbed.   *)
LEMMA SweepKeeps ==
  ASSUME TracksInv, NEW w \in Workers, Sweep(w), kind' = kind
  PROVE  TracksInv'
<1>1. TypeOK /\ DbOK /\ disturbed \subseteq Ids
  BY InvParts DEF HistoryOK
<1>2. /\ stage[w] = "clear" /\ step[w] = 1 /\ tracks' = CleanExpired
      /\ disturbed' = disturbed \union
           {id \in Ids : tracks'[id] # tracks[id] /\ Running(id, "receive") # {}}
      /\ UNCHANGED <<now, entries, receives, overlapped, hinted>>
      /\ MovesTo(w, 3) \/ Ends(w, "undefined_routing")
  BY <1>1, SweepDoes
<1>3. \A id \in Ids : tracks'[id] \in {0, tracks[id]}
  BY <1>2 DEF CleanExpired
<1>4. tracks' \in [Ids -> Nat]
  BY <1>1, <1>2 DEF CleanExpired, DbOK
<1>5. /\ DbOK' /\ Grows
      /\ \A id \in Ids : /\ tracks'[id] # 0 => Same(id)
                         /\ tracks'[id] = tracks[id] => Same(id)
                         /\ StaysNewest(id)
  BY <1>1, <1>2, <1>3, <1>4, RemovalChanges
<1>6. ASSUME NEW v \in Workers \ {w} PROVE Undisturbed(v)
  <2>1. CASE stage[v] = "receive"
    <3>1. job[v].id \in Ids
      BY <1>1, <2>1, ReceivedTrack
    <3>2. tracks'[job[v].id] # tracks[job[v].id] => job[v].id \in disturbed'
      BY <1>2, <2>1, <3>1 DEF Running
    <3> QED
      BY <1>3, <1>5, <2>1, <3>1, <3>2 DEF Undisturbed
  <2>2. CASE stage[v] # "receive"
    BY <1>5, <2>2 DEF Undisturbed
  <2> QED
    BY <2>1, <2>2
<1>7. disturbed \subseteq disturbed' /\ disturbed' \subseteq Ids
  BY <1>1, <1>2
<1>8. CASE MovesTo(w, 3)
  <2>1. stage'[w] = stage[w] /\ job'[w] = job[w] /\ step'[w] = 3 /\ phase'[w] = "call"
          => RunInv(w)'
    BY <1>2 DEF RunInv, Clearing
  <2> QED
    BY <1>2, <1>5, <1>6, <1>7, <1>8, <2>1, MoveKeeps
<1>9. CASE Ends(w, "undefined_routing")
  BY <1>2, <1>5, <1>6, <1>7, <1>9, EndKeeps
<1> QED
  BY <1>2, <1>8, <1>9

(* So does delete_entry.                                                    *)
LEMMA DeleteEntryKeeps ==
  ASSUME TracksInv, NEW w \in Workers, DeleteEntry(w), kind' = kind
  PROVE  TracksInv'
<1>1. TypeOK /\ DbOK /\ Noted /\ RunInv(w) /\ disturbed \subseteq Ids
  BY InvParts DEF HistoryOK
<1>2. /\ stage[w] = "clear" /\ step[w] = 4 /\ Ends(w, "completed")
      /\ tracks' = [tracks EXCEPT ![job[w].id] = 0]
      /\ UNCHANGED <<now, entries, history>>
  BY <1>1, DeleteEntryDoes
<1>3. job[w].id \in Ids
  BY <1>1, <1>2 DEF RunInv, Clearing
<1>4. /\ tracks' \in [Ids -> Nat]
      /\ \A id \in Ids : tracks'[id] = IF id = job[w].id THEN 0 ELSE tracks[id]
  <2>1. Len(entries) \in Nat
    BY <1>1, LenProperties DEF DbOK
  <2>2. tracks \in [Ids -> Nat]
    BY <1>1, <2>1 DEF DbOK
  <2>3. tracks' = [tracks EXCEPT ![job[w].id] = 0]
    BY <1>2
  <2> QED
    BY <1>3, <2>2, <2>3
<1>5. /\ DbOK' /\ Grows
      /\ \A id \in Ids : /\ tracks'[id] # 0 => Same(id)
                         /\ tracks'[id] = tracks[id] => Same(id)
                         /\ StaysNewest(id)
  BY <1>1, <1>2, <1>4, RemovalChanges
<1>6. ASSUME NEW v \in Workers \ {w} PROVE Undisturbed(v)
  <2>1. CASE stage[v] = "receive"
    <3>1. job[v].id \in Ids
      BY <1>1, <2>1, ReceivedTrack
    <3>2. job[v].id = job[w].id => job[v].id \in disturbed'
      BY <1>1, <1>2, <2>1 DEF Noted, history
    <3> QED
      BY <1>3, <1>4, <1>5, <2>1, <3>1, <3>2 DEF Undisturbed
  <2>2. CASE stage[v] # "receive"
    BY <1>4, <1>5, <2>2 DEF Undisturbed
  <2> QED
    BY <2>1, <2>2
<1> QED
  BY <1>1, <1>2, <1>5, <1>6, EndKeeps DEF history
-----------------------------------------------------------------------------
(***************************************************************************)
(* So does every other step.                                                *)
(***************************************************************************)
(* The invariant holds of the initial states.                               *)
LEMMA TracksInit == Init => TracksInv
<1> SUFFICES ASSUME Init PROVE TracksInv
  OBVIOUS
<1>1. DbOK
  <2>1. entries \in Seq(EntryTypes) /\ Len(entries) = 0
    BY EmptySeq DEF Init
  <2> QED
    BY <2>1 DEF Init, DbOK
<1>2. WorkTypes
  BY <1>1, LenProperties DEF Init, WorkTypes, NoJob, DbOK
<1>3. ASSUME NEW w \in Workers PROVE RunOK(w)
  <2>1. kind \in Kinds /\ stage[w] = "idle" /\ step[w] = 1 /\ job[w] = NoJob /\ held[w] = 0
    BY <1>3 DEF Init
  <2>2. DOMAIN StepsOf(w) = 1..4
    BY <2>1, StepLimits
  <2> QED
    BY <2>1, <2>2 DEF RunOK
<1>4. HistoryOK
  BY BoundsAssumption DEF Init, HistoryOK
<1>5. TypeOK
  <2>1. kind \in Kinds
    BY DEF Init
  <2> QED
    BY <1>1, <1>2, <1>3, <1>4, <2>1, TypeParts
<1>6. Noted
  BY DEF Init, Noted
<1>7. \A w \in Workers : stage[w] = "idle" /\ phase[w] = "call" /\ held[w] = 0
  BY DEF Init
<1>8. \A id \in Ids : tracks[id] = 0
  BY DEF Init
<1> QED
  BY <1>5, <1>6, <1>7, <1>8 DEF TracksInv, RunInv, TracksGood

(* The clock keeps the invariant: what has expired stays expired.           *)
LEMMA TickKeeps ==
  ASSUME TracksInv, Tick, kind' = kind
  PROVE  TracksInv'
<1>1. /\ TypeOK /\ DbOK /\ WorkTypes /\ HistoryOK /\ Noted /\ TracksGood
      /\ \A w \in Workers : RunOK(w) /\ RunInv(w)
  BY InvParts
<1>2. now' = now + 1 /\ UNCHANGED <<entries, tracks, workVars, history>>
  BY DEF Tick
<1>3. DbOK' /\ Grows /\ \A id \in Ids : Same(id) /\ StaysNewest(id)
  <2>1. now' \in Nat
    BY <1>1, <1>2 DEF DbOK
  <2> QED
    BY <1>1, <1>2, <2>1, Untouched
<1>4. TypeOK'
  <2>1. WorkTypes'
    BY <1>1, <1>2 DEF WorkTypes, workVars
  <2>2. kind' \in Kinds /\ HistoryOK'
    BY <1>1, <1>2, TypeParts DEF HistoryOK, history
  <2>3. ASSUME NEW w \in Workers PROVE RunOK(w)'
    BY <1>1, <1>2, <1>3, OthersFine DEF SameRun, workVars
  <2> QED
    BY <1>3, <2>1, <2>2, <2>3, TypePartsAfter
<1>5. Noted'
  BY <1>1, <1>2 DEF Noted, workVars, history
<1>6. ASSUME NEW w \in Workers PROVE RunInv(w)'
  <2>1. RunInv(w)
    BY <1>1
  <2>2. stage[w] = "receive" => Receiving(w)'
    <3>1. stage[w] = "receive" => job[w].time <= now'
      BY <1>1, <1>2, <2>1, ReceivedTrack DEF RunInv, Receiving, DbOK
    <3> QED
      BY <1>2, <2>1, <3>1 DEF RunInv, Receiving, Entry, workVars, history
  <2>3. stage[w] = "clear" => Clearing(w)'
    <3>1. ASSUME NEW id \in Ids, tracks[id] # 0, Expired(Entry(id)) PROVE Expired(Entry(id))'
      <4>1. tracks[id] \in 1..Len(entries)
        BY <1>1, <3>1, LenProperties DEF DbOK
      <4>2. Entry(id).time \in Nat /\ Entry(id).ttl \in Nat
        BY <1>1, <4>1, EntryThere DEF Entry
      <4> QED
        BY <1>1, <1>2, <3>1, <4>2 DEF DbOK, Expired, Entry
    <3> QED
      BY <1>2, <2>1, <3>1 DEF RunInv, Clearing, workVars, history
  <2> QED
    BY <1>2, <2>1, <2>2, <2>3 DEF RunInv, workVars
<1>7. TracksGood'
  BY <1>1, <1>2, <1>3 DEF TracksGood, StaysNewest, Same, history
<1> QED
  BY <1>4, <1>5, <1>6, <1>7 DEF TracksInv

(* SetTTL, between runs, keeps the invariant.                               *)
LEMMA SetTTLKeeps ==
  ASSUME TracksInv, NEW id \in Ids, NEW ttl \in TTLs, SetTTL(id, ttl), kind' = kind
  PROVE  TracksInv'
<1>1. /\ TypeOK /\ DbOK /\ WorkTypes /\ HistoryOK /\ TracksGood
      /\ \A w \in Workers : RunOK(w) /\ RunInv(w)
  BY InvParts
<1>2. /\ tracks[id] # 0 /\ entries' = [entries EXCEPT ![tracks[id]].ttl = ttl]
      /\ UNCHANGED <<now, tracks, workVars, history>>
      /\ \A w \in Workers : stage[w] = "idle"
  BY DEF SetTTL
<1>3. DbOK' /\ Grows /\ \A x \in Ids : StaysNewest(x)
  <2>1. ttl \in Nat
    BY BoundsAssumption
  <2> QED
    BY <1>1, <1>2, <2>1, TTLChanges
<1>4. TypeOK'
  <2>1. WorkTypes'
    BY <1>1, <1>2, <1>3 DEF WorkTypes, workVars, Grows
  <2>2. kind' \in Kinds /\ HistoryOK'
    BY <1>1, <1>2, TypeParts DEF HistoryOK, history
  <2>3. ASSUME NEW w \in Workers PROVE RunOK(w)'
    BY <1>1, <1>2, <1>3, OthersFine DEF SameRun, workVars
  <2> QED
    BY <1>3, <2>1, <2>2, <2>3, TypePartsAfter
<1>5. Noted'
  BY <1>2 DEF Noted, workVars
<1>6. ASSUME NEW w \in Workers PROVE RunInv(w)'
  BY <1>1, <1>2 DEF RunInv, workVars
<1>7. TracksGood'
  BY <1>1, <1>2, <1>3 DEF TracksGood, StaysNewest, history
<1> QED
  BY <1>4, <1>5, <1>6, <1>7 DEF TracksInv

(* A run that starts is at the first step of its stage. *)
LEMMA StartChanges ==
  ASSUME TracksInv, NEW w \in Workers, NEW s \in {"receive", "clear"}, NEW token,
         Start(w, s, token), kind' = kind,
         s = "receive" => token \in Messages,
         s = "clear" => token \in [id : Ids \union {AllTracks}]
  PROVE  /\ DbOK' /\ WorkTypes' /\ (\A v \in Workers : RunOK(v)')
         /\ Others(w) /\ stage[w] = "idle" /\ stage'[w] = s /\ job'[w] = token
         /\ step'[w] = 1 /\ phase'[w] = "call" /\ held'[w] = 0
         /\ \A id \in Ids : Same(id) /\ StaysNewest(id)
<1>1. TypeOK /\ DbOK /\ WorkTypes /\ RunInv(w)
  BY InvParts
<1>2. /\ stage[w] = "idle" /\ stage' = [stage EXCEPT ![w] = s]
      /\ step' = [step EXCEPT ![w] = 1] /\ job' = [job EXCEPT ![w] = token]
      /\ outcome' = [outcome EXCEPT ![w] = "none"]
      /\ UNCHANGED <<now, entries, tracks, phase, held>>
  BY DEF Start, dbVars
<1>3. DbOK' /\ Grows /\ \A id \in Ids : Same(id) /\ StaysNewest(id)
  BY <1>1, <1>2, Untouched DEF DbOK
<1>4. phase[w] = "call" /\ held[w] = 0
  BY <1>1, <1>2 DEF RunInv
<1>5. token \in Messages \union [id : Ids \union {AllTracks}]
  OBVIOUS
<1>6. WorkTypes'
  BY <1>1, <1>2, <1>5 DEF WorkTypes
<1>7. /\ stage'[w] = s /\ job'[w] = token /\ step'[w] = 1
      /\ phase'[w] = "call" /\ held'[w] = 0
  BY <1>1, <1>2, <1>4 DEF WorkTypes
<1>8. Others(w)
  BY <1>1, <1>2 DEF WorkTypes, Others, SameRun
<1>9. RunOK(w)'
  <2>1. kind' \in Kinds
    BY <1>1 DEF TypeOK
  <2>2. 1 \in DOMAIN StepsOf(w)'
    BY <1>7, <2>1, StepLimitsAfter
  <2> QED
    BY <1>7, <2>2 DEF RunOK
<1>10. ASSUME NEW v \in Workers PROVE RunOK(v)'
  BY <1>1, <1>3, <1>8, <1>9, OthersFine DEF Others
<1> QED
  BY <1>2, <1>3, <1>6, <1>7, <1>8, <1>10

(* A receive run that starts is noted where it meets another run.           *)
LEMMA StartReceiveKeeps ==
  ASSUME TracksInv, NEW w \in Workers, NEW m \in Messages, StartReceive(w, m), kind' = kind
  PROVE  TracksInv'
<1>1. /\ TypeOK /\ HistoryOK /\ Noted /\ TracksGood /\ \A v \in Workers : RunInv(v)
  BY InvParts
<1>2. /\ receives < MaxReceives /\ m.time <= now /\ Start(w, "receive", m)
      /\ receives' = receives + 1
      /\ overlapped' = IF Running(m.id, "receive") = {} THEN overlapped
                       ELSE overlapped \union {m.id}
      /\ disturbed' = IF Running(m.id, "clear") = {} THEN disturbed
                      ELSE disturbed \union {m.id}
      /\ hinted' = IF m.hint = "auto" THEN hinted ELSE hinted \union {m.id}
  BY DEF StartReceive
<1>3. /\ DbOK' /\ WorkTypes' /\ (\A v \in Workers : RunOK(v)')
      /\ Others(w) /\ stage[w] = "idle" /\ stage'[w] = "receive" /\ job'[w] = m
      /\ step'[w] = 1 /\ phase'[w] = "call" /\ held'[w] = 0
      /\ \A id \in Ids : Same(id) /\ StaysNewest(id)
  BY <1>2, StartChanges
<1>4. m.id \in Ids
  BY MessagesAssumption
<1>5. /\ overlapped \subseteq overlapped' /\ disturbed \subseteq disturbed'
      /\ hinted \subseteq hinted' /\ now' = now /\ tracks' = tracks /\ entries' = entries
  BY <1>2 DEF Start, dbVars
<1>6. TypeOK'
  <2>1. kind' \in Kinds
    BY <1>1 DEF TypeOK
  <2>2. HistoryOK'
    BY <1>1, <1>2, <1>4, BoundsAssumption DEF HistoryOK
  <2> QED
    BY <1>3, <2>1, <2>2, TypePartsAfter
<1>7. Noted'
  <2> SUFFICES ASSUME NEW u \in Workers, stage'[u] = "receive"
               PROVE  /\ job'[u].hint # "auto" => job'[u].id \in hinted'
                      /\ \A v \in Workers : job'[v].id = job'[u].id =>
                           /\ stage'[v] = "clear" => job'[u].id \in disturbed'
                           /\ stage'[v] = "receive" /\ v # u => job'[u].id \in overlapped'
    BY DEF Noted
  <2>1. \A v \in Workers \ {w} : stage'[v] = stage[v] /\ job'[v] = job[v]
    BY <1>3 DEF Others, SameRun
  <2>2. job'[u].hint # "auto" => job'[u].id \in hinted'
    BY <1>1, <1>2, <1>3, <1>5, <2>1 DEF Noted
  <2>3. ASSUME NEW v \in Workers, job'[v].id = job'[u].id
        PROVE  /\ stage'[v] = "clear" => job'[u].id \in disturbed'
               /\ stage'[v] = "receive" /\ v # u => job'[u].id \in overlapped'
    <3>1. CASE u = w /\ v = w
      BY <1>3, <3>1
    <3>2. CASE u = w /\ v # w
      <4>1. stage[v] = "clear" => v \in Running(m.id, "clear")
        BY <1>3, <2>1, <2>3, <3>2 DEF Running
      <4>2. stage[v] = "receive" => v \in Running(m.id, "receive")
        BY <1>3, <2>1, <2>3, <3>2 DEF Running
      <4> QED
        BY <1>2, <1>3, <2>1, <3>2, <4>1, <4>2
    <3>3. CASE u # w /\ v = w
      <4>1. u \in Running(m.id, "receive")
        BY <1>3, <2>1, <2>3, <3>3 DEF Running
      <4> QED
        BY <1>2, <1>3, <2>1, <2>3, <3>3, <4>1
    <3>4. CASE u # w /\ v # w
      BY <1>1, <1>5, <2>1, <2>3, <3>4 DEF Noted
    <3> QED
      BY <3>1, <3>2, <3>3, <3>4
  <2> QED
    BY <2>2, <2>3
<1>8. ASSUME NEW v \in Workers PROVE RunInv(v)'
  <2>1. CASE v = w
    BY <1>2, <1>3, <1>5, <2>1 DEF RunInv, Receiving
  <2>2. CASE v # w
    <3>1. RunInv(v) /\ SameRun(v)
      BY <1>1, <1>3, <2>2 DEF Others
    <3> QED
      BY <1>5, <3>1 DEF RunInv, Receiving, Clearing, SameRun, Expired, Entry
  <2> QED
    BY <2>1, <2>2
<1>9. TracksGood'
  BY <1>1, <1>3, <1>5 DEF TracksGood, StaysNewest
<1> QED
  BY <1>6, <1>7, <1>8, <1>9 DEF TracksInv

(* So is a clear run.                                                       *)
LEMMA StartClearKeeps ==
  ASSUME TracksInv, NEW w \in Workers, NEW id \in Ids \union {AllTracks}, StartClear(w, id),
         kind' = kind
  PROVE  TracksInv'
<1>1. /\ TypeOK /\ HistoryOK /\ Noted /\ TracksGood /\ \A v \in Workers : RunInv(v)
  BY InvParts
<1>2. /\ Start(w, "clear", [id |-> id])
      /\ disturbed' = IF Running(id, "receive") = {} THEN disturbed
                      ELSE disturbed \union {id}
      /\ UNCHANGED <<receives, overlapped, hinted>>
  BY DEF StartClear
<1> DEFINE token == [id |-> id]
<1>10. token \in [id : Ids \union {AllTracks}] /\ token.id = id
  OBVIOUS
<1>3. /\ DbOK' /\ WorkTypes' /\ (\A v \in Workers : RunOK(v)')
      /\ Others(w) /\ stage[w] = "idle" /\ stage'[w] = "clear" /\ job'[w] = token
      /\ step'[w] = 1 /\ phase'[w] = "call" /\ held'[w] = 0
      /\ \A x \in Ids : Same(x) /\ StaysNewest(x)
  BY <1>2, <1>10, StartChanges
<1>5. disturbed \subseteq disturbed' /\ now' = now /\ tracks' = tracks /\ entries' = entries
  BY <1>2 DEF Start, dbVars
<1>11. job'[w].id = id
  BY <1>3
<1> HIDE DEF token
<1>4. Running(id, "receive") # {} => id \in Ids
  BY <1>1, ReceivedTrack DEF Running
<1>6. TypeOK'
  <2>1. kind' \in Kinds
    BY <1>1 DEF TypeOK
  <2>2. HistoryOK'
    BY <1>1, <1>2, <1>4 DEF HistoryOK
  <2> QED
    BY <1>3, <2>1, <2>2, TypePartsAfter
<1>7. Noted'
  <2> SUFFICES ASSUME NEW u \in Workers, stage'[u] = "receive"
               PROVE  /\ job'[u].hint # "auto" => job'[u].id \in hinted'
                      /\ \A v \in Workers : job'[v].id = job'[u].id =>
                           /\ stage'[v] = "clear" => job'[u].id \in disturbed'
                           /\ stage'[v] = "receive" /\ v # u => job'[u].id \in overlapped'
    BY DEF Noted
  <2>1. \A v \in Workers \ {w} : stage'[v] = stage[v] /\ job'[v] = job[v]
    BY <1>3 DEF Others, SameRun
  <2>2. u # w
    BY <1>3
  <2>3. ASSUME NEW v \in Workers, job'[v].id = job'[u].id
        PROVE  /\ stage'[v] = "clear" => job'[u].id \in disturbed'
               /\ stage'[v] = "receive" /\ v # u => job'[u].id \in overlapped'
    <3>1. CASE v = w
      <4>1. u \in Running(id, "receive")
        BY <1>11, <2>1, <2>2, <2>3, <3>1 DEF Running
      <4> QED
        BY <1>2, <1>3, <1>11, <2>3, <3>1, <4>1
    <3>2. CASE v # w
      BY <1>1, <1>2, <1>5, <2>1, <2>2, <2>3, <3>2 DEF Noted
    <3> QED
      BY <3>1, <3>2
  <2> QED
    BY <1>1, <1>2, <2>1, <2>2, <2>3 DEF Noted
<1>8. ASSUME NEW v \in Workers PROVE RunInv(v)'
  <2>1. CASE v = w
    BY <1>3, <2>1 DEF RunInv, Clearing
  <2>2. CASE v # w
    <3>1. RunInv(v) /\ SameRun(v)
      BY <1>1, <1>3, <2>2 DEF Others
    <3> QED
      BY <1>2, <1>5, <3>1 DEF RunInv, Receiving, Clearing, SameRun, Expired, Entry
  <2> QED
    BY <2>1, <2>2
<1>9. TracksGood'
  BY <1>1, <1>2, <1>3, <1>5 DEF TracksGood, StaysNewest
<1> QED
  BY <1>6, <1>7, <1>8, <1>9 DEF TracksInv

(* A stuttering step keeps the invariant.                                   *)
LEMMA StutterKeeps ==
  ASSUME TracksInv, UNCHANGED vars
  PROVE  TracksInv'
BY DEF TracksInv, TypeOK, Noted, RunInv, TracksGood, Receiving, Clearing, Newest, Expired, Entry, StepsOf, NoJob,
       vars, dbVars, workVars, history

(* Every step keeps the invariant.                                          *)
LEMMA NextKeeps == TracksInv /\ [Next]_vars => TracksInv'
<1> SUFFICES ASSUME TracksInv, [Next]_vars PROVE TracksInv'
  OBVIOUS
<1>1. CASE UNCHANGED vars
  BY <1>1, StutterKeeps
<1>2. CASE Next
  <2>1. kind' = kind
    BY <1>2 DEF Next
  <2>2. CASE Tick
    BY <2>1, <2>2, TickKeeps
  <2>3. ASSUME NEW id \in Ids, NEW ttl \in TTLs, SetTTL(id, ttl) PROVE TracksInv'
    BY <2>1, <2>3, SetTTLKeeps
  <2>4. ASSUME NEW w \in Workers, NEW m \in Messages, StartReceive(w, m) PROVE TracksInv'
    BY <2>1, <2>4, StartReceiveKeeps
  <2>5. ASSUME NEW w \in Workers, NEW id \in Ids \union {AllTracks}, StartClear(w, id)
        PROVE  TracksInv'
    BY <2>1, <2>5, StartClearKeeps
  <2>6. ASSUME NEW w \in Workers, Node(w) PROVE TracksInv'
    BY <2>1, <2>6, PassiveKeeps, DecodeKeeps, CorrelateManualKeeps, CorrelateGetKeeps,
       CorrelateCompareKeeps, CreateEntryKeeps, UpdateEntryKeeps, StoreGetKeeps,
       StoreCreateKeeps, CheckTTLKeeps, SweepKeeps, DeleteEntryKeeps DEF Node
  <2> QED
    BY <1>2, <2>2, <2>3, <2>4, <2>5, <2>6 DEF Next, Work
<1> QED
  BY <1>1, <1>2

-----------------------------------------------------------------------------
(***************************************************************************)
(* The theorems.                                                            *)
(***************************************************************************)
(* The invariant is one, for every set of workers, tracks and messages.     *)
THEOREM TracksInvariant == Spec => []TracksInv
BY TracksInit, NextKeeps, PTL DEF Spec

(* Type correctness (TypeOK): the runs stay on steps of their stages, the   *)
(* database maps every track to an entry of its own, and a run holds an entry of *)
(* the track it works on.                                                   *)
THEOREM TracksTyped == Spec => []TypeOK
<1>1. TracksInv => TypeOK
  BY DEF TracksInv
<1> QED
  BY <1>1, TracksInvariant, PTL

(* The create in store_ppli (ppli_nodes.go:189-192) is reached only if the track *)
(* was cleared while it was being received.                                 *)
THEOREM SafetyNet == Spec => []SafetyNetUnused
<1>1. TracksInv => SafetyNetUnused
  <2> SUFFICES ASSUME TracksInv, NEW w \in Workers, phase[w] = "create"
               PROVE  job[w].id \in disturbed \union hinted
    BY DEF SafetyNetUnused
  <2>1. stage[w] \in {"idle", "receive", "clear"}
    BY InvParts DEF TypeOK
  <2>2. RunInv(w)
    BY InvParts
  <2> QED
    BY <2>1, <2>2 DEF RunInv, Receiving, Clearing
<1> QED
  BY <1>1, TracksInvariant, PTL

(* A message is written at most once and each write raises the version by one *)
(* (track_db.go, Update).                                                   *)
THEOREM VersionsCount == Spec => []VersionCountsWrites
<1>1. TracksInv => VersionCountsWrites
  BY DEF TracksInv, TracksGood, Newest, VersionCountsWrites
<1> QED
  BY <1>1, TracksInvariant, PTL

(* Keep-latest (ppli_nodes.go:157-160): an entry holds the newest message it was *)
(* compared or written with, whatever clear runs do meanwhile.              *)
THEOREM LatestKept == Spec => []KeepLatest
<1>1. TracksInv => KeepLatest
  <2> SUFFICES ASSUME TracksInv, NEW id \in Ids \ (overlapped \union hinted), tracks[id] # 0
               PROVE  Entry(id).time = Max(Entry(id).seen)
    BY DEF KeepLatest
  <2> DEFINE e == Entry(id)
  <2>1. Newest(e)
    BY DEF TracksInv, TracksGood
  <2>2. e.time \in Nat /\ e.seen \subseteq Nat
    <3>1. tracks[id] \in 1..Len(entries)
      BY InvParts, LenProperties DEF DbOK
    <3> QED
      BY <3>1, InvParts, EntryThere DEF Entry
  <2>3. \A x \in e.seen : (\A y \in e.seen : y <= x) => x = e.time
    BY <2>1, <2>2 DEF Newest
  <2> HIDE DEF e
  <2>4. Max(e.seen) = e.time
    BY <2>1, <2>3 DEF Newest, Max
  <2> QED
    BY <2>4 DEF e
<1> QED
  BY <1>1, TracksInvariant, PTL

(* Why a run is aborted. *)
Rejected(w) == \/ At(w, "decode", "call") /\ ~job[w].decodes
               \/ At(w, "create", "call") /\ job[w].id \in overlapped \union hinted
               \/ At(w, "update", "call") /\ job[w].id \in disturbed \union hinted

(* How a node leaves the outcome of its run. *)
LEMMA Results ==
  ASSUME TracksInv, NEW w \in Workers, Node(w)
  PROVE  \/ outcome' = outcome
         \/ Ends(w, "completed")
         \/ Ends(w, "aborted") /\ Rejected(w)
         \/ Ends(w, "undefined_routing") /\ kind = "J3.2" /\ Sweep(w)
<1>1. TypeOK /\ RunInv(w)
  BY InvParts
<1>2. ASSUME NEW i, MovesTo(w, i) PROVE outcome' = outcome
  BY <1>2 DEF MovesTo
<1>3. ASSUME NEW p, NEW e, Hold(w, p, e) PROVE outcome' = outcome
  BY <1>3 DEF Hold
<1>4. CASE Passive(w)
  BY <1>1, <1>2, <1>4, PassiveDoes
<1>5. CASE Decode(w)
  BY <1>1, <1>2, <1>5, DecodeDoes, Places DEF Rejected
<1>6. CASE CorrelateManual(w)
  BY <1>1, <1>2, <1>6, CorrelateManualDoes
<1>7. CASE CorrelateGet(w)
  BY <1>1, <1>2, <1>3, <1>7, CorrelateGetDoes
<1>8. CASE CorrelateCompare(w)
  BY <1>1, <1>2, <1>8, CorrelateCompareDoes
<1>9. CASE CreateEntry(w)
  <2>1. /\ stage[w] = "receive" /\ step[w] = 4 /\ phase[w] = "call"
        /\ \/ MovesTo(w, 7)
           \/ tracks[job[w].id] # 0 /\ Ends(w, "aborted")
    BY <1>1, <1>9, CreateEntryDoes
  <2>2. tracks[job[w].id] # 0 => Rejected(w)
    BY <1>1, <2>1, Places DEF RunInv, Receiving, Rejected
  <2> QED
    BY <1>2, <2>1, <2>2
<1>10. CASE UpdateEntry(w)
  <2>1. /\ stage[w] = "receive" /\ step[w] = 5 /\ phase[w] = "call"
        /\ \/ MovesTo(w, 7)
           \/ tracks[job[w].id] = 0 /\ Ends(w, "aborted")
    BY <1>1, <1>10, UpdateEntryDoes
  <2>2. tracks[job[w].id] = 0 => Rejected(w)
    BY <1>1, <2>1, Places DEF RunInv, Receiving, Rejected
  <2> QED
    BY <1>2, <2>1, <2>2
<1>11. CASE StoreGet(w)
  BY <1>1, <1>3, <1>11, StoreGetDoes
<1>12. CASE StoreCreate(w)
  BY <1>1, <1>12, StoreCreateDoes
<1>13. CASE CheckTTL(w)
  BY <1>1, <1>2, <1>13, CheckTTLDoes
<1>14. CASE Sweep(w)
  BY <1>1, <1>2, <1>14, SweepDoes
<1>15. CASE DeleteEntry(w)
  BY <1>1, <1>15, DeleteEntryDoes
<1> QED
  BY <1>4, <1>5, <1>6, <1>7, <1>8, <1>9, <1>10, <1>11, <1>12, <1>13, <1>14, <1>15 DEF Node

(* The outcome of a run changes only by a node of its own.                  *)
LEMMA OwnResult ==
  ASSUME TracksInv, [Next]_vars, NEW w \in Workers, outcome'[w] # outcome[w],
         outcome'[w] # "none"
  PROVE  \/ outcome'[w] = "completed"
         \/ outcome'[w] = "aborted" /\ Rejected(w)
         \/ outcome'[w] = "undefined_routing" /\ kind = "J3.2" /\ Sweep(w)
<1>1. WorkTypes
  BY InvParts
<1>2. outcome' # outcome
  OBVIOUS
<1>3. Next
  BY <1>2 DEF vars, workVars
<1>4. ~Tick /\ ~(\E id \in Ids, ttl \in TTLs : SetTTL(id, ttl))
  BY <1>2 DEF Tick, SetTTL, workVars
<1>5. ASSUME NEW v \in Workers, NEW s, NEW token, Start(v, s, token) PROVE FALSE
  BY <1>1, <1>5 DEF Start, WorkTypes
<1>6. PICK v \in Workers : Node(v)
  BY <1>3, <1>4, <1>5 DEF Next, Work, StartReceive, StartClear
<1>7. ASSUME NEW result, Ends(v, result) PROVE v = w /\ outcome'[w] = result
  <2>1. outcome' = [outcome EXCEPT ![v] = result]
    BY <1>7 DEF Ends, Return
  <2> QED
    BY <1>1, <2>1 DEF WorkTypes
<1> QED
  BY <1>2, <1>6, <1>7, Results

(* A run is aborted only if its message does not decode or another run got in *)
(* between (ppli_nodes.go:220, 243).                                        *)
THEOREM AbortsExplained == Spec => AbortsNeedInterference
<1>1. ASSUME TracksInv, [Next]_vars
      PROVE  [\A w \in Workers : outcome[w] = "none" /\ outcome'[w] = "aborted" =>
                \/ At(w, "decode", "call") /\ ~job[w].decodes
                \/ At(w, "create", "call") /\ job[w].id \in overlapped \union hinted
                \/ At(w, "update", "call") /\ job[w].id \in disturbed \union hinted]_vars
  BY <1>1, OwnResult DEF Rejected
<1> QED
  BY <1>1, TracksInvariant, PTL DEF Spec, AbortsNeedInterference

(* CheckExpired compares the age of the message with the TTL.               *)
LEMMA Age ==
  ASSUME DbOK, NEW id \in Ids, tracks[id] # 0
  PROVE  Expired(Entry(id)) <=> now > Entry(id).time + Entry(id).ttl
<1>1. tracks[id] \in 1..Len(entries)
  BY LenProperties DEF DbOK
<1>2. Entry(id).time \in Nat /\ Entry(id).ttl \in Nat /\ now \in Nat
  BY <1>1, EntryThere DEF Entry, DbOK
<1> QED
  BY <1>2 DEF Expired

(* Only check_ttl_j32 leaves a routing undefined, and only once it has swept the *)
(* database (j32_nodes.go:337).                                             *)
THEOREM UndefinedExplained == Spec => UndefinedOnlyAfterSweep
<1>1. ASSUME TracksInv, [Next]_vars
      PROVE  [\A w \in Workers :
                outcome[w] # "undefined_routing" /\ outcome'[w] = "undefined_routing" =>
                  /\ kind = "J3.2" /\ job[w].id = AllTracks
                  /\ \A id \in Ids : tracks'[id] # 0 =>
                       now <= Entry(id).time + Entry(id).ttl]_vars
  <2> SUFFICES ASSUME NEW w \in Workers, outcome[w] # "undefined_routing",
                      outcome'[w] = "undefined_routing"
               PROVE  /\ kind = "J3.2" /\ job[w].id = AllTracks
                      /\ \A id \in Ids : tracks'[id] # 0 =>
                           now <= Entry(id).time + Entry(id).ttl
    OBVIOUS
  <2>1. kind = "J3.2" /\ Sweep(w)
    BY <1>1, OwnResult
  <2>2. job[w].id = AllTracks /\ tracks' = CleanExpired
    BY <1>1, <2>1, InvParts, SweepDoes
  <2>3. ASSUME NEW id \in Ids, tracks'[id] # 0
        PROVE  now <= Entry(id).time + Entry(id).ttl
    <3>1. tracks[id] # 0 /\ ~Expired(Entry(id))
      BY <2>2, <2>3 DEF CleanExpired
    <3>2. tracks[id] \in 1..Len(entries)
      BY <1>1, <3>1, InvParts, LenProperties DEF DbOK
    <3>3. Entry(id).time \in Nat /\ Entry(id).ttl \in Nat /\ now \in Nat
      BY <1>1, <3>2, InvParts, EntryThere DEF Entry, DbOK
    <3> QED
      BY <3>1, <3>3 DEF Expired
  <2> QED
    BY <2>1, <2>2, <2>3
<1> QED
  BY <1>1, TracksInvariant, PTL DEF Spec, UndefinedOnlyAfterSweep

(* Without interference, what is removed has expired.                       *)
LEMMA Removals ==
  ASSUME TracksInv, [Next]_vars, NEW id \in Ids \ disturbed, tracks[id] # 0, tracks'[id] = 0
  PROVE  Expired(Entry(id))
<1>1. TypeOK /\ DbOK /\ \A w \in Workers : RunInv(w)
  BY InvParts
<1>2. tracks' # tracks
  OBVIOUS
<1>3. Next
  BY <1>2 DEF vars, dbVars
<1>4. ~Tick /\ ~(\E x \in Ids, ttl \in TTLs : SetTTL(x, ttl))
  BY <1>2 DEF Tick, SetTTL
<1>5. ASSUME NEW v \in Workers, NEW s, NEW token, Start(v, s, token) PROVE FALSE
  BY <1>2, <1>5 DEF Start, dbVars
<1>6. PICK w \in Workers : Node(w)
  BY <1>3, <1>4, <1>5 DEF Next, Work, StartReceive, StartClear
<1>7. ASSUME NEW m, Create(m) PROVE FALSE
  <2>1. /\ tracks' = [tracks EXCEPT ![m.id] = Len(entries) + 1]
        /\ Len(entries) \in Nat
    BY <1>1, <1>7, LenProperties DEF Create, DbOK
  <2> QED
    BY <1>1, <2>1 DEF DbOK
<1>8. ASSUME NEW m, Update(m) PROVE FALSE
  BY <1>2, <1>8 DEF Update
<1>9. CASE Sweep(w)
  BY <1>1, <1>9, SweepDoes DEF CleanExpired
<1>10. CASE DeleteEntry(w)
  <2>1. stage[w] = "clear" /\ step[w] = 4 /\ tracks' = [tracks EXCEPT ![job[w].id] = 0]
    BY <1>1, <1>10, DeleteEntryDoes
  <2>2. id = job[w].id
    BY <1>1, <2>1 DEF DbOK
  <2> QED
    BY <1>1, <2>1, <2>2 DEF RunInv, Clearing
<1> QED
  BY <1>2, <1>6, <1>7, <1>8, <1>9, <1>10 DEF Node, Passive, Decode, CorrelateManual,
     CorrelateGet, CorrelateCompare, CreateEntry, UpdateEntry, StoreGet, StoreCreate,
     CheckTTL, dbVars

(* A track is removed only when it has expired, unless it was received while a *)
(* clear run on it was under way (ppli_nodes.go, check_ttl and delete_entry). *)
THEOREM RemovalsExplained == Spec => OnlyExpiredRemoved
<1>1. ASSUME TracksInv, [Next]_vars
      PROVE  [\A id \in Ids \ disturbed :
                tracks[id] # 0 /\ tracks'[id] = 0 =>
                  now > Entry(id).time + Entry(id).ttl]_vars
  BY <1>1, Removals, Age, InvParts
<1> QED
  BY <1>1, TracksInvariant, PTL DEF Spec, OnlyExpiredRemoved


(***************************************************************************)
(* With one caller, the receive and clear stages implement LatestTable:    *)
(* the refinement that the runs of Exchange check on a small instance.     *)
(***************************************************************************)


(* The table as TrackStages maps it. *)
Latest == [id \in Ids |-> IF tracks[id] = 0 THEN AllTracks ELSE Entry(id).time]
Limit  == [id \in Ids |-> IF tracks[id] = 0 THEN DefaultTTL ELSE Entry(id).ttl]

(* No run ever interferes with another, and no hint overrides a comparison. *)
Alone == overlapped = {} /\ disturbed = {} /\ hinted = {}

(* What one caller without manual hints means. *)
OneCaller == /\ \A v, w \in Workers : v = w
             /\ \A m \in Messages : m.hint = "auto"

(* With one worker idle, no run is under way. *)
LEMMA NobodyRuns ==
  ASSUME OneCaller, NEW w \in Workers, NEW s \in {"receive", "clear"}, stage[w] # s, NEW id
  PROVE  Running(id, s) = {}
BY DEF OneCaller, Running

(* With one caller nothing is ever noted. *)
LEMMA StaysAlone ==
  ASSUME OneCaller, TracksInv, Alone, [Next]_vars
  PROVE  Alone'
<1>1. CASE UNCHANGED history
  BY <1>1 DEF Alone, history
<1>2. ASSUME NEW w \in Workers, NEW m \in Messages, StartReceive(w, m) PROVE Alone'
  <2>1. stage[w] = "idle"
    BY <1>2 DEF StartReceive, Start
  <2>2. Running(m.id, "receive") = {} /\ Running(m.id, "clear") = {}
    BY <2>1, NobodyRuns
  <2> QED
    BY <1>2, <2>2 DEF StartReceive, Alone, OneCaller
<1>3. ASSUME NEW w \in Workers, NEW id \in Ids \union {AllTracks}, StartClear(w, id)
      PROVE  Alone'
  <2>1. stage[w] = "idle"
    BY <1>3 DEF StartClear, Start
  <2>2. Running(id, "receive") = {}
    BY <2>1, NobodyRuns
  <2> QED
    BY <1>3, <2>2 DEF StartClear, Alone
<1>4. ASSUME NEW w \in Workers, Sweep(w) PROVE Alone'
  <2>1. /\ stage[w] = "clear"
        /\ disturbed' = disturbed \union
             {id \in Ids : tracks'[id] # tracks[id] /\ Running(id, "receive") # {}}
        /\ UNCHANGED <<overlapped, hinted>>
    BY <1>4, InvParts, SweepDoes
  <2>2. \A id \in Ids : Running(id, "receive") = {}
    BY <2>1, NobodyRuns
  <2> QED
    BY <2>1, <2>2 DEF Alone
<1>5. ASSUME NEW w \in Workers, Node(w), ~Sweep(w) PROVE UNCHANGED history
  BY <1>5 DEF Node, Passive, Decode, CorrelateManual, CorrelateGet, CorrelateCompare,
     CreateEntry, UpdateEntry, StoreGet, StoreCreate, CheckTTL, DeleteEntry
<1>6. Tick \/ (\E id \in Ids, ttl \in TTLs : SetTTL(id, ttl)) => UNCHANGED history
  BY DEF Tick, SetTTL
<1> QED
  BY <1>1, <1>2, <1>3, <1>4, <1>5, <1>6 DEF Next, Work, vars

(* What a node of a receive run does to its track, told to one caller: a    *)
(* write leaves the entry with a time, a TTL and a version.                 *)
Writes(id, time, ttl, version) ==
  /\ \A x \in Ids : x # id => Same(x)
  /\ tracks'[id] # 0
  /\ LET e == entries'[tracks'[id]]
     IN e.time = time /\ e.ttl = ttl /\ e.version = version

(* The steps of a receive run that write nothing.                           *)
Looks(w) ==
  LET m == job[w]
  IN \/ step[w] = 1 /\ m.decodes /\ MovesTo(w, 2)
     \/ step[w] = 1 /\ ~m.decodes /\ Ends(w, "aborted")
     \/ step[w] = 2 /\ MovesTo(w, 3)
     \/ step[w] = 3 /\ UNCHANGED <<stage, step, job, outcome>>
     \/ step[w] = 3 /\ tracks[m.id] = 0 /\ MovesTo(w, 4)
     \/ step[w] = 3 /\ tracks[m.id] # 0 /\ m.time > Entry(m.id).time /\ MovesTo(w, 5)
     \/ step[w] = 3 /\ tracks[m.id] # 0 /\ ~(m.time > Entry(m.id).time) /\ MovesTo(w, 6)
     \/ step[w] = 6 /\ MovesTo(w, 7)
     \/ step[w] = 7 /\ tracks[m.id] # 0 /\ Ends(w, "completed")

(* A receive run of the one caller, node by node: nothing fails but what    *)
(* does not decode, and the comparison is with the entry the track has.     *)
LEMMA LoneReceive ==
  ASSUME OneCaller, TracksInv, Alone, NEW w \in Workers, stage[w] = "receive", Node(w)
  PROVE  /\ now' = now
         /\ \/ (\A id \in Ids : Same(id)) /\ Looks(w)
            \/ /\ step[w] = 4 /\ tracks[job[w].id] = 0 /\ MovesTo(w, 7)
               /\ Writes(job[w].id, job[w].time, DefaultTTL, 1)
            \/ /\ step[w] = 5 /\ tracks[job[w].id] # 0 /\ MovesTo(w, 7)
               /\ job[w].time > Entry(job[w].id).time
               /\ Writes(job[w].id, job[w].time, Entry(job[w].id).ttl,
                         Entry(job[w].id).version + 1)
<1>1. TypeOK /\ DbOK /\ RunInv(w) /\ Receiving(w)
  BY InvParts DEF RunInv
<1>2. /\ job[w] \in Messages /\ job[w].id \in Ids /\ job[w].time \in Nat
      /\ job[w].hint = "auto"
  BY <1>1, ReceivedTrack DEF OneCaller
<1>3. UNCHANGED <<entries, tracks>> => \A id \in Ids : Same(id)
  BY DEF Same, Entry
<1>4. CASE Passive(w)
  BY <1>1, <1>3, <1>4, PassiveDoes DEF dbVars, Looks
<1>5. CASE Decode(w)
  BY <1>1, <1>3, <1>5, DecodeDoes DEF dbVars, Looks
<1>6. CASE CorrelateManual(w)
  BY <1>1, <1>2, <1>6, CorrelateManualDoes
<1>7. CASE CorrelateGet(w)
  BY <1>1, <1>3, <1>7, CorrelateGetDoes DEF dbVars, Looks, Hold
<1>8. CASE CorrelateCompare(w)
  <2>1. /\ step[w] = 3 /\ phase[w] = "compare" /\ UNCHANGED <<now, tracks, history>>
        /\ \/ /\ job[w].time > entries[held[w]].time \/ TornRead(w)
              /\ MovesTo(w, 5) /\ UNCHANGED entries
           \/ /\ ~(job[w].time > entries[held[w]].time) \/ TornRead(w)
              /\ MovesTo(w, 6)
              /\ entries' = [entries EXCEPT ![held[w]].seen = @ \union {job[w].time}]
    BY <1>1, <1>8, CorrelateCompareDoes
  <2>2. ~TornRead(w)
    BY DEF TornRead, OneCaller
  <2>3. tracks[job[w].id] # 0 /\ tracks[job[w].id] = held[w]
    BY <1>1, <2>1 DEF Receiving, Alone
  <2>4. held[w] \in 1..Len(entries)
    BY <1>1, <1>2, <2>3, LenProperties DEF DbOK
  <2>5. \A id \in Ids : Same(id)
    BY <1>1, <1>2, <1>3, <2>1, <2>4, DuplicateChanges
  <2>6. step[w] = 3 /\ Entry(job[w].id) = entries[held[w]]
    BY <2>1, <2>3 DEF Entry
  <2> QED
    BY <2>1, <2>2, <2>3, <2>5, <2>6 DEF Looks
<1>9. CASE CreateEntry(w)
  <2>1. /\ step[w] = 4
        /\ \/ tracks[job[w].id] = 0 /\ Create(job[w]) /\ MovesTo(w, 7)
           \/ tracks[job[w].id] # 0 /\ Ends(w, "aborted") /\ UNCHANGED dbVars
    BY <1>1, <1>9, CreateEntryDoes
  <2>2. tracks[job[w].id] = 0
    BY <1>1, <2>1 DEF Receiving, Alone
  <2>3. now' = now /\ Writes(job[w].id, job[w].time, DefaultTTL, 1)
    <3>1. PICK m \in Messages : m = job[w]
      BY <1>2
    <3>2. DbOK /\ tracks[m.id] = 0 /\ Create(m)
      BY <1>1, <2>1, <2>2, <3>1
    <3>3. /\ now' = now /\ tracks'[m.id] # 0 /\ \A x \in Ids : x # m.id => Same(x)
          /\ Entry(m.id)'.time = m.time /\ Entry(m.id)'.ttl = DefaultTTL
          /\ Entry(m.id)'.version = 1
      BY <3>2, CreateChanges
    <3> QED
      BY <3>1, <3>3 DEF Writes, Entry
  <2> QED
    BY <2>1, <2>2, <2>3
<1>10. CASE UpdateEntry(w)
  <2>1. /\ step[w] = 5
        /\ \/ tracks[job[w].id] # 0 /\ Update(job[w]) /\ MovesTo(w, 7)
           \/ tracks[job[w].id] = 0 /\ Ends(w, "aborted") /\ UNCHANGED dbVars
    BY <1>1, <1>10, UpdateEntryDoes
  <2>2. tracks[job[w].id] # 0 /\ job[w].time > Entry(job[w].id).time
    BY <1>1, <2>1 DEF Receiving, Alone
  <2>3. /\ now' = now
        /\ Writes(job[w].id, job[w].time, Entry(job[w].id).ttl, Entry(job[w].id).version + 1)
    <3>1. PICK m \in Messages : m = job[w]
      BY <1>2
    <3>2. DbOK /\ tracks[m.id] # 0 /\ Update(m)
      BY <1>1, <2>1, <2>2, <3>1
    <3>3. /\ now' = now /\ tracks' = tracks /\ \A x \in Ids : x # m.id => Same(x)
          /\ Entry(m.id)'.time = m.time /\ Entry(m.id)'.ttl = Entry(m.id).ttl
          /\ Entry(m.id)'.version = Entry(m.id).version + 1
      BY <3>2, UpdateChanges
    <3> QED
      BY <2>2, <3>1, <3>3 DEF Writes, Entry
  <2> QED
    BY <2>1, <2>2, <2>3
<1>11. CASE StoreGet(w)
  <2>1. /\ step[w] = 7 /\ UNCHANGED <<dbVars, history>>
        /\ \/ tracks[job[w].id] # 0 /\ Ends(w, "completed")
           \/ tracks[job[w].id] = 0 /\ Hold(w, "create", 0)
    BY <1>1, <1>11, StoreGetDoes
  <2>2. tracks[job[w].id] # 0
    BY <1>1, <2>1 DEF Receiving, Alone
  <2> QED
    BY <1>3, <2>1, <2>2 DEF dbVars, Looks
<1>12. CASE StoreCreate(w)
  BY <1>1, <1>12, StoreCreateDoes DEF Receiving, Alone
<1>13. ~CheckTTL(w) /\ ~Sweep(w) /\ ~DeleteEntry(w)
  BY <1>1, CheckTTLDoes, SweepDoes, DeleteEntryDoes
<1> QED
  BY <1>4, <1>5, <1>6, <1>7, <1>8, <1>9, <1>10, <1>11, <1>12, <1>13 DEF Node

(* A clear run without a track of the one caller: a sweep, and the end.     *)
LEMMA LoneClear ==
  ASSUME TracksInv, kind = "J2.2", NEW w \in Workers, stage[w] = "clear",
         job[w].id = AllTracks, Node(w)
  PROVE  /\ UNCHANGED <<now, entries>>
         /\ \/ step[w] = 1 /\ tracks' = CleanExpired /\ MovesTo(w, 3)
            \/ step[w] # 1 /\ tracks' = tracks /\ Ends(w, "completed")
<1>1. TypeOK /\ RunInv(w) /\ Clearing(w)
  BY InvParts DEF RunInv
<1>2. step[w] \notin {2, 4}
  BY <1>1, BoundsAssumption DEF Clearing
<1>3. CASE Passive(w)
  BY <1>1, <1>2, <1>3, PassiveDoes DEF dbVars
<1>4. CASE Sweep(w)
  BY <1>1, <1>4, SweepDoes
<1>5. /\ ~Decode(w) /\ ~CorrelateManual(w) /\ ~CorrelateGet(w) /\ ~CorrelateCompare(w)
      /\ ~CreateEntry(w) /\ ~UpdateEntry(w) /\ ~StoreGet(w) /\ ~StoreCreate(w)
  BY <1>1, DecodeDoes, CorrelateManualDoes, CorrelateGetDoes, CorrelateCompareDoes,
     CreateEntryDoes, UpdateEntryDoes, StoreGetDoes, StoreCreateDoes
<1>6. ~CheckTTL(w) /\ ~DeleteEntry(w)
  BY <1>1, <1>2, CheckTTLDoes, DeleteEntryDoes
<1> QED
  BY <1>3, <1>4, <1>5, <1>6 DEF Node

(* A track that keeps its entry looks the same. *)
LEMMA SameView ==
  ASSUME NEW id \in Ids, Same(id)
  PROVE  Latest'[id] = Latest[id] /\ Limit'[id] = Limit[id]
BY DEF Same, Latest, Limit, Entry

(* What the table shows of a track. *)
LEMMA View ==
  ASSUME DbOK, NEW id \in Ids
  PROVE  /\ tracks[id] = 0 => Latest[id] = AllTracks /\ Limit[id] = DefaultTTL
         /\ tracks[id] # 0 => /\ Latest[id] = Entry(id).time /\ Latest[id] \in Nat
                              /\ Limit[id] = Entry(id).ttl /\ Limit[id] \in Nat
                              /\ Latest[id] # AllTracks
<1>1. tracks[id] # 0 => Entry(id).time \in Nat /\ Entry(id).ttl \in Nat
  BY LenProperties, EntryThere DEF DbOK, Entry
<1> QED
  BY <1>1, BoundsAssumption DEF Latest, Limit

(* The same in the next state. *)
LEMMA ViewAfter ==
  ASSUME NEW id \in Ids
  PROVE  /\ tracks'[id] = 0 => Latest'[id] = AllTracks /\ Limit'[id] = DefaultTTL
         /\ tracks'[id] # 0 => /\ Latest'[id] = Entry(id)'.time
                               /\ Limit'[id] = Entry(id)'.ttl
BY DEF Latest, Limit, Entry

(* Two views that differ in one track. *)
LEMMA OneDiffers ==
  ASSUME NEW id \in Ids, NEW t, NEW l, \A x \in Ids : x # id => Same(x),
         Latest'[id] = t, Limit'[id] = l
  PROVE  Latest' = [Latest EXCEPT ![id] = t] /\ Limit' = [Limit EXCEPT ![id] = l]
<1>1. \A x \in Ids : x # id => Latest'[x] = Latest[x] /\ Limit'[x] = Limit[x]
  BY SameView
<1>2. /\ Latest = [x \in Ids |-> Latest[x]] /\ Latest' = [x \in Ids |-> Latest'[x]]
      /\ Limit = [x \in Ids |-> Limit[x]] /\ Limit' = [x \in Ids |-> Limit'[x]]
  BY DEF Latest, Limit
<1> HIDE DEF Latest, Limit
<1>3. Latest' = [Latest EXCEPT ![id] = t]
  BY <1>1, <1>2
<1>4. Limit' = [Limit EXCEPT ![id] = l]
  BY <1>1, <1>2
<1> QED
  BY <1>3, <1>4

(* Two views that do not differ. *)
LEMMA NoneDiffers ==
  ASSUME \A x \in Ids : Same(x)
  PROVE  Latest' = Latest /\ Limit' = Limit
<1>1. \A x \in Ids : Latest'[x] = Latest[x] /\ Limit'[x] = Limit[x]
  BY SameView
<1>2. /\ Latest = [x \in Ids |-> Latest[x]] /\ Latest' = [x \in Ids |-> Latest'[x]]
      /\ Limit = [x \in Ids |-> Limit[x]] /\ Limit' = [x \in Ids |-> Limit'[x]]
  BY DEF Latest, Limit
<1> HIDE DEF Latest, Limit
<1> QED
  BY <1>1, <1>2

(* What leaves the tracks as they look is no step of the table.             *)
LEMMA Unseen ==
  ASSUME now' = now, \A x \in Ids : Same(x)
  PROVE  UNCHANGED Table!vars
BY NoneDiffers DEF Table!vars, Latest, Limit

(* Create makes a track appear.                                             *)
LEMMA CreateAppears ==
  ASSUME DbOK, NEW m \in Messages, m.time <= now, tracks[m.id] = 0, Create(m)
  PROVE  Table!Appear(m.id)
<1>1. m.id \in Ids /\ m.time \in 0..now
  BY MessagesAssumption DEF DbOK
<1>2. /\ now' = now /\ \A x \in Ids : x # m.id => Same(x)
      /\ tracks'[m.id] # 0 /\ Entry(m.id)'.time = m.time /\ Entry(m.id)'.ttl = DefaultTTL
  BY CreateChanges
<1>3. Latest'[m.id] = m.time /\ Limit'[m.id] = DefaultTTL
  BY <1>1, <1>2, ViewAfter
<1>4. Latest[m.id] = AllTracks /\ Limit[m.id] = DefaultTTL
  BY <1>1, View
<1>5. Latest' = [Latest EXCEPT ![m.id] = m.time]
  BY <1>1, <1>2, <1>3, OneDiffers
<1>6. Limit' = Limit
  <2>1. Limit' = [Limit EXCEPT ![m.id] = DefaultTTL]
    BY <1>1, <1>2, <1>3, OneDiffers
  <2>2. Limit = [x \in Ids |-> Limit[x]]
    BY DEF Limit
  <2> HIDE DEF Limit
  <2> QED
    BY <1>1, <1>4, <2>1, <2>2
<1> QED
  BY <1>1, <1>2, <1>4, <1>5, <1>6 DEF Table!Appear, Latest, Limit

(* Update moves it to a strictly newer message.                             *)
LEMMA UpdateRefreshes ==
  ASSUME DbOK, NEW m \in Messages, m.time <= now, tracks[m.id] # 0,
         m.time > Entry(m.id).time, Update(m)
  PROVE  Table!Refresh(m.id)
<1>1. m.id \in Ids /\ m.time \in Nat /\ now \in Nat
  BY MessagesAssumption DEF DbOK
<1>2. /\ now' = now /\ tracks' = tracks /\ \A x \in Ids : x # m.id => Same(x)
      /\ Entry(m.id)'.time = m.time /\ Entry(m.id)'.ttl = Entry(m.id).ttl
  BY UpdateChanges
<1>3. Latest'[m.id] = m.time /\ Limit'[m.id] = Entry(m.id).ttl
  BY <1>1, <1>2, ViewAfter
<1>4. /\ Latest[m.id] # AllTracks /\ Latest[m.id] \in Nat
      /\ Latest[m.id] = Entry(m.id).time /\ Limit[m.id] = Entry(m.id).ttl
  BY <1>1, View
<1>5. Latest' = [Latest EXCEPT ![m.id] = m.time]
  BY <1>1, <1>2, <1>3, OneDiffers
<1>6. Limit' = Limit
  <2>1. Limit' = [Limit EXCEPT ![m.id] = Entry(m.id).ttl]
    BY <1>1, <1>2, <1>3, OneDiffers
  <2>2. Limit = [x \in Ids |-> Limit[x]]
    BY DEF Limit
  <2> HIDE DEF Limit
  <2> QED
    BY <1>1, <1>4, <2>1, <2>2
<1>7. m.time \in (Latest[m.id] + 1)..now
  BY <1>1, <1>4
<1> QED
  BY <1>2, <1>4, <1>5, <1>6, <1>7 DEF Table!Refresh, Latest, Limit

(* SetTTL sets the age it may reach.                                        *)
LEMMA SetTTLSetsLimit ==
  ASSUME DbOK, NEW id \in Ids, NEW ttl \in TTLs, SetTTL(id, ttl)
  PROVE  Table!SetLimit(id)
<1>1. /\ tracks[id] # 0 /\ UNCHANGED <<now, tracks>> /\ ttl \in Nat
      /\ entries' = [entries EXCEPT ![tracks[id]].ttl = ttl]
  BY BoundsAssumption DEF SetTTL
<1>2. /\ \A x \in Ids : x # id => Same(x)
      /\ Entry(id)'.time = Entry(id).time /\ Entry(id)'.ttl = ttl
  BY <1>1, TTLChanges
<1>3. Latest'[id] = Entry(id).time /\ Limit'[id] = ttl
  BY <1>1, <1>2, ViewAfter
<1>4. Latest[id] # AllTracks /\ Latest[id] = Entry(id).time
  BY <1>1, View
<1>5. Limit' = [Limit EXCEPT ![id] = Limit'[id]] /\ Limit'[id] \in Nat
  BY <1>1, <1>2, <1>3, OneDiffers
<1>6. Latest' = Latest
  <2>1. Latest' = [Latest EXCEPT ![id] = Latest[id]]
    BY <1>2, <1>3, <1>4, OneDiffers
  <2>2. Latest = [x \in Ids |-> Latest[x]]
    BY DEF Latest
  <2> HIDE DEF Latest
  <2> QED
    BY <2>1, <2>2
<1> QED
  BY <1>1, <1>4, <1>5, <1>6 DEF Table!SetLimit, Latest, Limit

(* Removing expired tracks, one or many, makes them vanish.                 *)
LEMMA RemovalVanishes ==
  ASSUME DbOK, UNCHANGED <<now, entries>>, tracks' \in [Ids -> Nat],
         \A id \in Ids : \/ tracks'[id] = tracks[id]
                         \/ tracks'[id] = 0 /\ Expired(Entry(id))
  PROVE  Table!Next
<1>4. PICK dead \in SUBSET Ids : dead = {id \in Ids : tracks[id] # 0 /\ tracks'[id] = 0}
  OBVIOUS
<1>1. \A id \in Ids : tracks'[id] = tracks[id] => Same(id)
  BY RemovalChanges
<1>2. ASSUME NEW id \in dead
      PROVE  Latest[id] # AllTracks /\ now - Latest[id] > Limit[id]
  BY <1>4, View DEF Expired
<1>3. ASSUME NEW id \in Ids
      PROVE  /\ Latest'[id] = IF id \in dead THEN AllTracks ELSE Latest[id]
             /\ Limit'[id] = IF id \in dead THEN DefaultTTL ELSE Limit[id]
  <2>1. CASE id \in dead
    BY <1>4, <2>1, ViewAfter
  <2>2. CASE id \notin dead
    <3>1. tracks'[id] = tracks[id]
      BY <1>4, <2>2
    <3> QED
      BY <1>1, <2>2, <3>1, SameView
  <2> QED
    BY <2>1, <2>2
<1>5. /\ Latest' = [x \in Ids |-> Latest'[x]] /\ Limit' = [x \in Ids |-> Limit'[x]]
  BY DEF Latest, Limit
<1>6. /\ Latest' = [id \in Ids |-> IF id \in dead THEN AllTracks ELSE Latest[id]]
      /\ Limit' = [id \in Ids |-> IF id \in dead THEN DefaultTTL ELSE Limit[id]]
  BY <1>3, <1>5
<1>7. Table!Vanish(dead)
  BY <1>2, <1>6 DEF Table!Vanish, Latest, Limit
<1> QED
  BY <1>4, <1>7 DEF Table!Next

(* The table's steps.                                                       *)
LEMMA NextTable ==
  /\ \A id \in Ids : Table!Appear(id) \/ Table!Refresh(id) \/ Table!SetLimit(id) => Table!Next
  /\ Table!Pass => Table!Next
BY DEF Table!Next

(* What a node does to the table. *)
LEMMA NodeSimulates ==
  ASSUME TracksInv, Alone, NEW w \in Workers, Node(w)
  PROVE  Table!Next \/ UNCHANGED Table!vars
<1>1. TypeOK /\ DbOK /\ RunInv(w)
  BY InvParts
<1>2. UNCHANGED dbVars => UNCHANGED Table!vars
  BY DEF dbVars, Table!vars, Entry
<1>3. stage[w] = "receive" => job[w] \in Messages /\ job[w].id \in Ids /\ job[w].time <= now
  BY <1>1, ReceivedTrack DEF RunInv, Receiving
<1>4. CASE CorrelateCompare(w)
  <2>1. /\ stage[w] = "receive" /\ phase[w] = "compare" /\ UNCHANGED <<now, tracks>>
        /\ \/ UNCHANGED entries
           \/ entries' = [entries EXCEPT ![held[w]].seen = @ \union {job[w].time}]
    BY <1>1, <1>4, CorrelateCompareDoes
  <2>2. held[w] \in 1..Len(entries)
    <3>1. held[w] # 0 /\ Len(entries) \in Nat
      BY <1>1, <2>1, LenProperties DEF RunInv, Receiving, DbOK
    <3> QED
      BY <1>1, <3>1 DEF TypeOK
  <2>3. CASE UNCHANGED entries
    BY <1>2, <2>1, <2>3 DEF dbVars
  <2>4. CASE entries' = [entries EXCEPT ![held[w]].seen = @ \union {job[w].time}]
    <3>1. job[w].time \in Nat
      BY <1>1, <2>1, ReceivedTrack
    <3>2. \A x \in Ids : Same(x)
      BY <1>1, <2>1, <2>2, <2>4, <3>1, DuplicateChanges
    <3> QED
      BY <2>1, <3>2, Unseen
  <2> QED
    BY <2>1, <2>3, <2>4
<1>5. CASE CreateEntry(w)
  <2>1. /\ stage[w] = "receive"
        /\ (tracks[job[w].id] = 0 /\ Create(job[w])) \/ UNCHANGED dbVars
    BY <1>1, <1>5, CreateEntryDoes
  <2> QED
    BY <1>1, <1>2, <1>3, <2>1, CreateAppears, NextTable
<1>6. CASE UpdateEntry(w)
  <2>1. /\ stage[w] = "receive" /\ step[w] = 5
        /\ (tracks[job[w].id] # 0 /\ Update(job[w])) \/ UNCHANGED dbVars
    BY <1>1, <1>6, UpdateEntryDoes
  <2>2. tracks[job[w].id] # 0 => job[w].time > Entry(job[w].id).time
    BY <1>1, <2>1 DEF RunInv, Receiving, Alone
  <2> QED
    BY <1>1, <1>2, <1>3, <2>1, <2>2, UpdateRefreshes, NextTable
<1>7. CASE StoreCreate(w)
  <2>1. /\ stage[w] = "receive"
        /\ (tracks[job[w].id] = 0 /\ Create(job[w])) \/ UNCHANGED dbVars
    BY <1>1, <1>7, StoreCreateDoes
  <2> QED
    BY <1>1, <1>2, <1>3, <2>1, CreateAppears, NextTable
<1>8. CASE Sweep(w)
  <2>1. tracks' = CleanExpired /\ UNCHANGED <<now, entries>>
    BY <1>1, <1>8, SweepDoes
  <2>2. \A id \in Ids : \/ tracks'[id] = tracks[id]
                        \/ tracks'[id] = 0 /\ Expired(Entry(id))
    BY <2>1 DEF CleanExpired
  <2>3. tracks' \in [Ids -> Nat]
    BY <1>1, <2>1 DEF CleanExpired, DbOK
  <2> QED
    BY <1>1, <2>1, <2>2, <2>3, RemovalVanishes
<1>9. CASE DeleteEntry(w)
  <2>1. /\ stage[w] = "clear" /\ step[w] = 4 /\ UNCHANGED <<now, entries>>
        /\ tracks' = [tracks EXCEPT ![job[w].id] = 0]
    BY <1>1, <1>9, DeleteEntryDoes
  <2>2. job[w].id \in Ids /\ (tracks[job[w].id] # 0 => Expired(Entry(job[w].id)))
    BY <1>1, <2>1 DEF RunInv, Clearing, Alone
  <2>3. tracks \in [Ids -> Nat]
    BY <1>1, LenProperties DEF DbOK
  <2>4. \A id \in Ids : \/ tracks'[id] = tracks[id]
                        \/ tracks'[id] = 0 /\ Expired(Entry(id))
    BY <2>1, <2>2, <2>3
  <2>5. tracks' \in [Ids -> Nat]
    BY <2>1, <2>3
  <2> QED
    BY <1>1, <2>1, <2>4, <2>5, RemovalVanishes
<1> QED
  BY <1>2, <1>4, <1>5, <1>6, <1>7, <1>8, <1>9 DEF Node, Passive, Decode, CorrelateManual,
     CorrelateGet, StoreGet, CheckTTL

(* Every step is a step of the table or none. *)
LEMMA NextSimulates ==
  ASSUME TracksInv, Alone, [Next]_vars
  PROVE  [Table!Next]_(Table!vars)
<1>1. DbOK
  BY InvParts
<1>2. UNCHANGED <<now, entries, tracks>> => UNCHANGED Table!vars
  BY DEF Table!vars, Entry
<1>3. CASE Tick
  <2>1. now' = now + 1 /\ UNCHANGED <<entries, tracks>>
    BY <1>3 DEF Tick
  <2>2. \A x \in Ids : Same(x)
    BY <2>1 DEF Same, Entry
  <2>3. Table!Pass
    BY <2>1, <2>2, NoneDiffers DEF Table!Pass, Latest, Limit
  <2> QED
    BY <2>3, NextTable
<1>4. ASSUME NEW id \in Ids, NEW ttl \in TTLs, SetTTL(id, ttl)
      PROVE  Table!Next
  BY <1>1, <1>4, SetTTLSetsLimit, NextTable
<1>5. ASSUME NEW w, NEW s, NEW token, Start(w, s, token)
      PROVE  UNCHANGED Table!vars
  BY <1>2, <1>5 DEF Start, dbVars
<1>6. ASSUME NEW w \in Workers, Node(w) PROVE Table!Next \/ UNCHANGED Table!vars
  BY <1>6, NodeSimulates
<1>7. CASE UNCHANGED vars
  BY <1>2, <1>7 DEF vars, dbVars
<1> QED
  BY <1>3, <1>4, <1>5, <1>6, <1>7 DEF Next, Work, StartReceive, StartClear

(* At first the table is empty and nothing is noted.                        *)
LEMMA InitSimulates == Init => Table!Init /\ Alone
<1> SUFFICES ASSUME Init PROVE Table!Init /\ Alone
  OBVIOUS
<1>1. now = 0 /\ \A id \in Ids : tracks[id] = 0
  BY DEF Init
<1>2. Table!Init
  BY <1>1 DEF Table!Init
<1> QED
  BY <1>2 DEF Init, Alone

(* One caller at a time finds in the database (track_db.go) what LatestTable *)
(* promises: a track appears, moves to a strictly newer message only, and vanishes *)
(* only when expired, whatever the order and the age of the messages it receives. *)
THEOREM TableImplemented ==
  ASSUME OneCaller
  PROVE  Spec => TableSpec
<1>1. TracksInv /\ Alone /\ [Next]_vars => Alone'
  BY StaysAlone
<1>2. TracksInv /\ Alone /\ [Next]_vars => [Table!Next]_(Table!vars)
  BY NextSimulates
<1> QED
  BY <1>1, <1>2, InitSimulates, TracksInvariant, PTL DEF Spec, TableSpec, Table!Spec
=============================================================================
