------------------------- MODULE PriorityQueueProofs -------------------------
(***************************************************************************)
(* Proofs about the transmit queues, for every set of messages, of NPGs    *)
(* and of workers, and about the programs that drive them, for scripts of  *)
(* any length.                                                             *)
(***************************************************************************)
EXTENDS PriorityScenarios, FoldLemmas, SequenceTheorems, TLAPS

(* The scan of Dequeue over the first n entries, as a function. *)
Scan(q, n, scan) ==
  scan = [i \in 1..n |-> IF i = 1 THEN 1
                         ELSE IF Less(q[i], q[scan[i - 1]]) THEN i ELSE scan[i - 1]]

(* There is such a function: it is extended round by round. *)
LEMMA ScanExists ==
  ASSUME NEW q, NEW n \in Nat
  PROVE  \E scan : Scan(q, n, scan)
<1> DEFINE M == {k \in Nat : ~ \E scan : Scan(q, k, scan)}
<1>1. ASSUME n \in M PROVE FALSE
  <2>1. PICK m \in M : \A j \in M : m <= j
    <3>1. M \in SUBSET Nat /\ M # {} BY <1>1
    <3> HIDE DEF M
    <3> QED BY <3>1, LeastExists
  <2>2. m \in Nat OBVIOUS
  <2>3. CASE m = 0
    <3>1. Scan(q, 0, [i \in 1..0 |-> 1]) BY DEF Scan
    <3> QED BY <2>3, <3>1
  <2>4. CASE m # 0
    <3>1. m - 1 \in Nat /\ m - 1 \notin M BY <2>1, <2>2, <2>4
    <3>2. PICK g : Scan(q, m - 1, g) BY <3>1
    <3> DEFINE next == IF m = 1 THEN 1
                       ELSE IF Less(q[m], q[g[m - 1]]) THEN m ELSE g[m - 1]
               h == [i \in 1..m |-> IF i = m THEN next ELSE g[i]]
    <3> HIDE DEF M
    <3>3. ASSUME NEW i \in 1..m
          PROVE  h[i] = IF i = 1 THEN 1
                        ELSE IF Less(q[i], q[h[i - 1]]) THEN i ELSE h[i - 1]
      <4>1. CASE i = 1
        <5>1. CASE m = 1 BY <4>1, <5>1
        <5>2. CASE m # 1
          <6>1. i \in 1..(m - 1) BY <4>1, <5>2, <2>2, <2>4
          <6>2. g[i] = 1 BY <6>1, <3>2, <4>1 DEF Scan
          <6> QED BY <6>2, <5>2, <4>1
        <5> QED BY <5>1, <5>2
      <4>2. CASE i # 1 /\ i = m
        <5>1. i - 1 \in 1..m /\ i - 1 # m BY <4>2, <2>2
        <5>2. h[i - 1] = g[m - 1] BY <5>1, <4>2
        <5>3. h[i] = next BY <4>2
        <5> HIDE DEF h
        <5> QED BY <5>2, <5>3, <4>2
      <4>3. CASE i # 1 /\ i # m
        <5>1. i - 1 \in 1..m /\ i - 1 # m /\ i \in 1..(m - 1) BY <4>3, <2>2
        <5>2. h[i - 1] = g[i - 1] /\ h[i] = g[i] BY <5>1, <4>3
        <5>3. g[i] = IF i = 1 THEN 1
                     ELSE IF Less(q[i], q[g[i - 1]]) THEN i ELSE g[i - 1]
          BY <5>1, <3>2 DEF Scan
        <5> HIDE DEF h
        <5> QED BY <5>2, <5>3
      <4> QED BY <4>1, <4>2, <4>3
    <3>4. Scan(q, m, h)
      <4>1. h = [i \in 1..m |-> h[i]] OBVIOUS
      <4> HIDE DEF h
      <4> QED BY <4>1, <3>3 DEF Scan
    <3> QED BY <3>4, <2>1 DEF M
  <2> QED BY <2>3, <2>4
<1> QED BY <1>1

(* Dequeue takes the entry at which the scan of the whole queue ends. *)
LEMMA BestOfScan ==
  ASSUME NEW q, Len(q) \in Nat
  PROVE  \E scan : Scan(q, Len(q), scan) /\ Best(q) = scan[Len(q)]
<1>1. \E scan : Scan(q, Len(q), scan) BY ScanExists
<1> DEFINE s == CHOOSE scan : Scan(q, Len(q), scan)
<1>2. Scan(q, Len(q), s) BY <1>1
<1>3. Best(q) = s[Len(q)] BY DEF Best, Scan
<1> QED BY <1>2, <1>3

(* What a queue holds. *)
Entries == [msg : Messages, enqueuedAt : 0..MaxNow]

(* An entry before another is before everything that other does not follow. *)
LEMMA LessOver ==
  ASSUME NEW a \in Entries, NEW b \in Entries, NEW c \in Entries,
         Less(a, b), ~Less(c, b)
  PROVE  Less(a, c)
<1>1. /\ Terminal(a.msg) \in BOOLEAN /\ Terminal(b.msg) \in BOOLEAN /\ Terminal(c.msg) \in BOOLEAN
      /\ Priority(a.msg) \in Int /\ Priority(b.msg) \in Int /\ Priority(c.msg) \in Int
      /\ a.enqueuedAt \in Int /\ b.enqueuedAt \in Int /\ c.enqueuedAt \in Int
  BY MessagesAssumption DEF Entries
<1> DEFINE ta == Terminal(a.msg) tb == Terminal(b.msg) tc == Terminal(c.msg)
<1>2. CASE ta /\ tb
  <2>1. CASE tc
    <3>1. ta = tb /\ tb = tc /\ ta = tc BY <1>1, <1>2, <2>1, Zenon
    <3> QED BY <1>1, <1>2, <2>1, <3>1 DEF Less
  <2>2. CASE ~tc BY <2>2, <1>2 DEF Less
  <2> QED BY <2>1, <2>2
<1>3. CASE ~ta /\ ~tb BY <1>1, <1>3 DEF Less
<1>4. CASE ta /\ ~tb
  <2>1. CASE tc BY <2>1, <1>4 DEF Less
  <2>2. CASE ~tc BY <2>2, <1>4 DEF Less
  <2> QED BY <2>1, <2>2
<1>5. CASE ~ta /\ tb BY <1>5, <1>1 DEF Less
<1> QED BY <1>2, <1>3, <1>4, <1>5

(* No two entries are before each other. *)
LEMMA LessAsymmetric ==
  ASSUME NEW a \in Entries, NEW b \in Entries, Less(a, b)
  PROVE  ~Less(b, a)
<1>1. /\ Terminal(a.msg) \in BOOLEAN /\ Terminal(b.msg) \in BOOLEAN
      /\ Priority(a.msg) \in Int /\ Priority(b.msg) \in Int
      /\ a.enqueuedAt \in Int /\ b.enqueuedAt \in Int
  BY MessagesAssumption DEF Entries
<1>2. CASE Terminal(a.msg) /\ Terminal(b.msg) BY <1>1, <1>2 DEF Less
<1>3. CASE ~(Terminal(a.msg) /\ Terminal(b.msg)) BY <1>1, <1>3 DEF Less
<1> QED BY <1>2, <1>3

(* A position that none of the first i entries goes before, and that goes   *)
(* before all of those ahead of it.                                         *)
First(q, i, b) ==
  /\ b \in 1..i
  /\ \A j \in 1..i : ~Less(q[j], q[b])
  /\ \A j \in 1..(b - 1) : Less(q[b], q[j])

(* After each round of the scan its position is first among those seen. *)
LEMMA ScanIsFirst ==
  ASSUME NEW q \in Seq(Entries), NEW scan, Scan(q, Len(q), scan), NEW n \in 1..Len(q)
  PROVE  First(q, n, scan[n])
<1> DEFINE M == {i \in 1..Len(q) : ~First(q, i, scan[i])}
<1>0. \A i \in 1..Len(q) : q[i] \in Entries BY ElementOfSeq
<1>1. ASSUME n \in M PROVE FALSE
  <2>1. PICK m \in M : \A j \in M : m <= j
    <3>1. M \in SUBSET Nat /\ M # {} BY <1>1
    <3> HIDE DEF M
    <3> QED BY <3>1, LeastExists
  <2>2. m \in 1..Len(q) /\ ~First(q, m, scan[m]) BY <2>1
  <2>3. CASE m = 1
    <3>1. scan[1] = 1 BY <2>2, <2>3 DEF Scan
    <3>2. ~Less(q[1], q[1]) BY <1>0, <2>2, <2>3, LessAsymmetric
    <3> QED BY <3>1, <3>2, <2>2, <2>3 DEF First
  <2>4. CASE m # 1
    <3>1. m - 1 \in 1..Len(q) /\ First(q, m - 1, scan[m - 1]) BY <2>1, <2>2, <2>4
    <3> DEFINE o == scan[m - 1]
    <3>2. /\ o \in 1..(m - 1) /\ o \in 1..Len(q)
          /\ \A j \in 1..(m - 1) : ~Less(q[j], q[o])
          /\ \A j \in 1..(o - 1) : Less(q[o], q[j])
      BY <3>1, <2>2 DEF First
    <3>3. scan[m] = IF Less(q[m], q[o]) THEN m ELSE o BY <2>2, <2>4 DEF Scan
    <3> HIDE DEF o, M
    <3>4. CASE Less(q[m], q[o])
      <4>1. ASSUME NEW j \in 1..(m - 1) PROVE Less(q[m], q[j]) /\ ~Less(q[j], q[m])
        <5>1. j \in 1..Len(q) /\ ~Less(q[j], q[o]) BY <3>2, <2>2
        <5>2. q[j] \in Entries /\ q[m] \in Entries /\ q[o] \in Entries
          BY <1>0, <2>2, <3>2, <5>1
        <5>3. Less(q[m], q[j]) BY <3>4, <5>1, <5>2, LessOver
        <5> QED BY <5>2, <5>3, LessAsymmetric
      <4>2. ~Less(q[m], q[m]) BY <1>0, <2>2, LessAsymmetric
      <4>3. \A j \in 1..m : ~Less(q[j], q[m])
        <5>1. \A j \in 1..m : j = m \/ j \in 1..(m - 1) BY <2>2
        <5> QED BY <5>1, <4>1, <4>2
      <4> QED BY <3>3, <3>4, <4>1, <4>3, <2>2 DEF First
    <3>5. CASE ~Less(q[m], q[o])
      <4>1. \A j \in 1..m : j = m \/ j \in 1..(m - 1) BY <2>2
      <4>2. \A j \in 1..m : ~Less(q[j], q[o]) BY <4>1, <3>2, <3>5
      <4>3. o \in 1..m BY <3>2, <2>2
      <4> QED BY <3>3, <3>5, <4>2, <4>3, <3>2, <2>2 DEF First
    <3> QED BY <3>4, <3>5
  <2> QED BY <2>3, <2>4
<1> QED BY <1>1

(* Dequeue takes the first entry of a queue in the order of less.           *)
LEMMA BestIsFirst ==
  ASSUME NEW q \in Seq(Entries), q # <<>>
  PROVE  First(q, Len(q), Best(q))
<1>1. Len(q) \in Nat /\ Len(q) # 0 BY EmptySeq, LenProperties
<1>2. PICK scan : Scan(q, Len(q), scan) /\ Best(q) = scan[Len(q)] BY <1>1, BestOfScan
<1>3. Len(q) \in 1..Len(q) BY <1>1
<1> QED BY <1>2, <1>3, ScanIsFirst
-----------------------------------------------------------------------------
(* The loop of PurgeStale over the first n entries, as a function. *)
Keep(q, t, n, kept) ==
  kept = [i \in 0..n |-> IF i = 0 THEN <<>>
                         ELSE IF Stale(q[i], t) THEN kept[i - 1]
                         ELSE Append(kept[i - 1], q[i])]

(* There is such a function. *)
LEMMA KeepExists ==
  ASSUME NEW q, NEW t, NEW n \in Nat
  PROVE  \E kept : Keep(q, t, n, kept)
<1> DEFINE M == {k \in Nat : ~ \E kept : Keep(q, t, k, kept)}
<1>1. ASSUME n \in M PROVE FALSE
  <2>1. PICK m \in M : \A j \in M : m <= j
    <3>1. M \in SUBSET Nat /\ M # {} BY <1>1
    <3> HIDE DEF M
    <3> QED BY <3>1, LeastExists
  <2>2. m \in Nat OBVIOUS
  <2>3. CASE m = 0
    <3> DEFINE h == [i \in 0..0 |-> <<>>]
    <3>1. ASSUME NEW i \in 0..0
          PROVE  h[i] = IF i = 0 THEN <<>>
                        ELSE IF Stale(q[i], t) THEN h[i - 1] ELSE Append(h[i - 1], q[i])
      OBVIOUS
    <3>2. h = [i \in 0..0 |-> h[i]] OBVIOUS
    <3> HIDE DEF h
    <3>3. Keep(q, t, 0, h) BY <3>1, <3>2 DEF Keep
    <3> QED BY <2>3, <3>3
  <2>4. CASE m # 0
    <3>1. m - 1 \in Nat /\ m - 1 \notin M BY <2>1, <2>2, <2>4
    <3>2. PICK g : Keep(q, t, m - 1, g) BY <3>1
    <3> DEFINE next == IF Stale(q[m], t) THEN g[m - 1] ELSE Append(g[m - 1], q[m])
               h == [i \in 0..m |-> IF i = m THEN next ELSE g[i]]
    <3> HIDE DEF M
    <3>3. ASSUME NEW i \in 0..m
          PROVE  h[i] = IF i = 0 THEN <<>>
                        ELSE IF Stale(q[i], t) THEN h[i - 1] ELSE Append(h[i - 1], q[i])
      <4>1. CASE i = 0
        <5>1. i \in 0..(m - 1) /\ i # m BY <4>1, <2>2, <2>4
        <5>2. g[i] = <<>> BY <5>1, <3>2, <4>1 DEF Keep
        <5>3. h[i] = g[i] BY <5>1
        <5> QED BY <5>2, <5>3, <4>1
      <4>2. CASE i # 0 /\ i = m
        <5>1. i - 1 \in 0..m /\ i - 1 # m BY <4>2, <2>2
        <5>2. h[i - 1] = g[m - 1] BY <5>1, <4>2
        <5>3. h[i] = next BY <4>2
        <5> HIDE DEF h
        <5> QED BY <5>2, <5>3, <4>2
      <4>3. CASE i # 0 /\ i # m
        <5>1. i - 1 \in 0..m /\ i - 1 # m /\ i \in 0..(m - 1) BY <4>3, <2>2
        <5>2. h[i - 1] = g[i - 1] /\ h[i] = g[i] BY <5>1, <4>3
        <5>3. g[i] = IF i = 0 THEN <<>>
                     ELSE IF Stale(q[i], t) THEN g[i - 1] ELSE Append(g[i - 1], q[i])
          BY <5>1, <3>2 DEF Keep
        <5> HIDE DEF h
        <5> QED BY <5>2, <5>3
      <4> QED BY <4>1, <4>2, <4>3
    <3>4. Keep(q, t, m, h)
      <4>1. h = [i \in 0..m |-> h[i]] OBVIOUS
      <4> HIDE DEF h
      <4> QED BY <4>1, <3>3 DEF Keep
    <3> QED BY <3>4, <2>1 DEF M
  <2> QED BY <2>3, <2>4
<1> QED BY <1>1

(* PurgeStale leaves what its loop kept of the whole queue. *)
LEMMA FreshOfKeep ==
  ASSUME NEW q, Len(q) \in Nat, NEW t
  PROVE  \E kept : Keep(q, t, Len(q), kept) /\ Fresh(q, t) = kept[Len(q)]
<1>1. \E kept : Keep(q, t, Len(q), kept) BY KeepExists
<1> DEFINE k == CHOOSE kept : Keep(q, t, Len(q), kept)
<1>2. Keep(q, t, Len(q), k) BY <1>1
<1>3. Fresh(q, t) = k[Len(q)] BY DEF Fresh, Keep
<1> QED BY <1>2, <1>3

(* The queue r is the queue q without some of its entries, the others in    *)
(* order; f says where each of them was.                                    *)
Thins(r, q, f) ==
  /\ r \in Seq(Entries)
  /\ f \in [1..Len(r) -> 1..Len(q)]
  /\ \A i, j \in 1..Len(r) : i < j => f[i] < f[j]
  /\ \A i \in 1..Len(r) : r[i] = q[f[i]]

(* What the loop has kept after its first n entries. *)
KeptOf(q, t, n, r) ==
  \E f : /\ Thins(r, q, f)
         /\ \A i \in 1..Len(r) : f[i] <= n /\ ~Stale(q[f[i]], t)
         /\ \A j \in 1..n : Stale(q[j], t) \/ \E i \in 1..Len(r) : f[i] = j

(* A round of the loop over an entry that is not stale. *)
LEMMA KeepsOne ==
  ASSUME NEW q \in Seq(Entries), NEW t, NEW m \in 1..Len(q), NEW r,
         KeptOf(q, t, m - 1, r), ~Stale(q[m], t)
  PROVE  KeptOf(q, t, m, Append(r, q[m]))
<1>1. PICK f : /\ Thins(r, q, f)
               /\ \A i \in 1..Len(r) : f[i] <= m - 1 /\ ~Stale(q[f[i]], t)
               /\ \A j \in 1..(m - 1) : Stale(q[j], t) \/ \E i \in 1..Len(r) : f[i] = j
  BY DEF KeptOf
<1> DEFINE s == Append(r, q[m])
           l == Len(r)
           h == [i \in 1..(l + 1) |-> IF i = l + 1 THEN m ELSE f[i]]
<1>2. r \in Seq(Entries) /\ l \in Nat /\ m \in Nat /\ q[m] \in Entries
  BY <1>1, ElementOfSeq, LenProperties DEF Thins
<1>3. s \in Seq(Entries) /\ Len(s) = l + 1 /\ s[l + 1] = q[m]
      /\ \A i \in 1..l : s[i] = r[i]
  BY <1>2
<1>4. /\ f \in [1..l -> 1..Len(q)]
      /\ \A i, j \in 1..l : i < j => f[i] < f[j]
      /\ \A i \in 1..l : r[i] = q[f[i]]
  BY <1>1 DEF Thins
<1> HIDE DEF s, l
<1>5. /\ h[l + 1] = m
      /\ \A i \in 1..l : h[i] = f[i]
      /\ \A i \in 1..(l + 1) : i = l + 1 \/ i \in 1..l
  BY <1>2
<1>6. h \in [1..(l + 1) -> 1..Len(q)]
  BY <1>2, <1>4
<1> HIDE DEF h
<1>7. \A i \in 1..l : f[i] \in Nat /\ f[i] < m /\ ~Stale(q[f[i]], t)
  BY <1>1, <1>4, <1>2 DEF l
<1>8. \A i, j \in 1..(l + 1) : i < j => h[i] < h[j]
  <2> SUFFICES ASSUME NEW i \in 1..(l + 1), NEW j \in 1..(l + 1), i < j
               PROVE  h[i] < h[j]
    OBVIOUS
  <2>1. i \in 1..l BY <1>2, <1>5
  <2>2. CASE j = l + 1 BY <2>1, <2>2, <1>5, <1>7
  <2>3. CASE j \in 1..l BY <2>1, <2>3, <1>5, <1>4
  <2> QED BY <2>2, <2>3, <1>5
<1>9. \A i \in 1..(l + 1) : s[i] = q[h[i]] BY <1>3, <1>4, <1>5
<1>10. Thins(s, q, h) BY <1>3, <1>6, <1>8, <1>9 DEF Thins
<1>11. ASSUME NEW i \in 1..(l + 1) PROVE h[i] <= m /\ ~Stale(q[h[i]], t)
  <2>1. CASE i = l + 1
    <3>1. h[i] = m /\ m <= m BY <2>1, <1>5, <1>2
    <3> QED BY <3>1, Zenon
  <2>2. CASE i \in 1..l
    <3>1. h[i] = f[i] BY <2>2, <1>5, Zenon
    <3>2. f[i] <= m BY <2>2, <1>7, <1>2
    <3> QED BY <3>1, <3>2, <2>2, <1>7, Zenon
  <2> QED BY <2>1, <2>2, <1>5, Zenon
<1>12. ASSUME NEW j \in 1..m PROVE Stale(q[j], t) \/ \E i \in 1..(l + 1) : h[i] = j
  <2>1. CASE j = m
    <3>1. l + 1 \in 1..(l + 1) BY <1>2
    <3> QED BY <2>1, <3>1, <1>5
  <2>2. CASE j # m
    <3>1. j \in 1..(m - 1) BY <2>2, <1>2
    <3>2. Stale(q[j], t) \/ \E i \in 1..l : f[i] = j BY <3>1, <1>1 DEF l
    <3>3. \A i \in 1..l : i \in 1..(l + 1) BY <1>2
    <3> QED BY <3>2, <3>3, <1>5
  <2> QED BY <2>1, <2>2
<1> QED BY <1>3, <1>10, <1>11, <1>12 DEF KeptOf, s

(* PurgeStale keeps exactly the entries that are not stale, in order. *)
LEMMA FreshThins ==
  ASSUME NEW q \in Seq(Entries), NEW t
  PROVE  KeptOf(q, t, Len(q), Fresh(q, t))
<1>1. Len(q) \in Nat BY LenProperties
<1>2. PICK kept : Keep(q, t, Len(q), kept) /\ Fresh(q, t) = kept[Len(q)]
  BY <1>1, FreshOfKeep
<1> DEFINE M == {i \in 0..Len(q) : ~KeptOf(q, t, i, kept[i])}
<1>3. ASSUME Len(q) \in M PROVE FALSE
  <2>1. PICK m \in M : \A j \in M : m <= j
    <3>1. M \in SUBSET Nat /\ M # {} BY <1>3
    <3> HIDE DEF M
    <3> QED BY <3>1, LeastExists
  <2>2. m \in 0..Len(q) /\ ~KeptOf(q, t, m, kept[m]) BY <2>1
  <2>3. CASE m = 0
    <3>1. kept[0] = <<>> BY <2>2, <2>3, <1>2 DEF Keep
    <3> DEFINE f == [i \in 1..0 |-> 1]
    <3>2. <<>> \in Seq(Entries) /\ Len(<<>>) = 0 OBVIOUS
    <3>3. f \in [1..0 -> 1..Len(q)] OBVIOUS
    <3> HIDE DEF f
    <3>4. Thins(<<>>, q, f) BY <3>2, <3>3 DEF Thins
    <3>5. KeptOf(q, t, 0, <<>>) BY <3>2, <3>4 DEF KeptOf
    <3> QED BY <3>1, <3>5, <2>2, <2>3
  <2>4. CASE m # 0
    <3>1. m \in 1..Len(q) /\ m - 1 \in 0..Len(q) /\ KeptOf(q, t, m - 1, kept[m - 1])
      BY <2>1, <2>2, <2>4, <1>1
    <3>2. kept[m] = IF Stale(q[m], t) THEN kept[m - 1] ELSE Append(kept[m - 1], q[m])
      BY <1>2, <2>2, <2>4 DEF Keep
    <3> HIDE DEF M
    <3>3. CASE ~Stale(q[m], t) BY <3>1, <3>2, <3>3, <2>2, KeepsOne
    <3>4. CASE Stale(q[m], t)
      <4> DEFINE r == kept[m - 1]
      <4>1. kept[m] = r BY <3>2, <3>4
      <4>2. PICK f : /\ Thins(r, q, f)
                     /\ \A i \in 1..Len(r) : f[i] <= m - 1 /\ ~Stale(q[f[i]], t)
                     /\ \A j \in 1..(m - 1) : Stale(q[j], t) \/ \E i \in 1..Len(r) : f[i] = j
        BY <3>1 DEF KeptOf
      <4> HIDE DEF r
      <4>3. \A i \in 1..Len(r) : f[i] \in Int BY <4>2 DEF Thins
      <4>4. \A i \in 1..Len(r) : f[i] <= m BY <4>2, <4>3, <3>1
      <4>5. \A j \in 1..m : j = m \/ j \in 1..(m - 1) BY <3>1
      <4>6. KeptOf(q, t, m, r) BY <4>2, <4>4, <4>5, <3>4 DEF KeptOf
      <4> QED BY <4>1, <4>6, <2>2
    <3> QED BY <3>3, <3>4
  <2> QED BY <2>3, <2>4
<1> QED BY <1>1, <1>2, <1>3

(* Dequeue removes one entry and leaves the others in order. *)
LEMMA WithoutThins ==
  ASSUME NEW q \in Seq(Entries), NEW b \in 1..Len(q)
  PROVE  \E f : /\ Thins(Without(q, b), q, f)
                /\ \A i \in 1..Len(Without(q, b)) : f[i] # b
                /\ \A j \in 1..Len(q) : j = b \/ \E i \in 1..Len(Without(q, b)) : f[i] = j
<1> DEFINE r == Without(q, b)
           l == Len(q)
           f == [i \in 1..(l - 1) |-> IF i < b THEN i ELSE i + 1]
<1>1. l \in Nat /\ b \in 1..l BY LenProperties
<1>2. /\ r \in Seq(Entries) /\ Len(r) = l - 1
      /\ \A i \in 1..(l - 1) : r[i] = q[IF i < b THEN i ELSE i + 1]
  <2> DEFINE x == SubSeq(q, 1, b - 1) y == SubSeq(q, b + 1, l)
  <2>1. /\ x \in Seq(Entries) /\ Len(x) = b - 1 /\ \A i \in 1..(b - 1) : x[i] = q[i]
    BY <1>1
  <2>2. /\ y \in Seq(Entries) /\ Len(y) = l - b /\ \A i \in 1..(l - b) : y[i] = q[b + i]
    BY <1>1
  <2>3. r = x \o y BY DEF Without, RemoveAt
  <2> HIDE DEF x, y, r, l
  <2>4. r \in Seq(Entries) /\ Len(r) = l - 1
    <3>1. r \in Seq(Entries) /\ Len(r) = Len(x) + Len(y)
      BY <2>1, <2>2, <2>3, ConcatProperties
    <3> QED BY <3>1, <2>1, <2>2, <1>1
  <2>5. ASSUME NEW i \in 1..(l - 1) PROVE r[i] = q[IF i < b THEN i ELSE i + 1]
    <3>1. CASE i < b
      <4>1. i \in 1..Len(x) /\ i \in 1..(b - 1) BY <3>1, <2>1, <1>1
      <4>2. r[i] = x[i]
        <5>1. i \in 1..(Len(x) + Len(y)) /\ i <= Len(x) BY <4>1, <2>1, <2>2, <1>1
        <5> QED BY <5>1, <2>1, <2>2, <2>3, ConcatProperties
      <4> QED BY <4>1, <4>2, <3>1, <2>1
    <3>2. CASE ~(i < b)
      <4>1. /\ i \in (Len(x) + 1)..(Len(x) + Len(y)) /\ i - (b - 1) \in 1..(l - b)
            /\ b + (i - (b - 1)) = i + 1
        BY <3>2, <2>1, <2>2, <1>1
      <4>2. r[i] = y[i - Len(x)]
        <5>1. i \in 1..(Len(x) + Len(y)) /\ ~(i <= Len(x)) BY <4>1, <2>1, <2>2, <1>1
        <5> QED BY <5>1, <2>1, <2>2, <2>3, ConcatProperties
      <4> QED BY <4>1, <4>2, <3>2, <2>1, <2>2
    <3> QED BY <3>1, <3>2
  <2> QED BY <2>4, <2>5
<1>3. /\ f \in [1..(l - 1) -> 1..l]
      /\ \A i, j \in 1..(l - 1) : i < j => f[i] < f[j]
      /\ \A i \in 1..(l - 1) : f[i] # b /\ r[i] = q[f[i]]
  BY <1>1, <1>2
<1>4. ASSUME NEW j \in 1..l, j # b PROVE \E i \in 1..(l - 1) : f[i] = j
  <2>1. CASE j < b
    <3>1. j \in 1..(l - 1) /\ f[j] = j BY <2>1, <1>1
    <3> QED BY <3>1
  <2>2. CASE j > b
    <3>1. j - 1 \in 1..(l - 1) /\ f[j - 1] = j BY <2>2, <1>1
    <3> QED BY <3>1
  <2> QED BY <2>1, <2>2, <1>4, <1>1
<1> HIDE DEF f, r
<1>5. Thins(r, q, f) BY <1>2, <1>3 DEF Thins
<1> QED BY <1>2, <1>3, <1>4, <1>5 DEF r
-----------------------------------------------------------------------------
(* What holds of a queue: who came earlier stands ahead, with an earlier or *)
(* the same time, and no message is in it twice.                            *)
Ordered(q, old) ==
  \A i, j \in 1..Len(q) :
     /\ i < j => q[i].enqueuedAt <= q[j].enqueuedAt
     /\ q[i].msg \in old[q[j].msg] <=> i < j

Distinct(q) == \A i, j \in 1..Len(q) : q[i].msg = q[j].msg => i = j

(* What is queued was queued in the past. *)
InPast(q, t) == \A i \in 1..Len(q) : q[i].enqueuedAt <= t

(* The messages of a queue. *)
Msgs(q) == {q[i].msg : i \in 1..Len(q)}

(* What holds of the queue of each NPG: besides the above, its messages are *)
(* those of the NPG that are neither out, sent nor purged.                  *)
QueueOK(n) ==
  /\ queues[n] \in Seq(Entries)
  /\ Ordered(queues[n], older)
  /\ Distinct(queues[n])
  /\ InPast(queues[n], now)
  /\ Msgs(queues[n]) = {m \in Messages : Npg(m) = n /\ status[m] = "queued"}

(* What holds of each worker: between the two locks of dispatch_slot, no    *)
(* entry of its queue is stale by the clock it read.                        *)
WorkerOK(w) ==
  /\ pc[w] # "idle" => slot[w] \in Npgs
  /\ pc[w] = "dequeue" =>
       \A i \in 1..Len(queues[slot[w]]) : ~Stale(queues[slot[w]][i], stamp[w])

(* The types of the variables other than the queues' contents. *)
TypesOK ==
  /\ now \in 0..MaxNow
  /\ queues = [n \in Npgs |-> queues[n]]
  /\ pc \in [Workers -> {"idle", "purge only", "purge", "dequeue"}]
  /\ slot \in [Workers -> Npgs \union {NoNpg}]
  /\ stamp \in [Workers -> 0..now]
  /\ status \in [Messages -> {"out", "queued", "sent", "purged"}]
  /\ older \in [Messages -> SUBSET Messages]

(* The inductive invariant of the queues and their workers. *)
QueueInv ==
  /\ TypesOK
  /\ \A n \in Npgs : QueueOK(n)
  /\ \A w \in Workers : WorkerOK(w)

(* The program starts with empty queues and idle workers. *)
LEMMA QueueInit == Init => QueueInv
<1> SUFFICES ASSUME Init PROVE QueueInv OBVIOUS
<1>1. TypesOK BY MessagesAssumption DEF Init, TypesOK
<1>2. ASSUME NEW n \in Npgs PROVE QueueOK(n)
  <2>1. queues[n] = <<>> BY DEF Init
  <2>2. Len(<<>>) = 0 /\ <<>> \in Seq(Entries) OBVIOUS
  <2>3. Ordered(<<>>, older) /\ Distinct(<<>>) /\ InPast(<<>>, now) /\ Msgs(<<>>) = {}
    BY <2>2 DEF Ordered, Distinct, InPast, Msgs
  <2>4. {m \in Messages : Npg(m) = n /\ status[m] = "queued"} = {} BY DEF Init
  <2> QED BY <2>1, <2>2, <2>3, <2>4, Zenon DEF QueueOK
<1>3. \A w \in Workers : WorkerOK(w) BY DEF Init, WorkerOK
<1> QED BY <1>1, <1>2, <1>3 DEF QueueInv

(* Taking entries out of a queue leaves the rest in order. *)
LEMMA ThinnedOrdered ==
  ASSUME NEW q \in Seq(Entries), NEW r, NEW f, Thins(r, q, f), NEW old, NEW t,
         Ordered(q, old), Distinct(q), InPast(q, t)
  PROVE  Ordered(r, old) /\ Distinct(r) /\ InPast(r, t)
<1>1. Len(q) \in Nat /\ Len(r) \in Nat BY LenProperties DEF Thins
<1>2. \A i \in 1..Len(r) : f[i] \in 1..Len(q) /\ r[i] = q[f[i]] BY DEF Thins
<1>3. \A i, j \in 1..Len(r) : i < j <=> f[i] < f[j]
  <2> SUFFICES ASSUME NEW i \in 1..Len(r), NEW j \in 1..Len(r)
               PROVE  i < j <=> f[i] < f[j]
    OBVIOUS
  <2>1. f[i] \in Int /\ f[j] \in Int BY <1>2
  <2>2. CASE i < j BY <2>2 DEF Thins
  <2>3. CASE i = j BY <2>3, <2>1
  <2>4. CASE j < i
    <3>1. f[j] < f[i] BY <2>4 DEF Thins
    <3> QED BY <3>1, <2>1, <2>4
  <2> QED BY <2>2, <2>3, <2>4, <1>1
<1>4. Ordered(r, old)
  <2> SUFFICES ASSUME NEW i \in 1..Len(r), NEW j \in 1..Len(r)
               PROVE  /\ i < j => r[i].enqueuedAt <= r[j].enqueuedAt
                      /\ r[i].msg \in old[r[j].msg] <=> i < j
    BY DEF Ordered
  <2>1. /\ f[i] < f[j] => q[f[i]].enqueuedAt <= q[f[j]].enqueuedAt
        /\ q[f[i]].msg \in old[q[f[j]].msg] <=> f[i] < f[j]
    BY <1>2 DEF Ordered
  <2> QED BY <2>1, <1>2, <1>3
<1>5. Distinct(r)
  <2> SUFFICES ASSUME NEW i \in 1..Len(r), NEW j \in 1..Len(r), r[i].msg = r[j].msg
               PROVE  i = j
    BY DEF Distinct
  <2>1. f[i] = f[j] BY <1>2 DEF Distinct
  <2>2. f[i] \in Int /\ ~(f[i] < f[j]) /\ ~(f[j] < f[i]) BY <2>1, <1>2
  <2>3. ~(i < j) /\ ~(j < i) BY <2>2, <1>3
  <2> QED BY <2>3, <1>1
<1>6. InPast(r, t) BY <1>2 DEF InPast
<1> QED BY <1>4, <1>5, <1>6

(* The entry e, of a message that is not in the queue q, is put behind it:  *)
(* old says which messages were queued before which until now, new from now *)
(* on.                                                                      *)
Arrives(q, e, old, new) ==
  /\ q \in Seq(Entries) /\ Ordered(q, old) /\ Distinct(q) /\ InPast(q, e.enqueuedAt)
  /\ e \in Entries /\ e.msg \notin Msgs(q)
  /\ \A x \in Messages : new[x] = IF x = e.msg THEN Msgs(q) ELSE old[x] \ {e.msg}

(* What the queue is then. *)
Arrived(q, e, new) ==
  LET r == Append(q, e)
  IN /\ r \in Seq(Entries) /\ Ordered(r, new) /\ Distinct(r) /\ InPast(r, e.enqueuedAt)
     /\ Msgs(r) = Msgs(q) \union {e.msg}
     /\ \A i \in 1..Len(r) : r[i] = e \/ (i \in 1..Len(q) /\ r[i] = q[i])

(* A message that arrives leaves the queue in order. *)
LEMMA AppendedOrdered ==
  ASSUME NEW q, NEW e, NEW old, NEW new, Arrives(q, e, old, new)
  PROVE  Arrived(q, e, new)
<1> DEFINE l == Len(q) r == Append(q, e) t == e.enqueuedAt
<1>0. /\ q \in Seq(Entries) /\ Ordered(q, old) /\ Distinct(q) /\ InPast(q, t)
      /\ e \in Entries /\ e.msg \notin Msgs(q)
      /\ \A x \in Messages : new[x] = IF x = e.msg THEN Msgs(q) ELSE old[x] \ {e.msg}
  BY DEF Arrives
<1>1. /\ l \in Nat /\ r \in Seq(Entries) /\ Len(r) = l + 1 /\ r[l + 1] = e
      /\ \A i \in 1..l : r[i] = q[i] /\ q[i] \in Entries
  BY <1>0, ElementOfSeq, LenProperties
<1> HIDE DEF r, t
<1>2. \A i \in 1..(l + 1) : i = l + 1 \/ i \in 1..l BY <1>1
<1>3. /\ \A i \in 1..l : q[i].msg \in Msgs(q) /\ q[i].msg # e.msg /\ q[i].msg \in Messages
      /\ e.msg \in Messages
  BY <1>0, <1>1 DEF Msgs, Entries
<1>4. /\ new[e.msg] = Msgs(q)
      /\ \A x \in Messages : x # e.msg => new[x] = old[x] \ {e.msg}
  BY <1>0, <1>3
<1>5. Ordered(r, new)
  <2> SUFFICES ASSUME NEW i \in 1..(l + 1), NEW j \in 1..(l + 1)
               PROVE  /\ i < j => r[i].enqueuedAt <= r[j].enqueuedAt
                      /\ r[i].msg \in new[r[j].msg] <=> i < j
    BY <1>1 DEF Ordered
  <2>1. CASE i \in 1..l /\ j \in 1..l
    <3>1. /\ i < j => q[i].enqueuedAt <= q[j].enqueuedAt
          /\ q[i].msg \in old[q[j].msg] <=> i < j
      BY <1>0, <2>1 DEF Ordered
    <3>2. new[q[j].msg] = old[q[j].msg] \ {e.msg} BY <2>1, <1>3, <1>4
    <3> QED BY <2>1, <3>1, <3>2, <1>1, <1>3
  <2>2. CASE i \in 1..l /\ j = l + 1
    <3>1. q[i].enqueuedAt <= t /\ i < j BY <1>0, <2>2, <1>1 DEF InPast
    <3> QED BY <2>2, <3>1, <1>1, <1>3, <1>4 DEF t
  <2>3. CASE i = l + 1 /\ j \in 1..l
    <3>1. ~(i < j) BY <2>3, <1>1
    <3>2. new[q[j].msg] = old[q[j].msg] \ {e.msg} BY <2>3, <1>3, <1>4
    <3> QED BY <2>3, <3>1, <3>2, <1>1
  <2>4. CASE i = l + 1 /\ j = l + 1
    <3>1. ~(i < j) BY <2>4, <1>1
    <3>2. r[i].msg \notin new[r[j].msg] BY <2>4, <1>0, <1>1, <1>4
    <3> QED BY <3>1, <3>2
  <2> QED BY <2>1, <2>2, <2>3, <2>4, <1>2
<1>6. Distinct(r)
  <2> SUFFICES ASSUME NEW i \in 1..(l + 1), NEW j \in 1..(l + 1), r[i].msg = r[j].msg
               PROVE  i = j
    BY <1>1 DEF Distinct
  <2>1. CASE i \in 1..l /\ j \in 1..l BY <1>0, <2>1, <1>1 DEF Distinct
  <2>2. CASE ~(i \in 1..l /\ j \in 1..l) BY <2>2, <1>1, <1>2, <1>3
  <2> QED BY <2>1, <2>2
<1>7. InPast(r, t)
  <2>1. t \in 0..MaxNow BY <1>0 DEF Entries, t
  <2>2. t <= t BY <2>1
  <2> QED BY <1>0, <1>1, <1>2, <2>2 DEF InPast, t
<1>8. Msgs(r) = Msgs(q) \union {e.msg}
  <2>1. Msgs(r) = {r[i].msg : i \in 1..(l + 1)} BY <1>1 DEF Msgs
  <2>2. \A i \in 1..l : i \in 1..(l + 1) BY <1>1
  <2>3. l + 1 \in 1..(l + 1) BY <1>1
  <2> QED BY <2>1, <2>2, <2>3, <1>1, <1>2 DEF Msgs
<1>9. \A i \in 1..Len(r) : r[i] = e \/ (i \in 1..Len(q) /\ r[i] = q[i]) BY <1>1, <1>2
<1> QED BY <1>1, <1>5, <1>6, <1>7, <1>8, <1>9 DEF Arrived, r, t
-----------------------------------------------------------------------------
(* The positions of a queue are those up to its length. *)
LEMMA QueuedMsgs ==
  ASSUME NEW n \in Npgs, queues[n] \in Seq(Entries)
  PROVE  DOMAIN queues[n] = 1..Len(queues[n]) /\ Queued(n) = Msgs(queues[n])
<1>1. DOMAIN queues[n] = 1..Len(queues[n]) OBVIOUS
<1> QED BY <1>1 DEF Queued, Msgs

(* PurgeStale purges what is stale and leaves the rest as it was. *)
LEMMA PurgeEffect ==
  ASSUME QueueInv, NEW n \in Npgs, NEW t, Purge(n, t), UNCHANGED <<now, older>>
  PROVE  /\ queues' = [k \in Npgs |-> queues'[k]]
         /\ \A k \in Npgs : QueueOK(k)'
         /\ status' \in [Messages -> {"out", "queued", "sent", "purged"}]
         /\ \A k \in Npgs : \A i \in 1..Len(queues'[k]) :
               \E j \in 1..Len(queues[k]) : queues'[k][i] = queues[k][j]
         /\ \A i \in 1..Len(queues'[n]) : ~Stale(queues'[n][i], t)
         /\ \A m \in Messages : status[m] = "queued" /\ status'[m] # "queued" =>
              /\ Npg(m) = n /\ status'[m] = "purged"
              /\ \E j \in 1..Len(queues[n]) : queues[n][j].msg = m /\ Stale(queues[n][j], t)
<1> DEFINE q == queues[n] r == Fresh(q, t)
<1>1. /\ q \in Seq(Entries) /\ Ordered(q, older) /\ Distinct(q) /\ InPast(q, now)
      /\ Msgs(q) = {m \in Messages : Npg(m) = n /\ status[m] = "queued"}
  BY DEF QueueInv, QueueOK
<1>2. PICK f : /\ Thins(r, q, f)
               /\ \A i \in 1..Len(r) : f[i] <= Len(q) /\ ~Stale(q[f[i]], t)
               /\ \A j \in 1..Len(q) : Stale(q[j], t) \/ \E i \in 1..Len(r) : f[i] = j
  BY <1>1, FreshThins DEF KeptOf
<1>3. queues' = [queues EXCEPT ![n] = r] BY DEF Purge
<1> HIDE DEF r
<1>4. /\ queues' = [k \in Npgs |-> queues'[k]] /\ queues'[n] = r
      /\ \A k \in Npgs : k # n => queues'[k] = queues[k]
  BY <1>3 DEF QueueInv, TypesOK
<1>5. /\ r \in Seq(Entries)
      /\ \A i \in 1..Len(r) : f[i] \in 1..Len(q) /\ r[i] = q[f[i]]
  BY <1>2 DEF Thins
<1>6. Queued(n) = Msgs(q) /\ {queues'[n][i].msg : i \in DOMAIN queues'[n]} = Msgs(r)
  <2>1. DOMAIN r = 1..Len(r) BY <1>5
  <2> QED BY <1>1, <1>4, <2>1, QueuedMsgs DEF Msgs
<1>7. \A m \in Messages : status'[m] = IF m \in Msgs(q) /\ m \notin Msgs(r) THEN "purged" ELSE status[m]
  BY <1>6 DEF Purge
<1>8. status' \in [Messages -> {"out", "queued", "sent", "purged"}]
  BY <1>6 DEF Purge, QueueInv, TypesOK
<1>9. Msgs(r) \subseteq Msgs(q) BY <1>5 DEF Msgs
<1>10. Msgs(r) = {m \in Messages : Npg(m) = n /\ status'[m] = "queued"}
  <2>1. \A m \in Messages : m \in Msgs(q) <=> Npg(m) = n /\ status[m] = "queued" BY <1>1
  <2>2. \A m \in Msgs(r) : m \in Messages BY <1>1, <1>9
  <2>3. \A m \in Messages : m \in Msgs(r) <=> Npg(m) = n /\ status'[m] = "queued"
    BY <2>1, <1>7, <1>9
  <2> QED BY <2>2, <2>3
<1>11. QueueOK(n)'
  <2>1. Ordered(r, older) /\ Distinct(r) /\ InPast(r, now)
    BY <1>1, <1>2, ThinnedOrdered
  <2> QED BY <2>1, <1>4, <1>5, <1>10 DEF QueueOK
<1>12. ASSUME NEW k \in Npgs, k # n PROVE QueueOK(k)'
  <2>1. QueueOK(k) BY DEF QueueInv
  <2>2. \A m \in Messages : Npg(m) = k => status'[m] = status[m]
    BY <1>1, <1>7, <1>12
  <2>3. {m \in Messages : Npg(m) = k /\ status'[m] = "queued"}
          = {m \in Messages : Npg(m) = k /\ status[m] = "queued"}
    BY <2>2
  <2> QED BY <2>1, <2>3, <1>4, <1>12 DEF QueueOK
<1>13. \A k \in Npgs : \A i \in 1..Len(queues'[k]) :
         \E j \in 1..Len(queues[k]) : queues'[k][i] = queues[k][j]
  BY <1>4, <1>5
<1>14. ASSUME NEW m \in Messages, status[m] = "queued", status'[m] # "queued"
       PROVE  /\ Npg(m) = n /\ status'[m] = "purged"
              /\ \E j \in 1..Len(q) : q[j].msg = m /\ Stale(q[j], t)
  <2>1. m \in Msgs(q) /\ m \notin Msgs(r) /\ status'[m] = "purged" BY <1>14, <1>7
  <2>2. Npg(m) = n BY <2>1, <1>1
  <2>3. PICK j \in 1..Len(q) : q[j].msg = m BY <2>1 DEF Msgs
  <2>4. \A i \in 1..Len(r) : f[i] # j BY <2>1, <2>3, <1>5 DEF Msgs
  <2>5. Stale(q[j], t) BY <2>4, <1>2
  <2> QED BY <2>1, <2>2, <2>3, <2>5
<1> QED BY <1>2, <1>4, <1>5, <1>8, <1>11, <1>12, <1>13, <1>14

(* Dequeue sends the first entry and leaves the others as they were. *)
LEMMA DequeueEffect ==
  ASSUME QueueInv, NEW w \in Workers, Dequeue(w), queues[slot[w]] # <<>>
  PROVE  LET n == slot[w]
             q == queues[n]
             b == Best(q)
         IN /\ n \in Npgs
            /\ First(q, Len(q), b)
            /\ q[b].msg \in Messages /\ Npg(q[b].msg) = n
            /\ status' = [status EXCEPT ![q[b].msg] = "sent"]
            /\ queues' = [k \in Npgs |-> queues'[k]]
            /\ \A k \in Npgs : QueueOK(k)'
            /\ \A k \in Npgs : \A i \in 1..Len(queues'[k]) :
                  \E j \in 1..Len(queues[k]) : queues'[k][i] = queues[k][j]
<1> DEFINE n == slot[w] q == queues[n] b == Best(q) r == Without(q, b) e == q[b].msg
<1>1. n \in Npgs BY DEF Dequeue, QueueInv, WorkerOK
<1>2. /\ q \in Seq(Entries) /\ Ordered(q, older) /\ Distinct(q) /\ InPast(q, now)
      /\ Msgs(q) = {m \in Messages : Npg(m) = n /\ status[m] = "queued"}
  BY <1>1 DEF QueueInv, QueueOK
<1>3. First(q, Len(q), b) BY <1>2, BestIsFirst
<1>4. b \in 1..Len(q) BY <1>3 DEF First
<1>5. PICK f : /\ Thins(r, q, f)
               /\ \A i \in 1..Len(r) : f[i] # b
               /\ \A j \in 1..Len(q) : j = b \/ \E i \in 1..Len(r) : f[i] = j
  BY <1>2, <1>4, WithoutThins
<1>6. /\ queues' = [queues EXCEPT ![n] = r] /\ status' = [status EXCEPT ![e] = "sent"]
      /\ now' = now /\ older' = older
  BY DEF Dequeue
<1> HIDE DEF r, b
<1>7. /\ queues' = [k \in Npgs |-> queues'[k]] /\ queues'[n] = r
      /\ \A k \in Npgs : k # n => queues'[k] = queues[k]
  BY <1>6, <1>1 DEF QueueInv, TypesOK
<1>8. /\ r \in Seq(Entries)
      /\ \A i \in 1..Len(r) : f[i] \in 1..Len(q) /\ r[i] = q[f[i]]
  BY <1>5 DEF Thins
<1>9. e \in Msgs(q) /\ e \in Messages /\ Npg(e) = n /\ status[e] = "queued"
  BY <1>2, <1>4 DEF Msgs
<1>10. Msgs(r) = Msgs(q) \ {e}
  <2>1. ASSUME NEW i \in 1..Len(r) PROVE r[i].msg \in Msgs(q) /\ r[i].msg # e
    <3>1. f[i] \in 1..Len(q) /\ r[i] = q[f[i]] /\ f[i] # b BY <1>5, <1>8, Zenon
    <3>2. q[f[i]].msg # q[b].msg BY <1>2, <1>4, <3>1, Zenon DEF Distinct
    <3> QED BY <3>1, <3>2, Zenon DEF Msgs
  <2>2. ASSUME NEW j \in 1..Len(q), q[j].msg # e PROVE q[j].msg \in Msgs(r)
    <3>1. PICK i \in 1..Len(r) : f[i] = j BY <1>5, <2>2
    <3>2. r[i].msg = q[j].msg BY <3>1, <1>8
    <3> QED BY <3>2 DEF Msgs
  <2> QED BY <2>1, <2>2 DEF Msgs
<1> HIDE DEF e
<1>11. \A m \in Messages : status'[m] = IF m = e THEN "sent" ELSE status[m]
  BY <1>6 DEF QueueInv, TypesOK
<1>12. Msgs(r) = {m \in Messages : Npg(m) = n /\ status'[m] = "queued"}
  BY <1>2, <1>10, <1>11
<1>13. ASSUME NEW k, k = n PROVE QueueOK(k)'
  <2>1. Ordered(r, older) /\ Distinct(r) /\ InPast(r, now)
    BY <1>2, <1>5, ThinnedOrdered
  <2>2. /\ queues'[k] = r
        /\ Msgs(r) = {m \in Messages : Npg(m) = k /\ status'[m] = "queued"}
    BY <1>7, <1>12, <1>13
  <2> QED BY <2>1, <2>2, <1>6, <1>8 DEF QueueOK
<1>14. ASSUME NEW k \in Npgs, k # n PROVE QueueOK(k)'
  <2>1. QueueOK(k) BY DEF QueueInv
  <2>2. \A m \in Messages : Npg(m) = k => status'[m] = status[m]
    BY <1>9, <1>11, <1>14
  <2>3. {m \in Messages : Npg(m) = k /\ status'[m] = "queued"}
          = {m \in Messages : Npg(m) = k /\ status[m] = "queued"}
    BY <2>2
  <2> QED BY <2>1, <2>3, <1>6, <1>7, <1>14 DEF QueueOK
<1>15. \A k \in Npgs : \A i \in 1..Len(queues'[k]) :
         \E j \in 1..Len(queues[k]) : queues'[k][i] = queues[k][j]
  BY <1>7, <1>8
<1> QED BY <1>1, <1>3, <1>6, <1>7, <1>9, <1>13, <1>14, <1>15 DEF b, e
-----------------------------------------------------------------------------
(* The clock is a natural number below its bound. *)
LEMMA ClockTyped ==
  ASSUME QueueInv
  PROVE  now \in 0..MaxNow /\ now \in Nat
<1>1. now \in 0..MaxNow BY DEF QueueInv, TypesOK
<1>2. MaxNow \in Nat BY MessagesAssumption
<1> QED BY <1>1, <1>2

(* A worker that has done its work is idle. *)
LEMMA DoneEffect ==
  ASSUME QueueInv, now' = now, NEW w \in Workers, Done(w)
  PROVE  /\ pc' \in [Workers -> {"idle", "purge only", "purge", "dequeue"}]
         /\ slot' \in [Workers -> Npgs \union {NoNpg}]
         /\ stamp' \in [Workers -> 0..now']
         /\ WorkerOK(w)'
         /\ pc'[w] = "idle"
         /\ \A v \in Workers \ {w} : pc'[v] = pc[v] /\ slot'[v] = slot[v] /\ stamp'[v] = stamp[v]
<1>1. /\ pc \in [Workers -> {"idle", "purge only", "purge", "dequeue"}]
      /\ slot \in [Workers -> Npgs \union {NoNpg}] /\ stamp \in [Workers -> 0..now]
  BY DEF QueueInv, TypesOK
<1>2. 0 \in 0..now
  <2>1. now \in Nat BY ClockTyped
  <2> QED BY <2>1
<1>3. pc'[w] = "idle" BY <1>1 DEF Done
<1>4. /\ pc' \in [Workers -> {"idle", "purge only", "purge", "dequeue"}]
      /\ slot' \in [Workers -> Npgs \union {NoNpg}]
      /\ \A v \in Workers \ {w} : pc'[v] = pc[v] /\ slot'[v] = slot[v] /\ stamp'[v] = stamp[v]
  BY <1>1 DEF Done
<1>5. stamp' \in [Workers -> 0..now'] BY <1>1, <1>2 DEF Done
<1> QED BY <1>3, <1>4, <1>5 DEF WorkerOK

(* The other workers may go on when no queue has gained an entry. *)
LEMMA OthersOnThinner ==
  ASSUME QueueInv, NEW v \in Workers,
         pc'[v] = pc[v], slot'[v] = slot[v], stamp'[v] = stamp[v],
         \A k \in Npgs : \A i \in 1..Len(queues'[k]) :
            \E j \in 1..Len(queues[k]) : queues'[k][i] = queues[k][j]
  PROVE  WorkerOK(v)'
<1>1. WorkerOK(v) BY DEF QueueInv
<1>2. pc'[v] # "idle" => slot'[v] \in Npgs BY <1>1, Zenon DEF WorkerOK
<1>3. ASSUME pc'[v] = "dequeue", NEW i \in 1..Len(queues'[slot'[v]])
      PROVE  ~Stale(queues'[slot'[v]][i], stamp'[v])
  <2>1. slot'[v] \in Npgs /\ pc[v] = "dequeue"
    <3>1. "dequeue" # "idle" OBVIOUS
    <3> QED BY <1>2, <1>3, <3>1, Zenon
  <2>2. PICK j \in 1..Len(queues[slot'[v]]) : queues'[slot'[v]][i] = queues[slot'[v]][j]
    BY <1>3, <2>1, Zenon
  <2>3. j \in 1..Len(queues[slot[v]]) /\ queues'[slot'[v]][i] = queues[slot[v]][j]
    BY <2>2, Zenon
  <2>4. ~Stale(queues[slot[v]][j], stamp[v]) BY <1>1, <2>1, <2>3, Zenon DEF WorkerOK
  <2> QED BY <2>3, <2>4, Zenon
<1> QED BY <1>2, <1>3, Zenon DEF WorkerOK, Stale

(* Enqueuing keeps the invariant. *)
LEMMA EnqueueKeeps ==
  ASSUME QueueInv, NEW m \in Messages, Enqueue(m)
  PROVE  QueueInv'
<1> DEFINE n == Npg(m) q == queues[n] e == Stamped(m) r == Append(q, e)
<1>1. n \in Npgs /\ now \in 0..MaxNow /\ now \in Int
  <2>1. n \in Npgs BY MessagesAssumption
  <2> QED BY <2>1, ClockTyped
<1>2. /\ q \in Seq(Entries) /\ Ordered(q, older) /\ Distinct(q) /\ InPast(q, now)
      /\ Msgs(q) = {x \in Messages : Npg(x) = n /\ status[x] = "queued"}
  BY <1>1 DEF QueueInv, QueueOK
<1>3. e \in Entries /\ e.msg = m /\ e.enqueuedAt = now BY <1>1 DEF Stamped, Entries
<1>4. status[m] # "queued" BY DEF Enqueue
<1>5. m \notin Msgs(q) BY <1>2, <1>4
<1>6. /\ queues' = [queues EXCEPT ![n] = r] /\ status' = [status EXCEPT ![m] = "queued"]
      /\ now' = now /\ UNCHANGED <<pc, slot, stamp>>
  BY DEF Enqueue, workerVars
<1>7. older' = [x \in Messages |-> IF x = m THEN Msgs(q) ELSE older[x] \ {m}]
  <2>1. Queued(n) = Msgs(q) BY <1>1, <1>2, QueuedMsgs
  <2> QED BY <2>1 DEF Enqueue
<1>8. \A x \in Messages : older'[x] = IF x = e.msg THEN Msgs(q) ELSE older[x] \ {e.msg}
  BY <1>3, <1>7
<1>9. /\ r \in Seq(Entries)
      /\ Ordered(r, older') /\ Distinct(r) /\ InPast(r, now)
      /\ Msgs(r) = Msgs(q) \union {m}
      /\ \A i \in 1..Len(r) : r[i] = e \/ (i \in 1..Len(q) /\ r[i] = q[i])
  <2>1. e.msg \notin Msgs(q) /\ InPast(q, e.enqueuedAt) BY <1>2, <1>3, <1>5
  <2> HIDE DEF e, q, n
  <2>2. Arrives(q, e, older, older') BY <1>2, <1>3, <1>8, <2>1 DEF Arrives
  <2>3. Arrived(q, e, older') BY <2>2, AppendedOrdered
  <2> QED BY <2>3, <1>3 DEF Arrived
<1> HIDE DEF r, e
<1>10. /\ queues' = [k \in Npgs |-> queues'[k]] /\ queues'[n] = r
       /\ \A k \in Npgs : k # n => queues'[k] = queues[k]
  BY <1>6, <1>1 DEF QueueInv, TypesOK
<1>11. \A x \in Messages : status'[x] = IF x = m THEN "queued" ELSE status[x]
  BY <1>6 DEF QueueInv, TypesOK
<1>12. QueueOK(n)'
  <2>1. Msgs(r) = {x \in Messages : Npg(x) = n /\ status'[x] = "queued"}
    BY <1>2, <1>9, <1>11
  <2> QED BY <2>1, <1>6, <1>9, <1>10 DEF QueueOK
<1>13. ASSUME NEW k \in Npgs, k # n PROVE QueueOK(k)'
  <2>1. QueueOK(k) BY DEF QueueInv
  <2>2. {x \in Messages : Npg(x) = k /\ status'[x] = "queued"}
          = {x \in Messages : Npg(x) = k /\ status[x] = "queued"}
    BY <1>11, <1>13
  <2>3. \A i \in 1..Len(queues[k]) : queues[k][i] \in Entries
    BY <2>1, ElementOfSeq DEF QueueOK
  <2>4. \A i \in 1..Len(queues[k]) : queues[k][i].msg \in Messages /\ queues[k][i].msg # m
    <3>1. \A i \in 1..Len(queues[k]) : queues[k][i].msg \in Msgs(queues[k]) BY DEF Msgs
    <3>2. m \notin Msgs(queues[k]) BY <2>1, <1>4 DEF QueueOK
    <3> QED BY <2>3, <3>1, <3>2 DEF Entries
  <2>5. Ordered(queues[k], older')
    <3>1. Ordered(queues[k], older) BY <2>1 DEF QueueOK
    <3>2. \A j \in 1..Len(queues[k]) :
             older'[queues[k][j].msg] = older[queues[k][j].msg] \ {m}
      BY <2>4, <1>7
    <3> QED BY <3>1, <3>2, <2>4 DEF Ordered
  <2> QED BY <2>1, <2>2, <2>5, <1>6, <1>10, <1>13 DEF QueueOK
<1>14. TypesOK'
  <2>1. Msgs(q) \subseteq Messages BY <1>2
  <2>2. older' \in [Messages -> SUBSET Messages]
    BY <2>1, <1>7 DEF QueueInv, TypesOK
  <2>3. status' \in [Messages -> {"out", "queued", "sent", "purged"}]
    BY <1>6 DEF QueueInv, TypesOK
  <2> QED BY <2>2, <2>3, <1>6, <1>10 DEF QueueInv, TypesOK
<1>15. ASSUME NEW w \in Workers PROVE WorkerOK(w)'
  <2>1. WorkerOK(w) /\ stamp[w] \in 0..now BY DEF QueueInv, TypesOK
  <2>2. ~Stale(e, stamp[w])
    <3>1. stamp[w] - now <= 0 BY <2>1, <1>1
    <3>2. Staleness(m) \in Int BY MessagesAssumption
    <3>3. ~(Staleness(m) > 0 /\ stamp[w] - now > Staleness(m)) BY <3>1, <3>2, <2>1, <1>1
    <3> QED BY <3>3, <1>3 DEF Stale
  <2>3. CASE slot[w] = n
    <3>1. queues'[slot[w]] = r BY <2>3, <1>10
    <3>2. pc[w] = "dequeue" => \A i \in 1..Len(r) : ~Stale(r[i], stamp[w])
      BY <2>1, <2>2, <2>3, <1>9 DEF WorkerOK
    <3> QED BY <3>1, <3>2, <2>1, <1>6 DEF WorkerOK
  <2>4. CASE slot[w] # n
    <3>1. pc[w] # "idle" => queues'[slot[w]] = queues[slot[w]]
      BY <2>1, <2>4, <1>10 DEF WorkerOK
    <3> QED BY <3>1, <2>1, <1>6 DEF WorkerOK
  <2> QED BY <2>3, <2>4
<1> QED BY <1>12, <1>13, <1>14, <1>15 DEF QueueInv

(* Reading the clock to purge or to dispatch keeps the invariant. *)
LEMMA StartKeeps ==
  ASSUME QueueInv, NEW w \in Workers, NEW n \in Npgs, StartPurge(w, n) \/ StartDispatch(w, n)
  PROVE  QueueInv'
<1>1. /\ UNCHANGED <<now, queues, status, older>>
      /\ pc' = [pc EXCEPT ![w] = "purge only"] \/ pc' = [pc EXCEPT ![w] = "purge"]
      /\ slot' = [slot EXCEPT ![w] = n] /\ stamp' = [stamp EXCEPT ![w] = now]
  BY DEF StartPurge, StartDispatch
<1>2. now \in 0..now
  <2>1. now \in Nat BY ClockTyped
  <2> QED BY <2>1
<1>3. TypesOK'
  <2>1. pc' \in [Workers -> {"idle", "purge only", "purge", "dequeue"}]
    BY <1>1 DEF QueueInv, TypesOK
  <2>2. slot' \in [Workers -> Npgs \union {NoNpg}] BY <1>1 DEF QueueInv, TypesOK
  <2>3. stamp' \in [Workers -> 0..now] BY <1>1, <1>2 DEF QueueInv, TypesOK
  <2> QED BY <2>1, <2>2, <2>3, <1>1 DEF QueueInv, TypesOK
<1>4. \A k \in Npgs : QueueOK(k)' BY <1>1 DEF QueueInv, QueueOK
<1>5. ASSUME NEW v \in Workers PROVE WorkerOK(v)'
  <2>1. WorkerOK(v) BY DEF QueueInv
  <2>2. CASE v = w
    <3>1. pc'[v] # "dequeue" /\ slot'[v] = n BY <2>2, <1>1 DEF QueueInv, TypesOK
    <3> QED BY <3>1 DEF WorkerOK
  <2>3. CASE v # w
    <3>1. pc'[v] = pc[v] /\ slot'[v] = slot[v] /\ stamp'[v] = stamp[v]
      BY <2>3, <1>1 DEF QueueInv, TypesOK
    <3> QED BY <3>1, <2>1, <1>1 DEF WorkerOK
  <2> QED BY <2>2, <2>3
<1> QED BY <1>3, <1>4, <1>5 DEF QueueInv

(* Purging keeps the invariant. *)
LEMMA PurgeKeeps ==
  ASSUME QueueInv, NEW w \in Workers, PurgeOnly(w) \/ PurgeFirst(w)
  PROVE  QueueInv'
<1> DEFINE n == slot[w] t == stamp[w]
<1>1. n \in Npgs BY DEF PurgeOnly, PurgeFirst, QueueInv, WorkerOK
<1>2. Purge(n, t) /\ UNCHANGED <<now, older>> BY DEF PurgeOnly, PurgeFirst
<1>3. /\ queues' = [k \in Npgs |-> queues'[k]]
      /\ \A k \in Npgs : QueueOK(k)'
      /\ status' \in [Messages -> {"out", "queued", "sent", "purged"}]
      /\ \A k \in Npgs : \A i \in 1..Len(queues'[k]) :
            \E j \in 1..Len(queues[k]) : queues'[k][i] = queues[k][j]
      /\ \A i \in 1..Len(queues'[n]) : ~Stale(queues'[n][i], t)
  <2> HIDE DEF n, t
  <2> QED BY <1>1, <1>2, PurgeEffect
<1>4. CASE PurgeOnly(w)
  <2>1. Done(w) BY <1>4 DEF PurgeOnly
  <2>2. TypesOK'
    BY <2>1, <1>2, <1>3, DoneEffect DEF QueueInv, TypesOK
  <2>3. \A v \in Workers : WorkerOK(v)'
    BY <2>1, <1>2, <1>3, DoneEffect, OthersOnThinner
  <2> QED BY <2>2, <2>3, <1>3 DEF QueueInv
<1>5. CASE PurgeFirst(w)
  <2>1. pc' = [pc EXCEPT ![w] = "dequeue"] /\ slot' = slot /\ stamp' = stamp
    BY <1>5 DEF PurgeFirst
  <2>2. TypesOK' BY <2>1, <1>2, <1>3 DEF QueueInv, TypesOK
  <2>3. WorkerOK(w)'
    <3>1. slot'[w] = n /\ stamp'[w] = t BY <2>1
    <3> QED BY <3>1, <1>1, <1>3 DEF WorkerOK
  <2>4. \A v \in Workers \ {w} : WorkerOK(v)'
    <3>1. \A v \in Workers \ {w} : pc'[v] = pc[v] BY <2>1 DEF QueueInv, TypesOK
    <3> QED BY <3>1, <2>1, <1>3, OthersOnThinner
  <2> QED BY <2>2, <2>3, <2>4, <1>3 DEF QueueInv
<1> QED BY <1>4, <1>5

(* Dequeuing keeps the invariant. *)
LEMMA DequeueKeeps ==
  ASSUME QueueInv, NEW w \in Workers, Dequeue(w)
  PROVE  QueueInv'
<1>1. Done(w) /\ UNCHANGED <<now, older>> BY DEF Dequeue
<1>2. /\ queues' = [k \in Npgs |-> queues'[k]]
      /\ \A k \in Npgs : QueueOK(k)'
      /\ status' \in [Messages -> {"out", "queued", "sent", "purged"}]
      /\ \A k \in Npgs : \A i \in 1..Len(queues'[k]) :
            \E j \in 1..Len(queues[k]) : queues'[k][i] = queues[k][j]
  <2>1. CASE queues[slot[w]] = <<>>
    <3>1. UNCHANGED <<queues, status>> BY <2>1 DEF Dequeue
    <3> QED BY <3>1, <1>1 DEF QueueInv, TypesOK, QueueOK
  <2>2. CASE queues[slot[w]] # <<>>
    <3>1. status' \in [Messages -> {"out", "queued", "sent", "purged"}]
      BY <2>2, DequeueEffect DEF QueueInv, TypesOK
    <3> QED BY <3>1, <2>2, DequeueEffect
  <2> QED BY <2>1, <2>2
<1>3. TypesOK' BY <1>1, <1>2, DoneEffect DEF QueueInv, TypesOK
<1>4. \A v \in Workers : WorkerOK(v)'
  BY <1>1, <1>2, DoneEffect, OthersOnThinner
<1> QED BY <1>2, <1>3, <1>4 DEF QueueInv

(* Time passing keeps the invariant. *)
LEMMA TickKeeps ==
  ASSUME QueueInv, Tick
  PROVE  QueueInv'
<1>1. /\ now \in 0..MaxNow /\ MaxNow \in Nat /\ now' = now + 1 /\ now < MaxNow
      /\ UNCHANGED <<queues, pc, slot, stamp, status, older>>
  BY MessagesAssumption DEF Tick, workerVars, QueueInv, TypesOK
<1>2. TypesOK'
  <2>1. 0..now \subseteq 0..now' BY <1>1
  <2>2. stamp' \in [Workers -> 0..now'] BY <2>1, <1>1 DEF QueueInv, TypesOK
  <2>3. now' \in 0..MaxNow BY <1>1
  <2> QED BY <2>2, <2>3, <1>1 DEF QueueInv, TypesOK
<1>3. ASSUME NEW n \in Npgs PROVE QueueOK(n)'
  <2>1. QueueOK(n) BY DEF QueueInv
  <2>2. \A i \in 1..Len(queues[n]) : queues[n][i] \in Entries
    BY <2>1, ElementOfSeq DEF QueueOK
  <2>3. \A i \in 1..Len(queues[n]) : queues[n][i].enqueuedAt \in Int
    BY <2>2 DEF Entries
  <2>4. InPast(queues[n], now') BY <2>1, <2>3, <1>1 DEF QueueOK, InPast
  <2> QED BY <2>1, <2>4, <1>1 DEF QueueOK
<1>4. \A w \in Workers : WorkerOK(w)' BY <1>1 DEF QueueInv, WorkerOK
<1> QED BY <1>2, <1>3, <1>4 DEF QueueInv

(* Every step keeps the invariant. *)
LEMMA QueueStep == QueueInv /\ [Next]_vars => QueueInv'
<1> SUFFICES ASSUME QueueInv, [Next]_vars PROVE QueueInv' OBVIOUS
<1>1. CASE Tick BY <1>1, TickKeeps
<1>2. ASSUME NEW m \in Messages, Enqueue(m) PROVE QueueInv' BY <1>2, EnqueueKeeps
<1>3. ASSUME NEW w \in Workers, Serve(w) PROVE QueueInv'
  BY <1>3, StartKeeps, PurgeKeeps, DequeueKeeps DEF Serve
<1>4. CASE UNCHANGED vars
  BY <1>4 DEF vars, workerVars, QueueInv, TypesOK, QueueOK, WorkerOK
<1> QED BY <1>1, <1>2, <1>3, <1>4 DEF Next

(* In every reachable state the queues are in order of arrival, hold each   *)
(* message once and are free of what the dispatcher at work found stale.    *)
THEOREM QueueInvariant == Spec => []QueueInv
BY QueueInit, QueueStep, PTL DEF Spec

(* The variables keep their types. *)
THEOREM QueueTyped == Spec => []TypeOK
<1>1. QueueInv => TypeOK
  <2> SUFFICES ASSUME QueueInv PROVE TypeOK OBVIOUS
  <2>1. \A n \in Npgs : queues[n] \in Seq(Entries) BY DEF QueueInv, QueueOK
  <2>2. queues \in [Npgs -> Seq(Entries)] BY <2>1 DEF QueueInv, TypesOK
  <2> QED BY <2>2, Zenon DEF QueueInv, TypesOK, TypeOK, Entries
<1> QED BY <1>1, QueueInvariant, PTL

(* However the workers interleave, exactly the messages that have been      *)
(* enqueued and neither sent nor purged are queued, each once and under its *)
(* own NPG.                                                                 *)
THEOREM QueuesConserve == Spec => []Conservation
<1>1. QueueInv => Conservation
  <2> SUFFICES ASSUME QueueInv, NEW n \in Npgs
               PROVE  /\ Queued(n) = {m \in Messages : Npg(m) = n /\ status[m] = "queued"}
                      /\ IsInjective([i \in DOMAIN queues[n] |-> queues[n][i].msg])
    BY DEF Conservation
  <2>1. QueueOK(n) BY DEF QueueInv
  <2>2. DOMAIN queues[n] = 1..Len(queues[n]) /\ Queued(n) = Msgs(queues[n])
    BY <2>1, QueuedMsgs DEF QueueOK
  <2>3. IsInjective([i \in DOMAIN queues[n] |-> queues[n][i].msg])
    BY <2>1, <2>2 DEF QueueOK, Distinct, IsInjective
  <2> QED BY <2>1, <2>2, <2>3 DEF QueueOK
<1> QED BY <1>1, QueueInvariant, PTL
-----------------------------------------------------------------------------
(* A step that sends a message is a Dequeue of its queue. *)
LEMMA SentByDequeue ==
  ASSUME QueueInv, [Next]_vars, NEW m \in Messages, status[m] = "queued", status'[m] = "sent"
  PROVE  \E w \in Workers : /\ Dequeue(w) /\ queues[slot[w]] # <<>>
                            /\ m = queues[slot[w]][Best(queues[slot[w]])].msg
                            /\ slot[w] = Npg(m)
<1>1. CASE Tick BY <1>1 DEF Tick
<1>2. ASSUME NEW x \in Messages, Enqueue(x) PROVE FALSE
  <2>1. status' = [status EXCEPT ![x] = "queued"] BY <1>2 DEF Enqueue
  <2> QED BY <2>1 DEF QueueInv, TypesOK
<1>3. ASSUME NEW w \in Workers, Serve(w)
      PROVE  /\ Dequeue(w) /\ queues[slot[w]] # <<>>
             /\ m = queues[slot[w]][Best(queues[slot[w]])].msg
             /\ slot[w] = Npg(m)
  <2>1. CASE \E n \in Npgs : StartPurge(w, n) \/ StartDispatch(w, n)
    BY <2>1 DEF StartPurge, StartDispatch
  <2>2. CASE PurgeOnly(w) \/ PurgeFirst(w)
    <3>1. slot[w] \in Npgs BY <2>2 DEF PurgeOnly, PurgeFirst, QueueInv, WorkerOK
    <3>2. Purge(slot[w], stamp[w]) /\ UNCHANGED <<now, older>>
      BY <2>2 DEF PurgeOnly, PurgeFirst
    <3>3. status[m] = "queued" /\ status'[m] # "queued" => status'[m] = "purged"
      BY <3>1, <3>2, PurgeEffect
    <3> QED BY <3>3
  <2>3. CASE Dequeue(w)
    <3>1. queues[slot[w]] # <<>> BY <2>3 DEF Dequeue
    <3> DEFINE e == queues[slot[w]][Best(queues[slot[w]])].msg
    <3>2. status' = [status EXCEPT ![e] = "sent"] /\ Npg(e) = slot[w] /\ e \in Messages
      BY <2>3, <3>1, DequeueEffect
    <3> HIDE DEF e
    <3>3. m = e BY <3>2 DEF QueueInv, TypesOK
    <3> QED BY <2>3, <3>1, <3>2, <3>3 DEF e
  <2> QED BY <1>3, <2>1, <2>2, <2>3 DEF Serve
<1>4. CASE UNCHANGED vars BY <1>4 DEF vars
<1> QED BY <1>1, <1>2, <1>3, <1>4 DEF Next

(* A message that no other is less than, and that is less than all those    *)
(* ahead of it, outranks every other one.                                   *)
LEMMA FirstOutranks ==
  ASSUME NEW n \in Npgs, QueueOK(n), NEW b, First(queues[n], Len(queues[n]), b),
         NEW x \in Msgs(queues[n]), x # queues[n][b].msg
  PROVE  Outranks(queues[n][b].msg, x)
<1> DEFINE q == queues[n] m == q[b].msg
<1>1. q \in Seq(Entries) /\ Ordered(q, older) BY DEF QueueOK
<1>2. b \in 1..Len(q) BY DEF First
<1>3. PICK j \in 1..Len(q) : q[j].msg = x BY DEF Msgs
<1>4. q[b] \in Entries /\ q[j] \in Entries BY <1>1, <1>2, <1>3, ElementOfSeq
<1>5. /\ Terminal(m) \in BOOLEAN /\ Terminal(x) \in BOOLEAN
      /\ Priority(m) \in Int /\ Priority(x) \in Int
      /\ q[b].enqueuedAt \in Int /\ q[j].enqueuedAt \in Int
  BY <1>3, <1>4, MessagesAssumption DEF Entries
<1>6. ~Less(q[j], q[b]) BY <1>3 DEF First
<1>7. /\ j < b => q[j].enqueuedAt <= q[b].enqueuedAt
      /\ x \in older[m] <=> j < b
  BY <1>1, <1>2, <1>3 DEF Ordered
<1>8. j < b => Less(q[b], q[j])
  <2>1. j < b => j \in 1..(b - 1) BY <1>2
  <2> QED BY <2>1 DEF First
<1> HIDE DEF q, m
<1>9. /\ Less(q[j], q[b]) <=>
           \/ Terminal(x) /\ ~Terminal(m)
           \/ /\ Terminal(x) = Terminal(m)
              /\ Priority(x) > Priority(m)
                   \/ (Priority(x) = Priority(m) /\ q[j].enqueuedAt < q[b].enqueuedAt)
      /\ Less(q[b], q[j]) <=>
           \/ Terminal(m) /\ ~Terminal(x)
           \/ /\ Terminal(m) = Terminal(x)
              /\ Priority(m) > Priority(x)
                   \/ (Priority(m) = Priority(x) /\ q[b].enqueuedAt < q[j].enqueuedAt)
  <2>1. q[b].msg = m BY DEF q, m
  <2> QED BY <1>3, <2>1, Zenon DEF Less
<1>10. CASE Terminal(m) # Terminal(x)
  <2>1. ~Terminal(m) => ~Terminal(x) BY <1>6, <1>9, Zenon
  <2>2. ~Terminal(m) => Terminal(m) = FALSE /\ Terminal(x) = FALSE BY <1>5, <2>1
  <2>3. Terminal(m) BY <2>2, <1>10, Zenon
  <2>4. Terminal(x) => Terminal(m) = TRUE /\ Terminal(x) = TRUE BY <1>5, <2>3
  <2>5. ~Terminal(x) BY <2>4, <1>10, Zenon
  <2> QED BY <2>3, <2>5, Zenon DEF Outranks, m, q
<1>11. CASE Terminal(m) = Terminal(x)
  <2>1. ~(Priority(x) > Priority(m)) BY <1>6, <1>9, <1>11, Zenon
  <2>2. Priority(m) > Priority(x) \/ Priority(m) = Priority(x) BY <2>1, <1>5
  <2>3. ASSUME Priority(m) = Priority(x), j < b PROVE FALSE
    <3>1. ~(Priority(m) > Priority(x)) BY <2>3, <1>5
    <3>2. ~(Terminal(m) /\ ~Terminal(x)) BY <1>11, Zenon
    <3>3. q[b].enqueuedAt < q[j].enqueuedAt BY <3>1, <3>2, <2>3, <1>8, <1>9, Zenon
    <3> QED BY <3>3, <2>3, <1>5, <1>7
  <2>4. Priority(m) = Priority(x) => x \notin older[m] BY <2>3, <1>7, Zenon
  <2> QED BY <2>2, <2>4, <1>11, Zenon DEF Outranks, m, q
<1> QED BY <1>10, <1>11

(* A message is sent only if every other one in its queue is of a lower     *)
(* class, or of a lower priority in the same class, or arrived later.       *)
THEOREM PrecedenceKept == Spec => SentInPrecedence
<1>1. QueueInv /\ [Next]_vars =>
        [\A m \in Messages : status[m] = "queued" /\ status'[m] = "sent" =>
           \A x \in Queued(Npg(m)) \ {m} : Outranks(m, x)]_vars
  <2> SUFFICES ASSUME QueueInv, [Next]_vars,
                      NEW m \in Messages, status[m] = "queued", status'[m] = "sent",
                      NEW x \in Queued(Npg(m)) \ {m}
               PROVE  Outranks(m, x)
    OBVIOUS
  <2>1. PICK w \in Workers : /\ Dequeue(w) /\ queues[slot[w]] # <<>>
                             /\ m = queues[slot[w]][Best(queues[slot[w]])].msg
                             /\ slot[w] = Npg(m)
    BY SentByDequeue
  <2>2. /\ slot[w] \in Npgs
        /\ First(queues[slot[w]], Len(queues[slot[w]]), Best(queues[slot[w]]))
    BY <2>1, DequeueEffect
  <2>3. QueueOK(slot[w]) BY <2>2 DEF QueueInv
  <2>4. x \in Msgs(queues[slot[w]]) /\ x # m
    BY <2>1, <2>2, <2>3, QueuedMsgs DEF QueueOK
  <2> QED BY <2>1, <2>2, <2>3, <2>4, FirstOutranks
<1> QED BY <1>1, QueueInvariant, PTL DEF Spec, SentInPrecedence

(* A message that is sent was not stale by the clock its dispatcher read,   *)
(* although others run and time passes between its purge and its dequeue.   *)
THEOREM SentFresh == Spec => FreshAtReading
<1>1. QueueInv /\ [Next]_vars =>
        [\A w \in Workers, m \in Messages :
           pc[w] = "dequeue" /\ pc'[w] = "idle" /\ status[m] = "queued" /\ status'[m] = "sent" =>
             \E e \in EntriesOf(Npg(m)) :
                e.msg = m /\ (Staleness(m) <= 0 \/ stamp[w] <= e.enqueuedAt + Staleness(m))]_vars
  <2> SUFFICES ASSUME QueueInv, [Next]_vars, NEW w \in Workers, NEW m \in Messages,
                      pc[w] = "dequeue", pc'[w] = "idle",
                      status[m] = "queued", status'[m] = "sent"
               PROVE  \E e \in EntriesOf(Npg(m)) :
                         e.msg = m /\ (Staleness(m) <= 0 \/ stamp[w] <= e.enqueuedAt + Staleness(m))
    OBVIOUS
  <2>1. PICK v \in Workers : /\ Dequeue(v) /\ queues[slot[v]] # <<>>
                             /\ m = queues[slot[v]][Best(queues[slot[v]])].msg
                             /\ slot[v] = Npg(m)
    BY SentByDequeue
  <2>2. v = w
    <3>1. pc' = [pc EXCEPT ![v] = "idle"] BY <2>1 DEF Dequeue, Done
    <3> QED BY <3>1 DEF QueueInv, TypesOK
  <2> DEFINE n == slot[w] q == queues[n] b == Best(q)
  <2>3. n \in Npgs /\ b \in 1..Len(q) BY <2>1, <2>2, DequeueEffect DEF First
  <2>4. ~Stale(q[b], stamp[w]) BY <2>3 DEF QueueInv, WorkerOK
  <2>5. q \in Seq(Entries) BY <2>3 DEF QueueInv, QueueOK
  <2>6. q[b] \in Entries /\ b \in DOMAIN q BY <2>3, <2>5, ElementOfSeq
  <2>7. q[b] \in EntriesOf(Npg(m)) /\ q[b].msg = m BY <2>1, <2>2, <2>6 DEF EntriesOf
  <2> HIDE DEF q, b
  <2>8. /\ stamp[w] \in Int /\ q[b].enqueuedAt \in Int /\ Staleness(m) \in Int
    <3>1. stamp[w] \in 0..now BY DEF QueueInv, TypesOK
    <3>2. q[b].enqueuedAt \in 0..MaxNow BY <2>6 DEF Entries
    <3>3. Staleness(m) \in Int BY MessagesAssumption
    <3> QED BY <3>1, <3>2, <3>3
  <2>9. ~(Staleness(m) > 0 /\ stamp[w] - q[b].enqueuedAt > Staleness(m))
    BY <2>4, <2>7 DEF Stale
  <2>10. Staleness(m) <= 0 \/ stamp[w] <= q[b].enqueuedAt + Staleness(m)
    BY <2>8, <2>9
  <2> QED BY <2>7, <2>10
<1> QED BY <1>1, QueueInvariant, PTL DEF Spec, FreshAtReading

(* A message is purged only once it has been queued for longer than a limit *)
(* it has; a terminal message never is.                                     *)
THEOREM PurgedStale == Spec => OnlyStalePurged
<1>1. QueueInv /\ [Next]_vars =>
        [\A m \in Messages : status[m] = "queued" /\ status'[m] = "purged" =>
           /\ ~Terminal(m)
           /\ \E e \in EntriesOf(Npg(m)) :
                e.msg = m /\ 0 < Staleness(m) /\ now > e.enqueuedAt + Staleness(m)]_vars
  <2> SUFFICES ASSUME QueueInv, [Next]_vars,
                      NEW m \in Messages, status[m] = "queued", status'[m] = "purged"
               PROVE  /\ ~Terminal(m)
                      /\ \E e \in EntriesOf(Npg(m)) :
                           e.msg = m /\ 0 < Staleness(m) /\ now > e.enqueuedAt + Staleness(m)
    OBVIOUS
  <2>1. \E w \in Workers : PurgeOnly(w) \/ PurgeFirst(w)
    <3>1. CASE Tick BY <3>1 DEF Tick
    <3>2. ASSUME NEW x \in Messages, Enqueue(x) PROVE FALSE
      <4>1. status' = [status EXCEPT ![x] = "queued"] BY <3>2 DEF Enqueue
      <4> QED BY <4>1 DEF QueueInv, TypesOK
    <3>3. ASSUME NEW w \in Workers, NEW n \in Npgs, StartPurge(w, n) \/ StartDispatch(w, n)
          PROVE  FALSE
      BY <3>3 DEF StartPurge, StartDispatch
    <3>4. ASSUME NEW w \in Workers, Dequeue(w) PROVE FALSE
      <4>1. queues[slot[w]] # <<>> BY <3>4 DEF Dequeue
      <4> DEFINE e == queues[slot[w]][Best(queues[slot[w]])].msg
      <4>2. status' = [status EXCEPT ![e] = "sent"] BY <3>4, <4>1, DequeueEffect
      <4> HIDE DEF e
      <4> QED BY <4>2 DEF QueueInv, TypesOK
    <3>5. CASE UNCHANGED vars BY <3>5 DEF vars
    <3> QED BY <3>1, <3>2, <3>3, <3>4, <3>5 DEF Next, Serve
  <2>2. PICK w \in Workers : PurgeOnly(w) \/ PurgeFirst(w) BY <2>1
  <2> DEFINE n == slot[w] t == stamp[w] q == queues[n]
  <2>3. n \in Npgs BY <2>2 DEF PurgeOnly, PurgeFirst, QueueInv, WorkerOK
  <2>4. Purge(n, t) /\ UNCHANGED <<now, older>> BY <2>2 DEF PurgeOnly, PurgeFirst
  <2>5. Npg(m) = n /\ \E j \in 1..Len(q) : q[j].msg = m /\ Stale(q[j], t)
    <3> HIDE DEF n, t
    <3> QED BY <2>3, <2>4, PurgeEffect
  <2>6. PICK j \in 1..Len(q) : q[j].msg = m /\ Stale(q[j], t) BY <2>5
  <2>7. q \in Seq(Entries) BY <2>3 DEF QueueInv, QueueOK
  <2>8. q[j] \in Entries /\ j \in DOMAIN q BY <2>6, <2>7, ElementOfSeq
  <2>9. q[j] \in EntriesOf(Npg(m)) BY <2>5, <2>8 DEF EntriesOf
  <2> HIDE DEF q
  <2>10. Staleness(m) > 0 /\ t - q[j].enqueuedAt > Staleness(m) BY <2>6 DEF Stale
  <2>11. ~Terminal(m)
    <3>1. Terminal(m) => Staleness(m) = 0 BY MessagesAssumption
    <3> QED BY <3>1, <2>10
  <2>12. t \in 0..now /\ now \in Nat BY ClockTyped DEF QueueInv, TypesOK
  <2>13. q[j].enqueuedAt \in Int /\ Staleness(m) \in Int
    <3>1. q[j].enqueuedAt \in 0..MaxNow BY <2>8 DEF Entries
    <3>2. Staleness(m) \in Int BY MessagesAssumption
    <3> QED BY <3>1, <3>2
  <2>14. 0 < Staleness(m) /\ now > q[j].enqueuedAt + Staleness(m)
    <3> HIDE DEF t
    <3> QED BY <2>10, <2>12, <2>13
  <2> QED BY <2>6, <2>9, <2>11, <2>14
<1> QED BY <1>1, QueueInvariant, PTL DEF Spec, OnlyStalePurged
-----------------------------------------------------------------------------
(***************************************************************************)
(* The scenarios of cmd/priorityexp drive these queues.                    *)
(***************************************************************************)
(* What a program is made of. *)
Commands == [op : {"enqueue", "maybe", "dispatch", "sleep", "purge", "drain"},
             msgs : SUBSET Messages]

(* The first n rounds of FlattenSeq, as a function. *)
Flattens(ss, n, flat) ==
  flat = [i \in 1..n |-> IF i = 1 THEN ss[i] ELSE flat[i - 1] \o ss[i]]

(* There is such a function: it is extended round by round. *)
LEMMA FlattensExists ==
  ASSUME NEW ss, NEW n \in Nat
  PROVE  \E flat : Flattens(ss, n, flat)
<1> DEFINE M == {k \in Nat : ~ \E flat : Flattens(ss, k, flat)}
<1>1. ASSUME n \in M PROVE FALSE
  <2>1. PICK m \in M : \A j \in M : m <= j
    <3>1. M \in SUBSET Nat /\ M # {} BY <1>1
    <3> HIDE DEF M
    <3> QED BY <3>1, LeastExists
  <2>2. m \in Nat OBVIOUS
  <2>3. CASE m = 0
    <3>1. Flattens(ss, 0, [i \in 1..0 |-> 1]) BY DEF Flattens
    <3> QED BY <2>3, <3>1
  <2>4. CASE m # 0
    <3>1. m - 1 \in Nat /\ m - 1 \notin M BY <2>1, <2>2, <2>4
    <3>2. PICK g : Flattens(ss, m - 1, g) BY <3>1
    <3> DEFINE next == IF m = 1 THEN ss[m] ELSE g[m - 1] \o ss[m]
               h == [i \in 1..m |-> IF i = m THEN next ELSE g[i]]
    <3> HIDE DEF M
    <3>3. ASSUME NEW i \in 1..m
          PROVE  h[i] = IF i = 1 THEN ss[i] ELSE h[i - 1] \o ss[i]
      <4>1. CASE i = m
        <5>1. h[i] = next BY <4>1
        <5>2. CASE m = 1 BY <5>1, <5>2, <4>1
        <5>3. CASE m # 1
          <6>1. i - 1 \in 1..m /\ i - 1 # m BY <4>1, <5>3, <2>2
          <6>2. h[i - 1] = g[m - 1] BY <6>1, <4>1
          <6> HIDE DEF h
          <6> QED BY <5>1, <5>3, <6>2, <4>1
        <5> QED BY <5>2, <5>3
      <4>2. CASE i # m
        <5>1. i \in 1..(m - 1) /\ h[i] = g[i] BY <4>2, <2>2
        <5>2. g[i] = IF i = 1 THEN ss[i] ELSE g[i - 1] \o ss[i]
          BY <5>1, <3>2 DEF Flattens
        <5>3. CASE i = 1 BY <5>1, <5>2, <5>3
        <5>4. CASE i # 1
          <6>1. i - 1 \in 1..m /\ i - 1 # m BY <5>4, <5>1, <2>2
          <6>2. h[i - 1] = g[i - 1] BY <6>1
          <6> HIDE DEF h
          <6> QED BY <5>1, <5>2, <5>4, <6>2
        <5> QED BY <5>3, <5>4
      <4> QED BY <4>1, <4>2
    <3>4. Flattens(ss, m, h)
      <4>1. h = [i \in 1..m |-> h[i]] OBVIOUS
      <4> HIDE DEF h
      <4> QED BY <4>1, <3>3 DEF Flattens
    <3> QED BY <3>4, <2>1 DEF M
  <2> QED BY <2>3, <2>4
<1> QED BY <1>1

(* FlattenSeq gives the last of the rounds. *)
LEMMA FlattenSeqRounds ==
  ASSUME NEW ss, Len(ss) \in Nat, Len(ss) # 0
  PROVE  \E flat : Flattens(ss, Len(ss), flat) /\ FlattenSeq(ss) = flat[Len(ss)]
<1>1. \E flat : Flattens(ss, Len(ss), flat) BY FlattensExists
<1> DEFINE s == CHOOSE flat : Flattens(ss, Len(ss), flat)
<1>2. Flattens(ss, Len(ss), s) BY <1>1
<1>3. FlattenSeq(ss) = s[Len(ss)] BY DEF FlattenSeq, Flattens
<1> QED BY <1>2, <1>3

(* Where the elements of two sequences are in their concatenation. *)
LEMMA Joined ==
  ASSUME NEW S, NEW s \in Seq(S), NEW t \in Seq(S)
  PROVE  /\ s \o t \in Seq(S) /\ Len(s \o t) = Len(s) + Len(t)
         /\ \A i \in 1..Len(s) : (s \o t)[i] = s[i]
         /\ \A i \in 1..Len(t) : (s \o t)[Len(s) + i] = t[i]
<1>1. Len(s) \in Nat /\ Len(t) \in Nat BY LenProperties
<1>2. /\ s \o t \in Seq(S) /\ Len(s \o t) = Len(s) + Len(t)
      /\ \A i \in 1..(Len(s) + Len(t)) :
            (s \o t)[i] = IF i <= Len(s) THEN s[i] ELSE t[i - Len(s)]
  BY ConcatProperties
<1>3. ASSUME NEW i \in 1..Len(s) PROVE (s \o t)[i] = s[i]
  <2>1. i \in 1..(Len(s) + Len(t)) /\ i <= Len(s) BY <1>1
  <2> QED BY <1>2, <2>1, Zenon
<1>4. ASSUME NEW i \in 1..Len(t) PROVE (s \o t)[Len(s) + i] = t[i]
  <2>1. /\ Len(s) + i \in 1..(Len(s) + Len(t)) /\ ~(Len(s) + i <= Len(s))
        /\ (Len(s) + i) - Len(s) = i
    BY <1>1
  <2> QED BY <1>2, <2>1, Zenon
<1> QED BY <1>2, <1>3, <1>4

(* What FlattenSeq gives is made of what it is given. *)
LEMMA FlattenSeqTyped ==
  ASSUME NEW S, NEW ss \in Seq(Seq(S))
  PROVE  FlattenSeq(ss) \in Seq(S)
<1>1. CASE Len(ss) = 0
  <2>1. ss = <<>> BY <1>1, EmptySeq
  <2>2. FlattenSeq(ss) = ss BY <1>1 DEF FlattenSeq
  <2>3. <<>> \in Seq(S) OBVIOUS
  <2> QED BY <2>1, <2>2, <2>3, Zenon
<1>2. CASE Len(ss) # 0
  <2>1. Len(ss) \in Nat BY LenProperties
  <2>2. PICK flat : Flattens(ss, Len(ss), flat) /\ FlattenSeq(ss) = flat[Len(ss)]
    BY <1>2, <2>1, FlattenSeqRounds
  <2> DEFINE M == {i \in 1..Len(ss) : flat[i] \notin Seq(S)}
  <2>3. ASSUME Len(ss) \in M PROVE FALSE
    <3>1. PICK m \in M : \A j \in M : m <= j
      <4>1. M \in SUBSET Nat /\ M # {} BY <2>3
      <4> HIDE DEF M
      <4> QED BY <4>1, LeastExists
    <3>2. m \in 1..Len(ss) /\ flat[m] \notin Seq(S) /\ ss[m] \in Seq(S)
      BY <3>1, ElementOfSeq
    <3>3. flat[m] = IF m = 1 THEN ss[m] ELSE flat[m - 1] \o ss[m]
      BY <2>2, <3>2 DEF Flattens
    <3>4. CASE m = 1 BY <3>2, <3>3, <3>4
    <3>5. CASE m # 1
      <4>1. m - 1 \in 1..Len(ss) /\ flat[m - 1] \in Seq(S) BY <3>1, <3>2, <3>5
      <4>2. flat[m - 1] \o ss[m] \in Seq(S) BY <4>1, <3>2, ConcatProperties
      <4> QED BY <4>2, <3>2, <3>3, <3>5
    <3> QED BY <3>4, <3>5
  <2>4. Len(ss) \in 1..Len(ss) BY <2>1, <1>2
  <2> QED BY <2>2, <2>3, <2>4
<1> QED BY <1>1, <1>2

LEMMA EnqueuesTyped ==
  ASSUME NEW ms \in Seq(Messages)
  PROVE  /\ Enqueues(ms) \in Seq(Commands) /\ Len(Enqueues(ms)) = Len(ms)
         /\ \A i \in 1..Len(ms) : Enqueues(ms)[i] = Command("enqueue", {ms[i]})
<1> DEFINE n == Len(ms)
<1>1. n \in Nat /\ DOMAIN ms = 1..n BY LenProperties
<1>2. \A i \in 1..n : ms[i] \in Messages BY ElementOfSeq
<1>3. Enqueues(ms) = [i \in 1..n |-> Command("enqueue", {ms[i]})] BY <1>1 DEF Enqueues
<1> HIDE DEF n
<1>4. ASSUME NEW i \in 1..n PROVE Command("enqueue", {ms[i]}) \in Commands
  BY <1>2 DEF Command, Commands
<1>5. Enqueues(ms) \in [1..n -> Commands] BY <1>3, <1>4
<1>6. Enqueues(ms) \in Seq(Commands) /\ Len(Enqueues(ms)) = n BY <1>1, <1>5
<1> QED BY <1>3, <1>6 DEF n

LEMMA DispatchesTyped ==
  ASSUME NEW n \in Nat
  PROVE  /\ Dispatches(n) \in Seq(Commands) /\ Len(Dispatches(n)) = n
         /\ \A i \in 1..n : Dispatches(n)[i] = Command("dispatch", {})
<1>1. Command("dispatch", {}) \in Commands BY DEF Command, Commands
<1>2. Dispatches(n) \in [1..n -> Commands] BY <1>1 DEF Dispatches
<1> QED BY <1>2 DEF Dispatches

(* A command on its own. *)
LEMMA CommandTyped ==
  ASSUME NEW op \in {"enqueue", "maybe", "dispatch", "sleep", "purge", "drain"},
         NEW msgs \in SUBSET Messages
  PROVE  <<Command(op, msgs)>> \in Seq(Commands) /\ Len(<<Command(op, msgs)>>) = 1
BY DEF Command, Commands

(* A slot of a flood is two J2.2, perhaps a J13.3, and a dispatch.          *)
LEMMA FloodSlotIs ==
  ASSUME NEW j13 \in Seq(Messages), Len(Low) >= 2 * Len(j13), NEW i \in 1..Len(j13)
  PROVE  /\ FloodSlot(i, j13) \in Seq(Commands) /\ Len(FloodSlot(i, j13)) = 4
         /\ FloodSlot(i, j13)[1] = Command("enqueue", {Low[2 * i - 1]})
         /\ FloodSlot(i, j13)[2] = Command("enqueue", {Low[2 * i]})
         /\ FloodSlot(i, j13)[3] = Command("maybe", {j13[i]})
         /\ FloodSlot(i, j13)[4] = Command("dispatch", {})
<1>1. Low \in Seq(Messages) BY ScenariosAssumption
<1> DEFINE x == Low[2 * i - 1]  y == Low[2 * i]
<1>2. x \in Messages /\ y \in Messages /\ j13[i] \in Messages
  <2>1. Len(j13) \in Nat /\ Len(Low) \in Nat BY <1>1, LenProperties
  <2>2. 2 * i - 1 \in 1..Len(Low) /\ 2 * i \in 1..Len(Low) BY <2>1
  <2> QED BY <2>2, <1>1, ElementOfSeq
<1> DEFINE a == Enqueues(<<x, y>>)
           b == <<Command("maybe", {j13[i]})>>
           c == Dispatches(1)
<1>3. FloodSlot(i, j13) = (a \o b) \o c BY DEF FloodSlot
<1> HIDE DEF x, y
<1>4. /\ a \in Seq(Commands) /\ Len(a) = 2
      /\ a[1] = Command("enqueue", {x}) /\ a[2] = Command("enqueue", {y})
  <2>1. <<x, y>> \in Seq(Messages) /\ Len(<<x, y>>) = 2 /\ <<x, y>>[1] = x /\ <<x, y>>[2] = y
    BY <1>2
  <2>2. /\ a \in Seq(Commands) /\ Len(a) = 2
        /\ \A k \in 1..2 : a[k] = Command("enqueue", {<<x, y>>[k]})
    BY <2>1, EnqueuesTyped
  <2> QED BY <2>1, <2>2
<1>5. b \in Seq(Commands) /\ Len(b) = 1 /\ b[1] = Command("maybe", {j13[i]})
  BY <1>2, CommandTyped
<1>6. c \in Seq(Commands) /\ Len(c) = 1 /\ c[1] = Command("dispatch", {})
  <2>1. 1 \in Nat /\ 1 \in 1..1 OBVIOUS
  <2> HIDE DEF a, b
  <2> QED BY <2>1, DispatchesTyped, Zenon
<1> HIDE DEF a, b, c
<1> HIDE DEF a, b, c
<1> DEFINE d == a \o b
<1>7. d \in Seq(Commands) /\ Len(d) = 3 /\ d[1] = a[1] /\ d[2] = a[2] /\ d[3] = b[1]
  <2>1. /\ d \in Seq(Commands) /\ Len(d) = Len(a) + Len(b)
        /\ \A k \in 1..Len(a) : d[k] = a[k]
        /\ \A k \in 1..Len(b) : d[Len(a) + k] = b[k]
    <3>1. a \in Seq(Commands) /\ b \in Seq(Commands) BY <1>4, <1>5, Zenon
    <3> QED BY <3>1, Joined
  <2> HIDE DEF d
  <2>2. 1 \in 1..Len(a) /\ 2 \in 1..Len(a) /\ 1 \in 1..Len(b) /\ Len(a) + 1 = 3
    BY <1>4, <1>5
  <2>3. Len(d) = 3 BY <2>1, <1>4, <1>5
  <2> QED BY <2>1, <2>2, <2>3
<1> DEFINE e == d \o c
<1> HIDE DEF d
<1>8. /\ e \in Seq(Commands) /\ Len(e) = 4
      /\ e[1] = d[1] /\ e[2] = d[2] /\ e[3] = d[3] /\ e[4] = c[1]
  <2>1. /\ e \in Seq(Commands) /\ Len(e) = Len(d) + Len(c)
        /\ \A k \in 1..Len(d) : e[k] = d[k]
        /\ \A k \in 1..Len(c) : e[Len(d) + k] = c[k]
    <3>1. d \in Seq(Commands) /\ c \in Seq(Commands) BY <1>6, <1>7, Zenon
    <3> QED BY <3>1, Joined
  <2> HIDE DEF e
  <2>2. /\ 1 \in 1..Len(d) /\ 2 \in 1..Len(d) /\ 3 \in 1..Len(d)
        /\ 1 \in 1..Len(c) /\ Len(d) + 1 = 4
    BY <1>6, <1>7
  <2>3. Len(e) = 4 BY <2>1, <1>6, <1>7
  <2> QED BY <2>1, <2>2, <2>3
<1>9. FloodSlot(i, j13) = e BY <1>3 DEF d, a, b, c, x, y
<1> HIDE DEF e
<1> QED BY <1>4, <1>5, <1>6, <1>7, <1>8, <1>9 DEF x, y

(* Where the elements of sequences of equal length are in their flattening. *)
LEMMA FlattenEvenly ==
  ASSUME NEW S, NEW c \in {3, 4}, NEW ss \in Seq(Seq(S)), \A i \in 1..Len(ss) : Len(ss[i]) = c
  PROVE  /\ FlattenSeq(ss) \in Seq(S) /\ Len(FlattenSeq(ss)) = c * Len(ss)
         /\ \A i \in 1..Len(ss) : \A r \in 1..c :
               FlattenSeq(ss)[c * (i - 1) + r] = ss[i][r]
<1>0. FlattenSeq(ss) \in Seq(S) BY FlattenSeqTyped
<1>1. CASE Len(ss) = 0
  <2>1. ss = <<>> BY <1>1, EmptySeq
  <2>2. FlattenSeq(ss) = ss BY <1>1 DEF FlattenSeq
  <2>3. Len(FlattenSeq(ss)) = c * Len(ss) /\ 1..Len(ss) = {} BY <1>1, <2>2
  <2> QED BY <1>0, <2>3
<1>2. CASE Len(ss) # 0
  <2>1. Len(ss) \in Nat BY LenProperties
  <2>2. PICK flat : Flattens(ss, Len(ss), flat) /\ FlattenSeq(ss) = flat[Len(ss)]
    BY <1>2, <2>1, FlattenSeqRounds
  <2> DEFINE Spot(i, r) == c * (i - 1) + r
             Good(k) == /\ flat[k] \in Seq(S) /\ Len(flat[k]) = c * k
                        /\ \A i \in 1..k : \A r \in 1..c : flat[k][Spot(i, r)] = ss[i][r]
             M == {k \in 1..Len(ss) : ~Good(k)}
  <2>3. /\ \A k \in Nat : c * k \in Nat /\ c * (k - 1) + c = c * k
        /\ \A k \in Nat : \A i \in 1..k : \A r \in 1..c : Spot(i, r) \in 1..(c * k)
        /\ \A r \in 1..c : Spot(1, r) = r
        /\ c * 1 = c
    <3>1. CASE c = 3 BY <3>1
    <3>2. CASE c = 4 BY <3>2
    <3> QED BY <3>1, <3>2
  <2>4. \A k, r : Spot(k, r) = c * (k - 1) + r OBVIOUS
  <2> HIDE DEF Spot
  <2>5. ASSUME Len(ss) \in M PROVE FALSE
    <3>1. PICK m \in M : \A j \in M : m <= j
      <4> HIDE DEF Good
      <4>1. M \in SUBSET Nat /\ M # {} BY <2>5
      <4> HIDE DEF M
      <4> QED BY <4>1, LeastExists
    <3>2. m \in 1..Len(ss) /\ ~Good(m) BY <3>1
    <3>3. ss[m] \in Seq(S) /\ Len(ss[m]) = c BY <3>2, ElementOfSeq
    <3>4. flat[m] = IF m = 1 THEN ss[m] ELSE flat[m - 1] \o ss[m]
      BY <2>2, <3>2 DEF Flattens
    <3>5. CASE m = 1
      <4>1. flat[1] = ss[1] BY <3>4, <3>5
      <4>2. \A i \in 1..1 : i = 1 OBVIOUS
      <4>3. \A i \in 1..1 : \A r \in 1..c : flat[1][Spot(i, r)] = ss[i][r]
        BY <2>3, <4>1, <4>2, Zenon
      <4>4. flat[1] \in Seq(S) /\ Len(flat[1]) = c * 1
        <5>1. ss[1] \in Seq(S) /\ Len(ss[1]) = c BY <3>3, <3>5, Zenon
        <5> QED BY <2>3, <4>1, <5>1, Zenon
      <4> QED BY <4>3, <4>4, <3>2, <3>5, Zenon
    <3>6. CASE m # 1
      <4> DEFINE g == flat[m - 1]
      <4>1. m - 1 \in 1..Len(ss) /\ Good(m - 1)
        <5>1. m - 1 \in 1..Len(ss) /\ ~(m <= m - 1) BY <3>2, <3>6
        <5> HIDE DEF Good
        <5> QED BY <3>1, <5>1
      <4>2. /\ g \in Seq(S) /\ Len(g) = c * (m - 1)
            /\ \A i \in 1..(m - 1) : \A r \in 1..c : g[Spot(i, r)] = ss[i][r]
        BY <4>1
      <4>3. flat[m] = g \o ss[m] BY <3>4, <3>6
      <4> HIDE DEF g, M
      <4>4. /\ flat[m] \in Seq(S) /\ Len(flat[m]) = Len(g) + Len(ss[m])
            /\ \A k \in 1..Len(g) : flat[m][k] = g[k]
            /\ \A k \in 1..Len(ss[m]) : flat[m][Len(g) + k] = ss[m][k]
        <5>1. g \in Seq(S) /\ ss[m] \in Seq(S) BY <4>2, <3>3, Zenon
        <5>2. /\ g \o ss[m] \in Seq(S) /\ Len(g \o ss[m]) = Len(g) + Len(ss[m])
              /\ \A k \in 1..Len(g) : (g \o ss[m])[k] = g[k]
              /\ \A k \in 1..Len(ss[m]) : (g \o ss[m])[Len(g) + k] = ss[m][k]
          BY <5>1, Joined
        <5> QED BY <5>2, <4>3, Zenon
      <4>5. m \in Nat /\ m - 1 \in Nat BY <3>2
      <4>6. Len(flat[m]) = c * m BY <2>3, <4>2, <4>4, <4>5, <3>3, Zenon
      <4>7. ASSUME NEW i \in 1..m, NEW r \in 1..c
            PROVE  flat[m][Spot(i, r)] = ss[i][r]
        <5>1. CASE i = m
          <6>1. r \in 1..Len(ss[m]) /\ Spot(m, r) = Len(g) + r
            BY <2>4, <3>3, <4>2, Zenon
          <6> QED BY <5>1, <6>1, <4>4, Zenon
        <5>2. CASE i # m
          <6>1. i \in 1..(m - 1) BY <5>2, <4>5
          <6>2. Spot(i, r) \in 1..Len(g) BY <2>3, <4>2, <4>5, <6>1, Zenon
          <6> QED BY <6>1, <6>2, <4>2, <4>4, Zenon
        <5> QED BY <5>1, <5>2
      <4> QED BY <4>4, <4>6, <4>7, <3>2, Zenon
    <3> QED BY <3>5, <3>6
  <2>6. Good(Len(ss))
    <3>1. Len(ss) \in 1..Len(ss) BY <2>1, <1>2
    <3> HIDE DEF Good
    <3> QED BY <2>5, <3>1
  <2> QED BY <2>2, <2>4, <2>6, Zenon
<1> QED BY <1>1, <1>2

(* A flood is its slots, four commands each. *)
Flood(j13) == FlattenSeq([i \in DOMAIN j13 |-> FloodSlot(i, j13)])

LEMMA FloodIs ==
  ASSUME NEW j13 \in Seq(Messages), Len(Low) >= 2 * Len(j13)
  PROVE  /\ Flood(j13) \in Seq(Commands) /\ Len(Flood(j13)) = 4 * Len(j13)
         /\ \A i \in 1..Len(j13) : \A r \in 1..4 :
               Flood(j13)[4 * (i - 1) + r] = FloodSlot(i, j13)[r]
<1> DEFINE n == Len(j13)
           ss == [i \in 1..n |-> FloodSlot(i, j13)]
<1>1. n \in Nat /\ DOMAIN j13 = 1..n BY LenProperties
<1>2. Flood(j13) = FlattenSeq(ss) BY <1>1 DEF Flood
<1>3. \A i \in 1..n : FloodSlot(i, j13) \in Seq(Commands) /\ Len(FloodSlot(i, j13)) = 4
  BY FloodSlotIs
<1> HIDE DEF n
<1>4. ss \in [1..n -> Seq(Commands)] BY <1>3
<1>5. ss \in Seq(Seq(Commands)) /\ Len(ss) = n BY <1>1, <1>4
<1>6. \A i \in 1..n : ss[i] = FloodSlot(i, j13) OBVIOUS
<1> HIDE DEF ss
<1>7. 4 \in {3, 4} /\ \A i \in 1..Len(ss) : Len(ss[i]) = 4 BY <1>3, <1>5, <1>6
<1>8. /\ FlattenSeq(ss) \in Seq(Commands) /\ Len(FlattenSeq(ss)) = 4 * Len(ss)
      /\ \A i \in 1..Len(ss) : \A r \in 1..4 : FlattenSeq(ss)[4 * (i - 1) + r] = ss[i][r]
  BY <1>5, <1>7, FlattenEvenly, ZenonT(40)
<1> QED BY <1>2, <1>5, <1>6, <1>8 DEF n

(* A slot of scenario 4. *)
LEMMA StaleSlotIs ==
  ASSUME NEW i \in 1..Len(High)
  PROVE  /\ StaleSlot(i) \in Seq(Commands) /\ Len(StaleSlot(i)) = 3
         /\ StaleSlot(i)[1] = Command("enqueue", {High[i]})
         /\ StaleSlot(i)[2] = Command("dispatch", {})
         /\ StaleSlot(i)[3] = Command("sleep", {})
<1> DEFINE x == High[i]
           a == Enqueues(<<x>>)
           b == Dispatches(1)
           c == <<Command("sleep", {})>>
<1>1. x \in Messages BY ScenariosAssumption, ElementOfSeq
<1>2. StaleSlot(i) = (a \o b) \o c BY DEF StaleSlot
<1> HIDE DEF x
<1>3. a \in Seq(Commands) /\ Len(a) = 1 /\ a[1] = Command("enqueue", {x})
  <2>1. <<x>> \in Seq(Messages) /\ Len(<<x>>) = 1 /\ <<x>>[1] = x /\ 1 \in 1..1 BY <1>1
  <2> QED BY <2>1, EnqueuesTyped, Zenon
<1>4. b \in Seq(Commands) /\ Len(b) = 1 /\ b[1] = Command("dispatch", {})
  <2>1. 1 \in Nat /\ 1 \in 1..1 OBVIOUS
  <2> QED BY <2>1, DispatchesTyped, Zenon
<1>5. c \in Seq(Commands) /\ Len(c) = 1 /\ c[1] = Command("sleep", {})
  BY CommandTyped
<1> HIDE DEF a, b, c
<1> DEFINE d == a \o b
<1>6. d \in Seq(Commands) /\ Len(d) = 2 /\ d[1] = a[1] /\ d[2] = b[1]
  <2>1. /\ d \in Seq(Commands) /\ Len(d) = Len(a) + Len(b)
        /\ \A k \in 1..Len(a) : d[k] = a[k]
        /\ \A k \in 1..Len(b) : d[Len(a) + k] = b[k]
    <3>1. a \in Seq(Commands) /\ b \in Seq(Commands) BY <1>3, <1>4, Zenon
    <3> QED BY <3>1, Joined
  <2> HIDE DEF d
  <2>2. 1 \in 1..Len(a) /\ 1 \in 1..Len(b) /\ Len(a) + 1 = 2 BY <1>3, <1>4
  <2>3. Len(d) = 2 BY <2>1, <1>3, <1>4
  <2> QED BY <2>1, <2>2, <2>3
<1> HIDE DEF d
<1> DEFINE e == d \o c
<1>7. e \in Seq(Commands) /\ Len(e) = 3 /\ e[1] = d[1] /\ e[2] = d[2] /\ e[3] = c[1]
  <2>1. /\ e \in Seq(Commands) /\ Len(e) = Len(d) + Len(c)
        /\ \A k \in 1..Len(d) : e[k] = d[k]
        /\ \A k \in 1..Len(c) : e[Len(d) + k] = c[k]
    <3>1. d \in Seq(Commands) /\ c \in Seq(Commands) BY <1>5, <1>6, Zenon
    <3> QED BY <3>1, Joined
  <2> HIDE DEF e
  <2>2. 1 \in 1..Len(d) /\ 2 \in 1..Len(d) /\ 1 \in 1..Len(c) /\ Len(d) + 1 = 3
    BY <1>5, <1>6
  <2>3. Len(e) = 3 BY <2>1, <1>5, <1>6
  <2> QED BY <2>1, <2>2, <2>3
<1>8. StaleSlot(i) = e BY <1>2 DEF d
<1> HIDE DEF e
<1> QED BY <1>3, <1>4, <1>5, <1>6, <1>7, <1>8 DEF x

(* Every program is a sequence of commands about the messages. *)
LEMMA ScriptTyped ==
  ASSUME NEW s \in DOMAIN Script
  PROVE  Script[s] \in Seq(Commands)
<1>1. /\ Low \in Seq(Messages) /\ High \in Seq(Messages) /\ Flat \in Seq(Messages)
      /\ RTT \in Seq(Messages) /\ Brief \in Seq(Messages)
      /\ Len(Low) >= 2 * Len(High) /\ Len(Low) >= 2 * Len(Flat)
      /\ Mixed \subseteq Messages /\ IsFiniteSet(Mixed)
  BY ScenariosAssumption
<1>2. \A S, x, y : x \in Seq(S) /\ y \in Seq(S) => x \o y \in Seq(S)
  BY ConcatProperties
<1>3. /\ Enqueues(Low) \in Seq(Commands) /\ Enqueues(High) \in Seq(Commands)
      /\ Enqueues(RTT) \in Seq(Commands) /\ Enqueues(Brief) \in Seq(Commands)
  BY <1>1, EnqueuesTyped, Zenon
<1>4. /\ Dispatches(Len(Low) + Len(High)) \in Seq(Commands)
      /\ Dispatches(Len(Low) + Len(RTT)) \in Seq(Commands)
  <2>1. Len(Low) + Len(High) \in Nat /\ Len(Low) + Len(RTT) \in Nat
    <3>1. Len(Low) \in Nat /\ Len(High) \in Nat /\ Len(RTT) \in Nat
      BY <1>1, LenProperties, Zenon
    <3> QED BY <3>1
  <2> QED BY <2>1, DispatchesTyped, Zenon
<1>5. Flood(High) \in Seq(Commands) /\ Flood(Flat) \in Seq(Commands)
  BY <1>1, FloodIs, Zenon
<1> DEFINE stale == [i \in DOMAIN High |-> StaleSlot(i)]
<1>6. FlattenSeq(stale) \in Seq(Commands)
  <2>1. Len(High) \in Nat /\ DOMAIN High = 1..Len(High) BY <1>1, LenProperties, Zenon
  <2>2. stale \in [1..Len(High) -> Seq(Commands)] BY <2>1, StaleSlotIs
  <2> HIDE DEF stale
  <2>3. stale \in Seq(Seq(Commands)) BY <2>1, <2>2
  <2> QED BY <2>3, FlattenSeqTyped, Zenon
<1> DEFINE mixed == [i \in 1..Cardinality(Mixed) |-> Command("enqueue", Mixed)]
<1>7. mixed \in Seq(Commands)
  <2>1. Cardinality(Mixed) \in Nat BY <1>1, FS_CardinalityType
  <2>2. Command("enqueue", Mixed) \in Commands BY <1>1 DEF Command, Commands
  <2>3. mixed \in [1..Cardinality(Mixed) -> Commands] BY <2>2
  <2> HIDE DEF mixed
  <2> QED BY <2>1, <2>3
<1>8. <<Command("purge", {})>> \in Seq(Commands) /\ <<Command("drain", {})>> \in Seq(Commands)
  BY CommandTyped
<1>9. DOMAIN Script = {"insertion", "flood_on", "flood_off", "preemption", "staleness", "parallel"}
  BY DEF Script
<1>10. CASE s = "insertion"
  <2>1. Script[s] = (Enqueues(Low) \o Enqueues(High)) \o Dispatches(Len(Low) + Len(High))
    BY <1>10 DEF Script
  <2> QED BY <2>1, <1>2, <1>3, <1>4, Zenon
<1>11. CASE s = "flood_on"
  <2>1. Script[s] = Flood(High) BY <1>11 DEF Script, Flood
  <2> QED BY <2>1, <1>5, Zenon
<1>12. CASE s = "flood_off"
  <2>1. Script[s] = Flood(Flat) BY <1>12 DEF Script, Flood
  <2> QED BY <2>1, <1>5, Zenon
<1>13. CASE s = "preemption"
  <2>1. Script[s] = (Enqueues(Low) \o Enqueues(RTT)) \o Dispatches(Len(Low) + Len(RTT))
    BY <1>13 DEF Script
  <2> QED BY <2>1, <1>2, <1>3, <1>4, Zenon
<1>14. CASE s = "staleness"
  <2>1. Script[s] = (Enqueues(Brief) \o FlattenSeq(stale)) \o <<Command("purge", {})>>
    BY <1>14 DEF Script
  <2> QED BY <2>1, <1>2, <1>3, <1>6, <1>8, Zenon
<1>15. CASE s = "parallel"
  <2>1. Script[s] = mixed \o <<Command("drain", {})>> BY <1>15 DEF Script
  <2> HIDE DEF mixed
  <2> QED BY <2>1, <1>2, <1>7, <1>8, Zenon
<1> QED BY <1>9, <1>10, <1>11, <1>12, <1>13, <1>14, <1>15

(* The programs' names. *)
Scenarios == {"free"} \union DOMAIN Script

(* Whichever program runs, a step of it is a step of the queues, or leaves  *)
(* them alone.                                                              *)
LEMMA ScenarioSteps ==
  ASSUME scenario \in Scenarios, [ScenarioNext]_scenarioVars
  PROVE  scenario' = scenario /\ [Next]_vars
<1>1. CASE EnqueueDue
  <2>1. /\ scenario \in DOMAIN Script /\ at \in DOMAIN Script[scenario]
        /\ \E m \in Script[scenario][at].msgs : Enqueue(m)
        /\ scenario' = scenario
    BY <1>1 DEF EnqueueDue, Due, Scenarios
  <2>2. Script[scenario][at] \in Commands BY <2>1, ScriptTyped, LenProperties, ElementOfSeq
  <2>3. Script[scenario][at].msgs \subseteq Messages BY <2>2 DEF Commands
  <2> QED BY <2>1, <2>3 DEF Next
<1>2. CASE SkipMaybe BY <1>2 DEF SkipMaybe, vars
<1>3. CASE Sleep BY <1>3 DEF Sleep, Next
<1>4. CASE Pass BY <1>4 DEF Pass, Next, scriptVars
<1>5. CASE Ended BY <1>5 DEF Ended, scenarioVars, scriptVars
<1>6. CASE FreeStep
  <2>1. Free \subseteq Messages BY ScenariosAssumption
  <2> QED BY <1>6, <2>1 DEF FreeStep, Next, scriptVars
<1>7. ASSUME NEW w \in Workers, NEW n \in Npgs, DispatchDue(w, n) \/ PurgeDue(w, n)
      PROVE  scenario' = scenario /\ Next
  BY <1>7 DEF DispatchDue, PurgeDue, Next, Serve, scriptVars
<1>8. ASSUME NEW w \in Workers, DispatchPurges(w) \/ DispatchReturns(w) \/ PurgeReturns(w)
      PROVE  scenario' = scenario /\ Next
  BY <1>8 DEF DispatchPurges, DispatchReturns, PurgeReturns, Next, Serve, scriptVars
<1>9. CASE UNCHANGED scenarioVars BY <1>9 DEF scenarioVars, scriptVars
<1> QED BY <1>1, <1>2, <1>3, <1>4, <1>5, <1>6, <1>7, <1>8, <1>9 DEF ScenarioNext

(* Every behaviour of the programs of cmd/priorityexp, and of the clients   *)
(* beside them, is a behaviour of the queues: all that is proved of the     *)
(* queues holds in the scenarios.                                           *)
THEOREM ScenariosRunTheQueues == ScenarioSpec => Spec
<1>1. ScenarioInit => Init /\ scenario \in Scenarios
  BY DEF ScenarioInit, Scenarios
<1>2. scenario \in Scenarios /\ [ScenarioNext]_scenarioVars =>
        (scenario \in Scenarios)' /\ [Next]_vars
  BY ScenarioSteps
<1> QED BY <1>1, <1>2, PTL DEF ScenarioSpec, Spec

(* Conservation, precedence and staleness, in the scenarios and beside them. *)
THEOREM ScenariosKept ==
  ScenarioSpec => []TypeOK /\ []Conservation /\ SentInPrecedence /\ OnlyStalePurged
                    /\ FreshAtReading
BY ScenariosRunTheQueues, QueueTyped, QueuesConserve, PrecedenceKept, PurgedStale, SentFresh,
   PTL

-----------------------------------------------------------------------------
(***************************************************************************)
(* The floods of scenario 2.                                               *)
(***************************************************************************)
Floods == {"flood_on", "flood_off"}

(* The J13.3 messages of a flood. *)
Guests == IF scenario = "flood_on" THEN High ELSE Flat

(* One dispatch a slot, its fourth and last command; no worker is inside a  *)
(* node at any other, and only one at a time.                               *)
Place ==
  /\ turn \in Nat /\ at \in Nat /\ 4 * turn < at /\ at <= 4 * turn + 4
  /\ \A w \in Workers : pc[w] \in {"idle", "purge", "dequeue"}
  /\ \A w \in Workers : pc[w] # "idle" => at = 4 * turn + 4 /\ at \in DOMAIN Script[scenario]
  /\ \A v, w \in Workers : pc[v] # "idle" /\ pc[w] # "idle" => v = w

(* Only the flood's own messages are queued. *)
OwnQueued ==
  \A m \in Messages : status[m] = "queued" => m \in Range(Low) \union Range(Guests)

(* With priority on, a J13.3 that is queued is the one of this slot, and    *)
(* its dispatch is due.                                                     *)
GuestNext ==
  /\ slotOf = [m \in Messages |-> slotOf[m]]
  /\ scenario = "flood_on" =>
       \A m \in Range(High) :
          status[m] = "queued" => slotOf[m] = turn /\ at = 4 * turn + 4 /\ m = High[turn + 1]

(* All that was queued before a message has been sent, or purged, when the  *)
(* message itself is sent with priority off.                                *)
OldestSent ==
  /\ order \in Seq(Messages)
  /\ \A a \in Messages : \A x \in older[a] : status[x] # "out"
  /\ scenario = "flood_off" =>
       \A i \in 1..Len(order) :
          /\ status[order[i]] = "sent"
          /\ \A x \in older[order[i]] : status[x] \in {"sent", "purged"}
          /\ \A j \in 1..Len(order) : i < j => order[j] \notin older[order[i]]

FloodInv == scenario \in Floods => Place /\ OwnQueued /\ GuestNext /\ OldestSent

(* The commands of a slot.                                                  *)
LEMMA FloodCommand ==
  ASSUME scenario \in Floods, NEW p \in DOMAIN Script[scenario], NEW t \in Nat,
         4 * t < p, p <= 4 * t + 4
  PROVE  LET c == Script[scenario][p]
         IN /\ t + 1 \in 1..Len(Guests)
            /\ p \in {4 * t + 1, 4 * t + 2} =>
                 \E m \in Range(Low) : c = Command("enqueue", {m})
            /\ p = 4 * t + 3 => c = Command("maybe", {Guests[t + 1]})
            /\ p = 4 * t + 4 => c = Command("dispatch", {})
<1> DEFINE J == Guests
           c == Script[scenario][p]
<1>1. J \in Seq(Messages) /\ Len(Low) >= 2 * Len(J) /\ Low \in Seq(Messages)
  BY ScenariosAssumption DEF Guests
<1>2. Script[scenario] = Flood(J)
  <2>1. CASE scenario = "flood_on" BY <2>1 DEF Script, Flood, Guests
  <2>2. CASE scenario = "flood_off" BY <2>2 DEF Script, Flood, Guests
  <2> QED BY <2>1, <2>2 DEF Floods
<1> HIDE DEF J
<1>3. /\ Flood(J) \in Seq(Commands) /\ Len(Flood(J)) = 4 * Len(J)
      /\ \A i \in 1..Len(J) : \A r \in 1..4 : Flood(J)[4 * (i - 1) + r] = FloodSlot(i, J)[r]
  BY <1>1, FloodIs
<1>4. Len(J) \in Nat /\ Len(Low) \in Nat /\ DOMAIN Low = 1..Len(Low) BY <1>1, LenProperties, Zenon
<1>5. p \in 1..(4 * Len(J))
  <2>1. DOMAIN Flood(J) = 1..Len(Flood(J)) BY <1>3, LenProperties, Zenon
  <2> QED BY <1>2, <1>3, <2>1
<1>6. t + 1 \in 1..Len(J) BY <1>4, <1>5
<1>7. /\ FloodSlot(t + 1, J)[1] = Command("enqueue", {Low[2 * (t + 1) - 1]})
      /\ FloodSlot(t + 1, J)[2] = Command("enqueue", {Low[2 * (t + 1)]})
      /\ FloodSlot(t + 1, J)[3] = Command("maybe", {J[t + 1]})
      /\ FloodSlot(t + 1, J)[4] = Command("dispatch", {})
  BY <1>1, <1>6, FloodSlotIs
<1>8. /\ 2 * (t + 1) - 1 \in DOMAIN Low /\ 2 * (t + 1) \in DOMAIN Low
  <2>1. 2 * (t + 1) - 1 \in 1..Len(Low) /\ 2 * (t + 1) \in 1..Len(Low) BY <1>1, <1>4, <1>6
  <2> QED BY <2>1, <1>4
<1>9. Low[2 * (t + 1) - 1] \in Range(Low) /\ Low[2 * (t + 1)] \in Range(Low)
  BY <1>8, Zenon DEF Range
<1>10. \A r \in 1..4 : p = 4 * t + r => c = FloodSlot(t + 1, J)[r]
  <2> SUFFICES ASSUME NEW r \in 1..4, p = 4 * t + r PROVE c = FloodSlot(t + 1, J)[r]
    OBVIOUS
  <2>1. 4 * ((t + 1) - 1) + r = p OBVIOUS
  <2>2. Flood(J)[4 * ((t + 1) - 1) + r] = FloodSlot(t + 1, J)[r] BY <1>3, <1>6
  <2> QED BY <1>2, <2>1, <2>2
<1> HIDE DEF c
<1>11. /\ p = 4 * t + 1 => c = FloodSlot(t + 1, J)[1]
       /\ p = 4 * t + 2 => c = FloodSlot(t + 1, J)[2]
       /\ p = 4 * t + 3 => c = FloodSlot(t + 1, J)[3]
       /\ p = 4 * t + 4 => c = FloodSlot(t + 1, J)[4]
  BY <1>10
<1>12. p \in {4 * t + 1, 4 * t + 2} => \E m \in Range(Low) : c = Command("enqueue", {m})
  BY <1>7, <1>9, <1>11, Zenon
<1> QED BY <1>6, <1>7, <1>11, <1>12, Zenon DEF c, J

(* The command that is due, in a flood. *)
LEMMA FloodDue ==
  ASSUME scenario \in Floods, Place, NEW ops, Due(ops)
  PROVE  LET c == Script[scenario][at]
         IN /\ c.op \in ops /\ \A w \in Workers : pc[w] = "idle"
            /\ \/ /\ at < 4 * turn + 3
                  /\ \E m \in Range(Low) : c.op = "enqueue" /\ c.msgs = {m}
               \/ /\ at = 4 * turn + 3 /\ turn + 1 \in 1..Len(Guests)
                  /\ c.op = "maybe" /\ c.msgs = {Guests[turn + 1]}
               \/ at = 4 * turn + 4 /\ c.op = "dispatch"
<1>1. at \in DOMAIN Script[scenario] /\ turn \in Nat /\ at \in Nat
      /\ 4 * turn < at /\ at <= 4 * turn + 4
  BY DEF Due, Place
<1> DEFINE c == Script[scenario][at]
<1>2. /\ turn + 1 \in 1..Len(Guests)
      /\ at \in {4 * turn + 1, 4 * turn + 2} => \E m \in Range(Low) : c = Command("enqueue", {m})
      /\ at = 4 * turn + 3 => c = Command("maybe", {Guests[turn + 1]})
      /\ at = 4 * turn + 4 => c = Command("dispatch", {})
  BY <1>1, FloodCommand
<1>3. c.op \in ops /\ \A w \in Workers : pc[w] = "idle" BY DEF Due
<1> HIDE DEF c
<1>4. \A op, msgs : Command(op, msgs).op = op /\ Command(op, msgs).msgs = msgs BY DEF Command
<1>5. at < 4 * turn + 3 \/ at = 4 * turn + 3 \/ at = 4 * turn + 4 BY <1>1
<1>6. at < 4 * turn + 3 => at \in {4 * turn + 1, 4 * turn + 2} BY <1>1
<1>7. CASE at < 4 * turn + 3
  <2>1. PICK m \in Range(Low) : c = Command("enqueue", {m}) BY <1>2, <1>6, <1>7, Zenon
  <2>2. c.op = "enqueue" /\ c.msgs = {m} BY <1>4, <2>1
  <2> QED BY <1>3, <1>7, <2>2, Zenon DEF c
<1>8. CASE at = 4 * turn + 3
  <2>1. c.op = "maybe" /\ c.msgs = {Guests[turn + 1]} BY <1>2, <1>4, <1>8
  <2> QED BY <1>2, <1>3, <1>8, <2>1, Zenon DEF c
<1>9. CASE at = 4 * turn + 4
  <2>1. c.op = "dispatch" BY <1>2, <1>4, <1>9
  <2> QED BY <1>3, <1>9, <2>1, Zenon DEF c
<1> QED BY <1>5, <1>7, <1>8, <1>9, Zenon

(* A set of at most one element as a sequence. *)
LEMMA SetToSeqSmall ==
  /\ SetToSeq({}) = <<>>
  /\ \A a : SetToSeq({a}) = <<a>>
<1>1. SetToSeq({}) = <<>>
  <2>1. Cardinality({}) = 0 BY FS_EmptySet
  <2>2. SetToSeq({}) = CHOOSE f \in [1..0 -> {}] : IsInjective(f) BY <2>1 DEF SetToSeq
  <2>3. <<>> \in [1..0 -> {}] /\ IsInjective(<<>>) BY DEF IsInjective
  <2>4. \A f \in [1..0 -> {}] : f = <<>> OBVIOUS
  <2> QED BY <2>2, <2>3, <2>4
<1>2. ASSUME NEW a PROVE SetToSeq({a}) = <<a>>
  <2>1. Cardinality({a}) = 1 BY FS_Singleton
  <2>2. SetToSeq({a}) = CHOOSE f \in [1..1 -> {a}] : IsInjective(f) BY <2>1 DEF SetToSeq
  <2>3. <<a>> \in [1..1 -> {a}] /\ IsInjective(<<a>>) BY DEF IsInjective
  <2>4. \A f \in [1..1 -> {a}] : f = <<a>> OBVIOUS
  <2> QED BY <2>2, <2>3, <2>4
<1> QED BY <1>1, <1>2

(* With one NPG, what is queued is queued there. *)
LEMMA AllQueuedAt ==
  ASSUME QueueInv, NEW n \in Npgs
  PROVE  Queued(n) = {m \in Messages : status[m] = "queued"}
<1>1. QueueOK(n) BY DEF QueueInv
<1>2. Queued(n) = {m \in Messages : Npg(m) = n /\ status[m] = "queued"}
  BY <1>1, QueuedMsgs, Zenon DEF QueueOK
<1>3. \A m \in Messages : Npg(m) = n
  <2>1. PICK k \in Npgs : Npgs = {k} BY ScenariosAssumption, Zenon
  <2>2. \A m \in Messages : Npg(m) \in Npgs BY MessagesAssumption, Zenon
  <2> QED BY <2>1, <2>2
<1> QED BY <1>2, <1>3, Zenon

(* A purge takes messages from the queue and does nothing else to them. *)
LEMMA PurgeOnlyTakes ==
  ASSUME QueueInv, NEW n \in Npgs, NEW t, Purge(n, t)
  PROVE  \A m \in Messages : status'[m] = status[m]
                             \/ (status[m] = "queued" /\ status'[m] = "purged")
<1>1. Queued(n) = {m \in Messages : status[m] = "queued"} BY AllQueuedAt
<1>2. status' = [m \in Messages |->
                  IF m \in Queued(n) /\ m \notin {queues'[n][i].msg : i \in DOMAIN queues'[n]}
                  THEN "purged" ELSE status[m]]
  BY Zenon DEF Purge
<1> QED BY <1>1, <1>2

(* A dispatch sends nothing when nothing is queued, and otherwise a message *)
(* that every other one queued is behind.                                   *)
LEMMA DequeueSends ==
  ASSUME QueueInv, NEW w \in Workers, Dequeue(w)
  PROVE  LET sent == {m \in Messages : status[m] # status'[m]}
         IN \/ /\ SetToSeq(sent) = <<>> /\ status' = status
               /\ \A m \in Messages : status[m] # "queued"
            \/ \E a \in Messages :
                 /\ SetToSeq(sent) = <<a>> /\ status[a] = "queued"
                 /\ status' = [status EXCEPT ![a] = "sent"]
                 /\ \A x \in Messages : status[x] = "queued" /\ x # a => Outranks(a, x)
<1> DEFINE sent == {m \in Messages : status[m] # status'[m]}
<1>0. slot[w] \in Npgs BY DEF Dequeue, QueueInv, WorkerOK
<1> DEFINE n == slot[w]
<1>1. QueueOK(n) BY <1>0 DEF QueueInv
<1>2. Queued(n) = {m \in Messages : status[m] = "queued"} /\ Queued(n) = Msgs(queues[n])
  <2>1. queues[n] \in Seq(Entries) BY <1>1, Zenon DEF QueueOK
  <2> QED BY <1>0, <2>1, AllQueuedAt, QueuedMsgs, Zenon
<1>3. CASE queues[n] = <<>>
  <2>1. Msgs(queues[n]) = {} BY <1>3 DEF Msgs
  <2>2. status' = status BY <1>3 DEF Dequeue
  <2>3. sent = {} BY <2>2
  <2> HIDE DEF sent
  <2> QED BY <1>2, <2>1, <2>2, <2>3, SetToSeqSmall DEF sent
<1>4. CASE queues[n] # <<>>
  <2>1. PICK b, a : /\ b = Best(queues[n]) /\ a = queues[n][b].msg
                    /\ First(queues[n], Len(queues[n]), b)
                    /\ a \in Messages /\ status' = [status EXCEPT ![a] = "sent"]
    BY <1>4, DequeueEffect
  <2>2. a \in Msgs(queues[n])
    <3>1. b \in 1..Len(queues[n]) BY <2>1 DEF First
    <3> QED BY <2>1, <3>1 DEF Msgs
  <2>3. status[a] = "queued" BY <1>2, <2>2
  <2>4. \A x \in Messages : status[x] = "queued" /\ x # a => Outranks(a, x)
    <3> SUFFICES ASSUME NEW x \in Messages, status[x] = "queued", x # a PROVE Outranks(a, x)
      OBVIOUS
    <3>1. x \in Msgs(queues[n]) BY <1>2
    <3> HIDE DEF n
    <3> QED BY <1>0, <1>1, <2>1, <3>1, FirstOutranks DEF n
  <2>5. sent = {a}
    <3>1. status \in [Messages -> {"out", "queued", "sent", "purged"}] BY DEF QueueInv, TypesOK
    <3> QED BY <2>1, <2>3, <3>1
  <2>6. SetToSeq(sent) = <<a>>
    <3> HIDE DEF sent
    <3> QED BY <2>5, SetToSeqSmall, Zenon
  <2> QED BY <2>1, <2>3, <2>4, <2>6
<1> QED BY <1>3, <1>4

(* The flood's messages. *)
LEMMA FloodMessages ==
  /\ Range(Low) \subseteq Messages /\ Range(High) \subseteq Messages
  /\ Range(Flat) \subseteq Messages /\ Range(Guests) \subseteq Messages
  /\ \A m \in Range(Low) \union Range(Flat) : ~Terminal(m) /\ Priority(m) = 1
  /\ \A m \in Range(High) : ~Terminal(m) /\ Priority(m) = 4
  /\ Range(Low) \intersect Range(High) = {}
  /\ \A i \in 1..Len(Guests) : Guests[i] \in Range(Guests)
<1>1. /\ Low \in Seq(Messages) /\ High \in Seq(Messages) /\ Flat \in Seq(Messages)
      /\ Guests \in Seq(Messages)
  BY ScenariosAssumption DEF Guests
<1>2. ASSUME NEW s \in Seq(Messages) PROVE Range(s) \subseteq Messages
  BY DEF Range
<1>3. /\ \A m \in Range(Low) \union Range(Flat) : ~Terminal(m) /\ Priority(m) = 1
      /\ \A m \in Range(High) : ~Terminal(m) /\ Priority(m) = 4
  BY ScenariosAssumption, Zenon
<1>4. Range(Low) \intersect Range(High) = {}
  <2>1. 1 # 4 OBVIOUS
  <2>2. ASSUME NEW m \in Range(Low), m \in Range(High) PROVE FALSE
    <3>1. Priority(m) = 1 /\ Priority(m) = 4 BY <1>3, <2>2, Zenon
    <3> QED BY <2>1, <3>1, Zenon
  <2> QED BY <2>2, Zenon
<1>5. \A i \in 1..Len(Guests) : Guests[i] \in Range(Guests)
  <2>1. DOMAIN Guests = 1..Len(Guests) BY <1>1, LenProperties, Zenon
  <2> QED BY <2>1, Zenon DEF Range
<1>6. /\ Range(Low) \subseteq Messages /\ Range(High) \subseteq Messages
      /\ Range(Flat) \subseteq Messages /\ Range(Guests) \subseteq Messages
  BY <1>1, <1>2, Zenon
<1> QED BY <1>3, <1>4, <1>5, <1>6

(* An enqueue of a message that was out. *)
LEMMA EnqueueEffect ==
  ASSUME QueueInv, NEW m \in Messages, Enqueue(m)
  PROVE  /\ status[m] = "out" /\ status' = [status EXCEPT ![m] = "queued"]
         /\ \A x \in Messages : status'[x] = IF x = m THEN "queued" ELSE status[x]
         /\ pc' = pc
         /\ \A a \in Messages : a # m => older'[a] = older[a] \ {m}
         /\ \A x \in older'[m] : x \in Messages /\ status[x] = "queued"
<1>1. status[m] = "out" BY ScenariosAssumption DEF Enqueue
<1>2. status' = [status EXCEPT ![m] = "queued"] /\ pc' = pc BY DEF Enqueue, workerVars
<1>3. status \in [Messages -> {"out", "queued", "sent", "purged"}] BY DEF QueueInv, TypesOK
<1>4. older' = [x \in Messages |-> IF x = m THEN Queued(Npg(m)) ELSE older[x] \ {m}]
  BY Zenon DEF Enqueue
<1>5. older'[m] = Queued(Npg(m)) /\ \A a \in Messages : a # m => older'[a] = older[a] \ {m}
  BY <1>4
<1>6. Queued(Npg(m)) = {x \in Messages : status[x] = "queued"}
  <2>1. Npg(m) \in Npgs BY MessagesAssumption, Zenon
  <2> QED BY <2>1, AllQueuedAt, Zenon
<1>7. \A x \in Messages : status'[x] = IF x = m THEN "queued" ELSE status[x]
  BY <1>2, <1>3
<1> QED BY <1>1, <1>2, <1>5, <1>6, <1>7

(* The commands before the dispatch keep the floods' invariant. *)
LEMMA FloodEnqueues ==
  ASSUME QueueInv, FloodInv, scenario \in Floods, scenario' = scenario, EnqueueDue
  PROVE  FloodInv'
<1>1. Place /\ OwnQueued /\ GuestNext /\ OldestSent BY DEF FloodInv
<1>2. Due({"enqueue", "maybe"}) BY DEF EnqueueDue
<1> DEFINE c == Script[scenario][at]
<1>3. /\ c.op \in {"enqueue", "maybe"} /\ \A w \in Workers : pc[w] = "idle"
      /\ \/ at < 4 * turn + 3 /\ \E m \in Range(Low) : c.op = "enqueue" /\ c.msgs = {m}
         \/ /\ at = 4 * turn + 3 /\ turn + 1 \in 1..Len(Guests)
            /\ c.op = "maybe" /\ c.msgs = {Guests[turn + 1]}
         \/ at = 4 * turn + 4 /\ c.op = "dispatch"
  BY <1>1, <1>2, FloodDue
<1>4. PICK m : /\ m \in c.msgs /\ Enqueue(m) /\ slotOf' = [slotOf EXCEPT ![m] = turn]
               /\ at' = at + 1 /\ turn' = turn /\ order' = order
  BY DEF EnqueueDue
<1> HIDE DEF c
<1>5. \/ at < 4 * turn + 3 /\ m \in Range(Low)
      \/ at = 4 * turn + 3 /\ turn + 1 \in 1..Len(Guests) /\ m = Guests[turn + 1]
  <2>1. ~(at = 4 * turn + 4 /\ c.op = "dispatch") BY <1>3
  <2> QED BY <1>3, <1>4, <2>1
<1>6. m \in Range(Low) \union Range(Guests) /\ m \in Messages
  BY <1>5, FloodMessages
<1>7. /\ status[m] = "out"
      /\ \A x \in Messages : status'[x] = IF x = m THEN "queued" ELSE status[x]
      /\ pc' = pc
      /\ \A a \in Messages : a # m => older'[a] = older[a] \ {m}
      /\ \A x \in older'[m] : x \in Messages /\ status[x] = "queued"
  BY <1>4, <1>6, EnqueueEffect
<1>8. Guests' = Guests BY Zenon DEF Guests
<1>9. Place'
  <2>1. turn \in Nat /\ at \in Nat /\ 4 * turn < at /\ at <= 4 * turn + 3
    BY <1>1, <1>5 DEF Place
  <2>2. turn' \in Nat /\ at' \in Nat /\ 4 * turn' < at' /\ at' <= 4 * turn' + 4
    BY <1>4, <2>1
  <2>3. \A w \in Workers : pc'[w] = "idle" BY <1>3, <1>7
  <2> QED BY <2>2, <2>3 DEF Place
<1>10. OwnQueued'
  <2> SUFFICES ASSUME NEW x \in Messages, status'[x] = "queued"
               PROVE  x \in Range(Low) \union Range(Guests)
    BY <1>8, Zenon DEF OwnQueued
  <2> QED BY <1>1, <1>6, <1>7, Zenon DEF OwnQueued
<1>11. GuestNext'
  <2>1. slotOf' = [x \in Messages |-> slotOf'[x]] /\ slotOf'[m] = turn
    <3>1. slotOf = [x \in Messages |-> slotOf[x]] BY <1>1 DEF GuestNext
    <3> QED BY <1>4, <1>6, <3>1
  <2>2. ASSUME scenario = "flood_on", NEW x \in Range(High), status'[x] = "queued"
        PROVE  slotOf'[x] = turn' /\ at' = 4 * turn' + 4 /\ x = High[turn' + 1]
    <3>1. x \in Messages BY FloodMessages
    <3>2. at # 4 * turn + 4 /\ turn \in Nat /\ at \in Nat BY <1>1, <1>5 DEF Place
    <3>3. status[x] # "queued" BY <1>1, <2>2, <3>2 DEF GuestNext
    <3>4. x = m BY <1>7, <2>2, <3>1, <3>3, Zenon
    <3>5. m \notin Range(Low) BY <2>2, <3>4, FloodMessages
    <3>6. at = 4 * turn + 3 /\ m = Guests[turn + 1] BY <1>5, <3>5, Zenon
    <3>7. Guests = High BY <2>2 DEF Guests
    <3>8. at' = 4 * turn + 4 BY <1>4, <3>2, <3>6
    <3> QED BY <1>4, <2>1, <3>4, <3>6, <3>7, <3>8, Zenon
  <2> QED BY <2>1, <2>2, Zenon DEF GuestNext
<1>12. OldestSent'
  <2>1. order' \in Seq(Messages) /\ order' = order BY <1>1, <1>4 DEF OldestSent
  <2>2. ASSUME NEW a \in Messages, NEW x \in older'[a] PROVE status'[x] # "out"
    <3>1. older \in [Messages -> SUBSET Messages] BY DEF QueueInv, TypesOK
    <3>2. CASE a = m BY <3>2, <2>2, <1>7
    <3>3. CASE a # m
      <4>1. x \in older[a] /\ x # m /\ x \in Messages BY <3>1, <3>3, <2>2, <1>7
      <4>2. status[x] # "out" BY <4>1, <1>1, Zenon DEF OldestSent
      <4> QED BY <4>1, <4>2, <1>7, Zenon
    <3> QED BY <3>2, <3>3
  <2>3. ASSUME scenario = "flood_off", NEW i \in 1..Len(order)
        PROVE  /\ status'[order[i]] = "sent"
               /\ \A x \in older'[order[i]] : status'[x] \in {"sent", "purged"}
               /\ \A j \in 1..Len(order) : i < j => order[j] \notin older'[order[i]]
    <3>1. /\ status[order[i]] = "sent"
          /\ \A x \in older[order[i]] : status[x] \in {"sent", "purged"}
          /\ \A j \in 1..Len(order) : i < j => order[j] \notin older[order[i]]
      BY <1>1, <2>3 DEF OldestSent
    <3>2. order[i] \in Messages /\ order[i] # m BY <2>1, <3>1, <1>7, ElementOfSeq
    <3>3. older'[order[i]] = older[order[i]] \ {m} BY <3>2, <1>7
    <3>4. status'[order[i]] = "sent" BY <3>1, <3>2, <1>7
    <3>5. ASSUME NEW x \in older'[order[i]] PROVE status'[x] \in {"sent", "purged"}
      <4>1. older \in [Messages -> SUBSET Messages] BY DEF QueueInv, TypesOK
      <4>2. x \in older[order[i]] /\ x # m /\ x \in Messages BY <3>2, <3>3, <4>1, <3>5
      <4>3. status'[x] = status[x] BY <4>2, <1>7, Zenon
      <4> QED BY <4>2, <4>3, <3>1, Zenon
    <3> QED BY <3>1, <3>3, <3>4, <3>5
  <2> QED BY <2>1, <2>2, <2>3, Zenon DEF OldestSent
<1> QED BY <1>9, <1>10, <1>11, <1>12 DEF FloodInv

(* Steps that leave the messages' statuses, the position in the script and  *)
(* the history alone.                                                       *)
LEMMA FloodHolds ==
  ASSUME FloodInv, scenario \in Floods, scenario' = scenario,
         UNCHANGED <<at, turn, slotOf, order>>, UNCHANGED <<status, older>>, Place'
  PROVE  FloodInv'
<1>1. Place /\ OwnQueued /\ GuestNext /\ OldestSent BY DEF FloodInv
<1>2. Guests' = Guests BY Zenon DEF Guests
<1>3. OwnQueued' BY <1>1, <1>2, Zenon DEF OwnQueued
<1>4. GuestNext' BY <1>1 DEF GuestNext
<1>5. OldestSent' BY <1>1 DEF OldestSent
<1> QED BY <1>3, <1>4, <1>5 DEF FloodInv

(* No J13.3 came this slot. *)
LEMMA FloodSkips ==
  ASSUME FloodInv, scenario \in Floods, scenario' = scenario, SkipMaybe
  PROVE  FloodInv'
<1>1. Place /\ OwnQueued /\ GuestNext /\ OldestSent BY DEF FloodInv
<1>2. Due({"maybe"}) BY DEF SkipMaybe
<1>3. /\ at' = at + 1 /\ turn' = turn /\ slotOf' = slotOf /\ order' = order
      /\ status' = status /\ older' = older /\ pc' = pc
  BY DEF SkipMaybe, vars, workerVars
<1>4. at = 4 * turn + 3 /\ \A w \in Workers : pc[w] = "idle"
  BY <1>1, <1>2, FloodDue
<1>5. Guests' = Guests BY Zenon DEF Guests
<1>6. turn \in Nat /\ at \in Nat BY <1>1 DEF Place
<1>7. Place'
  <2>1. turn' \in Nat /\ at' \in Nat /\ 4 * turn' < at' /\ at' <= 4 * turn' + 4
    BY <1>3, <1>4, <1>6
  <2>2. \A w \in Workers : pc'[w] = "idle" BY <1>3, <1>4
  <2> QED BY <2>1, <2>2 DEF Place
<1>8. OwnQueued' BY <1>1, <1>3, <1>5, Zenon DEF OwnQueued
<1>9. GuestNext'
  <2>1. \A m \in Range(High) : scenario = "flood_on" => status[m] # "queued"
    BY <1>1, <1>4, <1>6 DEF GuestNext
  <2> QED BY <1>1, <1>3, <2>1 DEF GuestNext
<1>10. OldestSent' BY <1>1, <1>3 DEF OldestSent
<1> QED BY <1>7, <1>8, <1>9, <1>10 DEF FloodInv

(* The dispatch begins, *)
LEMMA FloodDispatches ==
  ASSUME QueueInv, FloodInv, scenario \in Floods, scenario' = scenario,
         NEW w \in Workers, NEW n \in Npgs, DispatchDue(w, n)
  PROVE  FloodInv'
<1>1. Place BY DEF FloodInv
<1>2. Due({"dispatch", "drain"}) BY DEF DispatchDue
<1>3. /\ pc' = [pc EXCEPT ![w] = "purge"] /\ UNCHANGED <<at, turn, slotOf, order>>
      /\ UNCHANGED <<status, older>>
  BY DEF DispatchDue, StartDispatch, scriptVars
<1>4. at = 4 * turn + 4 /\ at \in DOMAIN Script[scenario] /\ \A v \in Workers : pc[v] = "idle"
  <2>1. at = 4 * turn + 4 /\ \A v \in Workers : pc[v] = "idle" BY <1>1, <1>2, FloodDue
  <2> QED BY <2>1, <1>2 DEF Due
<1>5. \A v \in Workers : pc'[v] = IF v = w THEN "purge" ELSE "idle"
  BY <1>3, <1>4 DEF QueueInv, TypesOK
<1>6. Place'
  <2>1. turn' \in Nat /\ at' \in Nat /\ 4 * turn' < at' /\ at' <= 4 * turn' + 4
    BY <1>1, <1>3 DEF Place
  <2>2. at' = 4 * turn' + 4 /\ at' \in DOMAIN Script[scenario'] BY <1>3, <1>4
  <2>3. \A v \in Workers : pc'[v] \in {"idle", "purge", "dequeue"} BY <1>5
  <2>4. \A v \in Workers : pc'[v] # "idle" => v = w BY <1>5
  <2> QED BY <2>1, <2>2, <2>3, <2>4, Zenon DEF Place
<1> QED BY <1>3, <1>6, FloodHolds

(* purges, *)
LEMMA FloodPurges ==
  ASSUME QueueInv, FloodInv, scenario \in Floods, scenario' = scenario,
         NEW w \in Workers, DispatchPurges(w)
  PROVE  FloodInv'
<1>1. Place /\ OwnQueued /\ GuestNext /\ OldestSent BY DEF FloodInv
<1>2. /\ pc[w] = "purge" /\ pc' = [pc EXCEPT ![w] = "dequeue"] /\ Purge(slot[w], stamp[w])
      /\ UNCHANGED <<at, turn, slotOf, order>> /\ older' = older
  BY DEF DispatchPurges, PurgeFirst, scriptVars
<1>3. slot[w] \in Npgs BY <1>2 DEF QueueInv, WorkerOK
<1>4. \A m \in Messages : status'[m] = status[m]
                          \/ (status[m] = "queued" /\ status'[m] = "purged")
  BY <1>2, <1>3, PurgeOnlyTakes
<1>5. Guests' = Guests BY Zenon DEF Guests
<1>6. Place'
  <2>1. \A v \in Workers : pc'[v] = IF v = w THEN "dequeue" ELSE pc[v]
    BY <1>2 DEF QueueInv, TypesOK
  <2>2. pc[w] # "idle" BY <1>2
  <2>3. \A v \in Workers : pc'[v] \in {"idle", "purge", "dequeue"} BY <1>1, <2>1 DEF Place
  <2>4. \A v \in Workers : pc'[v] # "idle" => pc[v] # "idle" BY <2>1, <2>2, Zenon
  <2>5. turn' = turn /\ at' = at BY <1>2
  <2> QED BY <1>1, <2>3, <2>4, <2>5, Zenon DEF Place
<1>7. \A m \in Messages : status'[m] = "queued" => status[m] = "queued" BY <1>4
<1>8. OwnQueued' BY <1>1, <1>5, <1>7, Zenon DEF OwnQueued
<1>9. GuestNext'
  <2>1. \A m \in Range(High) : status'[m] = "queued" => status[m] = "queued"
    BY <1>7, FloodMessages
  <2>2. UNCHANGED <<at, turn, slotOf, scenario>> BY <1>2
  <2> QED BY <1>1, <2>1, <2>2 DEF GuestNext
<1>10. OldestSent'
  <2>1. order' \in Seq(Messages) /\ order' = order BY <1>1, <1>2 DEF OldestSent
  <2>2. older \in [Messages -> SUBSET Messages] BY DEF QueueInv, TypesOK
  <2>3. ASSUME NEW a \in Messages, NEW x \in older'[a] PROVE status'[x] # "out"
    <3>1. x \in older[a] /\ x \in Messages BY <1>2, <2>2, <2>3
    <3>2. status[x] # "out" BY <1>1, <3>1, Zenon DEF OldestSent
    <3> QED BY <1>4, <3>1, <3>2
  <2>4. ASSUME scenario = "flood_off", NEW i \in 1..Len(order)
        PROVE  /\ status'[order[i]] = "sent"
               /\ \A x \in older'[order[i]] : status'[x] \in {"sent", "purged"}
               /\ \A j \in 1..Len(order) : i < j => order[j] \notin older'[order[i]]
    <3>1. /\ status[order[i]] = "sent"
          /\ \A x \in older[order[i]] : status[x] \in {"sent", "purged"}
          /\ \A j \in 1..Len(order) : i < j => order[j] \notin older[order[i]]
      BY <1>1, <2>4 DEF OldestSent
    <3>2. order[i] \in Messages BY <2>1, ElementOfSeq
    <3>3. status'[order[i]] = "sent" BY <1>4, <3>1, <3>2
    <3>4. ASSUME NEW x \in older[order[i]] PROVE status'[x] \in {"sent", "purged"}
      <4>1. x \in Messages BY <2>2, <3>2, <3>4
      <4> QED BY <1>4, <3>1, <3>4, <4>1
    <3> QED BY <1>2, <3>1, <3>3, <3>4, Zenon
  <2> QED BY <2>1, <2>3, <2>4, Zenon DEF OldestSent
<1> QED BY <1>6, <1>8, <1>9, <1>10 DEF FloodInv

(* and sends: the J13.3 if there is one, and without priorities a message   *)
(* that came before all the others.                                         *)
LEMMA FloodReturns ==
  ASSUME QueueInv, FloodInv, scenario \in Floods, scenario' = scenario,
         NEW w \in Workers, DispatchReturns(w)
  PROVE  FloodInv'
<1>1. Place /\ OwnQueued /\ GuestNext /\ OldestSent BY DEF FloodInv
<1> DEFINE sent == {m \in Messages : status[m] # status'[m]}
<1>2. /\ Dequeue(w) /\ pc[w] = "dequeue" /\ pc' = [pc EXCEPT ![w] = "idle"]
      /\ older' = older /\ slotOf' = slotOf /\ turn' = turn + 1
      /\ order' = order \o SetToSeq(sent)
      /\ at' = IF Script[scenario][at].op = "drain" /\ sent # {} THEN at ELSE at + 1
  BY DEF DispatchReturns, Dequeue, Done
<1>3. \/ SetToSeq(sent) = <<>> /\ status' = status /\ \A m \in Messages : status[m] # "queued"
      \/ \E a \in Messages :
           /\ SetToSeq(sent) = <<a>> /\ status[a] = "queued"
           /\ status' = [status EXCEPT ![a] = "sent"]
           /\ \A x \in Messages : status[x] = "queued" /\ x # a => Outranks(a, x)
  BY <1>2, DequeueSends
<1>4. /\ turn \in Nat /\ at \in Nat /\ at = 4 * turn + 4 /\ at \in DOMAIN Script[scenario]
  BY <1>1, <1>2 DEF Place
<1>5. Script[scenario][at].op # "drain"
  <2>1. 4 * turn < at /\ at <= 4 * turn + 4 BY <1>4
  <2>2. at = 4 * turn + 4 => Script[scenario][at] = Command("dispatch", {})
    BY <1>4, <2>1, FloodCommand, Zenon
  <2>3. Script[scenario][at].op = "dispatch" BY <1>4, <2>2 DEF Command
  <2> QED BY <2>3
<1>6. at' = 4 * turn + 5 BY <1>2, <1>4, <1>5
<1> HIDE DEF sent
<1>7. Guests' = Guests BY Zenon DEF Guests
<1>8. /\ status \in [Messages -> {"out", "queued", "sent", "purged"}]
      /\ older \in [Messages -> SUBSET Messages] /\ pc = [v \in Workers |-> pc[v]]
  BY DEF QueueInv, TypesOK
<1>9. \A m \in Messages : status'[m] = status[m]
                          \/ (status[m] = "queued" /\ status'[m] = "sent")
  BY <1>3, <1>8
<1>10. Place'
  <2>1. turn' \in Nat /\ at' \in Nat /\ 4 * turn' < at' /\ at' <= 4 * turn' + 4
    BY <1>2, <1>4, <1>6
  <2>2. \A v \in Workers : pc'[v] = "idle"
    <3> SUFFICES ASSUME NEW v \in Workers PROVE pc'[v] = "idle" OBVIOUS
    <3>1. CASE v = w BY <3>1, <1>2, <1>8
    <3>2. CASE v # w
      <4>1. pc[v] = "idle"
        <5>1. pc[w] # "idle" BY <1>2
        <5> QED BY <5>1, <3>2, <1>1, Zenon DEF Place
      <4> QED BY <4>1, <3>2, <1>2, <1>8
    <3> QED BY <3>1, <3>2
  <2> QED BY <2>1, <2>2 DEF Place
<1>11. \A m \in Messages : status'[m] = "queued" => status[m] = "queued" BY <1>9
<1>12. OwnQueued' BY <1>1, <1>7, <1>11, Zenon DEF OwnQueued
<1>13. GuestNext'
  <2>1. ASSUME scenario = "flood_on", NEW x \in Range(High), status'[x] = "queued"
        PROVE  FALSE
    <3>1. x \in Messages /\ ~Terminal(x) /\ Priority(x) = 4 BY FloodMessages
    <3>2. status[x] = "queued" BY <3>1, <2>1, <1>11
    <3>3. PICK a \in Messages :
            /\ status[a] = "queued" /\ status' = [status EXCEPT ![a] = "sent"]
            /\ \A y \in Messages : status[y] = "queued" /\ y # a => Outranks(a, y)
      BY <1>3, <3>1, <3>2, Zenon
    <3>4. a # x BY <3>1, <3>3, <2>1, <1>8
    <3>5. Outranks(a, x) BY <3>1, <3>2, <3>3, <3>4, Zenon
    <3>6. a \in Range(Low) \union Range(High)
      <4>1. Guests = High BY <2>1 DEF Guests
      <4> QED BY <4>1, <3>3, <1>1, Zenon DEF OwnQueued
    <3>7. CASE a \in Range(Low)
      <4>1. ~Terminal(a) /\ Priority(a) = 1 BY <3>7, FloodMessages
      <4> QED BY <4>1, <3>1, <3>5 DEF Outranks
    <3>8. CASE a \in Range(High)
      <4>1. a = High[turn + 1] /\ x = High[turn + 1]
        BY <1>1, <2>1, <3>2, <3>3, <3>8, Zenon DEF GuestNext
      <4> QED BY <4>1, <3>4, Zenon
    <3> QED BY <3>6, <3>7, <3>8
  <2>2. slotOf' = [m \in Messages |-> slotOf'[m]]
    <3>1. slotOf = [m \in Messages |-> slotOf[m]] BY <1>1 DEF GuestNext
    <3> QED BY <3>1, <1>2
  <2> QED BY <2>1, <2>2 DEF GuestNext
<1>14. OldestSent'
  <2>1. order \in Seq(Messages) BY <1>1 DEF OldestSent
  <2>2. ASSUME NEW b \in Messages, NEW x \in older'[b] PROVE status'[x] # "out"
    <3>1. x \in older[b] /\ x \in Messages BY <1>2, <1>8, <2>2
    <3>2. status[x] # "out" BY <1>1, <3>1, Zenon DEF OldestSent
    <3> QED BY <1>9, <3>1, <3>2
  <2>3. CASE SetToSeq(sent) = <<>> /\ status' = status
    <3>1. order' = order BY <1>2, <2>1, <2>3
    <3> QED BY <1>1, <1>2, <2>3, <3>1 DEF OldestSent
  <2>4. CASE \E a \in Messages :
               /\ SetToSeq(sent) = <<a>> /\ status[a] = "queued"
               /\ status' = [status EXCEPT ![a] = "sent"]
               /\ \A x \in Messages : status[x] = "queued" /\ x # a => Outranks(a, x)
    <3>1. PICK a \in Messages :
            /\ SetToSeq(sent) = <<a>> /\ status[a] = "queued"
            /\ status' = [status EXCEPT ![a] = "sent"]
            /\ \A x \in Messages : status[x] = "queued" /\ x # a => Outranks(a, x)
      BY <2>4
    <3>2. order' = Append(order, a) BY <1>2, <2>1, <3>1
    <3>3. /\ order' \in Seq(Messages) /\ Len(order) \in Nat /\ Len(order') = Len(order) + 1
          /\ \A i \in 1..Len(order) : order'[i] = order[i]
          /\ order'[Len(order) + 1] = a
      BY <2>1, <3>2
    <3>4. status'[a] = "sent" BY <1>8, <3>1
    <3>5. ASSUME scenario = "flood_off"
          PROVE  \A x \in older[a] : status'[x] \in {"sent", "purged"}
      <4> SUFFICES ASSUME NEW x \in older[a] PROVE status'[x] \in {"sent", "purged"}
        OBVIOUS
      <4>1. x \in Messages /\ status[x] # "out"
        <5>1. x \in Messages BY <1>8
        <5> QED BY <5>1, <1>1, Zenon DEF OldestSent
      <4>2. CASE status[x] = "queued" /\ x # a
        <5>1. Outranks(a, x) BY <3>1, <4>1, <4>2, Zenon
        <5>2. Guests = Flat BY <3>5 DEF Guests
        <5>3. a \in Range(Low) \union Range(Flat) /\ x \in Range(Low) \union Range(Flat)
          BY <1>1, <3>1, <4>1, <4>2, <5>2, Zenon DEF OwnQueued
        <5>4. ~Terminal(a) /\ ~Terminal(x) /\ Priority(a) = 1 /\ Priority(x) = 1
          BY <5>3, FloodMessages, Zenon
        <5> QED BY <5>1, <5>4 DEF Outranks
      <4>3. CASE x = a BY <3>4, <4>3
      <4>4. CASE status[x] # "queued" BY <4>1, <4>4, <1>8, <1>9
      <4> QED BY <4>2, <4>3, <4>4
    <3>6. ASSUME scenario = "flood_off", NEW i \in 1..Len(order')
          PROVE  /\ status'[order'[i]] = "sent"
                 /\ \A x \in older'[order'[i]] : status'[x] \in {"sent", "purged"}
                 /\ \A j \in 1..Len(order') : i < j => order'[j] \notin older'[order'[i]]
      <4>1. CASE i = Len(order) + 1
        <5>1. order'[i] = a BY <3>3, <4>1
        <5>2. \A j \in 1..Len(order') : ~(i < j) BY <3>3, <4>1
        <5> QED BY <1>2, <3>4, <3>5, <3>6, <5>1, <5>2, Zenon
      <4>2. CASE i \in 1..Len(order)
        <5>1. order'[i] = order[i] /\ order[i] \in Messages BY <2>1, <3>3, <4>2, ElementOfSeq
        <5>2. /\ status[order[i]] = "sent"
              /\ \A x \in older[order[i]] : status[x] \in {"sent", "purged"}
              /\ \A j \in 1..Len(order) : i < j => order[j] \notin older[order[i]]
          BY <1>1, <3>6, <4>2 DEF OldestSent
        <5>3. status'[order[i]] = "sent" BY <5>1, <5>2, <1>9
        <5>4. \A x \in older[order[i]] : status'[x] \in {"sent", "purged"}
          <6> SUFFICES ASSUME NEW x \in older[order[i]] PROVE status'[x] \in {"sent", "purged"}
            OBVIOUS
          <6>1. x \in Messages BY <5>1, <1>8
          <6> QED BY <6>1, <5>2, <1>9
        <5>5. a \notin older[order[i]] BY <5>2, <3>1
        <5>6. ASSUME NEW j \in 1..Len(order'), i < j
              PROVE  order'[j] \notin older[order[i]]
          <6>1. CASE j = Len(order) + 1 BY <6>1, <5>5, <3>3
          <6>2. CASE j \in 1..Len(order) BY <6>2, <5>2, <5>6, <3>3
          <6> QED BY <6>1, <6>2, <3>3
        <5> QED BY <1>2, <5>1, <5>3, <5>4, <5>6, Zenon
      <4> QED BY <3>3, <4>1, <4>2
    <3> QED BY <2>2, <3>3, <3>6, Zenon DEF OldestSent
  <2> QED BY <1>3, <2>3, <2>4
<1> QED BY <1>10, <1>12, <1>13, <1>14 DEF FloodInv

LEMMA FloodInit ==
  ASSUME ScenarioInit
  PROVE  FloodInv
<1>1. /\ at = 1 /\ turn = 0 /\ order = <<>> /\ slotOf = [m \in Messages |-> 0]
      /\ pc = [w \in Workers |-> "idle"] /\ status = [m \in Messages |-> "out"]
      /\ older = [m \in Messages |-> {}]
  BY DEF ScenarioInit, Init
<1>2. Place BY <1>1 DEF Place
<1>3. OwnQueued BY <1>1 DEF OwnQueued
<1>4. GuestNext
  <2>1. \A m \in Range(High) : status[m] # "queued"
    <3>1. Range(High) \subseteq Messages BY FloodMessages
    <3> QED BY <1>1, <3>1
  <2> QED BY <1>1, <2>1 DEF GuestNext
<1>5. OldestSent BY <1>1 DEF OldestSent
<1> QED BY <1>2, <1>3, <1>4, <1>5 DEF FloodInv

LEMMA FloodStep ==
  ASSUME QueueInv, FloodInv, scenario \in Scenarios, [ScenarioNext]_scenarioVars
  PROVE  FloodInv'
<1>1. scenario' = scenario BY ScenarioSteps
<1> SUFFICES ASSUME scenario \in Floods PROVE FloodInv'
  BY <1>1 DEF FloodInv
<1>2. Place BY DEF FloodInv
<1>3. ASSUME UNCHANGED <<at, turn, slotOf, order>>, UNCHANGED <<pc, status, older>>
      PROVE  FloodInv'
  <2>1. Place' BY <1>1, <1>2, <1>3 DEF Place
  <2> QED BY <1>1, <1>3, <2>1, FloodHolds
<1>4. CASE EnqueueDue BY <1>1, <1>4, FloodEnqueues
<1>5. CASE SkipMaybe BY <1>1, <1>5, FloodSkips
<1>6. CASE Pass BY <1>3, <1>6 DEF Pass, Tick, workerVars, scriptVars
<1>7. CASE Ended BY <1>3, <1>7 DEF Ended, scenarioVars, scriptVars, vars, workerVars
<1>8. CASE UNCHANGED scenarioVars
  BY <1>3, <1>8 DEF scenarioVars, scriptVars, vars, workerVars
<1>9. CASE Sleep
  <2>1. Due({"sleep"}) BY <1>9 DEF Sleep
  <2> QED BY <2>1, <1>2, FloodDue
<1>10. CASE FreeStep BY <1>10 DEF FreeStep, Floods
<1>11. ASSUME NEW w \in Workers, NEW n \in Npgs, PurgeDue(w, n) PROVE FALSE
  <2>1. Due({"purge"}) BY <1>11 DEF PurgeDue
  <2> QED BY <2>1, <1>2, FloodDue
<1>12. ASSUME NEW w \in Workers, PurgeReturns(w) PROVE FALSE
  <2>1. pc[w] = "purge only" BY <1>12 DEF PurgeReturns, PurgeOnly
  <2> QED BY <2>1, <1>2 DEF Place
<1>13. ASSUME NEW w \in Workers, NEW n \in Npgs, DispatchDue(w, n) PROVE FloodInv'
  BY <1>1, <1>13, FloodDispatches
<1>14. ASSUME NEW w \in Workers, DispatchPurges(w) PROVE FloodInv'
  BY <1>1, <1>14, FloodPurges
<1>15. ASSUME NEW w \in Workers, DispatchReturns(w) PROVE FloodInv'
  BY <1>1, <1>15, FloodReturns
<1> QED BY <1>4, <1>5, <1>6, <1>7, <1>8, <1>9, <1>10, <1>11, <1>12, <1>13, <1>14, <1>15
        DEF ScenarioNext

LEMMA FloodInvImplies ==
  ASSUME FloodInv
  PROVE  FloodProtection
<1>1. CASE scenario = "flood_on" BY <1>1 DEF FloodInv, Floods, GuestNext, FloodProtection
<1>2. CASE scenario = "flood_off"
  <2>1. OldestSent BY <1>2 DEF FloodInv, Floods
  <2>2. DOMAIN order = 1..Len(order) BY <2>1, LenProperties DEF OldestSent
  <2> QED BY <1>2, <2>1, <2>2 DEF OldestSent, FloodProtection
<1> QED BY <1>1, <1>2 DEF FloodProtection

(* With priority on, a flood never makes a J13.3 wait for another slot;     *)
(* with priority off, nothing is sent ahead of what was queued before it.   *)
THEOREM FloodsProtected == ScenarioSpec => []FloodProtection
<1>1. ScenarioInit => FloodInv /\ scenario \in Scenarios
  BY FloodInit DEF ScenarioInit, Scenarios
<1>2. /\ QueueInv /\ FloodInv /\ scenario \in Scenarios /\ [ScenarioNext]_scenarioVars
      => FloodInv' /\ (scenario \in Scenarios)'
  BY FloodStep, ScenarioSteps
<1>3. FloodInv => FloodProtection BY FloodInvImplies
<1>4. Spec => []QueueInv BY QueueInvariant
<1> QED BY <1>1, <1>2, <1>3, <1>4, ScenariosRunTheQueues, PTL DEF ScenarioSpec

-----------------------------------------------------------------------------
(***************************************************************************)
(* The other programs.                                                     *)
(***************************************************************************)
(* A program is inside one node at a time, and only at a command that has   *)
(* it run that node.                                                        *)
Calm ==
  /\ at \in Nat /\ order \in Seq(Messages)
  /\ \A w \in Workers : pc[w] # "idle" =>
       /\ at \in DOMAIN Script[scenario]
       /\ Script[scenario][at].op \in IF pc[w] = "purge only" THEN {"purge"}
                                                              ELSE {"dispatch", "drain"}
  /\ \A v, w \in Workers : pc[v] # "idle" /\ pc[w] # "idle" => v = w

CalmInv == scenario # "free" => Calm

IsQueued(m) == status[m] = "queued"

(* Scenarios 1 and 3: two batches, and the dispatches.  The second batch    *)
(* goes ahead of the first.                                                 *)
Batched == {"insertion", "preemption"}
Late    == IF scenario = "insertion" THEN High ELSE RTT
Came    == Low \o Late
Goes    == Late \o Low
Both    == Len(Low) + Len(Late)

(* The messages are queued as they came, each after those before it, and    *)
(* leave as they go.                                                        *)
BatchInv ==
  /\ at \in 1..(2 * Both + 1)
  /\ \A j \in 1..Both : j < at => \A i \in 1..(j - 1) : Came[i] \in older[Came[j]]
  /\ at <= Both => /\ order = <<>>
                   /\ \A m \in Messages : IsQueued(m) <=> \E i \in 1..(at - 1) : m = Came[i]
  /\ at > Both => /\ Len(order) = at - Both - 1
                  /\ \A i \in 1..Len(order) : order[i] = Goes[i]
                  /\ \A m \in Messages :
                       IsQueued(m) <=> \E i \in (Len(order) + 1)..Both : m = Goes[i]

(* Scenario 4: a slot is an enqueue, a dispatch and a sleep; slot s ends    *)
(* with command number Slept(s).                                            *)
Slept(s) == Len(Brief) + 3 * s

(* What is sent is what came last; the rest stays, and ages.                *)
StaleInv ==
  /\ at \in 1..(Slept(Len(High)) + 2)
  /\ Len(order) <= Len(High) /\ \A i \in 1..Len(order) : order[i] = High[i]
  /\ Len(order) > 0 => at >= Slept(Len(order))
  /\ Len(order) < Len(High) => at <= Slept(Len(order)) + 2
  /\ \A m \in Messages \ Range(Brief) :
       IsQueued(m) <=> /\ Len(order) < Len(High) /\ at = Slept(Len(order)) + 2
                       /\ m = High[Len(order) + 1]
  /\ \A i \in 1..Len(Brief) : i < at => status[Brief[i]] \in {"queued", "purged"}
  /\ at = Slept(Len(High)) + 2 => \A m \in Messages : ~IsQueued(m)

(* After as many sleeps what is left has been queued that long, by the      *)
(* clock and by the clock the last purge has read.                          *)
AgeInv ==
  \A n \in Npgs : \A i \in 1..Len(queues[n]) : queues[n][i].msg \in Range(Brief) =>
    /\ \A s \in 0..Len(High) : at > Slept(s) => queues[n][i].enqueuedAt + s <= now
    /\ \A w \in Workers : pc[w] = "purge only" =>
         queues[n][i].enqueuedAt + Len(High) <= stamp[w]

(* Scenario 5: the producers' messages, in any order, and the drain.  What  *)
(* was sent goes before all that is left.                                   *)
DrainAt == Cardinality(Mixed) + 1

DrainInv ==
  /\ at \in 1..(DrainAt + 1)
  /\ \A m \in Messages : IsQueued(m) => m \in Mixed
  /\ at <= DrainAt => Cardinality({m \in Mixed : status[m] # "out"}) = at - 1
  /\ at < DrainAt => order = <<>> /\ \A m \in Mixed : status[m] \in {"out", "queued"}
  /\ at >= DrainAt => \A m \in Mixed : status[m] \in {"queued", "sent"}
  /\ at > DrainAt => \A m \in Mixed : status[m] = "sent"
  /\ \A j \in 1..Len(order) : order[j] \in Mixed
  /\ \A i, j \in 1..Len(order) : i < j => Priority(order[i]) >= Priority(order[j])
  /\ \A i \in 1..Len(order) : \A m \in Messages :
       IsQueued(m) => Priority(order[i]) >= Priority(m)

(* What holds of each program. *)
ProgramInv ==
  /\ CalmInv
  /\ scenario \in Batched => BatchInv
  /\ scenario = "staleness" => StaleInv /\ AgeInv
  /\ scenario = "parallel" => DrainInv
-----------------------------------------------------------------------------
(* What a step of a program does, as far as the invariants look at it.      *)
Cmd == Script[scenario][at]
Runs(ops) == at \in DOMAIN Script[scenario] /\ Cmd.op \in ops

Adds(m) == /\ Runs({"enqueue", "maybe"}) /\ m \in Cmd.msgs /\ Enqueue(m)
           /\ \A w \in Workers : pc[w] = "idle"
           /\ at' = at + 1 /\ order' = order

Skips == /\ Runs({"maybe"})
         /\ at' = at + 1 /\ UNCHANGED <<now, queues, pc, stamp, status, older, order>>

(* No message moves, and a last purge may begin. *)
Rests == /\ UNCHANGED <<queues, status, older, at, order>> /\ now' \in {now, now + 1}
         /\ \A w \in Workers : pc'[w] = "purge only" =>
              \/ pc[w] = "purge only" /\ stamp'[w] = stamp[w]
              \/ Runs({"purge"}) /\ stamp'[w] = now

Sleeps == /\ Runs({"sleep"}) /\ \A w \in Workers : pc[w] = "idle"
          /\ at' = at + 1 /\ now' = now + 1
          /\ UNCHANGED <<queues, pc, stamp, status, older, order>>

Cleans(w) == /\ pc[w] \in {"purge", "purge only"} /\ slot[w] \in Npgs
             /\ Purge(slot[w], stamp[w])
             /\ \A v \in Workers : pc'[v] # "purge only"
             /\ UNCHANGED <<now, older, order>>
             /\ \/ pc[w] = "purge" /\ Runs({"dispatch", "drain"}) /\ at' = at
                \/ pc[w] = "purge only" /\ Runs({"purge"}) /\ at' = at + 1

SendsNone == /\ Runs({"dispatch", "drain"}) /\ \A m \in Messages : ~IsQueued(m)
             /\ status' = status /\ at' = at + 1 /\ order' = order

SendsOne(a) == /\ Runs({"dispatch", "drain"}) /\ IsQueued(a)
               /\ status' = [status EXCEPT ![a] = "sent"]
               /\ \A x \in Messages : IsQueued(x) /\ x # a => Outranks(a, x)
               /\ at' = (IF Cmd.op = "drain" THEN at ELSE at + 1)
               /\ order' = Append(order, a)

(* A dispatch sends one message or finds none, and the queue has no new     *)
(* entries.                                                                 *)
Sends(w) == /\ Dequeue(w) /\ UNCHANGED <<now, older>>
            /\ \A v \in Workers : pc'[v] # "purge only"
            /\ SendsNone \/ \E a \in Messages : SendsOne(a)

(* Only one worker is inside a node. *)
LEMMA OnlyWorker ==
  ASSUME Calm, NEW w \in Workers, pc[w] # "idle", NEW v \in Workers, v # w
  PROVE  pc[v] = "idle"
BY Zenon DEF Calm

(* The command that has a worker run a node. *)
LEMMA RunsNode ==
  ASSUME Calm, NEW w \in Workers, pc[w] # "idle"
  PROVE  Runs(IF pc[w] = "purge only" THEN {"purge"} ELSE {"dispatch", "drain"})
BY Zenon DEF Calm, Runs, Cmd

LEMMA ProgramReturns ==
  ASSUME QueueInv, Calm, NEW w \in Workers, DispatchReturns(w)
  PROVE  Sends(w)
<1> DEFINE sent == {m \in Messages : status[m] # status'[m]}
<1>1. /\ Dequeue(w) /\ pc[w] = "dequeue" /\ pc' = [pc EXCEPT ![w] = "idle"]
      /\ older' = older /\ now' = now
      /\ order' = order \o SetToSeq(sent)
      /\ at' = IF Cmd.op = "drain" /\ sent # {} THEN at ELSE at + 1
  BY DEF DispatchReturns, Dequeue, Done, Cmd
<1>2. \/ SetToSeq(sent) = <<>> /\ status' = status /\ \A m \in Messages : status[m] # "queued"
      \/ \E a \in Messages :
           /\ SetToSeq(sent) = <<a>> /\ status[a] = "queued"
           /\ status' = [status EXCEPT ![a] = "sent"]
           /\ \A x \in Messages : status[x] = "queued" /\ x # a => Outranks(a, x)
  BY <1>1, DequeueSends
<1>3. Runs({"dispatch", "drain"}) BY <1>1, RunsNode
<1>4. order \in Seq(Messages) BY DEF Calm
<1>5. status \in [Messages -> {"out", "queued", "sent", "purged"}]
      /\ pc \in [Workers -> {"idle", "purge only", "purge", "dequeue"}]
  BY DEF QueueInv, TypesOK
<1>6. \A v \in Workers : pc'[v] # "purge only"
  <2>1. \A v \in Workers : v # w => pc[v] = "idle" BY <1>1, OnlyWorker
  <2> QED BY <1>1, <1>5, <2>1
<1>7. CASE SetToSeq(sent) = <<>> /\ status' = status /\ \A m \in Messages : status[m] # "queued"
  <2>1. sent = {} BY <1>7
  <2> HIDE DEF sent
  <2>2. order' = order /\ at' = at + 1 BY <1>1, <1>4, <1>7, <2>1
  <2> QED BY <1>1, <1>3, <1>6, <1>7, <2>2 DEF Sends, SendsNone, IsQueued
<1>8. ASSUME NEW a \in Messages, SetToSeq(sent) = <<a>>, status[a] = "queued",
             status' = [status EXCEPT ![a] = "sent"],
             \A x \in Messages : status[x] = "queued" /\ x # a => Outranks(a, x)
      PROVE  SendsOne(a)
  <2>1. sent # {} BY <1>5, <1>8
  <2> HIDE DEF sent
  <2>2. order' = Append(order, a) BY <1>1, <1>4, <1>8
  <2>3. at' = (IF Cmd.op = "drain" THEN at ELSE at + 1) BY <1>1, <2>1
  <2> QED BY <1>3, <1>8, <2>2, <2>3, Zenon DEF SendsOne, IsQueued
<1> HIDE DEF sent
<1> QED BY <1>1, <1>2, <1>6, <1>7, <1>8, Zenon DEF Sends

LEMMA ProgramSteps ==
  ASSUME QueueInv, Calm, scenario \in DOMAIN Script, [ScenarioNext]_scenarioVars
  PROVE  /\ scenario' = scenario
         /\ \/ \E m \in Messages : Adds(m)
            \/ Skips \/ Rests \/ Sleeps
            \/ \E w \in Workers : Cleans(w) \/ Sends(w)
<1>1. scenario' = scenario
  <2>1. scenario \in Scenarios BY DEF Scenarios
  <2> QED BY <2>1, ScenarioSteps
<1>2. pc \in [Workers -> {"idle", "purge only", "purge", "dequeue"}]
      /\ stamp = [w \in Workers |-> stamp[w]]
  BY DEF QueueInv, TypesOK
<1>3. CASE EnqueueDue
  <2>1. PICK m : m \in Cmd.msgs /\ Enqueue(m) /\ at' = at + 1 /\ order' = order
    BY <1>3 DEF EnqueueDue, Cmd
  <2>2. Runs({"enqueue", "maybe"}) /\ \A w \in Workers : pc[w] = "idle"
    BY <1>3 DEF EnqueueDue, Due, Runs, Cmd
  <2>3. m \in Messages
    <3>1. Cmd \in Commands BY <2>2, ScriptTyped, LenProperties, ElementOfSeq DEF Runs, Cmd
    <3> QED BY <2>1, <3>1 DEF Commands
  <2> QED BY <1>1, <2>1, <2>2, <2>3 DEF Adds
<1>4. CASE SkipMaybe
  BY <1>1, <1>4 DEF SkipMaybe, Due, Runs, Cmd, Skips, vars, workerVars
<1>5. CASE Sleep
  BY <1>1, <1>5 DEF Sleep, Tick, Due, Runs, Cmd, Sleeps, workerVars
<1>6. CASE Pass
  BY <1>1, <1>6 DEF Pass, Tick, Rests, scriptVars, workerVars
<1>7. CASE Ended \/ UNCHANGED scenarioVars
  BY <1>1, <1>7 DEF Ended, Rests, scenarioVars, scriptVars, vars, workerVars
<1>8. CASE FreeStep
  <2>1. scenario # "free" BY DEF Script
  <2> QED BY <1>8, <2>1 DEF FreeStep
<1>9. ASSUME NEW w \in Workers, NEW n \in Npgs, DispatchDue(w, n) PROVE Rests
  <2>1. /\ pc' = [pc EXCEPT ![w] = "purge"] /\ stamp' = [stamp EXCEPT ![w] = now]
        /\ UNCHANGED <<now, queues, status, older, at, order>>
    BY <1>9 DEF DispatchDue, StartDispatch, scriptVars
  <2> QED BY <1>2, <2>1 DEF Rests
<1>10. ASSUME NEW w \in Workers, NEW n \in Npgs, PurgeDue(w, n) PROVE Rests
  <2>1. /\ pc' = [pc EXCEPT ![w] = "purge only"] /\ stamp' = [stamp EXCEPT ![w] = now]
        /\ UNCHANGED <<now, queues, status, older, at, order>>
    BY <1>10 DEF PurgeDue, StartPurge, scriptVars
  <2>2. Runs({"purge"}) BY <1>10 DEF PurgeDue, Due, Runs, Cmd
  <2> QED BY <1>2, <2>1, <2>2 DEF Rests
<1>11. ASSUME NEW w \in Workers, DispatchPurges(w) PROVE Cleans(w)
  <2>1. /\ pc[w] = "purge" /\ Purge(slot[w], stamp[w]) /\ pc' = [pc EXCEPT ![w] = "dequeue"]
        /\ UNCHANGED <<now, older, at, order>>
    BY <1>11 DEF DispatchPurges, PurgeFirst, scriptVars
  <2>2. slot[w] \in Npgs BY <2>1 DEF QueueInv, WorkerOK
  <2>3. Runs({"dispatch", "drain"}) BY <2>1, RunsNode
  <2>4. \A v \in Workers : v # w => pc[v] = "idle" BY <2>1, OnlyWorker
  <2>5. \A v \in Workers : pc'[v] # "purge only" BY <1>2, <2>1, <2>4
  <2> QED BY <2>1, <2>2, <2>3, <2>5, Zenon DEF Cleans
<1>12. ASSUME NEW w \in Workers, PurgeReturns(w) PROVE Cleans(w)
  <2>1. /\ pc[w] = "purge only" /\ Purge(slot[w], stamp[w]) /\ pc' = [pc EXCEPT ![w] = "idle"]
        /\ UNCHANGED <<now, older, order>> /\ at' = at + 1
    BY <1>12 DEF PurgeReturns, PurgeOnly, Done
  <2>2. slot[w] \in Npgs BY <2>1 DEF QueueInv, WorkerOK
  <2>3. Runs({"purge"}) BY <2>1, RunsNode
  <2>4. \A v \in Workers : v # w => pc[v] = "idle" BY <2>1, OnlyWorker
  <2>5. \A v \in Workers : pc'[v] # "purge only" BY <1>2, <2>1, <2>4
  <2> QED BY <2>1, <2>2, <2>3, <2>5, Zenon DEF Cleans
<1>13. ASSUME NEW w \in Workers, DispatchReturns(w) PROVE Sends(w)
  BY <1>13, ProgramReturns
<1> QED BY <1>1, <1>3, <1>4, <1>5, <1>6, <1>7, <1>8, <1>9, <1>10, <1>11, <1>12, <1>13, Zenon
        DEF ScenarioNext

(* Whichever worker is inside a node, it is the only one. *)
LEMMA CalmStep ==
  ASSUME QueueInv, Calm, scenario \in DOMAIN Script, [ScenarioNext]_scenarioVars
  PROVE  Calm'
<1>1. /\ scenario' = scenario
      /\ \/ \E m \in Messages : Adds(m)
         \/ Skips \/ Rests \/ Sleeps
         \/ \E w \in Workers : Cleans(w) \/ Sends(w)
  BY ProgramSteps
<1>2. at \in Nat /\ order \in Seq(Messages) BY DEF Calm
<1>3. at' \in Nat /\ order' \in Seq(Messages)
  <2>1. order' = order /\ at' \in {at, at + 1} => at' \in Nat /\ order' \in Seq(Messages)
    BY <1>2
  <2>2. CASE (\E m \in Messages : Adds(m)) \/ Skips \/ Rests \/ Sleeps
    <3>1. order' = order /\ (at' = at \/ at' = at + 1)
      BY <2>2, Zenon DEF Adds, Skips, Rests, Sleeps
    <3> QED BY <2>1, <3>1
  <2>3. ASSUME NEW w \in Workers, Cleans(w) PROVE at' \in Nat /\ order' \in Seq(Messages)
    <3>1. order' = order /\ (at' = at \/ at' = at + 1) BY <2>3, Zenon DEF Cleans
    <3> QED BY <2>1, <3>1
  <2>4. CASE SendsNone BY <2>4, <1>2 DEF SendsNone
  <2>5. ASSUME NEW a \in Messages, SendsOne(a) PROVE at' \in Nat /\ order' \in Seq(Messages)
    BY <2>5, <1>2 DEF SendsOne
  <2> QED BY <1>1, <2>2, <2>3, <2>4, <2>5, Zenon DEF Sends
<1>4. pc \in [Workers -> {"idle", "purge only", "purge", "dequeue"}]
  BY DEF QueueInv, TypesOK
<1>5. CASE \A w \in Workers : pc'[w] = "idle" BY <1>3, <1>5 DEF Calm
<1>6. CASE pc' = pc /\ at' = at BY <1>1, <1>3, <1>6 DEF Calm
<1>7. ASSUME NEW w \in Workers, NEW s, s \in {"purge only", "purge"}, pc' = [pc EXCEPT ![w] = s],
             at' = at, \A v \in Workers : pc[v] = "idle",
             Runs(IF s = "purge only" THEN {"purge"} ELSE {"dispatch", "drain"})
      PROVE  Calm'
  <2>1. \A v \in Workers : pc'[v] = IF v = w THEN s ELSE "idle" BY <1>4, <1>7
  <2>2. \A v \in Workers : pc'[v] # "idle" => v = w BY <2>1, <1>7
  <2>3. Script[scenario'][at'] = Cmd /\ at' \in DOMAIN Script[scenario']
    BY <1>1, <1>7 DEF Runs, Cmd
  <2>4. Cmd.op \in IF pc'[w] = "purge only" THEN {"purge"} ELSE {"dispatch", "drain"}
    BY <1>7, <2>1 DEF Runs
  <2> QED BY <1>3, <2>2, <2>3, <2>4, Zenon DEF Calm
<1>8. CASE EnqueueDue
  <2>1. \E m : Enqueue(m) BY <1>8, Zenon DEF EnqueueDue
  <2>2. pc' = pc BY <2>1 DEF Enqueue, workerVars
  <2> QED BY <1>5, <1>8, <2>2 DEF EnqueueDue, Due
<1>9. CASE SkipMaybe BY <1>5, <1>9 DEF SkipMaybe, Due, vars, workerVars
<1>10. CASE Sleep BY <1>5, <1>10 DEF Sleep, Tick, Due, workerVars
<1>11. CASE Pass BY <1>6, <1>11 DEF Pass, Tick, scriptVars, workerVars
<1>12. CASE Ended \/ UNCHANGED scenarioVars
  BY <1>6, <1>12 DEF Ended, scenarioVars, scriptVars, vars, workerVars
<1>13. CASE FreeStep
  <2>1. scenario # "free" BY DEF Script
  <2> QED BY <1>13, <2>1 DEF FreeStep
<1>14. ASSUME NEW w \in Workers, NEW n \in Npgs, DispatchDue(w, n) PROVE Calm'
  <2>1. /\ pc' = [pc EXCEPT ![w] = "purge"] /\ at' = at
        /\ \A v \in Workers : pc[v] = "idle" /\ Runs({"dispatch", "drain"})
    BY <1>14 DEF DispatchDue, StartDispatch, scriptVars, Due, Runs, Cmd
  <2> QED BY <1>7, <2>1
<1>15. ASSUME NEW w \in Workers, NEW n \in Npgs, PurgeDue(w, n) PROVE Calm'
  <2>1. /\ pc' = [pc EXCEPT ![w] = "purge only"] /\ at' = at
        /\ \A v \in Workers : pc[v] = "idle" /\ Runs({"purge"})
    BY <1>15 DEF PurgeDue, StartPurge, scriptVars, Due, Runs, Cmd
  <2> QED BY <1>7, <2>1
<1>16. ASSUME NEW w \in Workers, DispatchPurges(w) PROVE Calm'
  <2>1. /\ pc[w] = "purge" /\ pc' = [pc EXCEPT ![w] = "dequeue"] /\ at' = at
    BY <1>16 DEF DispatchPurges, PurgeFirst, scriptVars
  <2>2. \A v \in Workers : v # w => pc[v] = "idle" BY <2>1, OnlyWorker
  <2>3. \A v \in Workers : pc'[v] # "idle" => v = w BY <1>4, <2>1, <2>2
  <2>4. pc'[w] = "dequeue" BY <1>4, <2>1
  <2>5. Runs({"dispatch", "drain"}) BY <2>1, RunsNode
  <2>6. Script[scenario'][at'] = Cmd /\ at' \in DOMAIN Script[scenario']
    BY <1>1, <2>1, <2>5 DEF Runs, Cmd
  <2>7. Cmd.op \in IF pc'[w] = "purge only" THEN {"purge"} ELSE {"dispatch", "drain"}
    BY <2>4, <2>5 DEF Runs
  <2> QED BY <1>3, <2>3, <2>6, <2>7, Zenon DEF Calm
<1>17. ASSUME NEW w \in Workers, DispatchReturns(w) \/ PurgeReturns(w) PROVE Calm'
  <2>1. pc[w] # "idle" /\ pc' = [pc EXCEPT ![w] = "idle"]
    BY <1>17 DEF DispatchReturns, Dequeue, PurgeReturns, PurgeOnly, Done
  <2>2. \A v \in Workers : v # w => pc[v] = "idle" BY <2>1, OnlyWorker
  <2> QED BY <1>4, <1>5, <2>1, <2>2
<1> QED BY <1>8, <1>9, <1>10, <1>11, <1>12, <1>13, <1>14, <1>15, <1>16, <1>17, Zenon
        DEF ScenarioNext

(* A message whose limit does not run out is not purged. *)
Lasting(m) == Staleness(m) > MaxNow \/ Staleness(m) <= 0

LEMMA LastingStays ==
  ASSUME QueueInv, NEW w \in Workers, Cleans(w), NEW m \in Messages, Lasting(m)
  PROVE  status'[m] = status[m]
<1>1. slot[w] \in Npgs /\ Purge(slot[w], stamp[w]) /\ UNCHANGED <<now, older>> BY DEF Cleans
<1> DEFINE n == slot[w] t == stamp[w]
<1>2. status'[m] = status[m] \/ (status[m] = "queued" /\ status'[m] = "purged")
  BY <1>1, PurgeOnlyTakes
<1>3. ASSUME status[m] = "queued", status'[m] # "queued" PROVE FALSE
  <2> HIDE DEF n, t
  <2>1. n \in Npgs /\ Purge(n, t) BY <1>1 DEF n, t
  <2>2. PICK j \in 1..Len(queues[n]) : queues[n][j].msg = m /\ Stale(queues[n][j], t)
    BY <1>1, <1>3, <2>1, PurgeEffect
  <2>3. queues[n] \in Seq(Entries) BY <2>1 DEF QueueInv, QueueOK
  <2>4. queues[n][j].enqueuedAt \in Nat /\ MaxNow \in Nat
    <3>1. queues[n][j] \in Entries BY <2>3, ElementOfSeq
    <3> QED BY <3>1, MessagesAssumption DEF Entries
  <2>5. t \in Nat /\ t <= MaxNow
    <3>1. stamp[w] \in 0..now /\ now \in 0..MaxNow BY DEF QueueInv, TypesOK
    <3> QED BY <2>4, <3>1 DEF t
  <2>6. Staleness(m) > 0 /\ t - queues[n][j].enqueuedAt > Staleness(m) BY <2>2 DEF Stale
  <2>7. Staleness(m) \in Int BY MessagesAssumption
  <2> QED BY <2>4, <2>5, <2>6, <2>7 DEF Lasting
<1> QED BY <1>2, <1>3

(* The positions in one batch after another. *)
LEMMA OneAfterOther ==
  ASSUME NEW x \in Seq(Messages), NEW y \in Seq(Messages), IsInjective(x), IsInjective(y),
         Range(x) \intersect Range(y) = {}
  PROVE  LET s == x \o y
             n == Len(x) + Len(y)
         IN /\ s \in Seq(Messages) /\ Len(s) = n /\ n \in Nat
            /\ \A i \in 1..n : \/ i \in 1..Len(x) /\ s[i] = x[i] /\ s[i] \in Range(x)
                               \/ /\ i > Len(x) /\ i - Len(x) \in 1..Len(y)
                                  /\ s[i] = y[i - Len(x)] /\ s[i] \in Range(y)
            /\ \A i \in 1..Len(x) : i \in 1..n /\ s[i] = x[i]
            /\ \A i \in 1..Len(y) : Len(x) + i \in 1..n /\ s[Len(x) + i] = y[i]
            /\ \A i, j \in 1..n : s[i] = s[j] => i = j
<1> DEFINE s == x \o y n == Len(x) + Len(y)
<1>1. Len(x) \in Nat /\ Len(y) \in Nat /\ DOMAIN x = 1..Len(x) /\ DOMAIN y = 1..Len(y)
  BY LenProperties
<1>2. /\ s \in Seq(Messages) /\ Len(s) = n /\ n \in Nat
      /\ \A i \in 1..Len(x) : s[i] = x[i]
      /\ \A i \in 1..Len(y) : s[Len(x) + i] = y[i]
  BY <1>1, Joined
<1> HIDE DEF s
<1>3. ASSUME NEW i \in 1..n
      PROVE  \/ i \in 1..Len(x) /\ s[i] = x[i] /\ s[i] \in Range(x)
             \/ /\ i > Len(x) /\ i - Len(x) \in 1..Len(y)
                /\ s[i] = y[i - Len(x)] /\ s[i] \in Range(y)
  <2>1. CASE i <= Len(x)
    <3>1. i \in 1..Len(x) BY <1>1, <2>1
    <3> QED BY <1>1, <1>2, <3>1, Zenon DEF Range
  <2>2. CASE i > Len(x)
    <3>1. i - Len(x) \in 1..Len(y) /\ Len(x) + (i - Len(x)) = i BY <1>1, <2>2
    <3>2. s[i] = y[i - Len(x)] BY <1>2, <3>1
    <3> QED BY <1>1, <2>2, <3>1, <3>2, Zenon DEF Range
  <2> QED BY <1>1, <2>1, <2>2
<1>4. ASSUME NEW i \in 1..n, NEW j \in 1..n, s[i] = s[j] PROVE i = j
  <2>1. CASE i \in 1..Len(x) /\ j \in 1..Len(x)
    <3>1. x[i] = x[j] BY <1>2, <1>4, <2>1
    <3> QED BY <1>1, <2>1, <3>1, Zenon DEF IsInjective
  <2>2. CASE ~(i \in 1..Len(x)) /\ ~(j \in 1..Len(x))
    <3>1. /\ i - Len(x) \in 1..Len(y) /\ j - Len(x) \in 1..Len(y)
          /\ y[i - Len(x)] = y[j - Len(x)]
      BY <1>3, <1>4, <2>2
    <3>2. i - Len(x) = j - Len(x) BY <1>1, <3>1, Zenon DEF IsInjective
    <3> QED BY <1>1, <3>2
  <2>3. CASE (i \in 1..Len(x)) # (j \in 1..Len(x))
    BY <1>3, <1>4, <2>3
  <2> QED BY <2>1, <2>2, <2>3, Zenon
<1>5. /\ \A i \in 1..Len(x) : i \in 1..n
      /\ \A i \in 1..Len(y) : Len(x) + i \in 1..n
  BY <1>1
<1> QED BY <1>2, <1>3, <1>4, <1>5 DEF s
-----------------------------------------------------------------------------
(***************************************************************************)
(* Scenarios 1 and 3.                                                      *)
(***************************************************************************)
(* The limits of Low and High are too long to run out. *)
LEMMA LimitsLast == \A m \in Range(Low) \union Range(High) : Staleness(m) > MaxNow
<1>1. \A m \in Range(Low \o High \o Flat) : Staleness(m) > MaxNow
  BY ScenariosAssumption, Zenon
<1>2. Range(Low) \union Range(High) \subseteq Range(Low \o High \o Flat)
  <2>1. Flat \in Seq(Messages) BY ScenariosAssumption, Zenon
  <2>2. ASSUME NEW x \in Seq(Messages), NEW y \in Seq(Messages)
        PROVE  x \o y \in Seq(Messages) /\ Range(x) \union Range(y) \subseteq Range(x \o y)
    <3>1. /\ x \o y \in Seq(Messages) /\ Len(x \o y) = Len(x) + Len(y)
          /\ \A i \in 1..Len(x) : (x \o y)[i] = x[i]
          /\ \A i \in 1..Len(y) : (x \o y)[Len(x) + i] = y[i]
      BY Joined
    <3>2. /\ Len(x) \in Nat /\ Len(y) \in Nat /\ DOMAIN x = 1..Len(x)
          /\ DOMAIN y = 1..Len(y) /\ DOMAIN (x \o y) = 1..(Len(x) + Len(y))
      BY <3>1, LenProperties
    <3>3. ASSUME NEW i \in 1..Len(x) PROVE x[i] \in Range(x \o y)
      <4>1. i \in 1..(Len(x) + Len(y)) BY <3>2
      <4> QED BY <3>1, <3>2, <4>1, Zenon DEF Range
    <3>4. ASSUME NEW i \in 1..Len(y) PROVE y[i] \in Range(x \o y)
      <4>1. Len(x) + i \in 1..(Len(x) + Len(y)) BY <3>2
      <4> QED BY <3>1, <3>2, <4>1, Zenon DEF Range
    <3> QED BY <3>1, <3>2, <3>3, <3>4, Zenon DEF Range
  <2>3. Low \in Seq(Messages) /\ High \in Seq(Messages) BY ScenariosAssumption, Zenon
  <2>4. /\ Low \o High \in Seq(Messages)
        /\ Range(Low) \union Range(High) \subseteq Range(Low \o High)
        /\ Range(Low \o High) \subseteq Range((Low \o High) \o Flat)
    BY <2>1, <2>2, <2>3
  <2> QED BY <2>4
<1> QED BY <1>1, <1>2

(* The two batches, the way they come and the way they go.                  *)
LEMMA BatchMessages ==
  ASSUME scenario \in Batched
  PROVE  /\ Low \in Seq(Messages) /\ Late \in Seq(Messages)
         /\ IsInjective(Low) /\ IsInjective(Late) /\ Range(Low) \intersect Range(Late) = {}
         /\ \A m \in Range(Low) \union Range(Late) : m \in Messages /\ Lasting(m)
         /\ \A m \in Range(Low), x \in Range(Late) : ~Outranks(m, x)
         /\ \A S \in {Range(Low), Range(Late)} : \A m, x \in S :
               x \in older[m] => ~Outranks(m, x)
<1>1. /\ Low \in Seq(Messages) /\ High \in Seq(Messages) /\ RTT \in Seq(Messages)
      /\ IsInjective(Low) /\ IsInjective(High) /\ IsInjective(RTT)
      /\ \A m \in Range(Low) : ~Terminal(m) /\ Priority(m) = 1
      /\ \A m \in Range(High) : ~Terminal(m) /\ Priority(m) = 4
      /\ \A m \in Range(RTT) : Terminal(m)
  BY ScenariosAssumption, Zenon
<1>2. /\ Range(Low) \subseteq Messages /\ Range(High) \subseteq Messages
      /\ Range(RTT) \subseteq Messages
  <2>1. ASSUME NEW s \in Seq(Messages) PROVE Range(s) \subseteq Messages BY DEF Range
  <2> QED BY <1>1, <2>1, Zenon
<1>3. \A m \in Range(RTT) : Priority(m) = 0 /\ Staleness(m) = 0
  BY <1>1, <1>2, MessagesAssumption, Zenon
<1>4. \A m \in Range(Low) \union Range(High) : Staleness(m) > MaxNow BY LimitsLast
<1>5. \A m \in Range(Low), x \in Range(High) \union Range(RTT) : ~Outranks(m, x)
  BY <1>1 DEF Outranks
<1>6. \A S \in {Range(Low), Range(High), Range(RTT)} : \A m, x \in S :
        Terminal(m) = Terminal(x) /\ Priority(m) = Priority(x) /\ Priority(m) \in Int
  <2>1. \A m \in Messages : Terminal(m) \in BOOLEAN /\ Priority(m) \in Int
    BY MessagesAssumption, Zenon
  <2> QED BY <1>1, <1>2, <1>3, <2>1
<1>7. \A S \in {Range(Low), Range(High), Range(RTT)} : \A m, x \in S :
        x \in older[m] => ~Outranks(m, x)
  <2> SUFFICES ASSUME NEW S \in {Range(Low), Range(High), Range(RTT)}, NEW m \in S, NEW x \in S,
                      x \in older[m], Outranks(m, x)
               PROVE  FALSE
    OBVIOUS
  <2>1. Terminal(m) = Terminal(x) /\ Priority(m) = Priority(x) /\ Priority(m) \in Int BY <1>6
  <2>2. ~(Priority(m) > Priority(x)) BY <2>1
  <2> QED BY <2>1, <2>2, Zenon DEF Outranks
<1>8. Range(Low) \intersect (Range(High) \union Range(RTT)) = {}
  <2>1. 1 # 4 OBVIOUS
  <2> QED BY <1>1, <2>1, Zenon
<1>9. \A m \in Range(Low) \union Range(High) \union Range(RTT) : Lasting(m)
  <2>1. 0 <= 0 OBVIOUS
  <2> QED BY <1>3, <1>4, <2>1, Zenon DEF Lasting
<1>10. Late = High \/ Late = RTT BY DEF Late
<1> QED BY <1>1, <1>2, <1>5, <1>7, <1>8, <1>9, <1>10, Zenon

(* The enqueues, and as many dispatches. *)
LEMMA BatchScript ==
  ASSUME scenario \in Batched
  PROVE  /\ Both \in Nat /\ Len(Came) = Both /\ Len(Goes) = Both
         /\ Came \in Seq(Messages) /\ Goes \in Seq(Messages)
         /\ DOMAIN Script[scenario] = 1..(2 * Both)
         /\ \A i \in 1..Both : Script[scenario][i] = Command("enqueue", {Came[i]})
         /\ \A i \in (Both + 1)..(2 * Both) : Script[scenario][i] = Command("dispatch", {})
<1>1. Low \in Seq(Messages) /\ Late \in Seq(Messages) BY BatchMessages
<1>2. Len(Low) \in Nat /\ Len(Late) \in Nat BY <1>1, LenProperties
<1>3. /\ Both \in Nat /\ Len(Came) = Both /\ Len(Goes) = Both
      /\ Came \in Seq(Messages) /\ Goes \in Seq(Messages)
      /\ \A i \in 1..Len(Low) : Came[i] = Low[i]
      /\ \A i \in 1..Len(Late) : Came[Len(Low) + i] = Late[i]
  <2>1. Len(Late) + Len(Low) = Len(Low) + Len(Late) BY <1>2
  <2> QED BY <1>1, <1>2, <2>1, Joined DEF Came, Goes, Both
<1> DEFINE a == Enqueues(Low) b == Enqueues(Late) c == Dispatches(Both)
<1>4. Script[scenario] = (a \o b) \o c
  <2>1. CASE scenario = "insertion"
    <3>1. Script[scenario] = (a \o Enqueues(High)) \o Dispatches(Len(Low) + Len(High))
      BY <2>1 DEF Script
    <3> QED BY <2>1, <3>1 DEF Late, Both
  <2>2. CASE scenario = "preemption"
    <3>1. Script[scenario] = (a \o Enqueues(RTT)) \o Dispatches(Len(Low) + Len(RTT))
      BY <2>2 DEF Script
    <3> QED BY <2>2, <3>1 DEF Late, Both
  <2> QED BY <2>1, <2>2 DEF Batched
<1>5. /\ a \in Seq(Commands) /\ Len(a) = Len(Low)
      /\ \A i \in 1..Len(Low) : a[i] = Command("enqueue", {Low[i]})
      /\ b \in Seq(Commands) /\ Len(b) = Len(Late)
      /\ \A i \in 1..Len(Late) : b[i] = Command("enqueue", {Late[i]})
      /\ c \in Seq(Commands) /\ Len(c) = Both
      /\ \A i \in 1..Both : c[i] = Command("dispatch", {})
  BY <1>1, <1>3, EnqueuesTyped, DispatchesTyped, Zenon
<1> HIDE DEF a, b, c
<1> DEFINE d == a \o b
<1>6. /\ d \in Seq(Commands) /\ Len(d) = Both
      /\ \A i \in 1..Len(Low) : d[i] = a[i]
      /\ \A i \in 1..Len(Late) : d[Len(Low) + i] = b[i]
  <2>1. a \in Seq(Commands) /\ b \in Seq(Commands) BY <1>5
  <2>2. /\ d \in Seq(Commands) /\ Len(d) = Len(a) + Len(b)
        /\ \A i \in 1..Len(a) : d[i] = a[i]
        /\ \A i \in 1..Len(b) : d[Len(a) + i] = b[i]
    BY <2>1, Joined
  <2> HIDE DEF d
  <2> QED BY <1>5, <2>2, Zenon DEF Both
<1> HIDE DEF d
<1> DEFINE e == d \o c
<1>7. /\ e \in Seq(Commands) /\ Len(e) = Both + Both
      /\ \A i \in 1..Both : e[i] = d[i]
      /\ \A i \in 1..Both : e[Both + i] = c[i]
  <2>1. c \in Seq(Commands) /\ d \in Seq(Commands) BY <1>5, <1>6
  <2>2. /\ e \in Seq(Commands) /\ Len(e) = Len(d) + Len(c)
        /\ \A i \in 1..Len(d) : e[i] = d[i]
        /\ \A i \in 1..Len(c) : e[Len(d) + i] = c[i]
    BY <2>1, Joined
  <2> HIDE DEF e
  <2> QED BY <1>5, <1>6, <2>2, Zenon
<1>8. Script[scenario] = e BY <1>4 DEF d
<1> HIDE DEF e
<1>9. DOMAIN e = 1..(2 * Both)
  <2>1. DOMAIN e = 1..Len(e) BY <1>7, LenProperties, Zenon
  <2>2. Both + Both = 2 * Both BY <1>3
  <2> QED BY <1>7, <2>1, <2>2
<1>10. ASSUME NEW i \in 1..Both PROVE e[i] = Command("enqueue", {Came[i]})
  <2>1. CASE i <= Len(Low)
    <3>1. i \in 1..Len(Low) BY <2>1, <1>2
    <3> QED BY <1>3, <1>5, <1>6, <1>7, <3>1
  <2>2. CASE i > Len(Low)
    <3> DEFINE k == i - Len(Low)
    <3>1. k \in 1..Len(Late) /\ Len(Low) + k = i BY <2>2, <1>2 DEF Both
    <3>2. d[Len(Low) + k] = b[k] /\ Came[Len(Low) + k] = Late[k] BY <1>3, <1>6, <3>1
    <3> HIDE DEF k
    <3> QED BY <1>5, <1>7, <3>1, <3>2
  <2> QED BY <1>2, <2>1, <2>2
<1>11. ASSUME NEW i \in (Both + 1)..(2 * Both) PROVE e[i] = Command("dispatch", {})
  <2>1. i - Both \in 1..Both /\ Both + (i - Both) = i
    <3>1. Both \in Nat BY <1>3
    <3> QED BY <3>1
  <2>2. e[Both + (i - Both)] = c[i - Both] BY <1>7, <2>1
  <2> QED BY <1>5, <2>1, <2>2
<1> QED BY <1>3, <1>8, <1>9, <1>10, <1>11

(* Once all have come, none goes ahead of one that goes before it, and each *)
(* goes once.                                                               *)
LEMMA BatchOrder ==
  ASSUME scenario \in Batched
  PROVE  /\ \A i, j \in 1..Both : Came[i] = Came[j] => i = j
         /\ \A i, j \in 1..Both : Goes[i] = Goes[j] => i = j
         /\ \A i \in 1..Both : /\ Goes[i] \in Messages /\ Lasting(Goes[i])
                               /\ Came[i] \in Messages /\ Lasting(Came[i])
         /\ \A m : (\E i \in 1..Both : m = Came[i]) <=> (\E i \in 1..Both : m = Goes[i])
         /\ (\A j \in 1..Both : \A i \in 1..(j - 1) : Came[i] \in older[Came[j]]) =>
              \A j \in 1..Both : \A i \in 1..(j - 1) : ~Outranks(Goes[j], Goes[i])
<1>1. /\ Low \in Seq(Messages) /\ Late \in Seq(Messages)
      /\ IsInjective(Low) /\ IsInjective(Late) /\ Range(Low) \intersect Range(Late) = {}
      /\ \A m \in Range(Low) \union Range(Late) : m \in Messages /\ Lasting(m)
      /\ \A m \in Range(Low), x \in Range(Late) : ~Outranks(m, x)
      /\ \A S \in {Range(Low), Range(Late)} : \A m, x \in S :
            x \in older[m] => ~Outranks(m, x)
  BY BatchMessages
<1> DEFINE a == Len(Low) b == Len(Late) n == Both
<1>2. a \in Nat /\ b \in Nat /\ n = a + b /\ n = b + a BY <1>1, LenProperties DEF Both
<1>3. /\ \A i \in 1..n : \/ i \in 1..a /\ Came[i] = Low[i] /\ Came[i] \in Range(Low)
                         \/ /\ i > a /\ i - a \in 1..b
                            /\ Came[i] = Late[i - a] /\ Came[i] \in Range(Late)
      /\ \A i \in 1..a : i \in 1..n /\ Came[i] = Low[i]
      /\ \A i \in 1..b : a + i \in 1..n /\ Came[a + i] = Late[i]
      /\ \A i, j \in 1..n : Came[i] = Came[j] => i = j
  BY <1>1, OneAfterOther DEF Came, Both
<1>4. /\ \A i \in 1..n : \/ i \in 1..b /\ Goes[i] = Late[i] /\ Goes[i] \in Range(Late)
                         \/ /\ i > b /\ i - b \in 1..a
                            /\ Goes[i] = Low[i - b] /\ Goes[i] \in Range(Low)
      /\ \A i \in 1..b : i \in 1..n /\ Goes[i] = Late[i]
      /\ \A i \in 1..a : b + i \in 1..n /\ Goes[b + i] = Low[i]
      /\ \A i, j \in 1..n : Goes[i] = Goes[j] => i = j
  <2>1. Range(Late) \intersect Range(Low) = {} BY <1>1
  <2>2. n = Len(Late) + Len(Low) BY <1>2
  <2> HIDE DEF n
  <2> QED BY <1>1, <2>1, <2>2, OneAfterOther DEF Goes
<1> HIDE DEF a, b, n
<1>5. \A i \in 1..n : /\ Goes[i] \in Messages /\ Lasting(Goes[i])
                      /\ Came[i] \in Messages /\ Lasting(Came[i])
  BY <1>1, <1>3, <1>4
<1>6. ASSUME NEW i \in 1..n
      PROVE  (\E j \in 1..n : Came[i] = Goes[j]) /\ (\E j \in 1..n : Goes[i] = Came[j])
  <2>1. \E j \in 1..n : Came[i] = Goes[j] BY <1>3, <1>4
  <2>2. \E j \in 1..n : Goes[i] = Came[j] BY <1>3, <1>4
  <2> QED BY <2>1, <2>2
<1>7. ASSUME \A j \in 1..n : \A i \in 1..(j - 1) : Came[i] \in older[Came[j]],
             NEW j \in 1..n, NEW i \in 1..(j - 1)
      PROVE  ~Outranks(Goes[j], Goes[i])
  <2>1. i \in 1..n /\ i < j BY <1>2
  <2>2. CASE j \in 1..b
    <3>1. i \in 1..b BY <2>1, <2>2, <1>2
    <3>2. a + j \in 1..n /\ a + i \in 1..((a + j) - 1) BY <1>2, <2>1, <2>2, <1>3
    <3>3. Came[a + i] \in older[Came[a + j]] BY <1>7, <3>2
    <3>4. Goes[i] = Came[a + i] /\ Goes[j] = Came[a + j] BY <1>3, <1>4, <2>2, <3>1
    <3>5. Goes[i] \in Range(Late) /\ Goes[j] \in Range(Late)
      <4>1. ~(i > b) /\ ~(j > b) BY <2>2, <3>1, <1>2
      <4> QED BY <1>4, <2>1, <4>1
    <3> QED BY <1>1, <3>3, <3>4, <3>5
  <2>3. CASE i \in 1..b /\ j \notin 1..b
    <3>1. Goes[i] \in Range(Late) /\ Goes[j] \in Range(Low)
      <4>1. ~(i > b) BY <2>3, <1>2
      <4> QED BY <1>4, <2>1, <2>3, <4>1
    <3> QED BY <1>1, <3>1
  <2>4. CASE i \notin 1..b /\ j \notin 1..b
    <3> DEFINE p == i - b q == j - b
    <3>1. p \in 1..a /\ q \in 1..a /\ Goes[i] = Low[p] /\ Goes[j] = Low[q]
          /\ Goes[i] \in Range(Low) /\ Goes[j] \in Range(Low)
      BY <1>4, <2>1, <2>4
    <3>2. p \in 1..(q - 1) BY <3>1, <2>1, <1>2
    <3> HIDE DEF p, q
    <3>3. q \in 1..n /\ Came[p] = Low[p] /\ Came[q] = Low[q] BY <1>3, <3>1
    <3>4. Came[p] \in older[Came[q]] BY <1>7, <3>2, <3>3
    <3> QED BY <1>1, <3>1, <3>3, <3>4
  <2>5. j \in 1..b => i \in 1..b BY <2>1, <1>2
  <2> QED BY <2>2, <2>3, <2>4
<1>8. \A m : (\E i \in 1..n : m = Came[i]) <=> (\E i \in 1..n : m = Goes[i]) BY <1>6
<1>9. (\A j \in 1..n : \A i \in 1..(j - 1) : Came[i] \in older[Came[j]]) =>
        \A j \in 1..n : \A i \in 1..(j - 1) : ~Outranks(Goes[j], Goes[i])
  BY <1>7, Zenon
<1> QED BY <1>3, <1>4, <1>5, <1>8, <1>9, Zenon DEF n

(* The command that is due. *)
LEMMA BatchDue ==
  ASSUME scenario \in Batched, BatchInv, NEW ops, Runs(ops)
  PROVE  /\ at \in Nat /\ Both \in Nat
         /\ \/ at \in 1..Both /\ Cmd.op = "enqueue" /\ Cmd.msgs = {Came[at]}
            \/ at \in (Both + 1)..(2 * Both) /\ Cmd.op = "dispatch"
<1>1. /\ Both \in Nat /\ DOMAIN Script[scenario] = 1..(2 * Both)
      /\ \A i \in 1..Both : Script[scenario][i] = Command("enqueue", {Came[i]})
      /\ \A i \in (Both + 1)..(2 * Both) : Script[scenario][i] = Command("dispatch", {})
  BY BatchScript
<1>2. at \in 1..(2 * Both) BY <1>1 DEF Runs
<1>3. Both \in Nat BY <1>1
<1>4. at \in Nat /\ (at \in 1..Both \/ at \in (Both + 1)..(2 * Both)) BY <1>2, <1>3
<1>5. CASE at \in 1..Both
  <2>1. Cmd = Command("enqueue", {Came[at]}) BY <1>1, <1>5 DEF Cmd
  <2>2. Cmd.op = "enqueue" /\ Cmd.msgs = {Came[at]} BY <2>1 DEF Command
  <2> QED BY <1>3, <1>4, <1>5, <2>2, Zenon
<1>6. CASE at \in (Both + 1)..(2 * Both)
  <2>1. Cmd = Command("dispatch", {}) BY <1>1, <1>6 DEF Cmd
  <2>2. Cmd.op = "dispatch" BY <2>1 DEF Command
  <2> QED BY <1>3, <1>4, <1>6, <2>2, Zenon
<1> QED BY <1>4, <1>5, <1>6

(* The programs' messages do not change. *)
LEMMA BatchSame ==
  ASSUME scenario' = scenario
  PROVE  Late' = Late /\ Came' = Came /\ Goes' = Goes /\ Both' = Both
<1>1. Late' = Late BY Zenon DEF Late
<1> QED BY <1>1, Zenon DEF Came, Goes, Both

LEMMA BatchAdds ==
  ASSUME QueueInv, BatchInv, scenario \in Batched, scenario' = scenario,
         NEW m \in Messages, Adds(m)
  PROVE  BatchInv'
<1>1. /\ Runs({"enqueue", "maybe"}) /\ m \in Cmd.msgs /\ Enqueue(m)
      /\ at' = at + 1 /\ order' = order
  BY DEF Adds
<1>2. at \in 1..Both /\ Cmd.msgs = {Came[at]} /\ at \in Nat /\ Both \in Nat
  BY <1>1, BatchDue DEF Runs
<1>3. m = Came[at] BY <1>1, <1>2
<1>4. /\ \A x \in Messages : status'[x] = IF x = m THEN "queued" ELSE status[x]
      /\ \A x \in Messages : x # m => older'[x] = older[x] \ {m}
  BY <1>1, EnqueueEffect
<1>5. older'[m] = {x \in Messages : IsQueued(x)}
  <2>1. older' = [x \in Messages |-> IF x = m THEN Queued(Npg(m)) ELSE older[x] \ {m}]
    BY <1>1, Zenon DEF Enqueue
  <2>2. Npg(m) \in Npgs BY MessagesAssumption, Zenon
  <2>3. Queued(Npg(m)) = {x \in Messages : status[x] = "queued"} BY <2>2, AllQueuedAt, Zenon
  <2> QED BY <2>1, <2>3 DEF IsQueued
<1>6. /\ \A i, j \in 1..Both : Came[i] = Came[j] => i = j
      /\ \A i \in 1..Both : Came[i] \in Messages
      /\ \A x : (\E i \in 1..Both : x = Came[i]) <=> (\E i \in 1..Both : x = Goes[i])
  BY BatchOrder
<1>7. /\ \A j \in 1..Both : j < at => \A i \in 1..(j - 1) : Came[i] \in older[Came[j]]
      /\ order = <<>>
      /\ \A x \in Messages : IsQueued(x) <=> \E i \in 1..(at - 1) : x = Came[i]
  BY <1>2 DEF BatchInv
<1>8. Came' = Came /\ Goes' = Goes /\ Both' = Both BY BatchSame
<1>9. \A x \in Messages : IsQueued(x)' <=> \E i \in 1..at : x = Came[i]
  <2>1. \A i \in 1..at : i = at \/ i \in 1..(at - 1) BY <1>2
  <2>2. at \in 1..at /\ \A i \in 1..(at - 1) : i \in 1..at BY <1>2
  <2> QED BY <1>3, <1>4, <1>7, <2>1, <2>2, Zenon DEF IsQueued
<1>10. ASSUME NEW j \in 1..Both, j < at + 1, NEW i \in 1..(j - 1)
       PROVE  Came[i] \in older'[Came[j]]
  <2>1. i \in 1..Both /\ i < at /\ i < j BY <1>2, <1>10
  <2>2. CASE j = at
    <3>1. IsQueued(Came[i])
      <4>1. i \in 1..(at - 1) BY <1>2, <2>1
      <4> QED BY <1>6, <1>7, <2>1, <4>1, Zenon
    <3> QED BY <1>3, <1>5, <1>6, <2>1, <2>2, <3>1
  <2>3. CASE j # at
    <3>1. j < at BY <1>2, <1>10, <2>3
    <3>2. Came[i] \in older[Came[j]] BY <1>7, <1>10, <3>1
    <3>3. Came[i] # m /\ Came[j] # m /\ Came[j] \in Messages
      <4>1. i # at /\ j # at BY <1>2, <2>1, <2>3
      <4> QED BY <1>2, <1>3, <1>6, <1>10, <2>1, <4>1, Zenon
    <3> QED BY <1>4, <3>2, <3>3
  <2> QED BY <2>2, <2>3
<1>11. at' \in 1..(2 * Both + 1) BY <1>1, <1>2
<1>12. at' <= Both => /\ order' = <<>>
                      /\ \A x \in Messages : IsQueued(x)' <=> \E i \in 1..(at' - 1) : x = Came[i]
  <2>1. at' - 1 = at BY <1>1, <1>2
  <2> QED BY <1>1, <1>7, <1>9, <2>1, Zenon
<1>13. ASSUME at' > Both
       PROVE  /\ Len(order') = at' - Both - 1
              /\ \A i \in 1..Len(order') : order'[i] = Goes[i]
              /\ \A x \in Messages :
                   IsQueued(x)' <=> \E i \in (Len(order') + 1)..Both : x = Goes[i]
  <2>1. at = Both /\ Len(order') = 0 /\ at' - Both - 1 = 0 BY <1>1, <1>2, <1>7, <1>13
  <2>2. 1..Len(order') = {} /\ (Len(order') + 1)..Both = 1..Both BY <2>1
  <2>3. Len(order') = at' - Both - 1 BY <2>1
  <2>4. \A i \in 1..Len(order') : order'[i] = Goes[i]
    <3>1. ASSUME NEW i \in 1..Len(order') PROVE FALSE BY <2>2, <3>1, Zenon
    <3> QED BY <3>1, Zenon
  <2>5. \A x \in Messages :
          IsQueued(x)' <=> \E i \in (Len(order') + 1)..Both : x = Goes[i]
    <3>1. \A x \in Messages : IsQueued(x)' <=> \E i \in 1..Both : x = Came[i]
      BY <1>9, <2>1, Zenon
    <3>2. \A x \in Messages : IsQueued(x)' <=> \E i \in 1..Both : x = Goes[i]
      BY <1>6, <3>1, Zenon
    <3> QED BY <2>2, <3>2, Zenon
  <2> QED BY <2>3, <2>4, <2>5, Zenon
<1>14. \A j \in 1..Both : j < at' => \A i \in 1..(j - 1) : Came[i] \in older'[Came[j]]
  BY <1>1, <1>10, Zenon
<1> HIDE DEF Came, Goes, Both, IsQueued
<1>15. /\ at' \in 1..(2 * Both' + 1)
       /\ \A j \in 1..Both' : j < at' => \A i \in 1..(j - 1) : Came'[i] \in older'[Came'[j]]
  BY <1>8, <1>11, <1>14, Zenon
<1>16. at' <= Both' => /\ order' = <<>>
                       /\ \A x \in Messages : IsQueued(x)' <=> \E i \in 1..(at' - 1) : x = Came'[i]
  BY <1>8, <1>12, Zenon
<1>17. at' > Both' => /\ Len(order') = at' - Both' - 1
                      /\ \A i \in 1..Len(order') : order'[i] = Goes'[i]
                      /\ \A x \in Messages :
                           IsQueued(x)' <=> \E i \in (Len(order') + 1)..Both' : x = Goes'[i]
  BY <1>8, <1>13, Zenon
<1> QED BY <1>15, <1>16, <1>17, Zenon DEF BatchInv

(* Steps that move no message. *)
LEMMA BatchHolds ==
  ASSUME BatchInv, scenario \in Batched, scenario' = scenario,
         at' = at, order' = order, older' = older,
         \A m \in Messages : status'[m] = status[m]
  PROVE  BatchInv'
<1>1. Came' = Came /\ Goes' = Goes /\ Both' = Both BY BatchSame
<1>2. \A m \in Messages : IsQueued(m)' <=> IsQueued(m) BY Zenon DEF IsQueued
<1> QED BY <1>1, <1>2, Zenon DEF BatchInv

(* No purge takes any of them. *)
LEMMA BatchCleans ==
  ASSUME QueueInv, BatchInv, scenario \in Batched, scenario' = scenario,
         NEW w \in Workers, Cleans(w)
  PROVE  BatchInv'
<1>1. at' = at
  <2>1. ~Runs({"purge"})
    <3> SUFFICES ASSUME Runs({"purge"}) PROVE FALSE OBVIOUS
    <3>1. Cmd.op \in {"enqueue", "dispatch"} BY BatchDue
    <3> QED BY <3>1 DEF Runs
  <2> QED BY <2>1, Zenon DEF Cleans
<1>2. order' = order /\ older' = older BY DEF Cleans
<1>3. /\ \A i \in 1..Both : /\ Goes[i] \in Messages /\ Lasting(Goes[i])
                            /\ Came[i] \in Messages /\ Lasting(Came[i])
  BY BatchOrder
<1>4. ASSUME NEW m \in Messages, IsQueued(m) PROVE Lasting(m)
  <2>1. Both \in Nat /\ at \in Nat
    <3>1. Both \in Nat BY BatchScript
    <3> QED BY <3>1 DEF BatchInv
  <2>2. CASE at <= Both
    <3>1. PICK i \in 1..(at - 1) : m = Came[i] BY <1>4, <2>2 DEF BatchInv
    <3>2. i \in 1..Both BY <2>1, <2>2
    <3> QED BY <1>3, <3>1, <3>2
  <2>3. CASE at > Both
    <3>1. PICK i \in (Len(order) + 1)..Both : m = Goes[i] BY <1>4, <2>3 DEF BatchInv
    <3>2. Len(order) = at - Both - 1 BY <2>3 DEF BatchInv
    <3>3. i \in 1..Both BY <2>1, <2>3, <3>2
    <3> QED BY <1>3, <3>1, <3>3
  <2> QED BY <2>1, <2>2, <2>3
<1>5. ASSUME NEW m \in Messages PROVE status'[m] = status[m]
  <2>1. CASE IsQueued(m) BY <1>4, <2>1, LastingStays
  <2>2. CASE ~IsQueued(m)
    <3>1. slot[w] \in Npgs /\ Purge(slot[w], stamp[w]) BY DEF Cleans
    <3> QED BY <2>2, <3>1, PurgeOnlyTakes DEF IsQueued
  <2> QED BY <2>1, <2>2
<1> QED BY <1>1, <1>2, <1>5, BatchHolds

(* A dispatch sends the next one that goes. *)
LEMMA BatchSends ==
  ASSUME QueueInv, Calm, BatchInv, scenario \in Batched, scenario' = scenario,
         NEW w \in Workers, Sends(w)
  PROVE  BatchInv'
<1> DEFINE k == Len(order)
<1>1. Runs({"dispatch", "drain"}) /\ older' = older BY DEF Sends, SendsNone, SendsOne
<1>2. /\ at \in (Both + 1)..(2 * Both) /\ Cmd.op = "dispatch"
      /\ at \in Nat /\ Both \in Nat
  BY <1>1, BatchDue DEF Runs
<1>3. /\ \A i, j \in 1..Both : Goes[i] = Goes[j] => i = j
      /\ \A i \in 1..Both : Goes[i] \in Messages
      /\ (\A j \in 1..Both : \A i \in 1..(j - 1) : Came[i] \in older[Came[j]]) =>
           \A j \in 1..Both : \A i \in 1..(j - 1) : ~Outranks(Goes[j], Goes[i])
  BY BatchOrder
<1>4. /\ \A j \in 1..Both : j < at => \A i \in 1..(j - 1) : Came[i] \in older[Came[j]]
      /\ k = at - Both - 1 /\ \A i \in 1..k : order[i] = Goes[i]
      /\ \A m \in Messages : IsQueued(m) <=> \E i \in (k + 1)..Both : m = Goes[i]
  BY <1>2 DEF BatchInv
<1> HIDE DEF k
<1>5. \A j \in 1..Both : j < at BY <1>2
<1>6. k \in Nat /\ k + 1 \in 1..Both /\ k + 1 \in (k + 1)..Both BY <1>2, <1>4
<1>7. IsQueued(Goes[k + 1]) /\ Goes[k + 1] \in Messages BY <1>3, <1>4, <1>6
<1>8. PICK a \in Messages : SendsOne(a)
  <2>1. ~SendsNone BY <1>7 DEF SendsNone
  <2> QED BY <2>1 DEF Sends
<1>9. /\ IsQueued(a) /\ status' = [status EXCEPT ![a] = "sent"]
      /\ \A x \in Messages : IsQueued(x) /\ x # a => Outranks(a, x)
      /\ at' = at + 1 /\ order' = Append(order, a)
  BY <1>2, <1>8 DEF SendsOne
<1>10. PICK j \in (k + 1)..Both : a = Goes[j] BY <1>4, <1>9
<1>11. j = k + 1
  <2> SUFFICES ASSUME j # k + 1 PROVE FALSE OBVIOUS
  <2>1. j \in 1..Both /\ k + 1 \in 1..(j - 1) BY <1>6, <1>10
  <2>2. ~Outranks(Goes[j], Goes[k + 1]) BY <1>3, <1>4, <1>5, <2>1
  <2>3. Goes[k + 1] # a
    <3>1. k + 1 # j OBVIOUS
    <3> QED BY <1>3, <1>6, <1>10, <2>1, <3>1, Zenon
  <2> QED BY <1>7, <1>9, <1>10, <2>2, <2>3, Zenon
<1>12. /\ Len(order') = k + 1
       /\ \A i \in 1..(k + 1) : order'[i] = Goes[i]
  <2>1. order \in Seq(Messages) BY DEF Calm
  <2>2. /\ Len(order') = k + 1 /\ order'[k + 1] = a /\ \A i \in 1..k : order'[i] = order[i]
    BY <1>9, <2>1 DEF k
  <2>3. \A i \in 1..(k + 1) : i = k + 1 \/ i \in 1..k BY <1>6
  <2> QED BY <1>4, <1>10, <1>11, <2>2, <2>3, Zenon
<1>13. \A m \in Messages : IsQueued(m)' <=> \E i \in (k + 2)..Both : m = Goes[i]
  <2>1. status \in [Messages -> {"out", "queued", "sent", "purged"}] BY DEF QueueInv, TypesOK
  <2>2. \A m \in Messages : IsQueued(m)' <=> IsQueued(m) /\ m # a
    BY <1>9, <2>1 DEF IsQueued
  <2>3. \A i \in (k + 1)..Both : i \in (k + 2)..Both <=> i # k + 1 BY <1>6
  <2>4. \A i \in (k + 1)..Both : Goes[i] = a => i = k + 1
    <3>1. \A i \in (k + 1)..Both : i \in 1..Both BY <1>6
    <3> QED BY <1>3, <1>6, <1>10, <1>11, <3>1, Zenon
  <2>5. \A i \in (k + 2)..Both : i \in (k + 1)..Both BY <1>6
  <2> QED BY <1>4, <1>10, <1>11, <2>2, <2>3, <2>4, <2>5, Zenon
<1>14. /\ at' \in 1..(2 * Both + 1) /\ ~(at' <= Both)
       /\ Len(order') = at' - Both - 1 /\ Len(order') + 1 = k + 2
  BY <1>2, <1>4, <1>9, <1>12
<1>15. Came' = Came /\ Goes' = Goes /\ Both' = Both BY BatchSame
<1>16. \A i \in 1..Len(order') : order'[i] = Goes[i] BY <1>12
<1>17. \A m \in Messages : IsQueued(m)' <=> \E i \in (Len(order') + 1)..Both : m = Goes[i]
  BY <1>13, <1>14, Zenon
<1>18. \A i \in 1..Both : \A h \in 1..(i - 1) : Came[h] \in older'[Came[i]]
  BY <1>1, <1>4, <1>5, Zenon
<1> QED BY <1>14, <1>15, <1>16, <1>17, <1>18, Zenon DEF BatchInv

LEMMA BatchStep ==
  ASSUME QueueInv, Calm, BatchInv, scenario \in Batched, [ScenarioNext]_scenarioVars
  PROVE  BatchInv'
<1>1. scenario \in DOMAIN Script BY DEF Batched, Script
<1>2. /\ scenario' = scenario
      /\ \/ \E m \in Messages : Adds(m)
         \/ Skips \/ Rests \/ Sleeps
         \/ \E w \in Workers : Cleans(w) \/ Sends(w)
  BY <1>1, ProgramSteps
<1>3. ~Skips /\ ~Sleeps
  <2>1. ASSUME NEW op \in {"maybe", "sleep"}, Runs({op}) PROVE FALSE
    BY <2>1, BatchDue DEF Runs
  <2> QED BY <2>1 DEF Skips, Sleeps
<1>4. CASE Rests BY <1>2, <1>4, BatchHolds DEF Rests
<1> QED BY <1>2, <1>3, <1>4, BatchAdds, BatchCleans, BatchSends

(* Scenarios 1 and 3 end as the program expects. *)
LEMMA BatchEnds ==
  ASSUME Calm, BatchInv, scenario \in Batched, Over
  PROVE  order = Goes
<1>1. /\ Both \in Nat /\ Len(Goes) = Both /\ Goes \in Seq(Messages)
      /\ DOMAIN Script[scenario] = 1..(2 * Both)
  BY BatchScript
<1>2. at = 2 * Both + 1
  <2>1. at \in 1..(2 * Both + 1) BY DEF BatchInv
  <2>2. at \notin 1..(2 * Both) BY <1>1 DEF Over
  <2>3. Both \in Nat BY <1>1
  <2> QED BY <2>1, <2>2, <2>3
<1>3. Len(order) = Both /\ \A i \in 1..Both : order[i] = Goes[i]
  <2>1. at > Both /\ at - Both - 1 = Both
    <3>1. Both \in Nat BY <1>1
    <3> QED BY <1>2, <3>1
  <2> QED BY <2>1 DEF BatchInv
<1>4. order \in Seq(Messages) BY DEF Calm
<1> QED BY <1>1, <1>3, <1>4, SeqEqual
-----------------------------------------------------------------------------
(***************************************************************************)
(* Scenario 4.                                                             *)
(***************************************************************************)

(* The enqueues of Brief, the slots, three commands each, and the purge. *)
LEMMA StaleScript ==
  LET b == Len(Brief)
      h == Len(High)
      s == Script["staleness"]
  IN  /\ b \in Nat /\ h \in Nat /\ DOMAIN s = 1..(b + 3 * h + 1)
      /\ \A i \in 1..b : s[i] = Command("enqueue", {Brief[i]})
      /\ \A k \in 1..h : /\ s[b + 3 * (k - 1) + 1] = Command("enqueue", {High[k]})
                         /\ s[b + 3 * (k - 1) + 2] = Command("dispatch", {})
                         /\ s[b + 3 * (k - 1) + 3] = Command("sleep", {})
      /\ s[b + 3 * h + 1] = Command("purge", {})
<1> DEFINE b == Len(Brief) h == Len(High)
           x == Enqueues(Brief)
           ss == [i \in DOMAIN High |-> StaleSlot(i)]
           y == FlattenSeq(ss)
           z == <<Command("purge", {})>>
<1>1. Brief \in Seq(Messages) /\ High \in Seq(Messages) BY ScenariosAssumption, Zenon
<1>2. b \in Nat /\ h \in Nat /\ DOMAIN High = 1..h BY <1>1, LenProperties
<1>3. Script["staleness"] = (x \o y) \o z BY DEF Script
<1>4. x \in Seq(Commands) /\ Len(x) = b /\ \A i \in 1..b : x[i] = Command("enqueue", {Brief[i]})
  BY <1>1, EnqueuesTyped, Zenon
<1>5. z \in Seq(Commands) /\ Len(z) = 1 /\ z[1] = Command("purge", {})
  BY CommandTyped
<1> HIDE DEF x, z
<1>6. /\ y \in Seq(Commands) /\ Len(y) = 3 * h
      /\ \A k \in 1..h : \A r \in 1..3 : y[3 * (k - 1) + r] = StaleSlot(k)[r]
  <2>1. \A i \in 1..h : StaleSlot(i) \in Seq(Commands) /\ Len(StaleSlot(i)) = 3
    BY StaleSlotIs, Zenon
  <2> HIDE DEF h
  <2>2. ss \in [1..h -> Seq(Commands)] BY <1>2, <2>1
  <2>3. ss \in Seq(Seq(Commands)) /\ Len(ss) = h BY <1>2, <2>2
  <2>4. \A i \in 1..h : ss[i] = StaleSlot(i) BY <1>2
  <2> HIDE DEF ss
  <2>5. 3 \in {3, 4} /\ \A i \in 1..Len(ss) : Len(ss[i]) = 3 BY <2>1, <2>3, <2>4
  <2>6. /\ FlattenSeq(ss) \in Seq(Commands) /\ Len(FlattenSeq(ss)) = 3 * Len(ss)
        /\ \A i \in 1..Len(ss) : \A r \in 1..3 : FlattenSeq(ss)[3 * (i - 1) + r] = ss[i][r]
    BY <2>3, <2>5, FlattenEvenly
  <2> QED BY <2>3, <2>4, <2>6
<1> HIDE DEF y, b, h
<1> DEFINE u == x \o y
<1>7. /\ u \in Seq(Commands) /\ Len(u) = b + 3 * h
      /\ \A i \in 1..b : u[i] = x[i]
      /\ \A i \in 1..(3 * h) : u[b + i] = y[i]
  <2>1. x \in Seq(Commands) /\ y \in Seq(Commands) BY <1>4, <1>6, Zenon
  <2>2. /\ u \in Seq(Commands) /\ Len(u) = Len(x) + Len(y)
        /\ \A i \in 1..Len(x) : u[i] = x[i]
        /\ \A i \in 1..Len(y) : u[Len(x) + i] = y[i]
    BY <2>1, Joined
  <2> HIDE DEF u
  <2> QED BY <1>4, <1>6, <2>2, Zenon
<1> HIDE DEF u
<1> DEFINE v == u \o z
<1>8. /\ v \in Seq(Commands) /\ Len(v) = b + 3 * h + 1
      /\ \A i \in 1..(b + 3 * h) : v[i] = u[i]
      /\ v[b + 3 * h + 1] = z[1]
  <2>1. u \in Seq(Commands) /\ z \in Seq(Commands) BY <1>5, <1>7, Zenon
  <2>2. /\ v \in Seq(Commands) /\ Len(v) = Len(u) + Len(z)
        /\ \A i \in 1..Len(u) : v[i] = u[i]
        /\ \A i \in 1..Len(z) : v[Len(u) + i] = z[i]
    BY <2>1, Joined
  <2> HIDE DEF v
  <2>3. 1 \in 1..1 OBVIOUS
  <2> QED BY <1>5, <1>7, <2>2, <2>3, Zenon
<1>9. Script["staleness"] = v BY <1>3 DEF u
<1> HIDE DEF v
<1>10. DOMAIN v = 1..(b + 3 * h + 1) BY <1>8, LenProperties, Zenon
<1>11. \A i \in 1..b : v[i] = Command("enqueue", {Brief[i]})
  <2>1. \A i \in 1..b : i \in 1..(b + 3 * h) BY <1>2
  <2> QED BY <1>4, <1>7, <1>8, <2>1, Zenon
<1>12. ASSUME NEW k \in 1..h, NEW r \in 1..3 PROVE v[b + 3 * (k - 1) + r] = StaleSlot(k)[r]
  <2> DEFINE i == 3 * (k - 1) + r
  <2>1. i \in 1..(3 * h) /\ b + i \in 1..(b + 3 * h) /\ b + i = b + 3 * (k - 1) + r BY <1>2
  <2>2. y[i] = StaleSlot(k)[r] BY <1>6
  <2> HIDE DEF i
  <2> QED BY <1>7, <1>8, <2>1, <2>2, Zenon
<1>13. \A k \in 1..h : /\ v[b + 3 * (k - 1) + 1] = Command("enqueue", {High[k]})
                       /\ v[b + 3 * (k - 1) + 2] = Command("dispatch", {})
                       /\ v[b + 3 * (k - 1) + 3] = Command("sleep", {})
  <2>1. 1 \in 1..3 /\ 2 \in 1..3 /\ 3 \in 1..3 OBVIOUS
  <2>2. \A k \in 1..h : /\ StaleSlot(k)[1] = Command("enqueue", {High[k]})
                        /\ StaleSlot(k)[2] = Command("dispatch", {})
                        /\ StaleSlot(k)[3] = Command("sleep", {})
    BY StaleSlotIs, Zenon DEF h
  <2> QED BY <1>12, <2>1, <2>2, Zenon
<1>14. v[b + 3 * h + 1] = Command("purge", {}) BY <1>5, <1>8, Zenon
<1> QED BY <1>2, <1>9, <1>10, <1>11, <1>13, <1>14, Zenon DEF b, h

(* What is sent lasts and goes ahead of what waits. *)
LEMMA StaleMessages ==
  /\ Brief \in Seq(Messages) /\ High \in Seq(Messages)
  /\ \A i, j \in 1..Len(Brief) : Brief[i] = Brief[j] => i = j
  /\ \A i \in 1..Len(Brief) : Brief[i] \in Messages /\ Brief[i] \in Range(Brief)
  /\ \A m \in Range(Brief) : /\ m \in Messages /\ \E i \in 1..Len(Brief) : m = Brief[i]
                             /\ Staleness(m) \in 1..(Len(High) - 1)
  /\ \A i \in 1..Len(High) : /\ High[i] \in Messages /\ High[i] \notin Range(Brief)
                             /\ Lasting(High[i])
                             /\ \A m \in Range(Brief) : ~Outranks(m, High[i])
<1>1. /\ Brief \in Seq(Messages) /\ High \in Seq(Messages) /\ IsInjective(Brief)
      /\ \A m \in Range(Brief) : ~Terminal(m) /\ Priority(m) = 1
      /\ \A m \in Range(High) : ~Terminal(m) /\ Priority(m) = 4
      /\ \A m \in Range(Brief) : Staleness(m) \in 1..(Len(High) - 1)
  BY ScenariosAssumption, Zenon
<1>2. DOMAIN Brief = 1..Len(Brief) /\ DOMAIN High = 1..Len(High) BY <1>1, LenProperties
<1>3. \A i, j \in 1..Len(Brief) : Brief[i] = Brief[j] => i = j
  BY <1>1, <1>2, Zenon DEF IsInjective
<1>4. \A i \in 1..Len(Brief) : Brief[i] \in Messages /\ Brief[i] \in Range(Brief)
  <2>1. \A i \in 1..Len(Brief) : Brief[i] \in Messages BY <1>1, ElementOfSeq
  <2> QED BY <1>2, <2>1, Zenon DEF Range
<1>5. \A m \in Range(Brief) : m \in Messages /\ \E i \in 1..Len(Brief) : m = Brief[i]
  BY <1>2, <1>4, Zenon DEF Range
<1>6. ASSUME NEW i \in 1..Len(High)
      PROVE  /\ High[i] \in Messages /\ High[i] \notin Range(Brief) /\ Lasting(High[i])
             /\ \A m \in Range(Brief) : ~Outranks(m, High[i])
  <2>1. High[i] \in Messages BY <1>1, ElementOfSeq
  <2>2. High[i] \in Range(High) BY <1>2, Zenon DEF Range
  <2>3. ~Terminal(High[i]) /\ Priority(High[i]) = 4 BY <1>1, <2>2, Zenon
  <2>4. \A m \in Range(Brief) : ~Outranks(m, High[i]) BY <1>1, <2>3 DEF Outranks
  <2>5. High[i] \notin Range(Brief)
    <3>1. 1 # 4 OBVIOUS
    <3> QED BY <1>1, <2>3, <3>1, Zenon
  <2>6. Lasting(High[i])
    <3>1. Staleness(High[i]) > MaxNow BY <2>2, LimitsLast
    <3> QED BY <3>1, Zenon DEF Lasting
  <2> QED BY <2>1, <2>4, <2>5, <2>6
<1> QED BY <1>1, <1>3, <1>4, <1>5, <1>6, Zenon

(* The command that is due. *)
LEMMA StaleDue ==
  ASSUME Calm, StaleInv, scenario = "staleness", NEW ops, Runs(ops)
  PROVE  LET b == Len(Brief)
             h == Len(High)
             l == Len(order)
         IN /\ b \in Nat /\ h \in Nat /\ l \in Nat /\ at \in Nat /\ l <= h
            /\ \/ /\ at \in 1..b /\ l = 0
                  /\ Cmd.op = "enqueue" /\ Cmd.msgs = {Brief[at]}
               \/ /\ at = b + 3 * l + 1 /\ l < h
                  /\ Cmd.op = "enqueue" /\ Cmd.msgs = {High[l + 1]}
               \/ at = b + 3 * l + 2 /\ l < h /\ Cmd.op = "dispatch"
               \/ at = b + 3 * l /\ l > 0 /\ Cmd.op = "sleep"
               \/ at = b + 3 * l + 1 /\ l = h /\ Cmd.op = "purge"
<1> DEFINE b == Len(Brief) h == Len(High) l == Len(order)
<1>1. /\ b \in Nat /\ h \in Nat /\ DOMAIN Script[scenario] = 1..(b + 3 * h + 1)
      /\ \A i \in 1..b : Script[scenario][i] = Command("enqueue", {Brief[i]})
      /\ \A k \in 1..h : /\ Script[scenario][b + 3 * (k - 1) + 1] = Command("enqueue", {High[k]})
                         /\ Script[scenario][b + 3 * (k - 1) + 2] = Command("dispatch", {})
                         /\ Script[scenario][b + 3 * (k - 1) + 3] = Command("sleep", {})
      /\ Script[scenario][b + 3 * h + 1] = Command("purge", {})
  BY StaleScript
<1>2. at \in 1..(b + 3 * h + 1) BY <1>1, Zenon DEF Runs
<1>3. l \in Nat BY LenProperties DEF Calm
<1>4. /\ l <= h /\ (l > 0 => at >= b + 3 * l)
      /\ (l < h => at <= b + 3 * l + 2)
  BY Zenon DEF StaleInv, Slept
<1>5. /\ \A m : Command("enqueue", {m}).op = "enqueue" /\ Command("enqueue", {m}).msgs = {m}
      /\ Command("dispatch", {}).op = "dispatch" /\ Command("sleep", {}).op = "sleep"
      /\ Command("purge", {}).op = "purge"
  BY DEF Command
<1> HIDE DEF b, h, l
<1>6. \/ at \in 1..b /\ l = 0
      \/ at = b + 3 * l + 1 /\ l < h
      \/ at = b + 3 * l + 2 /\ l < h
      \/ at = b + 3 * l /\ l > 0
      \/ at = b + 3 * l + 1 /\ l = h
  BY <1>1, <1>2, <1>3, <1>4
<1>7. at \in Nat BY DEF Calm
<1>8. \/ at \in 1..b /\ l = 0 /\ Cmd.op = "enqueue" /\ Cmd.msgs = {Brief[at]}
      \/ at = b + 3 * l + 1 /\ l < h /\ Cmd.op = "enqueue" /\ Cmd.msgs = {High[l + 1]}
      \/ at = b + 3 * l + 2 /\ l < h /\ Cmd.op = "dispatch"
      \/ at = b + 3 * l /\ l > 0 /\ Cmd.op = "sleep"
      \/ at = b + 3 * l + 1 /\ l = h /\ Cmd.op = "purge"
  <2>1. at = b + 3 * l + 1 /\ l < h => Cmd.op = "enqueue" /\ Cmd.msgs = {High[l + 1]}
    <3>1. CASE l < h
      <4>1. l + 1 \in 1..h /\ b + 3 * ((l + 1) - 1) + 1 = b + 3 * l + 1 BY <1>1, <1>3, <3>1
      <4>2. Script[scenario][b + 3 * l + 1] = Command("enqueue", {High[l + 1]}) BY <1>1, <4>1
      <4>3. at = b + 3 * l + 1 => Cmd = Command("enqueue", {High[l + 1]})
        BY <4>2, Zenon DEF Cmd
      <4> QED BY <1>5, <4>3, Zenon
    <3> QED BY <3>1, Zenon
  <2>2. at = b + 3 * l + 2 /\ l < h => Cmd.op = "dispatch"
    <3>1. CASE l < h
      <4>1. l + 1 \in 1..h /\ b + 3 * ((l + 1) - 1) + 2 = b + 3 * l + 2 BY <1>1, <1>3, <3>1
      <4>2. Script[scenario][b + 3 * l + 2] = Command("dispatch", {}) BY <1>1, <4>1
      <4> QED BY <1>5, <4>2, Zenon DEF Cmd
    <3> QED BY <3>1, Zenon
  <2>3. at = b + 3 * l /\ l > 0 => Cmd.op = "sleep"
    <3>1. CASE at = b + 3 * l /\ l > 0
      <4>1. l \in 1..h /\ b + 3 * (l - 1) + 3 = b + 3 * l BY <1>1, <1>3, <1>4, <3>1
      <4> QED BY <1>1, <1>5, <3>1, <4>1, Zenon DEF Cmd
    <3> QED BY <3>1, Zenon
  <2>4. at \in 1..b => Cmd.op = "enqueue" /\ Cmd.msgs = {Brief[at]}
    <3>1. \A i \in 1..b : Script[scenario][i] = Command("enqueue", {Brief[i]}) BY <1>1, Zenon
    <3>2. at \in 1..b => Cmd = Command("enqueue", {Brief[at]}) BY <3>1, Zenon DEF Cmd
    <3> QED BY <1>5, <3>2, Zenon
  <2>5. at = b + 3 * l + 1 /\ l = h => Cmd.op = "purge"
    <3>1. Script[scenario][b + 3 * h + 1] = Command("purge", {}) BY <1>1, Zenon
    <3>2. at = b + 3 * l + 1 /\ l = h => Cmd = Command("purge", {}) BY <3>1, Zenon DEF Cmd
    <3> QED BY <1>5, <3>2, Zenon
  <2> QED BY <1>6, <2>1, <2>2, <2>3, <2>4, <2>5, Zenon
<1> QED BY <1>1, <1>3, <1>4, <1>7, <1>8, Zenon DEF b, h, l

(* A step puts nothing of Brief in the queues, and counts no sleep; a last  *)
(* purge begins after all sleeps.                                           *)
NoneCome == \A n \in Npgs : \A i \in 1..Len(queues'[n]) :
              queues'[n][i].msg \in Range(Brief) =>
                \E j \in 1..Len(queues[n]) : queues'[n][i] = queues[n][j]
NoneSlept == \A s \in 0..Len(High) : at' > Slept(s) => at > Slept(s)
PurgesLast == \A w \in Workers : pc'[w] = "purge only" =>
                \/ pc[w] = "purge only" /\ stamp'[w] = stamp[w]
                \/ at > Slept(Len(High)) /\ stamp'[w] = now

(* What is left of Brief only ages. *)
LEMMA AgeHolds ==
  ASSUME QueueInv, AgeInv, now' = now \/ now' = now + 1, NoneCome, NoneSlept, PurgesLast
  PROVE  AgeInv'
<1> SUFFICES ASSUME NEW n \in Npgs, NEW i \in 1..Len(queues'[n]),
                    queues'[n][i].msg \in Range(Brief)
             PROVE  /\ \A s \in 0..Len(High) : at' > Slept(s) =>
                          queues'[n][i].enqueuedAt + s <= now'
                    /\ \A w \in Workers : pc'[w] = "purge only" =>
                          queues'[n][i].enqueuedAt + Len(High) <= stamp'[w]
  BY Zenon DEF AgeInv, Slept
<1>1. PICK j \in 1..Len(queues[n]) : queues'[n][i] = queues[n][j] BY Zenon DEF NoneCome
<1> DEFINE e == queues[n][j]
<1>2. e \in Entries
  <2>1. queues[n] \in Seq(Entries) BY DEF QueueInv, QueueOK
  <2> QED BY <2>1, ElementOfSeq
<1> DEFINE h == Len(High) a == e.enqueuedAt
<1>3. now \in Nat
  <2>1. MaxNow \in Nat /\ now \in 0..MaxNow BY MessagesAssumption DEF QueueInv, TypesOK
  <2> QED BY <2>1
<1>4. h \in Nat
  <2>1. High \in Seq(Messages) BY ScenariosAssumption, Zenon
  <2> QED BY <2>1, LenProperties
<1>5. a \in Nat
  <2>1. MaxNow \in Nat BY MessagesAssumption
  <2> HIDE DEF e
  <2> QED BY <1>2, <2>1 DEF Entries
<1>6. /\ \A s \in 0..h : at > Slept(s) => a + s <= now
      /\ \A w \in Workers : pc[w] = "purge only" => a + h <= stamp[w]
  <2>1. e.msg \in Range(Brief) BY <1>1, Zenon
  <2> QED BY <2>1, Zenon DEF AgeInv
<1>7. queues'[n][i].enqueuedAt = a BY <1>1, Zenon
<1> HIDE DEF e, a, h
<1>8. ASSUME NEW s \in 0..h, at' > Slept(s) PROVE a + s <= now'
  <2>1. at > Slept(s) BY <1>8, Zenon DEF h, NoneSlept
  <2>2. a + s <= now BY <1>6, <2>1, Zenon
  <2>3. s \in Nat BY <1>4
  <2> QED BY <1>3, <1>5, <2>2, <2>3
<1>9. ASSUME NEW w \in Workers, pc'[w] = "purge only" PROVE a + h <= stamp'[w]
  <2>1. CASE pc[w] = "purge only" /\ stamp'[w] = stamp[w] BY <1>6, <2>1, Zenon
  <2>2. CASE at > Slept(h) /\ stamp'[w] = now
    <3>1. h \in 0..h BY <1>4
    <3> QED BY <1>6, <2>2, <3>1, Zenon
  <2> QED BY <1>9, <2>1, <2>2, Zenon DEF h, PurgesLast
<1> QED BY <1>7, <1>8, <1>9, Zenon DEF h

(* StaleInv only looks at these. *)
LEMMA StaleHolds ==
  ASSUME StaleInv, at' = at, order' = order, \A m \in Messages : status'[m] = status[m]
  PROVE  StaleInv'
<1>1. \A m \in Messages : IsQueued(m)' <=> IsQueued(m) BY Zenon DEF IsQueued
<1>2. \A i \in 1..Len(Brief) : status'[Brief[i]] = status[Brief[i]] BY StaleMessages, Zenon
<1> QED BY <1>1, <1>2, Zenon DEF StaleInv, Slept

(* An enqueue adds one entry, with the clock's reading. *)
LEMMA EnqueueEntries ==
  ASSUME QueueInv, NEW m \in Messages, Enqueue(m)
  PROVE  /\ now' = now /\ pc' = pc /\ stamp' = stamp
         /\ \A n \in Npgs : \A i \in 1..Len(queues'[n]) :
              \/ \E j \in 1..Len(queues[n]) : queues'[n][i] = queues[n][j]
              \/ queues'[n][i] = Stamped(m)
<1>1. /\ queues' = [queues EXCEPT ![Npg(m)] = Append(@, Stamped(m))]
      /\ now' = now /\ pc' = pc /\ stamp' = stamp
  BY DEF Enqueue, workerVars
<1>2. queues = [n \in Npgs |-> queues[n]] BY DEF QueueInv, TypesOK
<1> SUFFICES ASSUME NEW n \in Npgs, NEW i \in 1..Len(queues'[n])
             PROVE  \/ \E j \in 1..Len(queues[n]) : queues'[n][i] = queues[n][j]
                    \/ queues'[n][i] = Stamped(m)
  BY <1>1, Zenon
<1>3. queues'[n] = IF n = Npg(m) THEN Append(queues[n], Stamped(m)) ELSE queues[n]
  BY <1>1, <1>2
<1>4. CASE n = Npg(m)
  <2> DEFINE q == queues[n] e == Stamped(m)
  <2>1. q \in Seq(Entries) BY DEF QueueInv, QueueOK
  <2>2. queues'[n] = Append(q, e) BY <1>3, <1>4
  <2>3. e \in Entries
    <3>1. now \in 0..MaxNow BY DEF QueueInv, TypesOK
    <3> QED BY <3>1 DEF Stamped, Entries
  <2> HIDE DEF q, e
  <2>4. Len(q) \in Nat BY <2>1, LenProperties
  <2>5. /\ Len(Append(q, e)) = Len(q) + 1 /\ Append(q, e)[Len(q) + 1] = e
        /\ \A j \in 1..Len(q) : Append(q, e)[j] = q[j]
    BY <2>1, <2>3, AppendProperties
  <2>6. i \in 1..(Len(q) + 1) BY <2>2, <2>5, Zenon
  <2>7. i = Len(q) + 1 \/ i \in 1..Len(q) BY <2>4, <2>6
  <2> QED BY <2>2, <2>5, <2>7, Zenon DEF q, e
<1>5. CASE n # Npg(m) BY <1>3, <1>5
<1> QED BY <1>4, <1>5

LEMMA StaleAdds ==
  ASSUME QueueInv, Calm, StaleInv, AgeInv, scenario = "staleness", NEW m \in Messages, Adds(m)
  PROVE  StaleInv' /\ AgeInv'
<1> DEFINE b == Len(Brief) h == Len(High) l == Len(order)
<1>1. /\ Runs({"enqueue", "maybe"}) /\ m \in Cmd.msgs /\ Enqueue(m)
      /\ \A w \in Workers : pc[w] = "idle"
      /\ at' = at + 1 /\ order' = order
  BY DEF Adds
<1>2. b \in Nat /\ h \in Nat /\ l \in Nat /\ at \in Nat /\ l <= h
      /\ \/ at \in 1..b /\ l = 0 /\ m = Brief[at]
         \/ at = b + 3 * l + 1 /\ l < h /\ m = High[l + 1]
  BY <1>1, StaleDue DEF Runs
<1>3. b \in Nat BY <1>2
<1>4. h \in Nat BY <1>2
<1>5. l \in Nat BY <1>2
<1>6. at \in Nat BY <1>2
<1>7. \A x \in Messages : status'[x] = IF x = m THEN "queued" ELSE status[x]
  BY <1>1, EnqueueEffect
<1>8. /\ \A i \in 1..l : order[i] = High[i]
      /\ \A x \in Messages \ Range(Brief) :
            IsQueued(x) <=> l < h /\ at = b + 3 * l + 2 /\ x = High[l + 1]
      /\ \A i \in 1..b : i < at => status[Brief[i]] \in {"queued", "purged"}
  BY Zenon DEF StaleInv, Slept
<1>9. /\ now' = now /\ pc' = pc /\ stamp' = stamp
      /\ \A n \in Npgs : \A i \in 1..Len(queues'[n]) :
           \/ \E j \in 1..Len(queues[n]) : queues'[n][i] = queues[n][j]
           \/ queues'[n][i] = Stamped(m)
  BY <1>1, EnqueueEntries
<1>10. /\ \A i \in 1..b : Brief[i] \in Messages /\ Brief[i] \in Range(Brief)
       /\ \A i \in 1..h : High[i] \notin Range(Brief)
  BY StaleMessages, Zenon
<1>11. PurgesLast
  <2>1. \A w \in Workers : pc'[w] # "purge only" BY <1>1, <1>9
  <2> QED BY <2>1, Zenon DEF PurgesLast
<1> HIDE DEF b, h, l
<1>12. /\ at' \in 1..(b + 3 * h + 2) /\ (l > 0 => at' >= b + 3 * l)
       /\ (l < h => at' <= b + 3 * l + 2) /\ at' # b + 3 * h + 2
  <2>1. at' = at + 1 BY <1>1
  <2> QED BY <1>2, <1>3, <1>4, <1>5, <1>6, <2>1
<1>13. ASSUME NEW i \in 1..b, i < at' PROVE status'[Brief[i]] \in {"queued", "purged"}
  <2>1. i < at \/ i = at BY <1>1, <1>6, <1>13
  <2>2. CASE Brief[i] = m BY <1>7, <1>10, <2>2
  <2>3. CASE Brief[i] # m
    <3>1. ~(at \in 1..b /\ i = at) BY <1>2, <1>10, <2>3
    <3>2. i < at BY <2>1, <3>1
    <3> QED BY <1>7, <1>8, <1>10, <2>3, <3>2
  <2> QED BY <2>2, <2>3
<1>14. ASSUME NEW x \in Messages \ Range(Brief)
       PROVE  IsQueued(x)' <=> l < h /\ at' = b + 3 * l + 2 /\ x = High[l + 1]
  <2>1. at # b + 3 * l + 2 BY <1>2, <1>3, <1>4, <1>5, <1>6
  <2>2. IsQueued(x)' <=> x = m
    <3>1. ~IsQueued(x) BY <1>8, <2>1
    <3> QED BY <1>7, <3>1 DEF IsQueued
  <2>3. CASE at \in 1..b /\ l = 0 /\ m = Brief[at]
    <3>1. x # m BY <1>10, <2>3
    <3>2. at' # b + 3 * l + 2 BY <1>1, <1>3, <2>3
    <3> QED BY <2>2, <3>1, <3>2, Zenon
  <2>4. CASE at = b + 3 * l + 1 /\ l < h /\ m = High[l + 1]
    <3>1. at' = b + 3 * l + 2 BY <1>1, <1>3, <1>5, <2>4
    <3> QED BY <2>2, <2>4, <3>1, Zenon
  <2> QED BY <1>2, <2>3, <2>4, Zenon
<1>15. StaleInv'
  <2>1. Len(order') = l /\ order' = order BY <1>1, Zenon DEF l
  <2> QED BY <1>2, <1>8, <1>12, <1>13, <1>14, <2>1, Zenon DEF StaleInv, Slept, b, h
<1>16. AgeInv'
  <2>1. CASE at \in 1..b /\ l = 0 /\ m = Brief[at]
    <3>1. \A s \in 0..h : at' > b + 3 * s => s = 0 BY <1>1, <1>3, <1>4, <2>1
    <3>2. ASSUME NEW n \in Npgs, NEW i \in 1..Len(queues'[n])
          PROVE  queues'[n][i].enqueuedAt + 0 <= now'
      <4>1. now \in Nat /\ MaxNow \in Nat BY ClockTyped, MessagesAssumption
      <4>2. CASE queues'[n][i] = Stamped(m)
        <5>1. queues'[n][i].enqueuedAt = now BY <4>2 DEF Stamped
        <5> QED BY <1>9, <4>1, <5>1
      <4>3. ASSUME NEW j \in 1..Len(queues[n]), queues'[n][i] = queues[n][j]
            PROVE  queues'[n][i].enqueuedAt + 0 <= now'
        <5>1. queues[n] \in Seq(Entries) /\ InPast(queues[n], now) BY DEF QueueInv, QueueOK
        <5>2. queues[n][j] \in Entries BY <5>1, ElementOfSeq
        <5>3. queues[n][j].enqueuedAt <= now BY <5>1 DEF InPast
        <5>4. queues[n][j].enqueuedAt \in Nat BY <4>1, <5>2 DEF Entries
        <5> QED BY <1>9, <4>1, <4>3, <5>3, <5>4
      <4> QED BY <1>9, <4>2, <4>3
    <3>3. \A w \in Workers : pc'[w] # "purge only" BY <1>1, <1>9
    <3> QED BY <3>1, <3>2, <3>3, Zenon DEF AgeInv, Slept, b, h
  <2>2. CASE at = b + 3 * l + 1 /\ l < h /\ m = High[l + 1]
    <3>1. NoneCome
      <4>1. l + 1 \in 1..h BY <1>4, <1>5, <2>2
      <4>2. Stamped(m).msg \notin Range(Brief) BY <1>10, <2>2, <4>1 DEF Stamped
      <4> QED BY <1>9, <4>2, Zenon DEF NoneCome
    <3>2. \A s \in 0..h : at' > b + 3 * s => at > b + 3 * s
      BY <1>1, <1>3, <1>4, <1>5, <2>2
    <3>3. NoneSlept BY <3>2, Zenon DEF NoneSlept, Slept, b, h
    <3> QED BY <1>9, <1>11, <3>1, <3>3, AgeHolds
  <2> QED BY <1>2, <2>1, <2>2, Zenon
<1> QED BY <1>15, <1>16

(* Steps between which no message moves, and sleeps. *)
LEMMA StaleRests ==
  ASSUME QueueInv, Calm, StaleInv, AgeInv, scenario = "staleness", Rests
  PROVE  StaleInv' /\ AgeInv'
<1>1. /\ queues' = queues /\ status' = status /\ at' = at /\ order' = order
      /\ now' = now \/ now' = now + 1
      /\ \A w \in Workers : pc'[w] = "purge only" =>
            \/ pc[w] = "purge only" /\ stamp'[w] = stamp[w]
            \/ Runs({"purge"}) /\ stamp'[w] = now
  BY DEF Rests
<1>2. StaleInv' BY <1>1, StaleHolds
<1>3. NoneCome BY <1>1, Zenon DEF NoneCome
<1>4. NoneSlept BY <1>1, Zenon DEF NoneSlept
<1>5. Runs({"purge"}) => at > Slept(Len(High))
  <2> SUFFICES ASSUME Runs({"purge"}) PROVE at > Slept(Len(High)) OBVIOUS
  <2> DEFINE b == Len(Brief) h == Len(High) l == Len(order)
  <2>1. b \in Nat /\ h \in Nat /\ l \in Nat /\ at = b + 3 * l + 1 /\ l = h
    BY StaleDue DEF Runs
  <2> HIDE DEF b, h, l
  <2>2. at > b + 3 * h BY <2>1
  <2> QED BY <2>2 DEF Slept, b, h
<1>6. PurgesLast BY <1>1, <1>5, Zenon DEF PurgesLast
<1> QED BY <1>1, <1>2, <1>3, <1>4, <1>6, AgeHolds

LEMMA StaleSleeps ==
  ASSUME QueueInv, Calm, StaleInv, AgeInv, scenario = "staleness", Sleeps
  PROVE  StaleInv' /\ AgeInv'
<1> DEFINE b == Len(Brief) h == Len(High) l == Len(order)
<1>1. /\ Runs({"sleep"}) /\ \A w \in Workers : pc[w] = "idle"
      /\ at' = at + 1 /\ now' = now + 1 /\ order' = order
      /\ queues' = queues /\ pc' = pc /\ status' = status
  BY DEF Sleeps
<1>2. b \in Nat /\ h \in Nat /\ l \in Nat /\ l <= h /\ at = b + 3 * l /\ l > 0
  BY <1>1, StaleDue DEF Runs
<1>3. b \in Nat BY <1>2
<1>4. h \in Nat BY <1>2
<1>5. l \in Nat BY <1>2
<1>6. /\ \A i \in 1..l : order[i] = High[i]
      /\ \A x \in Messages \ Range(Brief) :
            IsQueued(x) <=> l < h /\ at = b + 3 * l + 2 /\ x = High[l + 1]
      /\ \A i \in 1..b : i < at => status[Brief[i]] \in {"queued", "purged"}
  BY Zenon DEF StaleInv, Slept
<1>7. AgeInv'
  <2> SUFFICES ASSUME NEW n \in Npgs, NEW i \in 1..Len(queues[n]),
                      queues[n][i].msg \in Range(Brief)
               PROVE  \A s \in 0..Len(High) : at' > Slept(s) => queues[n][i].enqueuedAt + s <= now'
    BY <1>1, Zenon DEF AgeInv, Slept
  <2> DEFINE a == queues[n][i].enqueuedAt
  <2>1. now \in Nat BY ClockTyped
  <2>2. a \in Nat
    <3>1. queues[n] \in Seq(Entries) BY DEF QueueInv, QueueOK
    <3>2. queues[n][i] \in Entries BY <3>1, ElementOfSeq
    <3> QED BY <3>2, MessagesAssumption DEF Entries
  <2>3. \A s \in 0..h : at > Slept(s) => a + s <= now BY Zenon DEF AgeInv
  <2> HIDE DEF a, b, h, l
  <2>4. ASSUME NEW s \in 0..h, at' > Slept(s) PROVE a + s <= now'
    <3>1. at' > b + 3 * s BY <2>4, Zenon DEF Slept, b
    <3>2. s \in Nat /\ s <= l BY <1>1, <1>2, <1>3, <1>4, <1>5, <3>1
    <3>3. CASE s = 0
      <4>1. 0 \in 0..h /\ at > b + 3 * 0 BY <1>2, <1>3, <1>4, <1>5
      <4>2. a + 0 <= now BY <2>3, <4>1, Zenon DEF Slept, b
      <4> QED BY <1>1, <2>1, <2>2, <3>3, <4>2
    <3>4. CASE s # 0
      <4>1. s - 1 \in 0..h /\ at > b + 3 * (s - 1)
        BY <1>2, <1>3, <1>4, <1>5, <3>2, <3>4
      <4>2. a + (s - 1) <= now BY <2>3, <4>1, Zenon DEF Slept, b
      <4> QED BY <1>1, <2>1, <2>2, <3>2, <4>2
    <3> QED BY <3>3, <3>4
  <2> QED BY <2>4, Zenon DEF a, h
<1> HIDE DEF b, h, l
<1>8. /\ at' \in 1..(b + 3 * h + 2) /\ (l > 0 => at' >= b + 3 * l)
      /\ (l < h => at' <= b + 3 * l + 2) /\ at' # b + 3 * h + 2
      /\ at' # b + 3 * l + 2 /\ at # b + 3 * l + 2
      /\ \A i \in 1..b : i < at
  BY <1>1, <1>2, <1>3, <1>4, <1>5
<1>9. Len(order') = l BY <1>1, Zenon DEF l
<1>10. /\ \A x : IsQueued(x)' <=> IsQueued(x)
       /\ \A i : status'[Brief[i]] = status[Brief[i]]
  BY <1>1, Zenon DEF IsQueued
<1>11. \A x \in Messages \ Range(Brief) :
         IsQueued(x)' <=> l < h /\ at' = b + 3 * l + 2 /\ x = High[l + 1]
  BY <1>6, <1>8, <1>10, Zenon
<1>12. StaleInv'
  BY <1>1, <1>2, <1>6, <1>8, <1>9, <1>10, <1>11, Zenon DEF StaleInv, Slept, b, h
<1> QED BY <1>7, <1>12

(* A purge takes none but those of Brief, and the last one takes them all. *)
LEMMA StaleCleans ==
  ASSUME QueueInv, Calm, StaleInv, AgeInv, scenario = "staleness",
         NEW w \in Workers, Cleans(w)
  PROVE  StaleInv' /\ AgeInv'
<1> DEFINE b == Len(Brief) h == Len(High) l == Len(order) n == slot[w] t == stamp[w]
<1>1. /\ n \in Npgs /\ Purge(n, t) /\ now' = now /\ older' = older /\ order' = order
      /\ \A v \in Workers : pc'[v] # "purge only"
      /\ \/ pc[w] = "purge" /\ Runs({"dispatch", "drain"}) /\ at' = at
         \/ pc[w] = "purge only" /\ Runs({"purge"}) /\ at' = at + 1
  BY DEF Cleans
<1>2. b \in Nat /\ h \in Nat /\ l \in Nat /\ at \in Nat /\ l <= h
      /\ \/ at = b + 3 * l + 2 /\ l < h /\ at' = at
         \/ at = b + 3 * l + 1 /\ l = h /\ at' = at + 1
      /\ (l = h => pc[w] = "purge only")
  <2>1. CASE pc[w] = "purge" /\ Runs({"dispatch", "drain"}) /\ at' = at
    <3>1. Runs({"dispatch", "drain"}) BY <2>1
    <3>2. /\ b \in Nat /\ h \in Nat /\ l \in Nat /\ at \in Nat /\ l <= h
          /\ at = b + 3 * l + 2 /\ l < h
      BY <3>1, StaleDue DEF Runs
    <3> HIDE DEF b, h, l
    <3>3. l # h BY <3>2
    <3> QED BY <2>1, <3>2, <3>3, Zenon
  <2>2. CASE pc[w] = "purge only" /\ Runs({"purge"}) /\ at' = at + 1
    <3>1. Runs({"purge"}) BY <2>2
    <3> QED BY <2>2, <3>1, StaleDue DEF Runs
  <2> QED BY <1>1, <2>1, <2>2
<1>3. b \in Nat BY <1>2
<1>4. h \in Nat BY <1>2
<1>5. l \in Nat BY <1>2
<1>6. /\ \A i \in 1..l : order[i] = High[i]
      /\ \A x \in Messages \ Range(Brief) :
            IsQueued(x) <=> l < h /\ at = b + 3 * l + 2 /\ x = High[l + 1]
      /\ \A i \in 1..b : i < at => status[Brief[i]] \in {"queued", "purged"}
  BY Zenon DEF StaleInv, Slept
<1>7. /\ \A k \in Npgs : QueueOK(k)'
      /\ \A k \in Npgs : \A i \in 1..Len(queues'[k]) :
            \E j \in 1..Len(queues[k]) : queues'[k][i] = queues[k][j]
      /\ \A i \in 1..Len(queues'[n]) : ~Stale(queues'[n][i], t)
  <2> HIDE DEF n, t
  <2>1. UNCHANGED <<now, older>> BY <1>1
  <2> QED BY <1>1, <2>1, PurgeEffect
<1>8. \A x \in Messages : status'[x] = status[x] \/ (status[x] = "queued" /\ status'[x] = "purged")
  <2> HIDE DEF n, t
  <2> QED BY <1>1, PurgeOnlyTakes
<1>9. ASSUME NEW x \in Messages \ Range(Brief) PROVE IsQueued(x)' <=> IsQueued(x)
  <2>1. CASE IsQueued(x)
    <3>1. x = High[l + 1] /\ l + 1 \in 1..h BY <1>4, <1>5, <1>6, <2>1
    <3>2. Lasting(x) BY <3>1, StaleMessages
    <3>3. status'[x] = status[x] BY <3>2, LastingStays
    <3> QED BY <3>3, Zenon DEF IsQueued
  <2>2. CASE ~IsQueued(x) BY <1>8, <2>2 DEF IsQueued
  <2> QED BY <2>1, <2>2
<1>10. NoneCome BY <1>7, Zenon DEF NoneCome
<1>11. PurgesLast BY <1>1, Zenon DEF PurgesLast
<1>12. \A i \in 1..b : status'[Brief[i]] \in {"queued", "purged"}
  <2>1. \A i \in 1..b : i < at
    <3> HIDE DEF b, h, l, n, t
    <3>1. at > b
      <4>1. at = b + 3 * l + 2 \/ at = b + 3 * l + 1 BY <1>2
      <4> QED BY <1>3, <1>5, <4>1
    <3>2. at \in Nat BY <1>2
    <3> QED BY <1>3, <3>1, <3>2
  <2>2. \A i \in 1..b : Brief[i] \in Messages BY StaleMessages, Zenon
  <2> QED BY <1>6, <1>8, <2>1, <2>2
<1>13. ASSUME at = b + 3 * h + 1, pc[w] = "purge only", NEW m \in Range(Brief) PROVE ~IsQueued(m)'
  <2> SUFFICES ASSUME IsQueued(m)' PROVE FALSE OBVIOUS
  <2>1. m \in Messages /\ Staleness(m) \in 1..(h - 1) BY StaleMessages
  <2>2. Npg(m) = n
    <3>1. PICK k \in Npgs : Npgs = {k} BY ScenariosAssumption, Zenon
    <3>2. Npg(m) \in Npgs BY <2>1, MessagesAssumption, Zenon
    <3> QED BY <1>1, <3>1, <3>2
  <2>3. m \in Msgs(queues'[n])
    <3>1. Msgs(queues'[n]) = {x \in Messages : Npg(x) = n /\ status'[x] = "queued"}
      BY <1>1, <1>7, Zenon DEF QueueOK
    <3> QED BY <2>1, <2>2, <3>1, Zenon DEF IsQueued
  <2>4. PICK i \in 1..Len(queues'[n]) : queues'[n][i].msg = m BY <2>3, Zenon DEF Msgs
  <2>5. PICK j \in 1..Len(queues[n]) : queues'[n][i] = queues[n][j] BY <1>1, <1>7
  <2> DEFINE e == queues[n][j]
  <2>6. e.msg = m /\ ~Stale(e, t) BY <1>7, <2>4, <2>5, Zenon
  <2>7. e.enqueuedAt + h <= t BY <1>1, <1>13, <2>6, Zenon DEF AgeInv
  <2>8. e.enqueuedAt \in Nat
    <3>1. queues[n] \in Seq(Entries) BY <1>1 DEF QueueInv, QueueOK
    <3>2. e \in Entries BY <3>1, ElementOfSeq
    <3> QED BY <3>2, MessagesAssumption DEF Entries
  <2>9. t \in Int
    <3>1. now \in Nat /\ stamp[w] \in 0..now BY ClockTyped DEF QueueInv, TypesOK
    <3> QED BY <3>1
  <2>10. ~(Staleness(m) > 0 /\ t - e.enqueuedAt > Staleness(m)) BY <2>6, Zenon DEF Stale
  <2> HIDE DEF e, t, h
  <2> QED BY <1>4, <2>1, <2>7, <2>8, <2>9, <2>10
<1> HIDE DEF b, h, l, n, t
<1>14. /\ at' \in 1..(b + 3 * h + 2) /\ (l > 0 => at' >= b + 3 * l)
       /\ (l < h => at' <= b + 3 * l + 2)
       /\ (at' = b + 3 * h + 2 => at = b + 3 * h + 1 /\ l = h /\ ~(l < h))
       /\ (l < h => at' = at)
       /\ \A s \in 0..h : at' > b + 3 * s => at > b + 3 * s
  <2>1. CASE at = b + 3 * l + 2 /\ l < h /\ at' = at BY <1>3, <1>4, <1>5, <2>1
  <2>2. CASE at = b + 3 * l + 1 /\ l = h /\ at' = at + 1 BY <1>3, <1>4, <1>5, <2>2
  <2> QED BY <1>2, <2>1, <2>2
<1>15. AgeInv'
  <2>1. NoneSlept BY <1>14, Zenon DEF NoneSlept, Slept, b, h
  <2> QED BY <1>1, <1>10, <1>11, <2>1, AgeHolds
<1>16. \A x \in Messages \ Range(Brief) :
         IsQueued(x)' <=> l < h /\ at' = b + 3 * l + 2 /\ x = High[l + 1]
  BY <1>6, <1>9, <1>14, Zenon
<1>17. at' = b + 3 * h + 2 => \A m \in Messages : ~IsQueued(m)'
  BY <1>2, <1>13, <1>14, <1>16, Zenon
<1>18. Len(order') = l BY <1>1, Zenon DEF l
<1>19. StaleInv'
  BY <1>1, <1>2, <1>6, <1>12, <1>14, <1>16, <1>17, <1>18, Zenon DEF StaleInv, Slept, b, h
<1> QED BY <1>15, <1>19

(* A dispatch sends the one message that does not wait. *)
LEMMA StaleSends ==
  ASSUME QueueInv, Calm, StaleInv, AgeInv, scenario = "staleness",
         NEW w \in Workers, Sends(w)
  PROVE  StaleInv' /\ AgeInv'
<1> DEFINE b == Len(Brief) h == Len(High) l == Len(order)
<1>1. /\ Dequeue(w) /\ now' = now /\ older' = older
      /\ \A v \in Workers : pc'[v] # "purge only"
      /\ SendsNone \/ \E a \in Messages : SendsOne(a)
      /\ Runs({"dispatch", "drain"})
  BY DEF Sends, SendsNone, SendsOne
<1>2. /\ b \in Nat /\ h \in Nat /\ l \in Nat /\ l <= h
      /\ at = b + 3 * l + 2 /\ l < h /\ Cmd.op = "dispatch"
  BY <1>1, StaleDue DEF Runs
<1>3. b \in Nat BY <1>2
<1>4. h \in Nat BY <1>2
<1>5. l \in Nat BY <1>2
<1>6. /\ \A i \in 1..l : order[i] = High[i]
      /\ \A x \in Messages \ Range(Brief) : IsQueued(x) <=> x = High[l + 1]
      /\ \A i \in 1..b : i < at => status[Brief[i]] \in {"queued", "purged"}
  BY <1>2, Zenon DEF StaleInv, Slept
<1> HIDE DEF b, h, l
<1>7. /\ l + 1 \in 1..h /\ High[l + 1] \in Messages /\ High[l + 1] \notin Range(Brief)
      /\ \A m \in Range(Brief) : ~Outranks(m, High[l + 1])
  <2>1. l + 1 \in 1..h BY <1>2, <1>4, <1>5
  <2> QED BY <2>1, StaleMessages, Zenon DEF h
<1>8. IsQueued(High[l + 1]) BY <1>6, <1>7, Zenon
<1>9. PICK a \in Messages : SendsOne(a)
  <2>1. ~SendsNone BY <1>7, <1>8, Zenon DEF SendsNone
  <2> QED BY <1>1, <2>1, Zenon
<1>10. /\ IsQueued(a) /\ status' = [status EXCEPT ![a] = "sent"]
       /\ \A x \in Messages : IsQueued(x) /\ x # a => Outranks(a, x)
       /\ at' = at + 1 /\ order' = Append(order, a)
  <2>1. Cmd.op # "drain" BY <1>2
  <2> QED BY <1>9, <2>1, Zenon DEF SendsOne
<1>11. a = High[l + 1] BY <1>6, <1>7, <1>8, <1>10, Zenon
<1>12. \A x \in Messages : status'[x] = IF x = a THEN "sent" ELSE status[x]
  <2>1. status \in [Messages -> {"out", "queued", "sent", "purged"}] BY DEF QueueInv, TypesOK
  <2> QED BY <1>10, <2>1
<1>13. Len(order') = l + 1 /\ \A i \in 1..(l + 1) : order'[i] = High[i]
  <2>1. order \in Seq(Messages) BY DEF Calm
  <2>2. Len(order') = l + 1 /\ order'[l + 1] = a /\ \A i \in 1..l : order'[i] = order[i]
    BY <1>10, <2>1 DEF l
  <2>3. \A i \in 1..(l + 1) : i = l + 1 \/ i \in 1..l BY <1>5
  <2> QED BY <1>6, <1>11, <2>2, <2>3, Zenon
<1>14. /\ at' \in 1..(b + 3 * h + 2) /\ at' >= b + 3 * (l + 1)
       /\ at' <= b + 3 * (l + 1) + 2 /\ at' # b + 3 * h + 2
       /\ at' # b + 3 * (l + 1) + 2 /\ l + 1 <= h
       /\ \A i \in 1..b : i < at
       /\ \A s \in 0..h : at' > b + 3 * s => at > b + 3 * s
  BY <1>2, <1>3, <1>4, <1>5, <1>10
<1>15. ASSUME NEW x \in Messages \ Range(Brief) PROVE ~IsQueued(x)'
  BY <1>6, <1>11, <1>12 DEF IsQueued
<1>16. \A i \in 1..b : status'[Brief[i]] \in {"queued", "purged"}
  <2>1. \A i \in 1..b : Brief[i] \in Messages /\ Brief[i] # a
    BY <1>7, <1>11, StaleMessages, Zenon DEF b
  <2> QED BY <1>6, <1>12, <1>14, <2>1
<1>17. StaleInv'
  BY <1>13, <1>14, <1>15, <1>16, Zenon DEF StaleInv, Slept, b, h
<1>18. NoneCome
  <2>1. CASE queues[slot[w]] = <<>>
    <3>1. queues' = queues BY <1>1, <2>1 DEF Dequeue
    <3> QED BY <3>1, Zenon DEF NoneCome
  <2>2. CASE queues[slot[w]] # <<>>
    <3>1. \A k \in Npgs : \A i \in 1..Len(queues'[k]) :
            \E j \in 1..Len(queues[k]) : queues'[k][i] = queues[k][j]
      BY <1>1, <2>2, DequeueEffect
    <3> QED BY <3>1, Zenon DEF NoneCome
  <2> QED BY <2>1, <2>2
<1>19. NoneSlept BY <1>14, Zenon DEF NoneSlept, Slept, b, h
<1>20. PurgesLast BY <1>1, Zenon DEF PurgesLast
<1> QED BY <1>1, <1>17, <1>18, <1>19, <1>20, AgeHolds

LEMMA StaleStep ==
  ASSUME QueueInv, Calm, StaleInv, AgeInv, scenario = "staleness",
         [ScenarioNext]_scenarioVars
  PROVE  StaleInv' /\ AgeInv'
<1>1. scenario \in DOMAIN Script BY DEF Script
<1>2. \/ \E m \in Messages : Adds(m)
      \/ Skips \/ Rests \/ Sleeps
      \/ \E w \in Workers : Cleans(w) \/ Sends(w)
  BY <1>1, ProgramSteps
<1>3. ~Skips
  <2>1. ASSUME Runs({"maybe"}) PROVE FALSE BY <2>1, StaleDue DEF Runs
  <2> QED BY <2>1 DEF Skips
<1> QED BY <1>2, <1>3, StaleAdds, StaleRests, StaleSleeps, StaleCleans, StaleSends

(* Scenario 4 ends as the program expects. *)
LEMMA StaleEnds ==
  ASSUME QueueInv, Calm, StaleInv, scenario = "staleness", Over
  PROVE  order = High /\ \A m \in Range(Brief) : status[m] = "purged"
<1> DEFINE b == Len(Brief) h == Len(High) l == Len(order)
<1>1. b \in Nat /\ h \in Nat /\ DOMAIN Script[scenario] = 1..(b + 3 * h + 1)
  BY StaleScript
<1>2. l \in Nat BY LenProperties DEF Calm
<1>3. /\ at \in 1..(b + 3 * h + 2) /\ l <= h /\ (l < h => at <= b + 3 * l + 2)
      /\ \A i \in 1..l : order[i] = High[i]
      /\ \A i \in 1..b : i < at => status[Brief[i]] \in {"queued", "purged"}
      /\ at = b + 3 * h + 2 => \A m \in Messages : ~IsQueued(m)
  BY Zenon DEF StaleInv, Slept
<1>4. at \notin 1..(b + 3 * h + 1) BY <1>1, Zenon DEF Over
<1> HIDE DEF b, h, l
<1>5. b \in Nat BY <1>1
<1>6. h \in Nat BY <1>1
<1>7. at = b + 3 * h + 2 BY <1>3, <1>4, <1>5, <1>6
<1>8. l = h /\ \A i \in 1..b : i < at BY <1>2, <1>3, <1>5, <1>6, <1>7
<1>9. order = High
  <2>1. order \in Seq(Messages) /\ High \in Seq(Messages) /\ Len(order) = Len(High)
    BY <1>8, StaleMessages DEF Calm, l, h
  <2>2. \A i \in 1..Len(High) : order[i] = High[i] BY <1>3, <1>8 DEF h
  <2> QED BY <2>1, <2>2, SeqEqual
<1>10. ASSUME NEW m \in Range(Brief) PROVE status[m] = "purged"
  <2>1. PICK i \in 1..b : m = Brief[i] BY StaleMessages, Zenon DEF b
  <2>2. status[m] \in {"queued", "purged"} BY <1>3, <1>8, <2>1
  <2>3. m \in Messages BY StaleMessages, Zenon
  <2>4. status[m] # "queued" BY <1>3, <1>7, <2>3 DEF IsQueued
  <2> QED BY <2>2, <2>4
<1> QED BY <1>9, <1>10
-----------------------------------------------------------------------------
(***************************************************************************)
(* Scenario 5.                                                             *)
(***************************************************************************)
(* The producers' messages last, and what outranks another has at least its *)
(* priority.                                                                *)
LEMMA MixedMessages ==
  /\ Mixed \subseteq Messages /\ IsFiniteSet(Mixed) /\ Cardinality(Mixed) \in Nat
  /\ \A m \in Mixed : Lasting(m) /\ Priority(m) \in Int
  /\ \A m, x \in Mixed : Outranks(m, x) => Priority(m) >= Priority(x)
<1>1. /\ Mixed \subseteq Messages /\ IsFiniteSet(Mixed)
      /\ \A m \in Mixed : Staleness(m) > MaxNow
  BY ScenariosAssumption, Zenon
<1>2. Cardinality(Mixed) \in Nat BY <1>1, FS_CardinalityType
<1>3. \A m \in Mixed : Lasting(m) BY <1>1, Zenon DEF Lasting
<1>4. ASSUME NEW m \in Mixed PROVE Priority(m) \in Int /\ ~Terminal(m)
  <2>1. /\ Priority(m) \in Int /\ (Terminal(m) => Staleness(m) = 0) /\ MaxNow \in Nat
    BY <1>1, MessagesAssumption, Zenon
  <2>2. Staleness(m) > MaxNow BY <1>1
  <2> QED BY <2>1, <2>2
<1>5. ASSUME NEW m \in Mixed, NEW x \in Mixed, Outranks(m, x)
      PROVE  Priority(m) >= Priority(x)
  <2>1. Priority(m) > Priority(x) \/ Priority(m) = Priority(x)
    BY <1>4, <1>5, Zenon DEF Outranks
  <2> QED BY <1>4, <2>1
<1> QED BY <1>1, <1>2, <1>3, <1>4, <1>5

(* An enqueue for each of them, and the drain. *)
LEMMA DrainScript ==
  LET c == Cardinality(Mixed)
      s == Script["parallel"]
  IN  /\ DOMAIN s = 1..(c + 1)
      /\ \A i \in 1..c : s[i].op = "enqueue" /\ s[i].msgs = Mixed
      /\ s[c + 1].op = "drain"
<1> DEFINE c == Cardinality(Mixed)
           x == [i \in 1..c |-> Command("enqueue", Mixed)]
           z == <<Command("drain", {})>>
           v == x \o z
<1>1. c \in Nat /\ Mixed \subseteq Messages BY MixedMessages
<1>2. Script["parallel"] = v BY DEF Script
<1> HIDE DEF c
<1>3. /\ x \in Seq(Commands) /\ Len(x) = c
      /\ \A i \in 1..c : x[i] = Command("enqueue", Mixed)
  <2>1. Command("enqueue", Mixed) \in Commands BY <1>1 DEF Command, Commands
  <2>2. x \in [1..c -> Commands] BY <2>1
  <2>3. \A i \in 1..c : x[i] = Command("enqueue", Mixed) OBVIOUS
  <2> HIDE DEF x
  <2> QED BY <1>1, <2>2, <2>3
<1>4. z \in Seq(Commands) /\ Len(z) = 1 /\ z[1] = Command("drain", {})
  BY CommandTyped
<1> HIDE DEF x, z
<1>5. /\ v \in Seq(Commands) /\ Len(v) = c + 1
      /\ \A i \in 1..c : v[i] = x[i]
      /\ v[c + 1] = z[1]
  <2>1. /\ v \in Seq(Commands) /\ Len(v) = Len(x) + Len(z)
        /\ \A i \in 1..Len(x) : v[i] = x[i]
        /\ \A i \in 1..Len(z) : v[Len(x) + i] = z[i]
    <3>1. x \in Seq(Commands) /\ z \in Seq(Commands) BY <1>3, <1>4, Zenon
    <3> QED BY <3>1, Joined
  <2> HIDE DEF v
  <2>2. 1 \in 1..1 OBVIOUS
  <2> QED BY <1>3, <1>4, <2>1, <2>2, Zenon
<1> HIDE DEF v
<1>6. DOMAIN v = 1..(c + 1) BY <1>5, LenProperties, Zenon
<1>7. /\ Command("enqueue", Mixed).op = "enqueue" /\ Command("enqueue", Mixed).msgs = Mixed
      /\ Command("drain", {}).op = "drain"
  BY DEF Command
<1>8. \A i \in 1..c : v[i].op = "enqueue" /\ v[i].msgs = Mixed
  BY <1>3, <1>5, <1>7, Zenon
<1>9. v[c + 1].op = "drain" BY <1>4, <1>5, <1>7, Zenon
<1> QED BY <1>2, <1>6, <1>8, <1>9, Zenon DEF c

(* The command that is due. *)
LEMMA DrainDue ==
  ASSUME DrainInv, scenario = "parallel", NEW ops, Runs(ops)
  PROVE  /\ DrainAt \in Nat /\ at \in Nat
         /\ \/ at < DrainAt /\ Cmd.op = "enqueue" /\ Cmd.msgs = Mixed
            \/ at = DrainAt /\ Cmd.op = "drain"
<1> DEFINE c == Cardinality(Mixed)
<1>1. c \in Nat BY MixedMessages
<1>2. /\ DOMAIN Script[scenario] = 1..(c + 1)
      /\ \A i \in 1..c : Script[scenario][i].op = "enqueue" /\ Script[scenario][i].msgs = Mixed
      /\ Script[scenario][c + 1].op = "drain"
  BY DrainScript
<1>3. DrainAt = c + 1 BY DEF DrainAt
<1> HIDE DEF c
<1>4. at \in 1..(c + 1) BY <1>2, Zenon DEF Runs
<1>5. at \in 1..c \/ at = c + 1 BY <1>1, <1>4
<1>6. CASE at \in 1..c
  <2>1. Cmd.op = "enqueue" /\ Cmd.msgs = Mixed BY <1>2, <1>6, Zenon DEF Cmd
  <2>2. at < c + 1 /\ at \in Nat /\ c + 1 \in Nat BY <1>1, <1>6
  <2> QED BY <1>3, <2>1, <2>2, Zenon
<1>7. CASE at = c + 1
  <2>1. Cmd.op = "drain" BY <1>2, <1>7, Zenon DEF Cmd
  <2>2. c + 1 \in Nat BY <1>1
  <2> QED BY <1>3, <1>7, <2>1, <2>2, Zenon
<1> QED BY <1>5, <1>6, <1>7

(* The messages that have been enqueued. *)
Entered == {m \in Mixed : status[m] # "out"}

LEMMA DrainAdds ==
  ASSUME QueueInv, DrainInv, scenario = "parallel", NEW m \in Messages, Adds(m)
  PROVE  DrainInv'
<1>1. /\ Runs({"enqueue", "maybe"}) /\ m \in Cmd.msgs /\ Enqueue(m)
      /\ at' = at + 1 /\ order' = order
  BY DEF Adds
<1>2. at < DrainAt /\ m \in Mixed /\ at \in Nat /\ DrainAt \in Nat
  BY <1>1, DrainDue DEF Runs
<1>3. at \in Nat BY <1>2
<1>4. DrainAt \in Nat BY <1>2
<1>5. /\ status[m] = "out"
      /\ \A x \in Messages : status'[x] = IF x = m THEN "queued" ELSE status[x]
  BY <1>1, EnqueueEffect
<1>6. at <= DrainAt /\ ~(at >= DrainAt) BY <1>2, <1>3, <1>4
<1>7. /\ order = <<>> /\ Cardinality(Entered) = at - 1
      /\ \A x \in Mixed : status[x] \in {"out", "queued"}
      /\ \A x \in Messages : IsQueued(x) => x \in Mixed
  BY <1>2, <1>6, Zenon DEF DrainInv, Entered
<1>8. Mixed \subseteq Messages /\ IsFiniteSet(Mixed) /\ Cardinality(Mixed) = DrainAt - 1
  <2>1. Cardinality(Mixed) \in Nat BY MixedMessages
  <2>2. Cardinality(Mixed) = DrainAt - 1 BY <2>1 DEF DrainAt
  <2> QED BY <2>2, MixedMessages, Zenon
<1>9. \A x \in Mixed : status'[x] \in {"out", "queued"}
  BY <1>5, <1>7, <1>8
<1>10. \A x \in Messages : IsQueued(x)' => x \in Mixed
  BY <1>2, <1>5, <1>7 DEF IsQueued
<1>11. Entered' = Entered \union {m} /\ m \notin Entered
  BY <1>2, <1>5, <1>8 DEF Entered
<1>12. IsFiniteSet(Entered) /\ Entered' \subseteq Mixed
  <2>1. Entered \subseteq Mixed /\ Entered' \subseteq Mixed BY DEF Entered
  <2> QED BY <1>8, <2>1, FS_Subset
<1>13. Cardinality(Entered') = at' - 1
  <2>1. Cardinality(Entered \union {m}) = Cardinality(Entered) + 1
    BY <1>11, <1>12, FS_AddElement
  <2> QED BY <1>1, <1>3, <1>7, <1>11, <2>1
<1>14. at' >= DrainAt => \A x \in Mixed : status'[x] \in {"queued", "sent"}
  <2> SUFFICES ASSUME at' >= DrainAt PROVE \A x \in Mixed : status'[x] \in {"queued", "sent"}
    OBVIOUS
  <2>1. Cardinality(Entered') = Cardinality(Mixed) BY <1>1, <1>2, <1>3, <1>4, <1>8, <1>13
  <2>2. Entered' = Mixed BY <1>8, <1>12, <2>1, FS_Subset
  <2>3. \A x \in Mixed : status'[x] # "out" BY <2>2, Zenon DEF Entered
  <2> QED BY <1>9, <2>3
<1>15. at' \in 1..(DrainAt + 1) /\ ~(at' > DrainAt) BY <1>1, <1>2, <1>3, <1>4
<1>16. \A i \in 1..Len(order') : FALSE
  <2>1. Len(order') = 0 BY <1>1, <1>7
  <2> QED BY <2>1
<1>17. DrainAt' = DrainAt BY Zenon DEF DrainAt
<1> HIDE DEF DrainAt
<1> QED BY <1>1, <1>7, <1>9, <1>10, <1>13, <1>14, <1>15, <1>16, <1>17, Zenon DEF DrainInv, Entered

(* Steps that move no message. *)
LEMMA DrainHolds ==
  ASSUME DrainInv, at' = at, order' = order, \A m \in Messages : status'[m] = status[m]
  PROVE  DrainInv'
<1>1. \A m \in Messages : IsQueued(m)' <=> IsQueued(m) BY Zenon DEF IsQueued
<1>2. \A m \in Mixed : m \in Messages /\ status'[m] = status[m] BY MixedMessages
<1>3. Entered' = Entered BY <1>2 DEF Entered
<1>4. at' <= DrainAt => Cardinality(Entered') = at' - 1
  BY <1>3, Zenon DEF DrainInv, Entered
<1>5. DrainAt' = DrainAt BY Zenon DEF DrainAt
<1> QED BY <1>1, <1>2, <1>4, <1>5, Zenon DEF DrainInv, Entered

(* No purge takes any of them. *)
LEMMA DrainCleans ==
  ASSUME QueueInv, DrainInv, scenario = "parallel", NEW w \in Workers, Cleans(w)
  PROVE  DrainInv'
<1>1. at' = at
  <2>1. ~Runs({"purge"})
    <3> SUFFICES ASSUME Runs({"purge"}) PROVE FALSE OBVIOUS
    <3>1. Cmd.op \in {"enqueue", "drain"} BY DrainDue
    <3> QED BY <3>1 DEF Runs
  <2> QED BY <2>1, Zenon DEF Cleans
<1>2. order' = order BY DEF Cleans
<1>3. ASSUME NEW m \in Messages PROVE status'[m] = status[m]
  <2>1. CASE IsQueued(m)
    <3>1. m \in Mixed BY <2>1, Zenon DEF DrainInv
    <3> QED BY <3>1, MixedMessages, LastingStays
  <2>2. CASE ~IsQueued(m)
    <3>1. slot[w] \in Npgs /\ Purge(slot[w], stamp[w]) BY DEF Cleans
    <3> QED BY <2>2, <3>1, PurgeOnlyTakes DEF IsQueued
  <2> QED BY <2>1, <2>2
<1> QED BY <1>1, <1>2, <1>3, DrainHolds

(* The drain sends what nothing left goes before, until nothing is left. *)
LEMMA DrainSends ==
  ASSUME QueueInv, Calm, DrainInv, scenario = "parallel", NEW w \in Workers, Sends(w)
  PROVE  DrainInv'
<1>1. Runs({"dispatch", "drain"}) BY DEF Sends, SendsNone, SendsOne
<1>2. at = DrainAt /\ Cmd.op = "drain" /\ DrainAt \in Nat BY <1>1, DrainDue DEF Runs
<1>3. DrainAt \in Nat BY <1>2
<1>4. at >= DrainAt /\ at <= DrainAt BY <1>2, <1>3
<1>5. /\ at \in 1..(DrainAt + 1)
      /\ \A m \in Messages : IsQueued(m) => m \in Mixed
      /\ Cardinality(Entered) = at - 1
      /\ \A m \in Mixed : status[m] \in {"queued", "sent"}
      /\ \A j \in 1..Len(order) : order[j] \in Mixed
      /\ \A i, j \in 1..Len(order) : i < j => Priority(order[i]) >= Priority(order[j])
      /\ \A i \in 1..Len(order) : \A m \in Messages :
            IsQueued(m) => Priority(order[i]) >= Priority(m)
  BY <1>4, Zenon DEF DrainInv, Entered
<1>6. DrainAt' = DrainAt BY Zenon DEF DrainAt
<1>7. Mixed \subseteq Messages BY MixedMessages
<1>8. CASE SendsNone
  <2>1. /\ status' = status /\ order' = order /\ at' = DrainAt + 1
        /\ \A m \in Messages : ~IsQueued(m)
    BY <1>2, <1>8, Zenon DEF SendsNone
  <2>2. /\ at' \in 1..(DrainAt + 1) /\ ~(at' <= DrainAt) /\ ~(at' < DrainAt)
    BY <1>3, <2>1
  <2>3. \A m \in Mixed : status'[m] = "sent" BY <1>5, <1>7, <2>1 DEF IsQueued
  <2>4. \A m \in Messages : ~IsQueued(m)' BY <2>1, Zenon DEF IsQueued
  <2> HIDE DEF DrainAt
  <2> QED BY <1>5, <1>6, <2>1, <2>2, <2>3, <2>4, Zenon DEF DrainInv
<1>9. ASSUME NEW a \in Messages, SendsOne(a) PROVE DrainInv'
  <2> DEFINE l == Len(order)
  <2>1. /\ IsQueued(a) /\ status' = [status EXCEPT ![a] = "sent"]
        /\ \A x \in Messages : IsQueued(x) /\ x # a => Outranks(a, x)
        /\ at' = at /\ order' = Append(order, a)
    BY <1>2, <1>9, Zenon DEF SendsOne
  <2>2. a \in Mixed BY <1>5, <2>1
  <2>3. \A x \in Messages : status'[x] = IF x = a THEN "sent" ELSE status[x]
    <3>1. status \in [Messages -> {"out", "queued", "sent", "purged"}]
      BY DEF QueueInv, TypesOK
    <3> QED BY <2>1, <3>1
  <2>4. \A x \in Messages : IsQueued(x)' <=> IsQueued(x) /\ x # a BY <2>3 DEF IsQueued
  <2>5. Entered' = Entered
    <3>1. status[a] # "out" BY <2>1 DEF IsQueued
    <3> QED BY <1>7, <2>3, <3>1 DEF Entered
  <2>6. l \in Nat /\ Len(order') = l + 1 /\ order'[l + 1] = a
        /\ \A i \in 1..l : order'[i] = order[i]
    <3>1. order \in Seq(Messages) BY DEF Calm
    <3> QED BY <2>1, <3>1
  <2> HIDE DEF l
  <2>7. \A i \in 1..(l + 1) : i = l + 1 \/ i \in 1..l BY <2>6
  <2>8. \A j \in 1..(l + 1) : order'[j] \in Mixed BY <1>5, <2>2, <2>6, <2>7, Zenon DEF l
  <2>9. ASSUME NEW i \in 1..(l + 1), NEW j \in 1..(l + 1), i < j
        PROVE  Priority(order'[i]) >= Priority(order'[j])
    <3>1. i \in 1..l BY <2>6, <2>9
    <3>2. CASE j = l + 1 BY <1>5, <2>1, <2>6, <3>1, <3>2, Zenon DEF l
    <3>3. CASE j \in 1..l BY <1>5, <2>6, <2>9, <3>1, <3>3, Zenon DEF l
    <3> QED BY <2>7, <3>2, <3>3
  <2>10. ASSUME NEW i \in 1..(l + 1), NEW m \in Messages, IsQueued(m)'
         PROVE  Priority(order'[i]) >= Priority(m)
    <3>1. IsQueued(m) /\ m # a /\ m \in Mixed BY <1>5, <2>4, <2>10, Zenon
    <3>2. CASE i = l + 1
      <4>1. Outranks(a, m) BY <2>1, <3>1, Zenon
      <4>2. Priority(a) >= Priority(m) BY <2>2, <3>1, <4>1, MixedMessages, Zenon
      <4> QED BY <2>6, <3>2, <4>2, Zenon
    <3>3. CASE i \in 1..l BY <1>5, <2>6, <3>1, <3>3, Zenon DEF l
    <3> QED BY <2>7, <3>2, <3>3
  <2>11. \A x \in Mixed : status'[x] \in {"queued", "sent"} BY <1>5, <1>7, <2>3
  <2>12. /\ \A m \in Messages : IsQueued(m)' => m \in Mixed
         /\ Cardinality(Entered') = at' - 1
    BY <1>5, <2>1, <2>4, <2>5, Zenon
  <2>13. at' \in 1..(DrainAt + 1) /\ ~(at' < DrainAt) /\ ~(at' > DrainAt)
    BY <1>2, <1>3, <1>5, <2>1
  <2> HIDE DEF DrainAt
  <2> QED BY <1>6, <2>6, <2>8, <2>9, <2>10, <2>11, <2>12, <2>13, Zenon DEF DrainInv, Entered
<1> QED BY <1>8, <1>9 DEF Sends

LEMMA DrainStep ==
  ASSUME QueueInv, Calm, DrainInv, scenario = "parallel", [ScenarioNext]_scenarioVars
  PROVE  DrainInv'
<1>1. scenario \in DOMAIN Script BY DEF Script
<1>2. \/ \E m \in Messages : Adds(m)
      \/ Skips \/ Rests \/ Sleeps
      \/ \E w \in Workers : Cleans(w) \/ Sends(w)
  BY <1>1, ProgramSteps
<1>3. ~Skips /\ ~Sleeps
  <2>1. ASSUME NEW op \in {"maybe", "sleep"}, Runs({op}) PROVE FALSE
    BY <2>1, DrainDue DEF Runs
  <2> QED BY <2>1 DEF Skips, Sleeps
<1>4. CASE Rests BY <1>4, DrainHolds DEF Rests
<1> QED BY <1>2, <1>3, <1>4, DrainAdds, DrainCleans, DrainSends

(* Scenario 5 ends as the program expects. *)
LEMMA DrainEnds ==
  ASSUME Calm, DrainInv, scenario = "parallel", Over
  PROVE  /\ \A m \in Mixed : status[m] = "sent"
         /\ \A i, j \in DOMAIN order : i < j => Priority(order[i]) >= Priority(order[j])
<1>1. DrainAt \in Nat /\ DOMAIN Script[scenario] = 1..DrainAt
  <2>1. Cardinality(Mixed) \in Nat BY MixedMessages
  <2>2. DrainAt \in Nat BY <2>1 DEF DrainAt
  <2> QED BY <2>2, DrainScript, Zenon DEF DrainAt
<1>2. at \in 1..(DrainAt + 1) BY DEF DrainInv
<1>3. at \notin 1..DrainAt BY <1>1, Zenon DEF Over
<1> HIDE DEF DrainAt
<1>4. at > DrainAt BY <1>1, <1>2, <1>3
<1>5. DOMAIN order = 1..Len(order) BY LenProperties DEF Calm
<1> QED BY <1>4, <1>5, Zenon DEF DrainInv
-----------------------------------------------------------------------------
(***************************************************************************)
(* The programs end as they expect.                                        *)
(***************************************************************************)
LEMMA ProgramInit ==
  ASSUME ScenarioInit
  PROVE  ProgramInv
<1>1. /\ at = 1 /\ order = <<>>
      /\ pc = [w \in Workers |-> "idle"] /\ status = [m \in Messages |-> "out"]
      /\ queues = [n \in Npgs |-> <<>>]
  BY DEF ScenarioInit, Init
<1>2. Len(order) = 0 /\ 1..Len(order) = {} BY <1>1
<1>3. \A m \in Messages : ~IsQueued(m) BY <1>1 DEF IsQueued
<1>4. CalmInv BY <1>1 DEF CalmInv, Calm
<1>5. ASSUME scenario \in Batched PROVE BatchInv
  <2>1. Both \in Nat BY <1>5, BatchScript
  <2>2. \A i \in 1..Both : Goes[i] \in Messages BY <1>5, BatchOrder
  <2> HIDE DEF Both
  <2>3. at \in 1..(2 * Both + 1) /\ (at > Both => Both = 0) BY <1>1, <2>1
  <2>4. \A j \in 1..Both : ~(j < at) BY <1>1, <2>1
  <2>5. \A i \in 1..(at - 1) : FALSE BY <1>1
  <2>6. at > Both => /\ Len(order) = at - Both - 1
                     /\ \A i \in (Len(order) + 1)..Both : FALSE
    <3>1. CASE at > Both
      <4>1. Both = 0 /\ Len(order) = 0 /\ at = 1 BY <1>1, <1>2, <2>3, <3>1
      <4> QED BY <4>1
    <3> QED BY <3>1
  <2>7. \A i \in 1..Len(order) : FALSE BY <1>2
  <2> QED BY <1>1, <1>3, <2>3, <2>4, <2>5, <2>6, <2>7, Zenon DEF BatchInv
<1>6. ASSUME scenario = "staleness" PROVE StaleInv /\ AgeInv
  <2> DEFINE b == Len(Brief) h == Len(High)
  <2>1. b \in Nat /\ h \in Nat BY StaleScript
  <2>2. \A n \in Npgs : \A i \in 1..Len(queues[n]) : FALSE BY <1>1
  <2>3. AgeInv BY <2>2, Zenon DEF AgeInv
  <2> HIDE DEF b, h
  <2>4. /\ at \in 1..(b + 3 * h + 2) /\ 0 <= h /\ ~(0 > 0) /\ at <= b + 3 * 0 + 2
        /\ at # b + 3 * 0 + 2 /\ \A i \in 1..b : ~(i < at)
    BY <1>1, <2>1
  <2>5. \A i \in 1..Len(order) : FALSE BY <1>2
  <2> QED BY <1>2, <1>3, <2>3, <2>4, <2>5, Zenon DEF StaleInv, Slept, b, h
<1>7. DrainInv
  <2> DEFINE c == Cardinality(Mixed)
  <2>1. c \in Nat /\ Mixed \subseteq Messages BY MixedMessages
  <2>2. DrainAt = c + 1 BY DEF DrainAt
  <2> HIDE DEF c
  <2>3. /\ at \in 1..(DrainAt + 1) /\ ~(at > DrainAt) /\ (at >= DrainAt => c = 0)
        /\ at - 1 = 0
    BY <1>1, <2>1, <2>2
  <2>4. \A m \in Mixed : status[m] = "out" BY <1>1, <2>1
  <2>5. {m \in Mixed : status[m] # "out"} = {} BY <2>4
  <2>6. Cardinality({m \in Mixed : status[m] # "out"}) = at - 1
    BY <2>3, <2>5, FS_EmptySet
  <2>7. at >= DrainAt => \A m \in Mixed : FALSE
    BY <2>3, FS_EmptySet, MixedMessages DEF c
  <2>8. \A i \in 1..Len(order) : FALSE BY <1>2
  <2> HIDE DEF DrainAt
  <2> QED BY <1>1, <1>3, <2>3, <2>4, <2>6, <2>7, <2>8 DEF DrainInv
<1> QED BY <1>4, <1>5, <1>6, <1>7, Zenon DEF ProgramInv

LEMMA ProgramStep ==
  ASSUME QueueInv, ProgramInv, scenario \in Scenarios, [ScenarioNext]_scenarioVars
  PROVE  ProgramInv'
<1>1. scenario' = scenario BY ScenarioSteps
<1>2. CASE scenario = "free" BY <1>1, <1>2 DEF ProgramInv, CalmInv, Batched
<1>3. CASE scenario # "free"
  <2>1. scenario \in DOMAIN Script /\ Calm BY <1>3, Zenon DEF Scenarios, ProgramInv, CalmInv
  <2>2. CalmInv' BY <1>1, <2>1, CalmStep DEF CalmInv
  <2>3. scenario \in Batched => BatchInv' BY <2>1, BatchStep DEF ProgramInv
  <2>4. scenario = "staleness" => StaleInv' /\ AgeInv' BY <2>1, StaleStep DEF ProgramInv
  <2>5. scenario = "parallel" => DrainInv' BY <2>1, DrainStep DEF ProgramInv
  <2>6. Batched' = Batched BY Zenon DEF Batched
  <2> QED BY <1>1, <2>2, <2>3, <2>4, <2>5, <2>6, Zenon DEF ProgramInv
<1> QED BY <1>2, <1>3

LEMMA ProgramInvImplies ==
  ASSUME QueueInv, ProgramInv
  PROVE  ScenariosAsExpected
<1> SUFFICES ASSUME Over
             PROVE  /\ scenario = "insertion"  => order = High \o Low
                    /\ scenario = "preemption" => order = RTT \o Low
                    /\ scenario = "staleness"  =>
                         order = High /\ \A m \in Range(Brief) : status[m] = "purged"
                    /\ scenario = "parallel"   =>
                         /\ \A m \in Mixed : status[m] = "sent"
                         /\ \A i, j \in DOMAIN order :
                              i < j => Priority(order[i]) >= Priority(order[j])
  BY Zenon DEF ScenariosAsExpected
<1>1. Calm BY DEF Over, ProgramInv, CalmInv
<1>2. ASSUME scenario \in Batched PROVE order = Late \o Low
  BY <1>1, <1>2, BatchEnds DEF ProgramInv, Goes
<1>3. scenario = "insertion" => order = High \o Low
  BY <1>2, Zenon DEF Batched, Late
<1>4. scenario = "preemption" => order = RTT \o Low
  <2> SUFFICES ASSUME scenario = "preemption" PROVE order = RTT \o Low OBVIOUS
  <2>1. Late = RTT BY DEF Late
  <2> QED BY <1>2, <2>1 DEF Batched
<1>5. scenario = "staleness" => order = High /\ \A m \in Range(Brief) : status[m] = "purged"
  BY <1>1, StaleEnds DEF ProgramInv
<1>6. scenario = "parallel" =>
        /\ \A m \in Mixed : status[m] = "sent"
        /\ \A i, j \in DOMAIN order : i < j => Priority(order[i]) >= Priority(order[j])
  BY <1>1, DrainEnds DEF ProgramInv
<1> QED BY <1>3, <1>4, <1>5, <1>6

(* The scenarios of cmd/priorityexp end as they say they expect: J13.3 and  *)
(* terminal messages overtake the J2.2 that came before them, in order; all *)
(* that waits behind a steady stream is purged, and nothing else; and the   *)
(* drain sends every message of the producers, none before one of a higher  *)
(* priority.                                                                *)
THEOREM ProgramsAsExpected == ScenarioSpec => []ScenariosAsExpected
<1>1. ScenarioInit => ProgramInv /\ scenario \in Scenarios
  BY ProgramInit DEF ScenarioInit, Scenarios
<1>2. /\ QueueInv /\ ProgramInv /\ scenario \in Scenarios /\ [ScenarioNext]_scenarioVars
      => ProgramInv' /\ (scenario \in Scenarios)'
  BY ProgramStep, ScenarioSteps
<1>3. QueueInv /\ ProgramInv => ScenariosAsExpected BY ProgramInvImplies
<1>4. Spec => []QueueInv BY QueueInvariant
<1> QED BY <1>1, <1>2, <1>3, <1>4, ScenariosRunTheQueues, PTL DEF ScenarioSpec
=============================================================================
