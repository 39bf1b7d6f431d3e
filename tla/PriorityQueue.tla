--------------------------- MODULE PriorityQueue ---------------------------
(***************************************************************************)
(* Per-NPG transmit queues: model/priority_queue.go and the nodes of       *)
(* node/priority_nodes.go that fill and drain them.  Enqueuing and purging *)
(* are single steps under the queue's lock.  dispatch_slot reads the       *)
(* clock, purges with that reading, and dequeues: three steps between      *)
(* which other workers run and time passes.                                *)
(***************************************************************************)
EXTENDS Integers, Sequences, SequencesExt

CONSTANTS Npgs,
          NoNpg,       \* serving no NPG
          Messages,    \* what may be queued
          Npg(_),      \* its NPG
          Terminal(_), \* was it generated by the terminal
          Priority(_), \* its priority, 0 for a terminal message
          Staleness(_), \* its staleness limit, 0 (no limit) for a terminal one
          Workers,     \* run dispatch_slot and purge_stale
          Resend,      \* may a message that has left be queued again
          MaxNow       \* bound: the clock

ASSUME MessagesAssumption ==
  /\ Resend \in BOOLEAN /\ MaxNow \in Nat
  /\ \A m \in Messages : /\ Npg(m) \in Npgs
                         /\ Terminal(m) \in BOOLEAN
                         /\ Priority(m) \in Int /\ Staleness(m) \in Int
                         /\ Terminal(m) => Priority(m) = 0 /\ Staleness(m) = 0

VARIABLES now,    \* the clock
          queues, \* NPG -> sequence of [msg, enqueuedAt]
          pc,     \* what each worker does next: "idle", "purge" or "dequeue"
          slot,   \* the NPG it serves
          stamp,  \* the clock reading it purges with
          status, \* history: "out", "queued", "sent" or "purged"
          older   \* history: the messages that were in the queue before this one

workerVars == <<pc, slot, stamp>>
vars == <<now, queues, workerVars, status, older>>

Init == /\ now = 0
        /\ queues = [n \in Npgs |-> <<>>]
        /\ pc = [w \in Workers |-> "idle"]
        /\ slot = [w \in Workers |-> NoNpg]
        /\ stamp = [w \in Workers |-> 0]
        /\ status = [m \in Messages |-> "out"]
        /\ older = [m \in Messages |-> {}]

Queued(n) == {queues[n][i].msg : i \in DOMAIN queues[n]}

(* Faulty variant: a message is also ahead of those it ties with. *)
LessOrTied(a, b) ==
  \/ Terminal(a.msg) /\ ~Terminal(b.msg)
  \/ /\ Terminal(a.msg) = Terminal(b.msg)
     /\ \/ Priority(a.msg) > Priority(b.msg)
        \/ Priority(a.msg) = Priority(b.msg) /\ a.enqueuedAt <= b.enqueuedAt

(* Faulty variant: the priority is not looked at. *)
LessByArrival(a, b) ==
  \/ Terminal(a.msg) /\ ~Terminal(b.msg)
  \/ Terminal(a.msg) = Terminal(b.msg) /\ a.enqueuedAt < b.enqueuedAt

(* Faulty variant: hosts come before the terminal. *)
LessByPriority(a, b) ==
  \/ Priority(a.msg) > Priority(b.msg)
  \/ Priority(a.msg) = Priority(b.msg) /\ a.enqueuedAt < b.enqueuedAt

(* less: terminal, then priority, then time. *)
Less(a, b) ==
  \/ Terminal(a.msg) /\ ~Terminal(b.msg)
  \/ /\ Terminal(a.msg) = Terminal(b.msg)
     /\ \/ Priority(a.msg) > Priority(b.msg)
        \/ Priority(a.msg) = Priority(b.msg) /\ a.enqueuedAt < b.enqueuedAt

(* The scan of Dequeue: it moves on to an entry that is less than the best  *)
(* so far.                                                                  *)
Best(q) ==
  LET scan[i \in 1..Len(q)] ==
        IF i = 1 THEN 1
        ELSE IF Less(q[i], q[scan[i - 1]]) THEN i ELSE scan[i - 1]
  IN scan[Len(q)]

(* Faulty variant: the entry after the one sent is removed. *)
RemoveNext(q, i) == RemoveAt(q, IF i < Len(q) THEN i + 1 ELSE i)

Without(q, i) == RemoveAt(q, i)

(* Faulty variant: a limit of zero counts as a limit. *)
StaleWithoutLimit(e, t) == t - e.enqueuedAt > Staleness(e.msg)

Stale(e, t) == Staleness(e.msg) > 0 /\ t - e.enqueuedAt > Staleness(e.msg)

(* Faulty variant: the entry carries its deadline for its time. *)
StampedDeadline(m) == [msg |-> m, enqueuedAt |-> now + Staleness(m)]

Stamped(m) == [msg |-> m, enqueuedAt |-> now]

(* enqueue_host_message and terminal_preempt. *)
Enqueue(m) ==
  /\ status[m] = "out" \/ (Resend /\ status[m] \in {"sent", "purged"})
  /\ queues' = [queues EXCEPT ![Npg(m)] = Append(@, Stamped(m))]
  /\ status' = [status EXCEPT ![m] = "queued"]
  /\ older' = [x \in Messages |-> IF x = m THEN Queued(Npg(m)) ELSE older[x] \ {m}]
  /\ UNCHANGED <<now, workerVars>>

(* The loop of PurgeStale: it keeps the entries that are not stale, in order. *)
Fresh(q, t) ==
  LET kept[i \in 0..Len(q)] ==
        IF i = 0 THEN <<>>
        ELSE IF Stale(q[i], t) THEN kept[i - 1] ELSE Append(kept[i - 1], q[i])
  IN kept[Len(q)]

Purge(n, t) ==
  /\ queues' = [queues EXCEPT ![n] = Fresh(@, t)]
  /\ status' = [m \in Messages |->
                  IF m \in Queued(n) /\ m \notin {queues'[n][i].msg : i \in DOMAIN queues'[n]}
                  THEN "purged" ELSE status[m]]

Done(w) == /\ pc' = [pc EXCEPT ![w] = "idle"]
           /\ slot' = [slot EXCEPT ![w] = NoNpg]
           /\ stamp' = [stamp EXCEPT ![w] = 0]

(* purge_stale: the clock is read before the lock is taken. *)
StartPurge(w, n) ==
  /\ pc[w] = "idle"
  /\ pc' = [pc EXCEPT ![w] = "purge only"]
  /\ slot' = [slot EXCEPT ![w] = n]
  /\ stamp' = [stamp EXCEPT ![w] = now]
  /\ UNCHANGED <<now, queues, status, older>>

PurgeOnly(w) ==
  /\ pc[w] = "purge only"
  /\ Purge(slot[w], stamp[w])
  /\ Done(w)
  /\ UNCHANGED <<now, older>>

(* dispatch_slot. *)
StartDispatch(w, n) ==
  /\ pc[w] = "idle"
  /\ pc' = [pc EXCEPT ![w] = "purge"]
  /\ slot' = [slot EXCEPT ![w] = n]
  /\ stamp' = [stamp EXCEPT ![w] = now]
  /\ UNCHANGED <<now, queues, status, older>>

(* Faulty variant: it dequeues without purging. *)
SkipPurge(w) ==
  /\ pc[w] = "purge"
  /\ pc' = [pc EXCEPT ![w] = "dequeue"]
  /\ UNCHANGED <<now, queues, slot, stamp, status, older>>

PurgeFirst(w) ==
  /\ pc[w] = "purge"
  /\ Purge(slot[w], stamp[w])
  /\ pc' = [pc EXCEPT ![w] = "dequeue"]
  /\ UNCHANGED <<now, slot, stamp, older>>

Dequeue(w) ==
  /\ pc[w] = "dequeue"
  /\ Done(w)
  /\ LET q == queues[slot[w]]
     IN \/ q = <<>> /\ UNCHANGED <<queues, status>>
        \/ /\ q # <<>>
           /\ queues' = [queues EXCEPT ![slot[w]] = Without(q, Best(q))]
           /\ status' = [status EXCEPT ![q[Best(q)].msg] = "sent"]
  /\ UNCHANGED <<now, older>>

Tick == now < MaxNow /\ now' = now + 1 /\ UNCHANGED <<queues, workerVars, status, older>>

Serve(w) == \/ \E n \in Npgs : StartPurge(w, n) \/ StartDispatch(w, n)
            \/ PurgeOnly(w) \/ PurgeFirst(w) \/ Dequeue(w)

Next == \/ Tick
        \/ \E m \in Messages : Enqueue(m)
        \/ \E w \in Workers : Serve(w)

Spec == Init /\ [][Next]_vars

(* A node that has begun returns. *)
NodesReturn == \A w \in Workers :
                 WF_vars(PurgeOnly(w)) /\ WF_vars(PurgeFirst(w)) /\ WF_vars(Dequeue(w))

(* An assumption on the callers.  No code dispatches by itself: nothing     *)
(* reads the "timer" of the stage (priority_stages.json:28, types.go:17),   *)
(* and the programs dispatch in bounded loops.  A caller who keeps slots    *)
(* coming for every NPG, whichever worker serves them, satisfies it.        *)
SlotsKeepComing == \A n \in Npgs : SF_vars(\E w \in Workers : StartDispatch(w, n))

FairSpec == Spec /\ NodesReturn /\ SlotsKeepComing
-----------------------------------------------------------------------------
(***************************************************************************)
(* Properties.                                                             *)
(***************************************************************************)
EntriesOf(n) == {queues[n][i] : i \in DOMAIN queues[n]}

TypeOK ==
  /\ now \in 0..MaxNow
  /\ queues \in [Npgs -> Seq([msg : Messages, enqueuedAt : 0..MaxNow])]
  /\ pc \in [Workers -> {"idle", "purge only", "purge", "dequeue"}]
  /\ slot \in [Workers -> Npgs \union {NoNpg}]
  /\ stamp \in [Workers -> 0..now]
  /\ status \in [Messages -> {"out", "queued", "sent", "purged"}]
  /\ older \in [Messages -> SUBSET Messages]

(* No message is lost, duplicated or put in another queue: exactly the      *)
(* messages that have neither been sent nor purged are queued, each once    *)
(* and under its own NPG, whatever the workers do to the shared slices.     *)
Conservation ==
  \A n \in Npgs :
     /\ Queued(n) = {m \in Messages : Npg(m) = n /\ status[m] = "queued"}
     /\ IsInjective([i \in DOMAIN queues[n] |-> queues[n][i].msg])

(* The precedence of priority_queue.go:9-14: a message is sent only if      *)
(* every other message left in its queue is of a lower class, or of a lower *)
(* priority in the same class, or arrived later.                            *)
Outranks(m, x) ==
  \/ Terminal(m) /\ ~Terminal(x)
  \/ Terminal(m) = Terminal(x) /\ Priority(m) > Priority(x)
  \/ Terminal(m) = Terminal(x) /\ Priority(m) = Priority(x) /\ x \notin older[m]

SentInPrecedence ==
  [][\A m \in Messages : status[m] = "queued" /\ status'[m] = "sent" =>
       \A x \in Queued(Npg(m)) \ {m} : Outranks(m, x)]_vars

(* A message is purged only once it has been queued for longer than a limit *)
(* it has; a terminal message never is.                                     *)
OnlyStalePurged ==
  [][\A m \in Messages : status[m] = "queued" /\ status'[m] = "purged" =>
       /\ ~Terminal(m)
       /\ \E e \in EntriesOf(Npg(m)) :
            e.msg = m /\ 0 < Staleness(m) /\ now > e.enqueuedAt + Staleness(m)]_vars

(* A message that is sent was not stale when its dispatcher read the clock: *)
(* purging and dequeuing under separate locks lets no message slip past,    *)
(* except by time passing in between.                                       *)
FreshAtReading ==
  [][\A w \in Workers, m \in Messages :
       pc[w] = "dequeue" /\ pc'[w] = "idle" /\ status[m] = "queued" /\ status'[m] = "sent" =>
         \E e \in EntriesOf(Npg(m)) :
            e.msg = m /\ (Staleness(m) <= 0 \/ stamp[w] <= e.enqueuedAt + Staleness(m))]_vars

(* If slots keep coming, a terminal message is sent in the end, however     *)
(* many host messages do, too.                                              *)
TerminalSent ==
  \A m \in Messages : Terminal(m) => (status[m] = "queued" ~> status[m] = "sent")
=============================================================================
