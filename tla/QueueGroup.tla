------------------------------ MODULE QueueGroup ------------------------------
(***************************************************************************)
(* A queue group: the process that owns a database of queues and serves    *)
(* enqueue, dequeue and the transaction manager's requests                 *)
(* (queue/source/group).                                                   *)
(*                                                                         *)
(* Three queues of the group: "source", its error queue "error", and       *)
(* "target".  A message is enqueued to source by a producer outside of a   *)
(* transaction; flows (see QueueForward) dequeue from source and enqueue   *)
(* to target in a transaction; consumers dequeue without one.              *)
(*                                                                         *)
(* The group handles one message at a time and its handlers are functions  *)
(* of its state, so its state is one record, group:                        *)
(*   db, disk    the rows as the open sqlite transaction sees them, and as *)
(*               they are on disk                                          *)
(*   count       queue.count, which triggers keep                          *)
(*   involved    transactions it has told the transaction manager of       *)
(*   registered  transactions the transaction manager knows it by          *)
(*   dequeues    blocking dequeues that wait                               *)
(*   held        replies that wait for the next write to disk              *)
(*   timer       the alarm for messages that become available later        *)
(*   mail        what it has sent: replies that are not yet received       *)
(***************************************************************************)
EXTENDS Loops, SequencesExt, FiniteSets

CONSTANTS
  Message,     \* what producers enqueue, each once
  Flow,        \* blocking dequeues of the forward, with their transactions
  Consumer,    \* processes that dequeue once, outside of a transaction
  QueueOf,     \* the queue of a consumer
  Mortal,      \* consumers and producers that may die
  RetryCount,  \* rollbacks before a message moves to the error queue
  RetryDelay,  \* a message that is rolled back is available later
  Batch,       \* replies that are held before the group writes to disk
  MayRestore,  \* the administrator may restore source once
  Nobody

ASSUME QueueAssumption ==
  /\ Nobody \notin Message \cup Flow \cup Consumer
  /\ Message \cap Flow = {} /\ Message \cap Consumer = {} /\ Flow \cap Consumer = {}
  /\ QueueOf \in [Consumer -> {"source", "target"}] /\ Mortal \subseteq Consumer \cup Message
  /\ IsFiniteSet(Flow) /\ RetryCount \in Nat /\ RetryDelay \in BOOLEAN /\ Batch \in Nat \ {0}
  /\ MayRestore \in BOOLEAN

VARIABLES
  group,     \* the record above
  inbox,     \* messages to the group, in order of arrival
  level,     \* its runlevel: "running", "shutdown", "gone" when it has ended
  consumer,  \* consumers: "new", "waiting", "late", "leaving", "served", "told", "dead", "noticed"
  restored   \* the administrator has restored

groupVars == <<group, inbox, level>>
clientVars == <<consumer, restored>>

Queue == {"source", "error", "target"}
Row == [msg : Message, queue : Queue, state : {"added", "enqueued", "dequeued"},
        gtrid : Flow \cup {Nobody}, redelivered : Nat, later : BOOLEAN]
-----------------------------------------------------------------------------
(* The database, with the triggers that keep the counts.                   *)

Visible(r) == r.state \in {"enqueued", "dequeued"}
Counted(w, q, n) == [w EXCEPT !.count[q] = (@ + n[1]) - n[2]]

Enqueued(w, m, q, trid) ==
  LET row == [msg |-> m, queue |-> q, gtrid |-> trid, redelivered |-> 0, later |-> FALSE,
              state |-> IF trid = Nobody THEN "enqueued" ELSE "added"]
      wrote == [w EXCEPT !.db = Append(@, row)]
  IN IF trid = Nobody THEN Counted(wrote, q, <<1, 0>>) ELSE wrote

(* Rows are in order of their timestamps: the first that fits is taken.    *)
Ready(w, q) == SelectInSeq(w.db, LAMBDA r : r.queue = q /\ r.state = "enqueued" /\ ~ r.later)
Taken(w, q, trid) ==
  LET n == Ready(w, q)
  IN IF trid = Nobody
     THEN Counted([w EXCEPT !.db = RemoveAt(@, n)], q, <<0, 1>>)
     ELSE [w EXCEPT !.db[n].state = "dequeued", !.db[n].gtrid = trid]

(* The rows that a transaction has added, or dequeued.                     *)
RowsOf(db, f, state) == {r \in ToSet(db) : r.gtrid = f /\ r.state = state}
Rows(db, Test(_)) == Cardinality({n \in DOMAIN db : Test(db[n])})

(* Mutant: the messages that were dequeued stay. *)
CommittedKeeps(w, f) ==
  LET shown(r) == IF r.gtrid = f /\ r.state = "added" THEN [r EXCEPT !.state = "enqueued"] ELSE r
  IN [w EXCEPT !.db = [n \in DOMAIN @ |-> shown(@[n])],
               !.count["target"] = @ + Rows(w.db, LAMBDA r : r.gtrid = f /\ r.state = "added")]

(* Mutant: what was added is not counted. *)
CommittedUncounted(w, f) ==
  LET shown(r) == IF r.gtrid = f /\ r.state = "added" THEN [r EXCEPT !.state = "enqueued"] ELSE r
      shownDb == [n \in DOMAIN w.db |-> shown(w.db[n])]
  IN [w EXCEPT !.db = Without(shownDb, RowsOf(shownDb, f, "dequeued")),
               !.count["source"] = @ - Rows(w.db, LAMBDA r : r.gtrid = f /\ r.state = "dequeued")]

(* Queuebase::commit: what was added can be seen, what was dequeued goes.  *)
Committed(w, f) ==
  LET shown(r) == IF r.gtrid = f /\ r.state = "added" THEN [r EXCEPT !.state = "enqueued"] ELSE r
      shownDb == [n \in DOMAIN w.db |-> shown(w.db[n])]
      added(q) == Rows(w.db, LAMBDA r : r.queue = q /\ r.gtrid = f /\ r.state = "added")
      taken(q) == Rows(w.db, LAMBDA r : r.queue = q /\ r.gtrid = f /\ r.state = "dequeued")
  IN [w EXCEPT !.db = Without(shownDb, RowsOf(shownDb, f, "dequeued")),
               !.count = [q \in Queue |-> (@[q] + added(q)) - taken(q)]]

(* Queuebase::rollback: what was added goes, what was dequeued is back,    *)
(* after retry_delay, and has moved to the error queue when it has been    *)
(* redelivered too often.                                                  *)
RolledBack(w, f) ==
  LET back(r) == IF r.gtrid = f /\ r.state = "dequeued"
                 THEN [r EXCEPT !.state = "enqueued", !.redelivered = @ + 1, !.later = RetryDelay]
                 ELSE r
      spent(r) == r.gtrid = f /\ r.queue = "source" /\ r.redelivered > RetryCount
      kept == Without(w.db, RowsOf(w.db, f, "added"))
      backDb == [n \in DOMAIN kept |-> back(kept[n])]
      moved == Rows(backDb, spent)
  IN [w EXCEPT !.db = [n \in DOMAIN backDb |->
                         IF spent(backDb[n])
                         THEN [backDb[n] EXCEPT !.redelivered = 0, !.queue = "error"]
                         ELSE backDb[n]],
               !.count["source"] = @ - moved, !.count["error"] = @ + moved]

(* Queuebase::restore of source: its messages come back from error.        *)
Restored(w) ==
  LET fits(r) == r.queue = "error" /\ r.state = "enqueued"
      n == Rows(w.db, fits)
  IN [w EXCEPT !.db = [k \in DOMAIN @ |-> IF fits(@[k]) THEN [@[k] EXCEPT !.queue = "source"] ELSE @[k]],
               !.count["error"] = @ - n, !.count["source"] = @ + n]
-----------------------------------------------------------------------------
(* Replies and blocking dequeues.                                          *)

Reply(kind, to, m) == [kind |-> kind, to |-> to, msg |-> m]
Sent(w, reply) == [w EXCEPT !.mail = @ \cup {reply}]

(* transaction::involved: once for each transaction.                       *)
Involved(w, f) ==
  IF f \in w.involved THEN w
  ELSE [w EXCEPT !.involved = @ \cup {f}, !.registered = @ \cup {f}]

Trid(who) == IF who \in Flow THEN who ELSE Nobody

(* dequeue::handle: a message, or the dequeue waits and the alarm is set   *)
(* for the first message that becomes available.                           *)
Dequeued(w, d) ==
  LET n == Ready(w, d.queue)
      got == Sent(Taken(w, d.queue, Trid(d.who)), Reply("dequeued", d.who, w.db[n].msg))
      delayed == \E k \in DOMAIN w.db : w.db[k].queue = d.queue /\ w.db[k].state = "enqueued"
  IN IF n # 0 THEN IF d.who \in Flow THEN Involved(got, d.who) ELSE got
     ELSE [w EXCEPT !.dequeues = Append(@, d), !.timer = @ \/ delayed]

(* pending::dequeues: the dequeues of each queue that has available        *)
(* messages are made again, as many as it counts; the alarm is set for the *)
(* other queues, or unset.                                                 *)
Passed(w, q) ==
  LET enqueued == {r \in ToSet(w.db) : r.queue = q /\ r.state = "enqueued"}
  IN w.count[q] > 0 /\ (enqueued # {} => \E r \in enqueued : ~ r.later)

Again(acc, d) ==
  LET next == Dequeued(acc.w, d)
  IN IF acc.left[d.queue] < 1 THEN [acc EXCEPT !.back = Append(@, d)]
     ELSE IF Len(next.dequeues) > Len(acc.w.dequeues) THEN [acc EXCEPT !.w = next]
     ELSE [acc EXCEPT !.w = next, !.left[d.queue] = @ - 1]

Woken(w) ==
  LET waits == ToSet(w.dequeues)
      again == Without(w.dequeues, {d \in waits : ~ Passed(w, d.queue)})
      rest == Without(w.dequeues, {d \in waits : Passed(w, d.queue)})
      future == {d \in waits : ~ Passed(w, d.queue) /\ w.count[d.queue] > 0}
      tried[n \in 0 .. Len(again)] ==
        IF n = 0 THEN [w |-> [w EXCEPT !.dequeues = rest], left |-> w.count, back |-> <<>>]
        ELSE Again(tried[n - 1], again[n])
      done == tried[Len(again)]
  IN IF w.dequeues = <<>> THEN w
     ELSE [done.w EXCEPT !.dequeues = @ \o done.back, !.timer = future # {}]

(* Mutant: pending dequeues are not looked at. *)
PersistedOnly(w) ==
  IF w.held = <<>> THEN w
  ELSE [w EXCEPT !.disk = w.db, !.mail = @ \cup ToSet(w.held), !.held = <<>>]

(* handle::persist.                                                        *)
Persisted(w) ==
  IF w.held = <<>> THEN w
  ELSE Woken([w EXCEPT !.disk = w.db, !.mail = @ \cup ToSet(w.held), !.held = <<>>])

(* Mutant: the reply does not wait for the disk. *)
HeldNot(w, reply) == Sent(w, reply)

(* persistent::reply.                                                      *)
Held(w, reply) ==
  LET held == [w EXCEPT !.held = Append(@, reply)]
  IN IF Len(held.held) >= Batch THEN Persisted(held) ELSE held
-----------------------------------------------------------------------------
(* The handlers. A message to the group says what it is, who it is from or *)
(* about, and what it carries.                                             *)

To(kind, who, m) == [kind |-> kind, who |-> who, msg |-> m]
Dequeue(who) == [who |-> who, queue |-> IF who \in Flow THEN "source" ELSE QueueOf[who]]

OnEnqueue(w, msg) ==
  IF msg.who \in Flow
  THEN Sent(Involved(Enqueued(w, msg.msg, "target", msg.who), msg.who),
            Reply("enqueued", msg.who, msg.msg))
  ELSE Held(Enqueued(w, msg.msg, "source", Nobody), Reply("enqueued", msg.who, msg.msg))

WaitsOf(w, S) == {d \in ToSet(w.dequeues) : d.who \in S}
AcksOf(w, S) == {r \in ToSet(w.held) : r.kind = "enqueued" /\ r.to \in S}

(* Pending::forget: the reply says if it was found; a forward ignores one  *)
(* that says it was not, and it is left out.                               *)
OnForget(w, msg) ==
  LET waits == WaitsOf(w, {msg.who})
  IN IF msg.who \in Consumer \/ waits # {}
     THEN Sent([w EXCEPT !.dequeues = Without(@, waits)], Reply("forgotten", msg.who, Nobody))
     ELSE w

(* The reply to the transaction manager is kept until it is on disk.       *)
OnCommit(w, msg) ==
  Held(Committed([w EXCEPT !.involved = @ \ {msg.who}], msg.who), Reply("xa", msg.who, Nobody))
OnRollback(w, msg) ==
  Held(RolledBack([w EXCEPT !.involved = @ \ {msg.who}], msg.who), Reply("xa", msg.who, Nobody))
(* Nothing is written for a prepare.                                       *)
OnPrepare(w, msg) == Sent(w, Reply("prepared", msg.who, Nobody))

OnRestore(w) == LET r == Restored(w) IN Woken([r EXCEPT !.disk = r.db])
OnTimeout(w) == IF w.held = <<>> THEN Woken(w) ELSE w

(* Mutant: the dequeues of the process stay. *)
OnExitReplies(w, msg) ==
  [w EXCEPT !.held = Without(@, AcksOf(w, msg.who))]

(* Pending::remove, for a process that has died; who is what it asked for. *)
OnExit(w, msg) ==
  [w EXCEPT !.dequeues = Without(@, WaitsOf(w, msg.who)), !.held = Without(@, AcksOf(w, msg.who))]

(* Mutant: dequeues that wait are not told. *)
OnShutdownSilent(w) == Persisted(w)

(* shutdown::detail::perform: dequeues that wait are asked to forget.      *)
OnShutdown(w) ==
  LET p == Persisted(w)
  IN [p EXCEPT !.dequeues = <<>>,
               !.mail = @ \cup {Reply("forgotten", d.who, Nobody) : d \in ToSet(p.dequeues)}]

Handled(w, msg) ==
  CASE msg.kind = "enqueue"  -> OnEnqueue(w, msg)
    [] msg.kind = "dequeue"  -> Dequeued(w, Dequeue(msg.who))
    [] msg.kind = "forget"   -> OnForget(w, msg)
    [] msg.kind = "commit"   -> OnCommit(w, msg)
    [] msg.kind = "rollback" -> OnRollback(w, msg)
    [] msg.kind = "prepare"  -> OnPrepare(w, msg)
    [] msg.kind = "restore"  -> OnRestore(w)
    [] msg.kind = "timeout"  -> OnTimeout(w)
    [] msg.kind = "exit"     -> OnExit(w, msg)
    [] msg.kind = "shutdown" -> OnShutdown(w)

(* State::done, looked at after each message.                              *)
Done(w) == w.dequeues = <<>> /\ w.held = <<>> /\ w.involved = {}
Becomes(w, l) ==
  /\ group' = w
  /\ level' = IF l = "shutdown" /\ Done(w) THEN "gone" ELSE l

Handle ==
  /\ level # "gone" /\ inbox # <<>>
  /\ inbox' = Tail(inbox)
  /\ Becomes(Handled(group, Head(inbox)),
             IF Head(inbox).kind = "shutdown" THEN "shutdown" ELSE level)

(* The group writes to disk when it has nothing else to do.                *)
Idle ==
  /\ level # "gone" /\ inbox = <<>> /\ group.held # <<>>
  /\ Becomes(Persisted(group), level) /\ UNCHANGED inbox

(* Time: delayed messages become available; the alarm goes off.            *)
Later(db) == {n \in DOMAIN db : db[n].later}
Clock ==
  LET now(db, s) == [n \in DOMAIN db |-> IF db[n].msg \in s THEN [db[n] EXCEPT !.later = FALSE] ELSE db[n]]
      late == {group.db[n].msg : n \in Later(group.db)}
  IN /\ level # "gone"
     /\ \E s \in SUBSET late :
          /\ s # {} \/ (late = {} /\ group.timer)
          /\ group' = [group EXCEPT !.db = now(@, s), !.disk = now(@, s), !.timer = FALSE]
          /\ inbox' = IF group.timer THEN Append(inbox, To("timeout", Nobody, Nobody)) ELSE inbox
     /\ UNCHANGED level
-----------------------------------------------------------------------------
(* Producers, consumers and the administrator. A process that sends to a   *)
(* group that has ended gets an error. A consumer is "late" when it waits  *)
(* and its dequeue is behind the group's shutdown.                         *)

Asks(msg) == level # "gone" /\ inbox' = Append(inbox, msg) /\ UNCHANGED <<group, level>>
Asked == {inbox[n].kind : n \in DOMAIN inbox}
Got(kind, to) == \E r \in group.mail : r.kind = kind /\ r.to = to

Produce(m) ==
  /\ ~ \E n \in DOMAIN group.db : group.db[n].msg = m
  /\ ~ \E n \in DOMAIN inbox : inbox[n].msg = m
  /\ ~ \E r \in group.mail : r.msg = m
  /\ Asks(To("enqueue", m, m))
  /\ UNCHANGED clientVars

Consume(c) ==
  /\ consumer[c] = "new"
  /\ Asks(To("dequeue", c, Nobody))
  /\ consumer' = [consumer EXCEPT ![c] = IF level = "shutdown" \/ "shutdown" \in Asked
                                         THEN "late" ELSE "waiting"]
  /\ UNCHANGED restored

Waits(c) == consumer[c] \in {"waiting", "late"}

ConsumerGets(c) ==
  /\ Waits(c) \/ consumer[c] = "leaving"
  /\ \/ Got("dequeued", c) /\ consumer' = [consumer EXCEPT ![c] = "served"]
     \/ Got("forgotten", c) /\ consumer' = [consumer EXCEPT ![c] = "told"]
  /\ UNCHANGED <<groupVars, restored>>

(* The consumer is shut down: it asks the group to forget its dequeue and  *)
(* waits for what comes, unless the group has ended.                       *)
ConsumerLeaves(c) ==
  /\ Waits(c)
  /\ \/ Asks(To("forget", c, Nobody)) /\ consumer' = [consumer EXCEPT ![c] = "leaving"]
     \/ level = "gone" /\ consumer' = [consumer EXCEPT ![c] = "told"] /\ UNCHANGED groupVars
  /\ UNCHANGED restored

ConsumerDies(c) ==
  /\ c \in Mortal /\ (Waits(c) \/ consumer[c] = "leaving")
  /\ consumer' = [consumer EXCEPT ![c] = "dead"]
  /\ UNCHANGED <<groupVars, restored>>

(* The domain manager tells of the death.                                  *)
ConsumerExit(c) ==
  /\ consumer[c] = "dead"
  /\ consumer' = [consumer EXCEPT ![c] = "noticed"]
  /\ Asks(To("exit", {c}, Nobody))
  /\ UNCHANGED restored

(* The same of a producer that has not got its reply.                      *)
ProducerExit(m) ==
  /\ m \in Mortal /\ ~ Got("enqueued", m)
  /\ To("enqueue", m, m) \in ToSet(inbox) \/ Reply("enqueued", m, m) \in ToSet(group.held)
  /\ To("exit", {m}, Nobody) \notin ToSet(inbox)
  /\ Asks(To("exit", {m}, Nobody))
  /\ UNCHANGED clientVars

Restore ==
  /\ MayRestore /\ ~ restored /\ group.count["error"] > 0
  /\ restored' = TRUE
  /\ Asks(To("restore", Nobody, Nobody))
  /\ UNCHANGED consumer

GroupInit ==
  /\ group = [db |-> <<>>, disk |-> <<>>, count |-> [q \in Queue |-> 0], involved |-> {},
              registered |-> {}, dequeues |-> <<>>, held |-> <<>>, timer |-> FALSE, mail |-> {}]
  /\ inbox = <<>> /\ level = "running"
  /\ consumer = [c \in Consumer |-> "new"] /\ restored = FALSE

GroupNext ==
  \/ Handle /\ UNCHANGED clientVars
  \/ Idle /\ UNCHANGED clientVars
  \/ Clock /\ UNCHANGED clientVars
  \/ \E m \in Message : Produce(m) \/ ProducerExit(m)
  \/ \E c \in Consumer : Consume(c) \/ ConsumerGets(c) \/ ConsumerLeaves(c)
                          \/ ConsumerDies(c) \/ ConsumerExit(c)
  \/ Restore
=============================================================================
