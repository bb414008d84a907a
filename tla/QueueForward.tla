----------------------------- MODULE QueueForward -----------------------------
(***************************************************************************)
(* A queue forward (queue/source/forward) and the queue group it works on: *)
(* each of its flows dequeues a message from source in a transaction,      *)
(* calls a service with it (or not), enqueues what comes back to target,   *)
(* commits, and starts over; whatever fails is rolled back.                *)
(*                                                                         *)
(* The forward is a state machine without threads: it sends a request and  *)
(* keeps a pending entry; the reply finds the entry by its correlation.    *)
(* A flow is its correlation; its stage is the list its entry is in.       *)
(*                                                                         *)
(* The queue manager (lookups), the service manager and the servers, and   *)
(* the transaction manager are external: a transaction has the group as a  *)
(* resource, and may have others, whose votes are free.                    *)
(***************************************************************************)
EXTENDS QueueGroup

CONSTANTS
  Forward,     \* the forwards of the forward group
  ForwardOf,   \* the forward of a flow
  Kind,        \* "queue" or "service" forwards
  Sizes,       \* instances an update may configure
  MaxUpdates,  \* bound on updates, the first configuration included
  MayFail,     \* calls may fail, and other resources may refuse
  MayDie,      \* the forward may die
  MayShutdown  \* the domain may shut down

ASSUME ForwardAssumption ==
  /\ ForwardOf \in [Flow -> Forward] /\ Kind \in [Forward -> {"queue", "service"}]
  /\ Sizes \subseteq Nat /\ MaxUpdates \in Nat
  /\ {MayFail, MayDie, MayShutdown} \subseteq BOOLEAN
  /\ \A F \in Forward, n \in Sizes : n <= Cardinality({f \in Flow : ForwardOf[f] = F})

VARIABLES
  flow,      \* the stage of each flow and the message it carries
  forward,   \* configured instances, queues that are known, lookups to come
  run,       \* "running", "asked" to shut down, "shutdown", "done", "dead"
  service,   \* flows the service manager is asked for; discards on their way
  updates,   \* updates so far
  noticed    \* who has seen the death of the forward: "group", "tm"

forwardVars == <<flow, forward, run, service, updates, noticed>>
vars == <<groupVars, clientVars, forwardVars>>

Stage == {"idle", "dequeue", "lookup", "call", "enqueue", "commit", "rollback"}
Looked == {"source", "target"}
-----------------------------------------------------------------------------
(* Instances.                                                              *)

FlowsOf(F) == {f \in Flow : ForwardOf[f] = F}
Idling(fl, F) == {f \in FlowsOf(F) : fl[f].stage = "idle"}
Running(fl, F) == Cardinality(FlowsOf(F) \ Idling(fl, F))
Missing(fl, fw, F) == IF fw[F].configured < Running(fl, F) THEN 0
                      ELSE fw[F].configured - Running(fl, F)
Absent(fl, fw, F) == fw[F].configured = 0 /\ Running(fl, F) = 0

(* operator--: the processes of the queues are forgotten when none is left. *)
Dropped(fl, fw, F) == IF Absent(fl, fw, F) THEN [fw EXCEPT ![F].known = {}] ELSE fw

In(stage, m) == [stage |-> stage, msg |-> m]

(* send::dequeue::request, for as many as are missing; none when the group *)
(* cannot be reached.                                                      *)
Begins(fl, fw, F) ==
  IF level = "gone" THEN {{}}
  ELSE {S \in SUBSET Idling(fl, F) : Cardinality(S) = Missing(fl, fw, F)}
Begun(fl, S) == [f \in Flow |-> IF f \in S THEN In("dequeue", Nobody) ELSE fl[f]]
DequeuesOf(S) == SetToSeq({To("dequeue", f, Nobody) : f \in S})
-----------------------------------------------------------------------------
(* What a flow asks for next.                                              *)

Received(r) == [group EXCEPT !.mail = @ \ {r}]
Posted(r) == r \in group.mail

(* The transaction manager asks the group, which it knows by the           *)
(* transaction since the dequeue: involved is sent before the reply.       *)
Transacts(w, f, kinds) ==
  group' = w /\ \E k \in kinds : inbox' = Append(inbox, To(k, f, Nobody))

Rollbacks(w, f) ==
  /\ Transacts(w, f, {"rollback"}) /\ flow' = [flow EXCEPT ![f] = In("rollback", Nobody)]

(* Alone the group is asked to commit at once; with others it is prepared. *)
Commits(w, f) ==
  /\ Transacts(w, f, {"commit", "prepare"}) /\ flow' = [flow EXCEPT ![f] = In("commit", Nobody)]

Enqueues(w, f, m) ==
  /\ group' = w /\ inbox' = Append(inbox, To("enqueue", f, m))
  /\ flow' = [flow EXCEPT ![f] = In("enqueue", m)]

Alive == run \in {"running", "asked", "shutdown"}
-----------------------------------------------------------------------------
(* Configuration.                                                          *)

(* comply::to::state: what can be cancelled is cancelled, and forwards     *)
(* with instances look up their queues again. Lookups the queue manager    *)
(* has not answered are discarded, and some it has are on their way.       *)
Complies(fw) ==
  /\ \E kept \in [Forward -> [Looked -> 0 .. MaxUpdates]] :
       /\ \A F \in Forward, q \in Looked : kept[F][q] <= fw[F].lookups[q]
       /\ forward' = [F \in Forward |-> [fw[F] EXCEPT !.lookups =
            [q \in Looked |-> kept[F][q] + IF fw[F].configured > 0 THEN 1 ELSE 0]]]
  /\ inbox' = IF level = "gone" THEN inbox
              ELSE inbox \o SetToSeq({To("forget", f, Nobody) :
                                        f \in {x \in Flow : flow[x].stage = "dequeue"}})
  /\ service' = [service EXCEPT !.discards = @ \cup {f \in Flow : flow[f].stage = "lookup"}]
  /\ UNCHANGED <<group, level, flow>>

(* configuration::update::request, the first one at startup included.      *)
Update(F, n) ==
  /\ run = "running" /\ updates < MaxUpdates /\ n # forward[F].configured
  /\ updates' = updates + 1
  /\ Complies([forward EXCEPT ![F].configured = n])
  /\ UNCHANGED <<run, noticed, clientVars>>

(* The queue manager shuts the forwards down and then the groups.          *)
Shutdown ==
  /\ MayShutdown /\ run = "running" /\ level = "running"
  /\ run' = "asked"
  /\ Asks(To("shutdown", Nobody, Nobody))
  /\ UNCHANGED <<flow, forward, service, updates, noticed, clientVars>>

ForwardShutdown ==
  /\ run = "asked" /\ run' = "shutdown"
  /\ Complies([F \in Forward |-> [forward[F] EXCEPT !.configured = 0]])
  /\ UNCHANGED <<updates, noticed, clientVars>>

ForwardDone ==
  /\ run = "shutdown" /\ \A F \in Forward : Absent(flow, forward, F)
  /\ run' = "done"
  /\ UNCHANGED <<groupVars, flow, forward, service, updates, noticed, clientVars>>

(* queue::lookup::reply: with both queues known the flows begin.           *)
LookupReply(F, q) ==
  LET asked == [forward EXCEPT ![F].lookups[q] = @ - 1]
      fw == [asked EXCEPT ![F].known = @ \cup {q}]
  IN /\ Alive /\ forward[F].lookups[q] > 0
     /\ \/ /\ run = "shutdown" /\ forward' = asked /\ UNCHANGED <<flow, inbox>>
        \/ /\ run # "shutdown" /\ forward' = fw
           /\ \E S \in IF fw[F].known = Looked THEN Begins(flow, fw, F) ELSE {{}} :
                flow' = Begun(flow, S) /\ inbox' = inbox \o DequeuesOf(S)
     /\ UNCHANGED <<group, level, run, service, updates, noticed, clientVars>>
-----------------------------------------------------------------------------
(* The flow.                                                               *)

(* dequeue::reply. A discard of the flow's last lookup, which is behind    *)
(* it at the service manager, has found it replied.                        *)
DequeueReply(f, m) ==
  LET w == Received(Reply("dequeued", f, m))
      kind == Kind[ForwardOf[f]]
  IN /\ Alive /\ Posted(Reply("dequeued", f, m))
     /\ \/ run = "shutdown" /\ Rollbacks(w, f) /\ UNCHANGED service
        \/ /\ run # "shutdown" /\ kind = "service"
           /\ group' = w /\ flow' = [flow EXCEPT ![f] = In("lookup", m)]
           /\ service' = [service EXCEPT !.asked = @ \cup {f}, !.discards = @ \ {f}]
           /\ UNCHANGED inbox
        \/ run # "shutdown" /\ kind = "queue" /\ Enqueues(w, f, m) /\ UNCHANGED service
     /\ UNCHANGED <<level, forward, run, updates, noticed, clientVars>>

(* dequeue::forget, asked for by the group or answered by it.              *)
Forgotten(f) ==
  /\ Alive /\ Posted(Reply("forgotten", f, Nobody))
  /\ group' = Received(Reply("forgotten", f, Nobody))
  /\ \/ /\ flow[f].stage = "dequeue"
        /\ flow' = [flow EXCEPT ![f] = In("idle", Nobody)]
        /\ forward' = Dropped(flow', forward, ForwardOf[f])
     \/ flow[f].stage # "dequeue" /\ UNCHANGED <<flow, forward>>
  /\ UNCHANGED <<inbox, level, run, service, updates, noticed, clientVars>>

(* dead::process: the group has ended, its dequeues are forgotten.         *)
SourceDead ==
  LET lost == {f \in Flow : flow[f].stage = "dequeue"}
      fl == [f \in Flow |-> IF f \in lost THEN In("idle", Nobody) ELSE flow[f]]
  IN /\ Alive /\ level = "gone" /\ lost # {}
     /\ flow' = fl
     /\ forward' = [F \in Forward |-> Dropped(fl, forward, F)[F]]
     /\ UNCHANGED <<groupVars, run, service, updates, noticed, clientVars>>

(* service::lookup::reply: the service is there, or it cannot be called.   *)
ServiceReply(f) ==
  /\ Alive /\ f \in service.asked
  /\ service' = [service EXCEPT !.asked = @ \ {f}]
  /\ \/ flow' = [flow EXCEPT ![f].stage = "call"] /\ UNCHANGED <<group, inbox>>
     \/ MayFail /\ Rollbacks(group, f)
  /\ UNCHANGED <<level, forward, run, updates, noticed, clientVars>>

(* service::lookup::discard::reply: discarded, unless it was replied to.   *)
ServiceDiscard(f) ==
  /\ Alive /\ f \in service.discards
  /\ service' = [service EXCEPT !.asked = @ \ {f}, !.discards = @ \ {f}]
  /\ \/ f \in service.asked /\ Rollbacks(group, f)
     \/ f \notin service.asked /\ UNCHANGED <<group, inbox, flow>>
  /\ UNCHANGED <<level, forward, run, updates, noticed, clientVars>>

(* service::call::reply.                                                   *)
CallReply(f) ==
  /\ Alive /\ flow[f].stage = "call"
  /\ Enqueues(group, f, flow[f].msg) \/ (MayFail /\ Rollbacks(group, f))
  /\ UNCHANGED <<level, forward, run, service, updates, noticed, clientVars>>

(* enqueue::reply.                                                         *)
EnqueueReply(f, m) ==
  /\ Alive /\ Posted(Reply("enqueued", f, m))
  /\ Commits(Received(Reply("enqueued", f, m)), f)
  /\ UNCHANGED <<level, forward, run, service, updates, noticed, clientVars>>

(* Mutant: the flow is not started over. *)
EndedIdle(f) ==
  /\ Alive /\ Posted(Reply("ended", f, Nobody))
  /\ group' = Received(Reply("ended", f, Nobody))
  /\ flow' = [flow EXCEPT ![f] = In("idle", Nobody)]
  /\ forward' = Dropped(flow', forward, ForwardOf[f])
  /\ UNCHANGED <<inbox, level, run, service, updates, noticed, clientVars>>

(* transaction::commit::reply and rollback::reply: the flow starts over.   *)
Ended(f) ==
  LET F == ForwardOf[f]
      fl == [flow EXCEPT ![f] = In("idle", Nobody)]
      fw == Dropped(fl, forward, F)
  IN /\ Alive /\ Posted(Reply("ended", f, Nobody))
     /\ group' = Received(Reply("ended", f, Nobody))
     /\ forward' = fw
     /\ \E S \in Begins(fl, fw, F) :
          flow' = Begun(fl, S) /\ inbox' = inbox \o DequeuesOf(S)
     /\ UNCHANGED <<level, run, service, updates, noticed, clientVars>>
-----------------------------------------------------------------------------
(* The transaction manager.                                                *)

TmDecides(f) ==
  LET r == Reply("prepared", f, Nobody)
  IN /\ Posted(r) /\ group' = Received(r)
     /\ \E k \in IF MayFail THEN {"commit", "rollback"} ELSE {"commit"} :
          inbox' = Append(inbox, To(k, f, Nobody))
     /\ UNCHANGED <<level, forwardVars, clientVars>>

TmEnds(f) ==
  LET r == Reply("xa", f, Nobody)
  IN /\ Posted(r)
     /\ group' = Sent([Received(r) EXCEPT !.registered = @ \ {f}], Reply("ended", f, Nobody))
     /\ UNCHANGED <<inbox, level, forwardVars, clientVars>>

(* The forward dies: the transaction manager rolls back what it owns, and  *)
(* the group removes what it asked for, when each of them hears of it.     *)
Dies ==
  /\ MayDie /\ Alive /\ run' = "dead"
  /\ UNCHANGED <<groupVars, flow, forward, service, updates, noticed, clientVars>>

GroupNotices ==
  /\ run = "dead" /\ "group" \notin noticed /\ noticed' = noticed \cup {"group"}
  /\ Asks(To("exit", Flow, Nobody))
  /\ UNCHANGED <<flow, forward, run, service, updates, clientVars>>

TmNotices ==
  LET owned == {f \in group.registered : flow[f].stage \notin {"commit", "rollback"}}
  IN /\ run = "dead" /\ "tm" \notin noticed /\ noticed' = noticed \cup {"tm"}
     /\ inbox' = inbox \o SetToSeq({To("rollback", f, Nobody) : f \in owned})
     /\ UNCHANGED <<group, level, flow, forward, run, service, updates, clientVars>>
-----------------------------------------------------------------------------
Init ==
  /\ GroupInit
  /\ flow = [f \in Flow |-> In("idle", Nobody)]
  /\ forward = [F \in Forward |-> [configured |-> 0, known |-> {}, lookups |-> [q \in Looked |-> 0]]]
  /\ run = "running" /\ service = [asked |-> {}, discards |-> {}]
  /\ updates = 0 /\ noticed = {}

FlowNext(f) ==
  \/ \E m \in Message : DequeueReply(f, m) \/ EnqueueReply(f, m)
  \/ Forgotten(f) \/ ServiceReply(f) \/ ServiceDiscard(f) \/ CallReply(f) \/ Ended(f)
  \/ TmDecides(f) \/ TmEnds(f)

ForwardNext ==
  \/ \E F \in Forward, q \in Looked : LookupReply(F, q)
  \/ ForwardShutdown \/ ForwardDone \/ SourceDead

Next ==
  \/ GroupNext /\ UNCHANGED forwardVars
  \/ \E f \in Flow : FlowNext(f)
  \/ ForwardNext
  \/ \E F \in Forward, n \in Sizes : Update(F, n)
  \/ Shutdown \/ Dies \/ GroupNotices \/ TmNotices

Spec == Init /\ [][Next]_vars

(* Processes that block on their queues take what is there, time passes,   *)
(* and the services, managers and servers answer. Nobody has to produce,   *)
(* consume, die, restore, update or shut down. Only Handle shortens the    *)
(* inbox, so this is what its steps are known by.                          *)
TakesMessage == level # "gone" /\ inbox # <<>> /\ inbox' = Tail(inbox)
Fairness ==
  /\ WF_inbox(TakesMessage)
  /\ WF_vars((Idle \/ Clock) /\ UNCHANGED <<clientVars, forwardVars>>)
  /\ \A f \in Flow : WF_vars(FlowNext(f))
  /\ WF_vars(ForwardNext)
  /\ WF_vars(GroupNotices) /\ WF_vars(TmNotices)
FairSpec == Spec /\ Fairness
-----------------------------------------------------------------------------
TypeOK ==
  /\ group.db \in Seq(Row) /\ group.disk \in Seq(Row) /\ group.count \in [Queue -> Nat]
  /\ group.involved \subseteq Flow /\ group.registered \subseteq Flow /\ group.timer \in BOOLEAN
  /\ group.dequeues \in Seq([who : Flow \cup Consumer, queue : Queue])
  /\ level \in {"running", "shutdown", "gone"}
  /\ consumer \in [Consumer -> {"new", "waiting", "late", "leaving", "served", "told", "dead", "noticed"}]
  /\ flow \in [Flow -> [stage : Stage, msg : Message \cup {Nobody}]]
  /\ run \in {"running", "asked", "shutdown", "done", "dead"}
  /\ service.asked \subseteq Flow /\ service.discards \subseteq Flow
  /\ \A F \in Forward : forward[F].known \subseteq Looked

(* A message the producer was told of exists once: as a row that can be    *)
(* seen or is being dequeued, or with the consumer that was given it.      *)
Acked(m) == Posted(Reply("enqueued", m, m))
Delivered(m) == {c \in Consumer : Posted(Reply("dequeued", c, m))}
MovedOnce ==
  \A m \in Message :
    Acked(m) => Rows(group.db, LAMBDA r : r.msg = m /\ Visible(r)) + Cardinality(Delivered(m)) = 1

(* A reply to a producer, or to a commit or a rollback, is sent when what  *)
(* it tells of is on disk.                                                 *)
RepliedIsDurable ==
  /\ \A m \in Message :
       Acked(m) /\ (\E r \in ToSet(group.db) : r.msg = m) => \E r \in ToSet(group.disk) : r.msg = m
  /\ \A f \in Flow, r \in ToSet(group.disk) :
       Posted(Reply("xa", f, Nobody)) /\ r.gtrid = f => r.state = "enqueued"

(* A dequeue that waits beside a message of its queue will be woken: by    *)
(* the next write, by a transaction that ends, or by the alarm.            *)
NoLostDequeue ==
  inbox = <<>> /\ group.held = <<>> /\ group.involved = {} /\ ~ group.timer =>
    \A d \in ToSet(group.dequeues), r \in ToSet(group.db) :
      ~ (r.queue = d.queue /\ r.state = "enqueued")

(* A process that has died, and the group has been told, is not given a    *)
(* message: it would be lost.                                              *)
Buried(c) == consumer[c] = "noticed" /\ To("exit", {c}, Nobody) \notin ToSet(inbox)
DeadTakesNothing ==
  [][\A c \in Consumer, m \in Message :
       Buried(c) /\ Reply("dequeued", c, m) \in group'.mail => Posted(Reply("dequeued", c, m))]_vars

(* A message that is in source reaches target or error, as long as nothing *)
(* dies or is shut down and the forwards are configured.                   *)
Flowing == run = "running" /\ \A F \in Forward : forward[F].configured > 0
Reached(m) == \E r \in ToSet(group.db) :
                r.msg = m /\ r.queue \in {"target", "error"} /\ r.state = "enqueued"
MessageEnds ==
  \A m \in Message : Acked(m) /\ Flowing ~> (Reached(m) \/ Delivered(m) # {} \/ ~Flowing)

(* A shutdown ends: every flow is brought to an end and the group is done, *)
(* unless the forward dies or a consumer asks the group after its shutdown *)
(* message: that dequeue waits for ever.                                   *)
LateConsumer == level = "shutdown" /\ \E c \in Consumer : consumer[c] = "late"
ShutdownEnds ==
  run = "asked" ~> (run = "done" /\ level = "gone") \/ run = "dead" \/ LateConsumer
=============================================================================
