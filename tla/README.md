# TLA+ models of casual

casual is a distributed application server: XATMI services, TX transactions,
queues and gateways, spread over processes that talk through messages. A
*domain* is one set of such processes on one machine; gateways connect domains.
This directory holds TLA+ modules translated from the source, the TLC
configurations that check them on small instances, and proofs, checked by
TLAPS, of what holds for every instance.

The first part below is an inventory of the whole system, then come the
modules, the runs, the proofs, what is left out, and the plan.

## 1. The system

Every server of casual is one single threaded process with an inbound queue of
messages: it takes a message, runs its handler to the end, and takes the next
(`communication::select`, `message::dispatch`). When no message is left, some
call an *idle* handler. A process that dies is reported to its parent by a
signal, to the others by a message `process::Exit`. So the steps of a server
are its handlers, the state between two steps is its `State` object, and all
concurrency is in the messages between the processes. A send to a process that
is gone throws. A send to one with a full queue is either blocking or handed to
the pending message server.

| component | state | operations | talks to | what makes it correct | hard |
|---|---|---|---|---|---|
| **transaction manager** (`middleware/transaction/source/manager`) | transactions with branches, resources and a stage; resource proxies; pending requests; fan-outs; held replies | involve, commit, rollback, the same from another domain, replies of resources, death of processes, scaling, persist | clients, proxies, queue groups, gateways, its log | all or nothing; what is answered is true; every request ends; the log is what a restart may act on | order of replies and requests, dying owners and proxies, several coordinations of one transaction |
| **resource proxy** (`transaction/source/resource`) | one open XA resource | prepare, commit, rollback, shutdown | transaction manager, a resource manager | one xa call and one reply for each request | dies with a request, is shut down with one |
| **transaction log** (`manager/log.cpp`) | sqlite rows of branches, one open transaction | prepare, remove, persist | transaction manager | rows only of what can be committed | what is on disk lags behind what was sent |
| **fan-out coordination** (`common/message/coordinate.h`) | entries with pending and received replies | add, reply, failed | transaction manager, discovery, domain manager | callback exactly once, after the last reply | replies out of order, processes that die |
| **client context** (`common/source/transaction/context.cpp`) | transactions of one thread, associations of resources | begin, commit, rollback, suspend, resume, the start and end of a service call | transaction manager | TX rules; one end per transaction; involvement reported | nested and suspended transactions, failing commits |
| **service manager** (`middleware/service/source/manager`) | services, instances and their reservations, pending lookups, deadlines, metrics | advertise, lookup, discard, ACK, timeout, discovery replies, death | callers, servers, discovery, gateways, forward cache | an instance serves one call; a waiting lookup gets the first free instance | reservation against death, timeout and discard |
| **service forward cache** (`service/source/forward`) | calls parked for busy services | call, lookup reply | service manager, servers | a parked call is forwarded once or answered with an error | |
| **queue group** (`queue/source/group`) | messages and queues in sqlite; blocking dequeues; replies held until persist | enqueue, dequeue, peek, prepare, commit, rollback, persist | clients, transaction manager | a message is delivered in one committed transaction | persist at idle, timers, blocking dequeues and death |
| **queue forward** (`queue/source/forward`) | one state machine for each configured instance | lookup, dequeue, call or enqueue, commit or rollback | queue group, services, transaction manager | a message is forwarded once, in one transaction | any of the four partners fails |
| **queue manager** (`queue/source/manager`) | groups, forwards, remote queues | lookup, advertise, restart | all users of queues | a lookup names a queue that exists | |
| **gateway** (`middleware/gateway`) | connections, lookup tables, branches for each connection, pending calls | call, transaction requests, discovery, lost connections | other domains, transaction manager, service manager | every request over a connection is answered; a branch is reported before it is used | a connection that is lost |
| **domain discovery** (`domain/source/discovery`) | providers, fan-outs of discovery | discovery, rediscovery, advertised, exit | gateways, service and queue managers | each discovery is answered | agents that die |
| **domain manager** (`domain/source/manager`) | executables and servers, groups, tasks | boot, shutdown, scale, restart, exit | every process | dependency order; no task for ever | tasks that meet exits |
| **pending message server** (`domain/source/pending`) | messages to full queues | send later | everyone | delivers in order, or drops with the process | |
| **http** (`middleware/http`) | calls in curl | outbound, inbound | service manager, nginx | each call is answered | |
| **communication** (`common/communication`) | queues, chunks | send, receive | everyone | order between two processes; nothing in two places | |
| **event dispatch** (`middleware/event`) | none of its own | subscribe, receive | domain manager | | |
| **configuration, buffers, service framework, XATMI C API** | conversions | | | | pure data |

How a distributed transaction uses them: a client calls a service; the server
works in its resource and reports the *involved* resource to the transaction
manager (TM); a call that leaves the domain makes the gateway an *external*
resource. The client asks the TM to commit. The TM asks every resource to
prepare, in a fan-out, then writes its log and fans the commit out, or a
rollback. Requests to a local resource go to one of its proxies, or wait in
`pending.requests` when all are busy; external ones go to the process itself.
For another domain the TM is such a resource.

Names below are those of the code. A *part* is a resource of a branch.

## 2. The modules

| module | what it is |
|---|---|
| `XACode` | ranking of XA codes (`code::priority::xa`), the most severe of several (`accumulate::code`), conversion to TX codes (`code::convert::to::tx`) |
| `TransactionManager` | the TM with its log, fan-outs and proxies, and the environment: owners, resources, another domain, administrators |
| `AtomicCommit` | what the TM promises to the resources, without any message; `TransactionManager` is checked to implement it |
| `ServiceManager` | the service manager with its callers, its servers, gateways as concurrent instances, and the forward cache |
| `QueueGroup` | a queue group: the database with its triggers, held replies, waiting dequeues, the alarm, producers and consumers |
| `QueueForward` | extends `QueueGroup` with the forward group, which dequeues, calls, enqueues and commits, and with the parts of the queue manager, service manager and TM that it talks to: the composition of the two |
| `Gateway` | the outbound group of one domain, the inbound group of another, the connections between them, and as much of the TM on one side and of servers and resources on the other as talks to them |
| `DomainManager` | the domain manager: instances, the order of groups, the queue of tasks, and the processes it is the parent of |
| `MCTransactionManager`, `MCServiceManager`, `MCQueue`, `MCGateway`, `MCDomainManager` | functions that the configurations need |
| `TransactionManagerProofs`, `CommitProofs`, `AgreementProofs` | theorems about `TransactionManager`, each module using the one before it |
| `GatewayProofs` | theorems about `Gateway`: votes and transactions, types, and what becomes of a request |
| `Loops`, `LoopProofs` | the loop that `ServiceManager` and `QueueGroup` share, which erases what fits from a sequence; the inductions over naturals and sequences that the proofs about loops need |
| `ServiceProofs` | theorems about `ServiceManager` |
| `QueueProofs` | what each handler of a queue group does to rows, counts, waiting dequeues and replies |
| `QueueFlowProofs` | the invariant of a queue group and its forwards, and what follows from it |

In all of them a handler is one step: the process takes a message, runs the
handler to its end and takes the next. A request that nobody has taken yet
cannot be told from one not yet sent, so requests of clients are made and
handled in one step; what a handler *sends* is kept in flight wherever its
arrival can meet something else. What is never read by a property (buffers,
metrics, wording of errors, events for listeners) is left out.

### `TransactionManager`

| variable | code |
|---|---|
| `stage`, `branches`, `involved` | `state.transactions`, their `branches` and `resources`; `absent` is a transaction that is not there |
| `fanout` | `state.coordinate.prepare / commit / rollback`: an entry has the parts it asked, the replies received, and the code its callback started from |
| `pool.state`, `pool.inbox` | what the TM believes of each proxy, and the requests the proxy has not taken |
| `pool.queue` | `state.pending.requests`, for each resource, in order |
| `pool.external` | requests that queue groups and gateways work on |
| `held`, `logged`, `durable` | `persistent.replies`; rows in the open sqlite transaction; rows on disk |
| `issued`, `answers` | requests made, and every answer each has been sent |
| `replies` | replies of resources that the TM has not taken |
| `announced`, `up`, `closing`, `gone` | `Ready` messages in flight, proxies that run, proxies that were sent a shutdown, owners that died |
| `rm`, `ballot` | what the resource managers have done; every vote (history) |
| `manager` | `terminated` after a failed assertion or an exception that leaves the message pump |

| action | handler |
|---|---|
| `Involve`, `ExternalInvolve` | `resource::involved::request`, `resource::external::involved::request` (with the server's work in the resource, done before) |
| `TxCommit`, `TxRollback` | `commit::request`, `rollback::request` |
| `XaCommit`, `XaRollback` | `external::prepare / commit / rollback::request` |
| `PrepareReply` | `resource::prepare::reply`, `instance::replied`, and on the last vote the callback of `coordinate::prepare` with log and second phase |
| `OutcomeReply` | `resource::commit / rollback::reply` and their callbacks: answer, remove, log removal |
| `Persist` | `persist::send`, when the inbound queue is empty |
| `OwnerExit` | `process::exit` of an owner: rollback of each transaction whose last branch it owns |
| `Ready`, `ProxyExit`, `ScaleOut`, `ScaleIn` | `resource::ready`, `process::exit` of a proxy, `scale::instances` |
| `ProxyStart`, `ProxyWork`, `ProxyShutdown`, `ProxyCrash`, `ExternalWork` | the proxies (`proxy.cpp`), queue groups and gateways, and the resource managers behind them |

Replies stay in flight in a set and are taken in any order: they come from
different processes, and a proxy has one request at a time. Requests one
handler adds to `pending.requests` for a resource are one batch whose inner
order is left open, since it follows the order of branches and resources in
vectors that the model holds as sets. Which of several branches is the last of
a transaction, for `OwnerExit`, is left open for the same reason.

What the resources may answer is in `RmAnswers`, after the XA rules: a refusal
(`Refusal`) in a prepare or one-phase commit, a failure (`Fault`) in the second
phase, `invalid_xid` for a part the resource does not know any more, `protocol`
for a call in the wrong state. Resource managers and the application are not
part of the repository; these definitions are read off how the code uses them.

### `ServiceManager`

| variable | code |
|---|---|
| `sm` | the record `State`: `known` and `local` instances with the services they offer, `busy` and `caller` of a sequential instance (`Sequential::m_service`, `m_caller`), `pending` lookups in order, `deadlines` (`pending.deadline`), `asked` (discoveries on their way), `mail` (lookup replies not yet taken) |
| `drains`, `prepared`, `leaving` | `pending.shutdown`: the fan-out of each `prepare::shutdown`; servers the domain manager was told of, and those it has asked for |
| `phase`, `answers` | each lookup at the process that made it; what each caller has been told |
| `at`, `acks` | calls at or on their way to servers, gateways and the cache; ACKs on their way |
| `srv`, `offered` | processes of servers, and what they have advertised |
| `manager` | `failed` after an assertion or an exception that leaves the handler |

| action | handler |
|---|---|
| `LookupRequest`, `Discard`, `DiscoveryReply`, `Timeout` | `service::lookup`, `discard::lookup`, `discovery::external::Reply`, the deadline |
| `Ack`, `Exit`, `PrepareShutdown` | `ack` with the pending lookups and the fan-out of shutdowns, `process::exit`, `prepare::shutdown` |
| `Start`, `TpAdvertise`, `TpUnadvertise`, `RemoteAdvertise` | `advertise` of a server at start and from inside a call, `concurrent::advertise` |
| `Receive`, `CallerDies` | the caller (`call/context.cpp`, `lookup.cpp`): takes its lookup reply and calls, or leaves the reply of a lookup it gave up to be discarded |
| `Serve`, `Forward`, `Forwarded`, `Die` | the server (`server/handle/service.h`, `policy.cpp`): reply and ACK, or a forward, which looks up for itself |
| `CacheRequest`, `CacheReply`, `RemoteServe` | the forward cache; a gateway and the domain behind it |

The choice among idle instances (the code takes the first it finds) and the
order in which deadlines pass (a clock) are left open. A lookup has the
correlation of its call; the cache looks up with the correlation of the call it
was given, which is how a deadline can be removed by the wrong ACK. The caller
and a server look up by the name they are given, the cache by the name in the
message, which the lookup reply has made the origin name of the service
(`ServiceOf`). Where routes replace that name nobody offers it.

### `QueueGroup` and `QueueForward`

| variable | code |
|---|---|
| `group` | `db` and `disk`: rows as the open sqlite transaction sees them and as written; `count`: `queue.count`, kept by triggers; `involved`, `registered`: transactions it has work of, and the TM knows of; `dequeues`: `pending.dequeues`; `held`: `pending.replies`; `timer`: the alarm; `mail`: replies not taken |
| `inbox`, `level` | the inbound queue, in order; the runlevel |
| `consumer`, `restored` | blocking consumers; the administrator's restore |
| `flow`, `forward` | the pending entry of each instance of a forward, by its correlation, and the message it carries; configured instances and known queues |
| `run`, `service`, `updates`, `noticed` | runlevel of the forward, requests at the service manager, updates made, who has seen its death |

`Handled` dispatches a message of the inbox: `OnEnqueue`, `Dequeue`,
`OnForget`, `OnCommit`, `OnRollback`, `OnPrepare`, `OnRestore`, `OnExit`,
`OnShutdown` are the handlers of `group/handle.cpp`, and `Handle` ends with
`persist` when `Batch` replies are held; `Idle` is the persist when nothing is
left to read, `Clock` the alarm. `LookupReply`, `DequeueReply`, `Forgotten`,
`ServiceReply`, `CallReply`, `EnqueueReply`, `Ended`, `ServiceDiscard`,
`SourceDead`, `Update` and `ForwardShutdown` are the handlers of
`forward/handle.cpp`, per flow. Consumers follow `queue/api/queue.cpp`.

### `Gateway`

| variable | code |
|---|---|
| `outbound` | `outbound::State`: `connections`, those to be made again, `lookup` (resources to connections), `branches` of `lookup.service/queue`, `involved` (reported to the TM), `routes` (`route.message`, `route.service`), `discovery` (its fan-outs), `disconnecting`, `level`; `replies`: everything it told local processes |
| `inbound` | `inbound::State`: `connections`, `correlations`, `requests` (calls that wait for their lookup), `disconnects`, `level` |
| `wire`, `cut`, `broken`, `connects` | each connection as two FIFO channels, and how it ended |
| `asked`, `tm` | requests, jobs and discoveries the outbound has taken; what the TM decided and asked of it |
| `lookups`, `remote` | lookups of the inbound at the managers of the other domain; what works there, which branches it has work for, which jobs it has done |

`Ask`, `AskResource`, `Converse`, `Discover`, `Connect` are the outbound's
handlers of local messages; `OutboundReads` is its dispatch of a message from a
connection (`Answered`, `Conversed`, `Voted`, `Discovered`, disconnect);
`OutboundLoses`, `OutboundIdle`, `OutboundShutdown`, `OutboundEnds` the loss of
a connection, the idle handler and the ends. The inbound has the same shape:
`InboundReads` (`Took`, `HungUp`, disconnect), `LookupReply`, `Serve`,
`VoteOn`, `Find`, `EndConversation` and its ends. `SendUp` and `SendDown` are
`tcp::send`, which loses the connection when the other end is gone. Bytes in a
closed connection are lost, and closing one with unread bytes resets it. When
several connections go, each is taken out of the lookup and its discoveries
fail before the next one is looked at (`Failed`), as the code does it. A call
is refused by its name (`RequestedAs`), which may be that of a route; `Looped`
are calls and queue requests that come back while they are in flight, and
`OriginOf` the connections that a discovery is not sent to, those to the domain
it is from.

### `DomainManager`

| variable | code |
|---|---|
| `world` | `level` (`runlevel`), `instances` of each alias with state and pid, `restart` (flags of the aliases), `singletons`, `running` and `pending` (`task::Queue`), `process` (the children), `preparing` (requests at the service manager, each with the processes it has yet to reply for), `emulated` (the replies the manager pushed to itself, in order) |
| `deaths`, `requests` | what happened to it: bounded |

`Connect`, `Exit`, `Prepared`, `Shutdown`, `FatalError`, `Scale`,
`RestartAliases` are handlers; `Idle` is `Queue::idle`; `Emulated` is the
manager's own reply when there is no service manager. Tasks are values with the
groups that are left; `Progress` and `RestartNext` are their callbacks, which
every connect, exit and idle event runs (`Event`). `BootOrder` is
`order::boot`, over all groups: the five that every domain has, the configured
ones as they are listed, and the gateway's, which depends on the others
(`Groups`, `DependsOn`, after `transform.cpp`). `Sorted` is what
`std::stable_sort` of libstdc++ does with up to 14 elements, since the result
for a comparator that is no strict weak order depends on the algorithm: two
halves, the first the longer, are sorted by insertion and merged, from the
front when they are of one length (`MergedForward`), else from the back
(`MergedBackward`). A handler may start, advance and end several tasks,
so handlers are functions of the record `world`. `Once` only keeps TLC from
evaluating a LET again and again.

## 3. The runs

Two workers; the largest takes under four minutes. Deadlock checking is off: a
system whose clients have asked everything may stop, and the properties say
what must have ended by then.

| run | instance | properties | distinct states |
|---|---|---|---|
| `core` | a global transaction of two branches, two resources with a proxy each, an external resource, refusals | `TypeOK`, `OneJobPerProxy`, `AwaitedIsOnItsWay`, `CommitAfterVotes`, `Agreement`, `AnswerIsTrue`, `LoggedIsCommittable`, `ImplementsAtomicCommit` | 479,000 |
| `live` | two global transactions that compete for two proxies; the owner of one may die | `LoggedIsCommitting`, `EveryRequestAnswered` | 92,000 |
| `scaling` | two proxies of one resource that die, are shut down and added; a branch of another domain with late servers; an owner that dies; failures in the second phase | `NoLostWakeup`, `InProgressIsCoordinated` | 265,000 |
| `service_core` | two calls, one with a timeout, two servers; one may die, each may be drained | `TypeOK`, `ReservationOwned`, `FailureToldOnce`, `PreparedIsIdle`, `LookupSettled`, `CallAnswered`, `PrepareReplied` | 49,000 |
| `service_paths` | three calls over two servers that offer different services, three of them with a timeout, one a route: a call handed on from one server to the other, through the cache when that is busy, one to the second server, one that is given up and whose caller may die; a gateway, an advertise inside a call, a server that dies | `OneCaller`, `NoLostLookup`, `DeadlineKept` | 1,987,000 |
| `queue_core` | a service forward that is switched on and off, one message, a consumer; restore, shutdown, a producer that dies | `TypeOK`, `RepliedIsDurable`, `MessageEnds`, `ShutdownEnds` | 137,000 |
| `queue_faults` | two messages, a forward of two instances, delayed redelivery; the forward and a consumer may die | `MovedOnce`, `NoLostDequeue`, `DeadTakesNothing` | 2,360,000 |
| `gateway` | two connections, seven mixes of requests and discoveries, one cut or soft shutdown, a remote that refuses, dies or has nothing | `TypeOK`, `VoteIsTrue`, `EndsEverywhere`, `NoneCommitsAlone`, `SoftLosesNothing`, `RouteIsLive` | 1,984,000 |
| `domain` | the groups of every domain and two that are listed in another order than they depend on each other, a server that boots before the service manager, three instances of a server, one that cannot be spawned, two executables; a death, a scale or restart, a shutdown or a fatal error | `TypeOK`, `EndsAlone`, `RollingRestart`, `InOrder`, `LevelEnds` | 156,000 |
| `assertion`, `queue_update`, `domain_order` | what an assertion, a comment or a document says and the code does not do | one each | violated |

### Bounds, and why they are enough

*Transactions.* Two parts are the least that need a second phase, and a refusal
or failure of one among others shows with two; the external resource has a
branch of its own and answers without a proxy. Two branches make the loss of a
branch visible. Two transactions that share proxies fill the queues; two
proxies of one resource are needed for overtaking and for `State::idle` to
matter. `Batch` is 2, so that a held reply is released by the batch and by
idleness.

*Services.* A hazard needs a caller that holds an instance, one that waits, and
another instance to go to: two calls and two servers. A third call lets a
forward and the cache meet a plain call. The servers of `service_paths` offer
different services, so that a call that is handed on has its correlation at
both, with a deadline at each, while plain calls wait at either. `MaxUnread`
stops advertises while a caller has that many replies unread, since a server
may advertise for ever.

*Queues.* Two messages and two instances of a forward are the least for one
transaction to commit while another is half way in the same database.
`RetryCount` is 0, so that one rollback moves a message to the error queue and
none loops for ever; `RetryDelay` makes a rolled back message available later.

*Gateway.* Two connections are the least for a transaction to have two branches
in the other domain, and for a lookup to choose. Each behaviour has one of the
pairs in `Mix`: a call or a cast with a queue request, in one transaction; a
call with one that comes back, or with a discovery; a queue request with one
that comes back, or with a conversation; a rediscovery with a queue request
that finds no queue manager. A call beside a conversation is left out, for
size: that a call which finds no service takes the connection out of the lookup
of a conversation is not in the run. No discovery comes from a domain that is
connected (`OriginOf` is empty), so each is sent to as many connections as
there are. One fault, of three kinds, at any moment. The
connections are symmetric, and the run uses that, which is sound since all its
properties are invariants. `MaxConnects` is 2: one connection is lost and made
again, or both are made once. With 3, `RouteIsLive` has an exception more
(section 4).

*Domain.* Six groups are of every domain; two more are the least for the sort
to have something to do, and three for it to fail (`domain_order`). Three
instances are the least for a restart or scaling to leave a gap in the middle;
`s2` belongs to two groups. One death and one request besides shutdown already
meet any step of a boot, restart or shutdown. `MaxSpawns` is more than any
behaviour spawns.

### What each run gives up

Each run leaves out the faults its properties do not survive, and the fault is
then in another run, or in the list of disagreements below.

- `core`: no owner dies, no resource decides by itself and no other domain
  takes part (`Mortal`, `Fault`, `Upstream` empty): otherwise the owner's
  rollback may overtake the second phase, and a heuristic outcome is no fault
  of the TM. `scaling` has all three.
- `AwaitedIsOnItsWay` needs that no proxy is shut down: `instance::done` gives
  a waiting request to a proxy that will not take it. A request at a proxy that
  has died counts as on its way; that it is never answered is a matter of
  liveness, and `EveryRequestAnswered` is checked without such deaths.
- `NoLostLookup` names the three ways in which a lookup is stranded beside
  somebody who could serve it, and excuses them (`PassedOver`): an instance is
  let go by a discard; the last local instance of a service that gateways have
  too goes away; an instance advertises a service that is asked for by the name
  of a route. The run has all three, and TLC finds the property violated
  without any one of them.
- `DeadlineKept` is about calls that no server hands on (`Straight`); those
  that are handed on are in the run beside them. Stated for all calls it is
  violated in this run: the ACK of the server that handed a call on takes the
  deadline of the server that it was handed to, or the other way round. The
  documentation has the timeout "from the _caller_ perspective"
  (`domain.general.operation.md:62`), and does not say which it is then.
- `ReservationOwned` is checked in `service_core`, whose callers live and do
  not give up. In `service_paths` a caller may die before it has read the reply
  to its lookup, and the instance stays reserved.
- `LookupSettled` allows a lookup to wait for a service nobody offers.
  `PrepareReplied` is checked of behaviours in which no call is let go
  (`LetGo`): a server that is late for ever, or a caller that took the reply
  after a busy reply for an instance.
- `MessageEnds` and `ShutdownEnds` end where the forward dies, and the latter
  where a consumer asks a group that was told to shut down.
- `SoftLosesNothing` is about soft shutdowns: it excuses a connection that was
  cut or reset and an end that left by an exception.
- `LevelEnds` names where a boot or shutdown does hang: `BootHalted` (an
  instance of the group that boots waits to be spawned or to leave, which
  nobody does), `Skipped` (an instance that was never told to leave),
  `Rescaled` (scaled during the shutdown). `InOrder` is strict for a shutdown;
  in a boot that meets deaths or requests it allows an instance that is yet to
  be spawned again. It counts the master group as a parent of every group,
  which the descriptions of the groups say and the dependencies of a configured
  group do not (see below).

### Fairness

`FairSpec` states weak fairness for what a process does with a message that has
arrived, and for nothing else: a pump blocks only on an empty queue and has an
idle handler. In `TransactionManager` this is `ReplyNext`, `Ready`, `Persist`,
and the work of proxies and external resources; in `ServiceManager` the one
disjunction `Progress` (taking lookup replies, calls, ACKs, timeouts, exits,
discovery replies); in `QueueForward` the group, each flow, the forward and the
notices of a death; in `DomainManager` connects, exits, replies and `Idle`.
Fairness of a whole disjunction is enough because each message taken is gone.
Clients, administrators, deaths and failures owe nothing. A server that has
been told to leave does leave: that is the one assumption about processes that
are not part of casual.

Every property of a passing run has a mutant in `PROJECT.json`, a change of one
definition like a bug of that code, under which TLC finds the property
violated.

### What the runs found

1. `assertion`: `process::exit` of an owner calls `rollback::request` without a
   look at the stage. With two proxies for a resource the rollback of a
   transaction whose votes are being collected can be completed, and the
   transaction removed, before the last vote; `casual::assertion` in
   `coordinate::prepare` (`handle.cpp:409`) fails then.
2. `queue_update`: an update of a forward cancels its dequeues and asks for the
   queues again. When the lookup replies come before the forget replies nothing
   is started, since the old dequeues still count, and nothing is started
   later: the forward stands still. The comment at `forward/handle.cpp:270`
   says it starts over.
3. `domain_order`: the comparator of groups sees direct dependencies only. With
   g3 (depends on g2), g1 and g2 (depends on g1) listed in this order the
   domain has nine groups, which are sorted in halves of five and four. The
   second half, g3, g1, g2 and the gateway's group, becomes g2, g3, g1 and the
   gateway's: g2 is moved in front of g3, and g1 is never compared with it
   again. The merge leaves it so, and g2 and g3 are booted before g1, which
   both need. Whether a listing comes out right depends on where the halves
   fall. The documentation says groups define the dependency order, a comment
   that the order of the listing does not matter.

### Other disagreements met while modelling

Behaviours that TLC showed or that were read off the code, for which no run is
kept: either no document promises the contrary, or the property would fail in
the first run and say no more.

*Transaction manager.* `Transaction::purge( replies)` keeps the resources that
voted read only and trims the others, so `log.prepare` writes no row when all
votes are ok, though `domain.transaction.operation.md:22` says that prepare is
stored. The prepare stage reply is held until persist and the commit reply is
not, so the client may see them swapped. Asked by another domain to *prepare*,
the TM commits (`interdomain-transaction-2-resources.uml:78` shows a vote).
`Log::logged` is never called, so a restart finishes nothing. A fan-out whose
proxy has died waits for ever.

*Service manager.* A server that advertises from inside its call after it was
asked to prepare for shutdown is added again as idle, and its ACK meets
`assert( state() == State::busy)` (`state.cpp:69`). The manager may send a
second busy reply when it makes a pending lookup again, which the caller takes
for an instance. The ACK and the advertises look at the pending lookups; a
discard does not, nor does what takes away the last local instance of a service
(an exit, an unadvertise, and a prepare for shutdown, which looks only when no
instance is left, gateways included) where gateways have it too, and an
advertise finds no lookup that was made by the name of a route: each leaves a
lookup beside somebody who could serve it. The forward cache looks up by the
origin name of the service it was given, which nobody offers where routes
replace it. A call that a server hands on may lose the deadline of one server
to the ACK of the other. A timed out call of a server that prepares for
shutdown leaves the prepare unanswered when the server never ACKs. A
reservation leaks when its caller dies with the reply unread. The absent reply
is a blocking send that is not optional: to a dead caller it throws.

*Queues.* When the forward dies and the TM is told first, the group may still
take its dequeue, and the message stays dequeued for a transaction nobody ends.
A producer that dies takes its held reply with it, and the write and the
wake-up it stood for. `pending::dequeues` unsets an alarm that it has just set.
A dequeue that comes after the shutdown of the group waits for ever. A prepare
is answered ok and nothing is written. An enqueue that throws is not answered.

*Gateway.* A discovery that comes back after its connection was lost advertises
it again (`outbound/handle.cpp:345`; `outbound/handle.h:28-31` says otherwise),
and calls to it are neither sent nor answered. Lookups of queues and
conversations outlive their connection, and the reply ends the inbound with all
its connections. The loop check comes after the branch was created, so the TM
is not told of it. A connection lost inside a send is never made again. A
prepare or commit asked for after the loss is not answered, and the outbound
then does not end. A disconnect closes connections whose transactions await
their commit, and the inbound's does not count open conversations. The inbound
registers the correlation of every message, casts included, so a connection
that had one is never idle. Without a queue manager in the other domain a queue
request is not answered. An abort leaves calls unanswered, and conversations
get no error. A rediscovery counts on connections that are gone. A call that a
late discovery has routed to a lost connection has its route on the next
connection with that descriptor, where no answer will come either.

*Domain manager.* A boot halts when a server with `restart` dies in it, or an
administrator scales an alias of the group that boots; a shutdown then waits
behind the boot. A shutdown hangs over instances behind a gap (`subrange` gives
the first series only) and over those whose prepare request the service manager
had when it died; also when something is scaled during it. `scale` counts
spawned instances as none. A restart hangs when the respawned instance dies
before it connects; restarts that overlap or are aborted leave the flag
`restart` set. `transform.cpp:63` overwrites the implicit dependency on the
master group. The task of `remove::aliases` does not call its callback when the
groups are already done. Discovery does not fail the `advertised` fan-out of an
agent that dies (`discovery/handle.cpp:340`).

## 4. The proofs

All for every value of the constants that satisfies the named assumptions of
the module (`BranchAssumption`, `ResourceAssumption`, `AnswerAssumption`:
functions are total, local and external resources differ, nobody is both a
client and driven by another domain, refusals and faults are not `ok` or
`read_only`, the batch is at least one; `GatewayAssumption`: functions are
total, there are finitely many connections, and the correlations of requests
differ from those of the TM's jobs, of discoveries and of disconnects: all are
UUIDs, and so are what a discovery and what a new connection asks for;
`ServiceAssumption`, `CallAssumption`: functions are total, servers, gateways
and the words of replies differ, a call looks up some service, and one in the
forward context is not forwarded again;
`QueueAssumption`, `ForwardAssumption`: functions are total, messages, flows
and consumers have different names, there are finitely many flows, the batch is
at least one, an update configures no more instances than there are flows).
The runs evaluate the assumptions.

| theorem | says |
|---|---|
| `TypeCorrect` | `Spec => []TypeOK` |
| `WakeupNeverLost` | `Spec => []NoLostWakeup`, with deaths and scaling |
| `ProxiesHaveOneJob` | `Spec => []OneJobPerProxy`, with deaths and scaling |
| `CommitInvariant` | `Spec => []CommitInv` |
| `CommitIsDecided` | `Spec => []CommitAfterVotes`, with everything that may fail |
| `NothingIsLost` | `Spec => []AwaitedIsOnItsWay` when `MayScaleIn = {}` |
| `ProgressIsCoordinated` | `Spec => []InProgressIsCoordinated`, with everything that may fail |
| `LogIsCommitting` | `Spec => []LoggedIsCommitting`, with everything that may fail |
| `PartsAgree` | `Spec => []Agreement` when `Undisturbed` |
| `LogIsCommittable` | `Spec => []LoggedIsCommittable` when `Undisturbed` |
| `AnswersAreTrue` | `Spec => []AnswerIsTrue` when `Undisturbed` and no resource refuses with `retry` or `invalid_xid` |
| `ManagerIsAtomic` | `Spec => ImplementsAtomicCommit` when `Undisturbed` |
| `ServiceTypeOK` | `ServiceManager!Spec => []TypeOK` |
| `InstancesAreSafe` | `ServiceManager!Spec => []ServiceInv` when `Quiet` |
| `InstanceHasOneCaller` | `ServiceManager!Spec => []OneCaller` when `Quiet` |
| `PreparedHaveNoCall` | `ServiceManager!Spec => []PreparedIsIdle` when `Quiet` |
| `DeadlinesAreKept` | `ServiceManager!Spec => []DeadlineKept` when `Quiet` and `Watchable` |
| `VotesAreTrue` | `Gateway!Spec => []VoteIsTrue`, with every fault of the module |
| `CommitsAreAgreed` | `Gateway!Spec => []NoneCommitsAlone` when `Unlooped`, with every fault of the module |
| `EndsReachAll` | `Gateway!Spec => []EndsEverywhere` when `Unlooped`, with every fault of the module |
| `GatewayTypes` | `Gateway!Spec => []TypeOK` |
| `SoftIsLossless` | `Gateway!Spec => []SoftLosesNothing`, with every fault of the module |
| `RoutesAreLive` | `Gateway!Spec => [](outbound.told = {} => RouteIsLive)`, with every fault of the module |
| `QueueInvariant` | `QueueForward!Spec => []IInv` |
| `MovesOnce` | `QueueForward!Spec => []MovedOnce`, with every death and failure of the module |
| `RepliesAreDurable` | `QueueForward!Spec => []RepliedIsDurable`, the same |
| `DeadGetNothing` | `QueueForward!Spec => DeadTakesNothing`, the same |
| `QueueTypes` | `QueueForward!Spec => []TypeOK`: counts are never negative |
| `WaitersAreWoken` | `QueueForward!Spec => []NoLostDequeue` when `Patient` and `Punctual` |

**`NoLostWakeup`** is inductive with `TypeOK`. Two facts carry it: `Placements`
lets a request wait only when every idle proxy of its resource has been used
(`SentWoken`), and `Done` makes a proxy idle only when nothing waits
(`DoneWoken`).

**`OneJobPerProxy`** compares what the TM believes of a proxy with what is on
its way to it and from it. `Believed` says so for every state of a proxy: one
that is idle has an empty inbox and no reply under way (`Quiet`), a busy one
has one request or one reply (`Answering`), one that the TM has asked to shut
down may have an announcement too. `SentBelieved`, `DoneBelieved` and
`ReplyBelieved` prove it of the pool operations; scaling and deaths are cases
of `ProcessBelieved`.

**`CommitAfterVotes`** is not inductive: that no vote is still on its way, when
the fan-out of the prepare phase completes, is a fact about fan-outs, requests
and replies together. `CommitInv` states it, in these parts:

- `Unique(pool)`: no request is in two places, so taking it takes it away;
- `RepliedOnce`: what has been answered is nowhere else and answered once;
- `Known`, `OneFanout`: nothing is coordinated that was not asked for, and a
  request has one fan-out at a time, so `Out::operator()` finds *the* entry;
  the death of an owner makes new requests since the owner dies once;
- `AwaitedAll`: all that is on its way is waited for by a fan-out of its phase.
  So when an entry is complete nothing of that request is on its way: this is
  the step from the first phase to the second;
- `OneKind`: one request is committed in one phase or in two;
- `NothingLost`: the converse of `AwaitedAll`, for `MayScaleIn = {}` only;
- `VotesKept`: a vote of an open prepare phase is counted or on its way, so the
  outcome is computed from all of them;
- `VotesOk`: what is being committed has no vote against it. The step that
  establishes it uses `WorstOk` of `TransactionManagerProofs`: the most severe
  code is ok only if all are.

The proof has one lemma for each *kind* of step instead of one for each action
and conjunct: `QuietStep` (nothing is added), `IssueStep` (fan-outs with their
requests), `WorkStep` (a resource answers), and for a reply `PartialStep`,
`CompleteStep`, `SecondPhaseStep`, `AssertStep`. `CommitClient`, `CommitReply`
and `CommitProcess` map each action to one of them. What the pool operations do
to the set of requests is proved once, in `TransactionManagerProofs`
(`SentJobs`, `DoneJobs`, `WorkJobs`, `ExternalJobs`). TLC checked all parts of
`CommitInv` as invariants on the instances of the runs before they were proved.

**`InProgressIsCoordinated`, `LoggedIsCommitting`.** The two are inductive with
`TypeOK` (`Coordinated`): `Out::operator()` erases an entry only in the step
that starts the next phase or removes the transaction, and its row with it.

**`Agreement`**, the log and the answers follow from one invariant, `Decided`:
every global transaction is in one of the situations `Working`, `Preparing`,
`OnePhase`, `Committing`, `Doomed` and `Finished`. Each says what the resources
of its parts may hold, what is on its way, and what the owner has been told.
`Sealed` adds that a transaction in the log is past its decision. A handler
moves one transaction from one situation to another; that it leaves the others
alone is proved once (`OthersSame`), since all that a situation looks at is of
its own transaction. `Undisturbed` says that nothing decides beside the TM: no
owner dies with its transaction open (`Mortal`), no other domain drives a
branch (`Upstream`), no server reports its work late (`Straggler`), no resource
answers a second phase with a fault (`Fault`), and a global transaction has one
branch that asks for its end. With any of them a part is decided by somebody
else than the TM, or the TM does not hear of the outcome, and the properties
say nothing of the code. Lost proxies, scaling, refusals, several branches that
are joined, and any number of transactions at a time remain. `AnswersAreTrue`
leaves out two refusals, since `ToTx` makes `TX_OK` of both
(`convert::to::tx`).

**The refinement.** `ManagerIsAtomic` takes `rm` to `rm`. A request that a
resource works on (`WorksAreAtomic`) is a `Prepare`, `ReadOnly`, `Commit` or
`Abort` of `AtomicCommit`, whose guards on the *other* parts are what the
situations give; new work of an owner is a `Work` (`WorkIsAtomic`), and all
other steps leave `rm` as it is (`AtomicStep`). That no transaction is both
committed and rolled back is `PartsAgree`, proved of the TM itself.

TLC checked `Believed`, `Coordinated` and `Decided` as invariants of the runs'
instances before they were proved.

**`VoteIsTrue`** follows the vote. Its invariant (`Invariant` of
`GatewayProofs`) says what each place on the way may hold: `WireOK`, a channel
carries a vote `ok` only for a job that the other domain has done;
`LookupState`, lookups are of requests, so nothing that is refused at a lookup
is a vote; `Truthful`, of what the outbound tells local processes an `ok`
belongs to a request or to a done job. The errors of `ErrorReplies` (a
connection is lost, the outbound ends) go through a lemma of their own: they
never say `ok`. Since a channel only loses or keeps messages (`BecomeOK`,
`MovesOK`), loss, reset and reuse of a descriptor need no case of their own.

**`NoneCommitsAlone` and `EndsEverywhere`** follow the work instead. `Safe`, on
top of `Invariant`, says that wherever a request of a transaction is, the TM
knows the branch of its connection: `Known` for the branches and routes of the
outbound, `Carried` for the channels, `Correlates` for the inbound, `Touches`
for the work of the other domain. A request loses its route when its connection
is lost while it is still on its way, so each place needs its own conjunct.
`Decided` says that a job to commit comes after every other known branch has
prepared in the other domain, and that a stage ends after all known branches
have answered; this holds as the TM learns of no branch once it has started
(`Decided` has no job in the stage active, and only a call in an active
transaction is taken). `Obeyed`: a commit or a rollback is answered with `ok`
or as lost, by nothing else. `Kept` is what all handlers of the outbound that
only take away have in common, so lost connections, disconnects, aborts and
replies are one case of `Safe`.

The hypothesis `Unlooped` says that a call which is in flight already, and has
come back to its outbound, is in no transaction. The outbound makes the branch
of such a call and refuses the call before it reports the branch
(`outbound/handle.cpp:192`). The next call of the transaction finds the branch
and does not report it either, so the TM never asks for it. TLC finds both
properties violated when a looped call is in a transaction with others; the
hazard is listed. TLC checked `Invariant` and `Safe` before they were proved,
on the connections of the run `gateway` with no looped call.

**`SoftLosesNothing`, `RouteIsLive`** and the types of the gateway follow the
answer. `IInv` of `GatewayProofs` has these parts:

- `Single`: a request is on one connection, whether in a channel, a correlation
  of the inbound or a route of the outbound. So a route and what is on its way
  to it cannot be of two connections;
- `EarlyFlow`, as long as no discovery has been answered: each call or queue
  request with a route on a connection that is whole at both ends has a message
  up, a message down, or is at work behind the inbound (`Flow`). `Early` says
  why the connection is there: until then the lookup knows only connections of
  the outbound;
- while nothing has been cut, reset or ended by an exception, and no end has
  closed with something unread (`Quiet`): `AllFlow` says the same of every
  route of a connection of the outbound, the jobs of the TM included, with no
  condition on discoveries; `NoneLost`, that no request was answered as lost;
- `Opened`: in a quiet state in which both ends run, they have the same
  connections, no disconnect is on its way, and all that an open discovery may
  add is connected. This is lost with the first shutdown, and only then may a
  connection be left; it is left by `OutboundIdle` when it has no route, or by
  the inbound when nothing correlates with it, and by `Flow` there is then no
  request on it to lose.

When an end closes, what it sends in the same handler, and what is in the
channel to it, is lost: the connection is then reset, and the state is not
quiet. The proof takes this apart. Each action is shown to fit `Pre`, with what
is sent to a closed end still in the channel; `Become` then drops it, and `Pre`
is shown to survive that, once for all actions. The loops of `fan::Out` over
its entries and over the connections that fail (`Replied`, `Failed`) are
recursive functions on an interval, so `Early` and `Opened` go through them by
induction with `LoopProofs`. TLC checked `IInv` on the constants of the run
`gateway` before it was proved.

`RoutesAreLive` has the hypothesis that no discovery has been answered. A
discovery that is answered after one of its connections was lost advertises
that connection again, and a call then gets a route without a connection, which
`RouteIsLive` allows. But a descriptor may be used again: two connections are
made, one answers and is lost before the other answers, and is made again. The
route is then on the new connection, with nothing on its way. TLC finds this
with `MaxConnects` 3; the run has 2, where the property holds with answered
discoveries too.

**The queues.** `MovedOnce` needs to know of every transaction under way which
rows it holds, and that depends on where its request is. `IInv` of
`QueueFlowProofs` says it for each flow:

- `Places(I, M, V, H, f)` are the places where flow `f` is: letters to the
  group, a dequeue that waits, a reply that is held, replies that were sent;
- `Fits` relates the places, what the transaction has taken from source
  (`Takes`) and added to target (`Adds`), the transactions the group and the TM
  know, and the stage the forward believes it is in. A flow rests (no rows, no
  transaction), moves a message (it has taken that one, and added it when its
  enqueue has been handled), is closed, or is an orphan: its forward has died
  and the TM rolls it back;
- `Known` says who has a message of a producer; `Durable` that what was told
  is on disk; `Tidy` that no message is there twice, but for the row that a
  transaction adds;
- `Unique` and `Ordered` are about the order of the inbox: a letter of a flow
  is there once, and its enqueue before its rollback. Without the second, a
  rollback of the TM that overtakes an enqueue would leave a row that nobody
  commits. `Singly`: a flow waits once;
- `Mourned`: a consumer that has died asked in front of its exit. This is what
  `DeadTakesNothing` follows from, since a handler gives messages only to who
  waits or asks (`HandledOnly`).

`QueueProofs` says what the handlers do as functions of the group's state,
whatever the flows are. Two loops are in them: `Without`, over rows, dequeues
or replies, and `pending::dequeues`, over the dequeues that wait. Both are
recursive functions on an interval of the naturals, so their proofs are
inductions over a set (`NatSet`, `Recursion` of `LoopProofs`), which the
provers can do. `HandledSound` then follows a letter through its handler,
through the write to disk when the batch is full (`HeldSound`) and through the
loop that gives what is free to those that wait (`WokenSound`: after each turn
the invariant holds with the dequeues that are in hand). Outside of the group a
step moves one flow (`TurnCorrect`) or sends a letter for each of a set of
flows (`ManyCorrect`). TLC checked `Correct`, all of `IInv` but types, as an
invariant of the instances of both passing runs.

The counts and the waiting dequeues have invariants of their own, which use
`IInv` only for what other steps send:

- `Kept`: the count of a queue is the number of its rows that can be seen
  (`Exact`), only rows of source are dequeued and only what has been given back
  is delayed (`Placed`). `TypeOK` follows: a count is a cardinality. A commit
  and a rollback each move several counts at once, and each proof is a
  bijection between the rows before and after (`CommittedBooked`,
  `RolledBackBooked`);
- `Awake`: unless the alarm has gone off and its letter is in the inbox, the
  group is `Watched`: with nothing held and no transaction under way, no row is
  available for a dequeue that waits, and if one is delayed the alarm is set.
  `pending::dequeues` makes as many dequeues again as the queue counts, which
  is why this needs `Kept`: `Tried` says, after each turn of the loop, that the
  rows left are no more than the loop still counts.

`WaitersAreWoken` has two hypotheses, and TLC finds a violation without either.
`Patient`: no producer dies before it has its reply. The exit takes the reply
out of `held`, and if it was the only one nothing is written and nobody is
woken (`state.cpp:97`, a hazard). `Punctual`: if what is rolled back is
delayed, no consumer outside of a transaction waits at source. With one, the
loop may give it the last row that is available, set the alarm for the next
dequeue, which finds only delayed rows, and then unset it, because the queue
was not one that it left out; no transaction is under way that would wake it
by its end. The theorem covers more than the
run: any `RetryCount`, so that a message is delayed and comes back to source,
restores and shutdowns. TLC checked `Kept` and `Awake` with `RetryCount` 1 too,
on 15 million states, which is too large for a run.

**The service manager.** `OneCaller` says that of all that is in flight for an
instance (`Claims`: a reply to a lookup that names it, a call on its way to it
or at it, an ACK from it) there is at most one, and that the instance is then
reserved. It is not inductive: a discard or a timeout frees an instance by who
holds the reservation, so the invariant has to say who that is. `ServiceInv`:

- `Reserves`: an instance the manager does not know has no services and no
  reservation, one it knows is reserved while anything is in flight for it;
- `Reads`: as long as the lookup that holds the reservation has not been read
  by its caller, its reply is all there is in flight. So when the caller gives
  up or dies before, the instance that is set free has nothing to do;
- `Mails`: a lookup that has not been made has neither mail nor a place in
  `pending`, and only one in the forward context is sent to the cache;
- `Lives`: a server that has not started is neither known nor called, one whose
  exit was seen is not known, one that runs and is not asked to leave is known;
- `Staged`: the lookups of a call come one after the other: its caller's, that
  of the server which forwards it, that of the cache;
- `Parting(i) => Retired(i)`: a server that is prepared, or that has answered a
  drain which is still open for others, is not known and has nothing in flight.
  `PreparedIsIdle` alone would be lost when the last of a drain answers.

Every handler first changes instances itself and then makes lookups again. The
first half is `StepSafe`: in it each instance stays in the hands of one
(`Hands` lists the ways: nothing changes, it is freed with nothing in flight,
what is in flight moves on), and `HandOver` proves the invariant of an instance
from that. The second half is the same for all handlers: a lookup gives away
only what is free, and a free instance has nothing in flight (`LookedSafe`,
`FirstLookedSafe`, and `LookedAllSafe` by induction over the pending lookups).

The hypothesis `Quiet` says that no server which may be drained advertises from
inside a call. Without it `OneCaller` is false: a drained server with a call
advertises, is added again as idle, and the next lookup gives it away while it
works. TLC finds this in five steps; it is the first of the disagreements
above. Deaths, timeouts, discards, forwards, the cache and any number of drains
remain, and so do advertises from inside a call by servers that are not
drained. TLC checked `ServiceInv` on the instances of both service runs before
it was proved.

`DeadlineKept` is about the correlation. A deadline names it and the service;
an ACK takes the first deadline with its correlation, whoever sends it, and a
timeout looks for an instance with both. So a deadline is kept only if nothing
else of the same correlation reaches the manager before it is used. `Guarded`
says this, on top of `ServiceInv`:

- `Course`: a call that no server hands on leaves its trace in at most one
  server (`Trace`: a reply that names it, the call, the ACK, the reservation),
  and in none as long as it has yet to be given one (`Waits`). Its two
  lookups, of the caller and of the forward cache, share the correlation;
  `Turn` keeps them apart: the second is made when the first is over;
- `Watched`: a reservation is for the service of its lookup, which the instance
  still offers if it has a timeout, and the deadline is there;
- `Once`: no lookup waits twice, so that what is made again has no trace.

Handlers that let go of instances and of lookups are one case (`Eased`), those
after which a call is one step further another (`Follows`), and a lookup that
is made, or made again, needs only that its call has no trace (`Fresh`,
`LookedGuarded`). That an ACK or a timeout takes the deadline of its own
instance is `HolderIs`.

The property is about calls that no server hands on, and the theorem has calls
that are beside them: they share a correlation between two servers, and neither
their ACKs nor their timeouts touch the deadlines of others. Their own may go:
the second server ACKs with the correlation of the call, and if its ACK is
first it takes the deadline of the first server, which is still at work or has
yet to ACK. The hypothesis `Watchable` says that no service with a timeout is
advertised or unadvertised from inside a call; TLC finds `DeadlineKept`
violated without it: once the service is unadvertised, the timeout finds no
instance that offers it and the deadline is gone. Calls through the cache,
polling, discards, dead callers and servers, drains, routes and discoveries
remain. TLC checked `Guarded` before it was proved, on three instances that
`Watchable` allows, of up to three million states.

Checked by TLC only: liveness, which together with `ENABLED` is beyond the
installed provers; `Agreement` and the other properties of one outcome where
the runs allow more than `Undisturbed`; of the service manager
`ReservationOwned`, `FailureToldOnce` and `NoLostLookup`; all of the domain
manager; of the gateway `RouteIsLive` after a discovery has been answered; of
the queues `NoLostDequeue` where a producer may die, or where a consumer waits
at source for what is delayed, as far as it holds there.

Of the service manager none of the three holds for every value of the
constants. `ReservationOwned` does not when a caller dies with the reply
unread, or when a lookup that timed out is discarded; `FailureToldOnce` does
not when a call is forwarded through the cache to a server that is drained and
may die, as the lookups of a call share its correlation and `fan::Out` finds
its entry by that alone. `NoLostLookup` has its exceptions in the property, and
whether they are all of them for every value of the constants is open. A module
that declares a RECURSIVE operator cannot be proved about: `DomainManager`
does, for the loops of its tasks, and has no theorem.

## 5. What is not modelled

*Transaction manager.* Start-up and configuration, state queries, resource
aliases, statistics, the reopening of a failed resource by its proxy
(`reopen_guard`), and a restart of the manager; `LoggedIsCommittable` says what
a restart would find. A client is a set of rules of when it may ask
(`ClientMayCommit`, `ClientMayRollback`), after `Context::commit`. The
deadlines of transactions are kept by the client and the service manager and
reach the TM as a rollback.

*Service manager.* Metrics and events, the services for administrators,
restrictions of an alias, an advertise that removes all of a process, the
shutdown of the manager and of the cache.

*Queues.* Peek, state requests, clearing and removing messages, the queues an
update leaves behind (zombies), selectors, failures of sqlite and a crash of
the group; forwards without a reply queue and forwards between two groups; of
the queue manager the discovery of remote queues and the advertises of
gateways.

*Gateway.* Protocol versions without a disconnect, the connector processes,
reverse groups, the rotation over connections and the number of hops, metrics,
the limit of pending requests, and the gateway manager, which configures and
starts the groups.

*Domain manager.* Tasks that post, update and remove configuration, lookups of
processes, event subscriptions, assassinations, grandchildren, processes that
are whitelisted without being singletons.

*Not at all.* Domain discovery beyond what a gateway and a service manager ask
of it; http (curl and nginx); the pending message server, which delays messages
to a full queue: replies that are handled late are in every module; the
dispatch of events, which has no state; message transport; buffers, the XATMI C
API, the service framework, parsing of configuration, the command line tools
and the generated documentation: conversions and output without a protocol. The
third party code, the tests and the tools are most of the lines of the
repository that no definition maps; of the manager processes the map names the
handlers and the functions they call.

## 6. Plan

1. Theorems: `ReservationOwned` and `FailureToldOnce` in the service manager,
   on top of `ServiceInv`, with the hypotheses they turn out to need (see the
   end of section 4).
2. `Discovery`: its fan-outs with `failed`, over agents that die; then the
   property that every discovery is answered.
3. `TransactionContext`: the client's stack of transactions; it replaces the
   rules of the environment of the TM.
4. Two transaction managers joined by `Gateway`, which says what the answer to
   another domain's prepare means for a global transaction.
5. A restart of the TM and of a queue group from what is on disk.
