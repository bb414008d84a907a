---------------------------- MODULE DomainManager ----------------------------
(***************************************************************************)
(* The domain manager: the parent of all processes of a domain. It boots   *)
(* them group by group, scales and restarts them, spawns those that die    *)
(* again, and shuts the domain down (domain/source/manager).               *)
(*                                                                         *)
(*   handle.cpp        the handlers, one action each                       *)
(*   state.cpp         instances of servers and executables                *)
(*   state/order.cpp   the order of groups                                 *)
(*   task.cpp, task/create.cpp   tasks, which outlive a handler            *)
(*                                                                         *)
(* A server is spawned and then connects; it is asked to leave by way of   *)
(* the service manager, which lets it finish its call. An executable is    *)
(* there when it is spawned, and is asked by a signal.                     *)
(*                                                                         *)
(* A handler is one step. It is a function of the state of the manager     *)
(* and of what it has set going, the record world. Requests that nobody    *)
(* has taken cannot be told from requests not yet made, so a connect or a  *)
(* request of an administrator is made and handled in one step; the death  *)
(* of a process and its notice are two.                                    *)
(***************************************************************************)
EXTENDS Naturals, SequencesExt, FiniteSetsExt

CONSTANTS
  Core, Master, Transaction, Queue, Global, Gateway,  \* groups of every domain
  Listing,      \* the configured groups, in order
  Dependencies, \* of each configured group, as configured
  Server,       \* aliases of servers
  Executable,   \* aliases of executables
  Singleton,    \* servers of which the domain allows one instance
  ServiceManager,  \* the singleton that drains servers
  MemberOf,     \* [Server \cup Executable -> SUBSET Group]
  Configured,   \* instances at boot
  Restarting,   \* sets of aliases that may be configured with restart
  Broken,       \* aliases that cannot be spawned
  Mortal,       \* aliases whose processes may die by themselves
  Scaling,      \* requests to scale: pairs of an alias and a number
  Restart,      \* requests to restart: sequences of sets of aliases
  MayFail,      \* a fatal error may be reported while the domain boots
  MaxDeaths,    \* bound on deaths
  MaxRequests,  \* bound on requests of administrators but for shutdown
  MaxSpawns     \* bound on processes, which no behaviour comes to

(* The groups in the order the manager makes them. A configured group has  *)
(* the dependencies of its configuration only, the gateway's all others.   *)
BeforeGateway == <<Core, Master, Transaction, Queue, Global>> \o Listing
Groups == Append(BeforeGateway, Gateway)
Group == ToSet(Groups)
DependsOn ==
  [g \in Group |->
     CASE g = Core -> {}
       [] g = Master -> {Core}
       [] g = Transaction -> {Master}
       [] g = Queue -> {Transaction}
       [] g = Global -> {Queue, Transaction}
       [] g = Gateway -> ToSet(BeforeGateway)
       [] OTHER -> Dependencies[g]]

Alias == Server \cup Executable
Pid == 1 .. MaxSpawns
None == 0

ASSUME DomainAssumption ==
  /\ Len(Groups) = Cardinality(Group) /\ Len(Groups) <= 14
  /\ Dependencies \in [ToSet(Listing) -> SUBSET (Group \ {Gateway})]
  /\ Server \cap Executable = {} /\ ServiceManager \in Singleton /\ Singleton \subseteq Server
  /\ MemberOf \in [Alias -> (SUBSET Group) \ {{}}] /\ Configured \in [Alias -> Nat]
  /\ \A s \in Singleton : Configured[s] <= 1
  /\ Restarting \subseteq SUBSET Alias /\ Broken \cup Mortal \subseteq Alias
  /\ Scaling \subseteq Alias \X Nat /\ \A r \in Restart : r \in Seq(SUBSET Alias)
  /\ MayFail \in BOOLEAN /\ {MaxDeaths, MaxRequests, MaxSpawns} \subseteq Nat

VARIABLES
  world,     \* the manager and what it has set going, see World
  deaths,    \* processes that died by themselves
  requests   \* what administrators have asked for

vars == <<world, deaths, requests>>

Instance == [state : {"running", "spawned", "scale_out", "scale_in", "exit", "error"},
             pid : Pid \cup {None}]
(* handles: the processes a restart is still to go through. One that has   *)
(* died is tagged until its successor connects.                            *)
Current == [alias : Alias, restart : BOOLEAN, handles : Seq([pid : Pid, tag : BOOLEAN])]
Task == [kind : {"boot", "shutdown", "scale", "restart"},
         groups : Seq(SUBSET Alias), current : SUBSET Current]
(* preparing: the processes of a request the service manager has           *)
(* not replied for, and if it has yet to reply at all. emulated: the       *)
(* replies the manager has sent to itself, in order.                       *)
World == [
  level : {"startup", "running", "shutdown", "error"},
  instances : [Alias -> Seq(Instance)],
  restart : SUBSET Alias,
  singletons : [Singleton -> Pid \cup {None}],
  running : Seq(Task), pending : Seq(Task),
  process : [Pid -> [alias : Alias \cup {None},
                     state : {"none", "started", "up", "asked", "denied", "dead", "gone"}]],
  preparing : SUBSET [rest : SUBSET Pid, first : BOOLEAN],
  emulated : Seq(SUBSET Pid)]

(* F of v, and v is evaluated once: TLC evaluates a LET anew wherever it   *)
(* is used in ENABLED.                                                     *)
Once(v, F(_)) == CHOOSE r \in {F(x) : x \in {v}} : TRUE
-----------------------------------------------------------------------------
(* The order of groups: state/order.cpp.                                   *)

(* Mutant: the groups that depend on others come first. *)
LessReversed(l, r) == r \in DependsOn[l] /\ l \notin DependsOn[r]

(* Group::boot::Order looks at direct dependencies only.                   *)
Less(l, r) == l \in DependsOn[r] /\ r \notin DependsOn[l]

(* std::stable_sort, which needs an order and is given something less: for *)
(* up to 14 elements libstdc++ sorts two halves by insertion and merges    *)
(* them, from the back when the first is longer.                           *)
Inserted(s, g) ==
  IF s # <<>> /\ Less(g, s[1]) THEN <<g>> \o s
  ELSE LET n == Max({0} \cup {k \in DOMAIN s : ~ Less(g, s[k])}) IN InsertAt(s, n + 1, g)
RECURSIVE MergedForward(_, _), MergedBackward(_, _)
MergedForward(s, t) ==
  CASE s = <<>> -> t
    [] t = <<>> -> s
    [] OTHER -> IF Less(t[1], s[1]) THEN <<t[1]>> \o MergedForward(s, Tail(t))
                ELSE <<s[1]>> \o MergedForward(Tail(s), t)
MergedBackward(s, t) ==
  CASE s = <<>> -> t
    [] t = <<>> -> s
    [] OTHER -> IF Less(Last(t), Last(s)) THEN Append(MergedBackward(Front(s), t), Last(s))
                ELSE Append(MergedBackward(s, Front(t)), Last(t))
Sorted(s) ==
  LET half == (Len(s) + 1) \div 2
      l == FoldLeft(Inserted, <<>>, SubSeq(s, 1, half))
      r == FoldLeft(Inserted, <<>>, SubSeq(s, half + 1, Len(s)))
  IN IF Len(l) > Len(r) THEN MergedBackward(l, r) ELSE MergedForward(l, r)

(* Each alias belongs to the last of its groups; no group is empty.        *)
BootOrder ==
  LET order == Sorted(Groups)
      last(a) == Max({n \in DOMAIN order : order[n] \in MemberOf[a]})
      batch(n) == {a \in Alias : last(a) = n}
  IN SelectSeq([n \in DOMAIN order |-> batch(n)], LAMBDA g : g # {})
-----------------------------------------------------------------------------
(* Instances: state.cpp.                                                   *)

Fresh == [state |-> "scale_out", pid |-> None]
In(instances, states) == {n \in DOMAIN instances : instances[n].state \in states}

(* scale: what is running or to be spawned is made to be count. Which of   *)
(* those that have left is taken again is left open.                       *)
Scaled(instances, count) ==
  LET counted == In(instances, {"running", "scale_out"})
      missing == count - Cardinality(counted)
      left == In(instances, {"exit", "error"})
      kept == {n \in counted : Cardinality({m \in counted : m <= n}) <= count}
      scaledIn == [n \in DOMAIN instances |->
                     IF n \in counted \ kept THEN [instances[n] EXCEPT !.state = "scale_in"]
                     ELSE instances[n]]
  IN IF Cardinality(counted) < count
     THEN LET reuse == IF Cardinality(left) < missing THEN Cardinality(left) ELSE missing
          IN {[n \in 1 .. Len(instances) + missing - reuse |->
                 IF n \in S \/ n > Len(instances) THEN Fresh ELSE instances[n]] :
              S \in kSubset(reuse, left)}
     ELSE {SelectSeq(scaledIn, LAMBDA i : ~ (i.state = "scale_in" /\ i.pid = None))}

(* sorted::subrange: the first series only.                                *)
Series(instances, S) ==
  {n \in S : \A m \in Min(S) .. n : m \in S}
Spawnable(instances) ==
  LET S == {n \in In(instances, {"scale_out"}) : instances[n].pid = None}
  IN IF S = {} THEN {} ELSE Series(instances, S)
Shutdownable(instances) ==
  LET S == {n \in In(instances, {"scale_in"}) : instances[n].pid # None}
  IN IF S = {} THEN {} ELSE Series(instances, S)

(* Mutant: the process of an instance that is to leave is not forgotten. *)
RemovedHandle(a, instances, n, restart) ==
  IF instances[n].state = "scale_in" THEN RemoveAt(instances, n)
  ELSE [instances EXCEPT ![n].state = "exit"]

(* Server::remove, Executable::remove                                      *)
Removed(a, instances, n, restart) ==
  LET was == instances[n].state
      became == [state |-> IF was = "running" /\ restart THEN "scale_out" ELSE "exit", pid |-> None]
      rest == [instances EXCEPT ![n] = became]
  IN IF was # "scale_in" THEN rest
     ELSE IF a \in Executable THEN RemoveAt(instances, n)
     ELSE IF \A m \in n .. Len(rest) : rest[m].state = "exit" THEN SubSeq(rest, 1, n - 1)
     ELSE rest

IndexOf(instances, p) == CHOOSE n \in DOMAIN instances : instances[n].pid = p
Has(w, a, p) == \E n \in DOMAIN w.instances[a] : w.instances[a][n].pid = p
-----------------------------------------------------------------------------
(* Processes: handle.cpp, scale::out, scale::in.                           *)

Alive(w, p) == w.process[p].state \in {"started", "up", "asked", "denied"}
Asked(w, P) ==
  [w EXCEPT !.process = [p \in Pid |-> IF p \in P /\ Alive(w, p)
                                       THEN [@[p] EXCEPT !.state = "asked"] ELSE @[p]]]

(* scale::shutdown: the service manager is asked to prepare the servers;   *)
(* without one the manager answers itself.                                 *)
Prepare(w, P) ==
  LET service == w.singletons[ServiceManager]
  IN IF service # None /\ Alive(w, service)
     THEN [w EXCEPT !.preparing = @ \cup {[rest |-> P, first |-> TRUE]}]
     ELSE [w EXCEPT !.emulated = Append(@, P)]
(* Those who will be told to leave by a reply that is yet to come.         *)
Promised(w) == UNION ({r.rest : r \in w.preparing} \cup ToSet(w.emulated))
Terminate(w, a, P) == IF P = {} THEN w ELSE IF a \in Server THEN Prepare(w, P) ELSE Asked(w, P)

ScaledIn(w, a) ==
  Terminate(w, a, {w.instances[a][n].pid : n \in Shutdownable(w.instances[a])})

Free(w) == {p \in Pid : w.process[p].state = "none"}
ScaledOut(w, a) ==
  LET S == Spawnable(w.instances[a])
      first == Min(Free(w))
      pid(n) == first + n - Min(S)
      new(n) == IF a \in Broken THEN [state |-> "error", pid |-> None]
                ELSE [state |-> IF a \in Server THEN "spawned" ELSE "running", pid |-> pid(n)]
      started == [alias |-> a, state |-> IF a \in Server THEN "started" ELSE "up"]
  IN IF S = {} THEN w
     ELSE [w EXCEPT
       !.instances[a] = [n \in DOMAIN @ |-> IF n \in S THEN new(n) ELSE @[n]],
       !.process = IF a \in Broken THEN @
                   ELSE [p \in Pid |-> IF p \in {pid(n) : n \in S} THEN started ELSE @[p]]]

Instances(w, a) == Once(ScaledIn(w, a), LAMBDA x : ScaledOut(x, a))
ScaleGroup(w, G) == FoldSet(LAMBDA a, v : Once(v, LAMBDA x : Instances(x, a)), w, G)
-----------------------------------------------------------------------------
(* Tasks that scale: task/create.cpp, scale.                               *)

(* Mutant: an instance that has been asked to leave is not waited for. *)
DoneScaleIn(w, G) ==
  \A a \in G : In(w.instances[a], {"scale_out", "spawned"}) = {}

GroupDone(w, G) ==
  \A a \in G : In(w.instances[a], {"scale_out", "scale_in", "spawned"}) = {}

(* What a task leaves: the world and itself, done or not.                  *)
After(w, t, done) == [w |-> w, task |-> t, done |-> done]

RECURSIVE Unfinished(_, _)
Unfinished(w, groups) ==
  IF groups # <<>> /\ GroupDone(w, Head(groups)) THEN Unfinished(w, Tail(groups)) ELSE groups

(* progress: groups that are done go, and the next is scaled. The domain   *)
(* is running when the boot is over.                                       *)
RECURSIVE Progress(_, _)
Progress(w, t) ==
  LET over == IF t.kind = "boot" /\ w.level = "startup" THEN [w EXCEPT !.level = "running"] ELSE w
      next(rest) == [t EXCEPT !.groups = rest]
  IN Once(Unfinished(w, t.groups), LAMBDA rest :
       CASE rest = <<>> -> After(over, next(rest), TRUE)
         [] rest # <<>> /\ rest = t.groups -> After(w, t, FALSE)
         [] OTHER -> Once(ScaleGroup(w, Head(rest)), LAMBDA x : Progress(x, next(rest))))

ScaleStart(w, t) ==
  LET groups == SelectSeq(t.groups, LAMBDA G : ~ GroupDone(w, G))
      begun == [t EXCEPT !.groups = groups]
  IN IF groups = <<>> THEN After(w, begun, TRUE)
     ELSE Once(ScaleGroup(w, Head(groups)), LAMBDA x : Progress(x, begun))
-----------------------------------------------------------------------------
(* The task that restarts: task/create.cpp, restart.                       *)

(* Aliases with nothing left to restart get back their configuration.      *)
Clean(w, current) ==
  LET over == {c \in current : c.handles = <<>>}
      plain == {c.alias : c \in {x \in over : ~ x.restart}}
      kept == {c.alias : c \in {x \in over : x.restart}}
  IN [w |-> [w EXCEPT !.restart = (@ \cup kept) \ plain], current |-> current \ over]

(* Those of a group that run are to be spawned again when they die.        *)
CurrentOf(w, G) ==
  LET pids(a) == SelectSeq(w.instances[a], LAMBDA i : i.state = "running")
      current == {[alias |-> a, restart |-> a \in w.restart,
                   handles |-> [n \in DOMAIN pids(a) |-> [pid |-> pids(a)[n].pid, tag |-> FALSE]]] :
                  a \in G}
  IN Clean([w EXCEPT !.restart = @ \cup G], current)

(* Mutant: all processes of an alias are asked at once. *)
TerminateAll(w, c) == Terminate(w, c.alias, {c.handles[n].pid : n \in DOMAIN c.handles})

(* The last of the processes is asked.                                     *)
TerminateLast(w, c) == Terminate(w, c.alias, {Last(c.handles).pid})

RECURSIVE RestartNext(_, _)
RestartNext(w, t) ==
  CASE t.current # {} ->
         After(FoldSet(LAMBDA c, v : Once(v, LAMBDA x : TerminateLast(x, c)), w, t.current), t, FALSE)
    [] t.current = {} /\ t.groups = <<>> -> After(w, t, TRUE)
    [] OTHER -> Once(CurrentOf(w, Head(t.groups)), LAMBDA begun :
                  RestartNext(begun.w, [t EXCEPT !.groups = Tail(@), !.current = begun.current]))

(* A server that dies is tagged; of an executable the next is terminated.  *)
ExitOf(c, p) ==
  [c EXCEPT !.handles =
     IF c.alias \in Server
     THEN [n \in DOMAIN @ |-> IF @[n].pid = p THEN [@[n] EXCEPT !.tag = TRUE] ELSE @[n]]
     ELSE SelectSeq(@, LAMBDA h : h.pid # p)]
OnExit(w, t, p) ==
  LET hit == {c \in t.current : c.alias \in Executable /\ \E n \in DOMAIN c.handles : c.handles[n].pid = p}
      current == {ExitOf(c, p) : c \in t.current}
      terminated == FoldSet(LAMBDA c, v : Once(v, LAMBDA x : TerminateLast(x, c)), w,
                            {c \in {ExitOf(h, p) : h \in hit} : c.handles # <<>>})
  IN Once(Clean(terminated, current), LAMBDA clean :
       IF clean.current = {} THEN RestartNext(clean.w, [t EXCEPT !.current = {}])
       ELSE After(clean.w, [t EXCEPT !.current = clean.current], FALSE))

(* The successor of a server has connected: the next one is terminated.    *)
ConnectOf(w, c, p) ==
  IF c.alias \in Server /\ Has(w, c.alias, p)
  THEN [c EXCEPT !.handles = SelectSeq(@, LAMBDA h : ~ h.tag)] ELSE c
OnConnect(w, t, p) ==
  LET current == {ConnectOf(w, c, p) : c \in t.current}
      terminated == FoldSet(LAMBDA c, v : Once(v, LAMBDA x : TerminateLast(x, c)), w,
                            {c \in current : /\ c.alias \in Server /\ Has(w, c.alias, p)
                                             /\ c.handles # <<>>})
  IN Once(Clean(terminated, current), LAMBDA clean :
       IF clean.current = {} THEN RestartNext(clean.w, [t EXCEPT !.current = {}])
       ELSE After(clean.w, [t EXCEPT !.current = clean.current], FALSE))
-----------------------------------------------------------------------------
(* The queue of tasks: task.cpp.                                           *)

Sequential(t) == t.kind \in {"boot", "shutdown"}
Mandatory(t) == t.kind \in {"boot", "shutdown"}

Dispatched(w, t, event, p) ==
  IF t.kind # "restart" THEN Progress(w, t)
  ELSE CASE event = "exit" -> OnExit(w, t, p)
         [] event = "connect" -> OnConnect(w, t, p)
         [] OTHER -> After(w, t, FALSE)

(* Queue::event: those that are done go.                                   *)
Event(w, event, p) ==
  LET one(v, t) ==
        Once(v, LAMBDA x : Once(Dispatched(x.w, t, event, p), LAMBDA r :
          [w |-> r.w, keep |-> IF r.done THEN x.keep ELSE Append(x.keep, r.task)]))
  IN Once(FoldLeft(one, [w |-> w, keep |-> <<>>], w.running), LAMBDA all :
       [all.w EXCEPT !.running = all.keep])

(* Queue::idle: what is pending starts, unless a sequential task runs.     *)
RECURSIVE Started(_)
Started(w) ==
  IF w.pending = <<>> \/ \E n \in DOMAIN w.running : Sequential(w.running[n]) THEN w
  ELSE LET t == Head(w.pending)
       IN Once(IF t.kind = "restart" THEN RestartNext(w, t) ELSE ScaleStart(w, t), LAMBDA r :
            Started([r.w EXCEPT !.pending = Tail(@),
                                !.running = IF r.done THEN @ ELSE Append(@, r.task)]))

Added(w, kind, groups) ==
  [w EXCEPT !.pending = Append(@, [kind |-> kind, groups |-> groups, current |-> {}])]

(* Mutant: tasks that run are not aborted. *)
AbortedPending(w) == [w EXCEPT !.pending = SelectSeq(@, Mandatory)]

(* Queue::abort                                                            *)
Aborted(w) ==
  [w EXCEPT !.pending = SelectSeq(@, Mandatory), !.running = SelectSeq(@, Mandatory)]

(* State::execute                                                          *)
Executes == ~ (world.level \in {"shutdown", "error"} /\ world.running = <<>> /\ world.pending = <<>>)
-----------------------------------------------------------------------------
(* Handlers.                                                               *)

Quiet == UNCHANGED <<deaths, requests>>

(* A process connects: it is let in, or denied and exits. A second         *)
(* instance of a singleton is taken out of the configuration.              *)
Connect(p) ==
  /\ Executes /\ world.process[p].state = "started"
  /\ LET a == world.process[p].alias
         denied == [world EXCEPT !.process[p].state = "denied"]
         n == IndexOf(world.instances[a], p)
         connected ==
           [world EXCEPT !.process[p].state = "up",
                         !.instances[a] = [@ EXCEPT ![n].state = "running"],
                         !.singletons = IF a \in Singleton THEN [@ EXCEPT ![a] = p] ELSE @]
     IN IF world.level \in {"shutdown", "error"} THEN world' = denied
        ELSE IF a \in Singleton /\ world.singletons[a] # None
        THEN \E instances \in Scaled(Removed(a, world.instances[a], n, a \in world.restart), 1) :
               world' = [denied EXCEPT !.instances[a] = instances]
        ELSE world' = Once(connected, LAMBDA w : Event(w, "connect", p))
  /\ Quiet

(* State::remove. One that is configured so is spawned again, while the    *)
(* domain is running.                                                      *)
Forgotten(w, p) ==
  LET a == w.process[p].alias
      singles == [w EXCEPT !.process[p].state = "gone",
                           !.singletons = [s \in Singleton |-> IF @[s] = p THEN None ELSE @[s]]]
      removed == [singles EXCEPT !.instances[a] =
                    Removed(a, @, IndexOf(@, p), a \in w.restart)]
  IN IF ~ Has(w, a, p) THEN singles
     ELSE IF a \in w.restart /\ w.level = "running" THEN Once(removed, LAMBDA x : Instances(x, a))
     ELSE removed

(* The notice of a death.                                                  *)
Exit(p) ==
  /\ Executes /\ world.process[p].state = "dead"
  /\ world' = Once(Forgotten(world, p), LAMBDA w : Event(w, "exit", p))
  /\ Quiet

(* The reply of the service manager, or one the manager has sent to        *)
(* itself: the processes are told to shut down. The service manager        *)
(* replies for those that are idle, and then for all that were not.        *)
Prepared(r, P) ==
  /\ Executes /\ (r.first \/ P = r.rest)
  /\ LET left == IF P = r.rest THEN {} ELSE {[rest |-> r.rest \ P, first |-> FALSE]}
     IN world' = [Asked(world, P) EXCEPT !.preparing = (@ \ {r}) \cup left]
  /\ Quiet
Emulated ==
  /\ Executes /\ world.emulated # <<>>
  /\ world' = [Asked(world, Head(world.emulated)) EXCEPT !.emulated = Tail(@)]
  /\ Quiet

(* The manager has read all its messages.                                  *)
Idle ==
  /\ Executes /\ world.emulated = <<>>
  /\ \E w \in {Started(x) : x \in {Event(world, "idle", None)}} : w # world /\ world' = w
  /\ Quiet

(* handle::shutdown                                                        *)
ShutDown(w, level) ==
  LET down == [w EXCEPT !.level = IF @ \in {"startup", "running"} THEN level ELSE @,
                        !.instances = [a \in Alias |-> CHOOSE i \in Scaled(@[a], 0) : TRUE]]
  IN Added(Aborted(down), "shutdown", Reverse(BootOrder))

Shutdown ==
  /\ Executes /\ <<"shutdown">> \notin requests
  /\ world' = ShutDown(world, "shutdown")
  /\ requests' = requests \cup {<<"shutdown">>} /\ UNCHANGED deaths

(* event::error: fatal while the domain boots.                             *)
FatalError ==
  /\ Executes /\ MayFail /\ world.level = "startup"
  /\ world' = ShutDown(world, "error")
  /\ Quiet

(* Administrators ask by way of the service manager.                       *)
MayRequest(r) ==
  /\ Executes /\ r \notin requests /\ Cardinality(requests \ {<<"shutdown">>}) < MaxRequests
  /\ LET service == world.singletons[ServiceManager] IN service # None /\ Alive(world, service)
  /\ requests' = requests \cup {r} /\ UNCHANGED deaths

(* scale::aliases: the instances are marked at once, the task comes later. *)
Scale(a, count) ==
  /\ MayRequest(<<"scale", a, count>>)
  /\ \E instances \in Scaled(world.instances[a], count) :
       world' = Added([world EXCEPT !.instances[a] = instances], "scale", <<{a}>>)

(* restart::aliases, restart::groups: singletons that run are untouchable. *)
RestartAliases(groups) ==
  /\ MayRequest(<<"restart", groups>>)
  /\ LET touchable(G) == {a \in G : ~ (a \in Singleton /\ world.singletons[a] # None)}
     IN world' = Added(world, "restart", [n \in DOMAIN groups |-> touchable(groups[n])])
-----------------------------------------------------------------------------
(* Processes.                                                              *)

(* The service manager takes what it was asked with it.                    *)
Dead(p) ==
  [world EXCEPT !.process[p].state = "dead",
                !.preparing = IF p = world.singletons[ServiceManager] THEN {} ELSE @]

Leave(p) ==
  /\ Executes /\ world.process[p].state \in {"asked", "denied"}
  /\ world' = Dead(p) /\ Quiet
Die(p) ==
  /\ Executes /\ world.process[p].state \in {"started", "up", "asked"}
  /\ world.process[p].alias \in Mortal /\ deaths < MaxDeaths
  /\ world' = Dead(p) /\ deaths' = deaths + 1 /\ UNCHANGED requests

Init ==
  /\ \E restart \in Restarting :
       world = [level |-> "startup",
                instances |-> [a \in Alias |-> [n \in 1 .. Configured[a] |-> Fresh]],
                restart |-> restart, singletons |-> [s \in Singleton |-> None],
                running |-> <<>>,
                pending |-> <<[kind |-> "boot", groups |-> BootOrder, current |-> {}]>>,
                process |-> [p \in Pid |-> [alias |-> None, state |-> "none"]],
                preparing |-> {}, emulated |-> <<>>]
  /\ deaths = 0 /\ requests = {}

Next ==
  \/ \E p \in Pid : Connect(p) \/ Exit(p) \/ Leave(p) \/ Die(p)
  \/ \E r \in world.preparing : \E P \in (SUBSET r.rest) \ {{}} : Prepared(r, P)
  \/ Emulated \/ Idle \/ Shutdown \/ FatalError
  \/ \E s \in Scaling : Scale(s[1], s[2])
  \/ \E r \in Restart : RestartAliases(r)

Spec == Init /\ [][Next]_vars
FairSpec ==
  Spec /\ WF_vars(\/ \E p \in Pid : Connect(p) \/ Exit(p) \/ Leave(p)
                  \/ \E r \in world.preparing : \E P \in (SUBSET r.rest) \ {{}} : Prepared(r, P)
                  \/ Emulated \/ Idle)
-----------------------------------------------------------------------------
(* Properties.                                                             *)

(* Types; an instance has a process unless it waits for one or had one.    *)
TypeOK ==
  /\ world \in World /\ deaths \in 0 .. MaxDeaths
  /\ \A a \in Alias : \A n \in DOMAIN world.instances[a] :
       LET i == world.instances[a][n]
       IN (i.pid # None) <=> i.state \in {"spawned", "running", "scale_in"}
  /\ requests \subseteq {<<"shutdown">>} \cup {<<"scale", s[1], s[2]>> : s \in Scaling}
                                         \cup {<<"restart", r>> : r \in Restart}

ShuttingDown == world.level \in {"shutdown", "error"}

(* When the domain manager stops no child is left that was let in          *)
(* (State::execute): whatever died, was scaled or was restarted, the last  *)
(* task is over only when all instances have left.                         *)
EndsAlone ==
  Executes \/ \A p \in Pid : Alive(world, p) => world.process[p].state = "denied"

(* The groups a group depends on, itself and the master, "the (implicit)   *)
(* parent of all groups", included; and which alias needs which.           *)
Reach ==
  LET direct(g) == {g} \cup DependsOn[g] \cup (IF g \in DependsOn[Master] THEN {} ELSE {Master})
  IN FoldLeft(LAMBDA R, g : [h \in Group |-> IF g \in R[h] THEN R[h] \cup R[g] ELSE R[h]],
              [g \in Group |-> direct(g)], Groups)
Needed ==
  [a \in Alias |-> {b \in Alias : \E g \in MemberOf[a] :
     MemberOf[b] \subseteq Reach[g] /\ \A h \in MemberOf[b] : g \notin Reach[h]}]

Undone(w, a) ==
  In(w.instances[a], IF deaths > 0 \/ requests # {} THEN {"spawned"} ELSE {"spawned", "scale_out"})
ToldToLeave(w) ==
  Promised(w) \cup
  {p \in Pid : w.process[p].state = "asked" /\ w.process[p].alias \in Executable}

(* "Groups are used to group entities and to define the dependency order": *)
(* at boot nothing is spawned before what it needs has connected, and at   *)
(* shutdown nothing is told to leave before what needs it has left.        *)
InOrder ==
  [][/\ world.level = "startup" =>
          \A p \in Pid : world.process[p].state = "none" /\ world'.process[p].state # "none" =>
            \A b \in Needed[world'.process[p].alias] : Undone(world', b) = {}
     /\ ShuttingDown =>
          \A p \in ToldToLeave(world') \ (ToldToLeave(world) \cup {q \in Pid : world.process[q].state = "asked"}) :
            \A q \in Pid : Alive(world', q) /\ world'.process[q].state # "denied"
                             => world'.process[p].alias \notin Needed[world'.process[q].alias]]_vars

HeadOf(kind) ==
  UNION {Head(world.running[n].groups) : n \in {m \in DOMAIN world.running : world.running[m].kind = kind}}

(* The group that boots has an instance that nobody will spawn or tell to  *)
(* leave: it died and is configured with restart, an administrator scaled  *)
(* it, or the domain is shut down.                                         *)
BootHalted == \E a \in HeadOf("boot") : In(world.instances[a], {"scale_out", "scale_in"}) # {}

Forsaken(a) ==
  {n \in In(world.instances[a], {"scale_in"}) :
     LET p == world.instances[a][n].pid
     IN world.process[p].state = "up" /\ p \notin Promised(world)}

(* In the group that is shut down an instance has not been told to leave:  *)
(* it comes after a gap, or the service manager that was to tell died.     *)
Skipped ==
  \E a \in HeadOf("shutdown") : \E n \in Forsaken(a) :
    \/ \E m \in 1 .. n - 1 : world.instances[a][m].state # "scale_in"
    \/ ~ \E p \in Pid : Alive(world, p) /\ world.process[p].alias = ServiceManager

(* In the group that is shut down an instance waits to be spawned, which   *)
(* an administrator has asked for meanwhile.                               *)
Rescaled ==
  /\ \E r \in requests : r[1] = "scale"
  /\ \E a \in HeadOf("shutdown") : In(world.instances[a], {"scale_out"}) # {}

(* Whatever cannot be spawned and whatever dies, a boot ends, unless it is *)
(* halted, and a shutdown ends, unless instances are skipped or scaled     *)
(* meanwhile: the manager then stops.                                      *)
LevelEnds ==
  /\ world.level = "startup" ~> (world.level # "startup" \/ BootHalted)
  /\ ShuttingDown ~> (~ Executes \/ BootHalted \/ Skipped \/ Rescaled)

Available(a) ==
  {p \in Pid : /\ world.process[p].alias = a /\ world.process[p].state = "up"
               /\ p \notin Promised(world)}

(* A restart takes the instances of an alias one at a time, in a domain    *)
(* where nothing else happens.                                             *)
RollingRestart ==
  (world.level = "running" /\ deaths = 0 /\ Cardinality(requests) <= 1 /\ \A r \in requests : r[1] = "restart")
    => \A a \in Alias \ Broken : Cardinality(Available(a)) + 1 >= Configured[a]

=============================================================================
