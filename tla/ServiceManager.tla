--------------------------- MODULE ServiceManager ---------------------------
(***************************************************************************)
(* The casual service manager: it hands out the instances of services to   *)
(* the callers that look them up, one caller at a time.                    *)
(*                                                                         *)
(*   service/source/manager/handle.cpp  the handlers, one action each      *)
(*   service/source/manager/state.cpp   instances, reservations, deadlines *)
(*   service/source/forward/handle.cpp  the forward cache                  *)
(*   common/source/service/lookup.cpp, call/context.cpp   the callers      *)
(*   common/include/common/server/handle/service.h        the servers      *)
(*                                                                         *)
(* A handler runs to its end before the next message is taken and is one   *)
(* step.  A request nobody has taken yet cannot be told from one not sent  *)
(* yet, so it is sent and handled in one step; the lookup replies, the     *)
(* calls and the ACKs of the servers are kept in flight.  The choice of an *)
(* idle instance and the order of deadlines (the clock) are left open.     *)
(***************************************************************************)
EXTENDS Loops, SequencesExt

CONSTANTS
  Service,      \* the names in state.services: services and routes
  NameOf,       \* [Service -> Service], the origin name of a route
  Timed,        \* services with a timeout
  Server,       \* sequential instances (one process, one call at a time)
  Offers,       \* [Server -> SUBSET Service], advertised when they start
  Extra,        \* [Server -> SUBSET Service], advertised from inside a call
  Remote,       \* concurrent instances: gateway connections
  RemoteOffers, \* [Remote -> SUBSET Service]
  Call,         \* the calls made
  Path,         \* [Call -> Seq(Service)]: the service, and where it forwards
  Context,      \* [Call -> {"regular", "forward", "no_busy", "wait"}]
  Impatient,    \* calls whose caller polls its lookup and may give it up
  Fleeting,     \* calls whose caller may die
  Mortal,       \* servers that may die
  Drains,       \* sets of servers that may be asked to prepare for shutdown
  Discovery,    \* TRUE: the discovery of the domain is there
  MaxUnread,    \* bound: no advertise while a caller has this many replies
  Nobody        \* no caller, no service

Kind == {"own", "hop", "cache"}
(* A call is looked up by its caller, then by a server that forwards it,   *)
(* then by the forward cache if it was given to that.                      *)
Lookup == Call \X Kind
Corr == Call \X {"call", "hop"}
Place == Server \cup Remote \cup {"cache"}
Notice == Place \cup {"busy", "absent"}

ASSUME ServiceAssumption ==
  /\ NameOf \in [Service -> Service] /\ Timed \subseteq Service
  /\ Offers \in [Server -> SUBSET Service]
  /\ Extra \in [Server -> SUBSET Service]
  /\ RemoteOffers \in [Remote -> SUBSET Service]
  /\ Server \cap Remote = {}
  /\ {"cache", "busy", "absent"} \cap (Server \cup Remote) = {}
  /\ Nobody \notin Service \cup Lookup /\ MaxUnread \in Nat
  /\ Drains \subseteq SUBSET Server

ASSUME CallAssumption ==
  /\ Path \in [Call -> Seq(Service)]
  /\ \A c \in Call : Path[c] # <<>>
  /\ Context \in [Call -> {"regular", "forward", "no_busy", "wait"}]
  /\ \A c \in Call : Context[c] = "forward" => Len(Path[c]) = 1

VARIABLES
  manager,    \* "running", or "failed": an assertion or an exception
  sm,         \* the state of the service manager
  drains,     \* state.pending.shutdown, the fan-outs of prepare shutdown
  prepared,   \* servers the domain manager has been told are prepared
  leaving,    \* servers it has asked for
  phase,      \* of each lookup, at the process that made it
  at,         \* calls on their way to or at a server, a remote, the cache
  acks,       \* ACKs on their way to the manager
  srv,        \* "down", "up", "dead", "gone" (the exit has been handled)
  offered,    \* services a server has advertised, as it knows them
  answers     \* what each caller has been answered, in order

processVars == <<srv, offered>>
drainVars == <<drains, prepared, leaving>>
vars == <<manager, sm, drainVars, phase, at, acks, processVars, answers>>

Running == manager = "running"

Own(c) == <<c, "own">>
Hop(c) == <<c, "hop">>
Cache(c) == <<c, "cache">>

(* The caller and a server that forwards ask by the name they are given,   *)
(* the forward cache by the origin name that the lookup reply had.         *)
ServiceOf(l) == CASE l[2] = "own"   -> Path[l[1]][1]
                  [] l[2] = "hop"   -> Last(Path[l[1]])
                  [] l[2] = "cache" -> NameOf[Last(Path[l[1]])]
ContextOf(l) == CASE l[2] = "own"   -> Context[l[1]]
                  [] l[2] = "hop"   -> "forward"
                  [] l[2] = "cache" -> "no_busy"
(* Mutant: every lookup has a correlation of its own. *)
CorrOfAlone(l) == <<l[1], l[2]>>

(* The forward cache looks up with the correlation of the call it got.     *)
CorrOf(l) == <<l[1], IF l[2] = "hop" THEN "hop" ELSE "call">>
Expects(c) == Context[c] # "forward"     \* not TPNOREPLY

State == [known : SUBSET Server, serves : [Server -> SUBSET Service],
          busy : [Server -> Service \cup {Nobody}],
          caller : [Server -> Lookup \cup {Nobody}],
          remotes : SUBSET (Service \X Remote), pending : Seq(Lookup),
          deadlines : SUBSET [corr : Corr, service : Service, target : Server],
          asked : SUBSET Corr, mail : [Lookup -> Seq(Notice)]]
-----------------------------------------------------------------------------
(* Instances and lookups: state.cpp, detail::lookup.                       *)

Local(m, s) == {i \in Server : s \in m.serves[i]}
Far(m, s) == {r \in Remote : <<s, r>> \in m.remotes}
Empty(m, s) == Local(m, s) = {} /\ Far(m, s) = {}
Free(m, i) == m.busy[i] = Nobody

(* A reply to a lookup; one to a dead process is dropped.                  *)
Told(m, l, notice) ==
  IF phase[l] = "dead" THEN m ELSE [m EXCEPT !.mail[l] = Append(@, notice)]

Stacked(m, l) == [m EXCEPT !.pending = Append(@, l)]

(* Mutant: the deadline is not registered. *)
ReservedNoDeadline(m, l, i) ==
  Told([m EXCEPT !.busy[i] = ServiceOf(l), !.caller[i] = l], l, i)

(* Service::reserve, Sequential::reserve, Deadline::add and the reply. The *)
(* instance stays reserved when there is nobody to reply to.               *)
Reserved(m, l, i) ==
  LET s == ServiceOf(l)
      entry == [corr |-> CorrOf(l), service |-> s, target |-> i]
  IN Told([m EXCEPT !.busy[i] = s, !.caller[i] = l,
                    !.deadlines = IF s \in Timed THEN @ \cup {entry} ELSE @],
          l, i)

(* detail::discover: the other domains are asked; if there is nobody to    *)
(* ask, only a caller that is willing to wait is kept.                     *)
Discovered(m, l) ==
  IF Discovery THEN [Stacked(m, l) EXCEPT !.asked = @ \cup {CorrOf(l)}]
  ELSE IF ContextOf(l) = "wait" THEN Stacked(m, l)
  ELSE Told(m, l, "absent")

(* Every instance is busy. *)
Waiting(m, l) ==
  CASE ContextOf(l) = "forward" -> Told(m, l, "cache")
    [] ContextOf(l) = "regular" -> IF phase[l] = "dead" THEN m
                                   ELSE Stacked(Told(m, l, "busy"), l)
    [] OTHER -> Stacked(m, l)

(* Mutant: any instance is taken, idle or not. *)
LookedAnyInstance(m, l) ==
  LET s == ServiceOf(l)
  IN {Reserved(m, l, i) : i \in Local(m, s)}
     \cup {Told(m, l, r) : r \in IF Local(m, s) = {} THEN Far(m, s) ELSE {}}
     \cup (IF Empty(m, s) THEN {Discovered(m, l)} ELSE {})

(* detail::lookup: the states a lookup may lead to. *)
Looked(m, l) ==
  LET s == ServiceOf(l)
      idle == {i \in Local(m, s) : Free(m, i)}
  IN {Reserved(m, l, i) : i \in idle}
     \cup {Told(m, l, r) : r \in IF Local(m, s) = {} THEN Far(m, s) ELSE {}}
     \cup (IF Empty(m, s) THEN {Discovered(m, l)} ELSE {})
     \cup (IF Local(m, s) # {} /\ idle = {} THEN {Waiting(m, l)} ELSE {})

(* detail::handle::pending: lookups that are made again, one by one.       *)
LookedAll(m, ls) ==
  LET made[n \in 0 .. Len(ls)] ==
        IF n = 0 THEN {m} ELSE UNION {Looked(x, ls[n]) : x \in made[n - 1]}
  IN made[Len(ls)]

(* The first pending lookup of these is taken out and made again, if any.  *)
FirstLooked(m, these) ==
  LET n == SelectInSeq(m.pending, LAMBDA l : l \in these)
  IN IF n = 0 THEN {m}
     ELSE Looked([m EXCEPT !.pending = RemoveAt(@, n)], m.pending[n])

(* Sequential::service: the instance has a service of this origin name.    *)
HasName(m, i, name) == \E s \in m.serves[i] : NameOf[s] = name

Freed(m, i) == [m EXCEPT !.busy[i] = Nobody, !.caller[i] = Nobody]

(* State::remove, and State::prepare_shutdown for one instance. *)
Forgotten(m, i) ==
  [Freed(m, i) EXCEPT !.known = @ \ {i}, !.serves[i] = {}]
-----------------------------------------------------------------------------
(* Replies to callers. *)

AnsweredBy(ans, c, what) ==
  IF phase[Own(c)] = "dead" THEN ans ELSE [ans EXCEPT ![c] = Append(@, what)]

(* error::reply goes to the process that looked up: a server that forwards *)
(* and the forward cache drop it, the caller of the call is not told.      *)
ErrorTo(ans, l, what) ==
  IF l # Nobody /\ l \in Lookup /\ l[2] = "own"
  THEN AnsweredBy(ans, l[1], what) ELSE ans

ServerReply(c, what) ==
  IF Expects(c) THEN AnsweredBy(answers, c, what) ELSE answers
-----------------------------------------------------------------------------
(* The handlers of the service manager. *)

(* lookup::Request: sent by the caller and handled. *)
LookupRequest(c) ==
  /\ Running /\ phase[Own(c)] = "none"
  /\ phase' = [phase EXCEPT ![Own(c)] = "looking"]
  /\ sm' \in Looked(sm, Own(c))
  /\ UNCHANGED <<manager, drainVars, at, acks, processVars, answers>>

(* State::update( service::Advertise): at most one pending lookup is made  *)
(* again, looked for by the name that was requested.                       *)
Advertised(i, add, remove) ==
  LET m == [sm EXCEPT !.known = @ \cup {i},
                      !.serves[i] = (@ \cup add) \ remove]
  IN FirstLooked(m, {l \in Lookup : HasName(m, i, ServiceOf(l))})

Start(i) ==
  /\ Running /\ srv[i] = "down"
  /\ srv' = [srv EXCEPT ![i] = "up"]
  /\ offered' = [offered EXCEPT ![i] = Offers[i]]
  /\ sm' \in Advertised(i, Offers[i], {})
  /\ UNCHANGED <<manager, drainVars, phase, at, acks, answers>>

InCall(i) == srv[i] = "up" /\ \E c \in Call : <<c, i>> \in at

(* Every advertise may bring another busy reply to a caller that waits. *)
MayAdvertise == \A l \in Lookup : Len(sm.mail[l]) < MaxUnread

(* tpadvertise and tpunadvertise, from inside a service. *)
TpAdvertise(i, s) ==
  /\ Running /\ InCall(i) /\ s \in Extra[i] \ offered[i] /\ MayAdvertise
  /\ offered' = [offered EXCEPT ![i] = @ \cup {s}]
  /\ sm' \in Advertised(i, {s}, {})
  /\ UNCHANGED <<manager, drainVars, phase, at, acks, srv, answers>>

TpUnadvertise(i, s) ==
  /\ Running /\ InCall(i) /\ s \in Extra[i] \cap offered[i] /\ MayAdvertise
  /\ offered' = [offered EXCEPT ![i] = @ \ {s}]
  /\ sm' \in Advertised(i, {}, {s})
  /\ UNCHANGED <<manager, drainVars, phase, at, acks, srv, answers>>

(* State::update( concurrent::Advertise): every pending lookup of a service*)
(* with an instance is made again, busy or not.                            *)
RemoteAdvertised(r, add, remove, reset) ==
  LET kept == IF reset THEN {e \in sm.remotes : e[2] # r} ELSE sm.remotes
      m == [sm EXCEPT !.remotes = (kept \cup (add \X {r})) \ (remove \X {r})]
      ready == {l \in Lookup : ~ Empty(m, ServiceOf(l))}
  IN LookedAll([m EXCEPT !.pending = Without(@, ready)], Without(m.pending, Lookup \ ready))

RemoteAdvertise(r, s) ==
  /\ Running /\ s \in RemoteOffers[r] /\ MayAdvertise
  /\ \/ <<s, r>> \notin sm.remotes /\ sm' \in RemoteAdvertised(r, {s}, {}, FALSE)
     \/ <<s, r>> \in sm.remotes /\ sm' \in RemoteAdvertised(r, {}, {s}, FALSE)
     \/ Far(sm, s) # {} /\ sm' \in RemoteAdvertised(r, {s}, {}, TRUE)
  /\ UNCHANGED <<manager, drainVars, phase, at, acks, processVars, answers>>

(* discard::lookup, and the end of ~Lookup: a pending lookup goes; else an *)
(* instance reserved for the correlation is let go, and the caller drops   *)
(* the reply that is on its way.                                           *)
Discarded(m, l) ==
  LET waits == SelectInSeq(m.pending, LAMBDA q : CorrOf(q) = CorrOf(l))
      holds == {i \in Server : ~ Free(m, i) /\ m.caller[i] # Nobody
                                 /\ CorrOf(m.caller[i]) = CorrOf(l)}
  IN IF waits # 0 THEN {[m EXCEPT !.pending = RemoveAt(@, waits)]}
     ELSE IF holds = {} THEN {m}
     ELSE {[Freed(m, i) EXCEPT !.mail[l] = <<>>] : i \in holds}

Discard(c) ==
  /\ Running
  /\ \/ c \in Impatient /\ phase[Own(c)] \in {"looking", "waiting"}
     \/ phase[Own(c)] = "stray"
  /\ phase' = [phase EXCEPT ![Own(c)] = "ended"]
  /\ sm' \in Discarded(sm, Own(c))
  /\ UNCHANGED <<manager, drainVars, at, acks, processVars, answers>>

(* discovery::external::Reply. The absent reply is a blocking send that is *)
(* not optional: to a caller that has died it throws out of the handler.   *)
DiscoveryReply(corr) ==
  LET m == [sm EXCEPT !.asked = @ \ {corr}]
      n == SelectInSeq(m.pending, LAMBDA l : CorrOf(l) = corr)
      l == m.pending[n]
      rest == [m EXCEPT !.pending = RemoveAt(@, n)]
  IN /\ Running /\ corr \in sm.asked
     /\ \/ n = 0 /\ sm' = m /\ UNCHANGED manager
        \/ /\ n # 0 /\ ~ Empty(m, ServiceOf(l))
           /\ sm' \in Looked(rest, l) /\ UNCHANGED manager
        \/ /\ n # 0 /\ Empty(m, ServiceOf(l)) /\ ContextOf(l) = "wait"
           /\ sm' = [rest EXCEPT !.pending = <<l>> \o @] /\ UNCHANGED manager
        \/ /\ n # 0 /\ Empty(m, ServiceOf(l)) /\ ContextOf(l) # "wait"
           /\ sm' = Told(rest, l, "absent")
           /\ manager' = IF phase[l] = "dead" THEN "failed" ELSE manager
     /\ UNCHANGED <<drainVars, phase, at, acks, processVars, answers>>

(* Mutant: the caller is answered and not consumed. *)
TimeoutNoConsume(d) ==
  LET owner == {i \in Local(sm, d.service) :
                  sm.caller[i] # Nobody /\ CorrOf(sm.caller[i]) = d.corr}
      m == [sm EXCEPT !.deadlines = @ \ {d}]
  IN /\ Running /\ d \in sm.deadlines
     /\ \/ owner = {} /\ sm' = m /\ UNCHANGED answers
        \/ \E i \in owner :
             sm' = m /\ answers' = ErrorTo(answers, sm.caller[i], "timeout")
     /\ UNCHANGED <<manager, drainVars, phase, at, acks, processVars>>

(* timeout: the caller is looked for among the instances of the service,   *)
(* consumed and answered. The instance stays reserved until its ACK.       *)
Timeout(d) ==
  LET owner == {i \in Local(sm, d.service) :
                  sm.caller[i] # Nobody /\ CorrOf(sm.caller[i]) = d.corr}
      m == [sm EXCEPT !.deadlines = @ \ {d}]
  IN /\ Running /\ d \in sm.deadlines
     /\ \/ owner = {} /\ sm' = m /\ UNCHANGED answers
        \/ \E i \in owner :
             /\ sm' = [m EXCEPT !.caller[i] = Nobody]
             /\ answers' = ErrorTo(answers, sm.caller[i], "timeout")
     /\ UNCHANGED <<manager, drainVars, phase, at, acks, processVars>>

(* Mutant: a fan-out waits for the servers that have answered as well. *)
OpenAny(e) == e.pends # {}

(* The fan-out of prepare shutdown: an entry is what it waits for and the  *)
(* servers whose ACK it got.                                               *)
Open(e) == \E p \in e.pends : p.state = "pending"

(* Entry::done and the callback: the callers of the servers that died are  *)
(* answered, the other servers are reported to the domain manager.         *)
Coordinated(e, new, ans) ==
  LET lost == {p.caller : p \in {x \in new.pends : x.state = "failed"}}
  IN IF Open(new)
     THEN /\ drains' = (drains \ {e}) \cup {new}
          /\ answers' = ans
          /\ UNCHANGED prepared
     ELSE /\ drains' = drains \ {e}
          /\ answers' = [c \in Call |-> IF Own(c) \in lost THEN AnsweredBy(ans, c, "died")[c]
                                        ELSE ans[c]]
          /\ prepared' = prepared \cup (new.acked \cap {p.from : p \in new.pends})

(* fan::Out::operator(): the entry and its pending are found by the        *)
(* correlation alone.                                                      *)
DrainAck(a) ==
  \/ /\ \A e \in drains : \A p \in e.pends : p.corr # a.corr
     /\ UNCHANGED <<drains, prepared, answers>>
  \/ \E e \in drains : \E p \in e.pends :
       LET rest == e.pends \ {p}
       IN /\ p.corr = a.corr
          /\ Coordinated(e, [pends |-> rest \cup {[p EXCEPT !.state = "received"]},
                             acked |-> e.acked \cup {a.from}], answers)

(* fan::Out::failed. *)
DrainFailed(i, ans) ==
  \/ /\ \A e \in drains : \A p \in e.pends : ~ (p.from = i /\ p.state = "pending")
     /\ answers' = ans /\ UNCHANGED <<drains, prepared>>
  \/ \E e \in drains : \E p \in e.pends :
       LET rest == e.pends \ {p}
       IN /\ p.from = i /\ p.state = "pending"
          /\ Coordinated(e, [e EXCEPT !.pends = rest \cup {[p EXCEPT !.state = "failed"]}],
                         ans)

Routed(s) == NameOf[s] # s

(* Mutant: the pending lookups are not looked at. *)
AckNoPending(a) ==
  LET due == {d \in sm.deadlines : d.corr = a.corr}
      rest == IF due = {} THEN {sm.deadlines}
              ELSE {sm.deadlines \ {d} : d \in due}
  IN /\ Running /\ a \in acks
     /\ acks' = acks \ {a}
     /\ \E ds \in rest :
          \/ /\ a.from \in sm.known /\ ~ Free(sm, a.from)
             /\ sm' = Freed([sm EXCEPT !.deadlines = ds], a.from)
             /\ UNCHANGED <<manager, drainVars, answers>>
          \/ /\ a.from \notin sm.known
             /\ sm' = [sm EXCEPT !.deadlines = ds]
             /\ DrainAck(a) /\ UNCHANGED <<manager, leaving>>
     /\ UNCHANGED <<phase, at, processVars>>

(* ack: one deadline of the correlation goes; the instance is let go, and  *)
(* the first pending lookup it can serve, by name or by route, is made     *)
(* again. An instance that is not known is taken for one being drained.    *)
Ack(a) ==
  LET due == {d \in sm.deadlines : d.corr = a.corr}
      rest == IF due = {} THEN {sm.deadlines}
              ELSE {sm.deadlines \ {d} : d \in due}
      i == a.from
      fits == {l \in Lookup :
                 \/ HasName(sm, i, ServiceOf(l))
                 \/ Routed(ServiceOf(l)) /\ HasName(sm, i, NameOf[ServiceOf(l)])}
  IN /\ Running /\ a \in acks
     /\ acks' = acks \ {a}
     /\ \E ds \in rest :
          LET m == [sm EXCEPT !.deadlines = ds]
          IN \/ /\ i \in sm.known /\ ~ Free(sm, i)
                /\ sm' \in FirstLooked(Freed(m, i), fits)
                /\ UNCHANGED <<manager, drainVars, answers>>
             \/ /\ i \in sm.known /\ Free(sm, i)  \* unreserve: assert( busy)
                /\ manager' = "failed" /\ sm' = m
                /\ UNCHANGED <<drainVars, answers>>
             \/ /\ i \notin sm.known
                /\ sm' = m /\ DrainAck(a)
                /\ UNCHANGED <<manager, leaving>>
     /\ UNCHANGED <<phase, at, processVars>>

(* Mutant: the caller of the server that died is not answered. *)
ExitNoReply(i) ==
  /\ Running /\ srv[i] = "dead" /\ \A a \in acks : a.from # i
  /\ srv' = [srv EXCEPT ![i] = "gone"]
  /\ DrainFailed(i, answers)
  /\ sm' = Forgotten(sm, i)
  /\ UNCHANGED <<manager, leaving, phase, at, acks, offered>>

(* process::Exit, for a server that died: its ACKs came before. A caller   *)
(* that still waits is answered.                                           *)
Exit(i) ==
  /\ Running /\ srv[i] = "dead" /\ \A a \in acks : a.from # i
  /\ srv' = [srv EXCEPT ![i] = "gone"]
  /\ DrainFailed(i, IF Free(sm, i) THEN answers
                    ELSE ErrorTo(answers, sm.caller[i], "died"))
  /\ sm' = Forgotten(sm, i)
  /\ UNCHANGED <<manager, leaving, phase, at, acks, offered>>

(* Mutant: busy instances are reported at once. *)
PrepareShutdownAtOnce(P) ==
  /\ Running /\ P \in Drains /\ P \cap leaving = {}
  /\ \A i \in P : srv[i] = "up"
  /\ leaving' = leaving \cup P
  /\ prepared' = prepared \cup P
  /\ sm' = FoldLeft(Forgotten, sm, SetToSeq(P))
  /\ UNCHANGED <<manager, drains, phase, at, acks, processVars, answers>>

(* prepare::shutdown::Request: the instances are taken out of the state,   *)
(* lookups that wait for a service that has no instance left are made      *)
(* again, idle instances are reported at once and the busy ones when their *)
(* ACK comes.                                                              *)
PrepareShutdown(P) ==
  LET here == P \cap sm.known
      busy == {i \in here : ~ Free(sm, i)}
      m == [sm EXCEPT !.known = @ \ here,
                      !.serves = [i \in Server |-> IF i \in here THEN {} ELSE @[i]],
                      !.busy = [i \in Server |-> IF i \in here THEN Nobody ELSE @[i]],
                      !.caller = [i \in Server |-> IF i \in here THEN Nobody ELSE @[i]]]
      bare == {NameOf[s] : s \in {x \in UNION {sm.serves[i] : i \in here} : Empty(m, x)}}
      again == {l \in Lookup : NameOf[ServiceOf(l)] \in bare}
      pend(i) == [from |-> i, state |-> "pending", caller |-> sm.caller[i],
                  corr |-> IF sm.caller[i] = Nobody THEN Nobody
                           ELSE CorrOf(sm.caller[i])]
  IN /\ Running /\ P \in Drains /\ P \cap leaving = {}
     /\ \A i \in P : srv[i] = "up"
     /\ leaving' = leaving \cup P
     /\ sm' \in LookedAll([m EXCEPT !.pending = Without(@, again)],
                          Without(sm.pending, Lookup \ again))
     /\ prepared' = prepared \cup (P \ busy)
     /\ drains' = IF busy = {} THEN drains
                  ELSE drains \cup {[pends |-> {pend(i) : i \in busy}, acked |-> {}]}
     /\ UNCHANGED <<manager, phase, at, acks, processVars, answers>>
-----------------------------------------------------------------------------
(* The callers. *)

Up(d) == d \in Server => srv[d] = "up"

(* Context::async: the caller calls what the reply names; after one busy   *)
(* reply the next one is taken for an idle instance, unless the caller     *)
(* polls (non::blocking::Lookup). A request to a process that has died     *)
(* cannot be sent. "no_entry" is any error raised at the caller.           *)
Receive(c) ==
  LET l == Own(c)
      notice == Head(sm.mail[l])
      next == IF notice # "busy" THEN "ended"
              ELSE IF phase[l] = "looking" \/ c \in Impatient THEN "waiting"
              ELSE "stray"
      sent == notice \in Place /\ Up(notice)
  IN /\ Running /\ phase[l] \in {"looking", "waiting"} /\ sm.mail[l] # <<>>
     /\ sm' = [sm EXCEPT !.mail[l] = Tail(@)]
     /\ phase' = [phase EXCEPT ![l] = next]
     /\ at' = IF sent THEN at \cup {<<c, notice>>} ELSE at
     /\ answers' = IF sent \/ next = "waiting" THEN answers
                   ELSE AnsweredBy(answers, c, "no_entry")
     /\ UNCHANGED <<manager, drainVars, acks, processVars>>

CallerDies(c) ==
  /\ c \in Fleeting /\ phase[Own(c)] \in {"looking", "waiting", "ended"}
  /\ answers[c] = <<>>
  /\ phase' = [phase EXCEPT ![Own(c)] = "dead"]
  /\ sm' = [sm EXCEPT !.mail[Own(c)] = <<>>]
  /\ UNCHANGED <<manager, drainVars, at, acks, processVars, answers>>
-----------------------------------------------------------------------------
(* The servers: service::call. The reply comes first, then the ACK, which  *)
(* carries the correlation of the request.                                 *)

AckOf(c, i) == [corr |-> <<c, "call">>, from |-> i]
Forwards(c) == Len(Path[c]) > 1 /\ phase[Hop(c)] = "none"

(* Mutant: the service ends without its ACK. *)
ServeNoAck(c, i) ==
  /\ Running /\ srv[i] = "up" /\ <<c, i>> \in at /\ ~ Forwards(c)
  /\ at' = at \ {<<c, i>>}
  /\ answers' = ServerReply(c, "reply")
  /\ UNCHANGED <<manager, sm, drainVars, phase, acks, processVars>>

Serve(c, i) ==
  /\ Running /\ srv[i] = "up" /\ <<c, i>> \in at /\ ~ Forwards(c)
  /\ phase[Hop(c)] # "looking"
  /\ at' = at \ {<<c, i>>}
  /\ acks' = acks \cup {AckOf(c, i)}
  /\ answers' = ServerReply(c, "reply")
  /\ UNCHANGED <<manager, sm, drainVars, phase, processVars>>

(* policy::forward: the server looks up the next service. *)
Forward(c, i) ==
  /\ Running /\ srv[i] = "up" /\ <<c, i>> \in at /\ Forwards(c)
  /\ phase' = [phase EXCEPT ![Hop(c)] = "looking"]
  /\ sm' \in Looked(sm, Hop(c))
  /\ UNCHANGED <<manager, drainVars, at, acks, processVars, answers>>

(* The request goes on with the correlation of the call; without a target  *)
(* the server replies with an error. Either way it is done with the call.  *)
Forwarded(c, i) ==
  LET l == Hop(c)
      notice == Head(sm.mail[l])
      sent == notice \in Place /\ Up(notice)
  IN /\ Running /\ srv[i] = "up" /\ <<c, i>> \in at
     /\ phase[l] = "looking" /\ sm.mail[l] # <<>>
     /\ phase' = [phase EXCEPT ![l] = "ended"]
     /\ sm' = [sm EXCEPT !.mail[l] = Tail(@)]
     /\ at' = (at \ {<<c, i>>}) \cup (IF sent THEN {<<c, notice>>} ELSE {})
     /\ acks' = acks \cup {AckOf(c, i)}
     /\ answers' = IF sent THEN answers ELSE ServerReply(c, "reply")
     /\ UNCHANGED <<manager, drainVars, processVars>>

(* A server dies, or stops when the domain manager, told that it is        *)
(* prepared, shuts it down.                                                *)
Die(i) ==
  /\ srv[i] = "up" /\ (i \in Mortal \/ i \in prepared)
  /\ srv' = [srv EXCEPT ![i] = "dead"]
  /\ at' = {e \in at : e[2] # i}
  /\ phase' = [l \in Lookup |->
                 IF l[2] = "hop" /\ <<l[1], i>> \in at /\ phase[l] = "looking"
                 THEN "dead" ELSE phase[l]]
  /\ UNCHANGED <<manager, sm, drainVars, acks, offered, answers>>

(* A call that went to another domain is answered. *)
RemoteServe(c, r) ==
  /\ <<c, r>> \in at
  /\ at' = at \ {<<c, r>>}
  /\ answers' = ServerReply(c, "reply")
  /\ UNCHANGED <<manager, sm, drainVars, phase, acks, processVars>>
-----------------------------------------------------------------------------
(* The forward cache. *)

CacheRequest(c) ==
  /\ Running /\ <<c, "cache">> \in at
  /\ at' = at \ {<<c, "cache">>}
  /\ phase' = [phase EXCEPT ![Cache(c)] = "looking"]
  /\ sm' \in Looked(sm, Cache(c))
  /\ UNCHANGED <<manager, drainVars, acks, processVars, answers>>

CacheReply(c) ==
  LET l == Cache(c)
      notice == Head(sm.mail[l])
      sent == notice \in Place /\ Up(notice)
  IN /\ phase[l] = "looking" /\ sm.mail[l] # <<>>
     /\ sm' = [sm EXCEPT !.mail[l] = Tail(@)]
     /\ phase' = [phase EXCEPT ![l] = "ended"]
     /\ at' = IF sent THEN at \cup {<<c, notice>>} ELSE at
     /\ answers' = IF sent THEN answers ELSE ServerReply(c, "no_entry")
     /\ UNCHANGED <<manager, drainVars, acks, processVars>>
-----------------------------------------------------------------------------
Init ==
  /\ manager = "running"
  /\ sm = [known |-> {}, serves |-> [i \in Server |-> {}],
           busy |-> [i \in Server |-> Nobody],
           caller |-> [i \in Server |-> Nobody],
           remotes |-> {}, pending |-> <<>>, deadlines |-> {}, asked |-> {},
           mail |-> [l \in Lookup |-> <<>>]]
  /\ drains = {} /\ prepared = {} /\ leaving = {}
  /\ phase = [l \in Lookup |-> "none"]
  /\ at = {} /\ acks = {}
  /\ srv = [i \in Server |-> "down"] /\ offered = [i \in Server |-> {}]
  /\ answers = [c \in Call |-> <<>>]

CallerNext ==
  \E c \in Call : LookupRequest(c) \/ Receive(c) \/ Discard(c) \/ CallerDies(c)
ServerNext ==
  \E i \in Server :
    \/ Start(i) \/ Die(i) \/ Exit(i)
    \/ \E s \in Service : TpAdvertise(i, s) \/ TpUnadvertise(i, s)
    \/ \E c \in Call : Serve(c, i) \/ Forward(c, i) \/ Forwarded(c, i)
RemoteNext ==
  \E r \in Remote :
    \/ \E s \in Service : RemoteAdvertise(r, s)
    \/ \E c \in Call : RemoteServe(c, r)
CacheNext == \E c \in Call : CacheRequest(c) \/ CacheReply(c)
ManagerNext ==
  \/ \E a \in acks : Ack(a)
  \/ \E d \in sm.deadlines : Timeout(d)
  \/ \E corr \in sm.asked : DiscoveryReply(corr)
  \/ \E P \in Drains : PrepareShutdown(P)

Next == CallerNext \/ ServerNext \/ RemoteNext \/ CacheNext \/ ManagerNext

Spec == Init /\ [][Next]_vars

(* What the processes do once they have the message for it: each blocks on *)
(* its queue and takes what comes. Starting, dying, advertising and the    *)
(* requests are up to others.  No more than this disjunction is needed:    *)
(* a finite number of its steps can be taken between two of the others.    *)
Progress ==
  \/ \E c \in Call : Receive(c) \/ (phase[Own(c)] = "stray" /\ Discard(c))
  \/ \E i \in Server : Exit(i) \/ \E c \in Call : Serve(c, i) \/ Forward(c, i) \/ Forwarded(c, i)
  \/ \E r \in Remote, c \in Call : RemoteServe(c, r)
  \/ CacheNext
  \/ \E a \in acks : Ack(a)
  \/ \E d \in sm.deadlines : Timeout(d)
  \/ \E corr \in sm.asked : DiscoveryReply(corr)

FairSpec == Spec /\ WF_vars(Progress)
-----------------------------------------------------------------------------
(* Properties. *)

Entry == [pends : SUBSET [from : Server, state : {"pending", "received", "failed"},
                          caller : Lookup \cup {Nobody},
                          corr : Corr \cup {Nobody}],
          acked : SUBSET Server]

(* Every variable stays in its range. *)
TypeOK ==
  /\ manager \in {"running", "failed"}
  /\ sm \in State
  /\ drains \subseteq Entry
  /\ prepared \subseteq Server /\ leaving \subseteq Server
  /\ phase \in [Lookup -> {"none", "looking", "waiting", "ended", "stray", "dead"}]
  /\ at \subseteq Call \X Place
  /\ acks \subseteq [corr : Corr, from : Server]
  /\ srv \in [Server -> {"down", "up", "dead", "gone"}]
  /\ offered \in [Server -> SUBSET Service]
  /\ answers \in [Call -> Seq({"reply", "timeout", "died", "no_entry"})]

(* What stands between an instance and its next caller: a reply that names *)
(* it and will be read or discarded, a call, an ACK.                       *)
Claims(i) ==
  ({"reply"} \X {l \in Lookup : /\ phase[l] \in {"looking", "waiting", "stray"}
                               /\ \E n \in DOMAIN sm.mail[l] : sm.mail[l][n] = i})
  \cup ({"call"} \X {c \in Call : <<c, i>> \in at})
  \cup ({"ack"} \X {a \in acks : a.from = i})

(* An instance is in the hands of one caller at a time, from the reply to  *)
(* the lookup to the ACK, and it is reserved all that time: a sequential   *)
(* server is never sent a call while it has one.                           *)
OneCaller ==
  \A i \in Server :
    /\ \A x, y \in Claims(i) : x = y
    /\ i \in sm.known /\ Claims(i) # {} => ~ Free(sm, i)

(* A reserved instance that lives is in somebody's hands: an ACK will let  *)
(* it go. No reservation is leaked.                                        *)
ReservationOwned ==
  Running => \A i \in sm.known :
    srv[i] = "up" /\ ~ Free(sm, i) => Claims(i) # {}

(* The lookups that wait beside who could serve them: an idle instance, or *)
(* gateways, always ready, where no instance of this domain is left.       *)
Stranded(m) ==
  {l \in ToSet(m.pending) : \/ \E i \in Local(m, ServiceOf(l)) : Free(m, i)
                            \/ Local(m, ServiceOf(l)) = {} /\ Far(m, ServiceOf(l)) # {}}

(* The three ways in which a lookup is passed over: an instance is set     *)
(* free without an ACK (a discard); the last instance of the service goes, *)
(* and gateways have it; an instance advertises by a name that is not the  *)
(* one that was asked for (a route).                                       *)
PassedOver(l) ==
  LET s == ServiceOf(l)
  IN \/ /\ \E i \in Local(sm, s) \cap Local(sm', s) : ~ Free(sm, i) /\ Free(sm', i)
        /\ acks' = acks
     \/ Local(sm, s) # {} /\ Local(sm', s) = {}
     \/ Routed(s) /\ Local(sm', s) \ Local(sm, s) # {}

(* No lookup is stranded by anything but these: an ACK, an advertise of a  *)
(* server or a gateway, a discovery reply, a timeout, a death, a new       *)
(* lookup, in whatever order, leave none beside who could serve it.        *)
NoLostLookup ==
  [][Stranded(sm) = {} => \A l \in Stranded(sm') : PassedOver(l)]_vars

(* The manager tells a caller that its call failed at most once, and never *)
(* that the server died when it has replied.                               *)
ManagerFailures(c) == {n \in DOMAIN answers[c] : answers[c][n] \in {"timeout", "died"}}
FailureToldOnce ==
  \A c \in Call :
    /\ \A m, n \in ManagerFailures(c) : m = n
    /\ ~ (\E m, n \in DOMAIN answers[c] :
            answers[c][m] = "reply" /\ answers[c][n] = "died")

(* A call that no server hands on. *)
Straight(c) == Len(Path[c]) = 1

(* Such a call is watched while it has an instance of a service with a     *)
(* timeout: its deadline is there until its ACK or the timeout, whatever   *)
(* other calls do, those that share a correlation with a second server     *)
(* included. (A call that is handed on may lose its own to the ACK of      *)
(* another server.)                                                        *)
DeadlineKept ==
  \A i \in sm.known :
    sm.caller[i] # Nobody /\ Straight(sm.caller[i][1]) /\ sm.busy[i] \in Timed =>
      \E d \in sm.deadlines : d.corr = CorrOf(sm.caller[i]) /\ d.service = sm.busy[i]

(* A server is reported as prepared for shutdown when it has no call and   *)
(* will get none.                                                          *)
PreparedIsIdle == \A i \in prepared : Claims(i) = {}

(* A caller that looks up gets to an end: it has an instance, or is told   *)
(* there is none. It may wait for ever only for a service none offers but  *)
(* servers that were asked to shut down.                                   *)
Served(s) == \E i \in Server \ leaving : srv[i] = "up" /\ s \in offered[i]
LookupSettled ==
  \A c \in Call :
    (phase[Own(c)] = "looking" /\ []<>Served(Path[c][1]))
      ~> phase[Own(c)] \in {"ended", "dead"}

(* A caller that has got to an instance is answered, by the server, or by  *)
(* the manager when the server died or was late.                           *)
CallAnswered ==
  \A c \in Call :
    Expects(c) /\ phase[Own(c)] = "ended" ~> (answers[c] # <<>> \/ phase[Own(c)] = "dead")

(* Every server the domain manager asked to prepare is reported, or dies,  *)
(* unless a call is let go: its server was late (the manager forgets who   *)
(* called), or its caller took the reply after a busy one for an idle      *)
(* instance (Context::async).                                              *)
LetGo == \/ \E c \in Call : phase[Own(c)] = "stray"
         \/ \E i \in Server : ~ Free(sm, i) /\ sm.caller[i] = Nobody
PrepareReplied ==
  []~LetGo =>
    \A i \in Server : i \in leaving ~> (i \in prepared \/ srv[i] \in {"dead", "gone"})

=============================================================================
