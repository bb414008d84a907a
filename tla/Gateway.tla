------------------------------ MODULE Gateway ------------------------------
(***************************************************************************)
(* The two ends of a gateway (gateway/source/group): the outbound group of *)
(* one domain and the inbound group of another, and the TCP connections    *)
(* between them.                                                           *)
(*                                                                         *)
(* The outbound stands in for what the other domain offers: it is called   *)
(* as a server and a queue, it is a resource of the transaction manager    *)
(* with a branch of its own for each connection, and it keeps a route for  *)
(* each request until the answer comes. The inbound looks up and calls     *)
(* what is asked for and keeps the connection of each correlation.         *)
(*                                                                         *)
(* A message is handled in the step in which it arrives over local ipc; a  *)
(* connection is two FIFO channels and loses what is in it when one of its *)
(* ends closes or the network fails. A descriptor may be used again once   *)
(* both ends have closed it.                                               *)
(***************************************************************************)
EXTENDS Naturals, FiniteSets, Sequences, SequencesExt

CONSTANTS
  Connection,    \* descriptors
  Configured,    \* connections with services or queues in their configuration
  Resource,      \* names of services and queues of the other domain
  Request,       \* requests of local processes, by their correlation
  KindOf,        \* "call", "cast" (no reply), "queue" or "conversation"
  ResourceOf,
  RequestedAs,   \* the name a call was made by, which may be that of a route
  TridOf,        \* the transaction of a request, or None
  Looped,        \* calls and queue requests that come back while in flight
  Trid,          \* transactions (internal branches)
  Discovery,     \* requests of the discovery agent
  Rediscovery,   \* those that ask for a rediscovery
  OriginOf,      \* connections to the domain that a discovery comes from
  Queueless,     \* requests that find no queue manager in the other domain
  MaxConnects,   \* bound on connects
  Mix,           \* bound: requests and discoveries that one behaviour may have
  MayCut,        \* connections that the network may cut
  MayShutdown,   \* "outbound", "inbound": who may be shut down
  MaxFaults,     \* bound on cuts and shutdowns together
  Fate,          \* what may go wrong in the other domain: "absent" services,
                 \* "died" servers, "refused" votes
  None

Branch == [trid : Trid, conn : Connection]
Phase == {"prepare", "commit", "rollback"}
Job == [trid : Trid, conn : Connection, phase : Phase]

ASSUME GatewayAssumption ==
  /\ KindOf \in [Request -> {"call", "cast", "queue", "conversation"}]
  /\ ResourceOf \in [Request -> Resource] /\ RequestedAs \in [Request -> Resource]
  /\ TridOf \in [Request -> Trid \cup {None}]
  /\ None \notin Trid \cup Connection /\ IsFiniteSet(Connection) /\ Connection \cap Discovery = {}
  /\ Looped \subseteq {r \in Request : KindOf[r] \in {"call", "queue"}}
  /\ Queueless \subseteq {r \in Request : KindOf[r] = "queue"}
  /\ Configured \subseteq Connection /\ MayCut \subseteq Connection
  /\ Rediscovery \subseteq Discovery /\ OriginOf \in [Discovery -> SUBSET Connection]
  /\ Mix \subseteq SUBSET (Request \cup Discovery)
  /\ MaxConnects \in Nat /\ MaxFaults \in Nat
  /\ MayShutdown \subseteq {"outbound", "inbound"}
  /\ Request \cap (Job \cup [of : Connection \cup Discovery \cup {"disconnect"}, conn : Connection]) = {}
  /\ Fate \subseteq {"absent", "died", "refused"}

VARIABLES
  outbound,   \* state of the outbound, and what it has told local processes
  inbound,    \* state of the inbound
  wire,       \* messages in the connections, up and down
  cut,        \* connections that were cut or reset
  broken,     \* whether one ever was
  connects,   \* connects so far
  asked,      \* requests, jobs and discoveries the outbound has taken
  tm,         \* the local transaction manager: the stage of each transaction
              \* and the jobs it has for the outbound as a resource
  lookups,    \* lookups of the inbound that the other domain has or answered
  remote      \* the other domain: what it works on, branches it has work for,
              \* and jobs it has done

localVars == <<asked, tm>>
remoteVars == <<lookups, remote>>
vars == <<outbound, inbound, wire, cut, broken, connects, localVars, remoteVars>>

Whole(c) == c \in outbound.connections /\ c \in inbound.connections /\ c \notin cut
DisconnectOf(c) == [of |-> "disconnect", conn |-> c]

(* A step of one of the ends. What is sent to an end that has closed, or    *)
(* not read when it closes, is gone, and resets the connection: the other   *)
(* end may lose what it has not read yet.                                   *)
Unread(o, i, w) ==
  {c \in Connection : \/ c \notin i.connections /\ w.up[c] # <<>>
                      \/ c \notin o.connections /\ w.down[c] # <<>>}
Become(o, i, w) ==
  /\ outbound' = o /\ inbound' = i
  /\ wire' = [up |-> [c \in Connection |-> IF c \in i.connections THEN w.up[c] ELSE <<>>],
              down |-> [c \in Connection |-> IF c \in o.connections THEN w.down[c] ELSE <<>>]]
Moves(o, i, w) ==
  /\ Become(o, i, w)
  /\ cut' = cut \cup Unread(o, i, w) /\ broken' = (broken \/ Unread(o, i, w) # {})

Up(w, c, m) == [w EXCEPT !.up[c] = Append(@, m)]
Down(w, c, m) == [w EXCEPT !.down[c] = Append(@, m)]
-----------------------------------------------------------------------------
(* Outbound: the coordination of discoveries.                              *)

(* The callbacks: a rediscovery clears what is known, then the connections *)
(* that have replied are added for what they offer.                        *)
Advertised(lookup, e) ==
  [r \in Resource |->
     (IF e.of \in Rediscovery THEN {} ELSE lookup[r])
       \cup {x.conn : x \in {y \in e.received : r \in y.found}}]

(* fan::Out: an entry with nothing pending runs its callback and is gone.  *)
Settle(s, e) ==
  IF e.pending = {}
  THEN [s EXCEPT !.lookup = Advertised(@, e),
                 !.told = IF e.of \in Discovery THEN @ \cup {e.of} ELSE @]
  ELSE [s EXCEPT !.discovery = Append(@, e)]

(* The parts of the state that a discovery changes.                         *)
Found(o) == [lookup |-> o.lookup, told |-> o.told, discovery |-> <<>>]
With(o, s) == [o EXCEPT !.lookup = s.lookup, !.told = s.told, !.discovery = s.discovery,
                        !.known = @ \cup {r \in Resource : s.lookup[r] # {}}]

Register(o, e) == With(o, Settle([Found(o) EXCEPT !.discovery = o.discovery], e))

(* The reply x to the discovery of, for the entries in their order.          *)
Coordinated(s, e, of, x) ==
  IF e.of # of \/ x.conn \notin e.sent THEN [s EXCEPT !.discovery = Append(@, e)]
  ELSE Settle(s, [e EXCEPT !.pending = @ \ {x.conn}, !.received = @ \cup {x}])
Replied(o, of, x) ==
  LET after[n \in 0 .. Len(o.discovery)] ==
        IF n = 0 THEN Found(o) ELSE Coordinated(after[n - 1], o.discovery[n], of, x)
  IN With(o, after[Len(o.discovery)])

Unadvertised(s, c) == [s EXCEPT !.lookup = [r \in Resource |-> @[r] \ {c}]]
Fails(s, c) ==
  LET after[n \in 0 .. Len(s.discovery)] ==
        IF n = 0 THEN [s EXCEPT !.discovery = <<>>]
        ELSE Settle(after[n - 1], [s.discovery[n] EXCEPT !.pending = @ \ {c}])
  IN after[Len(s.discovery)]

(* The connections S go, one after the other: what each offers, and then   *)
(* what it was to find.                                                    *)
Failed(o, S) ==
  LET t == SetToSeq(S)
      after[n \in 0 .. Len(t)] ==
        IF n = 0 THEN [Found(o) EXCEPT !.discovery = o.discovery]
        ELSE Fails(Unadvertised(after[n - 1], t[n]), t[n])
  IN With(o, after[Len(t)])
-----------------------------------------------------------------------------
(* Outbound: connections.                                                  *)

(* error::reply::point: conversations are not answered.                     *)
ErrorReplies(points) ==
  {[corr |-> p.corr, code |-> "lost"] : p \in {q \in points : q.kind # "conversation"}}

RoutesOf(o, S) == {p \in o.routes : p.conn \in S}

(* Mutants: the connections, or their routes, stay.                         *)
LostConnected(o, S) ==
  [Failed(o, S) EXCEPT
     !.routes = @ \ RoutesOf(o, S), !.replies = @ \cup ErrorReplies(RoutesOf(o, S))]
LostRouted(o, S) ==
  [Failed(o, S) EXCEPT
     !.replies = @ \cup ErrorReplies(RoutesOf(o, S)),
     !.disconnecting = @ \ S, !.connections = @ \ S]

(* connection::lost, of the connections S.                                  *)
Lost(o, S) ==
  [Failed(o, S) EXCEPT
     !.routes = @ \ RoutesOf(o, S), !.replies = @ \cup ErrorReplies(RoutesOf(o, S)),
     !.disconnecting = @ \ S, !.connections = @ \ S]

(* connection::disconnect, of the connections S.                            *)
Disconnected(o, S) ==
  [Failed(o, S) EXCEPT !.disconnecting = @ \cup S]

(* abort: routes of messages are answered and those of calls are not.       *)
Aborted(o) ==
  [o EXCEPT !.level = "error", !.connections = {}, !.disconnecting = {},
            !.replies = @ \cup ErrorReplies({p \in o.routes : p.kind # "call"}),
            !.routes = {p \in @ : p.kind = "call"}]

(* tcp::send: nothing but a line in the log when there is no connection; a  *)
(* send on one that is cut may fail or vanish.                              *)
SendUp(o, w, c, m) ==
  IF c \notin o.connections THEN {<<o, w>>}
  ELSE IF c \notin cut THEN {<<o, Up(w, c, m)>>} ELSE {<<o, w>>, <<Lost(o, {c}), w>>}
-----------------------------------------------------------------------------
(* Outbound: what local processes ask for.                                 *)

Alive == outbound.level \in {"running", "shutdown"}

Reply(o, corr, code) == [o EXCEPT !.replies = @ \cup {[corr |-> corr, code |-> code]}]
Route(o, corr, c, kind) ==
  [o EXCEPT !.routes = @ \cup {[corr |-> corr, conn |-> c, kind |-> kind]}]

(* Mutant: a transaction has a new branch but once.                        *)
LookedOnce(o, r) ==
  LET offers == o.lookup[ResourceOf[r]]
      first == TridOf[r] # None /\ \A b \in o.branches : b.trid # TridOf[r]
  IN {[trid |-> TridOf[r], conn |-> c, new |-> first] : c \in offers}
       \cup {x \in {[trid |-> TridOf[r], conn |-> None, new |-> FALSE]} : offers = {}}

(* Lookup::service, Lookup::queue: a connection of the resource, the one    *)
(* that has a branch of the transaction first; a new branch is to be told   *)
(* to the transaction manager. Which of the others is taken is left open.   *)
Looked(o, r) ==
  LET offers == o.lookup[ResourceOf[r]]
      branched == {c \in offers : [trid |-> TridOf[r], conn |-> c] \in o.branches}
      of(c, new) == [trid |-> TridOf[r], conn |-> c, new |-> new]
  IN CASE offers = {} -> {of(None, FALSE)}
       [] offers # {} /\ TridOf[r] = None -> {of(c, FALSE) : c \in offers}
       [] offers # {} /\ TridOf[r] # None ->
            IF branched # {} THEN {of(c, FALSE) : c \in branched}
            ELSE {of(c, TRUE) : c \in offers}
Branched(o, l) ==
  IF l.new THEN [o EXCEPT !.branches = @ \cup {[trid |-> l.trid, conn |-> l.conn]}] ELSE o

(* transaction::involved.                                                  *)
Involved(o, l) ==
  IF l.new THEN [o EXCEPT !.involved = @ \cup {[trid |-> l.trid, conn |-> l.conn]}] ELSE o

(* A request is refused when it has come back, or when nothing offers what  *)
(* it is for; a conversation goes on without a connection.                  *)
Refusals(r, l) ==
  (IF r \in Looped /\ KindOf[r] = "call" THEN {"no_entry"} ELSE {})
    \cup (IF \/ r \in Looped /\ KindOf[r] = "queue"
             \/ r \notin Looped /\ l.conn = None /\ KindOf[r] # "conversation"
          THEN {"system"} ELSE {})

MayAsk(x) ==
  /\ Alive /\ x \notin asked
  /\ \E m \in Mix : {x} \cup (asked \cap (Request \cup Discovery)) \subseteq m

Ask(r) ==
  /\ MayAsk(r) /\ ResourceOf[r] \in outbound.known
  /\ TridOf[r] # None => tm.stage[TridOf[r]] = "active"
  /\ r \in Looped => \E p \in outbound.routes : p.kind = KindOf[r]
  /\ asked' = asked \cup {r}
  /\ \E l \in Looked(outbound, r) :
       LET o == Branched(outbound, l)
           sent == IF KindOf[r] = "cast" THEN Involved(o, l)
                   ELSE Route(Involved(o, l), r, l.conn, KindOf[r])
       IN \/ /\ Refusals(r, l) = {}
             /\ \E s \in SendUp(sent, wire, l.conn, [type |-> "request", corr |-> r]) :
                  Moves(s[1], inbound, s[2])
          \/ \E code \in Refusals(r, l) :
               Moves(IF KindOf[r] = "cast" THEN o ELSE Reply(o, r, code), inbound, wire)
  /\ UNCHANGED <<connects, tm, remoteVars>>

(* Prepare, commit or rollback of a branch: the request is sent, and then   *)
(* gets its route, whether it could be sent or not.                         *)
AskResource(j) ==
  /\ Alive /\ j \in tm.jobs \ asked
  /\ asked' = asked \cup {j}
  /\ LET c == IF [trid |-> j.trid, conn |-> j.conn] \in outbound.branches THEN j.conn ELSE None
     IN \E s \in SendUp(outbound, wire, c, [type |-> "resource", corr |-> j]) :
          Moves(Route(s[1], j, c, "resource"), inbound, s[2])
  /\ UNCHANGED <<connects, tm, remoteVars>>

(* conversation::send and conversation::disconnect of the caller.           *)
Converse(r) ==
  /\ Alive /\ [corr |-> r, code |-> "ok"] \in outbound.replies
  /\ \E p \in {q \in outbound.routes : q.corr = r /\ q.kind = "conversation"} :
       \/ /\ [send |-> r] \notin asked
          /\ asked' = asked \cup {[send |-> r]}
          /\ \E s \in SendUp(outbound, wire, p.conn, [type |-> "send", corr |-> r]) :
               Moves(s[1], inbound, s[2])
       \/ /\ UNCHANGED asked
          /\ \E s \in SendUp([outbound EXCEPT !.routes = @ \ {p}], wire, p.conn,
                              [type |-> "hangup", corr |-> r]) :
               Moves(s[1], inbound, s[2])
  /\ UNCHANGED <<connects, tm, remoteVars>>

Entry(of, S) == [of |-> of, sent |-> S, pending |-> S, received |-> {}]
Discovers(w, of, S) ==
  [w EXCEPT !.up = [c \in Connection |->
     IF c \in S THEN Append(@[c], [type |-> "discover", corr |-> [of |-> of, conn |-> c]]) ELSE @[c]]]

(* discovery::request asks all connections that are not on their way out,   *)
(* but for those to the domain it comes from; a send that fails leaves the  *)
(* handler and ends the outbound. A rediscovery asks those with a           *)
(* configuration, and counts on an answer of those lost in the send as well.*)
Discover(d) ==
  /\ MayAsk(d)
  /\ asked' = asked \cup {d}
  /\ LET all == outbound.connections \ outbound.disconnecting
         S == IF d \in Rediscovery THEN all \cap Configured ELSE all \ OriginOf[d]
         whole == {c \in S : Whole(c)}
     IN \/ /\ outbound.level = "shutdown"
           /\ Moves([outbound EXCEPT !.told = @ \cup {d}], inbound, wire)
        \/ /\ outbound.level = "running"
           /\ \E failed \in SUBSET (S \ whole) :
                LET o == Register(Lost(outbound, failed), Entry(d, S))
                IN IF failed # {} /\ d \notin Rediscovery
                   THEN Moves(Aborted(outbound), inbound, Discovers(wire, d, whole))
                   ELSE Moves(o, inbound, Discovers(wire, d, whole))
  /\ UNCHANGED <<connects, tm, remoteVars>>
-----------------------------------------------------------------------------
(* Outbound: what comes from the other domain.                             *)

Consumed(o, corr) == [o EXCEPT !.routes = {p \in @ : p.corr # corr}]
Routed(o, corr) == {p \in o.routes : p.corr = corr}

(* service::call::reply, queue reply: no_entry takes the name the call was  *)
(* made by away from the connection.                                        *)
Answered(o, m) ==
  IF Routed(o, m.corr) = {} THEN o
  ELSE LET a == Reply(Consumed(o, m.corr), m.corr, m.code)
       IN IF m.code = "no_entry"
          THEN [a EXCEPT !.lookup[RequestedAs[m.corr]] =
                           @ \ {p.conn : p \in Routed(o, m.corr)}]
          ELSE a

(* conversation::connect::reply, conversation::send: the route goes with    *)
(* the code that ends the conversation.                                     *)
Conversed(o, m) ==
  IF Routed(o, m.corr) = {} THEN o
  ELSE IF m.code = "ok" THEN Reply(o, m.corr, "ok")
       ELSE Reply(Consumed(o, m.corr), m.corr, m.code)

(* Mutant: a vote that comes is taken for ok.                              *)
VotedOk(o, m) ==
  IF Routed(o, m.corr) = {} THEN o ELSE Reply(Consumed(o, m.corr), m.corr, "ok")

(* resource::{prepare, commit, rollback}::reply.                            *)
Voted(o, m) ==
  LET a == IF m.corr.phase = "prepare" THEN o
           ELSE [o EXCEPT !.branches = @ \ {[trid |-> m.corr.trid, conn |-> m.corr.conn]}]
  IN IF Routed(o, m.corr) = {} THEN a ELSE Reply(Consumed(a, m.corr), m.corr, m.code)

(* discovery::reply; that of a connection on its way out counts as well.    *)
Discovered(o, m) == Replied(o, m.corr.of, [conn |-> m.corr.conn, found |-> m.found])

Received(o, m) ==
  CASE m.type = "reply" -> Answered(o, m)
    [] m.type \in {"connected", "ended"} -> Conversed(o, m)
    [] m.type = "vote" -> Voted(o, m)
    [] m.type = "found" -> Discovered(o, m)

OutboundReads(c) ==
  /\ c \in outbound.connections /\ wire.down[c] # <<>>
  /\ LET m == Head(wire.down[c])
         w == [wire EXCEPT !.down[c] = Tail(@)]
     IN \/ m.type # "disconnect" /\ Moves(Received(outbound, m), inbound, w)
        \/ /\ m.type = "disconnect"
           /\ \E s \in SendUp(Disconnected(outbound, {c}), w, c,
                              [type |-> "disconnected", corr |-> m.corr]) :
                Moves(s[1], inbound, s[2])
  /\ UNCHANGED <<connects, localVars, remoteVars>>

(* A connection lost in a read or when idle is to be connected again; the   *)
(* sends take no notice of what lost returns.                               *)
Reconnect(o, S) ==
  IF o.level = "running" THEN [o EXCEPT !.unconnected = @ \cup S] ELSE o

OutboundLoses(c) ==
  /\ c \in outbound.connections
  /\ c \in cut \/ (c \notin inbound.connections /\ wire.down[c] = <<>>)
  /\ Moves(Reconnect(Lost(outbound, {c}), {c}), inbound, wire)
  /\ UNCHANGED <<connects, localVars, remoteVars>>

(* Cuts, resets, shutdowns and aborts so far, each kind once.               *)
Faults ==
  Cardinality({f \in {1, 2, 3} : \/ f = 1 /\ broken
                                 \/ f = 2 /\ outbound.level # "running"
                                 \/ f = 3 /\ inbound.level # "running"})

(* Mutant: a connection on its way out goes with its routes.               *)
OutboundIdleAll ==
  LET done == outbound.disconnecting
  IN /\ Alive /\ done # {}
     /\ Moves(Reconnect(Lost(outbound, done), done), inbound, wire)
     /\ UNCHANGED <<connects, localVars, remoteVars>>

(* idle: a connection on its way out goes when it has no routes left.       *)
OutboundIdle ==
  LET done == {c \in outbound.disconnecting : RoutesOf(outbound, {c}) = {}}
  IN /\ Alive /\ done # {}
     /\ Moves(Reconnect(Lost(outbound, done), done), inbound, wire)
     /\ UNCHANGED <<connects, localVars, remoteVars>>

OutboundShutdown ==
  /\ "outbound" \in MayShutdown /\ Faults < MaxFaults /\ outbound.level = "running"
  /\ Moves([Disconnected(outbound, outbound.connections) EXCEPT
              !.level = "shutdown", !.unconnected = {}], inbound, wire)
  /\ UNCHANGED <<connects, localVars, remoteVars>>

(* State::done: the process ends when no route is left.                     *)
OutboundEnds ==
  /\ outbound.level = "shutdown" /\ outbound.routes = {}
  /\ Moves([outbound EXCEPT !.level = "ended", !.connections = {}, !.disconnecting = {}],
           inbound, wire)
  /\ UNCHANGED <<connects, localVars, remoteVars>>
-----------------------------------------------------------------------------
(* Inbound.                                                                *)

(* The external dispatch: a message whose correlation is not known after    *)
(* its handler has run gets one, whatever the message is.                   *)
Correlated(i, corr, c) ==
  IF \E x \in i.correlations : x.corr = corr THEN i
  ELSE [i EXCEPT !.correlations = @ \cup {[corr |-> corr, conn |-> c]}]

Correlations(i, c) == {x \in i.correlations : x.conn = c}

(* connection::lost: the requests of the connection go, and the lookups for *)
(* service calls are discarded; those for queues and conversations are not. *)
InboundLost(i, S) ==
  LET lost == {x \in i.correlations : x.conn \in S}
  IN [i EXCEPT !.connections = @ \ S, !.disconnects = @ \ S,
               !.correlations = @ \ lost, !.requests = @ \ {x.corr : x \in lost}]

Discarded(i, j) ==
  {l \in lookups : /\ l.state = "asked" /\ KindOf[l.corr] \in {"call", "cast"}
                   /\ l.corr \in i.requests \ j.requests}

(* abort: what the exception that leaves a handler comes to.                *)
InboundAborted(i) == InboundLost([i EXCEPT !.level = "error"], i.connections)

(* tcp::send: the answer takes the correlation with it.                     *)
SendDown(i, w, m) ==
  LET x == {y \in i.correlations : y.corr = m.corr}
      open == {y.conn : y \in x} \cap (inbound.connections \ cut)
  IN <<[i EXCEPT !.correlations = @ \ x],
       [w EXCEPT !.down = [c \in Connection |-> IF c \in open THEN Append(@[c], m) ELSE @[c]]]>>

(* What the inbound does with a message, before the external dispatch       *)
(* registers it: the state of the inbound, and what it asks of its domain.  *)
Took(m, c) ==
  CASE m.type = "request" /\ m.corr \in Queueless ->
         [to |-> inbound, asks |-> {}, works |-> {}]
    [] m.type = "request" /\ m.corr \notin Queueless ->
         [to |-> [inbound EXCEPT !.requests = @ \cup {m.corr}],
          asks |-> {[corr |-> m.corr, state |-> "asked"]}, works |-> {}]
    [] m.type \in {"resource", "discover"} -> [to |-> inbound, asks |-> {}, works |-> {m.corr}]
    [] m.type = "send" -> [to |-> inbound, asks |-> {}, works |-> {}]
    [] m.type = "hangup" ->
         [to |-> [inbound EXCEPT !.conversations = {x \in @ : x.corr # m.corr}],
          asks |-> {}, works |-> {}]
    [] m.type = "disconnected" ->
         LET i == [inbound EXCEPT !.correlations = {x \in @ : x.corr # m.corr}]
             known == \E x \in inbound.correlations : x.corr = m.corr
         IN [to |-> IF ~ known THEN i
                    ELSE IF Correlations(i, c) # {} THEN [i EXCEPT !.disconnects = @ \cup {c}]
                    ELSE InboundLost(i, {c}),
             asks |-> {}, works |-> {}]

(* The work of a conversation ends when its caller hangs up.                *)
HungUp(m) ==
  IF m.type = "hangup" /\ \E x \in inbound.conversations : x.corr = m.corr
  THEN {m.corr} ELSE {}

InboundReads(c) ==
  /\ c \in inbound.connections /\ wire.up[c] # <<>>
  /\ LET m == Head(wire.up[c])
         took == Took(m, c)
     IN /\ Moves(outbound, Correlated(took.to, m.corr, c), [wire EXCEPT !.up[c] = Tail(@)])
        /\ lookups' = lookups \cup took.asks
        /\ remote' = [remote EXCEPT !.busy = @ \cup took.works, !.talking = @ \ HungUp(m)]
  /\ UNCHANGED <<connects, localVars>>

InboundLoses(c) ==
  /\ c \in inbound.connections
  /\ c \in cut \/ (c \notin outbound.connections /\ wire.up[c] = <<>>)
  /\ LET i == InboundLost(inbound, {c})
     IN Moves(outbound, i, wire) /\ lookups' = lookups \ Discarded(inbound, i)
  /\ UNCHANGED <<connects, localVars, remote>>

(* shutdown: each connection is asked to disconnect. The request goes at    *)
(* the end of what is to be sent, or the connection is lost.                *)
InboundShutdown ==
  /\ "inbound" \in MayShutdown /\ Faults < MaxFaults /\ inbound.level = "running"
  /\ \E failed \in SUBSET {c \in inbound.connections : ~ Whole(c)} :
       LET open == inbound.connections \ failed
           i == InboundLost([inbound EXCEPT !.level = "shutdown",
                  !.correlations = @ \cup {[corr |-> DisconnectOf(c), conn |-> c] : c \in open}],
                  failed)
       IN /\ Moves(outbound, i, [wire EXCEPT !.down = [c \in Connection |->
               IF c \in open /\ Whole(c)
               THEN Append(@[c], [type |-> "disconnect", corr |-> DisconnectOf(c)]) ELSE @[c]]])
          /\ lookups' = lookups \ Discarded(inbound, i)
  /\ UNCHANGED <<connects, localVars, remote>>

InboundEnds ==
  /\ inbound.level = "shutdown" /\ inbound.connections = {}
  /\ inbound' = [inbound EXCEPT !.level = "ended"]
  /\ UNCHANGED <<outbound, wire, cut, broken, connects, localVars, remoteVars>>
-----------------------------------------------------------------------------
(* The other domain: lookups, servers, queues and transaction manager, and *)
(* what the inbound does with their answers.                               *)

AnswerLookup(l) ==
  /\ l \in lookups /\ l.state = "asked"
  /\ \E state \in {"idle"} \cup (Fate \cap {"absent"}) :
       lookups' = (lookups \ {l}) \cup {[l EXCEPT !.state = state]}
  /\ UNCHANGED <<outbound, inbound, wire, cut, broken, connects, localVars, remote>>

Refuse(i, corr, code) ==
  SendDown(i, wire, [type |-> IF KindOf[corr] = "conversation" THEN "connected" ELSE "reply",
                     corr |-> corr, code |-> code])

(* lookup::reply: the request goes to the server or the queue, or is        *)
(* refused. A reply whose request is gone, and a queue that is gone, end in *)
(* an exception that leaves the handler.                                    *)
LookupReply(l) ==
  LET known == l.corr \in inbound.requests
      i == [inbound EXCEPT !.requests = @ \ {l.corr}]
      branches == {[trid |-> TridOf[l.corr], conn |-> x.conn] :
                     x \in {y \in inbound.correlations : y.corr = l.corr}}
      isQueue == KindOf[l.corr] = "queue"
      refused(code) == LET s == Refuse(i, l.corr, code) IN Moves(outbound, s[1], s[2])
  IN /\ l \in lookups /\ l.state # "asked" /\ inbound.level \in {"running", "shutdown"}
     /\ \/ /\ known /\ l.state = "idle"
           /\ Moves(outbound, i, wire)
           /\ remote' = [remote EXCEPT !.busy = @ \cup {l.corr}, !.touched = @ \cup branches]
           /\ lookups' = lookups \ {l}
        \/ /\ known /\ l.state = "idle" /\ "died" \in Fate /\ ~ isQueue
           /\ refused("system") /\ lookups' = lookups \ {l} /\ UNCHANGED remote
        \/ /\ known /\ l.state = "absent"
           /\ refused(IF isQueue THEN "system" ELSE "no_entry")
           /\ lookups' = lookups \ {l} /\ UNCHANGED remote
        \/ /\ ~ known \/ (l.state = "idle" /\ "died" \in Fate /\ isQueue)
           /\ Moves(outbound, InboundAborted(i), wire)
           /\ lookups' = lookups \ ({l} \cup Discarded(i, InboundAborted(i)))
           /\ UNCHANGED remote
     /\ UNCHANGED <<connects, localVars>>

(* A server or a queue answers: a cast is not answered, and the answer to a *)
(* connect that finds its connection opens the conversation.                *)
Serve(r) ==
  LET conns == {x.conn : x \in {y \in inbound.correlations : y.corr = r}} \cap inbound.connections
      s == Refuse(inbound, r, "ok")
      conversation == KindOf[r] = "conversation"
  IN /\ r \in remote.busy
     /\ remote' = [remote EXCEPT !.busy = @ \ {r},
                                 !.talking = IF conversation THEN @ \cup {r} ELSE @]
     /\ \/ KindOf[r] = "cast" /\ Moves(outbound, inbound, wire)
        \/ /\ KindOf[r] # "cast"
           /\ Moves(outbound,
                    [s[1] EXCEPT !.conversations =
                       IF conversation THEN @ \cup {[corr |-> r, conn |-> c] : c \in conns} ELSE @],
                    s[2])
     /\ UNCHANGED <<connects, localVars, lookups>>

(* conversation::send of the callee with the code that ends it: this send   *)
(* is not guarded, and one that fails leaves the handler.                   *)
EndConversation(r) ==
  LET talks == {x \in inbound.conversations : x.corr = r}
      i == [inbound EXCEPT !.conversations = @ \ talks]
      open == {x.conn : x \in talks} \cap inbound.connections
      whole == {c \in open : Whole(c)}
  IN /\ r \in remote.talking
     /\ remote' = [remote EXCEPT !.talking = @ \ {r}]
     /\ \/ /\ Moves(outbound, i, [wire EXCEPT !.down = [c \in Connection |->
                  IF c \in whole THEN Append(@[c], [type |-> "ended", corr |-> r, code |-> "ended"])
                  ELSE @[c]]])
           /\ UNCHANGED lookups
        \/ /\ open # whole
           /\ Moves(outbound, InboundAborted(inbound), wire)
           /\ lookups' = lookups \ Discarded(inbound, InboundAborted(inbound))
     /\ UNCHANGED <<connects, localVars>>

(* The transaction manager there does what the job says, or refuses a       *)
(* prepare.                                                                 *)
VoteOn(j) ==
  /\ j \in remote.busy
  /\ \E code \in {"ok"} \cup (IF j.phase = "prepare" THEN Fate \cap {"refused"} ELSE {}) :
       LET s == SendDown(inbound, wire, [type |-> "vote", corr |-> j, code |-> code])
       IN /\ Moves(outbound, s[1], s[2])
          /\ remote' = [remote EXCEPT !.busy = @ \ {j},
                                      !.done = IF code = "ok" THEN @ \cup {j} ELSE @]
  /\ UNCHANGED <<connects, localVars, lookups>>

(* The discovery there finds what the domain offers.                        *)
Find(d) ==
  /\ d \in remote.busy
  /\ \E found \in {Resource} \cup (IF "absent" \in Fate THEN {{}} ELSE {}) :
       LET s == SendDown(inbound, wire, [type |-> "found", corr |-> d, found |-> found])
       IN Moves(outbound, s[1], s[2])
  /\ remote' = [remote EXCEPT !.busy = @ \ {d}]
  /\ UNCHANGED <<connects, localVars, lookups>>
-----------------------------------------------------------------------------
(* The network, and the local transaction manager.                         *)

(* connected at both ends: the outbound asks a configured connection for    *)
(* what it is configured to offer.                                          *)
Connect(c) ==
  /\ connects < MaxConnects /\ outbound.level = "running" /\ inbound.level = "running"
  /\ c \in outbound.unconnected /\ c \notin inbound.connections
  /\ LET o == [outbound EXCEPT !.connections = @ \cup {c}, !.unconnected = @ \ {c}]
         i == [inbound EXCEPT !.connections = @ \cup {c}]
     IN IF c \in Configured THEN Become(Register(o, Entry(c, {c})), i, Discovers(wire, c, {c}))
        ELSE Become(o, i, wire)
  /\ cut' = cut \ {c} /\ connects' = connects + 1
  /\ UNCHANGED <<broken, localVars, remoteVars>>

(* What was sent before may still be read, until the end notices.           *)
Cut(c) ==
  /\ c \in MayCut /\ Whole(c) /\ Faults < MaxFaults
  /\ cut' = cut \cup {c} /\ broken' = TRUE
  /\ UNCHANGED <<outbound, inbound, wire, connects, localVars, remoteVars>>

RepliesTo(corr) == {x \in outbound.replies : x.corr = corr}

(* The caller commits or rolls back when what it called has been answered.  *)
Settled(t) ==
  \A r \in asked \cap Request :
    TridOf[r] = t /\ KindOf[r] # "cast" => RepliesTo(r) # {}

JobsOf(t, phase) ==
  {[trid |-> t, conn |-> b.conn, phase |-> phase] : b \in {x \in outbound.involved : x.trid = t}}

(* The transaction manager: prepare all branches and then commit them if    *)
(* all say so, or commit the only one in one phase, or roll back. A lost    *)
(* branch fails the prepare.                                                *)
TmAsk(t, phase) ==
  /\ \/ /\ tm.stage[t] = "active" /\ Settled(t)
        /\ \/ phase = "rollback"
           \/ phase = "prepare" /\ Cardinality(JobsOf(t, phase)) > 1
           \/ phase = "commit" /\ Cardinality(JobsOf(t, phase)) < 2
     \/ /\ tm.stage[t] = "prepare" /\ \A j \in JobsOf(t, "prepare") : RepliesTo(j) # {}
        /\ phase = IF \A j \in JobsOf(t, "prepare") : \A x \in RepliesTo(j) : x.code = "ok"
                   THEN "commit" ELSE "rollback"
  /\ tm' = [stage |-> [tm.stage EXCEPT ![t] = phase], jobs |-> tm.jobs \cup JobsOf(t, phase)]
  /\ UNCHANGED <<outbound, inbound, wire, cut, broken, connects, asked, remoteVars>>

TmEnds(t) ==
  /\ tm.stage[t] \in {"commit", "rollback"}
  /\ \A j \in JobsOf(t, tm.stage[t]) : RepliesTo(j) # {}
  /\ tm' = [tm EXCEPT !.stage[t] = IF @ = "commit" THEN "committed" ELSE "rolledback"]
  /\ UNCHANGED <<outbound, inbound, wire, cut, broken, connects, asked, remoteVars>>
-----------------------------------------------------------------------------
Init ==
  /\ outbound = [level |-> "running", connections |-> {}, unconnected |-> Connection,
                 lookup |-> [r \in Resource |-> {}], branches |-> {}, routes |-> {},
                 disconnecting |-> {}, discovery |-> <<>>, told |-> {}, known |-> {},
                 replies |-> {}, involved |-> {}]
  /\ inbound = [level |-> "running", connections |-> {}, correlations |-> {}, requests |-> {},
                disconnects |-> {}, conversations |-> {}]
  /\ wire = [up |-> [c \in Connection |-> <<>>], down |-> [c \in Connection |-> <<>>]]
  /\ cut = {} /\ broken = FALSE /\ connects = 0
  /\ asked = {} /\ tm = [stage |-> [t \in Trid |-> "active"], jobs |-> {}]
  /\ lookups = {} /\ remote = [busy |-> {}, talking |-> {}, touched |-> {}, done |-> {}]

Next ==
  \/ \E r \in Request : Ask(r) \/ Converse(r) \/ Serve(r) \/ EndConversation(r)
  \/ \E j \in tm.jobs : AskResource(j) \/ VoteOn(j)
  \/ \E d \in Discovery : Discover(d)
  \/ \E d \in [of : Connection \cup Discovery, conn : Connection] : Find(d)
  \/ \E c \in Connection :
       \/ OutboundReads(c) \/ OutboundLoses(c) \/ InboundReads(c) \/ InboundLoses(c)
       \/ Connect(c) \/ Cut(c)
  \/ \E l \in lookups : AnswerLookup(l) \/ LookupReply(l)
  \/ \E t \in Trid : TmEnds(t) \/ \E phase \in Phase : TmAsk(t, phase)
  \/ OutboundIdle \/ OutboundShutdown \/ OutboundEnds
  \/ InboundShutdown \/ InboundEnds

Spec == Init /\ [][Next]_vars

-----------------------------------------------------------------------------
(* Type correctness of the state of both ends.                              *)
TypeOK ==
  /\ outbound.level \in {"running", "shutdown", "error", "ended"}
  /\ outbound.connections \cap outbound.unconnected = {}
  /\ outbound.connections \cup outbound.unconnected \subseteq Connection
  /\ outbound.lookup \in [Resource -> SUBSET Connection]
  /\ outbound.branches \cup outbound.involved \subseteq Branch
  /\ \A p \in outbound.routes : p.conn \in Connection \cup {None}
  /\ inbound.level \in {"running", "shutdown", "error", "ended"}
  /\ inbound.connections \cup inbound.disconnects \subseteq Connection
  /\ inbound.requests \subseteq Request
  /\ DOMAIN wire.up = Connection /\ DOMAIN wire.down = Connection
  /\ tm.jobs \subseteq Job /\ remote.done \subseteq tm.jobs

(* A vote that the transaction manager gets is of the other domain: what    *)
(* the outbound answers with ok, whatever was lost or came late, was done.  *)
VoteIsTrue ==
  \A j \in Job : [corr |-> j, code |-> "ok"] \in outbound.replies => j \in remote.done

(* No work is forgotten: where a call, a cast or a queue request of a       *)
(* transaction did work, the end of the transaction got there, or the       *)
(* transaction manager was told that the branch is lost.                    *)
EndsEverywhere ==
  \A t \in Trid : \A b \in remote.touched :
    b.trid = t /\ tm.stage[t] \in {"committed", "rolledback"} =>
      LET j == [trid |-> t, conn |-> b.conn,
                phase |-> IF tm.stage[t] = "committed" THEN "commit" ELSE "rollback"]
      IN j \in remote.done \/ [corr |-> j, code |-> "lost"] \in outbound.replies

(* Atomicity over domains: no connection commits a transaction while        *)
(* another with work for it has not said that it can.                       *)
NoneCommitsAlone ==
  \A j \in remote.done : \A b \in remote.touched :
    j.phase = "commit" /\ b.trid = j.trid /\ b.conn # j.conn =>
      [j EXCEPT !.conn = b.conn, !.phase = "prepare"] \in remote.done

(* A soft shutdown of either end loses no call and no queue request: one is *)
(* answered with an error of the outbound only if a connection was cut or   *)
(* reset, or an exception ended the inbound or the outbound.                *)
SoftLosesNothing ==
  \A x \in outbound.replies :
    x.corr \in Request /\ x.code = "lost" =>
      broken \/ "error" \in {inbound.level, outbound.level}

Carries(channel, type, corr) ==
  \E n \in DOMAIN channel : channel[n].type = type /\ channel[n].corr = corr

(* The answer that the route p waits for, or the loss of its connection, is *)
(* on its way.                                                              *)
OnItsWay(p) ==
  \/ p.conn \in cut \/ p.conn \notin inbound.connections
  \/ \E type \in {"request", "resource"} : Carries(wire.up[p.conn], type, p.corr)
  \/ \E type \in {"reply", "vote"} : Carries(wire.down[p.conn], type, p.corr)
  \/ /\ [corr |-> p.corr, conn |-> p.conn] \in inbound.correlations
     /\ \/ p.corr \in remote.busy
        \/ p.corr \in inbound.requests /\ \E l \in lookups : l.corr = p.corr

(* A call or a queue request has no route but that of a connection from     *)
(* which its answer is to come, unless a discovery that came back after the *)
(* loss of the connection has made it known again. A vote has one of a     *)
(* connection that is gone when it is asked for too late, and such a route  *)
(* stays. A request to a domain without a queue manager is not answered.    *)
(* This is for up to two connects. With a third, the connection that is     *)
(* gone may be made again, and the call has a route there and no answer.    *)
RouteIsLive ==
  Alive => \A p \in outbound.routes :
    CASE p.kind \in {"call", "queue"} ->
           IF p.conn \in outbound.connections THEN OnItsWay(p) \/ p.corr \in Queueless
           ELSE outbound.told # {}
      [] p.kind = "resource" -> broken \/ p.conn \notin outbound.connections \/ OnItsWay(p)
      [] p.kind = "conversation" -> TRUE

=============================================================================
