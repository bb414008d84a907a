--------------------------- MODULE GatewayProofs ---------------------------
(***************************************************************************)
(* A vote that the transaction manager gets from the outbound is of the    *)
(* other domain, for any connections, requests and faults; a transaction   *)
(* that ends does so in all connections that have work for it; and no      *)
(* request is forgotten while its connection is whole.                     *)
(*                                                                         *)
(* The first argument follows the vote: what the other domain sends with   *)
(* ok is done (DownMessage), what the channels carry is what was sent      *)
(* (WireOK), and of what the outbound tells local processes only an answer *)
(* of the other domain says ok (Truthful). The errors of a lost connection *)
(* say something else.                                                     *)
(*                                                                         *)
(* The second follows the work: wherever a request of a transaction is,    *)
(* the transaction manager knows the branch of its connection (Safe), so   *)
(* it asks that branch too, and waits for what it says.                    *)
(*                                                                         *)
(* The third follows the answer (IInv): a request is on one connection     *)
(* (Single), and while that is whole the request, the work or the answer   *)
(* of each of its routes is somewhere (EarlyFlow, AllFlow). What discovery *)
(* adds to the lookup is what has answered, so until it has told a local   *)
(* process something a request goes to a connection that is there (Early). *)
(* Each action is first shown to fit (Pre), with what is sent to an end    *)
(* that has closed still in the channel, and then what is lost of it.      *)
(***************************************************************************)
EXTENDS Gateway, LoopProofs

Asked == [of : Connection \cup Discovery, conn : Connection]
Leaving == [of : {"disconnect"}, conn : Connection]

(* What the channels carry when the outbound has the jobs J and the other   *)
(* domain has done D.                                                       *)
UpMessage(J) ==
  [type : {"request", "send", "hangup"}, corr : Request]
    \cup [type : {"resource"}, corr : J]
    \cup [type : {"discover"}, corr : Asked]
    \cup [type : {"disconnected"}, corr : Leaving]
DownMessage(J, D) ==
  [type : {"reply", "connected"}, corr : Request, code : {"ok", "system", "no_entry"}]
    \cup [type : {"ended"}, corr : Request, code : {"ended"}]
    \cup [type : {"vote"}, corr : D, code : {"ok"}]
    \cup [type : {"vote"}, corr : {j \in J : j.phase = "prepare"}, code : {"refused"}]
    \cup [type : {"found"}, corr : Asked, found : SUBSET Resource]
    \cup [type : {"disconnect"}, corr : Leaving]
WireOK(w, J, D) ==
  w \in [up : [Connection -> Seq(UpMessage(J))], down : [Connection -> Seq(DownMessage(J, D))]]

LookupState == [corr : Request, state : {"asked", "idle", "absent"}]

(* The outbound says ok of requests and of jobs that are done.              *)
Truthful(o, D) ==
  /\ "replies" \in DOMAIN o
  /\ \A x \in o.replies : x.code = "ok" => x.corr \in Request \cup D

Invariant ==
  /\ "done" \in DOMAIN remote /\ "jobs" \in DOMAIN tm
  /\ WireOK(wire, tm.jobs, remote.done)
  /\ lookups \subseteq LookupState
  /\ Truthful(outbound, remote.done)
-----------------------------------------------------------------------------
(* The channels after a step hold what they were given, or nothing.         *)
LEMMA BecomeOK ==
  ASSUME NEW o, NEW i, NEW w, NEW J, NEW D, WireOK(w, J, D), Become(o, i, w)
  PROVE  WireOK(wire', J, D) /\ outbound' = o
  BY SMT DEF WireOK, Become

(* The same for a step that may reset connections.                          *)
LEMMA MovesOK ==
  ASSUME NEW o, NEW i, NEW w, NEW J, NEW D, WireOK(w, J, D), Moves(o, i, w)
  PROVE  WireOK(wire', J, D) /\ outbound' = o
  BY BecomeOK DEF Moves

(* A message that may be sent up keeps the channels as they should be.      *)
LEMMA UpOK ==
  ASSUME NEW w, NEW J, NEW D, WireOK(w, J, D), NEW c, NEW m \in UpMessage(J)
  PROVE  WireOK(Up(w, c, m), J, D)
<1> DEFINE up == [w.up EXCEPT ![c] = Append(@, m)]
<1>1. \A s \in Seq(UpMessage(J)) : Append(s, m) \in Seq(UpMessage(J)) OBVIOUS
<1>2. up \in [Connection -> Seq(UpMessage(J))] BY <1>1 DEF WireOK
<1>3. Up(w, c, m) = [w EXCEPT !.up = up] BY DEF Up
<1> QED BY <1>2, <1>3 DEF WireOK

(* Discovery requests go up on a set of connections.                        *)
LEMMA DiscoversOK ==
  ASSUME NEW w, NEW J, NEW D, WireOK(w, J, D), NEW of \in Connection \cup Discovery, NEW S
  PROVE  WireOK(Discovers(w, of, S), J, D)
<1>1. \A s \in Seq(UpMessage(J)) : \A c \in Connection :
        Append(s, [type |-> "discover", corr |-> [of |-> of, conn |-> c]]) \in Seq(UpMessage(J))
  <2>1. SUFFICES ASSUME NEW s \in Seq(UpMessage(J)), NEW c \in Connection
        PROVE  Append(s, [type |-> "discover", corr |-> [of |-> of, conn |-> c]]) \in Seq(UpMessage(J))
    OBVIOUS
  <2>2. [type |-> "discover", corr |-> [of |-> of, conn |-> c]] \in UpMessage(J)
    BY DEF UpMessage, Asked
  <2> QED BY <2>2
<1> DEFINE up == [c \in Connection |->
                    IF c \in S THEN Append(w.up[c], [type |-> "discover", corr |-> [of |-> of, conn |-> c]])
                    ELSE w.up[c]]
<1>2. up \in [Connection -> Seq(UpMessage(J))] BY <1>1 DEF WireOK
<1>3. Discovers(w, of, S) = [w EXCEPT !.up = up] BY DEF Discovers
<1> QED BY <1>2, <1>3 DEF WireOK

(* What is read is of the channel, and leaves the others as they were.      *)
LEMMA ReadsUp ==
  ASSUME NEW w, NEW J, NEW D, WireOK(w, J, D), NEW c \in Connection, w.up[c] # <<>>
  PROVE  /\ Head(w.up[c]) \in UpMessage(J)
         /\ WireOK([w EXCEPT !.up[c] = Tail(@)], J, D)
<1>1. w.up[c] \in Seq(UpMessage(J)) BY DEF WireOK
<1>2. Head(w.up[c]) \in UpMessage(J) /\ Tail(w.up[c]) \in Seq(UpMessage(J)) BY <1>1
<1>3. [w.up EXCEPT ![c] = Tail(@)] \in [Connection -> Seq(UpMessage(J))] BY <1>2 DEF WireOK
<1> QED BY <1>2, <1>3 DEF WireOK

(* The same for what comes down.                                            *)
LEMMA ReadsDown ==
  ASSUME NEW w, NEW J, NEW D, WireOK(w, J, D), NEW c \in Connection, w.down[c] # <<>>
  PROVE  /\ Head(w.down[c]) \in DownMessage(J, D)
         /\ WireOK([w EXCEPT !.down[c] = Tail(@)], J, D)
<1>1. w.down[c] \in Seq(DownMessage(J, D)) BY DEF WireOK
<1>2. Head(w.down[c]) \in DownMessage(J, D) /\ Tail(w.down[c]) \in Seq(DownMessage(J, D)) BY <1>1
<1>3. [w.down EXCEPT ![c] = Tail(@)] \in [Connection -> Seq(DownMessage(J, D))] BY <1>2 DEF WireOK
<1> QED BY <1>2, <1>3 DEF WireOK

(* More jobs and more that is done make more messages legal.                *)
LEMMA WireGrows ==
  ASSUME NEW w, NEW J, NEW D, NEW K, NEW E, WireOK(w, J, D), J \subseteq K, D \subseteq E
  PROVE  WireOK(w, K, E)
<1>1. UpMessage(J) \subseteq UpMessage(K) BY DEF UpMessage
<1>2. DownMessage(J, D) \subseteq DownMessage(K, E) BY DEF DownMessage
<1>3. \A S, T : S \subseteq T => Seq(S) \subseteq Seq(T) OBVIOUS
<1>4. /\ Seq(UpMessage(J)) \subseteq Seq(UpMessage(K))
      /\ Seq(DownMessage(J, D)) \subseteq Seq(DownMessage(K, E))
  BY <1>1, <1>2, <1>3
<1> QED BY <1>4, SMT DEF WireOK

(* The down channels may be replaced by others that are as they should be.  *)
LEMMA DownOK ==
  ASSUME NEW w, NEW J, NEW D, WireOK(w, J, D),
         NEW down \in [Connection -> Seq(DownMessage(J, D))]
  PROVE  WireOK([w EXCEPT !.down = down], J, D)
  BY DEF WireOK

(* An answer that may be sent down keeps the channels as they should be.    *)
LEMMA SendDownOK ==
  ASSUME NEW i, NEW w, NEW J, NEW D, WireOK(w, J, D), NEW m \in DownMessage(J, D)
  PROVE  WireOK(SendDown(i, w, m)[2], J, D)
<1> DEFINE x == {y \in i.correlations : y.corr = m.corr}
           open == {y.conn : y \in x} \cap (inbound.connections \ cut)
           down == [c \in Connection |-> IF c \in open THEN Append(w.down[c], m) ELSE w.down[c]]
<1>1. \A s \in Seq(DownMessage(J, D)) : Append(s, m) \in Seq(DownMessage(J, D)) OBVIOUS
<1>2. \A c \in Connection : w.down[c] \in Seq(DownMessage(J, D)) BY DEF WireOK
<1>3. down \in [Connection -> Seq(DownMessage(J, D))]
  <2> HIDE DEF open
  <2> QED BY <1>1, <1>2
<1>4. SendDown(i, w, m)[2] = [w EXCEPT !.down = down] BY DEF SendDown
<1> HIDE DEF down
<1> QED BY <1>3, <1>4, DownOK
-----------------------------------------------------------------------------
(* What a discovery changes of the outbound is not what it has said.        *)
LEMMA WithOK ==
  ASSUME NEW o, NEW D, Truthful(o, D), NEW s
  PROVE  Truthful(With(o, s), D)
  BY DEF With, Truthful

(* The callbacks of a discovery say nothing.                                *)
LEMMA DiscoveryOK ==
  ASSUME NEW o, NEW D, Truthful(o, D)
  PROVE  /\ \A e : Truthful(Register(o, e), D)
         /\ \A of, x : Truthful(Replied(o, of, x), D)
         /\ \A S : Truthful(Failed(o, S), D)
<1>1. \A e : Truthful(Register(o, e), D) BY WithOK DEF Register
<1>2. \A of, x : Truthful(Replied(o, of, x), D) BY WithOK DEF Replied
<1>3. \A S : Truthful(Failed(o, S), D) BY WithOK DEF Failed
<1> QED BY <1>1, <1>2, <1>3

(* The errors for lost connections do not say ok.                           *)
LEMMA LostOK ==
  ASSUME NEW o, NEW D, Truthful(o, D), NEW S
  PROVE  /\ Truthful(Failed(o, S), D)
         /\ Truthful(Lost(o, S), D)
<1> DEFINE f == Failed(o, S)
<1>2. Truthful(f, D) BY DiscoveryOK
<1> HIDE DEF f
<1>3. \A x \in ErrorReplies(RoutesOf(o, S)) : x.code # "ok" BY DEF ErrorReplies
<1>4. Truthful([f EXCEPT !.routes = @ \ RoutesOf(o, S),
                         !.replies = @ \cup ErrorReplies(RoutesOf(o, S)),
                         !.disconnecting = @ \ S, !.connections = @ \ S], D)
  BY <1>2, <1>3 DEF Truthful
<1> QED BY <1>2, <1>4 DEF Lost, f

(* Nor does an outbound that leaves its connections, in order or not.       *)
LEMMA LeavesOK ==
  ASSUME NEW o, NEW D, Truthful(o, D)
  PROVE  /\ \A S : Truthful(Disconnected(o, S), D)
         /\ Truthful(Aborted(o), D)
<1>1. \A S : Truthful(Disconnected(o, S), D)
  <2>1. SUFFICES ASSUME NEW S PROVE Truthful(Disconnected(o, S), D) OBVIOUS
  <2> DEFINE f == Failed(o, S)
  <2>2. Truthful(f, D) BY LostOK
  <2> HIDE DEF f
  <2>3. Truthful([f EXCEPT !.disconnecting = @ \cup S], D) BY <2>2 DEF Truthful
  <2> QED BY <2>3 DEF Disconnected, f
<1>2. \A P : \A x \in ErrorReplies(P) : x.code # "ok" BY DEF ErrorReplies
<1>3. Truthful(Aborted(o), D)
  <2> DEFINE P == {p \in o.routes : p.kind # "call"}
  <2>1. \A x \in ErrorReplies(P) : x.code # "ok" BY <1>2
  <2>2. Aborted(o).replies = o.replies \cup ErrorReplies(P) BY DEF Aborted, Truthful
  <2>3. "replies" \in DOMAIN Aborted(o) BY DEF Aborted, Truthful
  <2> QED BY <2>1, <2>2, <2>3 DEF Truthful
<1> QED BY <1>1, <1>3

(* A reply may be given unless it says ok of something else.                *)
LEMMA ReplyOK ==
  ASSUME NEW o, NEW D, Truthful(o, D), NEW corr, NEW code,
         code = "ok" => corr \in Request \cup D
  PROVE  Truthful(Reply(o, corr, code), D)
  BY DEF Reply, Truthful

(* Routes are not answers.                                                  *)
LEMMA RouteOK ==
  ASSUME NEW o, NEW D, Truthful(o, D)
  PROVE  /\ \A corr, c, kind : Truthful(Route(o, corr, c, kind), D)
         /\ \A corr : Truthful(Consumed(o, corr), D)
         /\ \A p : Truthful([o EXCEPT !.routes = @ \ {p}], D)
         /\ \A l : Truthful(Branched(o, l), D) /\ Truthful(Involved(o, l), D)
         /\ \A S : Truthful(Reconnect(o, S), D)
  BY DEF Route, Consumed, Branched, Involved, Reconnect, Truthful

(* A send of the outbound, whether it arrives or loses the connection.      *)
LEMMA SendUpOK ==
  ASSUME NEW o, NEW w, NEW J, NEW D, Truthful(o, D), WireOK(w, J, D),
         NEW c, NEW m \in UpMessage(J), NEW s \in SendUp(o, w, c, m)
  PROVE  Truthful(s[1], D) /\ WireOK(s[2], J, D)
<1>1. s \in {<<o, w>>, <<o, Up(w, c, m)>>, <<Lost(o, {c}), w>>} BY DEF SendUp
<1>2. Truthful(Lost(o, {c}), D) BY LostOK
<1>3. WireOK(Up(w, c, m), J, D) BY UpOK
<1> HIDE DEF Truthful, WireOK
<1>4. CASE s = <<o, w>> BY <1>4
<1>5. CASE s = <<o, Up(w, c, m)>> BY <1>5, <1>3
<1>6. CASE s = <<Lost(o, {c}), w>> BY <1>6, <1>2
<1> QED BY <1>1, <1>4, <1>5, <1>6

(* A step of one of the ends keeps the invariant when what it sends and     *)
(* says may be sent and said.                                               *)
LEMMA StepOK ==
  ASSUME Invariant, NEW o, NEW i, NEW w, Moves(o, i, w),
         Truthful(o, remote.done), WireOK(w, tm.jobs, remote.done),
         tm' = tm, "done" \in DOMAIN remote', remote'.done = remote.done,
         lookups' \subseteq LookupState
  PROVE  Invariant'
<1>1. WireOK(wire', tm.jobs, remote.done) /\ outbound' = o BY MovesOK
<1> QED BY <1>1 DEF Invariant
-----------------------------------------------------------------------------
(* The requests of local processes.                                         *)
LEMMA AskOK ==
  ASSUME Invariant, NEW r \in Request, Ask(r)
  PROVE  Invariant'
<1> DEFINE D == remote.done
<1>1. Truthful(outbound, D) /\ WireOK(wire, tm.jobs, D) BY DEF Invariant
<1>2. PICK l \in Looked(outbound, r) :
        LET o == Branched(outbound, l)
            sent == IF KindOf[r] = "cast" THEN Involved(o, l)
                    ELSE Route(Involved(o, l), r, l.conn, KindOf[r])
        IN \/ /\ Refusals(r, l) = {}
              /\ \E s \in SendUp(sent, wire, l.conn, [type |-> "request", corr |-> r]) :
                   Moves(s[1], inbound, s[2])
           \/ \E code \in Refusals(r, l) :
                Moves(IF KindOf[r] = "cast" THEN o ELSE Reply(o, r, code), inbound, wire)
  BY Zenon DEF Ask
<1> DEFINE o == Branched(outbound, l)
           sent == IF KindOf[r] = "cast" THEN Involved(o, l)
                   ELSE Route(Involved(o, l), r, l.conn, KindOf[r])
           m == [type |-> "request", corr |-> r]
<1>3. Truthful(o, D) BY <1>1, RouteOK
<1>4. Truthful(sent, D) BY <1>3, RouteOK
<1>5. m \in UpMessage(tm.jobs) BY DEF UpMessage
<1>6. UNCHANGED <<tm, remoteVars>> BY DEF Ask
<1>7. ASSUME NEW s \in SendUp(sent, wire, l.conn, m), Moves(s[1], inbound, s[2])
      PROVE  Invariant'
  <2> HIDE DEF sent, m
  <2>1. Truthful(s[1], D) /\ WireOK(s[2], tm.jobs, D) BY <1>1, <1>4, <1>5, <1>7, SendUpOK
  <2> QED BY <2>1, <1>6, <1>7, StepOK DEF Invariant, remoteVars
<1>8. ASSUME NEW code, Moves(IF KindOf[r] = "cast" THEN o ELSE Reply(o, r, code), inbound, wire)
      PROVE  Invariant'
  <2> DEFINE p == IF KindOf[r] = "cast" THEN o ELSE Reply(o, r, code)
  <2> HIDE DEF o
  <2>1. Truthful(p, D) BY <1>3, ReplyOK
  <2> HIDE DEF p
  <2> QED BY <2>1, <1>1, <1>6, <1>8, StepOK DEF Invariant, remoteVars, p
<1> HIDE DEF sent, m, o
<1> QED BY <1>2, <1>7, <1>8 DEF sent, m, o

(* The requests of the transaction manager.                                 *)
LEMMA AskResourceOK ==
  ASSUME Invariant, NEW j \in tm.jobs, AskResource(j)
  PROVE  Invariant'
<1> DEFINE D == remote.done
           c == IF [trid |-> j.trid, conn |-> j.conn] \in outbound.branches THEN j.conn ELSE None
           m == [type |-> "resource", corr |-> j]
<1>1. Truthful(outbound, D) /\ WireOK(wire, tm.jobs, D) BY DEF Invariant
<1>2. PICK s \in SendUp(outbound, wire, c, m) : Moves(Route(s[1], j, c, "resource"), inbound, s[2])
  BY DEF AskResource
<1>3. m \in UpMessage(tm.jobs) BY DEF UpMessage
<1> HIDE DEF c, m
<1>4. Truthful(s[1], D) /\ WireOK(s[2], tm.jobs, D) BY <1>1, <1>2, <1>3, SendUpOK
<1>5. Truthful(Route(s[1], j, c, "resource"), D) BY <1>4, RouteOK
<1>6. UNCHANGED <<tm, remoteVars>> BY DEF AskResource
<1> QED BY <1>2, <1>4, <1>5, <1>6, StepOK DEF Invariant, remoteVars

(* The caller of a conversation.                                            *)
LEMMA ConverseOK ==
  ASSUME Invariant, NEW r \in Request, Converse(r)
  PROVE  Invariant'
<1> DEFINE D == remote.done
           m(type) == [type |-> type, corr |-> r]
<1>1. Truthful(outbound, D) /\ WireOK(wire, tm.jobs, D) BY DEF Invariant
<1>2. PICK p : \/ \E s \in SendUp(outbound, wire, p.conn, m("send")) : Moves(s[1], inbound, s[2])
               \/ \E s \in SendUp([outbound EXCEPT !.routes = @ \ {p}], wire, p.conn, m("hangup")) :
                    Moves(s[1], inbound, s[2])
  BY Zenon DEF Converse
<1>3. m("send") \in UpMessage(tm.jobs) /\ m("hangup") \in UpMessage(tm.jobs) BY DEF UpMessage
<1> DEFINE o == [outbound EXCEPT !.routes = @ \ {p}]
<1>4. Truthful(o, D) BY <1>1, RouteOK
<1>5. UNCHANGED <<tm, remoteVars>> BY DEF Converse
<1> HIDE DEF m, o
<1>6. ASSUME NEW z, Truthful(z, D), NEW n \in UpMessage(tm.jobs),
             NEW s \in SendUp(z, wire, p.conn, n), Moves(s[1], inbound, s[2])
      PROVE  Invariant'
  <2>1. Truthful(s[1], D) /\ WireOK(s[2], tm.jobs, D) BY <1>1, <1>6, SendUpOK
  <2> QED BY <2>1, <1>5, <1>6, StepOK DEF Invariant, remoteVars
<1> QED BY <1>1, <1>2, <1>3, <1>4, <1>6 DEF o

(* Requests of the discovery agent.                                         *)
LEMMA DiscoverOK ==
  ASSUME Invariant, NEW d \in Discovery, Discover(d)
  PROVE  Invariant'
<1> DEFINE D == remote.done
<1>1. Truthful(outbound, D) /\ WireOK(wire, tm.jobs, D) BY DEF Invariant
<1>2. Truthful([outbound EXCEPT !.told = @ \cup {d}], D) BY <1>1 DEF Truthful
<1>3. \A S, e : Truthful(Register(Lost(outbound, S), e), D) BY <1>1, LostOK, DiscoveryOK
<1>4. Truthful(Aborted(outbound), D) BY <1>1, LeavesOK
<1>5. \A T : WireOK(Discovers(wire, d, T), tm.jobs, D) BY <1>1, DiscoversOK
<1>6. UNCHANGED <<tm, remoteVars>> BY DEF Discover
<1>7. ASSUME NEW o, NEW w, Truthful(o, D), WireOK(w, tm.jobs, D), Moves(o, inbound, w)
      PROVE  Invariant'
  BY <1>6, <1>7, StepOK DEF Invariant, remoteVars
<1> DEFINE S == IF d \in Rediscovery THEN (outbound.connections \ outbound.disconnecting) \cap Configured
                ELSE (outbound.connections \ outbound.disconnecting) \ OriginOf[d]
           whole == {c \in S : Whole(c)}
<1>8. \/ Moves([outbound EXCEPT !.told = @ \cup {d}], inbound, wire)
      \/ \E failed : Moves(Register(Lost(outbound, failed), Entry(d, S)), inbound, Discovers(wire, d, whole))
      \/ Moves(Aborted(outbound), inbound, Discovers(wire, d, whole))
  BY Zenon DEF Discover
<1> HIDE DEF S, whole
<1>9. CASE Moves([outbound EXCEPT !.told = @ \cup {d}], inbound, wire) BY <1>1, <1>2, <1>7, <1>9
<1>10. CASE \E failed : Moves(Register(Lost(outbound, failed), Entry(d, S)), inbound, Discovers(wire, d, whole))
  BY <1>3, <1>5, <1>7, <1>10
<1>11. CASE Moves(Aborted(outbound), inbound, Discovers(wire, d, whole)) BY <1>4, <1>5, <1>7, <1>11
<1> QED BY <1>8, <1>9, <1>10, <1>11
-----------------------------------------------------------------------------
(* An answer of the other domain that the outbound reads.                   *)
LEMMA ReceivedOK ==
  ASSUME NEW o, NEW J, NEW D, Truthful(o, D), NEW m \in DownMessage(J, D),
         m.type # "disconnect"
  PROVE  Truthful(Received(o, m), D)
<1>1. CASE m.type = "reply"
  <2>1. m.code = "ok" => m.corr \in Request BY <1>1 DEF DownMessage
  <2> DEFINE a == Reply(Consumed(o, m.corr), m.corr, m.code)
  <2>2. Truthful(a, D) BY <2>1, RouteOK, ReplyOK
  <2> HIDE DEF a
  <2>3. \A r, S : Truthful([a EXCEPT !.lookup[r] = @ \ S], D) BY <2>2 DEF Truthful
  <2>4. Truthful(Answered(o, m), D) BY <2>2, <2>3 DEF Answered, a
  <2> QED BY <1>1, <2>4 DEF Received
<1>2. CASE m.type \in {"connected", "ended"}
  <2>1. m.code = "ok" => m.corr \in Request BY <1>2 DEF DownMessage
  <2>2. Truthful(Reply(o, m.corr, m.code), D) BY <2>1, ReplyOK
  <2>3. Truthful(Reply(Consumed(o, m.corr), m.corr, m.code), D) BY <2>1, RouteOK, ReplyOK
  <2>4. Truthful(Conversed(o, m), D) BY <2>2, <2>3 DEF Conversed
  <2> QED BY <1>2, <2>4 DEF Received
<1>3. CASE m.type = "vote"
  <2>1. m.code = "ok" => m.corr \in D BY <1>3 DEF DownMessage
  <2> DEFINE a == IF m.corr.phase = "prepare" THEN o
                  ELSE [o EXCEPT !.branches = @ \ {[trid |-> m.corr.trid, conn |-> m.corr.conn]}]
  <2>2. Truthful(a, D) BY DEF Truthful
  <2> HIDE DEF a
  <2>3. Truthful(Reply(Consumed(a, m.corr), m.corr, m.code), D) BY <2>1, <2>2, RouteOK, ReplyOK
  <2>4. Truthful(Voted(o, m), D) BY <2>2, <2>3 DEF Voted, a
  <2> QED BY <1>3, <2>4 DEF Received
<1>4. CASE m.type = "found" BY <1>4, DiscoveryOK DEF Received, Discovered
<1>5. m.type \in {"reply", "connected", "ended", "vote", "found"} BY DEF DownMessage
<1> QED BY <1>1, <1>2, <1>3, <1>4, <1>5

(* The outbound reads from a connection.                                    *)
LEMMA OutboundReadsOK ==
  ASSUME Invariant, NEW c \in Connection, OutboundReads(c)
  PROVE  Invariant'
<1> DEFINE D == remote.done
           J == tm.jobs
           m == Head(wire.down[c])
           w == [wire EXCEPT !.down[c] = Tail(@)]
           n == [type |-> "disconnected", corr |-> m.corr]
<1>1. Truthful(outbound, D) /\ WireOK(wire, J, D) BY DEF Invariant
<1>2. wire.down[c] # <<>> BY DEF OutboundReads
<1>3. m \in DownMessage(J, D) /\ WireOK(w, J, D) BY <1>1, <1>2, ReadsDown
<1>4. UNCHANGED <<tm, remoteVars>> BY DEF OutboundReads, localVars
<1>5. \/ m.type # "disconnect" /\ Moves(Received(outbound, m), inbound, w)
      \/ /\ m.type = "disconnect"
         /\ \E s \in SendUp(Disconnected(outbound, {c}), w, c, n) : Moves(s[1], inbound, s[2])
  BY DEF OutboundReads
<1>6. m.type = "disconnect" => n \in UpMessage(J) BY <1>3 DEF DownMessage, UpMessage
<1> HIDE DEF D, J, m, w, n
<1>7. ASSUME NEW o, NEW v, Truthful(o, D), WireOK(v, J, D), Moves(o, inbound, v)
      PROVE  Invariant'
  BY <1>4, <1>7, StepOK DEF Invariant, remoteVars, D, J
<1>8. CASE m.type # "disconnect" /\ Moves(Received(outbound, m), inbound, w)
  BY <1>1, <1>3, <1>7, <1>8, ReceivedOK
<1>9. CASE /\ m.type = "disconnect"
           /\ \E s \in SendUp(Disconnected(outbound, {c}), w, c, n) : Moves(s[1], inbound, s[2])
  <2>1. PICK s \in SendUp(Disconnected(outbound, {c}), w, c, n) : Moves(s[1], inbound, s[2])
    BY <1>9
  <2>2. Truthful(Disconnected(outbound, {c}), D) BY <1>1, LeavesOK
  <2>3. Truthful(s[1], D) /\ WireOK(s[2], J, D) BY <1>3, <1>6, <1>9, <2>2, SendUpOK
  <2> QED BY <1>7, <2>1, <2>3
<1> QED BY <1>5, <1>8, <1>9

(* The outbound notices a loss, is idle, shuts down or ends.                *)
LEMMA OutboundLeavesOK ==
  ASSUME Invariant,
         \/ \E c \in Connection : OutboundLoses(c)
         \/ OutboundIdle \/ OutboundShutdown \/ OutboundEnds
  PROVE  Invariant'
<1> DEFINE D == remote.done
<1>1. Truthful(outbound, D) /\ WireOK(wire, tm.jobs, D) BY DEF Invariant
<1>2. \A S, T : Truthful(Reconnect(Lost(outbound, S), T), D) BY <1>1, LostOK, RouteOK
<1>3. Truthful([Disconnected(outbound, outbound.connections) EXCEPT
                  !.level = "shutdown", !.unconnected = {}], D)
  <2> DEFINE o == Disconnected(outbound, outbound.connections)
  <2>1. Truthful(o, D) BY <1>1, LeavesOK
  <2> HIDE DEF o
  <2>2. Truthful([o EXCEPT !.level = "shutdown", !.unconnected = {}], D) BY <2>1 DEF Truthful
  <2> QED BY <2>2 DEF o
<1>4. Truthful([outbound EXCEPT !.level = "ended", !.connections = {}, !.disconnecting = {}], D)
  BY <1>1 DEF Truthful
<1>5. UNCHANGED <<tm, remoteVars>>
  BY DEF OutboundLoses, OutboundIdle, OutboundShutdown, OutboundEnds, localVars
<1>6. ASSUME NEW o, Truthful(o, D), Moves(o, inbound, wire)
      PROVE  Invariant'
  BY <1>1, <1>5, <1>6, StepOK DEF Invariant, remoteVars
<1>7. CASE \E c \in Connection : OutboundLoses(c) BY <1>2, <1>6, <1>7 DEF OutboundLoses
<1>8. CASE OutboundIdle BY <1>2, <1>6, <1>8 DEF OutboundIdle
<1>9. CASE OutboundShutdown BY <1>3, <1>6, <1>9 DEF OutboundShutdown
<1>10. CASE OutboundEnds BY <1>4, <1>6, <1>10 DEF OutboundEnds
<1> QED BY <1>7, <1>8, <1>9, <1>10
-----------------------------------------------------------------------------
(* A step that leaves the outbound as it is.                                *)
LEMMA InboundOK ==
  ASSUME Invariant, NEW i, NEW w, Moves(outbound, i, w), WireOK(w, tm.jobs, remote.done),
         tm' = tm, "done" \in DOMAIN remote', remote'.done = remote.done,
         lookups' \subseteq LookupState
  PROVE  Invariant'
<1>1. Truthful(outbound, remote.done) BY DEF Invariant
<1> QED BY <1>1, StepOK

(* The inbound asks its domain for what requests are about.                 *)
LEMMA TookOK ==
  ASSUME NEW J, NEW m \in UpMessage(J), NEW c
  PROVE  Took(m, c).asks \subseteq LookupState
<1>1. CASE m.type = "request"
  <2>1. m.corr \in Request BY <1>1 DEF UpMessage
  <2>2. CASE m.corr \in Queueless
    <3>1. Took(m, c) = [to |-> inbound, asks |-> {}, works |-> {}] BY <1>1, <2>2, Zenon DEF Took
    <3> QED BY <3>1
  <2>3. CASE m.corr \notin Queueless
    <3>1. Took(m, c).asks = {[corr |-> m.corr, state |-> "asked"]} BY <1>1, <2>3 DEF Took
    <3> QED BY <2>1, <3>1 DEF LookupState
  <2> QED BY <2>2, <2>3
<1>2. CASE m.type # "request"
  <2>1. m.type \in {"resource", "discover", "send", "hangup", "disconnected"}
    BY <1>2 DEF UpMessage
  <2>2. Took(m, c).asks = {} BY <1>2, <2>1 DEF Took
  <2> QED BY <2>2
<1> QED BY <1>1, <1>2

(* The inbound reads from a connection.                                     *)
LEMMA InboundReadsOK ==
  ASSUME Invariant, NEW c \in Connection, InboundReads(c)
  PROVE  Invariant'
<1> DEFINE m == Head(wire.up[c])
           w == [wire EXCEPT !.up[c] = Tail(@)]
           i == Correlated(Took(m, c).to, m.corr, c)
<1>1. WireOK(wire, tm.jobs, remote.done) /\ lookups \subseteq LookupState BY DEF Invariant
<1>2. wire.up[c] # <<>> BY DEF InboundReads
<1>3. m \in UpMessage(tm.jobs) /\ WireOK(w, tm.jobs, remote.done) BY <1>1, <1>2, ReadsUp
<1>4. Moves(outbound, i, w) /\ lookups' = lookups \cup Took(m, c).asks BY DEF InboundReads
<1>5. tm' = tm BY DEF InboundReads, localVars
<1>6. /\ remote'.done = remote.done
      /\ "done" \in DOMAIN remote'
  BY DEF InboundReads, Invariant
<1> HIDE DEF m, w, i
<1>7. lookups' \subseteq LookupState BY <1>1, <1>3, <1>4, TookOK
<1> QED BY <1>3, <1>4, <1>5, <1>6, <1>7, InboundOK

(* The inbound notices a loss or is shut down.                              *)
LEMMA InboundLosesOK ==
  ASSUME Invariant, NEW c \in Connection, InboundLoses(c)
  PROVE  Invariant'
<1>1. PICK i : Moves(outbound, i, wire) BY DEF InboundLoses
<1>2. /\ lookups' \subseteq lookups /\ tm' = tm /\ remote' = remote
  BY DEF InboundLoses, localVars
<1> QED BY <1>1, <1>2, InboundOK DEF Invariant

(* The inbound asks all connections to leave, or loses them.                *)
LEMMA InboundShutdownOK ==
  ASSUME Invariant, InboundShutdown
  PROVE  Invariant'
<1>1. PICK failed \in SUBSET {c \in inbound.connections : ~ Whole(c)} :
        LET open == inbound.connections \ failed
            i == InboundLost([inbound EXCEPT !.level = "shutdown",
                   !.correlations = @ \cup {[corr |-> DisconnectOf(c), conn |-> c] : c \in open}],
                   failed)
        IN /\ Moves(outbound, i, [wire EXCEPT !.down = [c \in Connection |->
                IF c \in open /\ Whole(c)
                THEN Append(@[c], [type |-> "disconnect", corr |-> DisconnectOf(c)]) ELSE @[c]]])
           /\ lookups' = lookups \ Discarded(inbound, i)
  BY Zenon DEF InboundShutdown
<1> DEFINE D == remote.done
           open == inbound.connections \ failed
           i == InboundLost([inbound EXCEPT !.level = "shutdown",
                  !.correlations = @ \cup {[corr |-> DisconnectOf(c), conn |-> c] : c \in open}],
                  failed)
           m(c) == [type |-> "disconnect", corr |-> DisconnectOf(c)]
           down == [c \in Connection |->
                      IF c \in open /\ Whole(c) THEN Append(wire.down[c], m(c)) ELSE wire.down[c]]
<1>2. WireOK(wire, tm.jobs, D) /\ lookups \subseteq LookupState BY DEF Invariant
<1>3. \A c \in Connection : m(c) \in DownMessage(tm.jobs, D)
  BY DEF DownMessage, DisconnectOf, Leaving
<1>4. \A c \in Connection : wire.down[c] \in Seq(DownMessage(tm.jobs, D)) BY <1>2 DEF WireOK
<1>5. down \in [Connection -> Seq(DownMessage(tm.jobs, D))]
  <2> HIDE DEF open, m
  <2>1. \A s \in Seq(DownMessage(tm.jobs, D)) : \A c \in Connection :
          Append(s, m(c)) \in Seq(DownMessage(tm.jobs, D))
    BY <1>3
  <2> QED BY <1>4, <2>1
<1>6. /\ Moves(outbound, i, [wire EXCEPT !.down = down])
      /\ lookups' = lookups \ Discarded(inbound, i)
  BY <1>1, Zenon
<1> HIDE DEF i, down
<1>7. WireOK([wire EXCEPT !.down = down], tm.jobs, D) BY <1>2, <1>5, DownOK
<1>8. tm' = tm /\ remote' = remote BY DEF InboundShutdown, localVars
<1> QED BY <1>2, <1>6, <1>7, <1>8, InboundOK DEF Invariant

(* The callee ends a conversation.                                          *)
LEMMA EndConversationOK ==
  ASSUME Invariant, NEW r \in Request, EndConversation(r)
  PROVE  Invariant'
<1> DEFINE D == remote.done
           talks == {x \in inbound.conversations : x.corr = r}
           i == [inbound EXCEPT !.conversations = @ \ talks]
           open == {x.conn : x \in talks} \cap inbound.connections
           whole == {c \in open : Whole(c)}
           m == [type |-> "ended", corr |-> r, code |-> "ended"]
           down == [c \in Connection |->
                      IF c \in whole THEN Append(wire.down[c], m) ELSE wire.down[c]]
<1>1. WireOK(wire, tm.jobs, D) /\ lookups \subseteq LookupState BY DEF Invariant
<1>2. m \in DownMessage(tm.jobs, D) BY DEF DownMessage
<1>3. \A c \in Connection : wire.down[c] \in Seq(DownMessage(tm.jobs, D)) BY <1>1 DEF WireOK
<1>4. down \in [Connection -> Seq(DownMessage(tm.jobs, D))]
  <2> HIDE DEF whole, m
  <2>1. \A s \in Seq(DownMessage(tm.jobs, D)) : Append(s, m) \in Seq(DownMessage(tm.jobs, D))
    BY <1>2
  <2> QED BY <1>3, <2>1
<1>5. \/ Moves(outbound, i, [wire EXCEPT !.down = down]) /\ lookups' = lookups
      \/ /\ Moves(outbound, InboundAborted(inbound), wire)
         /\ lookups' = lookups \ Discarded(inbound, InboundAborted(inbound))
  BY Zenon DEF EndConversation
<1>6. /\ remote'.done = remote.done
      /\ "done" \in DOMAIN remote' /\ tm' = tm
  BY DEF EndConversation, Invariant, localVars
<1> HIDE DEF i, down
<1>7. WireOK([wire EXCEPT !.down = down], tm.jobs, D) BY <1>1, <1>4, DownOK
<1> QED BY <1>1, <1>5, <1>6, <1>7, InboundOK
-----------------------------------------------------------------------------
(* A refused request, or one that a server has answered.                    *)
LEMMA RefuseOK ==
  ASSUME Invariant, NEW i, NEW r \in Request, NEW code \in {"ok", "system", "no_entry"}
  PROVE  WireOK(Refuse(i, r, code)[2], tm.jobs, remote.done)
<1> DEFINE m == [type |-> IF KindOf[r] = "conversation" THEN "connected" ELSE "reply",
                 corr |-> r, code |-> code]
<1>1. m \in DownMessage(tm.jobs, remote.done) BY DEF DownMessage
<1>2. WireOK(wire, tm.jobs, remote.done) BY DEF Invariant
<1> HIDE DEF m
<1>3. WireOK(SendDown(i, wire, m)[2], tm.jobs, remote.done) BY <1>1, <1>2, SendDownOK
<1> QED BY <1>3 DEF Refuse, m

(* A lookup is answered.                                                    *)
LEMMA AnswerLookupOK ==
  ASSUME Invariant, NEW l \in lookups, AnswerLookup(l)
  PROVE  Invariant'
<1>1. l \in LookupState BY DEF Invariant
<1>2. PICK state \in {"idle", "absent"} :
        lookups' = (lookups \ {l}) \cup {[l EXCEPT !.state = state]}
  BY DEF AnswerLookup
<1>3. [l EXCEPT !.state = state] \in LookupState BY <1>1 DEF LookupState
<1>4. UNCHANGED <<tm, remote, wire, outbound>> BY DEF AnswerLookup, localVars
<1> QED BY <1>2, <1>3, <1>4 DEF Invariant

(* What the inbound does with the answer of a lookup.                       *)
LEMMA LookupReplyOK ==
  ASSUME Invariant, NEW l \in lookups, LookupReply(l)
  PROVE  Invariant'
<1>1. l.corr \in Request /\ lookups \subseteq LookupState BY DEF Invariant, LookupState
<1>2. WireOK(wire, tm.jobs, remote.done) BY DEF Invariant
<1> DEFINE i == [inbound EXCEPT !.requests = @ \ {l.corr}]
           s(code) == Refuse(i, l.corr, code)
           branches == {[trid |-> TridOf[l.corr], conn |-> x.conn] :
                          x \in {y \in inbound.correlations : y.corr = l.corr}}
<1>3. \A code \in {"ok", "system", "no_entry"} : WireOK(s(code)[2], tm.jobs, remote.done)
  BY <1>1, RefuseOK
<1>4. tm' = tm BY DEF LookupReply, localVars
<1>5. \/ /\ Moves(outbound, i, wire)
         /\ remote' = [remote EXCEPT !.busy = @ \cup {l.corr}, !.touched = @ \cup branches]
         /\ lookups' = lookups \ {l}
      \/ /\ Moves(outbound, s("system")[1], s("system")[2])
         /\ lookups' = lookups \ {l} /\ UNCHANGED remote
      \/ /\ Moves(outbound, s("no_entry")[1], s("no_entry")[2])
         /\ lookups' = lookups \ {l} /\ UNCHANGED remote
      \/ /\ Moves(outbound, InboundAborted(i), wire)
         /\ lookups' = lookups \ ({l} \cup Discarded(i, InboundAborted(i)))
         /\ UNCHANGED remote
  BY Zenon DEF LookupReply
<1>6. remote'.done = remote.done /\ "done" \in DOMAIN remote' BY <1>5 DEF Invariant
<1>7. lookups' \subseteq LookupState BY <1>1, <1>5
<1>8. PICK j, w : Moves(outbound, j, w) /\ WireOK(w, tm.jobs, remote.done)
  <2> HIDE DEF i, s, branches
  <2> QED BY <1>2, <1>3, <1>5, Zenon
<1> QED BY <1>4, <1>6, <1>7, <1>8, InboundOK

(* A server or a queue answers.                                             *)
LEMMA ServeOK ==
  ASSUME Invariant, NEW r \in Request, Serve(r)
  PROVE  Invariant'
<1>1. WireOK(wire, tm.jobs, remote.done) /\ lookups \subseteq LookupState BY DEF Invariant
<1> DEFINE s == Refuse(inbound, r, "ok")
<1>2. WireOK(s[2], tm.jobs, remote.done) BY RefuseOK
<1>3. tm' = tm /\ lookups' = lookups BY DEF Serve, localVars
<1>4. remote'.done = remote.done /\ "done" \in DOMAIN remote' BY DEF Serve, Invariant
<1>5. \E i : Moves(outbound, i, wire) \/ Moves(outbound, i, s[2])
  BY Zenon DEF Serve
<1> HIDE DEF s
<1> QED BY <1>1, <1>2, <1>3, <1>4, <1>5, InboundOK

(* The discovery of the other domain answers.                               *)
LEMMA FindOK ==
  ASSUME Invariant, NEW d \in Asked, Find(d)
  PROVE  Invariant'
<1> DEFINE m(found) == [type |-> "found", corr |-> d, found |-> found]
           s(found) == SendDown(inbound, wire, m(found))
<1>1. WireOK(wire, tm.jobs, remote.done) /\ lookups \subseteq LookupState BY DEF Invariant
<1>2. PICK found \in SUBSET Resource : Moves(outbound, s(found)[1], s(found)[2])
  BY DEF Find
<1>3. m(found) \in DownMessage(tm.jobs, remote.done) BY DEF DownMessage
<1> HIDE DEF m
<1>4. WireOK(s(found)[2], tm.jobs, remote.done) BY <1>1, <1>3, SendDownOK
<1>5. tm' = tm /\ lookups' = lookups BY DEF Find, localVars
<1>6. remote'.done = remote.done /\ "done" \in DOMAIN remote' BY DEF Find, Invariant
<1> HIDE DEF s
<1> QED BY <1>1, <1>2, <1>4, <1>5, <1>6, InboundOK

(* A vote with ok is sent when the job is done.                             *)
LEMMA VoteOnOK ==
  ASSUME Invariant, NEW j \in tm.jobs, VoteOn(j)
  PROVE  Invariant'
<1> DEFINE m(code) == [type |-> "vote", corr |-> j, code |-> code]
           s(code) == SendDown(inbound, wire, m(code))
           D == remote'.done
<1>1. PICK code \in {"ok", "refused"} :
        /\ Moves(outbound, s(code)[1], s(code)[2])
        /\ code = "refused" => j.phase = "prepare"
        /\ remote' = [remote EXCEPT !.busy = @ \ {j},
                                    !.done = IF code = "ok" THEN @ \cup {j} ELSE @]
  BY DEF VoteOn
<1>2. /\ "done" \in DOMAIN remote'
      /\ D = IF code = "ok" THEN remote.done \cup {j} ELSE remote.done
  BY <1>1 DEF Invariant
<1>3. WireOK(wire, tm.jobs, D) BY <1>2, WireGrows DEF Invariant
<1>4. m(code) \in DownMessage(tm.jobs, D) BY <1>1, <1>2 DEF DownMessage
<1> HIDE DEF m
<1>5. WireOK(s(code)[2], tm.jobs, D) BY <1>3, <1>4, SendDownOK
<1> HIDE DEF s
<1>6. WireOK(wire', tm.jobs, D) /\ outbound' = outbound BY <1>1, <1>5, MovesOK
<1>7. Truthful(outbound, D) BY <1>2 DEF Invariant, Truthful
<1>8. tm' = tm /\ lookups' = lookups BY DEF VoteOn, localVars
<1> QED BY <1>2, <1>6, <1>7, <1>8 DEF Invariant
-----------------------------------------------------------------------------
(* A connection is made.                                                    *)
LEMMA ConnectOK ==
  ASSUME Invariant, NEW c \in Connection, Connect(c)
  PROVE  Invariant'
<1> DEFINE D == remote.done
           o == [outbound EXCEPT !.connections = @ \cup {c}, !.unconnected = @ \ {c}]
           i == [inbound EXCEPT !.connections = @ \cup {c}]
           p == Register(o, Entry(c, {c}))
           w == Discovers(wire, c, {c})
<1>1. Truthful(outbound, D) /\ WireOK(wire, tm.jobs, D) BY DEF Invariant
<1>2. Become(p, i, w) \/ Become(o, i, wire) BY Zenon DEF Connect
<1>3. Truthful(o, D) BY <1>1 DEF Truthful
<1> HIDE DEF o, i
<1>4. Truthful(p, D) /\ WireOK(w, tm.jobs, D) BY <1>1, <1>3, DiscoveryOK, DiscoversOK
<1> HIDE DEF p, w
<1>5. WireOK(wire', tm.jobs, D) /\ Truthful(outbound', D) BY <1>1, <1>2, <1>3, <1>4, BecomeOK
<1>6. UNCHANGED <<tm, remoteVars>> BY DEF Connect, localVars
<1> QED BY <1>5, <1>6 DEF Invariant, remoteVars

(* The transaction manager asks for more.                                   *)
LEMMA TmOK ==
  ASSUME Invariant, NEW t \in Trid,
         TmEnds(t) \/ \E phase \in Phase : TmAsk(t, phase)
  PROVE  Invariant'
<1>1. "jobs" \in DOMAIN tm' /\ tm.jobs \subseteq tm'.jobs
  <2>1. CASE TmEnds(t)
    <3>1. PICK stage : tm' = [tm EXCEPT !.stage = stage] BY <2>1, Zenon DEF TmEnds
    <3> QED BY <3>1 DEF Invariant
  <2>2. ASSUME NEW phase, TmAsk(t, phase)
        PROVE  "jobs" \in DOMAIN tm' /\ tm.jobs \subseteq tm'.jobs
    <3>1. PICK stage : tm' = [stage |-> stage, jobs |-> tm.jobs \cup JobsOf(t, phase)]
      BY <2>2 DEF TmAsk
    <3> QED BY <3>1
  <2> QED BY <2>1, <2>2
<1>2. UNCHANGED <<outbound, wire, remoteVars>> BY DEF TmEnds, TmAsk
<1>3. WireOK(wire, tm'.jobs, remote.done) BY <1>1, WireGrows DEF Invariant
<1> QED BY <1>1, <1>2, <1>3 DEF Invariant, remoteVars

(* The rest changes nothing of what is said.                                *)
LEMMA QuietOK ==
  ASSUME Invariant,
         \/ \E c \in Connection : Cut(c)
         \/ InboundEnds
         \/ UNCHANGED vars
  PROVE  Invariant'
<1>1. UNCHANGED <<outbound, wire, tm, lookups, remote>>
  BY DEF Cut, InboundEnds, vars, localVars, remoteVars
<1> QED BY <1>1 DEF Invariant
-----------------------------------------------------------------------------
(* Initially nothing is said.                                               *)
LEMMA InitOK == Init => Invariant
  BY DEF Init, Invariant, WireOK, Truthful, LookupState

(* Every step keeps the invariant.                                          *)
LEMMA NextOK ==
  ASSUME Invariant, [Next]_vars
  PROVE  Invariant'
<1>1. ASSUME NEW r \in Request, Ask(r) \/ Converse(r) \/ Serve(r) \/ EndConversation(r)
      PROVE  Invariant'
  BY <1>1, AskOK, ConverseOK, ServeOK, EndConversationOK
<1>2. ASSUME NEW j \in tm.jobs, AskResource(j) \/ VoteOn(j)
      PROVE  Invariant'
  BY <1>2, AskResourceOK, VoteOnOK
<1>3. ASSUME NEW d \in Discovery, Discover(d)
      PROVE  Invariant'
  BY <1>3, DiscoverOK
<1>4. ASSUME NEW d \in Asked, Find(d)
      PROVE  Invariant'
  BY <1>4, FindOK
<1>5. ASSUME NEW c \in Connection,
             \/ OutboundReads(c) \/ OutboundLoses(c) \/ InboundReads(c) \/ InboundLoses(c)
             \/ Connect(c) \/ Cut(c)
      PROVE  Invariant'
  BY <1>5, OutboundReadsOK, OutboundLeavesOK, InboundReadsOK, InboundLosesOK, ConnectOK, QuietOK
<1>6. ASSUME NEW l \in lookups, AnswerLookup(l) \/ LookupReply(l)
      PROVE  Invariant'
  BY <1>6, AnswerLookupOK, LookupReplyOK
<1>7. ASSUME NEW t \in Trid, TmEnds(t) \/ \E phase \in Phase : TmAsk(t, phase)
      PROVE  Invariant'
  BY <1>7, TmOK
<1>8. CASE OutboundIdle \/ OutboundShutdown \/ OutboundEnds BY <1>8, OutboundLeavesOK
<1>9. CASE InboundShutdown \/ InboundEnds BY <1>9, InboundShutdownOK, QuietOK
<1>10. CASE UNCHANGED vars BY <1>10, QuietOK
<1> QED
  BY <1>1, <1>2, <1>3, <1>4, <1>5, <1>6, <1>7, <1>8, <1>9, <1>10 DEF Next, Asked

(* A vote that the transaction manager gets from the outbound is one of the *)
(* other domain, whatever connections were lost, made again or late: an ok  *)
(* that the outbound gives a job (resource::prepare::reply and its like,    *)
(* outbound/handle.cpp) is of a job that the other domain has done.         *)
THEOREM VotesAreTrue == Spec => []VoteIsTrue
<1>1. Invariant => VoteIsTrue
  <2>1. SUFFICES ASSUME Invariant, NEW j \in Job,
                        [corr |-> j, code |-> "ok"] \in outbound.replies
        PROVE  j \in remote.done
    BY DEF VoteIsTrue
  <2>2. j \in Request \cup remote.done BY <2>1 DEF Invariant, Truthful
  <2> QED BY <2>2, GatewayAssumption DEF GatewayAssumption
<1>2. Init => Invariant BY InitOK
<1>3. Invariant /\ [Next]_vars => Invariant' BY NextOK
<1> QED BY <1>1, <1>2, <1>3, PTL DEF Spec
-----------------------------------------------------------------------------
(* Atomicity over domains. The work of a request is over a connection whose *)
(* branch the transaction manager knows, provided that a branch is reported *)
(* in the step that makes it: a call that comes back is refused between the *)
(* two, and is to have no transaction.                                      *)
Unlooped == \A r \in Looped : TridOf[r] = None

(* The transaction manager knows I, and with it the branch of the request.  *)
Reported(I, r, c) == TridOf[r] # None => [trid |-> TridOf[r], conn |-> c] \in I

(* What the outbound has of branches is known, and its routes go there.     *)
Known(o) ==
  /\ {"branches", "involved", "routes", "replies"} \subseteq DOMAIN o
  /\ IsFiniteSet(o.involved)
  /\ \A b \in o.branches : b.conn \in Connection => b \in o.involved
  /\ \A p \in o.routes :
       p.corr \in Request /\ p.conn \in Connection => Reported(o.involved, p.corr, p.conn)

(* So do the messages on their way, the correlations of the inbound and the *)
(* work of the other domain.                                                *)
Carried(w, I) ==
  \A c \in Connection : \A n \in DOMAIN w.up[c] :
    w.up[c][n].corr \in Request => Reported(I, w.up[c][n].corr, c)
Correlates(i, I) ==
  /\ {"connections", "correlations"} \subseteq DOMAIN i /\ i.connections \subseteq Connection
  /\ \A x \in i.correlations :
       x.corr \in Request => x.conn \in Connection /\ Reported(I, x.corr, x.conn)
Touches(T, I) == \A b \in T : b.trid \in Trid => b \in I /\ b.conn \in Connection

Told(A, j) == \E x \in A : x.corr = j

(* What the transaction manager T has asked for when it knows I, has been   *)
(* told A and the other domain has done D: a commit comes after the others  *)
(* have prepared, and the end after all have answered.                      *)
Decided(T, I, A, D) ==
  /\ {"stage", "jobs"} \subseteq DOMAIN T
  /\ T.stage \in [Trid -> {"active", "prepare", "commit", "rollback", "committed", "rolledback"}]
  /\ \A j \in T.jobs : /\ j.trid \in Trid /\ T.stage[j.trid] # "active"
                       /\ j = [trid |-> j.trid, conn |-> j.conn, phase |-> j.phase]
                       /\ j.conn \in Connection => j \in Job
  /\ \A j \in T.jobs : j.phase = "commit" =>
       /\ T.stage[j.trid] \in {"commit", "committed"}
       /\ \A b \in I : b.trid = j.trid /\ b.conn # j.conn /\ b.conn \in Connection =>
            [trid |-> j.trid, conn |-> b.conn, phase |-> "prepare"] \in D
  /\ \A t \in Trid : \A b \in I : b.trid = t =>
       /\ T.stage[t] = "committed" => Told(A, [trid |-> t, conn |-> b.conn, phase |-> "commit"])
       /\ T.stage[t] = "rolledback" => Told(A, [trid |-> t, conn |-> b.conn, phase |-> "rollback"])

(* No job but a prepare gets another answer than ok or the loss.            *)
Obeyed(A) ==
  \A x \in A : /\ x = [corr |-> x.corr, code |-> x.code]
               /\ x.code \in {"ok", "lost"} \/ x.corr \in Request \/ x.corr.phase = "prepare"

SafeFor(o) ==
  /\ Known(o)
  /\ Carried(wire, o.involved)
  /\ Correlates(inbound, o.involved)
  /\ {"touched", "done"} \subseteq DOMAIN remote
  /\ Touches(remote.touched, o.involved)
  /\ Decided(tm, o.involved, o.replies, remote.done)
  /\ remote.done \subseteq tm.jobs
  /\ Obeyed(o.replies)
Safe == SafeFor(outbound)

-----------------------------------------------------------------------------
(* The outbound p has no more branches or routes than o, and knows what it  *)
(* knew.                                                                    *)
Kept(o, p) ==
  /\ {"branches", "involved", "routes", "replies"} \subseteq DOMAIN p
  /\ p.branches \subseteq o.branches /\ p.involved = o.involved
  /\ p.routes \subseteq o.routes /\ o.replies \subseteq p.replies
  /\ Obeyed(p.replies)

Full(o) ==
  /\ {"branches", "involved", "routes", "replies"} \subseteq DOMAIN o
  /\ Obeyed(o.replies)

(* One after the other.                                                     *)
LEMMA KeptThen ==
  ASSUME NEW o, NEW p, NEW q, Kept(o, p), Kept(p, q)
  PROVE  Kept(o, q)
  BY DEF Kept

(* What has kept it has all its parts, and an outbound keeps itself.         *)
LEMMA KeptFull ==
  ASSUME NEW o, NEW p
  PROVE  /\ Kept(o, p) => Full(p)
         /\ Full(o) => Kept(o, o)
  BY DEF Kept, Full

(* What a discovery changes is none of this.                                *)
LEMMA DiscoveryKept ==
  ASSUME NEW o, Full(o)
  PROVE  /\ \A e : Kept(o, Register(o, e))
         /\ \A of, x : Kept(o, Replied(o, of, x))
         /\ \A S : Kept(o, Failed(o, S))
<1>1. \A s : Kept(o, With(o, s)) BY DEF With, Kept, Full
<1>2. \A e : Kept(o, Register(o, e)) BY <1>1 DEF Register
<1>3. \A of, x : Kept(o, Replied(o, of, x)) BY <1>1 DEF Replied
<1>4. \A S : Kept(o, Failed(o, S)) BY <1>1 DEF Failed
<1> QED BY <1>2, <1>3, <1>4

(* A reply that may be given.                                               *)
LEMMA ReplyKept ==
  ASSUME NEW o, Full(o), NEW corr, NEW code,
         code \in {"ok", "lost"} \/ corr \in Request \/ corr.phase = "prepare"
  PROVE  Kept(o, Reply(o, corr, code))
<1>1. Obeyed(o.replies \cup {[corr |-> corr, code |-> code]}) BY DEF Full, Obeyed
<1> QED BY <1>1 DEF Reply, Kept, Full

(* Routes go, and connections may come again.                               *)
LEMMA ConsumedKept ==
  ASSUME NEW o, Full(o)
  PROVE  /\ \A corr : Kept(o, Consumed(o, corr))
         /\ \A p : Kept(o, [o EXCEPT !.routes = @ \ {p}])
         /\ \A S : Kept(o, Reconnect(o, S))
  BY DEF Consumed, Reconnect, Kept, Full

(* The loss of connections is told to those that have routes.               *)
LEMMA LostKept ==
  ASSUME NEW o, Full(o), NEW S
  PROVE  Kept(o, Failed(o, S)) /\ Kept(o, Lost(o, S))
<1> DEFINE f == Failed(o, S)
           R == RoutesOf(o, S)
<1>2. Kept(o, f) BY DiscoveryKept
<1> HIDE DEF f
<1>3. Obeyed(f.replies \cup ErrorReplies(R)) BY <1>2 DEF ErrorReplies, Kept, Obeyed
<1>4. Kept(o, [f EXCEPT !.routes = @ \ R, !.replies = @ \cup ErrorReplies(R),
                        !.disconnecting = @ \ S, !.connections = @ \ S])
  <2> DEFINE E == ErrorReplies(R)
  <2> HIDE DEF E, R
  <2> QED BY <1>2, <1>3 DEF Kept, E
<1> QED BY <1>2, <1>4 DEF Lost, f, R

(* The connections that are told to leave, and an outbound that gives up.   *)
LEMMA LeavesKept ==
  ASSUME NEW o, Full(o)
  PROVE  /\ \A S : Kept(o, Disconnected(o, S))
         /\ Kept(o, Aborted(o))
<1>1. ASSUME NEW S PROVE Kept(o, Disconnected(o, S))
  <2> DEFINE f == Failed(o, S)
  <2>1. Kept(o, f) BY LostKept
  <2> HIDE DEF f
  <2>2. Kept(o, [f EXCEPT !.disconnecting = @ \cup S]) BY <2>1 DEF Kept
  <2> QED BY <2>2 DEF Disconnected, f
<1>2. Kept(o, Aborted(o))
  <2> DEFINE E == ErrorReplies({p \in o.routes : p.kind # "call"})
  <2>1. Obeyed(o.replies \cup E) BY DEF ErrorReplies, Full, Obeyed
  <2> HIDE DEF E
  <2>2. Kept(o, [o EXCEPT !.level = "error", !.connections = {}, !.disconnecting = {},
                          !.replies = @ \cup E, !.routes = {p \in @ : p.kind = "call"}])
    BY <2>1 DEF Kept, Full
  <2> QED BY <2>2 DEF Aborted, E
<1> QED BY <1>1, <1>2
-----------------------------------------------------------------------------
(* After a step of an end the channels carry what they were given, or less. *)
LEMMA BecomeCarries ==
  ASSUME NEW o, NEW i, NEW w, NEW I, Carried(w, I), Become(o, i, w)
  PROVE  Carried(wire', I)
<1>1. SUFFICES ASSUME NEW c \in Connection, NEW n \in DOMAIN (wire').up[c],
                      (wire').up[c][n].corr \in Request
      PROVE  Reported(I, (wire').up[c][n].corr, c)
  BY DEF Carried
<1>2. (wire').up[c] = IF c \in i.connections THEN w.up[c] ELSE <<>> BY DEF Become
<1>3. DOMAIN <<>> = {} OBVIOUS
<1>4. (wire').up[c] = w.up[c] BY <1>1, <1>2, <1>3
<1> QED BY <1>1, <1>4 DEF Carried

(* A request goes up on a connection that is known to work for it.          *)
LEMMA UpCarries ==
  ASSUME NEW w, NEW J, NEW D, NEW I, WireOK(w, J, D), Carried(w, I), NEW c, NEW m,
         m.corr \in Request /\ c \in Connection => Reported(I, m.corr, c)
  PROVE  Carried(Up(w, c, m), I)
<1>1. SUFFICES ASSUME NEW d \in Connection, NEW n \in DOMAIN Up(w, c, m).up[d],
                      Up(w, c, m).up[d][n].corr \in Request
      PROVE  Reported(I, Up(w, c, m).up[d][n].corr, d)
  BY DEF Carried
<1>2. w.up \in [Connection -> Seq(UpMessage(J))] /\ "up" \in DOMAIN w BY DEF WireOK
<1>3. Up(w, c, m).up[d] = IF d = c THEN Append(w.up[d], m) ELSE w.up[d] BY <1>2 DEF Up
<1>4. PICK s : s = w.up[d] OBVIOUS
<1>5. s \in Seq(UpMessage(J)) BY <1>2, <1>4
<1>6. CASE d # c BY <1>1, <1>3, <1>6 DEF Carried
<1>7. CASE d = c
  <2>1. n \in 1 .. Len(s) + 1 BY <1>1, <1>3, <1>4, <1>5, <1>7
  <2>2. CASE n = Len(s) + 1 BY <1>1, <1>3, <1>4, <1>5, <1>7, <2>2
  <2>3. CASE n # Len(s) + 1
    <3>1. n \in DOMAIN s /\ Append(s, m)[n] = s[n] BY <1>5, <2>1, <2>3
    <3> QED BY <1>1, <1>3, <1>4, <1>7, <3>1 DEF Carried
  <2> QED BY <2>2, <2>3
<1> QED BY <1>6, <1>7

(* Discoveries are not requests.                                            *)
LEMMA DiscoversCarry ==
  ASSUME NEW w, NEW J, NEW D, NEW I, WireOK(w, J, D), Carried(w, I),
         NEW of \in Connection \cup Discovery, NEW S
  PROVE  Carried(Discovers(w, of, S), I)
<1> DEFINE m(c) == [type |-> "discover", corr |-> [of |-> of, conn |-> c]]
           v == Discovers(w, of, S)
<1>1. SUFFICES ASSUME NEW d \in Connection, NEW n \in DOMAIN v.up[d], v.up[d][n].corr \in Request
      PROVE  Reported(I, v.up[d][n].corr, d)
  BY DEF Carried
<1>2. w.up \in [Connection -> Seq(UpMessage(J))] /\ "up" \in DOMAIN w BY DEF WireOK
<1>3. v.up[d] = IF d \in S THEN Append(w.up[d], m(d)) ELSE w.up[d] BY <1>2 DEF Discovers
<1>4. m(d).corr \notin Request BY GatewayAssumption DEF GatewayAssumption
<1>5. PICK s, e : s = w.up[d] /\ e = m(d) OBVIOUS
<1>6. s \in Seq(UpMessage(J)) BY <1>2, <1>5
<1> HIDE DEF v, m
<1>7. CASE d \notin S BY <1>1, <1>3, <1>7 DEF Carried
<1>8. CASE d \in S
  <2>1. n \in 1 .. Len(s) + 1 /\ n # Len(s) + 1 BY <1>1, <1>3, <1>4, <1>5, <1>6, <1>8
  <2>2. n \in DOMAIN s /\ Append(s, e)[n] = s[n] BY <1>6, <2>1
  <2> QED BY <1>1, <1>3, <1>5, <1>8, <2>2 DEF Carried
<1> QED BY <1>7, <1>8

(* What is read is of the channel and the rest stays.                       *)
LEMMA ReadCarries ==
  ASSUME NEW w, NEW J, NEW D, NEW I, WireOK(w, J, D), Carried(w, I),
         NEW c \in Connection, w.up[c] # <<>>
  PROVE  /\ Head(w.up[c]).corr \in Request => Reported(I, Head(w.up[c]).corr, c)
         /\ Carried([w EXCEPT !.up[c] = Tail(@)], I)
<1>1. w.up \in [Connection -> Seq(UpMessage(J))] /\ "up" \in DOMAIN w BY DEF WireOK
<1>2. PICK s : s = w.up[c] OBVIOUS
<1>3. s \in Seq(UpMessage(J)) /\ s # <<>> BY <1>1, <1>2
<1>4. 1 \in DOMAIN s /\ Head(s) = s[1] BY <1>3
<1>5. Head(w.up[c]).corr \in Request => Reported(I, Head(w.up[c]).corr, c)
  BY <1>2, <1>4 DEF Carried
<1> DEFINE v == [w EXCEPT !.up[c] = Tail(@)]
<1>6. ASSUME NEW d \in Connection, NEW n \in DOMAIN v.up[d], v.up[d][n].corr \in Request
      PROVE  Reported(I, v.up[d][n].corr, d)
  <2>1. v.up[d] = IF d = c THEN Tail(s) ELSE w.up[d] BY <1>1, <1>2
  <2> HIDE DEF v
  <2>2. CASE d # c BY <1>6, <2>1, <2>2 DEF Carried
  <2>3. CASE d = c
    <3>1. n + 1 \in DOMAIN s /\ Tail(s)[n] = s[n + 1] BY <1>3, <1>6, <2>1, <2>3
    <3> QED BY <1>2, <1>6, <2>1, <2>3, <3>1 DEF Carried
  <2> QED BY <2>2, <2>3
<1>7. Carried(v, I) BY <1>6 DEF Carried
<1> QED BY <1>5, <1>7

(* What goes down or is read there does not matter.                         *)
LEMMA DownCarries ==
  ASSUME NEW w, NEW I, Carried(w, I), NEW v, v.up = w.up
  PROVE  Carried(v, I)
  BY DEF Carried

(* A send of the outbound.                                                  *)
LEMMA SendUpKept ==
  ASSUME NEW o, NEW w, NEW J, NEW D, NEW I, Full(o), WireOK(w, J, D), Carried(w, I),
         NEW c, NEW m, m.corr \in Request /\ c \in Connection => Reported(I, m.corr, c),
         NEW s \in SendUp(o, w, c, m)
  PROVE  Kept(o, s[1]) /\ Carried(s[2], I)
<1>1. s \in {<<o, w>>, <<o, Up(w, c, m)>>, <<Lost(o, {c}), w>>} BY DEF SendUp
<1>2. Kept(o, o) /\ Kept(o, Lost(o, {c})) BY KeptFull, LostKept
<1>3. Carried(Up(w, c, m), I) BY UpCarries
<1>4. CASE s = <<o, w>> BY <1>2, <1>4
<1>5. CASE s = <<o, Up(w, c, m)>> BY <1>2, <1>3, <1>5
<1>6. CASE s = <<Lost(o, {c}), w>> BY <1>2, <1>6
<1> QED BY <1>1, <1>4, <1>5, <1>6
-----------------------------------------------------------------------------
(* What is known of the outbound holds of one that kept it.                 *)
LEMMA KeptKnown ==
  ASSUME NEW o, NEW p, Known(o), Kept(o, p)
  PROVE  Known(p)
  BY DEF Known, Kept

(* What was decided stays so when more is told and done.                    *)
LEMMA DecidedGrows ==
  ASSUME NEW T, NEW I, NEW A, NEW D, Decided(T, I, A, D),
         NEW B, A \subseteq B, NEW E, D \subseteq E
  PROVE  Decided(T, I, B, E)
<1>1. \A j : Told(A, j) => Told(B, j) BY DEF Told
<1> QED BY <1>1 DEF Decided

(* A step of one of the ends, from an outbound v that knows more.           *)
LEMMA StepSafe ==
  ASSUME NEW v, SafeFor(v), NEW o, NEW i, NEW w, Moves(o, i, w) \/ Become(o, i, w),
         Kept(v, o),
         Correlates(i, v.involved), Carried(w, v.involved),
         tm' = tm, {"touched", "done"} \subseteq DOMAIN remote',
         remote.done \subseteq remote'.done, remote'.done \subseteq tm.jobs,
         Touches(remote'.touched, v.involved)
  PROVE  Safe'
<1>1. Become(o, i, w) BY DEF Moves
<1>2. outbound' = o /\ inbound' = i BY <1>1 DEF Become
<1>3. Carried(wire', v.involved) BY <1>1, BecomeCarries
<1>4. o.involved = v.involved /\ v.replies \subseteq o.replies /\ Obeyed(o.replies)
  BY DEF Kept
<1>5. Known(o) BY KeptKnown DEF SafeFor
<1>6. Decided(tm', o.involved, o.replies, remote'.done) BY <1>4, DecidedGrows DEF SafeFor
<1> QED BY <1>2, <1>3, <1>4, <1>5, <1>6 DEF SafeFor, Safe

(* A step of the outbound alone.                                            *)
LEMMA OutboundSafe ==
  ASSUME NEW v, SafeFor(v), NEW o, NEW w, Moves(o, inbound, w),
         Kept(v, o),
         Carried(w, v.involved), tm' = tm, remote' = remote
  PROVE  Safe'
  BY StepSafe DEF SafeFor

(* A step of the inbound alone.                                             *)
LEMMA InboundSafe ==
  ASSUME Safe, NEW i, NEW w, Moves(outbound, i, w),
         Correlates(i, outbound.involved),
         Carried(w, outbound.involved),
         tm' = tm, {"touched", "done"} \subseteq DOMAIN remote', remote'.done = remote.done,
         Touches(remote'.touched, outbound.involved)
  PROVE  Safe'
<1>1. Kept(outbound, outbound) BY KeptFull DEF Safe, SafeFor, Known, Full
<1> QED BY <1>1, StepSafe DEF Safe, SafeFor

(* An outbound of which enough is known.                                    *)
LEMMA SafeFull ==
  ASSUME NEW v, SafeFor(v)
  PROVE  Full(v)
  BY DEF SafeFor, Known, Full
-----------------------------------------------------------------------------
(* A connection to ask: one that is known, or one that is new to an active  *)
(* transaction.                                                             *)
LEMMA LookedIs ==
  ASSUME Safe, NEW r \in Request, NEW l \in Looked(outbound, r)
  PROVE  /\ l.trid = TridOf[r]
         /\ l.new => TridOf[r] # None
         /\ l.conn \in Connection /\ ~ l.new => Reported(outbound.involved, r, l.conn)
<1> DEFINE offers == outbound.lookup[ResourceOf[r]]
           branched == {c \in offers : [trid |-> TridOf[r], conn |-> c] \in outbound.branches}
           of(c, new) == [trid |-> TridOf[r], conn |-> c, new |-> new]
<1>1. CASE offers = {}
  <2>1. l = of(None, FALSE) BY <1>1 DEF Looked
  <2> QED BY <2>1, GatewayAssumption DEF GatewayAssumption
<1>2. CASE offers # {} /\ TridOf[r] = None
  <2>1. PICK c \in offers : l = of(c, FALSE) BY <1>2 DEF Looked
  <2> QED BY <1>2, <2>1 DEF Reported
<1>3. CASE offers # {} /\ TridOf[r] # None /\ branched # {}
  <2>1. PICK c \in branched : l = of(c, FALSE) BY <1>3 DEF Looked
  <2> QED BY <2>1 DEF Reported, Safe, SafeFor, Known
<1>4. CASE offers # {} /\ TridOf[r] # None /\ branched = {}
  <2>1. PICK c \in offers : l = of(c, TRUE) BY <1>4 DEF Looked
  <2> QED BY <1>4, <2>1
<1> QED BY <1>1, <1>2, <1>3, <1>4

(* A route to where the request works.                                      *)
LEMMA RouteKnown ==
  ASSUME NEW o, Known(o), NEW r, NEW c, NEW kind,
         r \in Request /\ c \in Connection => Reported(o.involved, r, c)
  PROVE  Known(Route(o, r, c, kind))
  BY DEF Known, Route

(* The correlations of the inbound know as much.                            *)
LEMMA KnowsMore ==
  ASSUME NEW I, NEW K, I \subseteq K
  PROVE  /\ \A w : Carried(w, I) => Carried(w, K)
         /\ \A i : Correlates(i, I) => Correlates(i, K)
         /\ \A T : Touches(T, I) => Touches(T, K)
         /\ \A r, c : Reported(I, r, c) => Reported(K, r, c)
<1>1. \A r, c : Reported(I, r, c) => Reported(K, r, c) BY DEF Reported
<1> QED BY <1>1 DEF Carried, Correlates, Touches

(* A branch more of a transaction that is active.                           *)
LEMMA DecidedActive ==
  ASSUME NEW T, NEW I, NEW A, NEW D, Decided(T, I, A, D), NEW b, T.stage[b.trid] = "active"
  PROVE  Decided(T, I \cup {b}, A, D)
  BY DEF Decided

(* The step that makes a branch reports it.                                 *)
LEMMA AskSafe ==
  ASSUME Invariant, Safe, Unlooped, NEW r \in Request, Ask(r)
  PROVE  Safe'
<1>1. PICK l \in Looked(outbound, r) :
        LET o == Branched(outbound, l)
            sent == IF KindOf[r] = "cast" THEN Involved(o, l)
                    ELSE Route(Involved(o, l), r, l.conn, KindOf[r])
        IN \/ /\ Refusals(r, l) = {}
              /\ \E s \in SendUp(sent, wire, l.conn, [type |-> "request", corr |-> r]) :
                   Moves(s[1], inbound, s[2])
           \/ \E code \in Refusals(r, l) :
                Moves(IF KindOf[r] = "cast" THEN o ELSE Reply(o, r, code), inbound, wire)
  BY Zenon DEF Ask
<1> DEFINE o == Branched(outbound, l)
           v == Involved(o, l)
           sent == IF KindOf[r] = "cast" THEN v ELSE Route(v, r, l.conn, KindOf[r])
           m == [type |-> "request", corr |-> r]
           b == [trid |-> l.trid, conn |-> l.conn]
<1>2. /\ l.trid = TridOf[r]
      /\ l.new => TridOf[r] # None
      /\ l.conn \in Connection /\ ~ l.new => Reported(outbound.involved, r, l.conn)
  BY LookedIs
<1>3. TridOf[r] # None => tm.stage[TridOf[r]] = "active" BY DEF Ask
<1>4. tm' = tm /\ remote' = remote BY DEF Ask, remoteVars
<1>5. WireOK(wire, tm.jobs, remote.done) BY DEF Invariant
<1>6. SafeFor(v) /\ (l.conn \in Connection => Reported(v.involved, r, l.conn))
  <2>1. CASE ~ l.new
    <3>1. v = outbound BY <2>1 DEF Branched, Involved
    <3> QED BY <1>2, <2>1, <3>1 DEF Safe
  <2>2. CASE l.new
    <3>1. /\ {"branches", "involved", "routes", "replies"} \subseteq DOMAIN v
          /\ v.branches = outbound.branches \cup {b} /\ v.involved = outbound.involved \cup {b}
          /\ v.routes = outbound.routes /\ v.replies = outbound.replies
      BY <2>2 DEF Branched, Involved, Safe, SafeFor, Known
    <3>2. PICK I, K : I = outbound.involved /\ K = v.involved OBVIOUS
    <3>3. /\ \A w : Carried(w, I) => Carried(w, K)
          /\ \A i : Correlates(i, I) => Correlates(i, K)
          /\ \A T : Touches(T, I) => Touches(T, K)
          /\ \A q, c : Reported(I, q, c) => Reported(K, q, c)
      BY <3>1, <3>2, KnowsMore
    <3>4. b.trid = l.trid /\ Reported({b}, r, l.conn) BY <1>2 DEF Reported
    <3> HIDE DEF v, b
    <3>5. K = I \cup {b} BY <3>1, <3>2
    <3>6. Decided(tm, K, v.replies, remote.done)
      <4>1. tm.stage[b.trid] = "active" BY <1>2, <1>3, <2>2, <3>4
      <4>2. Decided(tm, I, outbound.replies, remote.done) BY <3>2 DEF Safe, SafeFor
      <4>3. Decided(tm, I \cup {b}, outbound.replies, remote.done) BY <4>1, <4>2, DecidedActive
      <4> QED BY <3>1, <3>5, <4>3
    <3>7. IsFiniteSet(K)
      <4>1. IsFiniteSet(I) BY <3>2 DEF Safe, SafeFor, Known
      <4> QED BY <3>5, <4>1, FS_AddElement
    <3>8. Known(v) BY <3>1, <3>2, <3>3, <3>7 DEF Safe, SafeFor, Known
    <3>9. Reported(K, r, l.conn) BY <3>4, <3>5 DEF Reported
    <3> QED BY <3>1, <3>2, <3>3, <3>6, <3>8, <3>9 DEF Safe, SafeFor
  <2> QED BY <2>1, <2>2
<1>7. ASSUME NEW s \in SendUp(sent, wire, l.conn, m), Moves(s[1], inbound, s[2])
      PROVE  Safe'
  <2> HIDE DEF v
  <2>1. SafeFor(sent) /\ sent.involved = v.involved
    <3>1. Known(v) BY <1>6 DEF SafeFor
    <3>2. Known(sent) BY <1>6, <3>1, RouteKnown
    <3>3. sent.involved = v.involved /\ sent.replies = v.replies BY <3>1 DEF Route, Known
    <3> HIDE DEF sent
    <3> QED BY <1>6, <3>2, <3>3 DEF SafeFor
  <2>2. m.corr \in Request /\ l.conn \in Connection => Reported(sent.involved, m.corr, l.conn)
    BY <1>6, <2>1
  <2> HIDE DEF sent, m
  <2>3. Carried(wire, sent.involved) /\ Full(sent) BY <2>1, SafeFull DEF SafeFor
  <2>4. Kept(sent, s[1]) /\ Carried(s[2], sent.involved)
    BY <1>5, <1>7, <2>2, <2>3, SendUpKept
  <2> QED BY <1>4, <1>7, <2>1, <2>4, OutboundSafe
<1>8. ASSUME NEW code \in Refusals(r, l),
             Moves(IF KindOf[r] = "cast" THEN o ELSE Reply(o, r, code), inbound, wire)
      PROVE  Safe'
  <2> DEFINE p == IF KindOf[r] = "cast" THEN o ELSE Reply(o, r, code)
  <2>1. l.conn \in Connection => ~ l.new
    BY <1>2, <1>8, GatewayAssumption DEF Refusals, GatewayAssumption, Unlooped
  <2>2. SafeFor(o) /\ o.involved = outbound.involved
    <3>1. /\ {"branches", "involved", "routes", "replies"} \subseteq DOMAIN o
          /\ o.branches = outbound.branches \/ (l.new /\ o.branches = outbound.branches \cup {b})
          /\ o.involved = outbound.involved
          /\ o.routes = outbound.routes /\ o.replies = outbound.replies
      BY DEF Branched, Safe, SafeFor, Known
    <3>2. l.new => b.conn \notin Connection BY <2>1
    <3> HIDE DEF o, b
    <3> QED BY <3>1, <3>2 DEF Safe, SafeFor, Known
  <2> HIDE DEF o
  <2>3. Kept(o, p) BY <2>2, SafeFull, KeptFull, ReplyKept
  <2> HIDE DEF p
  <2>4. Carried(wire, o.involved) BY <2>2 DEF SafeFor
  <2> QED BY <1>4, <1>8, <2>2, <2>3, <2>4, OutboundSafe DEF p
<1> HIDE DEF sent, m, o, v
<1> QED BY <1>1, <1>7, <1>8 DEF sent, m, o, v

(* As much is known of what has kept it.                                    *)
LEMMA KeptSafe ==
  ASSUME NEW o, SafeFor(o), NEW p, Kept(o, p)
  PROVE  SafeFor(p)
<1>1. Known(p) BY KeptKnown DEF SafeFor
<1>2. p.involved = o.involved /\ o.replies \subseteq p.replies /\ Obeyed(p.replies) BY DEF Kept
<1>3. Decided(tm, p.involved, p.replies, remote.done) BY <1>2, DecidedGrows DEF SafeFor
<1> QED BY <1>1, <1>2, <1>3 DEF SafeFor

(* And with a route more.                                                   *)
LEMMA RouteSafe ==
  ASSUME NEW o, SafeFor(o), NEW r, NEW c, NEW kind,
         r \in Request /\ c \in Connection => Reported(o.involved, r, c)
  PROVE  SafeFor(Route(o, r, c, kind)) /\ Route(o, r, c, kind).involved = o.involved
<1>1. Known(Route(o, r, c, kind)) BY RouteKnown DEF SafeFor
<1>2. /\ Route(o, r, c, kind).involved = o.involved
      /\ Route(o, r, c, kind).replies = o.replies
  BY DEF Route, SafeFor, Known
<1> QED BY <1>1, <1>2 DEF SafeFor

(* A job is not a request.                                                  *)
LEMMA AskResourceSafe ==
  ASSUME Invariant, Safe, NEW j \in tm.jobs, AskResource(j)
  PROVE  Safe'
<1> DEFINE c == IF [trid |-> j.trid, conn |-> j.conn] \in outbound.branches THEN j.conn ELSE None
           m == [type |-> "resource", corr |-> j]
           I == outbound.involved
<1>1. WireOK(wire, tm.jobs, remote.done) BY DEF Invariant
<1>2. PICK s \in SendUp(outbound, wire, c, m) : Moves(Route(s[1], j, c, "resource"), inbound, s[2])
  BY DEF AskResource
<1>3. j \in Request => c \notin Connection
  BY GatewayAssumption DEF GatewayAssumption, Safe, SafeFor, Decided
<1>4. m.corr = j OBVIOUS
<1>5. tm' = tm /\ remote' = remote BY DEF AskResource, remoteVars
<1>6. Full(outbound) /\ Carried(wire, I) BY SafeFull DEF Safe, SafeFor
<1> HIDE DEF c, m
<1>7. Kept(outbound, s[1]) /\ Carried(s[2], I) BY <1>1, <1>2, <1>3, <1>4, <1>6, SendUpKept
<1>8. SafeFor(s[1]) /\ s[1].involved = I BY <1>7, KeptSafe DEF Safe, Kept
<1> DEFINE v == Route(s[1], j, c, "resource")
<1>9. SafeFor(v) /\ v.involved = I BY <1>3, <1>8, RouteSafe
<1> HIDE DEF v
<1>10. Kept(v, v) BY <1>9, SafeFull, KeptFull
<1>11. Moves(v, inbound, s[2]) BY <1>2 DEF v
<1> QED BY <1>5, <1>7, <1>9, <1>10, <1>11, OutboundSafe

(* The caller of a conversation follows its route.                          *)
LEMMA ConverseSafe ==
  ASSUME Invariant, Safe, NEW r \in Request, Converse(r)
  PROVE  Safe'
<1> DEFINE m(type) == [type |-> type, corr |-> r]
           I == outbound.involved
<1>1. WireOK(wire, tm.jobs, remote.done) BY DEF Invariant
<1>2. PICK p : /\ p \in outbound.routes /\ p.corr = r
               /\ \/ \E s \in SendUp(outbound, wire, p.conn, m("send")) : Moves(s[1], inbound, s[2])
                  \/ \E s \in SendUp([outbound EXCEPT !.routes = @ \ {p}], wire, p.conn, m("hangup")) :
                       Moves(s[1], inbound, s[2])
  BY Zenon DEF Converse
<1> DEFINE o == [outbound EXCEPT !.routes = @ \ {p}]
<1>3. SafeFor(outbound) /\ Full(outbound) /\ Kept(outbound, o) BY SafeFull, ConsumedKept DEF Safe
<1>4. SafeFor(o) /\ o.involved = I BY <1>3, KeptSafe DEF Kept
<1>5. p.conn \in Connection => Reported(I, r, p.conn) BY <1>2 DEF Safe, SafeFor, Known
<1>6. tm' = tm /\ remote' = remote BY DEF Converse, remoteVars
<1>7. m("send").corr = r /\ m("hangup").corr = r OBVIOUS
<1> HIDE DEF m, o
<1>8. ASSUME NEW z, SafeFor(z), z.involved = I, NEW n, n.corr = r,
             NEW s \in SendUp(z, wire, p.conn, n), Moves(s[1], inbound, s[2])
      PROVE  Safe'
  <2>1. Full(z) /\ Carried(wire, z.involved) BY <1>8, SafeFull DEF SafeFor
  <2>2. Kept(z, s[1]) /\ Carried(s[2], z.involved) BY <1>1, <1>5, <1>8, <2>1, SendUpKept
  <2> QED BY <1>6, <1>8, <2>2, OutboundSafe
<1> QED BY <1>2, <1>3, <1>4, <1>7, <1>8 DEF o

(* Discoveries.                                                             *)
LEMMA DiscoverSafe ==
  ASSUME Invariant, Safe, NEW d \in Discovery, Discover(d)
  PROVE  Safe'
<1> DEFINE I == outbound.involved
<1>1. WireOK(wire, tm.jobs, remote.done) BY DEF Invariant
<1>2. SafeFor(outbound) /\ Full(outbound) /\ Carried(wire, I) BY SafeFull DEF Safe, SafeFor
<1>3. Kept(outbound, [outbound EXCEPT !.told = @ \cup {d}]) BY <1>2 DEF Kept, Full
<1>4. \A S, e : Kept(outbound, Register(Lost(outbound, S), e))
  BY <1>2, LostKept, KeptFull, DiscoveryKept, KeptThen
<1>5. Kept(outbound, Aborted(outbound)) BY <1>2, LeavesKept
<1>6. \A T : Carried(Discovers(wire, d, T), I) BY <1>1, <1>2, DiscoversCarry
<1>7. tm' = tm /\ remote' = remote BY DEF Discover, remoteVars
<1>8. ASSUME NEW o, NEW w, Kept(outbound, o), Carried(w, I), Moves(o, inbound, w)
      PROVE  Safe'
  BY <1>2, <1>7, <1>8, OutboundSafe
<1> DEFINE S == IF d \in Rediscovery THEN (outbound.connections \ outbound.disconnecting) \cap Configured
                ELSE (outbound.connections \ outbound.disconnecting) \ OriginOf[d]
           whole == {c \in S : Whole(c)}
<1>9. \/ Moves([outbound EXCEPT !.told = @ \cup {d}], inbound, wire)
      \/ \E failed : Moves(Register(Lost(outbound, failed), Entry(d, S)), inbound, Discovers(wire, d, whole))
      \/ Moves(Aborted(outbound), inbound, Discovers(wire, d, whole))
  BY Zenon DEF Discover
<1> HIDE DEF S, whole
<1>10. CASE Moves([outbound EXCEPT !.told = @ \cup {d}], inbound, wire)
  BY <1>2, <1>3, <1>8, <1>10
<1>11. CASE \E failed : Moves(Register(Lost(outbound, failed), Entry(d, S)), inbound, Discovers(wire, d, whole))
  BY <1>4, <1>6, <1>8, <1>11
<1>12. CASE Moves(Aborted(outbound), inbound, Discovers(wire, d, whole)) BY <1>5, <1>6, <1>8, <1>12
<1> QED BY <1>9, <1>10, <1>11, <1>12
-----------------------------------------------------------------------------
(* An answer of the other domain adds nothing to branches and routes.       *)
LEMMA ReceivedKept ==
  ASSUME NEW o, NEW J, NEW D, Full(o), NEW m \in DownMessage(J, D), m.type # "disconnect"
  PROVE  Kept(o, Received(o, m))
<1>1. Kept(o, o) BY KeptFull
<1> DEFINE c == Consumed(o, m.corr)
<1>2. Kept(o, c) /\ Full(c) BY ConsumedKept, KeptFull
<1>3. CASE m.type = "reply"
  <2>1. m.corr \in Request BY <1>3 DEF DownMessage
  <2> DEFINE a == Reply(c, m.corr, m.code)
  <2> HIDE DEF c
  <2>2. Kept(c, a) BY <1>2, <2>1, ReplyKept
  <2>3. Kept(o, a) BY <1>2, <2>2, KeptThen
  <2> HIDE DEF a
  <2>4. \A r, S : Kept(o, [a EXCEPT !.lookup[r] = @ \ S]) BY <2>3 DEF Kept
  <2>5. Kept(o, Answered(o, m)) BY <1>1, <2>3, <2>4 DEF Answered, a, c
  <2> QED BY <1>3, <2>5 DEF Received
<1>4. CASE m.type \in {"connected", "ended"}
  <2>1. m.corr \in Request BY <1>4 DEF DownMessage
  <2>2. Kept(o, Reply(o, m.corr, m.code)) BY <2>1, ReplyKept
  <2> DEFINE a == Reply(c, m.corr, m.code)
  <2> HIDE DEF c
  <2>3. Kept(c, a) BY <1>2, <2>1, ReplyKept
  <2> HIDE DEF a
  <2>4. Kept(o, a) BY <1>2, <2>3, KeptThen
  <2>5. Kept(o, Conversed(o, m)) BY <1>1, <2>2, <2>4 DEF Conversed, a, c
  <2> QED BY <1>4, <2>5 DEF Received
<1>5. CASE m.type = "vote"
  <2>1. m.code \in {"ok", "lost"} \/ m.corr.phase = "prepare" BY <1>5 DEF DownMessage
  <2> DEFINE b == IF m.corr.phase = "prepare" THEN o
                  ELSE [o EXCEPT !.branches = @ \ {[trid |-> m.corr.trid, conn |-> m.corr.conn]}]
             d == Consumed(b, m.corr)
             e == Reply(d, m.corr, m.code)
  <2>2. Kept(o, b) BY <1>1 DEF Kept
  <2> HIDE DEF b
  <2>3. Kept(b, d) BY <2>2, KeptFull, ConsumedKept
  <2> HIDE DEF d
  <2>4. Kept(d, e) BY <2>1, <2>3, KeptFull, ReplyKept
  <2> HIDE DEF e
  <2>5. Kept(o, e) BY <2>2, <2>3, <2>4, KeptThen
  <2>6. Kept(o, Voted(o, m)) BY <2>2, <2>5 DEF Voted, b, d, e
  <2> QED BY <1>5, <2>6 DEF Received
<1>6. CASE m.type = "found" BY <1>6, DiscoveryKept DEF Received, Discovered
<1>7. m.type \in {"reply", "connected", "ended", "vote", "found"} BY DEF DownMessage
<1> QED BY <1>3, <1>4, <1>5, <1>6, <1>7

(* The outbound reads from a connection.                                    *)
LEMMA OutboundReadsSafe ==
  ASSUME Invariant, Safe, NEW c \in Connection, OutboundReads(c)
  PROVE  Safe'
<1> DEFINE D == remote.done
           J == tm.jobs
           I == outbound.involved
           m == Head(wire.down[c])
           w == [wire EXCEPT !.down[c] = Tail(@)]
           n == [type |-> "disconnected", corr |-> m.corr]
           p == Disconnected(outbound, {c})
<1>1. WireOK(wire, J, D) BY DEF Invariant
<1>2. SafeFor(outbound) /\ Full(outbound) /\ Carried(wire, I) BY SafeFull DEF Safe, SafeFor
<1>3. wire.down[c] # <<>> BY DEF OutboundReads
<1>4. m \in DownMessage(J, D) /\ WireOK(w, J, D) BY <1>1, <1>3, ReadsDown
<1>5. w.up = wire.up OBVIOUS
<1>6. tm' = tm /\ remote' = remote BY DEF OutboundReads, localVars, remoteVars
<1>7. \/ m.type # "disconnect" /\ Moves(Received(outbound, m), inbound, w)
      \/ /\ m.type = "disconnect"
         /\ \E s \in SendUp(p, w, c, n) : Moves(s[1], inbound, s[2])
  BY DEF OutboundReads
<1>8. m.type = "disconnect" => n.corr \notin Request
  <2>1. m.type = "disconnect" => m.corr \in Leaving BY <1>4 DEF DownMessage
  <2>2. Leaving \cap Request = {} BY GatewayAssumption DEF GatewayAssumption, Leaving
  <2> QED BY <2>1, <2>2
<1>9. Kept(outbound, p) BY <1>2, LeavesKept
<1> HIDE DEF D, J, m, w, n, p
<1>10. Carried(w, I) BY <1>2, <1>5, DownCarries
<1>11. ASSUME NEW o, NEW v, Kept(outbound, o), Carried(v, I), Moves(o, inbound, v)
       PROVE  Safe'
  BY <1>2, <1>6, <1>11, OutboundSafe
<1>12. CASE m.type # "disconnect" /\ Moves(Received(outbound, m), inbound, w)
  BY <1>2, <1>4, <1>10, <1>11, <1>12, ReceivedKept
<1>13. CASE /\ m.type = "disconnect"
            /\ \E s \in SendUp(p, w, c, n) : Moves(s[1], inbound, s[2])
  <2>1. PICK s \in SendUp(p, w, c, n) : Moves(s[1], inbound, s[2]) BY <1>13
  <2>2. Full(p) BY <1>9, KeptFull
  <2>3. Kept(p, s[1]) /\ Carried(s[2], I) BY <1>4, <1>8, <1>10, <1>13, <2>2, SendUpKept
  <2>4. Kept(outbound, s[1]) BY <1>9, <2>3, KeptThen
  <2> QED BY <1>11, <2>1, <2>3, <2>4
<1> QED BY <1>7, <1>12, <1>13

(* The outbound notices a loss, is idle, shuts down or ends.                *)
LEMMA OutboundLeavesSafe ==
  ASSUME Invariant, Safe,
         \/ \E c \in Connection : OutboundLoses(c)
         \/ OutboundIdle \/ OutboundShutdown \/ OutboundEnds
  PROVE  Safe'
<1>1. /\ SafeFor(outbound) /\ Full(outbound) /\ Carried(wire, outbound.involved)
  BY SafeFull DEF Safe, SafeFor
<1>2. \A S, T : Kept(outbound, Reconnect(Lost(outbound, S), T))
  BY <1>1, LostKept, KeptFull, ConsumedKept, KeptThen
<1>3. Kept(outbound, [Disconnected(outbound, outbound.connections) EXCEPT
                        !.level = "shutdown", !.unconnected = {}])
  <2> DEFINE o == Disconnected(outbound, outbound.connections)
  <2>1. Kept(outbound, o) BY <1>1, LeavesKept
  <2> HIDE DEF o
  <2>2. Kept(outbound, [o EXCEPT !.level = "shutdown", !.unconnected = {}]) BY <2>1 DEF Kept
  <2> QED BY <2>2 DEF o
<1>4. Kept(outbound, [outbound EXCEPT !.level = "ended", !.connections = {}, !.disconnecting = {}])
  BY <1>1 DEF Kept, Full
<1>5. tm' = tm /\ remote' = remote
  BY DEF OutboundLoses, OutboundIdle, OutboundShutdown, OutboundEnds, localVars, remoteVars
<1>6. ASSUME NEW o, Kept(outbound, o), Moves(o, inbound, wire)
      PROVE  Safe'
  BY <1>1, <1>5, <1>6, OutboundSafe
<1>7. CASE \E c \in Connection : OutboundLoses(c) BY <1>2, <1>6, <1>7 DEF OutboundLoses
<1>8. CASE OutboundIdle BY <1>2, <1>6, <1>8 DEF OutboundIdle
<1>9. CASE OutboundShutdown BY <1>3, <1>6, <1>9 DEF OutboundShutdown
<1>10. CASE OutboundEnds BY <1>4, <1>6, <1>10 DEF OutboundEnds
<1> QED BY <1>7, <1>8, <1>9, <1>10
-----------------------------------------------------------------------------
(* Connections of the inbound are lost, or all of them.                     *)
LEMMA InboundLostCorrelates ==
  ASSUME NEW I, NEW i, Correlates(i, I)
  PROVE  /\ \A S : Correlates(InboundLost(i, S), I)
         /\ Correlates(InboundAborted(i), I)
<1>1. \A j, S : Correlates(j, I) => Correlates(InboundLost(j, S), I)
  BY DEF Correlates, InboundLost
<1>2. Correlates([i EXCEPT !.level = "error"], I) BY DEF Correlates
<1> QED BY <1>1, <1>2 DEF InboundAborted

(* An answer takes its correlation with it.                                 *)
LEMMA SendDownCorrelates ==
  ASSUME NEW I, NEW i, Correlates(i, I), NEW w, NEW J, NEW D, WireOK(w, J, D), NEW m
  PROVE  Correlates(SendDown(i, w, m)[1], I) /\ SendDown(i, w, m)[2].up = w.up
<1>1. SendDown(i, w, m)[1] = [i EXCEPT !.correlations = @ \ {y \in i.correlations : y.corr = m.corr}]
  BY DEF SendDown
<1>2. PICK down : SendDown(i, w, m)[2] = [w EXCEPT !.down = down] BY DEF SendDown
<1>3. SendDown(i, w, m)[2].up = w.up BY <1>2 DEF WireOK
<1> QED BY <1>1, <1>3 DEF Correlates

(* The handler of a message adds no correlation.                            *)
LEMMA TookCorrelates ==
  ASSUME NEW I, Correlates(inbound, I), NEW J, NEW m \in UpMessage(J), NEW c
  PROVE  Correlates(Took(m, c).to, I)
<1>1. m.type \in {"request", "resource", "discover", "send", "hangup", "disconnected"}
  BY DEF UpMessage
<1>2. CASE m.type = "request"
  <2>1. Took(m, c).to = inbound \/ Took(m, c).to = [inbound EXCEPT !.requests = @ \cup {m.corr}]
    BY <1>2, Zenon DEF Took
  <2> QED BY <2>1 DEF Correlates
<1>3. CASE m.type \in {"resource", "discover", "send"}
  <2>1. Took(m, c).to = inbound BY <1>3 DEF Took
  <2> QED BY <2>1
<1>4. CASE m.type = "hangup"
  <2>1. Took(m, c).to = [inbound EXCEPT !.conversations = {x \in @ : x.corr # m.corr}]
    BY <1>4 DEF Took
  <2> QED BY <2>1 DEF Correlates
<1>5. CASE m.type = "disconnected"
  <2> DEFINE i == [inbound EXCEPT !.correlations = {x \in @ : x.corr # m.corr}]
  <2>1. Correlates(i, I) BY DEF Correlates
  <2>2. \/ Took(m, c).to = i \/ Took(m, c).to = InboundLost(i, {c})
        \/ Took(m, c).to = [i EXCEPT !.disconnects = @ \cup {c}]
    BY <1>5 DEF Took
  <2> HIDE DEF i
  <2>3. Correlates([i EXCEPT !.disconnects = @ \cup {c}], I) BY <2>1 DEF Correlates
  <2> QED BY <2>1, <2>2, <2>3, InboundLostCorrelates
<1> QED BY <1>1, <1>2, <1>3, <1>4, <1>5

(* The dispatch correlates what it reads with the connection it came from.  *)
LEMMA InboundReadsSafe ==
  ASSUME Invariant, Safe, NEW c \in Connection, InboundReads(c)
  PROVE  Safe'
<1> DEFINE I == outbound.involved
           m == Head(wire.up[c])
           w == [wire EXCEPT !.up[c] = Tail(@)]
           i == Took(m, c).to
           j == Correlated(i, m.corr, c)
<1>1. WireOK(wire, tm.jobs, remote.done) BY DEF Invariant
<1>2. Carried(wire, I) /\ Correlates(inbound, I) BY DEF Safe, SafeFor
<1>3. wire.up[c] # <<>> BY DEF InboundReads
<1>4. m \in UpMessage(tm.jobs) BY <1>1, <1>3, ReadsUp
<1>5. Moves(outbound, j, w) BY DEF InboundReads
<1>6. /\ {"touched", "done"} \subseteq DOMAIN remote' /\ remote'.done = remote.done
      /\ remote'.touched = remote.touched
  BY DEF InboundReads, Safe, SafeFor
<1>7. tm' = tm BY DEF InboundReads, localVars
<1>8. m.corr \in Request => Reported(I, m.corr, c) BY <1>1, <1>2, <1>3, ReadCarries
<1>9. Carried(w, I) BY <1>1, <1>2, <1>3, ReadCarries
<1> HIDE DEF m, w
<1>10. Correlates(i, I) BY <1>2, <1>4, TookCorrelates
<1> HIDE DEF i
<1>11. Correlates(j, I) BY <1>8, <1>10 DEF Correlates, Correlated
<1> HIDE DEF j
<1>12. Touches(remote'.touched, I) BY <1>6 DEF Safe, SafeFor
<1> QED BY <1>4, <1>5, <1>6, <1>7, <1>9, <1>11, <1>12, InboundSafe

(* The inbound notices a loss, or is shut down.                             *)
LEMMA InboundLosesSafe ==
  ASSUME Invariant, Safe, NEW c \in Connection, InboundLoses(c)
  PROVE  Safe'
<1>1. Moves(outbound, InboundLost(inbound, {c}), wire) BY DEF InboundLoses
<1>2. tm' = tm /\ remote' = remote BY DEF InboundLoses, localVars
<1>3. Correlates(InboundLost(inbound, {c}), outbound.involved)
  BY InboundLostCorrelates DEF Safe, SafeFor
<1> QED BY <1>1, <1>2, <1>3, InboundSafe DEF Invariant, Safe, SafeFor

(* What the inbound asks of the connections then is no request.             *)
LEMMA InboundShutdownSafe ==
  ASSUME Invariant, Safe, InboundShutdown
  PROVE  Safe'
<1> DEFINE I == outbound.involved
           h(S) == [inbound EXCEPT !.level = "shutdown",
                      !.correlations = @ \cup {[corr |-> DisconnectOf(c), conn |-> c] : c \in S}]
<1>1. PICK failed, down :
        Moves(outbound, InboundLost(h(inbound.connections \ failed), failed), [wire EXCEPT !.down = down])
  BY Zenon DEF InboundShutdown
<1> DEFINE open == inbound.connections \ failed
           g == h(open)
           w == [wire EXCEPT !.down = down]
<1>2. tm' = tm /\ remote' = remote BY DEF InboundShutdown, localVars
<1>3. Correlates(inbound, I) /\ Carried(wire, I) BY DEF Safe, SafeFor
<1>4. \A c \in open : DisconnectOf(c) \notin Request
  <2>1. Leaving \cap Request = {} BY GatewayAssumption DEF GatewayAssumption, Leaving
  <2>2. \A c \in Connection : DisconnectOf(c) \in Leaving BY DEF DisconnectOf, Leaving
  <2>3. open \subseteq Connection BY <1>3 DEF Correlates
  <2> QED BY <2>1, <2>2, <2>3
<1> HIDE DEF open
<1>5. Correlates(g, I) BY <1>3, <1>4 DEF Correlates
<1>6. Carried(w, I) BY <1>3 DEF Carried, Invariant, WireOK
<1> HIDE DEF g
<1>7. Correlates(InboundLost(g, failed), I) BY <1>5, InboundLostCorrelates
<1> HIDE DEF w
<1>8. Moves(outbound, InboundLost(g, failed), w) BY <1>1 DEF w, g, open
<1> QED BY <1>2, <1>6, <1>7, <1>8, InboundSafe DEF Safe, SafeFor

(* An answer of the other domain.                                           *)
LEMMA AnswerSafe ==
  ASSUME Invariant, Safe, NEW m, NEW i, NEW w,
         i = SendDown(inbound, wire, m)[1], w = SendDown(inbound, wire, m)[2]
  PROVE  Correlates(i, outbound.involved) /\ Carried(w, outbound.involved)
<1>1. /\ Correlates(inbound, outbound.involved) /\ Carried(wire, outbound.involved)
      /\ WireOK(wire, tm.jobs, remote.done)
  BY DEF Safe, SafeFor, Invariant
<1>2. Correlates(i, outbound.involved) /\ w.up = wire.up BY <1>1, SendDownCorrelates
<1> QED BY <1>1, <1>2, DownCarries

(* A refusal is an answer.                                                  *)
LEMMA RefuseSafe ==
  ASSUME Invariant, Safe, NEW h, Correlates(h, outbound.involved), NEW r, NEW code
  PROVE  /\ Correlates(Refuse(h, r, code)[1], outbound.involved)
         /\ Carried(Refuse(h, r, code)[2], outbound.involved)
<1>1. WireOK(wire, tm.jobs, remote.done) /\ Carried(wire, outbound.involved)
  BY DEF Safe, SafeFor, Invariant
<1>2. PICK m : Refuse(h, r, code) = SendDown(h, wire, m) BY DEF Refuse
<1>3. /\ Correlates(SendDown(h, wire, m)[1], outbound.involved)
      /\ SendDown(h, wire, m)[2].up = wire.up
  BY <1>1, SendDownCorrelates
<1> QED BY <1>1, <1>2, <1>3, DownCarries

(* The callee ends a conversation.                                          *)
LEMMA EndConversationSafe ==
  ASSUME Invariant, Safe, NEW r \in Request, EndConversation(r)
  PROVE  Safe'
<1> DEFINE I == outbound.involved
           talks == {x \in inbound.conversations : x.corr = r}
           i == [inbound EXCEPT !.conversations = @ \ talks]
<1>1. PICK down : \/ Moves(outbound, i, [wire EXCEPT !.down = down])
                  \/ Moves(outbound, InboundAborted(inbound), wire)
  BY Zenon DEF EndConversation
<1>2. Correlates(inbound, I) /\ Carried(wire, I) BY DEF Safe, SafeFor
<1>3. Correlates(i, I) BY <1>2 DEF Correlates
<1>4. Correlates(InboundAborted(inbound), I) BY <1>2, InboundLostCorrelates
<1>5. Carried([wire EXCEPT !.down = down], I) BY <1>2 DEF Carried, Invariant, WireOK
<1>6. /\ remote'.done = remote.done /\ remote'.touched = remote.touched
      /\ {"touched", "done"} \subseteq DOMAIN remote' /\ tm' = tm
  BY DEF EndConversation, Safe, SafeFor, localVars
<1>7. Touches(remote'.touched, I) BY <1>6 DEF Safe, SafeFor
<1> HIDE DEF i
<1> QED BY <1>1, <1>2, <1>3, <1>4, <1>5, <1>6, <1>7, InboundSafe

(* A request works over the connection of its correlation.                  *)
LEMMA LookupReplySafe ==
  ASSUME Invariant, Safe, NEW l \in lookups, LookupReply(l)
  PROVE  Safe'
<1> DEFINE I == outbound.involved
           i == [inbound EXCEPT !.requests = @ \ {l.corr}]
           s(code) == Refuse(i, l.corr, code)
           branches == {[trid |-> TridOf[l.corr], conn |-> x.conn] :
                          x \in {y \in inbound.correlations : y.corr = l.corr}}
<1>1. l.corr \in Request BY DEF Invariant, LookupState
<1>2. Correlates(inbound, I) /\ Carried(wire, I) BY DEF Safe, SafeFor
<1>3. Correlates(i, I) BY <1>2 DEF Correlates
<1>4. tm' = tm BY DEF LookupReply, localVars
<1>5. \/ /\ Moves(outbound, i, wire)
         /\ remote' = [remote EXCEPT !.busy = @ \cup {l.corr}, !.touched = @ \cup branches]
      \/ Moves(outbound, s("system")[1], s("system")[2]) /\ UNCHANGED remote
      \/ Moves(outbound, s("no_entry")[1], s("no_entry")[2]) /\ UNCHANGED remote
      \/ Moves(outbound, InboundAborted(i), wire) /\ UNCHANGED remote
  BY Zenon DEF LookupReply
<1>6. \A b \in branches : b.trid \in Trid => b \in I /\ b.conn \in Connection
  <2>1. SUFFICES ASSUME NEW x \in inbound.correlations, x.corr = l.corr, TridOf[l.corr] \in Trid
        PROVE  [trid |-> TridOf[l.corr], conn |-> x.conn] \in I /\ x.conn \in Connection
    OBVIOUS
  <2>2. TridOf[l.corr] # None BY <2>1, GatewayAssumption DEF GatewayAssumption
  <2> QED BY <1>1, <1>2, <2>1, <2>2 DEF Correlates, Reported
<1>7. /\ remote'.done = remote.done /\ {"touched", "done"} \subseteq DOMAIN remote'
      /\ remote'.touched = remote.touched \/ remote'.touched = remote.touched \cup branches
  <2> HIDE DEF branches, i, s
  <2> QED BY <1>5 DEF Safe, SafeFor
<1> HIDE DEF branches
<1>8. Touches(remote'.touched, I) BY <1>6, <1>7 DEF Touches, Safe, SafeFor
<1> HIDE DEF i
<1>9. \A code : Correlates(s(code)[1], I) /\ Carried(s(code)[2], I) BY <1>3, RefuseSafe
<1>10. Correlates(InboundAborted(i), I) BY <1>3, InboundLostCorrelates
<1> HIDE DEF s
<1>11. PICK j, w : Moves(outbound, j, w) /\ Correlates(j, I) /\ Carried(w, I)
  BY <1>2, <1>3, <1>5, <1>9, <1>10, Zenon
<1> QED BY <1>4, <1>7, <1>8, <1>11, InboundSafe

(* A server or a queue answers.                                             *)
LEMMA ServeSafe ==
  ASSUME Invariant, Safe, NEW r \in Request, Serve(r)
  PROVE  Safe'
<1> DEFINE I == outbound.involved
           s == Refuse(inbound, r, "ok")
<1>1. Correlates(inbound, I) /\ Carried(wire, I) BY DEF Safe, SafeFor
<1>2. Correlates(s[1], I) /\ Carried(s[2], I) BY <1>1, RefuseSafe
<1>3. PICK talks : \/ Moves(outbound, inbound, wire)
                   \/ Moves(outbound, [s[1] EXCEPT !.conversations = talks], s[2])
  BY Zenon DEF Serve
<1>4. /\ remote'.done = remote.done /\ remote'.touched = remote.touched
      /\ {"touched", "done"} \subseteq DOMAIN remote' /\ tm' = tm
  BY DEF Serve, Safe, SafeFor, localVars
<1>5. Touches(remote'.touched, I) BY <1>4 DEF Safe, SafeFor
<1> HIDE DEF s
<1>6. Correlates([s[1] EXCEPT !.conversations = talks], I) BY <1>2 DEF Correlates
<1> QED BY <1>1, <1>2, <1>3, <1>4, <1>5, <1>6, InboundSafe

(* The discovery of the other domain answers.                               *)
LEMMA FindSafe ==
  ASSUME Invariant, Safe, NEW d \in Asked, Find(d)
  PROVE  Safe'
<1>1. PICK m : Moves(outbound, SendDown(inbound, wire, m)[1], SendDown(inbound, wire, m)[2])
  BY DEF Find
<1>2. /\ Correlates(SendDown(inbound, wire, m)[1], outbound.involved)
      /\ Carried(SendDown(inbound, wire, m)[2], outbound.involved)
  BY AnswerSafe
<1>3. /\ remote'.done = remote.done /\ remote'.touched = remote.touched
      /\ {"touched", "done"} \subseteq DOMAIN remote' /\ tm' = tm
  BY DEF Find, Safe, SafeFor, localVars
<1> QED BY <1>1, <1>2, <1>3, InboundSafe DEF Safe, SafeFor

(* The transaction manager there does a job it was asked for.               *)
LEMMA VoteOnSafe ==
  ASSUME Invariant, Safe, NEW j \in tm.jobs, VoteOn(j)
  PROVE  Safe'
<1> DEFINE I == outbound.involved
<1>1. PICK m : Moves(outbound, SendDown(inbound, wire, m)[1], SendDown(inbound, wire, m)[2])
  BY DEF VoteOn
<1>2. /\ Correlates(SendDown(inbound, wire, m)[1], I)
      /\ Carried(SendDown(inbound, wire, m)[2], I)
  BY AnswerSafe
<1>3. PICK busy, done : /\ done = remote.done \/ done = remote.done \cup {j}
                        /\ remote' = [remote EXCEPT !.busy = busy, !.done = done]
  BY DEF VoteOn
<1>4. /\ {"touched", "done"} \subseteq DOMAIN remote' /\ remote'.touched = remote.touched
      /\ remote.done \subseteq remote'.done /\ remote'.done \subseteq tm.jobs
  BY <1>3 DEF Safe, SafeFor
<1>5. tm' = tm BY DEF VoteOn, localVars
<1>6. Kept(outbound, outbound) BY SafeFull, KeptFull DEF Safe
<1> QED BY <1>1, <1>2, <1>4, <1>5, <1>6, StepSafe DEF Safe, SafeFor

(* A lookup is answered.                                                    *)
LEMMA AnswerLookupSafe ==
  ASSUME Safe, NEW l \in lookups, AnswerLookup(l)
  PROVE  Safe'
<1>1. UNCHANGED <<tm, remote, wire, outbound, inbound>> BY DEF AnswerLookup, localVars
<1> QED BY <1>1 DEF Safe, SafeFor, Carried, Correlates, Touches, Decided, Obeyed, Known

(* A connection is made.                                                    *)
LEMMA ConnectSafe ==
  ASSUME Invariant, Safe, NEW c \in Connection, Connect(c)
  PROVE  Safe'
<1> DEFINE I == outbound.involved
           o == [outbound EXCEPT !.connections = @ \cup {c}, !.unconnected = @ \ {c}]
           i == [inbound EXCEPT !.connections = @ \cup {c}]
           p == Register(o, Entry(c, {c}))
           w == Discovers(wire, c, {c})
<1>1. SafeFor(outbound) /\ Full(outbound) /\ Carried(wire, I) /\ Correlates(inbound, I)
  BY SafeFull DEF Safe, SafeFor
<1>2. Become(p, i, w) \/ Become(o, i, wire) BY Zenon DEF Connect
<1>3. Kept(outbound, o) BY <1>1 DEF Kept, Full
<1>4. Correlates(i, I) BY <1>1 DEF Correlates
<1>5. Carried(w, I) BY <1>1, DiscoversCarry DEF Invariant
<1> HIDE DEF o, i, w
<1>6. Kept(outbound, p) BY <1>3, KeptFull, DiscoveryKept, KeptThen
<1>7. tm' = tm /\ remote' = remote BY DEF Connect, localVars, remoteVars
<1> HIDE DEF p
<1> QED BY <1>1, <1>2, <1>3, <1>4, <1>5, <1>6, <1>7, StepSafe DEF SafeFor

(* A set of which the cardinality is below two has one element at most.     *)
LEMMA FewAreOne ==
  ASSUME NEW S, IsFiniteSet(S), Cardinality(S) < 2, NEW x \in S, NEW y \in S
  PROVE  x = y
<1>1. SUFFICES ASSUME x # y PROVE FALSE OBVIOUS
<1>2. {x, y} \subseteq S OBVIOUS
<1>3. Cardinality({x, y}) <= Cardinality(S) /\ Cardinality(S) \in Nat
  BY <1>2, FS_Subset, FS_CardinalityType
<1>4. Cardinality({x}) = 1 /\ IsFiniteSet({x}) BY FS_Singleton
<1>5. Cardinality({x} \cup {y}) = 2 BY <1>1, <1>4, FS_AddElement
<1>6. {x, y} = {x} \cup {y} OBVIOUS
<1> QED BY <1>3, <1>5, <1>6

(* The jobs of a transaction are one for each branch that is known.         *)
LEMMA JobsAre ==
  ASSUME Safe, NEW t \in Trid, NEW phase \in Phase
  PROVE  /\ IsFiniteSet(JobsOf(t, phase))
         /\ \A j \in JobsOf(t, phase) :
              /\ j.trid = t /\ j.phase = phase
              /\ j = [trid |-> j.trid, conn |-> j.conn, phase |-> j.phase]
              /\ j.conn \in Connection => j \in Job
         /\ \A b \in outbound.involved : b.trid = t =>
              [trid |-> t, conn |-> b.conn, phase |-> phase] \in JobsOf(t, phase)
<1> DEFINE S == {x \in outbound.involved : x.trid = t}
<1>1. IsFiniteSet(S)
  <2>1. S \subseteq outbound.involved OBVIOUS
  <2> QED BY <2>1, FS_Subset DEF Safe, SafeFor, Known
<1>2. JobsOf(t, phase) = {[trid |-> t, conn |-> b.conn, phase |-> phase] : b \in S} BY DEF JobsOf
<1>3. IsFiniteSet(JobsOf(t, phase))
  <2> DEFINE f == [b \in S |-> [trid |-> t, conn |-> b.conn, phase |-> phase]]
  <2>1. f \in Surjection(S, JobsOf(t, phase)) BY <1>2 DEF Surjection
  <2> HIDE DEF f
  <2> QED BY <1>1, <2>1, FS_Surjection
<1> QED BY <1>2, <1>3 DEF Job

(* A commit is asked of one branch alone, or of those that have prepared.   *)
LEMMA TmAskSafe ==
  ASSUME Invariant, Safe, NEW t \in Trid, NEW phase \in Phase, TmAsk(t, phase)
  PROVE  Safe'
<1> DEFINE I == outbound.involved
           A == outbound.replies
           D == remote.done
           job(b, p) == [trid |-> t, conn |-> b.conn, phase |-> p]
<1>1. UNCHANGED <<outbound, inbound, wire, remote>> BY DEF TmAsk, remoteVars
<1>2. Decided(tm, I, A, D) /\ D \subseteq tm.jobs BY DEF Safe, SafeFor
<1>3. PICK T : T = tm' OBVIOUS
<1>4. /\ T = [stage |-> [tm.stage EXCEPT ![t] = phase], jobs |-> tm.jobs \cup JobsOf(t, phase)]
      /\ tm.stage[t] \in {"active", "prepare"}
  BY <1>3 DEF TmAsk
<1>5. /\ T.jobs = tm.jobs \cup JobsOf(t, phase) /\ {"stage", "jobs"} \subseteq DOMAIN T
      /\ T.stage \in [Trid -> {"active", "prepare", "commit", "rollback", "committed", "rolledback"}]
      /\ T.stage[t] = phase /\ phase \notin {"active", "committed", "rolledback"}
      /\ \A u \in Trid : u # t => T.stage[u] = tm.stage[u]
  BY <1>2, <1>4 DEF Decided, Phase
<1>6. \A j \in JobsOf(t, phase) :
        /\ j.trid = t /\ j.phase = phase
        /\ j = [trid |-> j.trid, conn |-> j.conn, phase |-> j.phase]
        /\ j.conn \in Connection => j \in Job
  BY JobsAre
<1>7. \A j \in tm.jobs : j.phase = "commit" => j.trid # t
  BY <1>2, <1>4 DEF Decided
<1>8. ASSUME phase = "commit", NEW j \in JobsOf(t, phase),
             NEW b \in I, b.trid = t, b.conn # j.conn, b.conn \in Connection
      PROVE  job(b, "prepare") \in D
  <2>1. CASE tm.stage[t] = "active"
    <3>1. Cardinality(JobsOf(t, phase)) < 2 BY <1>8, <2>1 DEF TmAsk
    <3>2. job(b, phase) \in JobsOf(t, phase) /\ IsFiniteSet(JobsOf(t, phase)) BY <1>8, JobsAre
    <3>3. job(b, phase) = j BY <1>8, <3>1, <3>2, FewAreOne
    <3> QED BY <1>8, <3>3
  <2>2. CASE tm.stage[t] = "prepare"
    <3>1. /\ \A k \in JobsOf(t, "prepare") : RepliesTo(k) # {}
          /\ \A k \in JobsOf(t, "prepare") : \A x \in RepliesTo(k) : x.code = "ok"
      BY <1>8, <2>2 DEF TmAsk
    <3>2. "prepare" \in Phase BY DEF Phase
    <3>3. PICK k : k = job(b, "prepare") OBVIOUS
    <3>4. k \in JobsOf(t, "prepare") BY <1>8, <3>2, <3>3, JobsAre
    <3>5. k \in Job BY <1>8, <3>3 DEF Job, Phase
    <3>6. PICK x \in A : x.corr = k /\ x.code = "ok" BY <3>1, <3>4 DEF RepliesTo
    <3>7. k \in D BY <3>5, <3>6, GatewayAssumption DEF GatewayAssumption, Invariant, Truthful
    <3> QED BY <3>3, <3>7
  <2> QED BY <1>4, <2>1, <2>2
<1>9. ASSUME NEW j \in T.jobs
      PROVE  /\ j.trid \in Trid /\ T.stage[j.trid] # "active"
             /\ j = [trid |-> j.trid, conn |-> j.conn, phase |-> j.phase]
             /\ j.conn \in Connection => j \in Job
  BY <1>2, <1>5, <1>6, <1>9 DEF Decided
<1>10. ASSUME NEW j \in T.jobs, j.phase = "commit"
       PROVE  /\ T.stage[j.trid] \in {"commit", "committed"}
              /\ \A b \in I : b.trid = j.trid /\ b.conn # j.conn /\ b.conn \in Connection =>
                   [trid |-> j.trid, conn |-> b.conn, phase |-> "prepare"] \in D
  <2>1. CASE j \in tm.jobs
    <3>1. j.trid # t /\ j.trid \in Trid BY <1>2, <1>7, <1>10, <2>1 DEF Decided
    <3>2. T.stage[j.trid] = tm.stage[j.trid] BY <1>5, <3>1
    <3> QED BY <1>2, <1>10, <2>1, <3>2 DEF Decided
  <2>2. CASE j \in JobsOf(t, phase)
    <3>1. j.trid = t /\ phase = "commit" BY <1>6, <1>10, <2>2
    <3> QED BY <1>5, <1>8, <2>2, <3>1
  <2> QED BY <1>5, <2>1, <2>2
<1>11. ASSUME NEW u \in Trid, NEW b \in I, b.trid = u
       PROVE  /\ T.stage[u] = "committed" => Told(A, [trid |-> u, conn |-> b.conn, phase |-> "commit"])
              /\ T.stage[u] = "rolledback" => Told(A, [trid |-> u, conn |-> b.conn, phase |-> "rollback"])
  BY <1>2, <1>5, <1>11 DEF Decided
<1>12. Decided(T, I, A, D) BY <1>5, <1>9, <1>10, <1>11 DEF Decided
<1>13. D \subseteq T.jobs BY <1>2, <1>5
<1>14. /\ Known(outbound) /\ Carried(wire, I) /\ Correlates(inbound, I)
       /\ {"touched", "done"} \subseteq DOMAIN remote /\ Touches(remote.touched, I) /\ Obeyed(A)
  BY DEF Safe, SafeFor
<1> QED BY <1>1, <1>3, <1>12, <1>13, <1>14 DEF Safe, SafeFor

(* The end of a transaction comes when all have answered.                   *)
LEMMA TmEndsSafe ==
  ASSUME Safe, NEW t \in Trid, TmEnds(t)
  PROVE  Safe'
<1> DEFINE I == outbound.involved
           A == outbound.replies
           D == remote.done
<1>1. UNCHANGED <<outbound, inbound, wire, remote>> BY DEF TmEnds, remoteVars
<1>2. Decided(tm, I, A, D) /\ D \subseteq tm.jobs BY DEF Safe, SafeFor
<1>3. PICK T, end, was : /\ T = tm' /\ was = tm.stage[t]
                         /\ end = IF was = "commit" THEN "committed" ELSE "rolledback"
  OBVIOUS
<1>4. T = [tm EXCEPT !.stage[t] = end] /\ was \in {"commit", "rollback"} BY <1>3 DEF TmEnds
<1>5. /\ T.jobs = tm.jobs /\ {"stage", "jobs"} \subseteq DOMAIN T
      /\ T.stage \in [Trid -> {"active", "prepare", "commit", "rollback", "committed", "rolledback"}]
      /\ T.stage[t] = end
      /\ \A u \in Trid : u # t => T.stage[u] = tm.stage[u]
  BY <1>2, <1>3, <1>4 DEF Decided
<1>6. \A b \in I : b.trid = t => Told(A, [trid |-> t, conn |-> b.conn, phase |-> was])
  <2>1. \A j \in JobsOf(t, was) : RepliesTo(j) # {} BY <1>3, <1>4 DEF TmEnds
  <2>2. was \in Phase BY <1>4 DEF Phase
  <2>3. \A b \in I : b.trid = t => [trid |-> t, conn |-> b.conn, phase |-> was] \in JobsOf(t, was)
    BY <2>2, JobsAre
  <2> QED BY <2>1, <2>3 DEF Told, RepliesTo
<1>7. ASSUME NEW u \in Trid, NEW b \in I, b.trid = u
      PROVE  /\ T.stage[u] = "committed" => Told(A, [trid |-> u, conn |-> b.conn, phase |-> "commit"])
             /\ T.stage[u] = "rolledback" => Told(A, [trid |-> u, conn |-> b.conn, phase |-> "rollback"])
  <2>1. CASE u = t BY <1>3, <1>4, <1>5, <1>6, <1>7, <2>1
  <2>2. CASE u # t BY <1>2, <1>5, <1>7, <2>2 DEF Decided
  <2> QED BY <2>1, <2>2
<1>8. ASSUME NEW j \in T.jobs
      PROVE  /\ j.trid \in Trid /\ T.stage[j.trid] # "active"
             /\ j = [trid |-> j.trid, conn |-> j.conn, phase |-> j.phase]
             /\ j.conn \in Connection => j \in Job
             /\ j.phase = "commit" => T.stage[j.trid] \in {"commit", "committed"}
  BY <1>2, <1>3, <1>4, <1>5, <1>8 DEF Decided
<1>9. Decided(T, I, A, D) BY <1>2, <1>5, <1>7, <1>8 DEF Decided
<1>10. /\ Known(outbound) /\ Carried(wire, I) /\ Correlates(inbound, I)
       /\ {"touched", "done"} \subseteq DOMAIN remote /\ Touches(remote.touched, I) /\ Obeyed(A)
  BY DEF Safe, SafeFor
<1> QED BY <1>1, <1>2, <1>3, <1>5, <1>9, <1>10 DEF Safe, SafeFor

(* The rest changes nothing of this.                                        *)
LEMMA QuietSafe ==
  ASSUME Safe,
         \/ \E c \in Connection : Cut(c)
         \/ InboundEnds
         \/ UNCHANGED vars
  PROVE  Safe'
<1>1. /\ UNCHANGED <<outbound, wire, tm, remote>>
      /\ inbound' = inbound \/ inbound' = [inbound EXCEPT !.level = "ended"]
  BY DEF Cut, InboundEnds, vars, localVars, remoteVars
<1>2. Correlates(inbound', outbound.involved) BY <1>1 DEF Safe, SafeFor, Correlates
<1>3. /\ Known(outbound) /\ Carried(wire, outbound.involved)
      /\ {"touched", "done"} \subseteq DOMAIN remote /\ Touches(remote.touched, outbound.involved)
      /\ Decided(tm, outbound.involved, outbound.replies, remote.done)
      /\ remote.done \subseteq tm.jobs /\ Obeyed(outbound.replies)
  BY DEF Safe, SafeFor
<1> QED BY <1>1, <1>2, <1>3 DEF Safe, SafeFor

(* Initially no transaction has asked for anything.                         *)
LEMMA InitSafe == Init => Safe
<1> SUFFICES ASSUME Init PROVE Safe OBVIOUS
<1>1. Known(outbound) BY FS_EmptySet DEF Init, Known
<1>2. Carried(wire, outbound.involved) BY DEF Init, Carried
<1>3. Correlates(inbound, outbound.involved) BY DEF Init, Correlates
<1>4. /\ {"touched", "done"} \subseteq DOMAIN remote /\ remote.done \subseteq tm.jobs
      /\ Touches(remote.touched, outbound.involved) /\ Obeyed(outbound.replies)
  BY DEF Init, Touches, Obeyed
<1>5. Decided(tm, outbound.involved, outbound.replies, remote.done) BY DEF Init, Decided
<1> QED BY <1>1, <1>2, <1>3, <1>4, <1>5 DEF Safe, SafeFor

(* Every step keeps what is known.                                          *)
LEMMA NextSafe ==
  ASSUME Invariant, Safe, Unlooped, [Next]_vars
  PROVE  Safe'
<1>1. ASSUME NEW r \in Request, Ask(r) \/ Converse(r) \/ Serve(r) \/ EndConversation(r)
      PROVE  Safe'
  BY <1>1, AskSafe, ConverseSafe, ServeSafe, EndConversationSafe
<1>2. ASSUME NEW j \in tm.jobs, AskResource(j) \/ VoteOn(j)
      PROVE  Safe'
  BY <1>2, AskResourceSafe, VoteOnSafe
<1>3. ASSUME NEW d \in Discovery, Discover(d)
      PROVE  Safe'
  BY <1>3, DiscoverSafe
<1>4. ASSUME NEW d \in Asked, Find(d)
      PROVE  Safe'
  BY <1>4, FindSafe
<1>5. ASSUME NEW c \in Connection,
             \/ OutboundReads(c) \/ OutboundLoses(c) \/ InboundReads(c) \/ InboundLoses(c)
             \/ Connect(c) \/ Cut(c)
      PROVE  Safe'
  BY <1>5, OutboundReadsSafe, OutboundLeavesSafe, InboundReadsSafe, InboundLosesSafe, ConnectSafe,
     QuietSafe
<1>6. ASSUME NEW l \in lookups, AnswerLookup(l) \/ LookupReply(l)
      PROVE  Safe'
  BY <1>6, AnswerLookupSafe, LookupReplySafe
<1>7. ASSUME NEW t \in Trid, TmEnds(t) \/ \E phase \in Phase : TmAsk(t, phase)
      PROVE  Safe'
  BY <1>7, TmEndsSafe, TmAskSafe
<1>8. CASE OutboundIdle \/ OutboundShutdown \/ OutboundEnds BY <1>8, OutboundLeavesSafe
<1>9. CASE InboundShutdown \/ InboundEnds BY <1>9, InboundShutdownSafe, QuietSafe
<1>10. CASE UNCHANGED vars BY <1>10, QuietSafe
<1> QED
  BY <1>1, <1>2, <1>3, <1>4, <1>5, <1>6, <1>7, <1>8, <1>9, <1>10 DEF Next, Asked

(* What is known is known always.                                           *)
LEMMA AlwaysSafe ==
  ASSUME Unlooped
  PROVE  Spec => [](Invariant /\ Safe)
<1>1. Init => Invariant /\ Safe BY InitOK, InitSafe
<1>2. Invariant /\ Safe /\ [Next]_vars => (Invariant /\ Safe)' BY NextOK, NextSafe
<1> QED BY <1>1, <1>2, PTL DEF Spec

(* No connection commits its work of a transaction while another that has   *)
(* work for it has not said that it can, whatever connections are lost and  *)
(* made again: resource::prepare and resource::commit of the outbound, and  *)
(* the transaction manager that asks every branch it was told of. The       *)
(* hypothesis leaves out the calls in a transaction that come back while in *)
(* flight: the outbound refuses one after it has made the branch of its     *)
(* connection and before it reports it (outbound/handle.cpp,                *)
(* service::call::request).                                                 *)
THEOREM CommitsAreAgreed ==
  ASSUME Unlooped
  PROVE  Spec => []NoneCommitsAlone
<1>1. Invariant /\ Safe => NoneCommitsAlone
  <2>1. SUFFICES ASSUME Safe, NEW j \in remote.done, NEW b \in remote.touched,
                        j.phase = "commit", b.trid = j.trid, b.conn # j.conn
        PROVE  [j EXCEPT !.conn = b.conn, !.phase = "prepare"] \in remote.done
    BY DEF NoneCommitsAlone
  <2>2. j \in tm.jobs /\ j.trid \in Trid BY <2>1 DEF Safe, SafeFor, Decided
  <2>3. b \in outbound.involved /\ b.conn \in Connection
    BY <2>1, <2>2 DEF Safe, SafeFor, Touches
  <2>4. [trid |-> j.trid, conn |-> b.conn, phase |-> "prepare"] \in remote.done
    BY <2>1, <2>2, <2>3 DEF Safe, SafeFor, Decided
  <2>5. PICK e : e = [j EXCEPT !.conn = b.conn, !.phase = "prepare"] OBVIOUS
  <2>6. j = [trid |-> j.trid, conn |-> j.conn, phase |-> j.phase]
    BY <2>1, <2>2 DEF Safe, SafeFor, Decided
  <2>7. e = [trid |-> j.trid, conn |-> b.conn, phase |-> "prepare"] BY <2>5, <2>6
  <2> QED BY <2>4, <2>5, <2>7
<1>2. Spec => [](Invariant /\ Safe) BY AlwaysSafe
<1> QED BY <1>1, <1>2, PTL

(* Where a request of a transaction did work in the other domain, the end   *)
(* of the transaction got there or the transaction manager was told that    *)
(* the branch is lost (resource::commit, resource::rollback and             *)
(* connection::lost of the outbound). The hypothesis is that of             *)
(* CommitsAreAgreed.                                                        *)
THEOREM EndsReachAll ==
  ASSUME Unlooped
  PROVE  Spec => []EndsEverywhere
<1>1. Invariant /\ Safe => EndsEverywhere
  <2>1. SUFFICES ASSUME Invariant, Safe, NEW t \in Trid, NEW b \in remote.touched, b.trid = t,
                        NEW phase \in {"commit", "rollback"},
                        phase = "commit" => tm.stage[t] = "committed",
                        phase = "rollback" => tm.stage[t] = "rolledback",
                        NEW j, j = [trid |-> t, conn |-> b.conn, phase |-> phase]
        PROVE  j \in remote.done \/ [corr |-> j, code |-> "lost"] \in outbound.replies
    BY Zenon DEF EndsEverywhere
  <2>2. b \in outbound.involved /\ b.conn \in Connection BY <2>1 DEF Safe, SafeFor, Touches
  <2>3. Told(outbound.replies, j) BY <2>1, <2>2 DEF Safe, SafeFor, Decided
  <2>4. PICK x \in outbound.replies : x.corr = j BY <2>3 DEF Told
  <2>5. j \in Job /\ j.phase # "prepare" BY <2>1, <2>2 DEF Job, Phase
  <2>6. j \notin Request BY <2>5, GatewayAssumption DEF GatewayAssumption
  <2>7. x = [corr |-> j, code |-> x.code] /\ x.code \in {"ok", "lost"}
    BY <2>1, <2>4, <2>5, <2>6 DEF Safe, SafeFor, Obeyed
  <2>8. x.code = "ok" => j \in remote.done BY <2>1, <2>4, <2>6 DEF Invariant, Truthful
  <2> QED BY <2>4, <2>7, <2>8
<1>2. Spec => [](Invariant /\ Safe) BY AlwaysSafe
<1> QED BY <1>1, <1>2, PTL
-----------------------------------------------------------------------------
(* What the callbacks of the discoveries leave in the lookup: connections   *)
(* of K, and of M until the answer to a request of a local process is given.*)
EntryState ==
  [of : Connection \cup Discovery, sent : SUBSET Connection, pending : SUBSET Connection,
   received : SUBSET [conn : Connection, found : SUBSET Resource]]
Heard(e, K) == \A x \in e.received : x.conn \in K

(* An entry that is not done; that of a connection is for itself.           *)
Waits(e, K) ==
  /\ Heard(e, K)
  /\ e.of \in Connection => e.received = {} /\ e.sent = {e.of} /\ e.pending \subseteq {e.of}

Finds(K, M, T) ==
  {s \in [lookup : [Resource -> SUBSET Connection], told : SUBSET Discovery,
          discovery : Seq({e \in EntryState : Waits(e, K)})] :
     /\ \A r \in Resource : s.lookup[r] \subseteq K
     /\ s.told = {} => \A r \in Resource : s.lookup[r] \subseteq M
     /\ T \subseteq s.told}

(* An entry that is done runs its callback, and one that is not waits.      *)
LEMMA SettleFinds ==
  ASSUME NEW K, NEW M, NEW T, NEW s \in Finds(K, M, T), NEW e \in EntryState, Heard(e, K),
         e.of \in Connection => Heard(e, M),
         e.pending = {} \/ Waits(e, K)
  PROVE  Settle(s, e) \in Finds(K, M, T)
<1> DEFINE E == {f \in EntryState : Waits(f, K)}
           l == Advertised(s.lookup, e)
           t == IF e.of \in Discovery THEN s.told \cup {e.of} ELSE s.told
<1>1. /\ s = [lookup |-> s.lookup, told |-> s.told, discovery |-> s.discovery]
      /\ s.lookup \in [Resource -> SUBSET Connection] /\ s.told \in SUBSET Discovery
      /\ s.discovery \in Seq(E)
      /\ \A r \in Resource : s.lookup[r] \subseteq K
      /\ s.told = {} => \A r \in Resource : s.lookup[r] \subseteq M
      /\ T \subseteq s.told
  BY DEF Finds
<1>2. CASE e.pending = {}
  <2>1. \A x \in e.received : x.conn \in Connection BY DEF EntryState
  <2>2. l \in [Resource -> SUBSET Connection] BY <1>1, <2>1 DEF Advertised
  <2>3. \A r \in Resource : l[r] \subseteq s.lookup[r] \cup {x.conn : x \in e.received}
    BY DEF Advertised
  <2>4. \A r \in Resource : l[r] \subseteq K BY <1>1, <2>3 DEF Heard
  <2>5. t \in SUBSET Discovery /\ T \subseteq t BY <1>1
  <2>6. t = {} => \A r \in Resource : l[r] \subseteq M
    <3>1. SUFFICES ASSUME t = {} PROVE \A r \in Resource : l[r] \subseteq M OBVIOUS
    <3>2. s.told = {} /\ e.of \in Connection BY <3>1 DEF EntryState
    <3> QED BY <1>1, <2>3, <3>2 DEF Heard
  <2>7. Settle(s, e) = [lookup |-> l, told |-> t, discovery |-> s.discovery]
    BY <1>1, <1>2 DEF Settle
  <2> HIDE DEF l, t
  <2> QED BY <1>1, <2>2, <2>4, <2>5, <2>6, <2>7 DEF Finds
<1>3. CASE e.pending # {}
  <2>1. e \in E BY <1>3
  <2>2. Append(s.discovery, e) \in Seq(E) BY <1>1, <2>1
  <2>3. Settle(s, e) = [lookup |-> s.lookup, told |-> s.told, discovery |-> Append(s.discovery, e)]
    BY <1>1, <1>3 DEF Settle
  <2> QED BY <1>1, <2>2, <2>3 DEF Finds
<1> QED BY <1>2, <1>3

(* A loop over 1 .. n stays in A when each of its steps does.               *)
LEMMA LoopIn ==
  ASSUME NEW A, NEW a \in A, NEW n \in Nat, NEW G \in [(1 .. n) \X A -> A],
         NEW f, f[0] = a, \A k \in 1 .. n : f[k - 1] \in A => f[k] = G[<<k, f[k - 1]>>]
  PROVE  f[n] \in A
<1> DEFINE S == {k \in Nat : k <= n => f[k] \in A}
<1>1. 0 \in S OBVIOUS
<1>2. ASSUME NEW k \in Nat, k \in S PROVE k + 1 \in S
  <2>1. SUFFICES ASSUME k + 1 <= n PROVE f[k + 1] \in A OBVIOUS
  <2>2. f[k] \in A /\ k + 1 \in 1 .. n /\ (k + 1) - 1 = k BY <1>2, <2>1
  <2>3. f[k + 1] = G[<<k + 1, f[k]>>] BY <2>2
  <2>4. <<k + 1, f[k]>> \in (1 .. n) \X A BY <2>2
  <2> QED BY <2>3, <2>4
<1>3. Nat \subseteq S
  <2> HIDE DEF S
  <2> QED BY <1>1, <1>2, NatSet
<1> QED BY <1>3

(* A loop over 1 .. n goes from one set to the next when its steps do.     *)
LEMMA LoopThrough ==
  ASSUME NEW n \in Nat, NEW B, NEW f, f[0] \in B[0],
         \A k \in 1 .. n : f[k - 1] \in B[k - 1] => f[k] \in B[k]
  PROVE  f[n] \in B[n]
<1> DEFINE S == {k \in Nat : k <= n => f[k] \in B[k]}
<1>1. 0 \in S OBVIOUS
<1>2. ASSUME NEW k \in Nat, k \in S PROVE k + 1 \in S
  <2>1. SUFFICES ASSUME k + 1 <= n PROVE f[k + 1] \in B[k + 1] OBVIOUS
  <2>2. f[k] \in B[k] /\ k + 1 \in 1 .. n /\ (k + 1) - 1 = k BY <1>2, <2>1
  <2> QED BY <2>2
<1>3. Nat \subseteq S
  <2> HIDE DEF S
  <2> QED BY <1>1, <1>2, NatSet
<1> QED BY <1>3

(* What the entry e is after the reply x.                                   *)
LEMMA CoordinatedFinds ==
  ASSUME NEW K, NEW M, NEW T, NEW s \in Finds(K, M, T), NEW e \in EntryState, Waits(e, K),
         NEW of, NEW x \in [conn : Connection, found : SUBSET Resource], x.conn \in K \cap M
  PROVE  Coordinated(s, e, of, x) \in Finds(K, M, T)
<1> DEFINE E == {f \in EntryState : Waits(f, K)}
           g == [e EXCEPT !.pending = @ \ {x.conn}, !.received = @ \cup {x}]
<1>1. CASE e.of # of \/ x.conn \notin e.sent
  <2>1. /\ s = [lookup |-> s.lookup, told |-> s.told, discovery |-> s.discovery]
        /\ s.discovery \in Seq(E)
    BY DEF Finds
  <2>2. Append(s.discovery, e) \in Seq(E) BY <2>1
  <2>3. Coordinated(s, e, of, x) = [lookup |-> s.lookup, told |-> s.told,
                                    discovery |-> Append(s.discovery, e)]
    BY <1>1, <2>1 DEF Coordinated
  <2> QED BY <2>2, <2>3 DEF Finds
<1>2. CASE e.of = of /\ x.conn \in e.sent
  <2>1. /\ g \in EntryState /\ g.of = e.of /\ g.sent = e.sent
        /\ g.pending = e.pending \ {x.conn} /\ g.received = e.received \cup {x}
    BY DEF EntryState
  <2>2. Heard(g, K) BY <2>1 DEF Waits, Heard
  <2>3. g.of \in Connection => Heard(g, M) /\ g.pending = {}
    BY <1>2, <2>1 DEF Waits, Heard
  <2>4. g.pending = {} \/ Waits(g, K) BY <2>2, <2>3 DEF Waits
  <2>5. Coordinated(s, e, of, x) = Settle(s, g) BY <1>2 DEF Coordinated
  <2> HIDE DEF g
  <2> QED BY <2>1, <2>2, <2>3, <2>4, <2>5, SettleFinds
<1> QED BY <1>1, <1>2

(* What is to be found of an outbound.                                      *)
Discovering(o, K, M, T) == [Found(o) EXCEPT !.discovery = o.discovery] \in Finds(K, M, T)

(* The same without the record.                                             *)
LEMMA DiscoveringIs ==
  ASSUME NEW o, NEW K, NEW M, NEW T
  PROVE  Discovering(o, K, M, T) <=>
           /\ o.lookup \in [Resource -> SUBSET Connection]
           /\ o.told \in SUBSET Discovery
           /\ o.discovery \in Seq({e \in EntryState : Waits(e, K)})
           /\ \A r \in Resource : o.lookup[r] \subseteq K
           /\ o.told = {} => \A r \in Resource : o.lookup[r] \subseteq M
           /\ T \subseteq o.told
<1>1. [Found(o) EXCEPT !.discovery = o.discovery] =
        [lookup |-> o.lookup, told |-> o.told, discovery |-> o.discovery]
  BY DEF Found
<1> QED BY <1>1 DEF Discovering, Finds

(* The reply to a discovery, from a connection of K and M.                   *)
LEMMA RepliedFinds ==
  ASSUME NEW K, NEW M, NEW T, NEW o, Discovering(o, K, M, T),
         NEW of, NEW x \in [conn : Connection, found : SUBSET Resource], x.conn \in K \cap M
  PROVE  \E s \in Finds(K, M, T) : Replied(o, of, x) = With(o, s)
<1> DEFINE E == {f \in EntryState : Waits(f, K)}
           A == Finds(K, M, T)
           N == Len(o.discovery)
           Step(s, n) == Coordinated(s, o.discovery[n], of, x)
           Def(g) == [n \in 0 .. N |-> IF n = 0 THEN Found(o) ELSE Step(g[n - 1], n)]
           after == CHOOSE g : g = Def(g)
           G == [p \in (1 .. N) \X A |-> Step(p[2], p[1])]
<1>1. o.discovery \in Seq(E) /\ N \in Nat BY DiscoveringIs
<1>2. Found(o) \in A
  <2>1. Found(o) = [lookup |-> o.lookup, told |-> o.told, discovery |-> <<>>] BY DEF Found
  <2>2. <<>> \in Seq(E) OBVIOUS
  <2>3. /\ o.lookup \in [Resource -> SUBSET Connection] /\ o.told \in SUBSET Discovery
        /\ \A r \in Resource : o.lookup[r] \subseteq K
        /\ o.told = {} => \A r \in Resource : o.lookup[r] \subseteq M
        /\ T \subseteq o.told
    BY DiscoveringIs
  <2> QED BY <2>1, <2>2, <2>3 DEF Finds
<1>3. \A n \in 1 .. N : \A s \in A : Step(s, n) \in A
  <2>1. SUFFICES ASSUME NEW n \in 1 .. N, NEW s \in A PROVE Step(s, n) \in A OBVIOUS
  <2>2. PICK e : e = o.discovery[n] OBVIOUS
  <2>3. e \in EntryState /\ Waits(e, K) BY <1>1, <2>2
  <2>4. Coordinated(s, e, of, x) \in A BY <2>3, CoordinatedFinds
  <2> QED BY <2>2, <2>4
<1>4. G \in [(1 .. N) \X A -> A] /\ \A n \in 1 .. N : \A s \in A : G[<<n, s>>] = Step(s, n)
  <2> HIDE DEF A, Step
  <2> QED BY <1>3
<1> HIDE DEF Step, G, A, N
<1>5. PICK f : f = Def(f)
  <2>1. PICK f : Solves(f, N, Found(o), G, A) BY <1>1, <1>2, <1>4, Recursion
  <2>2. \A n \in 1 .. N : n - 1 \in 0 .. N BY <1>1
  <2>3. f \in [0 .. N -> A] /\ f[0] = Found(o) /\ \A n \in 1 .. N : f[n] = Step(f[n - 1], n)
    BY <1>1, <1>4, <2>1, <2>2 DEF Solves
  <2>4. \A n \in 0 .. N : f[n] = IF n = 0 THEN Found(o) ELSE Step(f[n - 1], n) BY <1>1, <2>3
  <2>5. f = Def(f) BY <2>3, <2>4
  <2> QED BY <2>5
<1>6. after = Def(after)
  <2> HIDE DEF Def
  <2> QED BY <1>5
<1>7. after[0] = Found(o) /\ \A n \in 1 .. N : after[n - 1] \in A => after[n] = G[<<n, after[n - 1]>>]
  <2> HIDE DEF after
  <2>1. after[0] = Found(o) /\ \A n \in 1 .. N : after[n] = Step(after[n - 1], n) BY <1>1, <1>6
  <2> QED BY <1>4, <2>1
<1>8. Replied(o, of, x) = With(o, after[N]) BY DEF Replied, N, Step
<1> HIDE DEF after
<1>9. after[N] \in A BY <1>1, <1>2, <1>4, <1>7, LoopIn
<1> QED BY <1>8, <1>9 DEF A

(* One connection fails.                                                    *)
LEMMA FailsFinds ==
  ASSUME NEW K, NEW M, NEW T, NEW s \in Finds(K, M, T), NEW c
  PROVE  Fails(s, c) \in Finds(K, M, T)
<1> DEFINE E == {f \in EntryState : Waits(f, K)}
           A == Finds(K, M, T)
           N == Len(s.discovery)
           a == [s EXCEPT !.discovery = <<>>]
           Step(z, n) == Settle(z, [s.discovery[n] EXCEPT !.pending = @ \ {c}])
           Def(g) == [n \in 0 .. N |-> IF n = 0 THEN a ELSE Step(g[n - 1], n)]
           after == CHOOSE g : g = Def(g)
           G == [p \in (1 .. N) \X A |-> Step(p[2], p[1])]
<1>1. s.discovery \in Seq(E) /\ N \in Nat
  <2>1. s.discovery \in Seq(E) BY DEF Finds
  <2> QED BY <2>1
<1>2. a \in A
  <2>1. <<>> \in Seq(E) OBVIOUS
  <2> QED BY <2>1 DEF Finds
<1>3. \A n \in 1 .. N : \A z \in A : Step(z, n) \in A
  <2>1. SUFFICES ASSUME NEW n \in 1 .. N, NEW z \in A PROVE Step(z, n) \in A OBVIOUS
  <2>2. PICK e : e = s.discovery[n] OBVIOUS
  <2>3. e \in EntryState /\ Waits(e, K) BY <1>1, <2>2
  <2>4. PICK g : g = [e EXCEPT !.pending = @ \ {c}] OBVIOUS
  <2>5. /\ g \in EntryState /\ g.of = e.of /\ g.sent = e.sent
        /\ g.pending = e.pending \ {c} /\ g.received = e.received
    BY <2>3, <2>4 DEF EntryState
  <2>6. Waits(g, K) /\ (g.of \in Connection => Heard(g, M)) BY <2>3, <2>5 DEF Waits, Heard
  <2>7. Settle(z, g) \in A BY <2>5, <2>6, SettleFinds DEF Waits
  <2> QED BY <2>2, <2>4, <2>7
<1>4. G \in [(1 .. N) \X A -> A] /\ \A n \in 1 .. N : \A z \in A : G[<<n, z>>] = Step(z, n)
  <2> HIDE DEF A, Step
  <2> QED BY <1>3
<1> HIDE DEF Step, G, A, N, a
<1>5. PICK f : f = Def(f)
  <2>1. PICK f : Solves(f, N, a, G, A) BY <1>1, <1>2, <1>4, Recursion
  <2>2. \A n \in 1 .. N : n - 1 \in 0 .. N BY <1>1
  <2>3. f \in [0 .. N -> A] /\ f[0] = a /\ \A n \in 1 .. N : f[n] = Step(f[n - 1], n)
    BY <1>1, <1>4, <2>1, <2>2 DEF Solves
  <2>4. \A n \in 0 .. N : f[n] = IF n = 0 THEN a ELSE Step(f[n - 1], n) BY <1>1, <2>3
  <2>5. f = Def(f) BY <2>3, <2>4
  <2> QED BY <2>5
<1>6. after = Def(after)
  <2> HIDE DEF Def
  <2> QED BY <1>5
<1>7. after[0] = a /\ \A n \in 1 .. N : after[n - 1] \in A => after[n] = G[<<n, after[n - 1]>>]
  <2> HIDE DEF after
  <2>1. after[0] = a /\ \A n \in 1 .. N : after[n] = Step(after[n - 1], n) BY <1>1, <1>6
  <2> QED BY <1>4, <2>1
<1>8. Fails(s, c) = after[N] BY DEF Fails, N, Step, a
<1> HIDE DEF after
<1>9. after[N] \in A BY <1>1, <1>2, <1>4, <1>7, LoopIn
<1> QED BY <1>8, <1>9 DEF A

(* One connection is taken out of the lookup.                               *)
LEMMA UnadvertisedFinds ==
  ASSUME NEW K, NEW M, NEW T, NEW s \in Finds(K, M, T), NEW c
  PROVE  Unadvertised(s, c) \in Finds(K, M \ {c}, T)
<1> DEFINE l == [r \in Resource |-> s.lookup[r] \ {c}]
           E == {f \in EntryState : Waits(f, K)}
<1>1. /\ s = [lookup |-> s.lookup, told |-> s.told, discovery |-> s.discovery]
      /\ s.lookup \in [Resource -> SUBSET Connection] /\ s.told \in SUBSET Discovery
      /\ s.discovery \in Seq(E)
      /\ \A r \in Resource : s.lookup[r] \subseteq K
      /\ s.told = {} => \A r \in Resource : s.lookup[r] \subseteq M
      /\ T \subseteq s.told
  BY DEF Finds
<1>2. /\ l \in [Resource -> SUBSET Connection]
      /\ \A r \in Resource : l[r] \subseteq K
      /\ s.told = {} => \A r \in Resource : l[r] \subseteq M \ {c}
  BY <1>1
<1>3. Unadvertised(s, c) = [lookup |-> l, told |-> s.told, discovery |-> s.discovery]
  <2>1. Unadvertised(s, c) = [s EXCEPT !.lookup = l] BY Zenon DEF Unadvertised
  <2>2. \A x : [s EXCEPT !.lookup = x] = [lookup |-> x, told |-> s.told, discovery |-> s.discovery]
    BY <1>1
  <2> QED BY <2>1, <2>2
<1> HIDE DEF l
<1> QED BY <1>1, <1>2, <1>3 DEF Finds

(* What is found in fewer places is found in more.                          *)
LEMMA FindsWider ==
  ASSUME NEW K, NEW M, NEW P, M \subseteq P, NEW T
  PROVE  Finds(K, M, T) \subseteq Finds(K, P, T)
  BY DEF Finds

(* Connections go.                                                          *)
LEMMA FailedFinds ==
  ASSUME NEW K, NEW M, NEW T, NEW o, Discovering(o, K, M, T), NEW S \in SUBSET Connection
  PROVE  \E s \in Finds(K, M \ S, T) : Failed(o, S) = With(o, s)
<1> DEFINE A == Finds(K, M, T)
           t == SetToSeq(S)
           N == Len(t)
           a == [Found(o) EXCEPT !.discovery = o.discovery]
           Step(z, n) == Fails(Unadvertised(z, t[n]), t[n])
           Def(g) == [n \in 0 .. N |-> IF n = 0 THEN a ELSE Step(g[n - 1], n)]
           after == CHOOSE g : g = Def(g)
           G == [p \in (1 .. N) \X A |-> Step(p[2], p[1])]
           R(n) == M \ {t[k] : k \in 1 .. n}
           B == [n \in 0 .. N |-> Finds(K, R(n), T)]
<1>1. N \in Nat /\ t \in Seq(Connection) /\ {t[k] : k \in 1 .. N} = S
  <2>1. IsFiniteSet(S) BY FS_Subset, GatewayAssumption DEF GatewayAssumption
  <2>2. t \in Seq(Connection) /\ ToSet(t) = S
    <3> HIDE DEF t
    <3> QED BY <2>1, SeqOfSet DEF t
  <2> QED BY <2>2 DEF ToSet
<1>2. a \in A BY DEF Discovering
<1>3. \A n \in 1 .. N : \A z \in A : Step(z, n) \in A
  <2>1. SUFFICES ASSUME NEW n \in 1 .. N, NEW z \in A PROVE Step(z, n) \in A OBVIOUS
  <2>2. Step(z, n) \in Finds(K, M \ {t[n]}, T) BY UnadvertisedFinds, FailsFinds
  <2>3. Finds(K, M \ {t[n]}, T) \subseteq A BY FindsWider
  <2> QED BY <2>2, <2>3
<1>4. G \in [(1 .. N) \X A -> A] /\ \A n \in 1 .. N : \A z \in A : G[<<n, z>>] = Step(z, n)
  <2> HIDE DEF A, Step
  <2> QED BY <1>3
<1>10. /\ B[0] = A /\ B[N] = Finds(K, M \ S, T)
       /\ \A n \in 1 .. N : \A z \in B[n - 1] : Step(z, n) \in B[n]
  <2>1. R(0) = M /\ R(N) = M \ S BY <1>1
  <2>2. \A n \in 0 .. N : B[n] = Finds(K, R(n), T) OBVIOUS
  <2>3. \A n \in 1 .. N : n - 1 \in 0 .. N /\ n \in 0 .. N /\ R(n) = R(n - 1) \ {t[n]}
    BY <1>1
  <2>4. \A n \in 1 .. N : \A z \in Finds(K, R(n - 1), T) :
          Step(z, n) \in Finds(K, R(n - 1) \ {t[n]}, T)
    <3> HIDE DEF R
    <3> QED BY UnadvertisedFinds, FailsFinds
  <2>5. 0 \in 0 .. N /\ N \in 0 .. N BY <1>1
  <2> HIDE DEF R, B, Step
  <2>6. B[0] = A /\ B[N] = Finds(K, M \ S, T)
    <3>1. B[0] = Finds(K, R(0), T) /\ B[N] = Finds(K, R(N), T) BY <2>2, <2>5
    <3> QED BY <2>1, <3>1
  <2>7. ASSUME NEW n \in 1 .. N, NEW z \in B[n - 1] PROVE Step(z, n) \in B[n]
    <3>1. B[n - 1] = Finds(K, R(n - 1), T) /\ B[n] = Finds(K, R(n), T) BY <2>2, <2>3
    <3>2. B[n] = Finds(K, R(n - 1) \ {t[n]}, T) BY <2>3, <3>1
    <3>3. Step(z, n) \in Finds(K, R(n - 1) \ {t[n]}, T) BY <2>4, <2>7, <3>1
    <3> QED BY <3>2, <3>3
  <2> QED BY <2>6, <2>7
<1> HIDE DEF Step, G, A, N, a, B
<1>5. PICK f : f = Def(f)
  <2>1. PICK f : Solves(f, N, a, G, A) BY <1>1, <1>2, <1>4, Recursion
  <2>2. \A n \in 1 .. N : n - 1 \in 0 .. N BY <1>1
  <2>3. f \in [0 .. N -> A] /\ f[0] = a /\ \A n \in 1 .. N : f[n] = Step(f[n - 1], n)
    BY <1>1, <1>4, <2>1, <2>2 DEF Solves
  <2>4. \A n \in 0 .. N : f[n] = IF n = 0 THEN a ELSE Step(f[n - 1], n) BY <1>1, <2>3
  <2>5. f = Def(f) BY <2>3, <2>4
  <2> QED BY <2>5
<1>6. after = Def(after)
  <2> HIDE DEF Def
  <2> QED BY <1>5
<1>7. after[0] = a /\ \A n \in 1 .. N : after[n] = Step(after[n - 1], n)
  <2> HIDE DEF after
  <2> QED BY <1>1, <1>6
<1>8. Failed(o, S) = With(o, after[N]) BY DEF Failed, N, Step, a
<1> HIDE DEF after
<1>9. after[N] \in B[N]
  <2>1. after[0] \in B[0] BY <1>2, <1>7, <1>10
  <2>2. \A n \in 1 .. N : after[n - 1] \in B[n - 1] => after[n] \in B[n] BY <1>7, <1>10
  <2> QED BY <1>1, <2>1, <2>2, LoopThrough
<1> QED BY <1>8, <1>9, <1>10
-----------------------------------------------------------------------------
(* The state of the ends.                                                   *)
Code == {"ok", "system", "no_entry", "ended", "refused", "lost"}
RouteState ==
  [corr : Request \cup Job, conn : Connection \cup {None},
   kind : {"call", "queue", "conversation", "resource"}]
OutboundState ==
  [level : {"running", "shutdown", "error", "ended"},
   connections : SUBSET Connection, unconnected : SUBSET Connection,
   lookup : [Resource -> SUBSET Connection], branches : SUBSET Branch,
   routes : SUBSET RouteState, disconnecting : SUBSET Connection,
   discovery : Seq({e \in EntryState : Waits(e, Connection)}), told : SUBSET Discovery,
   known : SUBSET Resource, replies : SUBSET [corr : Request \cup Job, code : Code],
   involved : SUBSET Branch]

(* The outbound p is like o but for what discoveries change.                *)
Alike(o, p) ==
  /\ p \in OutboundState /\ o.told \subseteq p.told
  /\ p.level = o.level /\ p.connections = o.connections /\ p.unconnected = o.unconnected
  /\ p.branches = o.branches /\ p.routes = o.routes /\ p.disconnecting = o.disconnecting
  /\ p.replies = o.replies /\ p.involved = o.involved

(* Every outbound finds connections.                                        *)
LEMMA OutboundFinds ==
  ASSUME NEW o \in OutboundState
  PROVE  Discovering(o, Connection, Connection, o.told)
<1>1. /\ o.lookup \in [Resource -> SUBSET Connection] /\ o.told \in SUBSET Discovery
      /\ o.discovery \in Seq({e \in EntryState : Waits(e, Connection)})
  BY DEF OutboundState
<1> QED BY <1>1, DiscoveringIs

(* What has been found goes into the state.                                 *)
LEMMA WithIs ==
  ASSUME NEW o \in OutboundState, NEW K, NEW M, NEW T, NEW s \in Finds(K, M, T)
  PROVE  /\ Discovering(With(o, s), K, M, T)
         /\ K = Connection /\ T = o.told => Alike(o, With(o, s))
<1> DEFINE E == {e \in EntryState : Waits(e, K)}
           p == With(o, s)
<1>1. /\ s.lookup \in [Resource -> SUBSET Connection] /\ s.told \in SUBSET Discovery
      /\ s.discovery \in Seq(E)
      /\ \A r \in Resource : s.lookup[r] \subseteq K
      /\ s.told = {} => \A r \in Resource : s.lookup[r] \subseteq M
      /\ T \subseteq s.told
  BY DEF Finds
<1>2. p.lookup = s.lookup /\ p.told = s.told /\ p.discovery = s.discovery
  BY DEF With, OutboundState
<1> HIDE DEF p
<1>3. Discovering(p, K, M, T) BY <1>1, <1>2, DiscoveringIs
<1>4. ASSUME K = Connection, T = o.told PROVE Alike(o, p)
  <2> DEFINE k == o.known \cup {r \in Resource : s.lookup[r] # {}}
  <2>1. p = [o EXCEPT !.lookup = s.lookup, !.told = s.told, !.discovery = s.discovery, !.known = k]
    BY DEF p, With, OutboundState
  <2>2. k \in SUBSET Resource BY DEF OutboundState
  <2>3. s.discovery \in Seq({e \in EntryState : Waits(e, Connection)}) BY <1>1, <1>4
  <2> HIDE DEF k
  <2>4. p \in OutboundState BY <1>1, <2>1, <2>2, <2>3 DEF OutboundState
  <2> QED BY <1>1, <1>4, <2>1, <2>4 DEF OutboundState, Alike
<1> QED BY <1>3, <1>4 DEF p

(* What a failed connection, a reply or a new entry leaves to be found.     *)
LEMMA FailedIs ==
  ASSUME NEW o \in OutboundState, NEW S \in SUBSET Connection
  PROVE  /\ Alike(o, Failed(o, S))
         /\ \A K, M : Discovering(o, K, M, {}) => Discovering(Failed(o, S), K, M \ S, {})
<1>1. PICK s \in Finds(Connection, Connection \ S, o.told) : Failed(o, S) = With(o, s)
  BY OutboundFinds, FailedFinds
<1>2. s \in Finds(Connection, Connection, o.told)
  <2>1. Connection \ S \subseteq Connection OBVIOUS
  <2> QED BY <1>1, <2>1, FindsWider
<1>3. Alike(o, With(o, s)) BY <1>2, WithIs
<1>4. ASSUME NEW K, NEW M, Discovering(o, K, M, {}) PROVE Discovering(Failed(o, S), K, M \ S, {})
  <2>1. PICK z \in Finds(K, M \ S, {}) : Failed(o, S) = With(o, z) BY <1>4, FailedFinds
  <2>2. Discovering(With(o, z), K, M \ S, {}) BY WithIs
  <2> QED BY <2>1, <2>2
<1> QED BY <1>1, <1>3, <1>4

(* The same of a reply.                                                     *)
LEMMA RepliedIs ==
  ASSUME NEW o \in OutboundState, NEW of, NEW x \in [conn : Connection, found : SUBSET Resource]
  PROVE  /\ Alike(o, Replied(o, of, x))
         /\ \A K, M : Discovering(o, K, M, {}) /\ x.conn \in K \cap M =>
                        Discovering(Replied(o, of, x), K, M, {})
<1>0. x.conn \in Connection OBVIOUS
<1>1. PICK s \in Finds(Connection, Connection, o.told) : Replied(o, of, x) = With(o, s)
  BY <1>0, OutboundFinds, RepliedFinds
<1>2. Alike(o, With(o, s)) BY WithIs
<1>3. ASSUME NEW K, NEW M, Discovering(o, K, M, {}), x.conn \in K \cap M
      PROVE  Discovering(Replied(o, of, x), K, M, {})
  <2>1. PICK z \in Finds(K, M, {}) : Replied(o, of, x) = With(o, z) BY <1>3, RepliedFinds
  <2>2. Discovering(With(o, z), K, M, {}) BY WithIs
  <2> QED BY <2>1, <2>2
<1> QED BY <1>1, <1>2, <1>3

(* The same of a new entry: that of a connection asks itself.               *)
LEMMA RegisterIs ==
  ASSUME NEW o \in OutboundState, NEW of \in Connection \cup Discovery,
         NEW S \in SUBSET Connection, of \in Connection => S = {of}
  PROVE  /\ Alike(o, Register(o, Entry(of, S)))
         /\ \A K, M : Discovering(o, K, M, {}) => Discovering(Register(o, Entry(of, S)), K, M, {})
<1> DEFINE e == Entry(of, S)
           f == [Found(o) EXCEPT !.discovery = o.discovery]
<1>1. e \in EntryState /\ e.of = of /\ e.sent = S /\ e.pending = S /\ e.received = {}
  BY DEF Entry, EntryState
<1>2. \A K : Heard(e, K) /\ Waits(e, K) BY <1>1 DEF Heard, Waits
<1> HIDE DEF e
<1>3. ASSUME NEW K, NEW M, NEW T, Discovering(o, K, M, T)
      PROVE  Settle(f, e) \in Finds(K, M, T) /\ Register(o, e) = With(o, Settle(f, e))
  BY <1>1, <1>2, <1>3, SettleFinds DEF Discovering, Register
<1>4. Alike(o, Register(o, e)) BY <1>3, OutboundFinds, WithIs
<1>5. ASSUME NEW K, NEW M, Discovering(o, K, M, {}) PROVE Discovering(Register(o, e), K, M, {})
  <2>1. Settle(f, e) \in Finds(K, M, {}) /\ Register(o, e) = With(o, Settle(f, e)) BY <1>3, <1>5
  <2> HIDE DEF f
  <2> QED BY <2>1, WithIs
<1> QED BY <1>4, <1>5 DEF e

(* An outbound with the same to be found.                                   *)
LEMMA SameFinds ==
  ASSUME NEW o, NEW p, p.lookup = o.lookup, p.told = o.told, p.discovery = o.discovery
  PROVE  \A K, M, T : Discovering(o, K, M, T) => Discovering(p, K, M, T)
<1>1. [Found(p) EXCEPT !.discovery = p.discovery] = [Found(o) EXCEPT !.discovery = o.discovery]
  BY DEF Found
<1> QED BY <1>1 DEF Discovering

(* The errors that answer routes are of requests and jobs.                  *)
LEMMA ErrorsAre ==
  ASSUME NEW o \in OutboundState, NEW P \in SUBSET o.routes
  PROVE  ErrorReplies(P) \in SUBSET [corr : Request \cup Job, code : Code]
  BY DEF ErrorReplies, OutboundState, RouteState, Code

(* connection::lost.                                                        *)
Loses(o, p, S) ==
  /\ p \in OutboundState /\ o.told \subseteq p.told
  /\ p.level = o.level /\ p.unconnected = o.unconnected
  /\ p.branches = o.branches /\ p.involved = o.involved
  /\ p.connections = o.connections \ S /\ p.disconnecting = o.disconnecting \ S
  /\ p.routes = o.routes \ RoutesOf(o, S)
  /\ p.replies = o.replies \cup ErrorReplies(RoutesOf(o, S))
  /\ \A K, M : Discovering(o, K, M, {}) => Discovering(p, K, M \ S, {})

(* It is what Lost does.                                                    *)
LEMMA LostIs ==
  ASSUME NEW o \in OutboundState, NEW S \in SUBSET Connection
  PROVE  Loses(o, Lost(o, S), S)
<1>1. PICK f : f = Failed(o, S) OBVIOUS
<1>2. /\ Alike(o, f)
      /\ \A K, M : Discovering(o, K, M, {}) => Discovering(f, K, M \ S, {})
  BY <1>1, FailedIs
<1>3. PICK R, E : R = RoutesOf(o, S) /\ E = ErrorReplies(R) OBVIOUS
<1>4. E \in SUBSET [corr : Request \cup Job, code : Code] BY <1>3, ErrorsAre DEF RoutesOf
<1>5. PICK p : p = [f EXCEPT !.routes = @ \ R, !.replies = @ \cup E,
                             !.disconnecting = @ \ S, !.connections = @ \ S]
  OBVIOUS
<1>6. p = Lost(o, S) BY <1>1, <1>3, <1>5 DEF Lost
<1>7. f \in OutboundState BY <1>2 DEF Alike
<1>8. /\ p \in OutboundState /\ p.told = f.told /\ p.lookup = f.lookup
      /\ p.discovery = f.discovery /\ p.level = f.level
      /\ p.unconnected = f.unconnected /\ p.branches = f.branches /\ p.involved = f.involved
      /\ p.connections = f.connections \ S /\ p.disconnecting = f.disconnecting \ S
      /\ p.routes = f.routes \ R /\ p.replies = f.replies \cup E
  BY <1>4, <1>5, <1>7 DEF OutboundState
<1>9. \A K, M, T : Discovering(f, K, M, T) => Discovering(p, K, M, T) BY <1>8, SameFinds
<1> QED BY <1>2, <1>3, <1>6, <1>8, <1>9 DEF Loses, Alike

(* connection::disconnect.                                                  *)
LEMMA DisconnectedIs ==
  ASSUME NEW o \in OutboundState, NEW S \in SUBSET Connection, NEW p, p = Disconnected(o, S)
  PROVE  /\ p \in OutboundState /\ o.told \subseteq p.told
         /\ p.level = o.level /\ p.unconnected = o.unconnected
         /\ p.branches = o.branches /\ p.involved = o.involved
         /\ p.connections = o.connections /\ p.disconnecting = o.disconnecting \cup S
         /\ p.routes = o.routes /\ p.replies = o.replies
         /\ \A K, M : Discovering(o, K, M, {}) => Discovering(p, K, M, {})
<1>1. PICK f : f = Failed(o, S) OBVIOUS
<1>2. /\ Alike(o, f)
      /\ \A K, M : Discovering(o, K, M, {}) => Discovering(f, K, M \ S, {})
  BY <1>1, FailedIs
<1>3. p = [f EXCEPT !.disconnecting = @ \cup S] BY <1>1 DEF Disconnected
<1>4. f \in OutboundState BY <1>2 DEF Alike
<1>5. /\ p \in OutboundState /\ p.told = f.told /\ p.lookup = f.lookup
      /\ p.discovery = f.discovery /\ p.level = f.level
      /\ p.unconnected = f.unconnected /\ p.branches = f.branches /\ p.involved = f.involved
      /\ p.connections = f.connections /\ p.disconnecting = f.disconnecting \cup S
      /\ p.routes = f.routes /\ p.replies = f.replies
  BY <1>3, <1>4 DEF OutboundState
<1>6. \A K, M, T : Discovering(f, K, M, T) => Discovering(p, K, M, T) BY <1>5, SameFinds
<1>7. ASSUME NEW K, NEW M, Discovering(o, K, M, {}) PROVE Discovering(p, K, M, {})
  <2>1. Discovering(p, K, M \ S, {}) BY <1>2, <1>6, <1>7
  <2>2. M \ S \subseteq M OBVIOUS
  <2> QED BY <2>1, <2>2, DiscoveringIs
<1> QED BY <1>2, <1>5, <1>7 DEF Alike
-----------------------------------------------------------------------------
(* What is on a connection, up and down.                                    *)
Ups(w, c) == ToSet(w.up[c])
Downs(w, c) == ToSet(w.down[c])
Wired(w) == WireOK(w, Job, Job)

(* The channels are of sequences.                                           *)
LEMMA WiredIs ==
  ASSUME NEW w, Wired(w)
  PROVE  /\ \A c \in Connection :
              /\ w.up[c] \in Seq(UpMessage(Job)) /\ w.down[c] \in Seq(DownMessage(Job, Job))
              /\ Ups(w, c) \subseteq UpMessage(Job) /\ Downs(w, c) \subseteq DownMessage(Job, Job)
              /\ w.up[c] # <<>> <=> Ups(w, c) # {}
              /\ w.down[c] # <<>> <=> Downs(w, c) # {}
         /\ "up" \in DOMAIN w /\ "down" \in DOMAIN w
         /\ DOMAIN w.up = Connection /\ DOMAIN w.down = Connection
         /\ w = [up |-> w.up, down |-> w.down]
<1>1. \A E : \A s \in Seq(E) : ToSet(s) \subseteq E /\ (s # <<>> <=> ToSet(s) # {})
  <2>1. SUFFICES ASSUME NEW E, NEW s \in Seq(E)
        PROVE  ToSet(s) \subseteq E /\ (s # <<>> <=> ToSet(s) # {})
    OBVIOUS
  <2>2. ToSet(s) \subseteq E BY DEF ToSet
  <2>3. s # <<>> => Head(s) \in ToSet(s) BY TailIn
  <2>4. ToSet(<<>>) = {} BY DEF ToSet
  <2> QED BY <2>2, <2>3, <2>4
<1>2. /\ w.up \in [Connection -> Seq(UpMessage(Job))]
      /\ w.down \in [Connection -> Seq(DownMessage(Job, Job))]
      /\ w = [up |-> w.up, down |-> w.down]
  BY DEF Wired, WireOK
<1> QED BY <1>1, <1>2 DEF Ups, Downs

(* A message more on one connection.                                        *)
LEMMA UpIs ==
  ASSUME NEW w, Wired(w), NEW c \in Connection, NEW m \in UpMessage(Job)
  PROVE  /\ Wired(Up(w, c, m))
         /\ \A b \in Connection : /\ Ups(Up(w, c, m), b) = Ups(w, b) \cup {x \in {m} : b = c}
                                  /\ Downs(Up(w, c, m), b) = Downs(w, b)
<1>1. PICK v : v = Up(w, c, m) OBVIOUS
<1>2. Wired(v) BY <1>1, UpOK DEF Wired
<1>3. PICK s : s = w.up[c] OBVIOUS
<1>4. s \in Seq(UpMessage(Job)) BY <1>3, WiredIs
<1>5. ToSet(Append(s, m)) = ToSet(s) \cup {m} BY <1>4, AppendIn
<1>6. v.down = w.down /\ \A b \in Connection : v.up[b] = IF b = c THEN Append(s, m) ELSE w.up[b]
  BY <1>1, <1>3, WiredIs DEF Up
<1> QED BY <1>1, <1>2, <1>3, <1>5, <1>6 DEF Ups, Downs

(* A discovery more on each connection of S.                               *)
LEMMA DiscoversIs ==
  ASSUME NEW w, Wired(w), NEW of \in Connection \cup Discovery, NEW S, NEW v,
         v = Discovers(w, of, S)
  PROVE  /\ Wired(v)
         /\ \A b \in Connection :
              /\ Ups(v, b) = Ups(w, b)
                   \cup {x \in {[type |-> "discover", corr |-> [of |-> of, conn |-> b]]} : b \in S}
              /\ Downs(v, b) = Downs(w, b)
<1> DEFINE m(c) == [type |-> "discover", corr |-> [of |-> of, conn |-> c]]
<1>1. Wired(v) BY DiscoversOK DEF Wired
<1>2. /\ v.down = w.down
      /\ \A b \in Connection : v.up[b] = IF b \in S THEN Append(w.up[b], m(b)) ELSE w.up[b]
  BY WiredIs DEF Discovers
<1>3. ASSUME NEW b \in Connection PROVE Ups(v, b) = Ups(w, b) \cup {x \in {m(b)} : b \in S}
  <2>1. PICK s, e : s = w.up[b] /\ e = m(b) OBVIOUS
  <2>2. s \in Seq(UpMessage(Job)) BY <2>1, WiredIs
  <2>3. e \in UpMessage(Job) BY <2>1 DEF UpMessage, Asked
  <2>4. ToSet(Append(s, e)) = ToSet(s) \cup {e} BY <2>2, <2>3, AppendIn
  <2> HIDE DEF m
  <2> QED BY <1>2, <2>1, <2>4 DEF Ups
<1> QED BY <1>1, <1>2, <1>3 DEF Downs

(* The same on the way down: f[c] on the connections of S.                  *)
LEMMA DownIs ==
  ASSUME NEW w, Wired(w), NEW v, Wired(v), v.up = w.up, NEW S, NEW f,
         \A c \in Connection : v.down[c] = IF c \in S THEN Append(w.down[c], f[c]) ELSE w.down[c],
         \A c \in S \cap Connection : f[c] \in DownMessage(Job, Job)
  PROVE  \A b \in Connection : /\ Ups(v, b) = Ups(w, b)
                               /\ Downs(v, b) = Downs(w, b) \cup {x \in {f[b]} : b \in S}
<1>1. ASSUME NEW b \in Connection
      PROVE  Downs(v, b) = Downs(w, b) \cup {x \in {f[b]} : b \in S}
  <2>1. PICK s, e : s = w.down[b] /\ e = f[b] OBVIOUS
  <2>2. s \in Seq(DownMessage(Job, Job)) BY <2>1, WiredIs
  <2>3. CASE b \in S
    <3>1. e \in DownMessage(Job, Job) BY <2>1, <2>3
    <3>2. ToSet(Append(s, e)) = ToSet(s) \cup {e} BY <2>2, <3>1, AppendIn
    <3> QED BY <2>1, <2>3, <3>2 DEF Downs
  <2>4. CASE b \notin S BY <2>1, <2>4 DEF Downs
  <2> QED BY <2>3, <2>4
<1> QED BY <1>1 DEF Ups

(* What is read is what was on the connection and is not left.              *)
LEMMA UpRead ==
  ASSUME NEW w, Wired(w), NEW c \in Connection, w.up[c] # <<>>,
         NEW v, v = [w EXCEPT !.up[c] = Tail(@)]
  PROVE  /\ Wired(v) /\ Head(w.up[c]) \in UpMessage(Job)
         /\ Ups(w, c) = Ups(v, c) \cup {Head(w.up[c])}
         /\ \A b \in Connection : /\ b # c => Ups(v, b) = Ups(w, b)
                                  /\ Downs(v, b) = Downs(w, b)
<1>1. Wired(v) BY ReadsUp DEF Wired
<1>2. PICK s : s = w.up[c] OBVIOUS
<1>3. s \in Seq(UpMessage(Job)) BY <1>2, WiredIs
<1>4. Head(s) \in UpMessage(Job) /\ ToSet(s) = ToSet(Tail(s)) \cup {Head(s)} BY <1>2, <1>3, TailIn
<1>5. v.down = w.down /\ \A b \in Connection : v.up[b] = IF b = c THEN Tail(s) ELSE w.up[b]
  BY <1>2, WiredIs
<1> QED BY <1>1, <1>2, <1>4, <1>5 DEF Ups, Downs

(* The same on the way down.                                                *)
LEMMA DownRead ==
  ASSUME NEW w, Wired(w), NEW c \in Connection, w.down[c] # <<>>,
         NEW v, v = [w EXCEPT !.down[c] = Tail(@)]
  PROVE  /\ Wired(v) /\ Head(w.down[c]) \in DownMessage(Job, Job)
         /\ Downs(w, c) = Downs(v, c) \cup {Head(w.down[c])}
         /\ \A b \in Connection : /\ b # c => Downs(v, b) = Downs(w, b)
                                  /\ Ups(v, b) = Ups(w, b)
<1>1. Wired(v) BY ReadsDown DEF Wired
<1>2. PICK s : s = w.down[c] OBVIOUS
<1>3. s \in Seq(DownMessage(Job, Job)) BY <1>2, WiredIs
<1>4. Head(s) \in DownMessage(Job, Job) /\ ToSet(s) = ToSet(Tail(s)) \cup {Head(s)}
  BY <1>2, <1>3, TailIn
<1>5. v.up = w.up /\ \A b \in Connection : v.down[b] = IF b = c THEN Tail(s) ELSE w.down[b]
  BY <1>2, WiredIs
<1> QED BY <1>1, <1>2, <1>4, <1>5 DEF Ups, Downs

(* What a step of the ends leaves in the channels.                          *)
LEMMA BecomeIs ==
  ASSUME NEW o, NEW i, NEW w, Wired(w), Become(o, i, w)
  PROVE  /\ Wired(wire') /\ outbound' = o /\ inbound' = i
         /\ \A c \in Connection :
              /\ Ups(wire', c) = IF c \in i.connections THEN Ups(w, c) ELSE {}
              /\ Downs(wire', c) = IF c \in o.connections THEN Downs(w, c) ELSE {}
<1>1. Wired(wire') /\ outbound' = o /\ inbound' = i BY BecomeOK DEF Wired, Become
<1>2. ToSet(<<>>) = {} BY DEF ToSet
<1>3. \A c \in Connection :
        /\ (wire').up[c] = IF c \in i.connections THEN w.up[c] ELSE <<>>
        /\ (wire').down[c] = IF c \in o.connections THEN w.down[c] ELSE <<>>
  BY DEF Become
<1> QED BY <1>1, <1>2, <1>3 DEF Ups, Downs

(* Nothing is unread.                                                       *)
Empty(o, i, w) ==
  \A c \in Connection : /\ c \notin i.connections => Ups(w, c) = {}
                        /\ c \notin o.connections => Downs(w, c) = {}
(* Unread names the connections with something unread.                      *)
LEMMA UnreadIs ==
  ASSUME NEW o, NEW i, NEW w, Wired(w)
  PROVE  Unread(o, i, w) = {} <=> Empty(o, i, w)
  BY WiredIs DEF Unread, Empty

(* A channel carries what is in it.                                         *)
LEMMA CarriesIs ==
  ASSUME NEW s, NEW t, NEW k
  PROVE  Carries(s, t, k) <=> \E m \in ToSet(s) : m.type = t /\ m.corr = k
  BY DEF Carries, ToSet
-----------------------------------------------------------------------------
(* The state of the ends o and i and of the wire w, while the connections   *)
(* ct are cut, b says whether one ever was, the inbound has the lookups L,  *)
(* the other domain works on R, and A has been asked.                       *)
InboundState ==
  [level : {"running", "shutdown", "error", "ended"}, connections : SUBSET Connection,
   correlations : SUBSET [corr : Request \cup Job \cup Asked \cup Leaving, conn : Connection],
   requests : SUBSET Request, disconnects : SUBSET Connection,
   conversations : SUBSET [corr : Request, conn : Connection]]
Work ==
  [busy : SUBSET (Request \cup Job \cup Asked), talking : SUBSET Request,
   touched : SUBSET [trid : Trid \cup {None}, conn : Connection], done : SUBSET Job]

(* Nothing has gone wrong.                                                  *)
Quiet(o, i, w, b) == ~ b /\ o.level # "error" /\ i.level # "error" /\ Empty(o, i, w)
Running(o, i) == o.level = "running" /\ i.level = "running"

(* The connections of the ends, and those of what they keep of requests.    *)
Fits(o, i) ==
  /\ o.connections \cap o.unconnected = {}
  /\ o.level \in {"error", "ended"} => o.connections = {}
  /\ i.level = "error" => i.connections = {}
  /\ \A x \in i.correlations :
       /\ x.corr \notin Leaving => x.conn \in i.connections
       /\ x.corr \notin Request => x.conn = x.corr.conn
  /\ \A p \in o.routes :
       /\ p.corr \in Request => p.kind = KindOf[p.corr]
       /\ p.corr \in Job => p.kind = "resource" /\ p.conn \in {p.corr.conn, None}
Aimed(w) ==
  \A c \in Connection : \A m \in Ups(w, c) \cup Downs(w, c) : m.corr \notin Request => m.corr.conn = c

(* A request is on one connection.                                          *)
At(o, i, w, r, c) ==
  \/ c \in Connection /\ \E m \in Ups(w, c) : m.corr = r
  \/ \E x \in i.correlations : x.corr = r /\ x.conn = c
  \/ \E p \in o.routes : p.corr = r /\ p.conn = c
Single(o, i, w, A) ==
  \A r \in Request : \A c, d \in Connection \cup {None} :
    At(o, i, w, r, c) => r \in A /\ (At(o, i, w, r, d) => c = d)

(* Before a discovery has been answered, what is known is of connections.   *)
Early(o) ==
  o.level \in {"running", "shutdown"} =>
    /\ Discovering(o, Connection, o.connections, {})
    /\ o.told = {} => \A p \in o.routes : p.kind \in {"call", "queue"} => p.conn \in o.connections

(* The answer that the route p waits for is on its way.                     *)
Working(k, i, L, R) ==
  \/ k \in Queueless \cup R.busy
  \/ k \in i.requests /\ \E l \in L : l.corr = k
Flow(p, i, w, L, R) ==
  \/ \E m \in Ups(w, p.conn) : m.type \in {"request", "resource"} /\ m.corr = p.corr
  \/ \E m \in Downs(w, p.conn) : m.type \in {"reply", "vote"} /\ m.corr = p.corr
  \/ /\ \E x \in i.correlations : x.corr = p.corr /\ x.conn = p.conn
     /\ Working(p.corr, i, L, R)
EarlyFlow(o, i, w, ct, L, R) ==
  o.told = {} =>
    \A p \in o.routes : p.kind \in {"call", "queue"} /\ p.conn \in o.connections =>
      p.conn \in ct \/ p.conn \notin i.connections \/ Flow(p, i, w, L, R)
AllFlow(o, i, w, L, R) ==
  \A p \in o.routes : p.kind # "conversation" /\ p.conn \in o.connections => Flow(p, i, w, L, R)

NoneLost(o) == \A x \in o.replies : x.corr \in Request => x.code # "lost"

(* While both ends run and nothing goes wrong they have the same            *)
(* connections, and nothing is on its way out.                              *)
Opened(o, i, w) ==
  /\ o.connections = i.connections /\ o.disconnecting = {}
  /\ \A c \in Connection : /\ \A m \in Ups(w, c) : m.type # "disconnected"
                           /\ \A m \in Downs(w, c) : m.type # "disconnect"
  /\ Discovering(o, o.connections, o.connections, {})
  /\ \A p \in o.routes : p.kind = "conversation" \/ p.conn \in o.connections \cup {None}
  /\ \A x \in o.branches : x.conn \in o.connections

Pre(o, i, w, ct, b, L, R, A) ==
  /\ o \in OutboundState /\ i \in InboundState /\ Wired(w)
  /\ Fits(o, i) /\ Aimed(w) /\ Single(o, i, w, A) /\ Early(o)
  /\ EarlyFlow(o, i, w, ct, L, R)
  /\ Quiet(o, i, w, b) => /\ AllFlow(o, i, w, L, R)
                          /\ NoneLost(o)
                          /\ Running(o, i) => Opened(o, i, w)

Managed(T) ==
  T \in [stage : [Trid -> {"active", "prepare", "commit", "rollback", "committed", "rolledback"}],
         jobs : SUBSET Job]

IInv ==
  /\ Pre(outbound, inbound, wire, cut, broken, lookups, remote, asked)
  /\ Empty(outbound, inbound, wire)
  /\ cut \subseteq Connection /\ broken \in BOOLEAN /\ (cut # {} => broken)
  /\ lookups \subseteq LookupState /\ remote \in Work /\ Managed(tm)
  /\ remote.done \subseteq tm.jobs
-----------------------------------------------------------------------------
(* Requests, jobs, discoveries and disconnects are not each other.          *)
LEMMA RequestIs ==
  /\ Request \cap (Job \cup Asked \cup Leaving) = {}
  /\ Job \cap (Asked \cup Leaving) = {}
<1>1. Asked \cup Leaving \subseteq [of : Connection \cup Discovery \cup {"disconnect"}, conn : Connection]
  BY DEF Asked, Leaving
<1>2. \A j \in Job : "trid" \in DOMAIN j BY DEF Job
<1>3. \A x \in Asked \cup Leaving : "trid" \notin DOMAIN x BY DEF Asked, Leaving
<1> QED BY <1>1, <1>2, <1>3, GatewayAssumption DEF GatewayAssumption

(* The flow of a route is what is on its connection.                        *)
LEMMA FlowSame ==
  ASSUME NEW p, NEW i, NEW w, NEW v, NEW L, NEW R,
         Ups(v, p.conn) = Ups(w, p.conn), Downs(v, p.conn) = Downs(w, p.conn),
         Flow(p, i, w, L, R)
  PROVE  Flow(p, i, v, L, R)
  BY DEF Flow

(* A step of the ends keeps the invariant when what it makes of them fits.  *)
LEMMA BecomeIInv ==
  ASSUME NEW o, NEW i, NEW w, NEW L \in SUBSET LookupState, NEW R \in Work, NEW A,
         NEW d \in SUBSET Connection, NEW e \in BOOLEAN, d # {} => e,
         Pre(o, i, w, d, e, L, R, A), Become(o, i, w),
         cut' = d \cup Unread(o, i, w), broken' = (e \/ Unread(o, i, w) # {}),
         lookups' = L, remote' = R, asked' = A, Managed(tm'), R.done \subseteq tm'.jobs
  PROVE  IInv'
<1>1. Wired(w) BY DEF Pre
<1>2. PICK v : v = wire' OBVIOUS
<1>3. /\ Wired(v) /\ outbound' = o /\ inbound' = i
      /\ \A c \in Connection :
           /\ Ups(v, c) = IF c \in i.connections THEN Ups(w, c) ELSE {}
           /\ Downs(v, c) = IF c \in o.connections THEN Downs(w, c) ELSE {}
  BY <1>1, <1>2, BecomeIs
<1>4. PICK ct, b : ct = cut' /\ b = broken' OBVIOUS
<1>5. ct = d \cup Unread(o, i, w) /\ b = (e \/ Unread(o, i, w) # {}) BY <1>4
<1>6. /\ ct \subseteq Connection /\ b \in BOOLEAN /\ (ct # {} => b)
      /\ d \subseteq ct /\ (~ b => ~ e /\ Empty(o, i, w))
  <2>1. PICK N : N = Unread(o, i, w) OBVIOUS
  <2>2. N \subseteq Connection /\ (N = {} <=> Empty(o, i, w)) BY <1>1, <2>1, UnreadIs DEF Unread
  <2>3. ct = d \cup N /\ b = (e \/ N # {}) BY <1>5, <2>1
  <2> QED BY <2>2, <2>3
<1>7. Empty(o, i, v) BY <1>3 DEF Empty
<1>8. o \in OutboundState /\ i \in InboundState /\ Fits(o, i) /\ Early(o) BY DEF Pre
<1>9. Aimed(v) BY <1>3 DEF Pre, Aimed
<1>10. Single(o, i, v, A)
  <2>1. \A r, c : At(o, i, v, r, c) => At(o, i, w, r, c) BY <1>3 DEF At
  <2> QED BY <2>1 DEF Pre, Single
<1>11. \A p \in o.routes : p.conn \in o.connections /\ p.conn \in i.connections /\ Flow(p, i, w, L, R) =>
         Flow(p, i, v, L, R)
  <2>1. SUFFICES ASSUME NEW p \in o.routes, p.conn \in o.connections, p.conn \in i.connections,
                        Flow(p, i, w, L, R)
        PROVE  Flow(p, i, v, L, R)
    OBVIOUS
  <2>2. p.conn \in Connection BY <1>8, <2>1 DEF OutboundState
  <2> QED BY <1>3, <2>1, <2>2, FlowSame
<1>12. EarlyFlow(o, i, v, ct, L, R) BY <1>6, <1>11 DEF Pre, EarlyFlow
<1>13. ASSUME Quiet(o, i, v, b)
       PROVE  AllFlow(o, i, v, L, R) /\ NoneLost(o) /\ (Running(o, i) => Opened(o, i, v))
  <2>1. Quiet(o, i, w, e) BY <1>6, <1>13 DEF Quiet
  <2>2. AllFlow(o, i, w, L, R) /\ NoneLost(o) /\ (Running(o, i) => Opened(o, i, w))
    BY <2>1 DEF Pre
  <2>3. \A c \in Connection : Ups(v, c) = Ups(w, c) /\ Downs(v, c) = Downs(w, c)
    BY <1>3, <2>1 DEF Quiet, Empty
  <2>4. AllFlow(o, i, v, L, R)
    <3>1. SUFFICES ASSUME NEW p \in o.routes, p.kind # "conversation", p.conn \in o.connections
          PROVE  Flow(p, i, v, L, R)
      BY DEF AllFlow
    <3>2. p.conn \in Connection BY <1>8, <3>1 DEF OutboundState
    <3> QED BY <2>2, <2>3, <3>1, <3>2, FlowSame DEF AllFlow
  <2>5. Running(o, i) => Opened(o, i, v) BY <2>2, <2>3 DEF Opened
  <2> QED BY <2>2, <2>4, <2>5
<1>14. Pre(o, i, v, ct, b, L, R, A)
  BY <1>3, <1>8, <1>9, <1>10, <1>12, <1>13 DEF Pre
<1> QED BY <1>2, <1>3, <1>4, <1>6, <1>7, <1>14 DEF IInv

(* The same of a step that may leave something unread.                      *)
LEMMA StepIInv ==
  ASSUME IInv, NEW o, NEW i, NEW w, NEW L \in SUBSET LookupState, NEW R \in Work, NEW A,
         Pre(o, i, w, cut, broken, L, R, A), Moves(o, i, w),
         lookups' = L, remote' = R, asked' = A, Managed(tm'), R.done \subseteq tm'.jobs
  PROVE  IInv'
<1>1. cut \in SUBSET Connection /\ broken \in BOOLEAN /\ (cut # {} => broken) BY DEF IInv
<1>2. /\ Become(o, i, w) /\ cut' = cut \cup Unread(o, i, w)
      /\ broken' = (broken \/ Unread(o, i, w) # {})
  BY DEF Moves
<1> QED BY <1>1, <1>2, BecomeIInv
-----------------------------------------------------------------------------
(* What the outbound does.                                                  *)

(* p has the connections of o, no more routes or branches, and no more to   *)
(* be found than that of connections.                                       *)
Milder(o, p) ==
  /\ p \in OutboundState /\ o.told \subseteq p.told
  /\ p.level = o.level /\ p.connections = o.connections /\ p.unconnected = o.unconnected
  /\ p.disconnecting = o.disconnecting
  /\ p.branches \subseteq o.branches /\ p.routes \subseteq o.routes
  /\ \A x \in p.replies \ o.replies : x.corr \in Request => x.code # "lost"
  /\ Discovering(o, Connection, o.connections, {}) => Discovering(p, Connection, o.connections, {})
  /\ Discovering(o, o.connections, o.connections, {}) =>
       Discovering(p, o.connections, o.connections, {})

(* A milder outbound fits where the other did.                              *)
LEMMA MilderPre ==
  ASSUME NEW o, NEW p, NEW i, NEW w, NEW ct, NEW b, NEW L, NEW R, NEW A,
         Pre(o, i, w, ct, b, L, R, A), Milder(o, p)
  PROVE  Pre(p, i, w, ct, b, L, R, A)
<1>1. p \in OutboundState /\ i \in InboundState /\ Wired(w) /\ Aimed(w) BY DEF Pre, Milder
<1>2. Fits(p, i) BY DEF Pre, Milder, Fits
<1>3. Single(p, i, w, A)
  <2>1. \A r, c : At(p, i, w, r, c) => At(o, i, w, r, c) BY DEF Milder, At
  <2> QED BY <2>1 DEF Pre, Single
<1>4. Early(p) BY DEF Pre, Milder, Early
<1>5. EarlyFlow(p, i, w, ct, L, R) BY DEF Pre, Milder, EarlyFlow
<1>6. ASSUME Quiet(p, i, w, b)
      PROVE  AllFlow(p, i, w, L, R) /\ NoneLost(p) /\ (Running(p, i) => Opened(p, i, w))
  <2>1. Quiet(o, i, w, b) BY <1>6 DEF Milder, Quiet, Empty
  <2>2. AllFlow(o, i, w, L, R) /\ NoneLost(o) /\ (Running(o, i) => Opened(o, i, w))
    BY <2>1 DEF Pre
  <2>3. AllFlow(p, i, w, L, R) BY <2>2 DEF Milder, AllFlow
  <2>4. NoneLost(p) BY <2>2 DEF Milder, NoneLost
  <2>5. Running(p, i) => Opened(p, i, w) BY <2>2 DEF Milder, Opened, Running
  <2> QED BY <2>3, <2>4, <2>5
<1> QED BY <1>1, <1>2, <1>3, <1>4, <1>5, <1>6 DEF Pre

(* What a discovery changes is milder.                                      *)
LEMMA AlikeMilder ==
  ASSUME NEW o, NEW p, Alike(o, p),
         Discovering(o, Connection, o.connections, {}) => Discovering(p, Connection, o.connections, {}),
         Discovering(o, o.connections, o.connections, {}) =>
           Discovering(p, o.connections, o.connections, {})
  PROVE  Milder(o, p)
  BY DEF Alike, Milder

(* An outbound that differs in its branches, routes and replies.            *)
LEMMA SameMilder ==
  ASSUME NEW o \in OutboundState, NEW p \in OutboundState, o.told \subseteq p.told,
         p.level = o.level, p.connections = o.connections, p.unconnected = o.unconnected,
         p.disconnecting = o.disconnecting,
         p.branches \subseteq o.branches, p.routes \subseteq o.routes,
         \A x \in p.replies \ o.replies : x.corr \in Request => x.code # "lost",
         p.discovery = o.discovery, \A r \in Resource : p.lookup[r] \subseteq o.lookup[r]
  PROVE  Milder(o, p)
<1>1. \A K, M : Discovering(o, K, M, {}) => Discovering(p, K, M, {})
  <2>1. SUFFICES ASSUME NEW K, NEW M, Discovering(o, K, M, {}) PROVE Discovering(p, K, M, {}) OBVIOUS
  <2>2. /\ o.discovery \in Seq({e \in EntryState : Waits(e, K)})
        /\ \A r \in Resource : o.lookup[r] \subseteq K
        /\ o.told = {} => \A r \in Resource : o.lookup[r] \subseteq M
    BY <2>1, DiscoveringIs
  <2>3. p.lookup \in [Resource -> SUBSET Connection] /\ p.told \in SUBSET Discovery
    BY DEF OutboundState
  <2>4. p.discovery \in Seq({e \in EntryState : Waits(e, K)}) BY <2>2
  <2> QED BY <2>2, <2>3, <2>4, DiscoveringIs
<1> QED BY <1>1 DEF Milder

(* An answer that is not a loss.                                            *)
LEMMA ReplyMilder ==
  ASSUME NEW o \in OutboundState, NEW corr \in Request \cup Job, NEW code \in Code,
         corr \in Request => code # "lost"
  PROVE  Milder(o, Reply(o, corr, code))
<1>1. PICK x, S : x = [corr |-> corr, code |-> code] /\ S = o.replies \cup {x} OBVIOUS
<1>2. x \in [corr : Request \cup Job, code : Code] BY <1>1
<1>3. S \in SUBSET [corr : Request \cup Job, code : Code] BY <1>1, <1>2 DEF OutboundState
<1>4. PICK p : p = [o EXCEPT !.replies = S] OBVIOUS
<1>5. /\ p \in OutboundState /\ p.told = o.told /\ p.level = o.level
      /\ p.connections = o.connections /\ p.unconnected = o.unconnected
      /\ p.disconnecting = o.disconnecting /\ p.branches = o.branches /\ p.routes = o.routes
      /\ p.replies = S /\ p.discovery = o.discovery /\ p.lookup = o.lookup
  BY <1>3, <1>4 DEF OutboundState
<1>6. \A y \in p.replies \ o.replies : y.corr \in Request => y.code # "lost" BY <1>1, <1>5
<1>7. Milder(o, p) BY <1>5, <1>6, SameMilder
<1>8. p = Reply(o, corr, code) BY <1>1, <1>4 DEF Reply, OutboundState
<1> QED BY <1>7, <1>8

(* Routes that go without an answer.                                        *)
LEMMA FewerMilder ==
  ASSUME NEW o \in OutboundState, NEW S \in SUBSET o.routes, NEW p, p = [o EXCEPT !.routes = S]
  PROVE  Milder(o, p)
<1>1. /\ p \in OutboundState /\ p.told = o.told /\ p.level = o.level
      /\ p.connections = o.connections /\ p.unconnected = o.unconnected
      /\ p.disconnecting = o.disconnecting /\ p.branches = o.branches /\ p.routes = S
      /\ p.replies = o.replies /\ p.discovery = o.discovery /\ p.lookup = o.lookup
  BY DEF OutboundState
<1> QED BY <1>1, SameMilder

(* Two changes, one after the other.                                        *)
LEMMA MilderThen ==
  ASSUME NEW o, NEW p, NEW q, Milder(o, p), Milder(p, q)
  PROVE  Milder(o, q)
  BY DEF Milder

(* More has been asked.                                                     *)
LEMMA MorePre ==
  ASSUME NEW o, NEW i, NEW w, NEW ct, NEW b, NEW L, NEW R, NEW A, NEW B,
         Pre(o, i, w, ct, b, L, R, A), A \subseteq B
  PROVE  Pre(o, i, w, ct, b, L, R, B)
  BY DEF Pre, Single

(* The connections S are lost. While nothing has gone wrong they are those  *)
(* that the inbound has closed, with nothing left to be read, or those on   *)
(* their way out that have no routes.                                       *)
LEMMA LostPre ==
  ASSUME NEW o, NEW i, NEW w, NEW ct, NEW b, NEW L, NEW R, NEW A,
         Pre(o, i, w, ct, b, L, R, A), NEW S \in SUBSET Connection,
         ~ b => \A c \in S : \/ c \in o.connections /\ c \notin i.connections
                             \/ c \in o.disconnecting /\ RoutesOf(o, {c}) = {}
  PROVE  Pre(Lost(o, S), i, w, ct, b, L, R, A)
<1>0. o \in OutboundState /\ i \in InboundState /\ Wired(w) /\ Aimed(w) BY DEF Pre
<1>1. PICK p : p = Lost(o, S) OBVIOUS
<1>2. Loses(o, p, S) BY <1>0, <1>1, LostIs
<1>3. \A q \in p.routes : q \in o.routes /\ q.conn \notin S BY <1>2 DEF Loses, RoutesOf
<1>4. p \in OutboundState BY <1>2 DEF Loses
<1>5. Fits(p, i) BY <1>2, <1>3 DEF Pre, Fits, Loses
<1>6. Single(p, i, w, A)
  <2>1. \A r, c : At(p, i, w, r, c) => At(o, i, w, r, c) BY <1>3 DEF At
  <2> QED BY <2>1 DEF Pre, Single
<1>7. Early(p)
  <2>1. SUFFICES ASSUME p.level \in {"running", "shutdown"}
        PROVE  /\ Discovering(p, Connection, p.connections, {})
               /\ p.told = {} => \A q \in p.routes : q.kind \in {"call", "queue"} =>
                                                       q.conn \in p.connections
    BY DEF Early
  <2>2. /\ Discovering(o, Connection, o.connections, {})
        /\ o.told = {} => \A q \in o.routes : q.kind \in {"call", "queue"} => q.conn \in o.connections
    BY <1>2, <2>1 DEF Pre, Early, Loses
  <2>3. Discovering(p, Connection, o.connections \ S, {}) BY <1>2, <2>2 DEF Loses
  <2> QED BY <1>2, <1>3, <2>2, <2>3 DEF Loses
<1>8. EarlyFlow(p, i, w, ct, L, R)
  <2>1. EarlyFlow(o, i, w, ct, L, R) BY DEF Pre
  <2> QED BY <1>2, <1>3, <2>1 DEF Loses, EarlyFlow
<1>9. ASSUME Quiet(p, i, w, b)
      PROVE  AllFlow(p, i, w, L, R) /\ NoneLost(p) /\ (Running(p, i) => Opened(p, i, w))
  <2>1. Quiet(o, i, w, b) BY <1>2, <1>9 DEF Loses, Quiet, Empty
  <2>2. AllFlow(o, i, w, L, R) /\ NoneLost(o) /\ (Running(o, i) => Opened(o, i, w))
    BY <2>1 DEF Pre
  <2>3. AllFlow(p, i, w, L, R) BY <1>2, <1>3, <2>2 DEF Loses, AllFlow
  <2>4. ~ b /\ Empty(p, i, w) BY <1>9 DEF Quiet
  <2>5. ASSUME NEW q \in RoutesOf(o, S), q.corr \in Request, q.kind # "conversation" PROVE FALSE
    <3>1. q \in o.routes /\ q.conn \in S BY <2>5 DEF RoutesOf
    <3>2. RoutesOf(o, {q.conn}) # {} BY <3>1 DEF RoutesOf
    <3>3. q.conn \in o.connections /\ q.conn \notin i.connections BY <2>4, <3>1, <3>2
    <3>4. Flow(q, i, w, L, R) BY <2>2, <2>5, <3>1, <3>3 DEF AllFlow
    <3>5. q.conn \in Connection /\ q.conn \notin p.connections BY <1>2, <3>1 DEF Loses
    <3>6. Ups(w, q.conn) = {} /\ Downs(w, q.conn) = {} BY <2>4, <3>3, <3>5 DEF Empty
    <3>7. \A x \in i.correlations : x.corr = q.corr => x.conn # q.conn
      <4>1. q.corr \notin Leaving BY <2>5, RequestIs
      <4> QED BY <3>3, <4>1 DEF Pre, Fits
    <3> QED BY <3>4, <3>6, <3>7 DEF Flow
  <2>6. NoneLost(p)
    <3>1. \A x \in ErrorReplies(RoutesOf(o, S)) : x.corr \notin Request BY <2>5 DEF ErrorReplies
    <3> QED BY <1>2, <2>2, <3>1 DEF Loses, NoneLost
  <2>7. ASSUME Running(p, i) PROVE Opened(p, i, w)
    <3>1. Opened(o, i, w) BY <1>2, <2>2, <2>7 DEF Loses, Running
    <3>2. S = {} BY <2>4, <3>1 DEF Opened
    <3>3. /\ p.connections = o.connections /\ p.disconnecting = {} /\ p.branches = o.branches
          /\ p.routes \subseteq o.routes
      BY <1>2, <1>3, <3>1, <3>2 DEF Loses, Opened
    <3>4. Discovering(p, o.connections, o.connections \ S, {}) BY <1>2, <3>1 DEF Loses, Opened
    <3>5. o.connections \ S = o.connections BY <3>2
    <3> QED BY <3>1, <3>3, <3>4, <3>5 DEF Opened
  <2> QED BY <2>3, <2>6, <2>7
<1>10. Pre(p, i, w, ct, b, L, R, A)
  BY <1>0, <1>4, <1>5, <1>6, <1>7, <1>8, <1>9 DEF Pre
<1> QED BY <1>1, <1>10

(* The outbound leaves with an error.                                       *)
LEMMA AbortedPre ==
  ASSUME NEW o, NEW i, NEW w, NEW ct, NEW b, NEW L, NEW R, NEW A,
         Pre(o, i, w, ct, b, L, R, A)
  PROVE  Pre(Aborted(o), i, w, ct, b, L, R, A)
<1>0. o \in OutboundState /\ i \in InboundState /\ Wired(w) /\ Aimed(w) BY DEF Pre
<1>1. PICK E, Q, p : /\ E = ErrorReplies({q \in o.routes : q.kind # "call"})
                     /\ Q = {q \in o.routes : q.kind = "call"} /\ p = Aborted(o)
  OBVIOUS
<1>2. E \in SUBSET [corr : Request \cup Job, code : Code] BY <1>0, <1>1, ErrorsAre
<1>3. p = [o EXCEPT !.level = "error", !.connections = {}, !.disconnecting = {},
                    !.replies = @ \cup E, !.routes = Q]
  BY <1>0, <1>1 DEF Aborted, OutboundState
<1>4. Q \subseteq o.routes BY <1>1
<1>5. /\ p \in OutboundState /\ p.level = "error" /\ p.connections = {}
      /\ p.routes \subseteq o.routes
  BY <1>0, <1>2, <1>3, <1>4 DEF OutboundState
<1>6. Fits(p, i) BY <1>5 DEF Pre, Fits
<1>7. Single(p, i, w, A)
  <2>1. \A r, c : At(p, i, w, r, c) => At(o, i, w, r, c) BY <1>5 DEF At
  <2> QED BY <2>1 DEF Pre, Single
<1>8. Early(p) /\ EarlyFlow(p, i, w, ct, L, R) /\ ~ Quiet(p, i, w, b)
  BY <1>5 DEF Early, EarlyFlow, Quiet
<1> QED BY <1>0, <1>1, <1>5, <1>6, <1>7, <1>8 DEF Pre

(* The outbound has connections on their way out, or is to end, while       *)
(* something is wrong or one of the ends does not run.                      *)
LEMMA LeavesPre ==
  ASSUME NEW o, NEW i, NEW w, NEW ct, NEW b, NEW L, NEW R, NEW A,
         Pre(o, i, w, ct, b, L, R, A), NEW p \in OutboundState,
         o.told \subseteq p.told, p.connections = o.connections,
         p.unconnected \subseteq o.unconnected, p.routes = o.routes, p.replies = o.replies,
         \A K, M : Discovering(o, K, M, {}) => Discovering(p, K, M, {}),
         p.level = o.level \/ (p.level = "shutdown" /\ o.level = "running"),
         Quiet(o, i, w, b) => ~ Running(p, i)
  PROVE  Pre(p, i, w, ct, b, L, R, A)
<1>1. i \in InboundState /\ Wired(w) /\ Aimed(w) BY DEF Pre
<1>2. Fits(p, i) BY DEF Pre, Fits
<1>3. Single(p, i, w, A)
  <2>1. \A r, c : At(p, i, w, r, c) => At(o, i, w, r, c) BY DEF At
  <2> QED BY <2>1 DEF Pre, Single
<1>4. Early(p)
  <2>1. p.level \in {"running", "shutdown"} => o.level \in {"running", "shutdown"} OBVIOUS
  <2> QED BY <2>1 DEF Pre, Early
<1>5. EarlyFlow(p, i, w, ct, L, R) BY DEF Pre, EarlyFlow
<1>6. ASSUME Quiet(p, i, w, b)
      PROVE  AllFlow(p, i, w, L, R) /\ NoneLost(p) /\ ~ Running(p, i)
  <2>1. Quiet(o, i, w, b) BY <1>6 DEF Quiet, Empty
  <2> QED BY <2>1 DEF Pre, AllFlow, NoneLost
<1> QED BY <1>1, <1>2, <1>3, <1>4, <1>5, <1>6 DEF Pre

(* The outbound ends when it has no routes left.                            *)
LEMMA EndsPre ==
  ASSUME NEW o, NEW i, NEW w, NEW ct, NEW b, NEW L, NEW R, NEW A,
         Pre(o, i, w, ct, b, L, R, A), o.routes = {}, o.level = "shutdown",
         NEW p, p = [o EXCEPT !.level = "ended", !.connections = {}, !.disconnecting = {}]
  PROVE  Pre(p, i, w, ct, b, L, R, A)
<1>1. o \in OutboundState /\ i \in InboundState /\ Wired(w) /\ Aimed(w) BY DEF Pre
<1>2. /\ p \in OutboundState /\ p.level = "ended" /\ p.connections = {}
      /\ p.routes = {} /\ p.replies = o.replies
  BY <1>1 DEF OutboundState
<1>3. Fits(p, i) BY <1>2 DEF Pre, Fits
<1>4. Single(p, i, w, A)
  <2>1. \A r, c : At(p, i, w, r, c) => At(o, i, w, r, c) BY <1>2 DEF At
  <2> QED BY <2>1 DEF Pre, Single
<1>5. Early(p) /\ EarlyFlow(p, i, w, ct, L, R) /\ AllFlow(p, i, w, L, R) /\ ~ Running(p, i)
  BY <1>2 DEF Early, EarlyFlow, AllFlow, Running
<1>6. ASSUME Quiet(p, i, w, b) PROVE NoneLost(p)
  <2>1. \A c \in o.connections : c \in Connection BY <1>1 DEF OutboundState
  <2>2. Quiet(o, i, w, b) BY <1>2, <1>6, <2>1 DEF Quiet, Empty
  <2>3. o.level # "error" OBVIOUS
  <2> QED BY <1>2, <2>2 DEF Pre, NoneLost
<1> QED BY <1>1, <1>2, <1>3, <1>4, <1>5, <1>6 DEF Pre

(* Lost connections are to be connected again.                              *)
LEMMA ReconnectPre ==
  ASSUME NEW o, NEW i, NEW w, NEW ct, NEW b, NEW L, NEW R, NEW A,
         Pre(o, i, w, ct, b, L, R, A), NEW S \in SUBSET Connection, S \cap o.connections = {}
  PROVE  Pre(Reconnect(o, S), i, w, ct, b, L, R, A)
<1>1. o \in OutboundState /\ i \in InboundState /\ Wired(w) /\ Aimed(w) BY DEF Pre
<1>2. PICK p : p = [o EXCEPT !.unconnected = @ \cup S] OBVIOUS
<1>3. /\ p \in OutboundState /\ p.level = o.level /\ p.connections = o.connections
      /\ p.unconnected = o.unconnected \cup S /\ p.routes = o.routes /\ p.told = o.told
      /\ p.replies = o.replies /\ p.disconnecting = o.disconnecting /\ p.branches = o.branches
      /\ p.lookup = o.lookup /\ p.discovery = o.discovery
  BY <1>1, <1>2 DEF OutboundState
<1>4. Fits(p, i) BY <1>3 DEF Pre, Fits
<1>5. Single(p, i, w, A)
  <2>1. \A r, c : At(p, i, w, r, c) => At(o, i, w, r, c) BY <1>3 DEF At
  <2> QED BY <2>1 DEF Pre, Single
<1>6. \A K, M, T : Discovering(o, K, M, T) => Discovering(p, K, M, T) BY <1>3, SameFinds
<1>7. Early(p) BY <1>3, <1>6 DEF Pre, Early
<1>8. EarlyFlow(p, i, w, ct, L, R) BY <1>3 DEF Pre, EarlyFlow
<1>9. ASSUME Quiet(p, i, w, b)
      PROVE  AllFlow(p, i, w, L, R) /\ NoneLost(p) /\ (Running(p, i) => Opened(p, i, w))
  <2>1. Quiet(o, i, w, b) BY <1>3, <1>9 DEF Quiet, Empty
  <2>2. AllFlow(o, i, w, L, R) /\ NoneLost(o) /\ (Running(o, i) => Opened(o, i, w))
    BY <2>1 DEF Pre
  <2>3. AllFlow(p, i, w, L, R) /\ NoneLost(p) BY <1>3, <2>2 DEF AllFlow, NoneLost
  <2>4. Running(p, i) => Opened(p, i, w) BY <1>3, <1>6, <2>2 DEF Running, Opened
  <2> QED BY <2>3, <2>4
<1>10. Pre(p, i, w, ct, b, L, R, A) BY <1>1, <1>3, <1>4, <1>5, <1>7, <1>8, <1>9 DEF Pre
<1> QED BY <1>2, <1>10 DEF Reconnect

(* A message goes up.                                                       *)
LEMMA UpPre ==
  ASSUME NEW o, NEW i, NEW w, NEW ct, NEW b, NEW L, NEW R, NEW A,
         Pre(o, i, w, ct, b, L, R, A), NEW c \in Connection, NEW m \in UpMessage(Job),
         m.corr \in Request =>
           m.corr \in A /\ \A d \in Connection \cup {None} : At(o, i, w, m.corr, d) => d = c,
         m.corr \notin Request => m.corr.conn = c,
         m.type = "disconnected" => ~ (Quiet(o, i, w, b) /\ Running(o, i))
  PROVE  Pre(o, i, Up(w, c, m), ct, b, L, R, A)
<1>1. o \in OutboundState /\ i \in InboundState /\ Wired(w) /\ Fits(o, i) /\ Early(o) BY DEF Pre
<1>2. PICK v : v = Up(w, c, m) OBVIOUS
<1>3. /\ Wired(v)
      /\ \A d \in Connection : /\ Ups(v, d) = Ups(w, d) \cup {x \in {m} : d = c}
                               /\ Downs(v, d) = Downs(w, d)
  BY <1>1, <1>2, UpIs
<1>4. Aimed(v) BY <1>3 DEF Pre, Aimed
<1>5. Single(o, i, v, A)
  <2>1. \A r, d : At(o, i, v, r, d) => At(o, i, w, r, d) \/ (r = m.corr /\ d = c) BY <1>3 DEF At
  <2> QED BY <2>1 DEF Pre, Single
<1>6. \A p \in o.routes : Flow(p, i, w, L, R) /\ p.conn \in o.connections => Flow(p, i, v, L, R)
  <2>1. o.connections \subseteq Connection BY <1>1 DEF OutboundState
  <2> QED BY <1>3, <2>1 DEF Flow
<1>7. EarlyFlow(o, i, v, ct, L, R) BY <1>6 DEF Pre, EarlyFlow
<1>8. ASSUME Quiet(o, i, v, b)
      PROVE  AllFlow(o, i, v, L, R) /\ NoneLost(o) /\ (Running(o, i) => Opened(o, i, v))
  <2>1. Quiet(o, i, w, b) BY <1>3, <1>8 DEF Quiet, Empty
  <2>2. AllFlow(o, i, w, L, R) /\ NoneLost(o) /\ (Running(o, i) => Opened(o, i, w))
    BY <2>1 DEF Pre
  <2>3. AllFlow(o, i, v, L, R) BY <1>6, <2>2 DEF AllFlow
  <2>4. Running(o, i) => Opened(o, i, v) BY <1>3, <2>1, <2>2 DEF Opened
  <2> QED BY <2>2, <2>3, <2>4
<1>9. Pre(o, i, v, ct, b, L, R, A) BY <1>1, <1>3, <1>4, <1>5, <1>7, <1>8 DEF Pre
<1> QED BY <1>2, <1>9

(* Connections are asked what they offer.                                   *)
LEMMA DiscoversPre ==
  ASSUME NEW o, NEW i, NEW w, NEW ct, NEW b, NEW L, NEW R, NEW A,
         Pre(o, i, w, ct, b, L, R, A), NEW of \in Connection \cup Discovery, NEW S
  PROVE  Pre(o, i, Discovers(w, of, S), ct, b, L, R, A)
<1>1. o \in OutboundState /\ i \in InboundState /\ Wired(w) /\ Fits(o, i) /\ Early(o) BY DEF Pre
<1>2. PICK v : v = Discovers(w, of, S) OBVIOUS
<1>3. /\ Wired(v)
      /\ \A d \in Connection :
           /\ Ups(v, d) = Ups(w, d)
                \cup {x \in {[type |-> "discover", corr |-> [of |-> of, conn |-> d]]} : d \in S}
           /\ Downs(v, d) = Downs(w, d)
  BY <1>1, <1>2, DiscoversIs
<1>4. \A d \in Connection :
        /\ Ups(w, d) \subseteq Ups(v, d)
        /\ \A x \in Ups(v, d) \ Ups(w, d) :
             x.type = "discover" /\ x.corr.conn = d /\ x.corr \notin Request
  <2>1. \A d \in Connection : [of |-> of, conn |-> d] \in Asked BY DEF Asked
  <2> QED BY <1>3, <2>1, RequestIs
<1>5. Aimed(v) BY <1>3, <1>4 DEF Pre, Aimed
<1>6. Single(o, i, v, A)
  <2>1. \A r \in Request : \A d : At(o, i, v, r, d) => At(o, i, w, r, d) BY <1>3, <1>4 DEF At
  <2> QED BY <2>1 DEF Pre, Single
<1>7. \A p \in o.routes : Flow(p, i, w, L, R) /\ p.conn \in o.connections => Flow(p, i, v, L, R)
  <2>1. o.connections \subseteq Connection BY <1>1 DEF OutboundState
  <2> QED BY <1>3, <1>4, <2>1 DEF Flow
<1>8. EarlyFlow(o, i, v, ct, L, R) BY <1>7 DEF Pre, EarlyFlow
<1>9. ASSUME Quiet(o, i, v, b)
      PROVE  AllFlow(o, i, v, L, R) /\ NoneLost(o) /\ (Running(o, i) => Opened(o, i, v))
  <2>1. Quiet(o, i, w, b)
    <3>1. Empty(o, i, v) BY <1>9 DEF Quiet
    <3>2. Empty(o, i, w) BY <1>3, <1>4, <3>1 DEF Empty
    <3> QED BY <1>9, <3>2 DEF Quiet
  <2>2. AllFlow(o, i, w, L, R) /\ NoneLost(o) /\ (Running(o, i) => Opened(o, i, w))
    BY <2>1 DEF Pre
  <2>3. AllFlow(o, i, v, L, R) BY <1>7, <2>2 DEF AllFlow
  <2>4. \A d \in Connection : \A x \in Ups(v, d) : x \in Ups(w, d) \/ x.type = "discover" BY <1>4
  <2>5. Running(o, i) => Opened(o, i, v) BY <1>3, <2>2, <2>4 DEF Opened
  <2> QED BY <2>2, <2>3, <2>5
<1>10. Pre(o, i, v, ct, b, L, R, A) BY <1>1, <1>3, <1>5, <1>6, <1>8, <1>9 DEF Pre
<1> QED BY <1>2, <1>10

(* A request gets its route.                                                *)
LEMMA RoutePre ==
  ASSUME NEW o, NEW i, NEW w, NEW ct, NEW b, NEW L, NEW R, NEW A,
         Pre(o, i, w, ct, b, L, R, A), NEW k, NEW c, NEW kind,
         NEW q \in RouteState, q = [corr |-> k, conn |-> c, kind |-> kind],
         k \in Request => /\ k \in A /\ kind = KindOf[k]
                          /\ \A d \in Connection \cup {None} : At(o, i, w, k, d) => d = c,
         k \in Job => kind = "resource" /\ c \in {k.conn, None},
         o.level \in {"running", "shutdown"} /\ o.told = {} /\ kind \in {"call", "queue"} =>
           c \in o.connections,
         c \in o.connections /\ kind # "conversation" => Flow(q, i, w, L, R) \/ (c \in ct /\ b),
         ~ b /\ Opened(o, i, w) => kind = "conversation" \/ c \in o.connections \cup {None}
  PROVE  Pre(Route(o, k, c, kind), i, w, ct, b, L, R, A)
<1>1. o \in OutboundState /\ i \in InboundState /\ Wired(w) /\ Aimed(w) BY DEF Pre
<1>2. PICK S : S = o.routes \cup {q} OBVIOUS
<1>3. S \in SUBSET RouteState BY <1>1, <1>2 DEF OutboundState
<1>4. PICK p : p = [o EXCEPT !.routes = S] OBVIOUS
<1>5. p = Route(o, k, c, kind) BY <1>1, <1>2, <1>4 DEF Route, OutboundState
<1>6. /\ p \in OutboundState /\ p.level = o.level /\ p.connections = o.connections
      /\ p.unconnected = o.unconnected /\ p.told = o.told /\ p.routes = S
      /\ p.replies = o.replies /\ p.disconnecting = o.disconnecting /\ p.branches = o.branches
      /\ p.lookup = o.lookup /\ p.discovery = o.discovery
  BY <1>1, <1>3, <1>4 DEF OutboundState
<1>7. q.corr = k /\ q.conn = c /\ q.kind = kind OBVIOUS
<1>8. \A z \in S : z \in o.routes \/ z = q BY <1>2
<1>9. Fits(p, i)
  <2>1. Fits(o, i) BY DEF Pre
  <2>2. k \in Request => kind = KindOf[k] OBVIOUS
  <2>3. \A z \in p.routes : /\ z.corr \in Request => z.kind = KindOf[z.corr]
                            /\ z.corr \in Job => z.kind = "resource" /\ z.conn \in {z.corr.conn, None}
    BY <1>6, <1>7, <1>8, <2>1, <2>2 DEF Fits
  <2> QED BY <1>6, <2>1, <2>3 DEF Fits
<1>10. Single(p, i, w, A)
  <2>1. \A r, d : At(p, i, w, r, d) => At(o, i, w, r, d) \/ (r = k /\ d = c)
    BY <1>6, <1>7, <1>8 DEF At
  <2> QED BY <2>1 DEF Pre, Single
<1>11. \A K, M, T : Discovering(o, K, M, T) => Discovering(p, K, M, T) BY <1>6, SameFinds
<1>12. Early(p)
  <2>1. SUFFICES ASSUME p.level \in {"running", "shutdown"}
        PROVE  /\ Discovering(p, Connection, p.connections, {})
               /\ p.told = {} => \A z \in p.routes : z.kind \in {"call", "queue"} =>
                                                       z.conn \in p.connections
    BY DEF Early
  <2>2. /\ Discovering(o, Connection, o.connections, {})
        /\ o.told = {} => \A z \in o.routes : z.kind \in {"call", "queue"} => z.conn \in o.connections
    BY <1>6, <2>1 DEF Pre, Early
  <2>3. Discovering(p, Connection, p.connections, {}) BY <1>6, <1>11, <2>2
  <2> QED BY <1>6, <1>7, <1>8, <2>1, <2>2, <2>3
<1>13. EarlyFlow(p, i, w, ct, L, R)
  <2>1. SUFFICES ASSUME o.told = {}, NEW z \in S, z.kind \in {"call", "queue"}, z.conn \in o.connections,
                        z.conn \notin ct, z.conn \in i.connections
        PROVE  Flow(z, i, w, L, R)
    BY <1>6 DEF EarlyFlow
  <2>2. CASE z \in o.routes BY <2>1, <2>2 DEF Pre, EarlyFlow
  <2>3. CASE z = q BY <1>7, <2>1, <2>3
  <2> QED BY <1>8, <2>1, <2>2, <2>3
<1>14. ASSUME Quiet(p, i, w, b)
       PROVE  AllFlow(p, i, w, L, R) /\ NoneLost(p) /\ (Running(p, i) => Opened(p, i, w))
  <2>1. Quiet(o, i, w, b) /\ ~ b BY <1>6, <1>14 DEF Quiet, Empty
  <2>2. AllFlow(o, i, w, L, R) /\ NoneLost(o) /\ (Running(o, i) => Opened(o, i, w))
    BY <2>1 DEF Pre
  <2>3. AllFlow(p, i, w, L, R)
    <3>1. SUFFICES ASSUME NEW z \in S, z.kind # "conversation", z.conn \in o.connections
          PROVE  Flow(z, i, w, L, R)
      BY <1>6 DEF AllFlow
    <3>2. CASE z \in o.routes BY <2>2, <3>1, <3>2 DEF AllFlow
    <3>3. CASE z = q BY <1>7, <2>1, <3>1, <3>3
    <3> QED BY <1>8, <3>1, <3>2, <3>3
  <2>4. NoneLost(p) BY <1>6, <2>2 DEF NoneLost
  <2>5. ASSUME Running(p, i) PROVE Opened(p, i, w)
    <3>1. Opened(o, i, w) BY <1>6, <2>2, <2>5 DEF Running
    <3>2. kind = "conversation" \/ c \in o.connections \cup {None} BY <2>1, <3>1
    <3>3. \A z \in S : z.kind = "conversation" \/ z.conn \in o.connections \cup {None}
      BY <1>7, <1>8, <3>1, <3>2 DEF Opened
    <3>4. Discovering(p, o.connections, o.connections, {}) BY <1>11, <3>1 DEF Opened
    <3> QED BY <1>6, <3>1, <3>3, <3>4 DEF Opened
  <2> QED BY <2>3, <2>4, <2>5
<1>15. Pre(p, i, w, ct, b, L, R, A)
  BY <1>1, <1>6, <1>9, <1>10, <1>12, <1>13, <1>14 DEF Pre
<1> QED BY <1>5, <1>15

(* A transaction gets a branch, and the transaction manager is told.        *)
LEMMA BranchedPre ==
  ASSUME NEW o, NEW i, NEW w, NEW ct, NEW b, NEW L, NEW R, NEW A,
         Pre(o, i, w, ct, b, L, R, A), NEW r \in Request, NEW l \in Looked(o, r)
  PROVE  /\ l.conn \in Connection \cup {None}
         /\ l.conn \in Connection => l.conn \in o.lookup[ResourceOf[r]]
         /\ Pre(Branched(o, l), i, w, ct, b, L, R, A)
         /\ Pre(Involved(Branched(o, l), l), i, w, ct, b, L, R, A)
<1>1. o \in OutboundState /\ i \in InboundState /\ Wired(w) /\ Aimed(w) BY DEF Pre
<1>2. ResourceOf[r] \in Resource /\ TridOf[r] \in Trid \cup {None} /\ None \notin Connection \cup Trid
  BY GatewayAssumption DEF GatewayAssumption
<1>3. PICK offers : offers = o.lookup[ResourceOf[r]] OBVIOUS
<1>4. offers \subseteq Connection BY <1>1, <1>2, <1>3 DEF OutboundState
<1>5. /\ l.conn \in offers \cup {None}
      /\ l.new => l.conn \in offers /\ l.trid \in Trid
  <2>1. CASE offers = {}
    <3>1. Looked(o, r) = {[trid |-> TridOf[r], conn |-> None, new |-> FALSE]} BY <1>3, <2>1 DEF Looked
    <3> QED BY <3>1
  <2>2. CASE offers # {} /\ TridOf[r] = None
    <3>1. Looked(o, r) = {[trid |-> TridOf[r], conn |-> c, new |-> FALSE] : c \in offers}
      BY <1>3, <2>2 DEF Looked
    <3> QED BY <3>1
  <2>3. CASE offers # {} /\ TridOf[r] # None
    <3>0. PICK B : B = {c \in offers : [trid |-> TridOf[r], conn |-> c] \in o.branches} OBVIOUS
    <3>1. \/ Looked(o, r) = {[trid |-> TridOf[r], conn |-> c, new |-> FALSE] : c \in B}
          \/ Looked(o, r) = {[trid |-> TridOf[r], conn |-> c, new |-> TRUE] : c \in offers}
      BY <1>3, <2>3, <3>0 DEF Looked
    <3>2. B \subseteq offers BY <3>0
    <3>3. CASE Looked(o, r) = {[trid |-> TridOf[r], conn |-> c, new |-> FALSE] : c \in B}
      BY <3>2, <3>3
    <3>4. CASE Looked(o, r) = {[trid |-> TridOf[r], conn |-> c, new |-> TRUE] : c \in offers}
      <4>1. PICK c \in offers : l = [trid |-> TridOf[r], conn |-> c, new |-> TRUE] BY <3>4
      <4> QED BY <1>2, <2>3, <4>1
    <3> QED BY <3>1, <3>3, <3>4
  <2> QED BY <2>1, <2>2, <2>3
<1>6. PICK x : x = [trid |-> l.trid, conn |-> l.conn] OBVIOUS
<1>7. l.new => x \in Branch BY <1>4, <1>5, <1>6 DEF Branch
<1>8. PICK S, I : S = (IF l.new THEN o.branches \cup {x} ELSE o.branches)
                  /\ I = (IF l.new THEN o.involved \cup {x} ELSE o.involved)
  OBVIOUS
<1>9. S \in SUBSET Branch /\ I \in SUBSET Branch BY <1>1, <1>7, <1>8 DEF OutboundState
<1>10. ASSUME NEW J \in SUBSET Branch, NEW p, p = [o EXCEPT !.branches = S, !.involved = J]
       PROVE  Pre(p, i, w, ct, b, L, R, A)
  <2>1. /\ p \in OutboundState /\ p.level = o.level /\ p.connections = o.connections
        /\ p.unconnected = o.unconnected /\ p.told = o.told /\ p.routes = o.routes
        /\ p.replies = o.replies /\ p.disconnecting = o.disconnecting /\ p.branches = S
        /\ p.lookup = o.lookup /\ p.discovery = o.discovery
    BY <1>1, <1>9, <1>10 DEF OutboundState
  <2>2. \A K, M, T : Discovering(o, K, M, T) => Discovering(p, K, M, T) BY <2>1, SameFinds
  <2>3. Fits(p, i) BY <2>1 DEF Pre, Fits
  <2>4. Single(p, i, w, A)
    <3>1. \A k, d : At(p, i, w, k, d) => At(o, i, w, k, d) BY <2>1 DEF At
    <3> QED BY <3>1 DEF Pre, Single
  <2>5. Early(p) BY <2>1, <2>2 DEF Pre, Early
  <2>6. EarlyFlow(p, i, w, ct, L, R) BY <2>1 DEF Pre, EarlyFlow
  <2>7. ASSUME Quiet(p, i, w, b)
        PROVE  AllFlow(p, i, w, L, R) /\ NoneLost(p) /\ (Running(p, i) => Opened(p, i, w))
    <3>1. Quiet(o, i, w, b) BY <2>1, <2>7 DEF Quiet, Empty
    <3>2. AllFlow(o, i, w, L, R) /\ NoneLost(o) /\ (Running(o, i) => Opened(o, i, w))
      BY <3>1 DEF Pre
    <3>3. AllFlow(p, i, w, L, R) /\ NoneLost(p) BY <2>1, <3>2 DEF AllFlow, NoneLost
    <3>4. ASSUME Running(p, i) PROVE Opened(p, i, w)
      <4>1. Opened(o, i, w) BY <2>1, <3>2, <3>4 DEF Running
      <4>2. offers \subseteq o.connections
        <5>1. Discovering(o, o.connections, o.connections, {}) BY <4>1 DEF Opened
        <5> QED BY <1>2, <1>3, <5>1, DiscoveringIs
      <4>3. \A z \in S : z.conn \in o.connections BY <1>5, <1>6, <1>8, <4>1, <4>2 DEF Opened
      <4>4. Discovering(p, o.connections, o.connections, {}) BY <2>2, <4>1 DEF Opened
      <4> QED BY <2>1, <4>1, <4>3, <4>4 DEF Opened
    <3> QED BY <3>3, <3>4
  <2> QED BY <1>1, <2>1, <2>3, <2>4, <2>5, <2>6, <2>7 DEF Pre
<1>11. Branched(o, l) = [o EXCEPT !.branches = S, !.involved = o.involved]
  BY <1>1, <1>6, <1>8 DEF Branched, OutboundState
<1>12. Involved(Branched(o, l), l) = [o EXCEPT !.branches = S, !.involved = I]
  BY <1>1, <1>6, <1>8 DEF Branched, Involved, OutboundState
<1>13. o.involved \in SUBSET Branch BY <1>1 DEF OutboundState
<1> QED BY <1>2, <1>3, <1>4, <1>5, <1>9, <1>10, <1>11, <1>12, <1>13

(* The outbound reads what no route waits for.                              *)
LEMMA ReadPre ==
  ASSUME NEW o, NEW i, NEW w, NEW ct, NEW b, NEW L, NEW R, NEW A,
         Pre(o, i, w, ct, b, L, R, A), NEW c \in o.connections, w.down[c] # <<>>,
         NEW m, m = Head(w.down[c]),
         m.type \in {"reply", "vote"} => \A p \in o.routes : p.corr = m.corr => p.kind = "conversation",
         NEW v, v = [w EXCEPT !.down[c] = Tail(@)]
  PROVE  Pre(o, i, v, ct, b, L, R, A)
<1>1. o \in OutboundState /\ i \in InboundState /\ Wired(w) /\ Fits(o, i) /\ Early(o) BY DEF Pre
<1>2. c \in Connection BY <1>1 DEF OutboundState
<1>3. /\ Wired(v) /\ Downs(w, c) = Downs(v, c) \cup {m}
      /\ \A d \in Connection : /\ d # c => Downs(v, d) = Downs(w, d)
                               /\ Ups(v, d) = Ups(w, d)
  BY <1>1, <1>2, DownRead
<1>4. \A d \in Connection : Downs(v, d) \subseteq Downs(w, d) BY <1>3
<1>5. Aimed(v) BY <1>3, <1>4 DEF Pre, Aimed
<1>6. Single(o, i, v, A)
  <2>1. \A r, d : At(o, i, v, r, d) => At(o, i, w, r, d) BY <1>3, <1>4 DEF At
  <2> QED BY <2>1 DEF Pre, Single
<1>7. \A p \in o.routes : Flow(p, i, w, L, R) /\ p.conn \in o.connections /\ p.kind # "conversation" =>
                            Flow(p, i, v, L, R)
  <2>1. o.connections \subseteq Connection BY <1>1 DEF OutboundState
  <2>2. SUFFICES ASSUME NEW p \in o.routes, Flow(p, i, w, L, R), p.conn \in o.connections,
                        p.kind # "conversation"
        PROVE  Flow(p, i, v, L, R)
    OBVIOUS
  <2>3. ~ (m.type \in {"reply", "vote"} /\ m.corr = p.corr) BY <2>2
  <2>4. ASSUME NEW x \in Downs(w, p.conn), x.type \in {"reply", "vote"}, x.corr = p.corr
        PROVE  x \in Downs(v, p.conn)
    <3>1. x # m BY <2>3, <2>4
    <3> QED BY <1>3, <2>1, <2>2, <2>4, <3>1
  <2>5. Ups(v, p.conn) = Ups(w, p.conn) BY <1>3, <2>1, <2>2
  <2> QED BY <2>2, <2>4, <2>5 DEF Flow
<1>8. EarlyFlow(o, i, v, ct, L, R) BY <1>7 DEF Pre, EarlyFlow
<1>9. ASSUME Quiet(o, i, v, b)
      PROVE  AllFlow(o, i, v, L, R) /\ NoneLost(o) /\ (Running(o, i) => Opened(o, i, v))
  <2>1. Quiet(o, i, w, b)
    <3>1. Empty(o, i, v) BY <1>9 DEF Quiet
    <3>2. Empty(o, i, w) BY <1>3, <3>1 DEF Empty
    <3> QED BY <1>9, <3>2 DEF Quiet
  <2>2. AllFlow(o, i, w, L, R) /\ NoneLost(o) /\ (Running(o, i) => Opened(o, i, w))
    BY <2>1 DEF Pre
  <2>3. AllFlow(o, i, v, L, R) BY <1>7, <2>2 DEF AllFlow
  <2>4. Running(o, i) => Opened(o, i, v) BY <1>3, <1>4, <2>2 DEF Opened
  <2> QED BY <2>2, <2>3, <2>4
<1> QED BY <1>1, <1>3, <1>5, <1>6, <1>8, <1>9 DEF Pre

(* What is read changes what the outbound has, and no route waits for it    *)
(* any more.                                                                *)
LEMMA ReceivedPre ==
  ASSUME NEW o, NEW i, NEW w, NEW ct, NEW b, NEW L, NEW R, NEW A,
         Pre(o, i, w, ct, b, L, R, A), NEW c \in o.connections, w.down[c] # <<>>,
         NEW m, m = Head(w.down[c]), m.type # "disconnect",
         NEW v, v = [w EXCEPT !.down[c] = Tail(@)]
  PROVE  Pre(Received(o, m), i, v, ct, b, L, R, A)
<1>1. o \in OutboundState /\ i \in InboundState /\ Wired(w) BY DEF Pre
<1>2. c \in Connection BY <1>1 DEF OutboundState
<1>3. m \in DownMessage(Job, Job) /\ m \in Downs(w, c) BY <1>1, <1>2, DownRead
<1>4. PICK p : p = Received(o, m) OBVIOUS
<1> SUFFICES Pre(p, i, v, ct, b, L, R, A) BY <1>4
<1>5. \A S \in SUBSET o.routes : Milder(o, [o EXCEPT !.routes = S]) BY <1>1, FewerMilder
<1>6. PICK q : q = Consumed(o, m.corr) OBVIOUS
<1>7. /\ Milder(o, q) /\ q \in OutboundState /\ \A z \in q.routes : z.corr # m.corr
  <2>1. PICK S : S = {z \in o.routes : z.corr # m.corr} OBVIOUS
  <2>2. S \in SUBSET o.routes BY <2>1
  <2>3. q = [o EXCEPT !.routes = S] BY <1>1, <1>6, <2>1 DEF Consumed, OutboundState
  <2>4. Milder(o, q) BY <1>5, <2>2, <2>3
  <2>5. q.routes = S BY <1>1, <2>3 DEF OutboundState
  <2> QED BY <2>1, <2>4, <2>5 DEF Milder
<1>8. Milder(o, o)
  <2>1. o = [o EXCEPT !.routes = o.routes] BY <1>1 DEF OutboundState
  <2> QED BY <1>5, <2>1
<1>9. ASSUME NEW x, Milder(o, x), Milder(x, p),
             m.type \in {"reply", "vote"} => \A z \in x.routes : z.corr = m.corr => z.kind = "conversation"
      PROVE  Pre(p, i, v, ct, b, L, R, A)
  <2>1. Pre(x, i, w, ct, b, L, R, A) BY <1>9, MilderPre
  <2>2. c \in x.connections BY <1>9 DEF Milder
  <2>3. Pre(x, i, v, ct, b, L, R, A) BY <1>9, <2>1, <2>2, ReadPre
  <2> QED BY <1>9, <2>3, MilderPre
<1>10. Routed(o, m.corr) = {} => \A z \in o.routes : z.corr # m.corr BY DEF Routed
<1>11. CASE m.type = "reply"
  <2>1. m.corr \in Request /\ m.code \in {"ok", "system", "no_entry"} BY <1>3, <1>11 DEF DownMessage
  <2>2. p = Answered(o, m) BY <1>4, <1>11 DEF Received
  <2>3. CASE Routed(o, m.corr) = {}
    <3>1. p = o BY <2>2, <2>3 DEF Answered
    <3> QED BY <1>8, <1>9, <1>10, <2>3, <3>1
  <2>4. CASE Routed(o, m.corr) # {}
    <3>1. PICK a : a = Reply(q, m.corr, m.code) OBVIOUS
    <3>2. m.code \in Code /\ m.code # "lost" BY <2>1 DEF Code
    <3>3. Milder(q, a) BY <1>7, <2>1, <3>1, <3>2, ReplyMilder
    <3>4. CASE m.code # "no_entry"
      <4>1. p = a BY <1>6, <2>2, <2>4, <3>1, <3>4 DEF Answered
      <4> QED BY <1>7, <1>9, <3>3, <4>1
    <3>5. CASE m.code = "no_entry"
      <4>1. PICK N, l : /\ N = {z.conn : z \in Routed(o, m.corr)}
                        /\ l = [a.lookup EXCEPT ![RequestedAs[m.corr]] = @ \ N]
        OBVIOUS
      <4>2. a \in OutboundState BY <3>3 DEF Milder
      <4>3. p = [a EXCEPT !.lookup = l] BY <1>6, <2>2, <2>4, <3>1, <3>5, <4>1, <4>2 DEF Answered, OutboundState
      <4>4. l \in [Resource -> SUBSET Connection] /\ \A r \in Resource : l[r] \subseteq a.lookup[r]
        BY <4>1, <4>2 DEF OutboundState
      <4>5. /\ p \in OutboundState /\ p.level = a.level /\ p.connections = a.connections
            /\ p.unconnected = a.unconnected /\ p.told = a.told /\ p.routes = a.routes
            /\ p.replies = a.replies /\ p.disconnecting = a.disconnecting
            /\ p.branches = a.branches /\ p.discovery = a.discovery /\ p.lookup = l
        BY <4>2, <4>3, <4>4 DEF OutboundState
      <4>6. Milder(a, p) BY <4>2, <4>4, <4>5, SameMilder
      <4>7. Milder(q, p) BY <3>3, <4>6, MilderThen
      <4> QED BY <1>7, <1>9, <4>7
    <3> QED BY <3>4, <3>5
  <2> QED BY <2>3, <2>4
<1>12. CASE m.type \in {"connected", "ended"}
  <2>1. m.corr \in Request /\ m.code \in {"ok", "system", "no_entry", "ended"}
    BY <1>3, <1>12 DEF DownMessage
  <2>2. p = Conversed(o, m) BY <1>4, <1>12 DEF Received
  <2>3. m.code \in Code /\ m.code # "lost" BY <2>1 DEF Code
  <2>4. Milder(o, Reply(o, m.corr, m.code)) BY <1>1, <2>1, <2>3, ReplyMilder
  <2>5. Milder(q, Reply(q, m.corr, m.code)) BY <1>7, <2>1, <2>3, ReplyMilder
  <2>6. p \in {o, Reply(o, m.corr, m.code), Reply(q, m.corr, m.code)} BY <1>6, <2>2 DEF Conversed
  <2>7. Milder(o, p) BY <1>7, <1>8, <2>4, <2>5, <2>6, MilderThen
  <2> QED BY <1>8, <1>9, <1>12, <2>7
<1>13. CASE m.type = "vote"
  <2>1. m.corr \in Job /\ m.code \in {"ok", "refused"} BY <1>3, <1>13 DEF DownMessage
  <2>2. p = Voted(o, m) BY <1>4, <1>13 DEF Received
  <2>3. m.code \in Code /\ m.corr \notin Request BY <2>1, RequestIs DEF Code
  <2>4. PICK S : S = IF m.corr.phase = "prepare" THEN o.branches
                     ELSE o.branches \ {[trid |-> m.corr.trid, conn |-> m.corr.conn]}
    OBVIOUS
  <2>5. S \subseteq o.branches BY <2>4
  <2>6. PICK a : a = [o EXCEPT !.branches = S] OBVIOUS
  <2>7. /\ a \in OutboundState /\ a.level = o.level /\ a.connections = o.connections
        /\ a.unconnected = o.unconnected /\ a.told = o.told /\ a.routes = o.routes
        /\ a.replies = o.replies /\ a.disconnecting = o.disconnecting
        /\ a.branches = S /\ a.discovery = o.discovery /\ a.lookup = o.lookup
    BY <1>1, <2>5, <2>6 DEF OutboundState
  <2>8. Milder(o, a) BY <1>1, <2>5, <2>7, SameMilder
  <2>9. p = IF Routed(o, m.corr) = {} THEN a ELSE Reply(Consumed(a, m.corr), m.corr, m.code)
    BY <1>1, <2>2, <2>4, <2>6 DEF Voted, OutboundState
  <2>10. CASE Routed(o, m.corr) = {} BY <1>8, <1>9, <1>10, <2>8, <2>9, <2>10
  <2>11. CASE Routed(o, m.corr) # {}
    <3>1. PICK T, z : T = {y \in a.routes : y.corr # m.corr} /\ z = [a EXCEPT !.routes = T] OBVIOUS
    <3>2. z = Consumed(a, m.corr) BY <2>7, <3>1 DEF Consumed, OutboundState
    <3>3. T \in SUBSET a.routes BY <3>1
    <3>4. Milder(a, z) BY <2>7, <3>1, <3>3, FewerMilder
    <3>5. z.routes = T BY <2>7, <3>1 DEF OutboundState
    <3>6. Milder(o, z) BY <2>8, <3>4, MilderThen
    <3>7. z \in OutboundState BY <3>4 DEF Milder
    <3>8. Milder(z, Reply(z, m.corr, m.code)) BY <2>1, <2>3, <3>7, ReplyMilder
    <3>9. p = Reply(z, m.corr, m.code) BY <2>9, <2>11, <3>2
    <3>10. \A y \in z.routes : y.corr # m.corr BY <3>1, <3>5
    <3> QED BY <1>9, <3>6, <3>8, <3>9, <3>10
  <2> QED BY <2>10, <2>11
<1>14. CASE m.type = "found"
  <2>1. m.corr \in Asked /\ m.found \in SUBSET Resource BY <1>3, <1>14 DEF DownMessage
  <2>2. PICK x : x = [conn |-> m.corr.conn, found |-> m.found] OBVIOUS
  <2>3. m.corr.conn = c BY <1>2, <1>3, <2>1, RequestIs DEF Pre, Aimed
  <2>4. x \in [conn : Connection, found : SUBSET Resource] /\ x.conn = c BY <1>2, <2>1, <2>2, <2>3
  <2>5. p = Replied(o, m.corr.of, x) BY <1>4, <1>14, <2>2 DEF Received, Discovered
  <2>6. /\ Alike(o, p)
        /\ \A K, M : Discovering(o, K, M, {}) /\ x.conn \in K \cap M => Discovering(p, K, M, {})
    BY <1>1, <2>4, <2>5, RepliedIs
  <2>7. Milder(o, p) BY <1>2, <2>4, <2>6, AlikeMilder
  <2> QED BY <1>8, <1>9, <1>14, <2>7
<1>15. m.type \in {"reply", "connected", "ended", "vote", "found"} BY <1>3 DEF DownMessage
<1> QED BY <1>11, <1>12, <1>13, <1>14, <1>15
-----------------------------------------------------------------------------
(* What the inbound and its domain do.                                      *)

(* The inbound j has no more connections than i, what is on the wire and    *)
(* what it keeps of requests is where it was, and no route is forgotten.    *)
LEMMA InboundPre ==
  ASSUME NEW o, NEW i, NEW w, NEW ct, NEW b, NEW L, NEW R, NEW A,
         Pre(o, i, w, ct, b, L, R, A), ct # {} => b,
         NEW j \in InboundState, NEW v, NEW M, NEW S, Wired(v), Aimed(v), Fits(o, j),
         j.connections \subseteq i.connections,
         \A r \in Request : \A c \in Connection \cup {None} : At(o, j, v, r, c) => At(o, i, w, r, c),
         Quiet(o, j, v, b) => Quiet(o, i, w, b),
         \A p \in o.routes :
           /\ p.kind # "conversation" /\ p.conn \in o.connections /\ p.conn \notin ct
           /\ p.conn \in j.connections \/ Quiet(o, j, v, b)
           /\ Flow(p, i, w, L, R)
           => Flow(p, j, v, M, S),
         Quiet(o, j, v, b) /\ Running(o, j) => Running(o, i) /\ (Opened(o, i, w) => Opened(o, j, v))
  PROVE  Pre(o, j, v, ct, b, M, S, A)
<1>1. o \in OutboundState /\ Early(o) BY DEF Pre
<1>2. Single(o, j, v, A) BY DEF Pre, Single
<1>3. EarlyFlow(o, j, v, ct, M, S)
  <2>1. EarlyFlow(o, i, w, ct, L, R) BY DEF Pre
  <2>2. SUFFICES ASSUME o.told = {}, NEW p \in o.routes, p.kind \in {"call", "queue"},
                        p.conn \in o.connections, p.conn \notin ct, p.conn \in j.connections
        PROVE  Flow(p, j, v, M, S)
    BY DEF EarlyFlow
  <2>3. Flow(p, i, w, L, R) BY <2>1, <2>2 DEF EarlyFlow
  <2> QED BY <2>2, <2>3
<1>4. ASSUME Quiet(o, j, v, b)
      PROVE  AllFlow(o, j, v, M, S) /\ NoneLost(o) /\ (Running(o, j) => Opened(o, j, v))
  <2>1. AllFlow(o, i, w, L, R) /\ NoneLost(o) /\ (Running(o, i) => Opened(o, i, w)) /\ ct = {}
    BY <1>4 DEF Pre, Quiet
  <2>2. AllFlow(o, j, v, M, S) BY <1>4, <2>1 DEF AllFlow
  <2> QED BY <1>4, <2>1, <2>2
<1> QED BY <1>1, <1>2, <1>3, <1>4 DEF Pre

(* tcp::send: an answer goes down, and takes its correlation with it.       *)
LEMMA SendDownPre ==
  ASSUME NEW o, NEW i, NEW w, NEW b, NEW L, NEW R, NEW A,
         Pre(o, i, w, cut, b, L, R, A), cut # {} => b, i.connections = inbound.connections,
         NEW Q \in SUBSET Request, NEW k, k = [i EXCEPT !.requests = Q],
         NEW M, NEW S, NEW m \in DownMessage(Job, Job), m.type # "disconnect",
         \A x : x # m.corr /\ Working(x, i, L, R) => Working(x, k, M, S),
         m.type \in {"reply", "vote"} \/
           \A p \in o.routes : p.corr = m.corr => p.kind = "conversation",
         NEW s, s = SendDown(k, w, m)
  PROVE  Pre(o, s[1], s[2], cut, b, M, S, A)
<1>1. o \in OutboundState /\ i \in InboundState /\ Wired(w) /\ Fits(o, i) /\ Early(o) BY DEF Pre
<1>2. PICK X, open, f : /\ X = {y \in i.correlations : y.corr = m.corr}
                        /\ open = {y.conn : y \in X} \cap (inbound.connections \ cut)
                        /\ f = [c \in Connection |-> m]
  OBVIOUS
<1>3. PICK j, d, v : /\ j = [k EXCEPT !.correlations = @ \ X]
                     /\ d = [c \in Connection |-> IF c \in open THEN Append(w.down[c], m) ELSE w.down[c]]
                     /\ v = [w EXCEPT !.down = d]
  OBVIOUS
<1>4. /\ j \in InboundState /\ j.correlations = i.correlations \ X /\ j.requests = Q
      /\ j.connections = i.connections /\ j.level = i.level
      /\ j.conversations = i.conversations /\ k.requests = Q
      /\ k.correlations = i.correlations
  BY <1>1, <1>3 DEF InboundState
<1>5. s = <<j, v>> BY <1>1, <1>2, <1>3, <1>4, WiredIs DEF SendDown
<1>6. \A c \in open \cap Connection : f[c] \in DownMessage(Job, Job) BY <1>2
<1>7. /\ Wired(v)
      /\ \A c \in Connection : /\ Ups(v, c) = Ups(w, c)
                               /\ Downs(v, c) = Downs(w, c) \cup {x \in {f[c]} : c \in open}
  <2>1. Wired(v)
    <3>1. WireOK(SendDown(k, w, m)[2], Job, Job) BY <1>1, SendDownOK DEF Wired
    <3> QED BY <1>5, <3>1 DEF Wired
  <2>2. /\ v.up = w.up
        /\ \A c \in Connection : v.down[c] = IF c \in open THEN Append(w.down[c], f[c]) ELSE w.down[c]
    BY <1>1, <1>2, <1>3, WiredIs
  <2> QED BY <1>1, <1>6, <2>1, <2>2, DownIs
<1>8. \A c \in Connection : Downs(v, c) = Downs(w, c) \cup {x \in {m} : c \in open} BY <1>2, <1>7
<1>9. \A c \in open : \E y \in i.correlations : y.corr = m.corr /\ y.conn = c BY <1>2
<1>10. Aimed(v)
  <2>1. \A c \in open : m.corr \notin Request => m.corr.conn = c BY <1>1, <1>9 DEF Fits
  <2> QED BY <1>7, <1>8, <2>1 DEF Pre, Aimed
<1>11. Fits(o, j) BY <1>1, <1>4 DEF Fits
<1>12. \A r \in Request : \A c \in Connection \cup {None} : At(o, j, v, r, c) => At(o, i, w, r, c)
  BY <1>4, <1>7, <1>8, <1>9 DEF At
<1>13. Quiet(o, j, v, b) => Quiet(o, i, w, b)
  <2>1. Empty(o, j, v) => Empty(o, i, w) BY <1>4, <1>7, <1>8 DEF Empty
  <2> QED BY <1>4, <2>1 DEF Quiet
<1>14. ASSUME NEW p \in o.routes, p.kind # "conversation", p.conn \in o.connections, p.conn \notin cut,
              Flow(p, i, w, L, R)
       PROVE  Flow(p, j, v, M, S)
  <2>1. p.conn \in Connection BY <1>1, <1>14 DEF OutboundState
  <2>2. CASE \E x \in Ups(w, p.conn) : x.type \in {"request", "resource"} /\ x.corr = p.corr
    BY <1>7, <2>1, <2>2 DEF Flow
  <2>3. CASE \E x \in Downs(w, p.conn) : x.type \in {"reply", "vote"} /\ x.corr = p.corr
    BY <1>8, <2>1, <2>3 DEF Flow
  <2>4. ASSUME NEW x \in i.correlations, x.corr = p.corr, x.conn = p.conn, Working(p.corr, i, L, R)
        PROVE  Flow(p, j, v, M, S)
    <3>1. CASE p.corr # m.corr
      <4>1. x \in j.correlations BY <1>2, <1>4, <2>4, <3>1
      <4>2. Working(p.corr, j, M, S) BY <1>4, <2>4, <3>1 DEF Working
      <4> QED BY <2>4, <4>1, <4>2 DEF Flow
    <3>2. CASE p.corr = m.corr
      <4>1. m.type \in {"reply", "vote"} BY <1>14, <3>2
      <4>2. p.corr \in Request \cup Job BY <1>1 DEF OutboundState, RouteState
      <4>3. x.conn \in i.connections BY <1>1, <2>4, <4>2, RequestIs DEF Fits
      <4>4. p.conn \in open BY <1>2, <1>14, <2>4, <3>2, <4>3
      <4>5. m \in Downs(v, p.conn) BY <1>8, <2>1, <4>4
      <4> QED BY <3>2, <4>1, <4>5 DEF Flow
    <3> QED BY <3>1, <3>2
  <2> QED BY <1>14, <2>2, <2>3, <2>4 DEF Flow
<1>15. Running(o, j) => Running(o, i) /\ (Opened(o, i, w) => Opened(o, j, v))
  <2>1. \A c \in Connection : \A x \in Downs(v, c) : x \in Downs(w, c) \/ x.type # "disconnect"
    BY <1>8
  <2> QED BY <1>4, <1>7, <2>1 DEF Running, Opened
<1>16. Pre(o, j, v, cut, b, M, S, A)
  BY <1>4, <1>7, <1>10, <1>11, <1>12, <1>13, <1>14, <1>15, InboundPre
<1> QED BY <1>5, <1>16

(* connection::lost: the connections S of the inbound, that have been cut,  *)
(* or have been closed by the outbound, or have nothing of it any more.     *)
LEMMA InboundLostPre ==
  ASSUME NEW o, NEW i, NEW w, NEW ct, NEW b, NEW L, NEW R, NEW A,
         Pre(o, i, w, ct, b, L, R, A), ct # {} => b, NEW S \in SUBSET Connection,
         NEW j, j = InboundLost(i, S), NEW D, \A l \in D : l.corr \in i.requests \ j.requests,
         b \/ i.level = "error" \/ \A c \in S : c \notin o.connections \/
              (~ Running(o, i) /\ \A x \in i.correlations : x.conn # c)
  PROVE  Pre(o, j, w, ct, b, L \ D, R, A)
<1>1. o \in OutboundState /\ i \in InboundState /\ Wired(w) /\ Aimed(w) /\ Fits(o, i) BY DEF Pre
<1>2. PICK X, Q : X = {x \in i.correlations : x.conn \in S} /\ Q = {x.corr : x \in X} OBVIOUS
<1>3. j = [i EXCEPT !.connections = i.connections \ S, !.disconnects = i.disconnects \ S,
                    !.correlations = i.correlations \ X, !.requests = i.requests \ Q]
  BY <1>1, <1>2 DEF InboundLost, InboundState
<1>4. /\ j \in InboundState /\ j.correlations = i.correlations \ X /\ j.requests = i.requests \ Q
      /\ j.connections = i.connections \ S /\ j.level = i.level
      /\ j.conversations = i.conversations
  <2>1. PICK a1, a2, a3, a4 : /\ a1 = i.connections \ S /\ a2 = i.disconnects \ S
                              /\ a3 = i.correlations \ X /\ a4 = i.requests \ Q
    OBVIOUS
  <2>2. /\ a1 \in SUBSET Connection /\ a2 \in SUBSET Connection /\ a4 \in SUBSET Request
        /\ a3 \in SUBSET [corr : Request \cup Job \cup Asked \cup Leaving, conn : Connection]
    <3>1. /\ i.connections \in SUBSET Connection /\ i.disconnects \in SUBSET Connection
          /\ i.requests \in SUBSET Request
          /\ i.correlations \in SUBSET [corr : Request \cup Job \cup Asked \cup Leaving,
                                        conn : Connection]
      BY <1>1 DEF InboundState
    <3>2. /\ a1 \subseteq i.connections /\ a2 \subseteq i.disconnects
          /\ a3 \subseteq i.correlations /\ a4 \subseteq i.requests
      BY <2>1
    <3> QED BY <3>1, <3>2
  <2>3. j = [i EXCEPT !.connections = a1, !.disconnects = a2, !.correlations = a3, !.requests = a4]
    BY <1>3, <2>1
  <2>4. /\ j \in InboundState /\ j.correlations = a3 /\ j.requests = a4 /\ j.connections = a1
        /\ j.level = i.level /\ j.conversations = i.conversations
    BY <1>1, <2>2, <2>3 DEF InboundState
  <2> QED BY <2>1, <2>4
<1>5. \A x \in j.correlations : x.conn \notin S BY <1>2, <1>4
<1>6. Fits(o, j) BY <1>1, <1>4, <1>5 DEF Fits
<1>7. \A r \in Request : \A c \in Connection \cup {None} : At(o, j, w, r, c) => At(o, i, w, r, c)
  BY <1>4 DEF At
<1>8. Quiet(o, j, w, b) => Quiet(o, i, w, b)
  <2>1. Empty(o, j, w) => Empty(o, i, w) BY <1>4 DEF Empty
  <2> QED BY <1>4, <2>1 DEF Quiet
<1>9. ASSUME NEW p \in o.routes, p.kind # "conversation", p.conn \in o.connections, p.conn \notin ct,
             p.conn \in j.connections \/ Quiet(o, j, w, b), Flow(p, i, w, L, R)
      PROVE  Flow(p, j, w, L \ D, R)
  <2>1. CASE \E x \in Ups(w, p.conn) : x.type \in {"request", "resource"} /\ x.corr = p.corr
    BY <2>1 DEF Flow
  <2>2. CASE \E x \in Downs(w, p.conn) : x.type \in {"reply", "vote"} /\ x.corr = p.corr
    BY <2>2 DEF Flow
  <2>3. ASSUME NEW x \in i.correlations, x.corr = p.corr, x.conn = p.conn, Working(p.corr, i, L, R)
        PROVE  Flow(p, j, w, L \ D, R)
    <3>1. p.conn \notin S
      <4>1. CASE p.conn \in j.connections BY <1>4, <4>1
      <4>2. CASE Quiet(o, j, w, b)
        <5>1. ~ b /\ i.level # "error" BY <1>4, <4>2 DEF Quiet
        <5> QED BY <1>9, <2>3, <5>1
      <4> QED BY <1>9, <4>1, <4>2
    <3>2. x \in j.correlations BY <1>2, <1>4, <2>3, <3>1
    <3>3. CASE p.corr \in Queueless \cup R.busy BY <2>3, <3>2, <3>3 DEF Flow, Working
    <3>4. ASSUME p.corr \in i.requests, NEW l \in L, l.corr = p.corr PROVE Flow(p, j, w, L \ D, R)
      <4>1. p.corr \in Request BY <1>1, <3>4 DEF InboundState
      <4>2. p.corr \notin Q
        <5>1. SUFFICES ASSUME NEW y \in i.correlations, y.conn \in S, y.corr = p.corr PROVE FALSE
          BY <1>2
        <5>2. At(o, i, w, p.corr, y.conn) /\ At(o, i, w, p.corr, p.conn) BY <5>1 DEF At
        <5>3. y.conn \in Connection /\ p.conn \in Connection BY <1>1, <5>1, <1>9 DEF OutboundState
        <5>4. y.conn = p.conn BY <4>1, <5>2, <5>3 DEF Pre, Single
        <5> QED BY <3>1, <5>1, <5>4
      <4>3. p.corr \in j.requests BY <1>4, <3>4, <4>2
      <4>4. l \in L \ D BY <3>4, <4>3
      <4> QED BY <2>3, <3>2, <3>4, <4>3, <4>4 DEF Flow, Working
    <3> QED BY <2>3, <3>3, <3>4 DEF Working
  <2> QED BY <1>9, <2>1, <2>2, <2>3 DEF Flow
<1>10. ASSUME Quiet(o, j, w, b), Running(o, j)
       PROVE  Running(o, i) /\ (Opened(o, i, w) => Opened(o, j, w))
  <2>1. Running(o, i) BY <1>4, <1>10 DEF Running
  <2>2. ~ b /\ i.level # "error" BY <1>4, <1>10 DEF Quiet
  <2>3. S \cap o.connections = {} BY <2>1, <2>2
  <2>4. i.connections = o.connections => j.connections = o.connections BY <1>4, <2>3
  <2> QED BY <2>1, <2>4 DEF Opened
<1>11. j.connections \subseteq i.connections BY <1>4
<1> QED BY <1>1, <1>4, <1>6, <1>7, <1>8, <1>9, <1>10, <1>11, InboundPre

(* Another level of the inbound, that stays out of the way of the error.    *)
LEMMA LevelPre ==
  ASSUME NEW o, NEW i, NEW w, NEW ct, NEW b, NEW L, NEW R, NEW A,
         Pre(o, i, w, ct, b, L, R, A), ct # {} => b, i.level # "error",
         NEW level \in {"shutdown", "ended"}, NEW j, j = [i EXCEPT !.level = level]
  PROVE  Pre(o, j, w, ct, b, L, R, A)
<1>1. i \in InboundState /\ Wired(w) /\ Aimed(w) /\ Fits(o, i) BY DEF Pre
<1>2. /\ j \in InboundState /\ j.level = level /\ j.connections = i.connections
      /\ j.correlations = i.correlations /\ j.requests = i.requests
      /\ j.conversations = i.conversations
  BY <1>1 DEF InboundState
<1>3. Fits(o, j) BY <1>1, <1>2 DEF Fits
<1>4. \A r \in Request : \A c \in Connection \cup {None} : At(o, j, w, r, c) => At(o, i, w, r, c)
  BY <1>2 DEF At
<1>5. Quiet(o, j, w, b) => Quiet(o, i, w, b) BY <1>2 DEF Quiet, Empty
<1>6. \A p : Flow(p, i, w, L, R) => Flow(p, j, w, L, R) BY <1>2 DEF Flow, Working
<1>7. ~ Running(o, j) BY <1>2 DEF Running
<1>8. j.connections \subseteq i.connections BY <1>2
<1> QED BY <1>1, <1>2, <1>3, <1>4, <1>5, <1>6, <1>7, <1>8, InboundPre
-----------------------------------------------------------------------------
(* The steps of the outbound.                                               *)
LEMMA OutboundStep ==
  ASSUME IInv, NEW o, NEW w, NEW B,
         Pre(o, inbound, w, cut, broken, lookups, remote, B), Moves(o, inbound, w),
         asked' = B, UNCHANGED <<tm, remoteVars>>
  PROVE  IInv'
<1>1. /\ lookups \in SUBSET LookupState /\ remote \in Work /\ Managed(tm)
      /\ remote.done \subseteq tm.jobs
  BY DEF IInv
<1>2. lookups' = lookups /\ remote' = remote /\ tm' = tm BY DEF remoteVars
<1>3. Managed(tm') /\ remote.done \subseteq tm'.jobs BY <1>1, <1>2
<1> QED BY <1>1, <1>2, <1>3, StepIInv

(* tcp::send of the outbound: the message goes up, or the connection is     *)
(* lost, or nothing happens.                                                *)
LEMMA SendUpPre ==
  ASSUME NEW o, NEW i, NEW w, NEW b, NEW L, NEW R, NEW A,
         Pre(o, i, w, cut, b, L, R, A), cut # {} => b,
         NEW c, NEW m \in UpMessage(Job),
         m.corr \in Request =>
           m.corr \in A /\ \A d \in Connection \cup {None} : At(o, i, w, m.corr, d) => d = c,
         m.corr \notin Request => m.corr.conn = c,
         m.type = "disconnected" => ~ (Quiet(o, i, w, b) /\ Running(o, i)),
         NEW s \in SendUp(o, w, c, m)
  PROVE  Pre(s[1], i, s[2], cut, b, L, R, A)
<1>1. o \in OutboundState BY DEF Pre
<1>2. o.connections \subseteq Connection BY <1>1 DEF OutboundState
<1>3. CASE s = <<o, w>> BY <1>3
<1>4. CASE c \in o.connections /\ s = <<o, Up(w, c, m)>>
  <2>1. Pre(o, i, Up(w, c, m), cut, b, L, R, A) BY <1>2, <1>4, UpPre
  <2> QED BY <1>4, <2>1
<1>5. CASE c \in o.connections /\ c \in cut /\ s = <<Lost(o, {c}), w>>
  <2>1. {c} \in SUBSET Connection /\ b BY <1>2, <1>5
  <2>2. Pre(Lost(o, {c}), i, w, cut, b, L, R, A) BY <2>1, LostPre
  <2> QED BY <1>5, <2>2
<1> QED BY <1>3, <1>4, <1>5 DEF SendUp

(* A request of a local process.                                            *)
LEMMA AskIInv ==
  ASSUME IInv, NEW r \in Request, Ask(r)
  PROVE  IInv'
<1> DEFINE B == asked \cup {r}
           m == [type |-> "request", corr |-> r]
<1>1. Pre(outbound, inbound, wire, cut, broken, lookups, remote, asked) /\ (cut # {} => broken)
  BY DEF IInv
<1>2. PICK l \in Looked(outbound, r) :
        LET o == Branched(outbound, l)
            sent == IF KindOf[r] = "cast" THEN Involved(o, l)
                    ELSE Route(Involved(o, l), r, l.conn, KindOf[r])
        IN \/ /\ Refusals(r, l) = {}
              /\ \E s \in SendUp(sent, wire, l.conn, [type |-> "request", corr |-> r]) :
                   Moves(s[1], inbound, s[2])
           \/ \E code \in Refusals(r, l) :
                Moves(IF KindOf[r] = "cast" THEN o ELSE Reply(o, r, code), inbound, wire)
  BY Zenon DEF Ask
<1>3. UNCHANGED <<tm, remoteVars>> /\ asked' = B /\ r \notin asked /\ Alive BY DEF Ask, MayAsk
<1>4. PICK c, kind : c = l.conn /\ kind = KindOf[r] OBVIOUS
<1>5. PICK o, n : o = Branched(outbound, l) /\ n = Involved(o, l) OBVIOUS
<1>6. /\ c \in Connection \cup {None} /\ (c \in Connection => c \in outbound.lookup[ResourceOf[r]])
      /\ Pre(o, inbound, wire, cut, broken, lookups, remote, asked)
      /\ Pre(n, inbound, wire, cut, broken, lookups, remote, asked)
  BY <1>1, <1>4, <1>5, BranchedPre
<1>7. /\ ResourceOf[r] \in Resource /\ kind \in {"call", "cast", "queue", "conversation"}
      /\ None \notin Connection
  BY <1>4, GatewayAssumption DEF GatewayAssumption
<1>8. /\ n \in OutboundState /\ n.lookup = outbound.lookup /\ n.connections = outbound.connections
      /\ n.connections \subseteq Connection
  <2>1. n \in OutboundState /\ outbound \in OutboundState BY <1>1, <1>6 DEF Pre
  <2> QED BY <1>5, <2>1 DEF Branched, Involved, OutboundState
<1>9. /\ Pre(o, inbound, wire, cut, broken, lookups, remote, B)
      /\ Pre(n, inbound, wire, cut, broken, lookups, remote, B)
  BY <1>6, MorePre
<1>10. \A d \in Connection \cup {None} : ~ At(n, inbound, wire, r, d) BY <1>3, <1>6 DEF Pre, Single
<1>11. m \in UpMessage(Job) /\ m.corr = r /\ m.type = "request" BY DEF UpMessage
<1> HIDE DEF m, B
<1>12. r \in B BY DEF B
<1>13. ASSUME NEW code \in Refusals(r, l),
              Moves(IF kind = "cast" THEN o ELSE Reply(o, r, code), inbound, wire)
       PROVE  IInv'
  <2>1. code \in Code /\ code # "lost" BY DEF Refusals, Code
  <2>2. o \in OutboundState BY <1>9 DEF Pre
  <2>3. Milder(o, Reply(o, r, code)) BY <2>1, <2>2, ReplyMilder
  <2>4. Pre(Reply(o, r, code), inbound, wire, cut, broken, lookups, remote, B)
    BY <1>9, <2>3, MilderPre
  <2>5. CASE kind = "cast" BY <1>3, <1>9, <1>13, <2>5, OutboundStep
  <2>6. CASE kind # "cast" BY <1>3, <1>13, <2>4, <2>6, OutboundStep
  <2> QED BY <2>5, <2>6
<1>14. ASSUME Refusals(r, l) = {}, kind = "cast",
              NEW s \in SendUp(n, wire, c, m), Moves(s[1], inbound, s[2])
       PROVE  IInv'
  <2>1. Pre(s[1], inbound, s[2], cut, broken, lookups, remote, B)
    BY <1>1, <1>9, <1>10, <1>11, <1>12, <1>14, SendUpPre
  <2> QED BY <1>3, <1>14, <2>1, OutboundStep
<1>15. ASSUME Refusals(r, l) = {}, kind # "cast",
              NEW s \in SendUp(Route(n, r, c, kind), wire, c, m), Moves(s[1], inbound, s[2])
       PROVE  IInv'
  <2>1. PICK p : p = Route(n, r, c, kind) OBVIOUS
  <2>2. c = None => kind = "conversation"
    <3>1. r \in Looped => KindOf[r] \in {"call", "queue"}
      BY GatewayAssumption DEF GatewayAssumption
    <3>2. r \in Looped => Refusals(r, l) # {}
      <4>1. CASE r \in Looped /\ KindOf[r] = "call"
        <5>1. "no_entry" \in Refusals(r, l) BY <4>1 DEF Refusals
        <5> QED BY <5>1
      <4>2. CASE r \in Looped /\ KindOf[r] = "queue"
        <5>1. "system" \in Refusals(r, l) BY <4>2 DEF Refusals
        <5> QED BY <5>1
      <4> QED BY <3>1, <4>1, <4>2
    <3>3. r \notin Looped /\ l.conn = None /\ KindOf[r] # "conversation" => "system" \in Refusals(r, l)
      BY DEF Refusals
    <3> QED BY <1>4, <1>15, <3>2, <3>3
  <2>3. PICK q : q = [corr |-> r, conn |-> c, kind |-> kind] OBVIOUS
  <2>4. q \in RouteState BY <1>6, <1>7, <1>15, <2>3 DEF RouteState
  <2>5. n.level \in {"running", "shutdown"} /\ n.told = {} => (kind = "conversation" \/ c \in n.connections)
    <3>1. SUFFICES ASSUME n.level \in {"running", "shutdown"}, n.told = {}, c \in Connection
          PROVE  c \in n.connections
      BY <1>6, <2>2
    <3>2. Discovering(n, Connection, n.connections, {}) BY <1>9, <3>1 DEF Pre, Early
    <3> QED BY <1>6, <1>7, <1>8, <3>1, <3>2, DiscoveringIs
  <2>6. ASSUME NEW w, Opened(n, inbound, w) PROVE c \in n.connections \cup {None}
    <3>1. Discovering(n, n.connections, n.connections, {}) BY <2>6 DEF Opened
    <3> QED BY <1>6, <1>7, <1>8, <3>1, DiscoveringIs
  <2>7. ASSUME NEW w, Pre(n, inbound, w, cut, broken, lookups, remote, B),
               \A d \in Connection \cup {None} : At(n, inbound, w, r, d) => d = c,
               c \in n.connections => Flow(q, inbound, w, lookups, remote) \/ c \in cut
        PROVE  Pre(p, inbound, w, cut, broken, lookups, remote, B)
    <3>1. r \notin Job BY RequestIs
    <3> QED BY <1>1, <1>4, <1>12, <2>1, <2>3, <2>4, <2>5, <2>6, <2>7, <3>1, RoutePre
  <2>8. p.connections = n.connections BY <1>8, <2>1 DEF Route, OutboundState
  <2>9. s \in SendUp(p, wire, c, m) BY <1>15, <2>1
  <2>10. ASSUME c \notin n.connections \/ c \in cut
         PROVE  Pre(p, inbound, wire, cut, broken, lookups, remote, B)
    BY <1>9, <1>10, <2>7, <2>10
  <2>11. CASE s = <<p, wire>> /\ (c \notin n.connections \/ c \in cut)
    BY <1>3, <1>15, <2>10, <2>11, OutboundStep
  <2>12. CASE c \in n.connections /\ s = <<p, Up(wire, c, m)>>
    <3>1. c \in Connection BY <1>8, <2>12
    <3>2. PICK w : w = Up(wire, c, m) OBVIOUS
    <3>3. Pre(n, inbound, w, cut, broken, lookups, remote, B)
      BY <1>9, <1>10, <1>11, <1>12, <3>1, <3>2, UpPre
    <3>4. m \in Ups(w, c)
      <4>1. Wired(wire) BY <1>1 DEF Pre
      <4> QED BY <1>11, <3>1, <3>2, <4>1, UpIs
    <3>5. Flow(q, inbound, w, lookups, remote) BY <1>11, <2>3, <3>4 DEF Flow
    <3>6. At(n, inbound, w, r, c) BY <1>11, <3>1, <3>4 DEF At
    <3>7. \A d \in Connection \cup {None} : At(n, inbound, w, r, d) => d = c
      BY <1>6, <3>3, <3>6 DEF Pre, Single
    <3>8. Pre(p, inbound, w, cut, broken, lookups, remote, B) BY <2>7, <3>3, <3>5, <3>7
    <3> QED BY <1>3, <1>15, <2>12, <3>2, <3>8, OutboundStep
  <2>13. CASE c \in n.connections /\ c \in cut /\ s = <<Lost(p, {c}), wire>>
    <3>1. {c} \in SUBSET Connection /\ broken BY <1>1, <1>8, <2>13
    <3>2. Pre(Lost(p, {c}), inbound, wire, cut, broken, lookups, remote, B)
      BY <2>10, <2>13, <3>1, LostPre
    <3> QED BY <1>3, <1>15, <2>13, <3>2, OutboundStep
  <2> QED BY <2>8, <2>9, <2>11, <2>12, <2>13 DEF SendUp
<1> QED BY <1>2, <1>4, <1>5, <1>13, <1>14, <1>15 DEF m

(* A request of the transaction manager.                                    *)
LEMMA AskResourceIInv ==
  ASSUME IInv, NEW j \in tm.jobs, AskResource(j)
  PROVE  IInv'
<1>1. Pre(outbound, inbound, wire, cut, broken, lookups, remote, asked) /\ (cut # {} => broken)
  BY DEF IInv
<1>2. PICK c, m : /\ c = IF [trid |-> j.trid, conn |-> j.conn] \in outbound.branches THEN j.conn ELSE None
                  /\ m = [type |-> "resource", corr |-> j]
  OBVIOUS
<1>3. PICK s \in SendUp(outbound, wire, c, m) : Moves(Route(s[1], j, c, "resource"), inbound, s[2])
  BY <1>2 DEF AskResource
<1>4. UNCHANGED <<tm, remoteVars>> /\ asked' = asked \cup {j} BY DEF AskResource
<1>5. PICK B : B = asked \cup {j} OBVIOUS
<1>6. j \in Job /\ j.conn \in Connection /\ None \notin Connection
  <2>1. j \in Job BY DEF IInv, Managed
  <2> QED BY <2>1, GatewayAssumption DEF Job, GatewayAssumption
<1>7. j \notin Request /\ c \in {j.conn, None} BY <1>2, <1>6, RequestIs
<1>8. m \in UpMessage(Job) /\ m.corr = j /\ m.type = "resource" BY <1>2, <1>6 DEF UpMessage
<1>9. Pre(outbound, inbound, wire, cut, broken, lookups, remote, B) BY <1>1, <1>5, MorePre
<1>10. outbound \in OutboundState /\ Wired(wire) BY <1>1 DEF Pre
<1>11. outbound.connections \subseteq Connection BY <1>10 DEF OutboundState
<1>12. PICK q : q = [corr |-> j, conn |-> c, kind |-> "resource"] OBVIOUS
<1>13. q \in RouteState BY <1>6, <1>7, <1>12 DEF RouteState
<1>14. ASSUME NEW o, NEW w, Pre(o, inbound, w, cut, broken, lookups, remote, B),
              c \in o.connections => Flow(q, inbound, w, lookups, remote) \/ c \in cut,
              ~ broken => o = outbound
       PROVE  Pre(Route(o, j, c, "resource"), inbound, w, cut, broken, lookups, remote, B)
  <2>1. ~ broken /\ Opened(o, inbound, w) => c \in o.connections \cup {None} BY <1>2, <1>14 DEF Opened
  <2> QED BY <1>1, <1>7, <1>12, <1>13, <1>14, <2>1, RoutePre
<1>15. CASE s = <<outbound, wire>> /\ (c \notin outbound.connections \/ c \in cut)
  <2>1. Pre(Route(outbound, j, c, "resource"), inbound, wire, cut, broken, lookups, remote, B)
    BY <1>9, <1>14, <1>15
  <2> QED BY <1>3, <1>4, <1>5, <1>15, <2>1, OutboundStep
<1>16. CASE c \in outbound.connections /\ s = <<outbound, Up(wire, c, m)>>
  <2>1. c \in Connection /\ c = j.conn BY <1>6, <1>7, <1>11, <1>16
  <2>2. PICK w : w = Up(wire, c, m) OBVIOUS
  <2>3. Pre(outbound, inbound, w, cut, broken, lookups, remote, B)
    BY <1>7, <1>8, <1>9, <2>1, <2>2, UpPre
  <2>4. m \in Ups(w, c) BY <1>8, <1>10, <2>1, <2>2, UpIs
  <2>5. Flow(q, inbound, w, lookups, remote) BY <1>8, <1>12, <2>4 DEF Flow
  <2>6. Pre(Route(outbound, j, c, "resource"), inbound, w, cut, broken, lookups, remote, B)
    BY <1>14, <2>3, <2>5
  <2> QED BY <1>3, <1>4, <1>5, <1>16, <2>2, <2>6, OutboundStep
<1>17. CASE c \in outbound.connections /\ c \in cut /\ s = <<Lost(outbound, {c}), wire>>
  <2>1. {c} \in SUBSET Connection /\ broken BY <1>1, <1>11, <1>17
  <2>2. PICK o : o = Lost(outbound, {c}) OBVIOUS
  <2>3. Pre(o, inbound, wire, cut, broken, lookups, remote, B) BY <1>9, <2>1, <2>2, LostPre
  <2>4. Pre(Route(o, j, c, "resource"), inbound, wire, cut, broken, lookups, remote, B)
    BY <1>14, <1>17, <2>1, <2>3
  <2> QED BY <1>3, <1>4, <1>5, <1>17, <2>2, <2>4, OutboundStep
<1> QED BY <1>15, <1>16, <1>17 DEF SendUp

(* The caller of a conversation.                                            *)
LEMMA ConverseIInv ==
  ASSUME IInv, NEW r \in Request, Converse(r)
  PROVE  IInv'
<1>1. Pre(outbound, inbound, wire, cut, broken, lookups, remote, asked) /\ (cut # {} => broken)
  BY DEF IInv
<1>2. PICK p \in outbound.routes :
        /\ p.corr = r /\ p.kind = "conversation"
        /\ \/ /\ asked' = asked \cup {[send |-> r]}
              /\ \E s \in SendUp(outbound, wire, p.conn, [type |-> "send", corr |-> r]) :
                   Moves(s[1], inbound, s[2])
           \/ /\ asked' = asked
              /\ \E s \in SendUp([outbound EXCEPT !.routes = @ \ {p}], wire, p.conn,
                                 [type |-> "hangup", corr |-> r]) :
                   Moves(s[1], inbound, s[2])
  BY Zenon DEF Converse
<1>3. UNCHANGED <<tm, remoteVars>> BY DEF Converse
<1>4. outbound \in OutboundState BY <1>1 DEF Pre
<1>5. PICK c : c = p.conn OBVIOUS
<1>6. c \in Connection \cup {None} BY <1>4, <1>5 DEF OutboundState, RouteState
<1>7. At(outbound, inbound, wire, r, c) BY <1>2, <1>5 DEF At
<1>8. r \in asked /\ \A d \in Connection \cup {None} : At(outbound, inbound, wire, r, d) => d = c
  BY <1>1, <1>6, <1>7 DEF Pre, Single
<1>9. ASSUME NEW o, NEW B, NEW m \in UpMessage(Job), m.corr = r, m.type # "disconnected",
             Pre(o, inbound, wire, cut, broken, lookups, remote, B), asked \subseteq B,
             o.routes \subseteq outbound.routes,
             NEW s \in SendUp(o, wire, c, m), Moves(s[1], inbound, s[2]), asked' = B
      PROVE  IInv'
  <2>1. \A d : At(o, inbound, wire, r, d) => At(outbound, inbound, wire, r, d) BY <1>9 DEF At
  <2>2. Pre(s[1], inbound, s[2], cut, broken, lookups, remote, B)
    BY <1>1, <1>8, <1>9, <2>1, SendUpPre
  <2> QED BY <1>3, <1>9, <2>2, OutboundStep
<1>10. ASSUME asked' = asked \cup {[send |-> r]},
              NEW s \in SendUp(outbound, wire, c, [type |-> "send", corr |-> r]),
              Moves(s[1], inbound, s[2])
       PROVE  IInv'
  <2>1. [type |-> "send", corr |-> r] \in UpMessage(Job) BY DEF UpMessage
  <2>2. PICK B : B = asked \cup {[send |-> r]} OBVIOUS
  <2>3. Pre(outbound, inbound, wire, cut, broken, lookups, remote, B) BY <1>1, <2>2, MorePre
  <2> QED BY <1>9, <1>10, <2>1, <2>2, <2>3
<1>11. ASSUME asked' = asked,
              NEW s \in SendUp([outbound EXCEPT !.routes = @ \ {p}], wire, c,
                               [type |-> "hangup", corr |-> r]),
              Moves(s[1], inbound, s[2])
       PROVE  IInv'
  <2>1. [type |-> "hangup", corr |-> r] \in UpMessage(Job) BY DEF UpMessage
  <2>2. PICK S, o : S = outbound.routes \ {p} /\ o = [outbound EXCEPT !.routes = S] OBVIOUS
  <2>3. o = [outbound EXCEPT !.routes = @ \ {p}] BY <1>4, <2>2 DEF OutboundState
  <2>4. S \in SUBSET outbound.routes BY <2>2
  <2>5. Milder(outbound, o) BY <1>4, <2>2, <2>4, FewerMilder
  <2>6. Pre(o, inbound, wire, cut, broken, lookups, remote, asked) BY <1>1, <2>5, MilderPre
  <2>7. o.routes \subseteq outbound.routes BY <2>5 DEF Milder
  <2> QED BY <1>9, <1>11, <2>1, <2>3, <2>6, <2>7
<1> QED BY <1>2, <1>5, <1>10, <1>11

(* A discovery.                                                             *)
LEMMA DiscoverIInv ==
  ASSUME IInv, NEW d \in Discovery, Discover(d)
  PROVE  IInv'
<1>1. Pre(outbound, inbound, wire, cut, broken, lookups, remote, asked) /\ (cut # {} => broken)
  BY DEF IInv
<1>2. PICK S, whole :
        /\ S = IF d \in Rediscovery THEN (outbound.connections \ outbound.disconnecting) \cap Configured
               ELSE (outbound.connections \ outbound.disconnecting) \ OriginOf[d]
        /\ whole = {c \in S : Whole(c)}
  OBVIOUS
<1>3. \/ Moves([outbound EXCEPT !.told = @ \cup {d}], inbound, wire)
      \/ Moves(Aborted(outbound), inbound, Discovers(wire, d, whole))
      \/ \E failed \in SUBSET (S \ whole) :
           Moves(Register(Lost(outbound, failed), Entry(d, S)), inbound, Discovers(wire, d, whole))
  BY <1>2 DEF Discover
<1>4. UNCHANGED <<tm, remoteVars>> /\ asked' = asked \cup {d} BY DEF Discover
<1>5. PICK B : B = asked \cup {d} OBVIOUS
<1>6. outbound \in OutboundState BY <1>1 DEF Pre
<1>7. S \subseteq outbound.connections /\ S \subseteq Connection BY <1>2, <1>6 DEF OutboundState
<1>8. d \notin Connection BY GatewayAssumption DEF GatewayAssumption
<1>9. Pre(outbound, inbound, wire, cut, broken, lookups, remote, B) BY <1>1, <1>5, MorePre
<1>10. CASE Moves([outbound EXCEPT !.told = @ \cup {d}], inbound, wire)
  <2>1. PICK T, p : T = outbound.told \cup {d} /\ p = [outbound EXCEPT !.told = T] OBVIOUS
  <2>2. T \in SUBSET Discovery /\ outbound.told \subseteq T BY <1>6, <2>1 DEF OutboundState
  <2>3. /\ p \in OutboundState /\ p.level = outbound.level /\ p.connections = outbound.connections
        /\ p.unconnected = outbound.unconnected /\ p.told = T /\ p.routes = outbound.routes
        /\ p.replies = outbound.replies /\ p.disconnecting = outbound.disconnecting
        /\ p.branches = outbound.branches /\ p.discovery = outbound.discovery
        /\ p.lookup = outbound.lookup
    BY <1>6, <2>1, <2>2 DEF OutboundState
  <2>4. Milder(outbound, p) BY <1>6, <2>2, <2>3, SameMilder
  <2>5. Pre(p, inbound, wire, cut, broken, lookups, remote, B) BY <1>9, <2>4, MilderPre
  <2>6. p = [outbound EXCEPT !.told = @ \cup {d}] BY <1>6, <2>1 DEF OutboundState
  <2> QED BY <1>4, <1>5, <1>10, <2>5, <2>6, OutboundStep
<1>11. CASE Moves(Aborted(outbound), inbound, Discovers(wire, d, whole))
  <2>1. Pre(Aborted(outbound), inbound, wire, cut, broken, lookups, remote, B) BY <1>9, AbortedPre
  <2>2. Pre(Aborted(outbound), inbound, Discovers(wire, d, whole), cut, broken, lookups, remote, B)
    BY <2>1, DiscoversPre
  <2> QED BY <1>4, <1>5, <1>11, <2>2, OutboundStep
<1>12. ASSUME NEW failed \in SUBSET (S \ whole),
              Moves(Register(Lost(outbound, failed), Entry(d, S)), inbound, Discovers(wire, d, whole))
       PROVE  IInv'
  <2>1. PICK o, p : o = Lost(outbound, failed) /\ p = Register(o, Entry(d, S)) OBVIOUS
  <2>2. failed \in SUBSET Connection BY <1>7
  <2>3. ~ broken => \A c \in failed : c \in outbound.connections /\ c \notin inbound.connections
    BY <1>1, <1>2, <1>7 DEF Whole
  <2>4. Pre(o, inbound, wire, cut, broken, lookups, remote, B) BY <1>9, <2>1, <2>2, <2>3, LostPre
  <2>5. o \in OutboundState BY <2>4 DEF Pre
  <2>6. /\ Alike(o, p)
        /\ \A K, M : Discovering(o, K, M, {}) => Discovering(p, K, M, {})
    BY <1>7, <1>8, <2>1, <2>5, RegisterIs
  <2>7. Milder(o, p) BY <2>6, AlikeMilder
  <2>8. Pre(p, inbound, wire, cut, broken, lookups, remote, B) BY <2>4, <2>7, MilderPre
  <2>9. Pre(p, inbound, Discovers(wire, d, whole), cut, broken, lookups, remote, B)
    BY <2>8, DiscoversPre
  <2> QED BY <1>4, <1>5, <1>12, <2>1, <2>9, OutboundStep
<1> QED BY <1>3, <1>10, <1>11, <1>12

(* A message of the other domain.                                           *)
LEMMA OutboundReadsIInv ==
  ASSUME IInv, NEW c \in Connection, OutboundReads(c)
  PROVE  IInv'
<1>1. /\ Pre(outbound, inbound, wire, cut, broken, lookups, remote, asked) /\ (cut # {} => broken)
      /\ Empty(outbound, inbound, wire)
  BY DEF IInv
<1>2. PICK m, w : m = Head(wire.down[c]) /\ w = [wire EXCEPT !.down[c] = Tail(@)] OBVIOUS
<1>3. /\ c \in outbound.connections /\ wire.down[c] # <<>> /\ UNCHANGED <<tm, remoteVars>>
      /\ asked' = asked
  BY DEF OutboundReads, localVars
<1>4. \/ m.type # "disconnect" /\ Moves(Received(outbound, m), inbound, w)
      \/ /\ m.type = "disconnect"
         /\ \E s \in SendUp(Disconnected(outbound, {c}), w, c,
                            [type |-> "disconnected", corr |-> m.corr]) :
              Moves(s[1], inbound, s[2])
  BY <1>2 DEF OutboundReads
<1>5. CASE m.type # "disconnect" /\ Moves(Received(outbound, m), inbound, w)
  <2>1. Pre(Received(outbound, m), inbound, w, cut, broken, lookups, remote, asked)
    BY <1>1, <1>2, <1>3, <1>5, ReceivedPre
  <2> QED BY <1>3, <1>5, <2>1, OutboundStep
<1>6. ASSUME m.type = "disconnect",
             NEW s \in SendUp(Disconnected(outbound, {c}), w, c,
                              [type |-> "disconnected", corr |-> m.corr]),
             Moves(s[1], inbound, s[2])
      PROVE  IInv'
  <2>1. outbound \in OutboundState /\ Wired(wire) BY <1>1 DEF Pre
  <2>2. m \in DownMessage(Job, Job) /\ m \in Downs(wire, c) BY <1>2, <1>3, <2>1, DownRead
  <2>3. m.corr \in Leaving BY <1>6, <2>2 DEF DownMessage
  <2>4. m.corr \notin Request /\ m.corr.conn = c BY <1>1, <2>2, <2>3, RequestIs DEF Pre, Aimed
  <2>5. PICK n : n = [type |-> "disconnected", corr |-> m.corr] OBVIOUS
  <2>6. n \in UpMessage(Job) /\ n.corr = m.corr BY <2>3, <2>5 DEF UpMessage
  <2>7. ~ (~ broken /\ outbound.level # "error" /\ inbound.level # "error" /\ Running(outbound, inbound))
    <3>1. SUFFICES ASSUME Quiet(outbound, inbound, wire, broken), Running(outbound, inbound) PROVE FALSE
      BY <1>1 DEF Quiet
    <3>2. Opened(outbound, inbound, wire) BY <1>1, <3>1 DEF Pre
    <3> QED BY <1>6, <2>2, <3>2 DEF Opened
  <2>8. Pre(outbound, inbound, w, cut, broken, lookups, remote, asked)
    BY <1>1, <1>2, <1>3, <1>6, ReadPre
  <2>9. PICK p : p = Disconnected(outbound, {c}) OBVIOUS
  <2>10. /\ p \in OutboundState /\ outbound.told \subseteq p.told
         /\ p.level = outbound.level /\ p.unconnected = outbound.unconnected
         /\ p.connections = outbound.connections
         /\ p.routes = outbound.routes /\ p.replies = outbound.replies
         /\ \A K, M : Discovering(outbound, K, M, {}) => Discovering(p, K, M, {})
    BY <2>1, <2>9, DisconnectedIs
  <2>11. Quiet(outbound, inbound, w, broken) => ~ Running(p, inbound)
    BY <2>7, <2>10 DEF Quiet, Running
  <2>12. ~ (Quiet(p, inbound, w, broken) /\ Running(p, inbound))
    BY <2>7, <2>10 DEF Quiet, Running
  <2>13. Pre(p, inbound, w, cut, broken, lookups, remote, asked)
    BY <2>8, <2>10, <2>11, LeavesPre
  <2>14. s \in SendUp(p, w, c, n) BY <1>6, <2>5, <2>9
  <2>15. Pre(s[1], inbound, s[2], cut, broken, lookups, remote, asked)
    BY <1>1, <2>4, <2>6, <2>12, <2>13, <2>14, SendUpPre
  <2> QED BY <1>3, <1>6, <2>15, OutboundStep
<1> QED BY <1>4, <1>5, <1>6

(* Connections are lost, and may be connected again.                        *)
LEMMA LosesIInv ==
  ASSUME IInv, NEW S \in SUBSET Connection, Moves(Reconnect(Lost(outbound, S), S), inbound, wire),
         ~ broken => \A c \in S : \/ c \in outbound.connections /\ c \notin inbound.connections
                                  \/ c \in outbound.disconnecting /\ RoutesOf(outbound, {c}) = {},
         UNCHANGED <<localVars, remoteVars>>
  PROVE  IInv'
<1>1. Pre(outbound, inbound, wire, cut, broken, lookups, remote, asked) BY DEF IInv
<1>2. PICK o : o = Lost(outbound, S) OBVIOUS
<1>3. Pre(o, inbound, wire, cut, broken, lookups, remote, asked) BY <1>1, <1>2, LostPre
<1>4. outbound \in OutboundState BY <1>1 DEF Pre
<1>5. S \cap o.connections = {} BY <1>2, <1>4, LostIs DEF Loses
<1>6. Pre(Reconnect(o, S), inbound, wire, cut, broken, lookups, remote, asked)
  BY <1>3, <1>5, ReconnectPre
<1> QED BY <1>2, <1>6, OutboundStep DEF localVars

(* A connection is lost in a read.                                          *)
LEMMA OutboundLosesIInv ==
  ASSUME IInv, NEW c \in Connection, OutboundLoses(c)
  PROVE  IInv'
<1>1. cut # {} => broken BY DEF IInv
<1>2. {c} \in SUBSET Connection OBVIOUS
<1> QED BY <1>1, <1>2, LosesIInv DEF OutboundLoses

(* A connection on its way out goes when idle.                              *)
LEMMA OutboundIdleIInv ==
  ASSUME IInv, OutboundIdle
  PROVE  IInv'
<1>1. PICK S : S = {c \in outbound.disconnecting : RoutesOf(outbound, {c}) = {}} OBVIOUS
<1>2. outbound \in OutboundState BY DEF IInv, Pre
<1>3. S \in SUBSET Connection BY <1>1, <1>2 DEF OutboundState
<1>4. \A c \in S : c \in outbound.disconnecting /\ RoutesOf(outbound, {c}) = {} BY <1>1
<1>5. Moves(Reconnect(Lost(outbound, S), S), inbound, wire) /\ UNCHANGED <<localVars, remoteVars>>
  BY <1>1 DEF OutboundIdle
<1> QED BY <1>3, <1>4, <1>5, LosesIInv

(* The outbound is shut down, and ends.                                     *)
LEMMA OutboundShutdownIInv ==
  ASSUME IInv, OutboundShutdown
  PROVE  IInv'
<1>1. Pre(outbound, inbound, wire, cut, broken, lookups, remote, asked) BY DEF IInv
<1>2. outbound \in OutboundState BY <1>1 DEF Pre
<1>3. PICK d, p : /\ d = Disconnected(outbound, outbound.connections)
                  /\ p = [d EXCEPT !.level = "shutdown", !.unconnected = {}]
  OBVIOUS
<1>4. outbound.level = "running" /\ Moves(p, inbound, wire) /\ UNCHANGED <<localVars, remoteVars>>
  BY <1>3 DEF OutboundShutdown
<1>5. outbound.connections \in SUBSET Connection BY <1>2 DEF OutboundState
<1>6. /\ d \in OutboundState /\ outbound.told \subseteq d.told
      /\ d.connections = outbound.connections
      /\ d.routes = outbound.routes /\ d.replies = outbound.replies
      /\ \A K, M : Discovering(outbound, K, M, {}) => Discovering(d, K, M, {})
  BY <1>2, <1>3, <1>5, DisconnectedIs
<1>7. /\ p \in OutboundState /\ p.told = d.told /\ p.connections = d.connections
      /\ p.unconnected = {} /\ p.routes = d.routes /\ p.replies = d.replies
      /\ p.lookup = d.lookup /\ p.discovery = d.discovery /\ p.level = "shutdown"
  BY <1>3, <1>6 DEF OutboundState
<1>8. \A K, M, T : Discovering(d, K, M, T) => Discovering(p, K, M, T) BY <1>7, SameFinds
<1>9. \A K, M : Discovering(outbound, K, M, {}) => Discovering(p, K, M, {}) BY <1>6, <1>8
<1>10. ~ Running(p, inbound) BY <1>7 DEF Running
<1>11. Pre(p, inbound, wire, cut, broken, lookups, remote, asked)
  BY <1>1, <1>4, <1>6, <1>7, <1>9, <1>10, LeavesPre
<1> QED BY <1>4, <1>11, OutboundStep DEF localVars

(* The outbound ends.                                                       *)
LEMMA OutboundEndsIInv ==
  ASSUME IInv, OutboundEnds
  PROVE  IInv'
<1>1. Pre(outbound, inbound, wire, cut, broken, lookups, remote, asked) BY DEF IInv
<1>2. PICK p : p = [outbound EXCEPT !.level = "ended", !.connections = {}, !.disconnecting = {}]
  OBVIOUS
<1>3. /\ outbound.level = "shutdown" /\ outbound.routes = {} /\ Moves(p, inbound, wire)
      /\ UNCHANGED <<localVars, remoteVars>>
  BY <1>2 DEF OutboundEnds
<1>4. Pre(p, inbound, wire, cut, broken, lookups, remote, asked) BY <1>1, <1>2, <1>3, EndsPre
<1> QED BY <1>3, <1>4, OutboundStep DEF localVars

(* What the inbound keeps of requests is where it was, and what works on    *)
(* them still does.                                                         *)
LEMMA KeepsPre ==
  ASSUME NEW o, NEW i, NEW w, NEW ct, NEW b, NEW L, NEW R, NEW A,
         Pre(o, i, w, ct, b, L, R, A), ct # {} => b,
         NEW j \in InboundState, NEW M, NEW S,
         j.connections = i.connections, j.level = i.level,
         \A x \in j.correlations : x \in i.correlations \/ (x.corr \in Leaving /\ x.conn = x.corr.conn),
         \A x \in i.correlations : x \in j.correlations \/ x.corr \in Leaving,
         \A x \in Request \cup Job : Working(x, i, L, R) => Working(x, j, M, S)
  PROVE  Pre(o, j, w, ct, b, M, S, A)
<1>1. o \in OutboundState /\ i \in InboundState /\ Wired(w) /\ Aimed(w) /\ Fits(o, i) BY DEF Pre
<1>2. Fits(o, j) BY <1>1 DEF Fits
<1>3. \A r \in Request : \A c \in Connection \cup {None} : At(o, j, w, r, c) => At(o, i, w, r, c)
  BY RequestIs DEF At
<1>4. Quiet(o, j, w, b) => Quiet(o, i, w, b) BY DEF Quiet, Empty
<1>5. ASSUME NEW p \in o.routes, Flow(p, i, w, L, R) PROVE Flow(p, j, w, M, S)
  <2>1. p.corr \in Request \cup Job BY <1>1 DEF OutboundState, RouteState
  <2>2. \A x \in i.correlations : x.corr = p.corr => x \in j.correlations BY <2>1, RequestIs
  <2> QED BY <1>5, <2>1, <2>2 DEF Flow
<1>6. Running(o, j) => Running(o, i) /\ (Opened(o, i, w) => Opened(o, j, w))
  BY DEF Running, Opened
<1> QED BY <1>1, <1>2, <1>3, <1>4, <1>5, <1>6, InboundPre

(* Messages go down.                                                        *)
LEMMA DownPre ==
  ASSUME NEW o, NEW i, NEW w, NEW ct, NEW b, NEW L, NEW R, NEW A,
         Pre(o, i, w, ct, b, L, R, A), ct # {} => b,
         NEW v, Wired(v), v.up = w.up, NEW S, NEW f,
         \A c \in Connection : v.down[c] = IF c \in S THEN Append(w.down[c], f[c]) ELSE w.down[c],
         \A c \in S \cap Connection :
           /\ f[c] \in DownMessage(Job, Job)
           /\ f[c].corr \notin Request => f[c].corr.conn = c
           /\ f[c].type = "disconnect" => ~ Running(o, i)
  PROVE  Pre(o, i, v, ct, b, L, R, A)
<1>1. o \in OutboundState /\ i \in InboundState /\ Wired(w) /\ Aimed(w) /\ Fits(o, i) BY DEF Pre
<1>2. \A c \in Connection : /\ Ups(v, c) = Ups(w, c)
                            /\ Downs(v, c) = Downs(w, c) \cup {x \in {f[c]} : c \in S}
  BY <1>1, DownIs
<1>3. \A c \in Connection : /\ Downs(w, c) \subseteq Downs(v, c)
                            /\ \A x \in Downs(v, c) : x \in Downs(w, c) \/ (x = f[c] /\ c \in S)
  BY <1>2
<1>4. Aimed(v) BY <1>1, <1>2, <1>3 DEF Aimed
<1>5. \A r \in Request : \A c \in Connection \cup {None} : At(o, i, v, r, c) => At(o, i, w, r, c)
  BY <1>2 DEF At
<1>6. Quiet(o, i, v, b) => Quiet(o, i, w, b)
  <2>1. Empty(o, i, v) => Empty(o, i, w) BY <1>2, <1>3 DEF Empty
  <2> QED BY <2>1 DEF Quiet
<1>7. \A p \in o.routes : p.conn \in o.connections /\ Flow(p, i, w, L, R) => Flow(p, i, v, L, R)
  <2>1. o.connections \subseteq Connection BY <1>1 DEF OutboundState
  <2> QED BY <1>2, <1>3, <2>1 DEF Flow
<1>8. Running(o, i) /\ Opened(o, i, w) => Opened(o, i, v) BY <1>2, <1>3 DEF Opened
<1>9. i.connections \subseteq i.connections OBVIOUS
<1> QED BY <1>1, <1>4, <1>5, <1>6, <1>7, <1>8, <1>9, InboundPre

(* The inbound reads a message of its requests.                             *)
LEMMA TakesPre ==
  ASSUME NEW o, NEW i, NEW w, NEW ct, NEW b, NEW L, NEW R, NEW A,
         Pre(o, i, w, ct, b, L, R, A), ct # {} => b,
         NEW c \in i.connections, w.up[c] # <<>>, NEW m, m = Head(w.up[c]),
         NEW v, v = [w EXCEPT !.up[c] = Tail(@)], m.type # "disconnected",
         NEW k \in InboundState, k.correlations = i.correlations, k.connections = i.connections,
         k.level = i.level, i.requests \subseteq k.requests,
         NEW M, NEW S, L \subseteq M, R.busy \subseteq S.busy,
         m.type \in {"request", "resource"} => Working(m.corr, k, M, S)
  PROVE  Pre(o, Correlated(k, m.corr, c), v, ct, b, M, S, A)
<1>1. o \in OutboundState /\ i \in InboundState /\ Wired(w) /\ Aimed(w) /\ Fits(o, i) BY DEF Pre
<1>2. c \in Connection BY <1>1 DEF InboundState
<1>3. /\ Wired(v) /\ m \in UpMessage(Job) /\ Ups(w, c) = Ups(v, c) \cup {m}
      /\ \A d \in Connection : /\ d # c => Ups(v, d) = Ups(w, d)
                               /\ Downs(v, d) = Downs(w, d)
  BY <1>1, <1>2, UpRead
<1>4. m.corr \in Request \cup Job \cup Asked BY <1>3 DEF UpMessage
<1>5. PICK x, C : x = [corr |-> m.corr, conn |-> c] /\ C = k.correlations \cup {x} OBVIOUS
<1>6. x \in [corr : Request \cup Job \cup Asked \cup Leaving, conn : Connection] BY <1>2, <1>4, <1>5
<1>7. C \in SUBSET [corr : Request \cup Job \cup Asked \cup Leaving, conn : Connection]
  BY <1>5, <1>6 DEF InboundState
<1>8. PICK j : j = Correlated(k, m.corr, c) OBVIOUS
<1>9. /\ j \in InboundState /\ j.connections = i.connections /\ j.level = i.level
      /\ j.requests = k.requests /\ j.conversations = k.conversations
      /\ i.correlations \subseteq j.correlations
      /\ \A y \in j.correlations : y \in i.correlations \/ (y.corr = m.corr /\ y.conn = c)
      /\ \E y \in j.correlations : y.corr = m.corr
  <2>1. CASE \E y \in k.correlations : y.corr = m.corr BY <1>8, <2>1 DEF Correlated
  <2>2. CASE ~ \E y \in k.correlations : y.corr = m.corr
    <3>1. j = [k EXCEPT !.correlations = C] BY <1>5, <1>8, <2>2 DEF Correlated, InboundState
    <3>2. /\ j \in InboundState /\ j.connections = k.connections /\ j.level = k.level
          /\ j.requests = k.requests /\ j.conversations = k.conversations /\ j.correlations = C
      BY <1>7, <3>1 DEF InboundState
    <3> QED BY <1>5, <3>2
  <2> QED BY <2>1, <2>2
<1>10. \A y \in j.correlations : y.corr = m.corr => y.conn = c
  <2>1. SUFFICES ASSUME NEW y \in i.correlations, y.corr = m.corr PROVE y.conn = c BY <1>9
  <2>2. CASE m.corr \in Request
    <3>1. At(o, i, w, m.corr, y.conn) /\ At(o, i, w, m.corr, c) BY <1>2, <1>3, <2>1 DEF At
    <3>2. y.conn \in Connection BY <1>1, <2>1 DEF InboundState
    <3> QED BY <1>2, <2>2, <3>1, <3>2 DEF Pre, Single
  <2>3. CASE m.corr \notin Request
    <3>1. m.corr.conn = c BY <1>1, <1>2, <1>3, <2>3 DEF Aimed
    <3> QED BY <1>1, <2>1, <2>3, <3>1 DEF Fits
  <2> QED BY <2>2, <2>3
<1>11. Fits(o, j)
  <2>1. m.corr \notin Request => m.corr.conn = c BY <1>1, <1>2, <1>3 DEF Aimed
  <2> QED BY <1>1, <1>9, <2>1 DEF Fits
<1>12. \A d \in Connection : Ups(v, d) \subseteq Ups(w, d) BY <1>3
<1>13. Aimed(v) BY <1>1, <1>3, <1>12 DEF Aimed
<1>14. \A r \in Request : \A d \in Connection \cup {None} : At(o, j, v, r, d) => At(o, i, w, r, d)
  <2>1. At(o, i, w, m.corr, c) BY <1>2, <1>3 DEF At
  <2> QED BY <1>3, <1>9, <1>12, <2>1 DEF At
<1>15. Quiet(o, j, v, b) => Quiet(o, i, w, b)
  <2>1. Empty(o, j, v) => Empty(o, i, w) BY <1>3, <1>9 DEF Empty
  <2> QED BY <1>9, <2>1 DEF Quiet
<1>16. ASSUME NEW p \in o.routes, p.conn \in o.connections, Flow(p, i, w, L, R)
       PROVE  Flow(p, j, v, M, S)
  <2>1. p.conn \in Connection BY <1>1, <1>16 DEF OutboundState
  <2>2. ASSUME NEW y \in Ups(w, p.conn), y.type \in {"request", "resource"}, y.corr = p.corr
        PROVE  Flow(p, j, v, M, S)
    <3>1. CASE y \in Ups(v, p.conn) BY <2>2, <3>1 DEF Flow
    <3>2. CASE y \notin Ups(v, p.conn)
      <4>1. y = m /\ p.conn = c BY <1>3, <2>1, <2>2, <3>2
      <4>2. Working(p.corr, j, M, S) BY <1>9, <2>2, <4>1 DEF Working
      <4> QED BY <1>9, <1>10, <2>2, <4>1, <4>2 DEF Flow
    <3> QED BY <3>1, <3>2
  <2>3. CASE \E y \in Downs(w, p.conn) : y.type \in {"reply", "vote"} /\ y.corr = p.corr
    BY <1>3, <2>1, <2>3 DEF Flow
  <2>4. ASSUME NEW y \in i.correlations, y.corr = p.corr, y.conn = p.conn, Working(p.corr, i, L, R)
        PROVE  Flow(p, j, v, M, S)
    <3>1. y \in j.correlations BY <1>9
    <3>2. Working(p.corr, j, M, S) BY <1>9, <2>4 DEF Working
    <3> QED BY <2>4, <3>1, <3>2 DEF Flow
  <2> QED BY <1>16, <2>2, <2>3, <2>4 DEF Flow
<1>17. Running(o, j) => Running(o, i) /\ (Opened(o, i, w) => Opened(o, j, v))
  BY <1>3, <1>9, <1>12 DEF Running, Opened
<1>18. Pre(o, j, v, ct, b, M, S, A)
  BY <1>3, <1>9, <1>11, <1>13, <1>14, <1>15, <1>16, <1>17, InboundPre
<1> QED BY <1>8, <1>18

(* The inbound reads what no route waits for.                               *)
LEMMA UpReadPre ==
  ASSUME NEW o, NEW i, NEW w, NEW ct, NEW b, NEW L, NEW R, NEW A,
         Pre(o, i, w, ct, b, L, R, A), ct # {} => b,
         NEW c \in i.connections, w.up[c] # <<>>, NEW m, m = Head(w.up[c]),
         NEW v, v = [w EXCEPT !.up[c] = Tail(@)], m.type = "disconnected"
  PROVE  Pre(o, i, v, ct, b, L, R, A)
<1>1. o \in OutboundState /\ i \in InboundState /\ Wired(w) /\ Aimed(w) /\ Fits(o, i) BY DEF Pre
<1>2. c \in Connection BY <1>1 DEF InboundState
<1>3. /\ Wired(v) /\ m \in UpMessage(Job) /\ Ups(w, c) = Ups(v, c) \cup {m}
      /\ \A d \in Connection : /\ d # c => Ups(v, d) = Ups(w, d)
                               /\ Downs(v, d) = Downs(w, d)
  BY <1>1, <1>2, UpRead
<1>4. \A d \in Connection :
        /\ Ups(v, d) \subseteq Ups(w, d)
        /\ \A x \in Ups(w, d) : x.type \in {"request", "resource"} => x \in Ups(v, d)
  BY <1>3
<1>5. Aimed(v) BY <1>1, <1>3, <1>4 DEF Aimed
<1>6. \A r \in Request : \A d \in Connection \cup {None} : At(o, i, v, r, d) => At(o, i, w, r, d)
  BY <1>3, <1>4 DEF At
<1>7. Quiet(o, i, v, b) => Quiet(o, i, w, b)
  <2>1. Empty(o, i, v) => Empty(o, i, w) BY <1>3 DEF Empty
  <2> QED BY <2>1 DEF Quiet
<1>8. \A p \in o.routes : p.conn \in o.connections /\ Flow(p, i, w, L, R) => Flow(p, i, v, L, R)
  <2>1. o.connections \subseteq Connection BY <1>1 DEF OutboundState
  <2> QED BY <1>3, <1>4, <2>1 DEF Flow
<1>9. Opened(o, i, w) => Opened(o, i, v) BY <1>3, <1>4 DEF Opened
<1>10. i.connections \subseteq i.connections OBVIOUS
<1> QED BY <1>1, <1>3, <1>5, <1>6, <1>7, <1>8, <1>9, <1>10, InboundPre

(* The inbound leaves with an error.                                        *)
LEMMA InboundAbortedPre ==
  ASSUME NEW o, NEW i, NEW w, NEW ct, NEW b, NEW L, NEW R, NEW A,
         Pre(o, i, w, ct, b, L, R, A), ct # {} => b, NEW M, NEW S
  PROVE  Pre(o, InboundAborted(i), w, ct, b, M, S, A)
<1>1. o \in OutboundState /\ i \in InboundState /\ Wired(w) /\ Aimed(w) /\ Fits(o, i) BY DEF Pre
<1>2. PICK X, Q : X = {x \in i.correlations : x.conn \in i.connections} /\ Q = {x.corr : x \in X}
  OBVIOUS
<1>3. PICK j : j = InboundAborted(i) OBVIOUS
<1>4. PICK a1, a2, a3, a4 : /\ a1 = i.connections \ i.connections /\ a2 = i.disconnects \ i.connections
                            /\ a3 = i.correlations \ X /\ a4 = i.requests \ Q
  OBVIOUS
<1>5. j = [i EXCEPT !.level = "error", !.connections = a1, !.disconnects = a2,
                    !.correlations = a3, !.requests = a4]
  BY <1>1, <1>2, <1>3, <1>4 DEF InboundAborted, InboundLost, InboundState
<1>6. /\ a1 \in SUBSET Connection /\ a2 \in SUBSET Connection /\ a4 \in SUBSET Request
      /\ a3 \in SUBSET [corr : Request \cup Job \cup Asked \cup Leaving, conn : Connection]
  <2>1. /\ i.connections \in SUBSET Connection /\ i.disconnects \in SUBSET Connection
        /\ i.requests \in SUBSET Request
        /\ i.correlations \in SUBSET [corr : Request \cup Job \cup Asked \cup Leaving,
                                      conn : Connection]
    BY <1>1 DEF InboundState
  <2>2. /\ a1 \subseteq i.connections /\ a2 \subseteq i.disconnects
        /\ a3 \subseteq i.correlations /\ a4 \subseteq i.requests
    BY <1>4
  <2> QED BY <2>1, <2>2
<1>7. /\ j \in InboundState /\ j.correlations = a3 /\ j.requests = a4 /\ j.connections = a1
      /\ j.level = "error" /\ j.conversations = i.conversations
  BY <1>1, <1>5, <1>6 DEF InboundState
<1>8. a1 = {} /\ a3 \subseteq i.correlations /\ \A x \in a3 : x.conn \notin i.connections BY <1>2, <1>4
<1>9. Fits(o, j) BY <1>1, <1>7, <1>8 DEF Fits
<1>10. \A r \in Request : \A c \in Connection \cup {None} : At(o, j, w, r, c) => At(o, i, w, r, c)
  BY <1>7, <1>8 DEF At
<1>11. ~ Quiet(o, j, w, b) /\ j.connections = {} BY <1>7, <1>8 DEF Quiet
<1>12. Pre(o, j, w, ct, b, M, S, A)
  BY <1>1, <1>7, <1>9, <1>10, <1>11, InboundPre
<1> QED BY <1>3, <1>12
-----------------------------------------------------------------------------
(* The steps of the inbound and its domain.                                 *)
LEMMA InboundStep ==
  ASSUME IInv, NEW i, NEW w, NEW L \in SUBSET LookupState, NEW R \in Work,
         Pre(outbound, i, w, cut, broken, L, R, asked), Moves(outbound, i, w),
         lookups' = L, remote' = R, R.done \subseteq tm.jobs, UNCHANGED localVars
  PROVE  IInv'
<1>1. Managed(tm) BY DEF IInv
<1>2. asked' = asked /\ tm' = tm BY DEF localVars
<1>3. Managed(tm') /\ R.done \subseteq tm'.jobs BY <1>1, <1>2
<1> QED BY <1>2, <1>3, StepIInv

(* The same with nothing on the wire.                                       *)
LEMMA StayIInv ==
  ASSUME IInv, NEW i, NEW L \in SUBSET LookupState, NEW T,
         Pre(outbound, i, wire, cut, broken, L, remote, asked),
         i.connections = inbound.connections, inbound' = i, lookups' = L, tm' = T, Managed(T),
         tm.jobs \subseteq T.jobs, UNCHANGED <<outbound, wire, cut, broken, asked, remote>>
  PROVE  IInv'
<1>1. PICK o, w, c, b, A, R : /\ o = outbound /\ w = wire /\ c = cut /\ b = broken /\ A = asked
                              /\ R = remote
  OBVIOUS
<1>2. /\ Empty(o, inbound, w) /\ c \subseteq Connection /\ b \in BOOLEAN /\ (c # {} => b)
      /\ R \in Work /\ R.done \subseteq tm.jobs /\ Pre(o, i, w, c, b, L, R, A)
  BY <1>1 DEF IInv
<1>3. Empty(o, i, w) BY <1>2 DEF Empty
<1>4. /\ outbound' = o /\ inbound' = i /\ wire' = w /\ cut' = c /\ broken' = b /\ asked' = A
      /\ remote' = R /\ lookups' = L /\ tm' = T
  BY <1>1
<1>5. R.done \subseteq T.jobs BY <1>2
<1> QED BY <1>2, <1>3, <1>4, <1>5 DEF IInv

(* The answer to a disconnect.                                              *)
LEMMA DisconnectedPre ==
  ASSUME IInv, NEW c \in inbound.connections, wire.up[c] # <<>>, NEW m, m = Head(wire.up[c]),
         m.type = "disconnected", NEW w, w = [wire EXCEPT !.up[c] = Tail(@)],
         NEW i, i = [inbound EXCEPT !.correlations = {x \in @ : x.corr # m.corr}],
         NEW k, \/ k = i \/ k = [i EXCEPT !.disconnects = @ \cup {c}]
                \/ Correlations(i, c) = {} /\ k = InboundLost(i, {c})
  PROVE  Pre(outbound, Correlated(k, m.corr, c), w, cut, broken, lookups, remote, asked)
<1>1. /\ Pre(outbound, inbound, wire, cut, broken, lookups, remote, asked) /\ (cut # {} => broken)
      /\ Empty(outbound, inbound, wire)
  BY DEF IInv
<1>2. inbound \in InboundState /\ outbound \in OutboundState /\ Wired(wire) /\ Fits(outbound, inbound)
  BY <1>1 DEF Pre
<1>3. c \in Connection BY <1>2 DEF InboundState
<1>4. m \in UpMessage(Job) /\ m \in Ups(wire, c) BY <1>2, <1>3, UpRead
<1>5. m.corr \in Leaving BY <1>4 DEF UpMessage
<1>6. m.corr.conn = c BY <1>1, <1>3, <1>4, <1>5, RequestIs DEF Pre, Aimed
<1>7. ~ (~ broken /\ inbound.level # "error" /\ Running(outbound, inbound))
  <2>1. SUFFICES ASSUME Quiet(outbound, inbound, wire, broken), Running(outbound, inbound) PROVE FALSE
    BY <1>1 DEF Quiet, Running
  <2>2. Opened(outbound, inbound, wire) BY <1>1, <2>1 DEF Pre
  <2> QED BY <1>3, <1>4, <2>2 DEF Opened
<1>8. Pre(outbound, inbound, w, cut, broken, lookups, remote, asked) BY <1>1, UpReadPre
<1>9. PICK C : C = {x \in inbound.correlations : x.corr # m.corr} OBVIOUS
<1>10. C \in SUBSET [corr : Request \cup Job \cup Asked \cup Leaving, conn : Connection]
  <2>1. C \subseteq inbound.correlations BY <1>9
  <2> QED BY <1>2, <2>1 DEF InboundState
<1>11. i = [inbound EXCEPT !.correlations = C] BY <1>2, <1>9 DEF InboundState
<1>12. /\ i \in InboundState /\ i.connections = inbound.connections /\ i.level = inbound.level
       /\ i.requests = inbound.requests /\ i.correlations = C /\ i.disconnects = inbound.disconnects
  BY <1>2, <1>10, <1>11 DEF InboundState
<1>13. /\ \A x \in C : x \in inbound.correlations
       /\ \A x \in inbound.correlations : x \in C \/ x.corr \in Leaving
  BY <1>5, <1>9
<1>14. \A x : Working(x, inbound, lookups, remote) => Working(x, i, lookups, remote)
  BY <1>12 DEF Working
<1>15. Pre(outbound, i, w, cut, broken, lookups, remote, asked)
  BY <1>1, <1>8, <1>12, <1>13, <1>14, KeepsPre
<1>16. Pre(outbound, k, w, cut, broken, lookups, remote, asked)
  <2>1. CASE k = i BY <1>15, <2>1
  <2>2. CASE k = [i EXCEPT !.disconnects = @ \cup {c}]
    <3>1. PICK D : D = i.disconnects \cup {c} OBVIOUS
    <3>2. D \in SUBSET Connection BY <1>3, <1>12, <3>1 DEF InboundState
    <3>3. k = [i EXCEPT !.disconnects = D] BY <1>12, <2>2, <3>1 DEF InboundState
    <3>4. /\ k \in InboundState /\ k.connections = i.connections /\ k.level = i.level
          /\ k.requests = i.requests /\ k.correlations = i.correlations
      BY <1>12, <3>2, <3>3 DEF InboundState
    <3>5. \A x : Working(x, i, lookups, remote) => Working(x, k, lookups, remote)
      BY <3>4 DEF Working
    <3> QED BY <1>1, <1>15, <3>4, <3>5, KeepsPre
  <2>3. CASE Correlations(i, c) = {} /\ k = InboundLost(i, {c})
    <3>1. \A x \in i.correlations : x.conn # c BY <2>3 DEF Correlations
    <3>2. broken \/ i.level = "error" \/ ~ Running(outbound, i) BY <1>7, <1>12 DEF Running
    <3>3. {c} \in SUBSET Connection BY <1>3
    <3>4. PICK D : D = {} OBVIOUS
    <3>5. \A l \in D : l.corr \in i.requests \ k.requests BY <3>4
    <3>6. lookups \ D = lookups BY <3>4
    <3>7. Pre(outbound, k, w, cut, broken, lookups \ D, remote, asked)
      BY <1>1, <1>15, <2>3, <3>1, <3>2, <3>3, <3>5, InboundLostPre
    <3> QED BY <3>6, <3>7
  <2> QED BY <2>1, <2>2, <2>3
<1>17. PICK j : j = Correlated(k, m.corr, c) OBVIOUS
<1>18. CASE \E x \in k.correlations : x.corr = m.corr
  <2>1. j = k BY <1>17, <1>18 DEF Correlated
  <2> QED BY <1>16, <1>17, <2>1
<1>19. CASE ~ \E x \in k.correlations : x.corr = m.corr
  <2>1. k \in InboundState BY <1>16 DEF Pre
  <2>2. PICK x, E : x = [corr |-> m.corr, conn |-> c] /\ E = k.correlations \cup {x} OBVIOUS
  <2>3. x \in [corr : Request \cup Job \cup Asked \cup Leaving, conn : Connection] BY <1>3, <1>5, <2>2
  <2>4. E \in SUBSET [corr : Request \cup Job \cup Asked \cup Leaving, conn : Connection]
    BY <2>1, <2>2, <2>3 DEF InboundState
  <2>5. j = [k EXCEPT !.correlations = E] BY <1>17, <1>19, <2>1, <2>2 DEF Correlated, InboundState
  <2>6. /\ j \in InboundState /\ j.connections = k.connections /\ j.level = k.level
        /\ j.requests = k.requests /\ j.correlations = E
    BY <2>1, <2>4, <2>5 DEF InboundState
  <2>7. \A y : Working(y, k, lookups, remote) => Working(y, j, lookups, remote)
    BY <2>6 DEF Working
  <2>8. /\ \A y \in E : y \in k.correlations \/ (y.corr \in Leaving /\ y.conn = y.corr.conn)
        /\ \A y \in k.correlations : y \in E
    BY <1>5, <1>6, <2>2
  <2>9. Pre(outbound, j, w, cut, broken, lookups, remote, asked)
    BY <1>1, <1>16, <2>6, <2>7, <2>8, KeepsPre
  <2> QED BY <1>17, <2>9
<1> QED BY <1>18, <1>19

(* The inbound reads.                                                       *)
LEMMA InboundReadsIInv ==
  ASSUME IInv, NEW c \in Connection, InboundReads(c)
  PROVE  IInv'
<1>1. /\ Pre(outbound, inbound, wire, cut, broken, lookups, remote, asked) /\ (cut # {} => broken)
      /\ lookups \subseteq LookupState /\ remote \in Work /\ remote.done \subseteq tm.jobs
  BY DEF IInv
<1>2. inbound \in InboundState /\ Wired(wire) BY <1>1 DEF Pre
<1>3. PICK m, took, w : /\ m = Head(wire.up[c]) /\ took = Took(m, c)
                        /\ w = [wire EXCEPT !.up[c] = Tail(@)]
  OBVIOUS
<1>4. /\ c \in inbound.connections /\ wire.up[c] # <<>>
      /\ Moves(outbound, Correlated(took.to, m.corr, c), w)
      /\ lookups' = lookups \cup took.asks
      /\ remote' = [remote EXCEPT !.busy = @ \cup took.works, !.talking = @ \ HungUp(m)]
      /\ UNCHANGED localVars
  BY <1>3 DEF InboundReads
<1>5. m \in UpMessage(Job) BY <1>2, <1>3, <1>4, UpRead
<1>6. ASSUME NEW k, NEW asks \in SUBSET LookupState, NEW works \in SUBSET (Request \cup Job \cup Asked),
             took = [to |-> k, asks |-> asks, works |-> works],
             \A S : S.busy = remote.busy \cup works =>
               Pre(outbound, Correlated(k, m.corr, c), w, cut, broken, lookups \cup asks, S, asked)
      PROVE  IInv'
  <2>1. PICK X, Y : X = remote.busy \cup works /\ Y = remote.talking \ HungUp(m) OBVIOUS
  <2>2. X \in SUBSET (Request \cup Job \cup Asked) /\ Y \in SUBSET Request BY <1>1, <2>1 DEF Work
  <2>3. PICK S : S = [remote EXCEPT !.busy = X, !.talking = Y] OBVIOUS
  <2>4. S \in Work /\ S.busy = X /\ S.done = remote.done BY <1>1, <2>2, <2>3 DEF Work
  <2>5. remote' = S BY <1>1, <1>4, <1>6, <2>1, <2>3 DEF Work
  <2>6. PICK L : L = lookups \cup asks OBVIOUS
  <2>7. L \in SUBSET LookupState /\ lookups' = L BY <1>1, <1>4, <1>6, <2>6
  <2>8. Pre(outbound, Correlated(k, m.corr, c), w, cut, broken, L, S, asked)
    BY <1>6, <2>1, <2>4, <2>6
  <2>9. Moves(outbound, Correlated(k, m.corr, c), w) BY <1>4, <1>6
  <2> QED BY <1>1, <1>4, <2>4, <2>5, <2>7, <2>8, <2>9, InboundStep
<1>7. ASSUME NEW k \in InboundState, k.correlations = inbound.correlations,
             k.connections = inbound.connections, k.level = inbound.level,
             inbound.requests \subseteq k.requests, m.type # "disconnected",
             NEW asks \in SUBSET LookupState, NEW works \in SUBSET (Request \cup Job \cup Asked),
             took = [to |-> k, asks |-> asks, works |-> works],
             m.type \in {"request", "resource"} =>
               \/ m.corr \in Queueless \cup works
               \/ m.corr \in k.requests /\ \E l \in asks : l.corr = m.corr
      PROVE  IInv'
  <2>1. ASSUME NEW S, S.busy = remote.busy \cup works
        PROVE  Pre(outbound, Correlated(k, m.corr, c), w, cut, broken, lookups \cup asks, S, asked)
    <3>1. PICK L : L = lookups \cup asks OBVIOUS
    <3>2. lookups \subseteq L /\ remote.busy \subseteq S.busy BY <2>1, <3>1
    <3>3. m.type \in {"request", "resource"} => Working(m.corr, k, L, S)
      BY <1>7, <2>1, <3>1 DEF Working
    <3>4. Pre(outbound, Correlated(k, m.corr, c), w, cut, broken, L, S, asked)
      BY <1>1, <1>3, <1>4, <1>7, <3>2, <3>3, TakesPre
    <3> QED BY <3>1, <3>4
  <2> QED BY <1>6, <1>7, <2>1
<1>8. CASE m.type = "request" /\ m.corr \in Queueless
  <2>1. took = [to |-> inbound, asks |-> {}, works |-> {}] BY <1>3, <1>8 DEF Took
  <2> QED BY <1>2, <1>7, <1>8, <2>1
<1>9. CASE m.type = "request" /\ m.corr \notin Queueless
  <2>1. m.corr \in Request BY <1>5, <1>9 DEF UpMessage
  <2>2. PICK Q, k, l : /\ Q = inbound.requests \cup {m.corr} /\ k = [inbound EXCEPT !.requests = Q]
                       /\ l = [corr |-> m.corr, state |-> "asked"]
    OBVIOUS
  <2>3. Q \in SUBSET Request BY <1>2, <2>1, <2>2 DEF InboundState
  <2>4. /\ k \in InboundState /\ k.correlations = inbound.correlations
        /\ k.connections = inbound.connections /\ k.level = inbound.level /\ k.requests = Q
    BY <1>2, <2>2, <2>3 DEF InboundState
  <2>5. took = [to |-> k, asks |-> {l}, works |-> {}]
    <3>1. k = [inbound EXCEPT !.requests = @ \cup {m.corr}] BY <1>2, <2>2 DEF InboundState
    <3> QED BY <1>3, <1>9, <2>2, <3>1 DEF Took
  <2>6. {l} \in SUBSET LookupState /\ l.corr = m.corr BY <2>1, <2>2 DEF LookupState
  <2>7. inbound.requests \subseteq k.requests /\ m.corr \in k.requests BY <2>2, <2>4
  <2> QED BY <1>7, <1>9, <2>4, <2>5, <2>6, <2>7
<1>10. CASE m.type \in {"resource", "discover"}
  <2>1. m.corr \in Job \cup Asked BY <1>5, <1>10 DEF UpMessage
  <2>2. took = [to |-> inbound, asks |-> {}, works |-> {m.corr}] BY <1>3, <1>10 DEF Took
  <2>3. {m.corr} \in SUBSET (Request \cup Job \cup Asked) BY <2>1
  <2> QED BY <1>2, <1>7, <1>10, <2>2, <2>3
<1>11. CASE m.type = "send"
  <2>1. took = [to |-> inbound, asks |-> {}, works |-> {}] BY <1>3, <1>11 DEF Took
  <2> QED BY <1>2, <1>7, <1>11, <2>1
<1>12. CASE m.type = "hangup"
  <2>1. PICK T, k : /\ T = {x \in inbound.conversations : x.corr # m.corr}
                    /\ k = [inbound EXCEPT !.conversations = T]
    OBVIOUS
  <2>2. T \in SUBSET [corr : Request, conn : Connection]
    <3>1. T \subseteq inbound.conversations BY <2>1
    <3> QED BY <1>2, <3>1 DEF InboundState
  <2>3. /\ k \in InboundState /\ k.correlations = inbound.correlations
        /\ k.connections = inbound.connections /\ k.level = inbound.level
        /\ k.requests = inbound.requests
    BY <1>2, <2>1, <2>2 DEF InboundState
  <2>4. took = [to |-> k, asks |-> {}, works |-> {}]
    <3>1. k = [inbound EXCEPT !.conversations = {x \in @ : x.corr # m.corr}]
      BY <1>2, <2>1 DEF InboundState
    <3> QED BY <1>3, <1>12, <3>1 DEF Took
  <2> QED BY <1>7, <1>12, <2>3, <2>4
<1>13. CASE m.type = "disconnected"
  <2>1. PICK i : i = [inbound EXCEPT !.correlations = {x \in @ : x.corr # m.corr}] OBVIOUS
  <2>2. PICK k : took = [to |-> k, asks |-> {}, works |-> {}] /\
                 (\/ k = i \/ k = [i EXCEPT !.disconnects = @ \cup {c}]
                  \/ Correlations(i, c) = {} /\ k = InboundLost(i, {c}))
    BY <1>3, <1>13, <2>1 DEF Took
  <2>3. Pre(outbound, Correlated(k, m.corr, c), w, cut, broken, lookups, remote, asked)
    BY <1>3, <1>4, <1>13, <2>1, <2>2, DisconnectedPre
  <2>4. HungUp(m) = {} BY <1>13 DEF HungUp
  <2>5. remote' = remote /\ lookups' = lookups BY <1>1, <1>4, <2>2, <2>4 DEF Work
  <2>6. Moves(outbound, Correlated(k, m.corr, c), w) BY <1>4, <2>2
  <2> QED BY <1>1, <1>4, <2>3, <2>5, <2>6, InboundStep
<1>14. m.type \in {"request", "resource", "discover", "send", "hangup", "disconnected"}
  BY <1>5 DEF UpMessage
<1> QED BY <1>8, <1>9, <1>10, <1>11, <1>12, <1>13, <1>14

(* A connection of the inbound is lost.                                     *)
LEMMA InboundLosesIInv ==
  ASSUME IInv, NEW c \in Connection, InboundLoses(c)
  PROVE  IInv'
<1>1. /\ Pre(outbound, inbound, wire, cut, broken, lookups, remote, asked) /\ (cut # {} => broken)
      /\ lookups \subseteq LookupState /\ remote \in Work /\ remote.done \subseteq tm.jobs
  BY DEF IInv
<1>2. PICK i, D : i = InboundLost(inbound, {c}) /\ D = Discarded(inbound, i) OBVIOUS
<1>3. /\ Moves(outbound, i, wire) /\ lookups' = lookups \ D /\ UNCHANGED <<localVars, remote>>
      /\ (c \in cut \/ c \notin outbound.connections)
  BY <1>2 DEF InboundLoses
<1>4. \A l \in D : l.corr \in inbound.requests \ i.requests BY <1>2 DEF Discarded
<1>5. PICK S : S = {c} OBVIOUS
<1>6. PICK L : L = lookups \ D OBVIOUS
<1>7. Pre(outbound, i, wire, cut, broken, lookups \ D, remote, asked)
  <2>1. S \in SUBSET Connection /\ i = InboundLost(inbound, S) BY <1>2, <1>5
  <2>2. broken \/ \A d \in S : d \notin outbound.connections BY <1>1, <1>3, <1>5
  <2> QED BY <1>1, <1>4, <2>1, <2>2, InboundLostPre
<1>8. L \in SUBSET LookupState /\ Pre(outbound, i, wire, cut, broken, L, remote, asked)
      /\ lookups' = L /\ remote' = remote /\ UNCHANGED localVars
  BY <1>1, <1>3, <1>6, <1>7
<1> QED BY <1>1, <1>3, <1>8, InboundStep

(* The inbound is shut down.                                                *)
LEMMA InboundShutdownIInv ==
  ASSUME IInv, InboundShutdown
  PROVE  IInv'
<1>1. /\ Pre(outbound, inbound, wire, cut, broken, lookups, remote, asked) /\ (cut # {} => broken)
      /\ lookups \subseteq LookupState /\ remote \in Work /\ remote.done \subseteq tm.jobs
  BY DEF IInv
<1>2. inbound \in InboundState /\ Wired(wire) BY <1>1 DEF Pre
<1>3. PICK failed \in SUBSET {c \in inbound.connections : ~ Whole(c)} :
        LET open == inbound.connections \ failed
            i == InboundLost([inbound EXCEPT !.level = "shutdown",
                   !.correlations = @ \cup {[corr |-> DisconnectOf(c), conn |-> c] : c \in open}],
                   failed)
        IN /\ Moves(outbound, i, [wire EXCEPT !.down = [c \in Connection |->
                IF c \in open /\ Whole(c)
                THEN Append(@[c], [type |-> "disconnect", corr |-> DisconnectOf(c)]) ELSE @[c]]])
           /\ lookups' = lookups \ Discarded(inbound, i)
  BY DEF InboundShutdown
<1>4. UNCHANGED <<localVars, remote>> /\ inbound.level = "running" BY DEF InboundShutdown
<1>5. PICK open, T, C : /\ open = inbound.connections \ failed
                        /\ T = {c \in open : Whole(c)}
                        /\ C = inbound.correlations \cup {[corr |-> DisconnectOf(c), conn |-> c] : c \in open}
  OBVIOUS
<1>6. PICK f, d, v : /\ f = [c \in Connection |-> [type |-> "disconnect", corr |-> DisconnectOf(c)]]
                     /\ d = [c \in Connection |-> IF c \in T THEN Append(wire.down[c], f[c]) ELSE wire.down[c]]
                     /\ v = [wire EXCEPT !.down = d]
  OBVIOUS
<1>7. open \subseteq Connection /\ failed \subseteq Connection /\ T \subseteq open
  BY <1>2, <1>5 DEF InboundState
<1>8. PICK j, k, i, D : /\ j = [inbound EXCEPT !.level = "shutdown"] /\ k = [j EXCEPT !.correlations = C]
                        /\ i = InboundLost(k, failed) /\ D = Discarded(inbound, i)
  OBVIOUS
<1>9. Moves(outbound, i, v) /\ lookups' = lookups \ D
  <2>1. k = [inbound EXCEPT !.level = "shutdown",
               !.correlations = @ \cup {[corr |-> DisconnectOf(c), conn |-> c] : c \in open}]
    BY <1>2, <1>5, <1>8 DEF InboundState
  <2>2. d = [c \in Connection |->
               IF c \in open /\ Whole(c)
               THEN Append(wire.down[c], [type |-> "disconnect", corr |-> DisconnectOf(c)])
               ELSE wire.down[c]]
    BY <1>5, <1>6
  <2>3. v = [wire EXCEPT !.down = [c \in Connection |->
               IF c \in open /\ Whole(c)
               THEN Append(@[c], [type |-> "disconnect", corr |-> DisconnectOf(c)]) ELSE @[c]]]
    BY <1>2, <1>6, <2>2, WiredIs
  <2> QED BY <1>3, <1>5, <1>8, <2>1, <2>3
<1>10. /\ j \in InboundState /\ j.connections = inbound.connections /\ j.level = "shutdown"
       /\ j.correlations = inbound.correlations /\ j.requests = inbound.requests
  BY <1>2, <1>8 DEF InboundState
<1>11. Pre(outbound, j, wire, cut, broken, lookups, remote, asked) BY <1>1, <1>4, <1>8, LevelPre
<1>12. \A c \in open : DisconnectOf(c) \in Leaving /\ DisconnectOf(c).conn = c
  BY <1>7 DEF DisconnectOf, Leaving
<1>13. C \in SUBSET [corr : Request \cup Job \cup Asked \cup Leaving, conn : Connection]
  <2>1. inbound.correlations \in SUBSET [corr : Request \cup Job \cup Asked \cup Leaving, conn : Connection]
    BY <1>2 DEF InboundState
  <2>2. \A c \in open : [corr |-> DisconnectOf(c), conn |-> c] \in
                          [corr : Request \cup Job \cup Asked \cup Leaving, conn : Connection]
    BY <1>7, <1>12
  <2> QED BY <1>5, <2>1, <2>2
<1>14. /\ k \in InboundState /\ k.connections = j.connections /\ k.level = j.level
       /\ k.correlations = C /\ k.requests = j.requests
  BY <1>8, <1>10, <1>13 DEF InboundState
<1>15. Pre(outbound, k, wire, cut, broken, lookups, remote, asked)
  <2>1. /\ \A x \in C : x \in j.correlations \/ (x.corr \in Leaving /\ x.conn = x.corr.conn)
        /\ \A x \in j.correlations : x \in C
    BY <1>5, <1>10, <1>12
  <2>2. \A x : Working(x, j, lookups, remote) => Working(x, k, lookups, remote)
    BY <1>14 DEF Working
  <2> QED BY <1>1, <1>11, <1>14, <2>1, <2>2, KeepsPre
<1>16. v.down = d /\ v.up = wire.up /\ v = [up |-> wire.up, down |-> d]
  <2>1. wire = [up |-> wire.up, down |-> wire.down] BY <1>2, WiredIs
  <2>2. v = [up |-> wire.up, down |-> d] BY <1>6, <2>1
  <2> QED BY <2>2
<1>17. \A c \in T : f[c] \in DownMessage(Job, Job) /\ f[c].corr \in Leaving /\ f[c].corr.conn = c
  <2>1. \A c \in T : f[c].type = "disconnect" /\ f[c].corr = DisconnectOf(c)
                     /\ f[c] = [type |-> "disconnect", corr |-> DisconnectOf(c)]
    BY <1>6, <1>7
  <2>2. \A k1 \in Leaving : [type |-> "disconnect", corr |-> k1] \in DownMessage(Job, Job)
    BY DEF DownMessage
  <2> QED BY <1>7, <1>12, <2>1, <2>2
<1>18. Wired(v)
  <2>1. SUFFICES ASSUME NEW c \in Connection PROVE d[c] \in Seq(DownMessage(Job, Job))
    <3>1. d \in [Connection -> Seq(DownMessage(Job, Job))] BY <1>6, <2>1
    <3>2. wire.up \in [Connection -> Seq(UpMessage(Job))] BY <1>2 DEF Wired, WireOK
    <3> QED BY <1>16, <3>1, <3>2 DEF Wired, WireOK
  <2>2. PICK s, e : s = wire.down[c] /\ e = f[c] OBVIOUS
  <2>3. s \in Seq(DownMessage(Job, Job)) BY <1>2, <2>2, WiredIs
  <2>4. c \in T => Append(s, e) \in Seq(DownMessage(Job, Job)) BY <1>17, <2>2, <2>3
  <2> QED BY <1>6, <2>2, <2>3, <2>4
<1>19. ~ Running(outbound, k) BY <1>10, <1>14 DEF Running
<1>20. Pre(outbound, k, v, cut, broken, lookups, remote, asked)
  <2>1. \A c \in Connection : v.down[c] = IF c \in T THEN Append(wire.down[c], f[c]) ELSE wire.down[c]
    BY <1>6, <1>16
  <2>2. \A c \in T \cap Connection :
          /\ f[c] \in DownMessage(Job, Job)
          /\ f[c].corr \notin Request => f[c].corr.conn = c
          /\ f[c].type = "disconnect" => ~ Running(outbound, k)
    BY <1>17, <1>19
  <2> QED BY <1>1, <1>15, <1>16, <1>18, <2>1, <2>2, DownPre
<1>21. Pre(outbound, i, v, cut, broken, lookups \ D, remote, asked)
  <2>1. broken \/ \A c \in failed : c \notin outbound.connections BY <1>1, <1>3 DEF Whole
  <2>2. \A l \in D : l.corr \in k.requests \ i.requests BY <1>8, <1>10, <1>14 DEF Discarded
  <2>3. failed \in SUBSET Connection BY <1>7
  <2> QED BY <1>1, <1>8, <1>20, <2>1, <2>2, <2>3, InboundLostPre
<1>22. PICK L : L = lookups \ D OBVIOUS
<1>23. L \in SUBSET LookupState /\ Pre(outbound, i, v, cut, broken, L, remote, asked)
       /\ lookups' = L /\ remote' = remote /\ UNCHANGED localVars
  BY <1>1, <1>4, <1>9, <1>21, <1>22
<1> QED BY <1>1, <1>9, <1>23, InboundStep

(* The inbound ends.                                                        *)
LEMMA InboundEndsIInv ==
  ASSUME IInv, InboundEnds
  PROVE  IInv'
<1>1. /\ Pre(outbound, inbound, wire, cut, broken, lookups, remote, asked) /\ (cut # {} => broken)
      /\ lookups \subseteq LookupState /\ Managed(tm)
  BY DEF IInv
<1>2. inbound \in InboundState BY <1>1 DEF Pre
<1>3. PICK i : i = [inbound EXCEPT !.level = "ended"] OBVIOUS
<1>4. /\ inbound' = i /\ inbound.level = "shutdown" /\ lookups' = lookups /\ tm' = tm
      /\ UNCHANGED <<outbound, wire, cut, broken, asked, remote>>
  BY <1>3 DEF InboundEnds, localVars, remoteVars
<1>5. i.connections = inbound.connections BY <1>2, <1>3 DEF InboundState
<1>6. Pre(outbound, i, wire, cut, broken, lookups, remote, asked) BY <1>1, <1>3, <1>4, LevelPre
<1>7. lookups \in SUBSET LookupState /\ tm.jobs \subseteq tm.jobs BY <1>1
<1> QED BY <1>1, <1>4, <1>5, <1>6, <1>7, StayIInv

(* The answer to a lookup.                                                  *)
LEMMA AnswerLookupIInv ==
  ASSUME IInv, NEW l \in lookups, AnswerLookup(l)
  PROVE  IInv'
<1>1. /\ Pre(outbound, inbound, wire, cut, broken, lookups, remote, asked) /\ (cut # {} => broken)
      /\ lookups \subseteq LookupState /\ Managed(tm)
  BY DEF IInv
<1>2. PICK state \in {"idle"} \cup (Fate \cap {"absent"}) :
        lookups' = (lookups \ {l}) \cup {[l EXCEPT !.state = state]}
  BY DEF AnswerLookup
<1>3. /\ inbound' = inbound /\ tm' = tm /\ UNCHANGED <<outbound, wire, cut, broken, asked, remote>>
  BY DEF AnswerLookup, localVars
<1>4. PICK k, L : k = [l EXCEPT !.state = state] /\ L = (lookups \ {l}) \cup {k} OBVIOUS
<1>5. k \in LookupState /\ k.corr = l.corr BY <1>1, <1>4 DEF LookupState
<1>6. L \in SUBSET LookupState /\ lookups' = L BY <1>1, <1>2, <1>4, <1>5
<1>7. inbound \in InboundState BY <1>1 DEF Pre
<1>8. \A x : Working(x, inbound, lookups, remote) => Working(x, inbound, L, remote)
  BY <1>4, <1>5 DEF Working
<1>9. Pre(outbound, inbound, wire, cut, broken, L, remote, asked)
  BY <1>1, <1>7, <1>8, KeepsPre
<1>10. tm.jobs \subseteq tm.jobs OBVIOUS
<1> QED BY <1>1, <1>3, <1>6, <1>9, <1>10, StayIInv

(* A message goes down with its correlation; the requests stay.             *)
LEMMA AnswerPre ==
  ASSUME NEW o, NEW i, NEW w, NEW b, NEW L, NEW R, NEW A,
         Pre(o, i, w, cut, b, L, R, A), cut # {} => b, i.connections = inbound.connections,
         NEW S, NEW m \in DownMessage(Job, Job), m.type # "disconnect",
         S.busy = R.busy \ {m.corr},
         m.type \in {"reply", "vote"} \/
           \A p \in o.routes : p.corr = m.corr => p.kind = "conversation",
         NEW s, s = SendDown(i, w, m)
  PROVE  Pre(o, s[1], s[2], cut, b, L, S, A)
<1>1. i \in InboundState BY DEF Pre
<1>2. PICK Q : Q = i.requests OBVIOUS
<1>3. Q \in SUBSET Request /\ i = [i EXCEPT !.requests = Q] BY <1>1, <1>2 DEF InboundState
<1>4. \A x : x # m.corr /\ Working(x, i, L, R) => Working(x, i, L, S) BY DEF Working
<1> QED BY <1>3, <1>4, SendDownPre

(* The message of an answer to a request.                                   *)
LEMMA RefuseIs ==
  ASSUME NEW i, NEW r \in Request, NEW code \in {"ok", "system", "no_entry"}
  PROVE  \E m \in DownMessage(Job, Job) :
           /\ m.corr = r /\ m.type # "disconnect" /\ Refuse(i, r, code) = SendDown(i, wire, m)
           /\ m.type = "reply" \/ KindOf[r] = "conversation"
<1>1. PICK m : m = [type |-> IF KindOf[r] = "conversation" THEN "connected" ELSE "reply",
                    corr |-> r, code |-> code]
  OBVIOUS
<1>2. m \in [type : {"reply", "connected"}, corr : Request, code : {"ok", "system", "no_entry"}]
  BY <1>1
<1>3. m \in DownMessage(Job, Job) BY <1>2 DEF DownMessage
<1>4. Refuse(i, r, code) = SendDown(i, wire, m) BY <1>1 DEF Refuse
<1> QED BY <1>1, <1>2, <1>3, <1>4

(* What a lookup comes to.                                                  *)
LEMMA LookupReplyIInv ==
  ASSUME IInv, NEW l \in lookups, LookupReply(l)
  PROVE  IInv'
<1>1. /\ Pre(outbound, inbound, wire, cut, broken, lookups, remote, asked) /\ (cut # {} => broken)
      /\ lookups \subseteq LookupState /\ remote \in Work /\ remote.done \subseteq tm.jobs
  BY DEF IInv
<1>2. inbound \in InboundState /\ Fits(outbound, inbound) /\ outbound \in OutboundState BY <1>1 DEF Pre
<1>3. PICK r : r = l.corr OBVIOUS
<1>4. r \in Request BY <1>1, <1>3 DEF LookupState
<1>5. PICK Q, i, branches :
        /\ Q = inbound.requests \ {r} /\ i = [inbound EXCEPT !.requests = Q]
        /\ branches = {[trid |-> TridOf[r], conn |-> x.conn] :
                         x \in {y \in inbound.correlations : y.corr = r}}
  OBVIOUS
<1>6. i = [inbound EXCEPT !.requests = @ \ {l.corr}] BY <1>2, <1>3, <1>5 DEF InboundState
<1>7. /\ UNCHANGED localVars
      /\ \/ /\ Moves(outbound, i, wire) /\ lookups' = lookups \ {l}
            /\ remote' = [remote EXCEPT !.busy = @ \cup {r}, !.touched = @ \cup branches]
         \/ \E code \in {"system", "no_entry"} :
              /\ Moves(outbound, Refuse(i, r, code)[1], Refuse(i, r, code)[2])
              /\ lookups' = lookups \ {l} /\ remote' = remote
         \/ /\ Moves(outbound, InboundAborted(i), wire)
            /\ lookups' = lookups \ ({l} \cup Discarded(i, InboundAborted(i))) /\ remote' = remote
  <2> DEFINE k == [inbound EXCEPT !.requests = @ \ {l.corr}]
             B == {[trid |-> TridOf[l.corr], conn |-> x.conn] :
                     x \in {y \in inbound.correlations : y.corr = l.corr}}
  <2>1. \/ /\ Moves(outbound, k, wire)
           /\ remote' = [remote EXCEPT !.busy = @ \cup {l.corr}, !.touched = @ \cup B]
           /\ lookups' = lookups \ {l}
        \/ /\ Moves(outbound, Refuse(k, l.corr, "system")[1], Refuse(k, l.corr, "system")[2])
           /\ lookups' = lookups \ {l} /\ UNCHANGED remote
        \/ /\ Moves(outbound, Refuse(k, l.corr, "no_entry")[1], Refuse(k, l.corr, "no_entry")[2])
           /\ lookups' = lookups \ {l} /\ UNCHANGED remote
        \/ /\ Moves(outbound, InboundAborted(k), wire)
           /\ lookups' = lookups \ ({l} \cup Discarded(k, InboundAborted(k)))
           /\ UNCHANGED remote
    BY Zenon DEF LookupReply
  <2>2. i = k /\ branches = B BY <1>3, <1>5, <1>6
  <2>3. UNCHANGED localVars BY DEF LookupReply
  <2> HIDE DEF k, B
  <2> QED BY <1>3, <2>1, <2>2, <2>3
<1>8. Q \in SUBSET Request BY <1>2, <1>5 DEF InboundState
<1>9. /\ i \in InboundState /\ i.connections = inbound.connections /\ i.level = inbound.level
      /\ i.correlations = inbound.correlations /\ i.requests = Q
  BY <1>2, <1>5, <1>8 DEF InboundState
<1>10. PICK L : L = lookups \ {l} OBVIOUS
<1>11. L \in SUBSET LookupState BY <1>1, <1>10
<1>12. \A x : x # r /\ Working(x, inbound, lookups, remote) => Working(x, i, L, remote)
  BY <1>3, <1>5, <1>9, <1>10 DEF Working
<1>13. ASSUME NEW S, S.busy = remote.busy \cup {r}
       PROVE  Pre(outbound, i, wire, cut, broken, L, S, asked)
  <2>1. \A x : Working(x, inbound, lookups, remote) => Working(x, i, L, S)
    BY <1>12, <1>13 DEF Working
  <2> QED BY <1>1, <1>9, <2>1, KeepsPre
<1>14. ASSUME Moves(outbound, i, wire), lookups' = lookups \ {l},
              remote' = [remote EXCEPT !.busy = @ \cup {r}, !.touched = @ \cup branches]
       PROVE  IInv'
  <2>1. PICK X, Y, S : /\ X = remote.busy \cup {r} /\ Y = remote.touched \cup branches
                       /\ S = [remote EXCEPT !.busy = X, !.touched = Y]
    OBVIOUS
  <2>2. branches \subseteq [trid : Trid \cup {None}, conn : Connection]
    <3>1. TridOf[r] \in Trid \cup {None} BY <1>4, GatewayAssumption DEF GatewayAssumption
    <3>2. \A y \in inbound.correlations : y.conn \in Connection BY <1>2 DEF InboundState
    <3> QED BY <1>5, <3>1, <3>2
  <2>3. /\ X \in SUBSET (Request \cup Job \cup Asked)
        /\ Y \in SUBSET [trid : Trid \cup {None}, conn : Connection]
    BY <1>1, <1>4, <2>1, <2>2 DEF Work
  <2>4. S \in Work /\ S.busy = X /\ S.done = remote.done BY <1>1, <2>1, <2>3 DEF Work
  <2>5. remote' = S BY <1>1, <1>14, <2>1 DEF Work
  <2>6. Pre(outbound, i, wire, cut, broken, L, S, asked) BY <1>13, <2>1, <2>4
  <2> QED BY <1>1, <1>7, <1>10, <1>11, <1>14, <2>4, <2>5, <2>6, InboundStep
<1>15. ASSUME NEW code \in {"system", "no_entry"},
              Moves(outbound, Refuse(i, r, code)[1], Refuse(i, r, code)[2]),
              lookups' = lookups \ {l}, remote' = remote
       PROVE  IInv'
  <2>1. PICK m \in DownMessage(Job, Job) :
          /\ m.corr = r /\ m.type # "disconnect" /\ Refuse(i, r, code) = SendDown(i, wire, m)
          /\ m.type = "reply" \/ KindOf[r] = "conversation"
    BY <1>4, RefuseIs
  <2>2. PICK s : s = SendDown(i, wire, m) OBVIOUS
  <2>3. m.type \in {"reply", "vote"} \/
          \A p \in outbound.routes : p.corr = m.corr => p.kind = "conversation"
    BY <1>2, <1>4, <2>1 DEF Fits
  <2>4. Pre(outbound, s[1], s[2], cut, broken, L, remote, asked)
    BY <1>1, <1>5, <1>8, <1>12, <2>1, <2>2, <2>3, SendDownPre
  <2>5. Moves(outbound, s[1], s[2]) BY <1>15, <2>1, <2>2
  <2> QED BY <1>1, <1>7, <1>10, <1>11, <1>15, <2>4, <2>5, InboundStep
<1>16. ASSUME Moves(outbound, InboundAborted(i), wire), remote' = remote,
              lookups' = lookups \ ({l} \cup Discarded(i, InboundAborted(i)))
       PROVE  IInv'
  <2>1. PICK S : S = [remote EXCEPT !.busy = remote.busy \cup {r}] OBVIOUS
  <2>2. S.busy = remote.busy \cup {r} BY <1>1, <2>1 DEF Work
  <2>3. Pre(outbound, i, wire, cut, broken, L, S, asked) BY <1>13, <2>2
  <2>4. PICK M, j : M = lookups \ ({l} \cup Discarded(i, InboundAborted(i))) /\ j = InboundAborted(i)
    OBVIOUS
  <2>5. M \in SUBSET LookupState BY <1>1, <2>4
  <2>6. Pre(outbound, j, wire, cut, broken, M, remote, asked) BY <1>1, <2>3, <2>4, InboundAbortedPre
  <2>7. Moves(outbound, j, wire) /\ lookups' = M BY <1>16, <2>4
  <2> QED BY <1>1, <1>7, <1>16, <2>5, <2>6, <2>7, InboundStep
<1> QED BY <1>7, <1>14, <1>15, <1>16

(* A server or a queue answers.                                             *)
LEMMA ServeIInv ==
  ASSUME IInv, NEW r \in Request, Serve(r)
  PROVE  IInv'
<1>1. /\ Pre(outbound, inbound, wire, cut, broken, lookups, remote, asked) /\ (cut # {} => broken)
      /\ lookups \in SUBSET LookupState /\ remote \in Work /\ remote.done \subseteq tm.jobs
  BY DEF IInv
<1>2. /\ inbound \in InboundState /\ Fits(outbound, inbound) /\ outbound \in OutboundState
      /\ Wired(wire) /\ Aimed(wire)
  BY <1>1 DEF Pre
<1>3. PICK conns, C :
        /\ conns = {x.conn : x \in {y \in inbound.correlations : y.corr = r}} \cap inbound.connections
        /\ C = IF KindOf[r] = "conversation"
               THEN inbound.conversations \cup {[corr |-> r, conn |-> c] : c \in conns}
               ELSE inbound.conversations
  OBVIOUS
<1>4. PICK s : s = Refuse(inbound, r, "ok") OBVIOUS
<1>5. /\ remote' = [remote EXCEPT !.busy = @ \ {r},
                      !.talking = IF KindOf[r] = "conversation" THEN @ \cup {r} ELSE @]
      /\ UNCHANGED localVars /\ lookups' = lookups
      /\ \/ KindOf[r] = "cast" /\ Moves(outbound, inbound, wire)
         \/ Moves(outbound,
                  [s[1] EXCEPT !.conversations =
                     IF KindOf[r] = "conversation" THEN @ \cup {[corr |-> r, conn |-> c] : c \in conns}
                     ELSE @],
                  s[2])
  BY <1>3, <1>4 DEF Serve
<1>6. PICK X, Y, S : /\ X = remote.busy \ {r}
                     /\ Y = IF KindOf[r] = "conversation" THEN remote.talking \cup {r} ELSE remote.talking
                     /\ S = [remote EXCEPT !.busy = X, !.talking = Y]
  OBVIOUS
<1>7. X \in SUBSET (Request \cup Job \cup Asked) /\ Y \in SUBSET Request BY <1>1, <1>6 DEF Work
<1>8. S \in Work /\ S.busy = X /\ S.done = remote.done BY <1>1, <1>6, <1>7 DEF Work
<1>9. remote' = S BY <1>1, <1>5, <1>6 DEF Work
<1>10. CASE KindOf[r] = "cast" /\ Moves(outbound, inbound, wire)
  <2>1. \A p \in outbound.routes : p.corr # r BY <1>2, <1>10 DEF Fits, OutboundState, RouteState
  <2>2. \A x : x # r /\ Working(x, inbound, lookups, remote) => Working(x, inbound, lookups, S)
    BY <1>6, <1>8 DEF Working
  <2>3. \A p \in outbound.routes : Flow(p, inbound, wire, lookups, remote) =>
                                     Flow(p, inbound, wire, lookups, S)
    BY <2>1, <2>2 DEF Flow
  <2>4. inbound.connections \subseteq inbound.connections OBVIOUS
  <2>5. Pre(outbound, inbound, wire, cut, broken, lookups, S, asked)
    BY <1>1, <1>2, <2>3, <2>4, InboundPre
  <2> QED BY <1>1, <1>5, <1>8, <1>9, <1>10, <2>5, InboundStep
<1>11. ASSUME Moves(outbound,
                [s[1] EXCEPT !.conversations =
                   IF KindOf[r] = "conversation" THEN @ \cup {[corr |-> r, conn |-> c] : c \in conns}
                   ELSE @],
                s[2])
       PROVE  IInv'
  <2>1. PICK m \in DownMessage(Job, Job) :
          /\ m.corr = r /\ m.type # "disconnect" /\ Refuse(inbound, r, "ok") = SendDown(inbound, wire, m)
          /\ m.type = "reply" \/ KindOf[r] = "conversation"
    BY RefuseIs
  <2>2. conns \subseteq Connection BY <1>2, <1>3 DEF InboundState
  <2>3. C \in SUBSET [corr : Request, conn : Connection] BY <1>2, <1>3, <2>2 DEF InboundState
  <2>4. PICK j : j = [inbound EXCEPT !.conversations = C] OBVIOUS
  <2>5. /\ j \in InboundState /\ j.connections = inbound.connections /\ j.level = inbound.level
        /\ j.correlations = inbound.correlations /\ j.requests = inbound.requests
    BY <1>2, <2>3, <2>4 DEF InboundState
  <2>6. \A x : Working(x, inbound, lookups, remote) => Working(x, j, lookups, remote)
    BY <2>5 DEF Working
  <2>7. Pre(outbound, j, wire, cut, broken, lookups, remote, asked) BY <1>1, <2>5, <2>6, KeepsPre
  <2>8. PICK z : z = SendDown(j, wire, m) OBVIOUS
  <2>9. m.type \in {"reply", "vote"} \/
          \A p \in outbound.routes : p.corr = m.corr => p.kind = "conversation"
    BY <1>2, <2>1 DEF Fits
  <2>10. S.busy = remote.busy \ {m.corr} BY <1>6, <1>8, <2>1
  <2>11. Pre(outbound, z[1], z[2], cut, broken, lookups, S, asked)
    BY <1>1, <2>1, <2>5, <2>7, <2>8, <2>9, <2>10, AnswerPre
  <2>12. /\ z[2] = s[2]
         /\ z[1] = [s[1] EXCEPT !.conversations =
                      IF KindOf[r] = "conversation" THEN @ \cup {[corr |-> r, conn |-> c] : c \in conns}
                      ELSE @]
    <3>1. PICK D, open, u, v :
            /\ D = {y \in inbound.correlations : y.corr = m.corr}
            /\ open = {y.conn : y \in D} \cap (inbound.connections \ cut)
            /\ u = [inbound EXCEPT !.correlations = @ \ D]
            /\ v = [wire EXCEPT !.down = [c \in Connection |->
                      IF c \in open THEN Append(@[c], m) ELSE @[c]]]
      OBVIOUS
    <3>2. s = <<u, v>> BY <1>4, <2>1, <3>1 DEF SendDown
    <3>3. z = <<[j EXCEPT !.correlations = @ \ D], v>> BY <2>5, <2>8, <3>1 DEF SendDown
    <3>4. s[1] = u /\ z[1] = [j EXCEPT !.correlations = @ \ D] /\ z[2] = s[2] BY <3>2, <3>3
    <3>5. u.conversations = inbound.conversations BY <1>2, <3>1 DEF InboundState
    <3>6. z[1] = [u EXCEPT !.conversations = C] BY <1>2, <2>4, <3>1, <3>4 DEF InboundState
    <3>7. C = IF KindOf[r] = "conversation" THEN u.conversations \cup {[corr |-> r, conn |-> c] : c \in conns}
              ELSE u.conversations
      BY <1>3, <3>5
    <3> QED BY <3>4, <3>6, <3>7
  <2>13. Moves(outbound, z[1], z[2]) BY <1>11, <2>12
  <2> QED BY <1>1, <1>5, <1>8, <1>9, <2>11, <2>13, InboundStep
<1> QED BY <1>5, <1>10, <1>11

(* The callee ends a conversation.                                          *)
LEMMA EndConversationIInv ==
  ASSUME IInv, NEW r \in Request, EndConversation(r)
  PROVE  IInv'
<1>1. /\ Pre(outbound, inbound, wire, cut, broken, lookups, remote, asked) /\ (cut # {} => broken)
      /\ lookups \in SUBSET LookupState /\ remote \in Work /\ remote.done \subseteq tm.jobs
  BY DEF IInv
<1>2. inbound \in InboundState /\ Wired(wire) BY <1>1 DEF Pre
<1>3. PICK C, i, T :
        /\ C = inbound.conversations \ {x \in inbound.conversations : x.corr = r}
        /\ i = [inbound EXCEPT !.conversations = C]
        /\ T = {c \in {x.conn : x \in {y \in inbound.conversations : y.corr = r}} \cap inbound.connections :
                  Whole(c)}
  OBVIOUS
<1>4. PICK m, f, d, v :
        /\ m = [type |-> "ended", corr |-> r, code |-> "ended"] /\ f = [c \in Connection |-> m]
        /\ d = [c \in Connection |-> IF c \in T THEN Append(wire.down[c], m) ELSE wire.down[c]]
        /\ v = [wire EXCEPT !.down = d]
  OBVIOUS
<1>5. /\ remote' = [remote EXCEPT !.talking = @ \ {r}] /\ UNCHANGED localVars
      /\ \/ Moves(outbound, i, v) /\ lookups' = lookups
         \/ /\ Moves(outbound, InboundAborted(inbound), wire)
            /\ lookups' = lookups \ Discarded(inbound, InboundAborted(inbound))
  <2> DEFINE talks == {x \in inbound.conversations : x.corr = r}
             k == [inbound EXCEPT !.conversations = @ \ talks]
             open == {x.conn : x \in talks} \cap inbound.connections
             whole == {c \in open : Whole(c)}
             u == [wire EXCEPT !.down = [c \in Connection |->
                     IF c \in whole THEN Append(@[c], [type |-> "ended", corr |-> r, code |-> "ended"])
                     ELSE @[c]]]
  <2>1. /\ remote' = [remote EXCEPT !.talking = @ \ {r}] /\ UNCHANGED localVars
        /\ \/ Moves(outbound, k, u) /\ UNCHANGED lookups
           \/ /\ Moves(outbound, InboundAborted(inbound), wire)
              /\ lookups' = lookups \ Discarded(inbound, InboundAborted(inbound))
    BY Zenon DEF EndConversation
  <2>2. i = k BY <1>2, <1>3 DEF InboundState
  <2>3. u = [wire EXCEPT !.down = d]
    <3>1. d = [c \in Connection |->
                 IF c \in whole THEN Append(wire.down[c], [type |-> "ended", corr |-> r, code |-> "ended"])
                 ELSE wire.down[c]]
      BY <1>3, <1>4
    <3> HIDE DEF whole
    <3> QED BY <1>2, <3>1, WiredIs
  <2> HIDE DEF k, u
  <2> QED BY <1>4, <2>1, <2>2, <2>3
<1>6. PICK Y, S : Y = remote.talking \ {r} /\ S = [remote EXCEPT !.talking = Y] OBVIOUS
<1>7. Y \in SUBSET Request BY <1>1, <1>6 DEF Work
<1>8. S \in Work /\ S.busy = remote.busy /\ S.done = remote.done BY <1>1, <1>6, <1>7 DEF Work
<1>9. remote' = S BY <1>1, <1>5, <1>6 DEF Work
<1>10. ASSUME Moves(outbound, i, v), lookups' = lookups PROVE IInv'
  <2>1. C \in SUBSET [corr : Request, conn : Connection]
    <3>1. C \subseteq inbound.conversations BY <1>3
    <3> QED BY <1>2, <3>1 DEF InboundState
  <2>2. /\ i \in InboundState /\ i.connections = inbound.connections /\ i.level = inbound.level
        /\ i.correlations = inbound.correlations /\ i.requests = inbound.requests
    BY <1>2, <1>3, <2>1 DEF InboundState
  <2>3. \A x : Working(x, inbound, lookups, remote) => Working(x, i, lookups, S)
    BY <1>8, <2>2 DEF Working
  <2>4. Pre(outbound, i, wire, cut, broken, lookups, S, asked) BY <1>1, <2>2, <2>3, KeepsPre
  <2>5. m \in DownMessage(Job, Job) BY <1>4 DEF DownMessage
  <2>6. \A c \in T \cap Connection : f[c] = m BY <1>4
  <2>7. v.down = d /\ v.up = wire.up /\ v = [up |-> wire.up, down |-> d]
    <3>1. wire = [up |-> wire.up, down |-> wire.down] BY <1>2, WiredIs
    <3>2. v = [up |-> wire.up, down |-> d] BY <1>4, <3>1
    <3> QED BY <3>2
  <2>8. Wired(v)
    <3>1. SUFFICES ASSUME NEW c \in Connection PROVE d[c] \in Seq(DownMessage(Job, Job))
      <4>1. d \in [Connection -> Seq(DownMessage(Job, Job))] BY <1>4, <3>1
      <4>2. wire.up \in [Connection -> Seq(UpMessage(Job))] BY <1>2 DEF Wired, WireOK
      <4> QED BY <2>7, <4>1, <4>2 DEF Wired, WireOK
    <3>2. PICK s : s = wire.down[c] OBVIOUS
    <3>3. s \in Seq(DownMessage(Job, Job)) BY <1>2, <3>2, WiredIs
    <3>4. Append(s, m) \in Seq(DownMessage(Job, Job)) BY <2>5, <3>3
    <3> QED BY <1>4, <3>2, <3>3, <3>4
  <2>9. \A c \in Connection : v.down[c] = IF c \in T THEN Append(wire.down[c], f[c]) ELSE wire.down[c]
    BY <1>4, <2>7
  <2>10. \A c \in T \cap Connection :
           /\ f[c] \in DownMessage(Job, Job)
           /\ f[c].corr \notin Request => f[c].corr.conn = c
           /\ f[c].type = "disconnect" => ~ Running(outbound, i)
    BY <1>4, <2>5, <2>6
  <2>11. Pre(outbound, i, v, cut, broken, lookups, S, asked)
    <3>1. (cut # {} => broken) /\ v.up = wire.up BY <1>1, <2>7
    <3>2. PICK D : D = T \cap Connection OBVIOUS
    <3>3. \A c \in Connection : v.down[c] = IF c \in D THEN Append(wire.down[c], f[c]) ELSE wire.down[c]
      BY <2>9, <3>2
    <3>4. \A c \in D \cap Connection :
            /\ f[c] \in DownMessage(Job, Job)
            /\ f[c].corr \notin Request => f[c].corr.conn = c
            /\ f[c].type = "disconnect" => ~ Running(outbound, i)
      BY <2>10, <3>2
    <3> QED BY <2>4, <2>8, <3>1, <3>3, <3>4, DownPre
  <2> QED BY <1>1, <1>5, <1>8, <1>9, <1>10, <2>11, InboundStep
<1>11. ASSUME Moves(outbound, InboundAborted(inbound), wire),
              lookups' = lookups \ Discarded(inbound, InboundAborted(inbound))
       PROVE  IInv'
  <2>1. PICK M, j : M = lookups \ Discarded(inbound, InboundAborted(inbound)) /\ j = InboundAborted(inbound)
    OBVIOUS
  <2>2. M \in SUBSET LookupState BY <1>1, <2>1
  <2>3. Pre(outbound, j, wire, cut, broken, M, S, asked) BY <1>1, <2>1, InboundAbortedPre
  <2>4. Moves(outbound, j, wire) /\ lookups' = M BY <1>11, <2>1
  <2> QED BY <1>1, <1>5, <1>8, <1>9, <2>2, <2>3, <2>4, InboundStep
<1> QED BY <1>5, <1>10, <1>11

(* A vote.                                                                  *)
LEMMA VoteOnIInv ==
  ASSUME IInv, NEW j \in tm.jobs, VoteOn(j)
  PROVE  IInv'
<1>1. /\ Pre(outbound, inbound, wire, cut, broken, lookups, remote, asked) /\ (cut # {} => broken)
      /\ lookups \in SUBSET LookupState /\ remote \in Work /\ remote.done \subseteq tm.jobs
  BY DEF IInv
<1>2. j \in Job BY DEF IInv, Managed
<1>3. PICK code \in {"ok"} \cup (IF j.phase = "prepare" THEN Fate \cap {"refused"} ELSE {}) :
        LET s == SendDown(inbound, wire, [type |-> "vote", corr |-> j, code |-> code])
        IN /\ Moves(outbound, s[1], s[2])
           /\ remote' = [remote EXCEPT !.busy = @ \ {j},
                                       !.done = IF code = "ok" THEN @ \cup {j} ELSE @]
  BY DEF VoteOn
<1>4. lookups' = lookups /\ UNCHANGED localVars BY DEF VoteOn
<1>5. PICK m, s : m = [type |-> "vote", corr |-> j, code |-> code] /\ s = SendDown(inbound, wire, m)
  OBVIOUS
<1>6. m.type = "vote" /\ m.corr = j /\ m \in DownMessage(Job, Job)
  <2>1. CASE code = "ok" BY <1>2, <1>5, <2>1 DEF DownMessage
  <2>2. CASE code = "refused" /\ j.phase = "prepare" BY <1>2, <1>5, <2>2 DEF DownMessage
  <2> QED BY <1>3, <2>1, <2>2
<1>7. PICK X, Y, S : /\ X = remote.busy \ {j}
                     /\ Y = IF code = "ok" THEN remote.done \cup {j} ELSE remote.done
                     /\ S = [remote EXCEPT !.busy = X, !.done = Y]
  OBVIOUS
<1>8. X \in SUBSET (Request \cup Job \cup Asked) /\ Y \in SUBSET Job /\ Y \subseteq tm.jobs
  BY <1>1, <1>2, <1>7 DEF Work
<1>9. S \in Work /\ S.busy = X /\ S.done = Y BY <1>1, <1>7, <1>8 DEF Work
<1>10. remote' = S BY <1>1, <1>3, <1>7 DEF Work
<1>11. S.busy = remote.busy \ {m.corr} BY <1>6, <1>7, <1>9
<1>12. Pre(outbound, s[1], s[2], cut, broken, lookups, S, asked)
  BY <1>1, <1>5, <1>6, <1>11, AnswerPre
<1>13. Moves(outbound, s[1], s[2]) BY <1>3, <1>5
<1> QED BY <1>1, <1>4, <1>8, <1>9, <1>10, <1>12, <1>13, InboundStep

(* The discovery of the other domain answers.                               *)
LEMMA FindIInv ==
  ASSUME IInv, NEW d \in Asked, Find(d)
  PROVE  IInv'
<1>1. /\ Pre(outbound, inbound, wire, cut, broken, lookups, remote, asked) /\ (cut # {} => broken)
      /\ lookups \in SUBSET LookupState /\ remote \in Work /\ remote.done \subseteq tm.jobs
  BY DEF IInv
<1>2. outbound \in OutboundState BY <1>1 DEF Pre
<1>3. PICK found \in {Resource} \cup (IF "absent" \in Fate THEN {{}} ELSE {}) :
        LET s == SendDown(inbound, wire, [type |-> "found", corr |-> d, found |-> found])
        IN Moves(outbound, s[1], s[2])
  BY DEF Find
<1>4. /\ lookups' = lookups /\ UNCHANGED localVars
      /\ remote' = [remote EXCEPT !.busy = @ \ {d}]
  BY DEF Find
<1>5. PICK m, s : m = [type |-> "found", corr |-> d, found |-> found] /\ s = SendDown(inbound, wire, m)
  OBVIOUS
<1>6. m.type = "found" /\ m.corr = d /\ m \in DownMessage(Job, Job)
  <2>1. found \in SUBSET Resource BY <1>3
  <2> QED BY <1>5, <2>1 DEF DownMessage
<1>7. PICK X, S : X = remote.busy \ {d} /\ S = [remote EXCEPT !.busy = X] OBVIOUS
<1>8. X \in SUBSET (Request \cup Job \cup Asked) BY <1>1, <1>7 DEF Work
<1>9. S \in Work /\ S.busy = X /\ S.done = remote.done BY <1>1, <1>7, <1>8 DEF Work
<1>10. remote' = S BY <1>1, <1>4, <1>7 DEF Work
<1>11. S.busy = remote.busy \ {m.corr} BY <1>6, <1>7, <1>9
<1>12. \A p \in outbound.routes : p.corr # m.corr
  <2>1. \A p \in outbound.routes : p.corr \in Request \cup Job
    BY <1>2 DEF OutboundState, RouteState
  <2> QED BY <1>6, <2>1, RequestIs
<1>13. Pre(outbound, s[1], s[2], cut, broken, lookups, S, asked)
  BY <1>1, <1>5, <1>6, <1>11, <1>12, AnswerPre
<1>14. Moves(outbound, s[1], s[2]) BY <1>3, <1>5
<1> QED BY <1>1, <1>4, <1>9, <1>10, <1>13, <1>14, InboundStep
-----------------------------------------------------------------------------
(* The network and the transaction manager.                                 *)

(* More connections that may be found.                                      *)
LEMMA FindsMore ==
  ASSUME NEW o, NEW p, p.lookup = o.lookup, p.told = o.told, p.discovery = o.discovery,
         NEW K, NEW M, NEW N, NEW P, K \subseteq N, M \subseteq P, Discovering(o, K, M, {})
  PROVE  Discovering(p, N, P, {})
<1>1. /\ o.lookup \in [Resource -> SUBSET Connection] /\ o.told \in SUBSET Discovery
      /\ o.discovery \in Seq({e \in EntryState : Waits(e, K)})
      /\ \A r \in Resource : o.lookup[r] \subseteq K
      /\ o.told = {} => \A r \in Resource : o.lookup[r] \subseteq M
  BY DiscoveringIs
<1>2. PICK E, F : E = {e \in EntryState : Waits(e, K)} /\ F = {e \in EntryState : Waits(e, N)}
  OBVIOUS
<1>3. E \subseteq F BY <1>2 DEF Waits, Heard
<1>4. o.discovery \in Seq(F) BY <1>1, <1>2, <1>3
<1>5. p.discovery \in Seq({e \in EntryState : Waits(e, N)}) BY <1>2, <1>4
<1>6. /\ \A r \in Resource : p.lookup[r] \subseteq N
      /\ p.told = {} => \A r \in Resource : p.lookup[r] \subseteq P
  BY <1>1
<1> QED BY <1>1, <1>5, <1>6, DiscoveringIs

(* A connection that neither end had, with nothing on the wire.             *)
LEMMA ConnectPre ==
  ASSUME IInv, NEW c \in Connection, c \in outbound.unconnected, c \notin inbound.connections,
         Running(outbound, inbound),
         NEW o, o = [outbound EXCEPT !.connections = @ \cup {c}, !.unconnected = @ \ {c}],
         NEW i, i = [inbound EXCEPT !.connections = @ \cup {c}]
  PROVE  Pre(o, i, wire, cut \ {c}, broken, lookups, remote, asked)
<1>1. /\ Pre(outbound, inbound, wire, cut, broken, lookups, remote, asked) /\ (cut # {} => broken)
      /\ Empty(outbound, inbound, wire)
  BY DEF IInv
<1>2. /\ outbound \in OutboundState /\ inbound \in InboundState /\ Wired(wire)
      /\ Fits(outbound, inbound) /\ Aimed(wire) /\ Early(outbound)
  BY <1>1 DEF Pre
<1>3. PICK C, U, D : /\ C = outbound.connections \cup {c} /\ U = outbound.unconnected \ {c}
                     /\ D = inbound.connections \cup {c}
  OBVIOUS
<1>4. C \in SUBSET Connection /\ U \in SUBSET Connection /\ D \in SUBSET Connection
  BY <1>2, <1>3 DEF OutboundState, InboundState
<1>5. o = [outbound EXCEPT !.connections = C, !.unconnected = U] /\ i = [inbound EXCEPT !.connections = D]
  BY <1>2, <1>3 DEF OutboundState, InboundState
<1>6. /\ o \in OutboundState /\ o.level = outbound.level /\ o.connections = C /\ o.unconnected = U
      /\ o.routes = outbound.routes /\ o.replies = outbound.replies /\ o.branches = outbound.branches
      /\ o.disconnecting = outbound.disconnecting
      /\ o.lookup = outbound.lookup /\ o.told = outbound.told /\ o.discovery = outbound.discovery
  BY <1>2, <1>4, <1>5 DEF OutboundState
<1>7. /\ i \in InboundState /\ i.level = inbound.level /\ i.connections = D
      /\ i.correlations = inbound.correlations /\ i.requests = inbound.requests
  BY <1>2, <1>4, <1>5 DEF InboundState
<1>8. c \notin outbound.connections BY <1>2 DEF Fits
<1>9. Fits(o, i) BY <1>2, <1>3, <1>6, <1>7 DEF Fits, Running
<1>10. Single(o, i, wire, asked)
  <2>1. \A r, d : At(o, i, wire, r, d) => At(outbound, inbound, wire, r, d) BY <1>6, <1>7 DEF At
  <2> QED BY <1>1, <2>1 DEF Pre, Single
<1>11. /\ outbound.connections \subseteq C
       /\ \A p \in o.routes : p.conn \in outbound.connections => p.conn \in C
  BY <1>3
<1>12. Early(o)
  <2>1. /\ Discovering(outbound, Connection, outbound.connections, {})
        /\ outbound.told = {} =>
             \A p \in outbound.routes : p.kind \in {"call", "queue"} => p.conn \in outbound.connections
    BY <1>2 DEF Early, Running
  <2>2. Discovering(o, Connection, C, {}) BY <1>6, <1>11, <2>1, FindsMore
  <2> QED BY <1>6, <1>11, <2>1, <2>2 DEF Early
<1>13. \A p : Flow(p, inbound, wire, lookups, remote) => Flow(p, i, wire, lookups, remote)
  BY <1>7 DEF Flow, Working
<1>14. EarlyFlow(o, i, wire, cut \ {c}, lookups, remote)
  <2>1. SUFFICES ASSUME o.told = {}, NEW p \in o.routes, p.kind \in {"call", "queue"},
                        p.conn \notin cut \ {c}, p.conn \in i.connections
        PROVE  Flow(p, i, wire, lookups, remote)
    BY DEF EarlyFlow
  <2>2. p.conn \in outbound.connections BY <1>2, <1>6, <2>1 DEF Early, Running
  <2>3. p.conn # c BY <1>8, <2>2
  <2>4. p.conn \notin cut /\ p.conn \in inbound.connections BY <1>3, <1>7, <2>1, <2>3
  <2>5. Flow(p, inbound, wire, lookups, remote) BY <1>1, <1>6, <2>1, <2>2, <2>4 DEF Pre, EarlyFlow
  <2> QED BY <1>13, <2>5
<1>15. ASSUME Quiet(o, i, wire, broken)
       PROVE  AllFlow(o, i, wire, lookups, remote) /\ NoneLost(o) /\ Opened(o, i, wire)
  <2>1. Quiet(outbound, inbound, wire, broken) BY <1>1, <1>15 DEF Quiet, Running
  <2>2. /\ AllFlow(outbound, inbound, wire, lookups, remote) /\ NoneLost(outbound)
        /\ Opened(outbound, inbound, wire)
    BY <1>1, <2>1 DEF Pre
  <2>3. AllFlow(o, i, wire, lookups, remote)
    <3>1. SUFFICES ASSUME NEW p \in o.routes, p.kind # "conversation", p.conn \in o.connections
          PROVE  Flow(p, i, wire, lookups, remote)
      BY DEF AllFlow
    <3>2. p.conn # None BY <1>4, <1>6, <3>1, GatewayAssumption DEF GatewayAssumption
    <3>3. p.conn \in outbound.connections BY <1>6, <2>2, <3>1, <3>2 DEF Opened
    <3> QED BY <1>6, <1>13, <2>2, <3>1, <3>3 DEF AllFlow
  <2>4. NoneLost(o) BY <1>6, <2>2 DEF NoneLost
  <2>5. Discovering(o, C, C, {})
    <3>1. Discovering(outbound, outbound.connections, outbound.connections, {}) BY <2>2 DEF Opened
    <3>2. PICK K : K = outbound.connections OBVIOUS
    <3>3. Discovering(outbound, K, K, {}) /\ K \subseteq C BY <1>11, <3>1, <3>2
    <3>4. o.lookup = outbound.lookup /\ o.told = outbound.told /\ o.discovery = outbound.discovery
      BY <1>6
    <3> QED BY <3>3, <3>4, FindsMore
  <2>6. Opened(o, i, wire) BY <1>3, <1>6, <1>7, <2>2, <2>5 DEF Opened
  <2> QED BY <2>3, <2>4, <2>6
<1> QED BY <1>2, <1>6, <1>7, <1>9, <1>10, <1>12, <1>14, <1>15 DEF Pre

(* A connect: nothing is on the wire, and nothing gets lost.                *)
LEMMA ConnectIInv ==
  ASSUME IInv, NEW c \in Connection, Connect(c)
  PROVE  IInv'
<1>1. /\ Empty(outbound, inbound, wire) /\ cut \subseteq Connection /\ broken \in BOOLEAN
      /\ (cut # {} => broken) /\ lookups \in SUBSET LookupState /\ remote \in Work /\ Managed(tm)
      /\ remote.done \subseteq tm.jobs /\ outbound \in OutboundState /\ inbound \in InboundState
      /\ Wired(wire) /\ Fits(outbound, inbound)
  BY DEF IInv, Pre
<1>2. PICK o, i :
        /\ o = [outbound EXCEPT !.connections = @ \cup {c}, !.unconnected = @ \ {c}]
        /\ i = [inbound EXCEPT !.connections = @ \cup {c}]
  OBVIOUS
<1>3. /\ Running(outbound, inbound) /\ c \in outbound.unconnected /\ c \notin inbound.connections
      /\ \/ Become(Register(o, Entry(c, {c})), i, Discovers(wire, c, {c}))
         \/ Become(o, i, wire)
      /\ cut' = cut \ {c} /\ UNCHANGED <<broken, localVars, remoteVars>>
  BY <1>2 DEF Connect, Running
<1>4. PICK d : d = cut \ {c} OBVIOUS
<1>5. d \in SUBSET Connection /\ (d # {} => broken) BY <1>1, <1>4
<1>6. Pre(o, i, wire, d, broken, lookups, remote, asked) BY <1>2, <1>3, <1>4, ConnectPre
<1>7. /\ o.connections = outbound.connections \cup {c} /\ i.connections = inbound.connections \cup {c}
  BY <1>1, <1>2 DEF OutboundState, InboundState
<1>8. /\ lookups' = lookups /\ remote' = remote /\ asked' = asked /\ tm' = tm /\ broken' = broken
      /\ cut' = d
  BY <1>3, <1>4 DEF localVars, remoteVars
<1>9. Managed(tm') /\ remote.done \subseteq tm'.jobs BY <1>1, <1>8
<1>10. ASSUME NEW p, NEW w, Pre(p, i, w, d, broken, lookups, remote, asked), Empty(p, i, w),
              Become(p, i, w)
       PROVE  IInv'
  <2>1. Wired(w) BY <1>10 DEF Pre
  <2>2. PICK N : N = Unread(p, i, w) OBVIOUS
  <2>3. N = {} BY <1>10, <2>1, <2>2, UnreadIs
  <2>4. cut' = d \cup Unread(p, i, w) /\ broken' = (broken \/ Unread(p, i, w) # {})
    BY <1>1, <1>8, <2>2, <2>3
  <2> QED BY <1>1, <1>5, <1>8, <1>9, <1>10, <2>4, BecomeIInv
<1>11. CASE Become(o, i, wire)
  <2>1. Empty(o, i, wire) BY <1>1, <1>7 DEF Empty
  <2> QED BY <1>6, <1>10, <1>11, <2>1
<1>12. CASE Become(Register(o, Entry(c, {c})), i, Discovers(wire, c, {c}))
  <2>1. PICK p, v : p = Register(o, Entry(c, {c})) /\ v = Discovers(wire, c, {c}) OBVIOUS
  <2>2. o \in OutboundState BY <1>6 DEF Pre
  <2>3. /\ Alike(o, p)
        /\ \A K, M : Discovering(o, K, M, {}) => Discovering(p, K, M, {})
    BY <2>1, <2>2, RegisterIs
  <2>4. Milder(o, p) BY <2>3, AlikeMilder
  <2>5. Pre(o, i, v, d, broken, lookups, remote, asked) BY <1>6, <2>1, DiscoversPre
  <2>6. Pre(p, i, v, d, broken, lookups, remote, asked) BY <2>4, <2>5, MilderPre
  <2>7. \A b \in Connection : /\ b # c => Ups(v, b) = Ups(wire, b)
                              /\ Downs(v, b) = Downs(wire, b)
    <3>1. PICK S : S = {c} OBVIOUS
    <3>2. v = Discovers(wire, c, S) BY <2>1, <3>1
    <3>3. \A b \in Connection :
            /\ Ups(v, b) = Ups(wire, b)
                 \cup {x \in {[type |-> "discover", corr |-> [of |-> c, conn |-> b]]} : b \in S}
            /\ Downs(v, b) = Downs(wire, b)
      BY <1>1, <3>2, DiscoversIs
    <3>4. \A b \in Connection : b # c => b \notin S BY <3>1
    <3> QED BY <3>3, <3>4
  <2>8. p.connections = o.connections BY <2>3 DEF Alike
  <2>9. Empty(p, i, v) BY <1>1, <1>7, <2>7, <2>8 DEF Empty
  <2> QED BY <1>10, <1>12, <2>1, <2>6, <2>9
<1> QED BY <1>3, <1>11, <1>12

(* The network cuts a connection.                                           *)
LEMMA CutIInv ==
  ASSUME IInv, NEW c \in Connection, Cut(c)
  PROVE  IInv'
<1>1. PICK o, i, w, L, R, A, T, d :
        /\ o = outbound /\ i = inbound /\ w = wire /\ L = lookups /\ R = remote /\ A = asked /\ T = tm
        /\ d = cut \cup {c}
  OBVIOUS
<1>2. /\ Pre(o, i, w, cut, broken, L, R, A) /\ Empty(o, i, w) /\ cut \subseteq Connection
      /\ L \subseteq LookupState /\ R \in Work /\ Managed(T) /\ R.done \subseteq T.jobs
  BY <1>1 DEF IInv
<1>3. /\ outbound' = o /\ inbound' = i /\ wire' = w /\ lookups' = L /\ remote' = R /\ asked' = A
      /\ tm' = T /\ cut' = d /\ broken' = TRUE
  BY <1>1 DEF Cut, localVars, remoteVars
<1>4. ~ Quiet(o, i, w, TRUE) BY DEF Quiet
<1>5. EarlyFlow(o, i, w, d, L, R) BY <1>1, <1>2 DEF Pre, EarlyFlow
<1>6. Pre(o, i, w, d, TRUE, L, R, A) BY <1>2, <1>4, <1>5 DEF Pre
<1>7. d \subseteq Connection BY <1>1, <1>2
<1> QED BY <1>2, <1>3, <1>6, <1>7 DEF IInv

(* The jobs of a transaction, and its stage.                                *)
LEMMA TmIInv ==
  ASSUME IInv, NEW t \in Trid, TmEnds(t) \/ \E phase \in Phase : TmAsk(t, phase)
  PROVE  IInv'
<1>1. /\ Pre(outbound, inbound, wire, cut, broken, lookups, remote, asked)
      /\ lookups \in SUBSET LookupState /\ Managed(tm) /\ outbound \in OutboundState
  BY DEF IInv, Pre
<1>2. /\ inbound' = inbound /\ lookups' = lookups
      /\ UNCHANGED <<outbound, wire, cut, broken, asked, remote>>
  BY DEF TmEnds, TmAsk, remoteVars
<1>3. ASSUME NEW T, tm' = T, Managed(T), tm.jobs \subseteq T.jobs PROVE IInv'
  BY <1>1, <1>2, <1>3, StayIInv
<1>4. ASSUME TmEnds(t) PROVE IInv'
  <2>1. PICK T, e : /\ e = IF tm.stage[t] = "commit" THEN "committed" ELSE "rolledback"
                    /\ T = [tm EXCEPT !.stage = [tm.stage EXCEPT ![t] = e]]
    OBVIOUS
  <2>2. tm' = T
    <3>1. tm' = [tm EXCEPT !.stage[t] = IF @ = "commit" THEN "committed" ELSE "rolledback"]
      BY <1>4 DEF TmEnds
    <3> QED BY <1>1, <2>1, <3>1 DEF Managed
  <2>3. Managed(T) /\ tm.jobs \subseteq T.jobs BY <1>1, <2>1 DEF Managed
  <2> QED BY <1>3, <2>2, <2>3
<1>5. ASSUME NEW phase \in Phase, TmAsk(t, phase) PROVE IInv'
  <2>1. PICK S, J, T : /\ S = [tm.stage EXCEPT ![t] = phase] /\ J = tm.jobs \cup JobsOf(t, phase)
                       /\ T = [stage |-> S, jobs |-> J]
    OBVIOUS
  <2>2. tm' = T BY <1>5, <2>1 DEF TmAsk
  <2>3. JobsOf(t, phase) \subseteq Job
    <3>1. \A b \in outbound.involved : b.conn \in Connection BY <1>1 DEF OutboundState, Branch
    <3> QED BY <3>1 DEF JobsOf, Job
  <2>4. Managed(T) /\ tm.jobs \subseteq T.jobs
    <3>1. J \in SUBSET Job /\ tm.jobs \subseteq J BY <1>1, <2>1, <2>3 DEF Managed
    <3>2. S \in [Trid -> {"active", "prepare", "commit", "rollback", "committed", "rolledback"}]
      BY <1>1, <2>1 DEF Managed, Phase
    <3> QED BY <2>1, <3>1, <3>2 DEF Managed
  <2> QED BY <1>3, <2>2, <2>4
<1> QED BY <1>4, <1>5

(* Nothing happens.                                                         *)
LEMMA QuietIInv ==
  ASSUME IInv, UNCHANGED vars
  PROVE  IInv'
<1>1. PICK o, i, w, c, b, L, R, A, T :
        /\ o = outbound /\ i = inbound /\ w = wire /\ c = cut /\ b = broken /\ L = lookups
        /\ R = remote /\ A = asked /\ T = tm
  OBVIOUS
<1>2. /\ Pre(o, i, w, c, b, L, R, A) /\ Empty(o, i, w)
      /\ c \subseteq Connection /\ b \in BOOLEAN /\ (c # {} => b)
      /\ L \subseteq LookupState /\ R \in Work /\ Managed(T) /\ R.done \subseteq T.jobs
  BY <1>1 DEF IInv
<1>3. /\ outbound' = o /\ inbound' = i /\ wire' = w /\ cut' = c /\ broken' = b /\ lookups' = L
      /\ remote' = R /\ asked' = A /\ tm' = T
  BY <1>1 DEF vars, localVars, remoteVars
<1> QED BY <1>2, <1>3 DEF IInv

(* At first nothing has been asked.                                         *)
LEMMA InitIInv == Init => IInv
<1> SUFFICES ASSUME Init PROVE IInv OBVIOUS
<1>1. outbound = [level |-> "running", connections |-> {}, unconnected |-> Connection,
                  lookup |-> [r \in Resource |-> {}], branches |-> {}, routes |-> {},
                  disconnecting |-> {}, discovery |-> <<>>, told |-> {}, known |-> {},
                  replies |-> {}, involved |-> {}]
  BY DEF Init
<1>2. inbound = [level |-> "running", connections |-> {}, correlations |-> {}, requests |-> {},
                 disconnects |-> {}, conversations |-> {}]
  BY DEF Init
<1>3. wire = [up |-> [c \in Connection |-> <<>>], down |-> [c \in Connection |-> <<>>]] BY DEF Init
<1>4. /\ cut = {} /\ broken = FALSE /\ asked = {} /\ lookups = {}
      /\ tm = [stage |-> [t \in Trid |-> "active"], jobs |-> {}]
      /\ remote = [busy |-> {}, talking |-> {}, touched |-> {}, done |-> {}]
  BY DEF Init
<1>5. outbound \in OutboundState
  <2>1. <<>> \in Seq({e \in EntryState : Waits(e, Connection)}) OBVIOUS
  <2> QED BY <1>1, <2>1 DEF OutboundState
<1>6. inbound \in InboundState BY <1>2 DEF InboundState
<1>7. Wired(wire)
  <2>1. <<>> \in Seq(UpMessage(Job)) /\ <<>> \in Seq(DownMessage(Job, Job)) OBVIOUS
  <2> QED BY <1>3, <2>1 DEF Wired, WireOK
<1>8. \A c \in Connection : Ups(wire, c) = {} /\ Downs(wire, c) = {} BY <1>3 DEF Ups, Downs, ToSet
<1>9. Fits(outbound, inbound) BY <1>1, <1>2 DEF Fits
<1>10. Aimed(wire) BY <1>8 DEF Aimed
<1>11. Single(outbound, inbound, wire, asked) BY <1>1, <1>2, <1>8 DEF Single, At
<1>12. \A K, M : Discovering(outbound, K, M, {})
  <2>1. SUFFICES ASSUME NEW K, NEW M PROVE Discovering(outbound, K, M, {}) OBVIOUS
  <2>2. /\ outbound.lookup = [r \in Resource |-> {}] /\ outbound.told = {}
        /\ outbound.discovery = <<>>
    BY <1>1
  <2>3. <<>> \in Seq({e \in EntryState : Waits(e, K)}) OBVIOUS
  <2> QED BY <2>2, <2>3, DiscoveringIs
<1>13. Early(outbound) BY <1>1, <1>12 DEF Early
<1>14. /\ EarlyFlow(outbound, inbound, wire, cut, lookups, remote)
       /\ AllFlow(outbound, inbound, wire, lookups, remote) /\ NoneLost(outbound)
  BY <1>1 DEF EarlyFlow, AllFlow, NoneLost
<1>15. Opened(outbound, inbound, wire) BY <1>1, <1>2, <1>8, <1>12 DEF Opened
<1>16. Empty(outbound, inbound, wire) BY <1>8 DEF Empty
<1>17. remote \in Work /\ Managed(tm) /\ remote.done \subseteq tm.jobs /\ lookups \subseteq LookupState
  BY <1>4 DEF Work, Managed
<1>18. Pre(outbound, inbound, wire, cut, broken, lookups, remote, asked)
  BY <1>5, <1>6, <1>7, <1>9, <1>10, <1>11, <1>13, <1>14, <1>15 DEF Pre
<1> QED BY <1>4, <1>16, <1>17, <1>18 DEF IInv

(* Every step keeps it.                                                     *)
LEMMA NextIInv ==
  ASSUME IInv, [Next]_vars
  PROVE  IInv'
<1>1. CASE UNCHANGED vars BY <1>1, QuietIInv
<1>2. ASSUME NEW r \in Request, Ask(r) \/ Converse(r) \/ Serve(r) \/ EndConversation(r) PROVE IInv'
  BY <1>2, AskIInv, ConverseIInv, ServeIInv, EndConversationIInv
<1>3. ASSUME NEW j \in tm.jobs, AskResource(j) \/ VoteOn(j) PROVE IInv'
  BY <1>3, AskResourceIInv, VoteOnIInv
<1>4. ASSUME NEW d \in Discovery, Discover(d) PROVE IInv' BY <1>4, DiscoverIInv
<1>5. ASSUME NEW d \in [of : Connection \cup Discovery, conn : Connection], Find(d) PROVE IInv'
  BY <1>5, FindIInv DEF Asked
<1>6. ASSUME NEW c \in Connection,
             \/ OutboundReads(c) \/ OutboundLoses(c) \/ InboundReads(c) \/ InboundLoses(c)
             \/ Connect(c) \/ Cut(c)
      PROVE  IInv'
  BY <1>6, OutboundReadsIInv, OutboundLosesIInv, InboundReadsIInv, InboundLosesIInv, ConnectIInv, CutIInv
<1>7. ASSUME NEW l \in lookups, AnswerLookup(l) \/ LookupReply(l) PROVE IInv'
  BY <1>7, AnswerLookupIInv, LookupReplyIInv
<1>8. ASSUME NEW t \in Trid, TmEnds(t) \/ \E phase \in Phase : TmAsk(t, phase) PROVE IInv'
  BY <1>8, TmIInv
<1>9. CASE OutboundIdle \/ OutboundShutdown \/ OutboundEnds
  BY <1>9, OutboundIdleIInv, OutboundShutdownIInv, OutboundEndsIInv
<1>10. CASE InboundShutdown \/ InboundEnds BY <1>10, InboundShutdownIInv, InboundEndsIInv
<1> QED BY <1>1, <1>2, <1>3, <1>4, <1>5, <1>6, <1>7, <1>8, <1>9, <1>10 DEF Next
-----------------------------------------------------------------------------
(* The flow of a route is the answer on its way.                            *)
LEMMA FlowIs ==
  ASSUME IInv, NEW p \in outbound.routes, Flow(p, inbound, wire, lookups, remote),
         p.conn \in outbound.connections
  PROVE  OnItsWay(p) \/ p.corr \in Queueless
<1>1. outbound \in OutboundState /\ inbound \in InboundState /\ Wired(wire) BY DEF IInv, Pre
<1>2. p.conn \in Connection BY <1>1 DEF OutboundState
<1>3. CASE \E m \in Ups(wire, p.conn) : m.type \in {"request", "resource"} /\ m.corr = p.corr
  <2>1. PICK type \in {"request", "resource"} :
          \E m \in ToSet(wire.up[p.conn]) : m.type = type /\ m.corr = p.corr
    BY <1>3 DEF Ups
  <2>2. Carries(wire.up[p.conn], type, p.corr) BY <2>1, CarriesIs
  <2> QED BY <2>1, <2>2 DEF OnItsWay
<1>4. CASE \E m \in Downs(wire, p.conn) : m.type \in {"reply", "vote"} /\ m.corr = p.corr
  <2>1. PICK type \in {"reply", "vote"} :
          \E m \in ToSet(wire.down[p.conn]) : m.type = type /\ m.corr = p.corr
    BY <1>4 DEF Downs
  <2>2. Carries(wire.down[p.conn], type, p.corr) BY <2>1, CarriesIs
  <2> QED BY <2>1, <2>2 DEF OnItsWay
<1>5. ASSUME NEW x \in inbound.correlations, x.corr = p.corr, x.conn = p.conn,
             Working(p.corr, inbound, lookups, remote)
      PROVE  OnItsWay(p) \/ p.corr \in Queueless
  <2>1. x = [corr |-> p.corr, conn |-> p.conn] BY <1>1, <1>5 DEF InboundState
  <2> QED BY <1>5, <2>1 DEF Working, OnItsWay
<1> QED BY <1>3, <1>4, <1>5 DEF Flow

(* The state of both ends of the gateway is what it should be, in whatever  *)
(* order connections are made and lost, discoveries are answered and        *)
(* requests come and go.                                                    *)
THEOREM GatewayTypes == Spec => []TypeOK
<1>1. IInv => TypeOK
  <2>1. SUFFICES ASSUME IInv PROVE TypeOK OBVIOUS
  <2>2. outbound \in OutboundState /\ inbound \in InboundState /\ Fits(outbound, inbound)
    BY <2>1 DEF IInv, Pre
  <2>3. DOMAIN wire.up = Connection /\ DOMAIN wire.down = Connection
    <3>1. Wired(wire) BY <2>1 DEF IInv, Pre
    <3> QED BY <3>1, WiredIs
  <2>4. \A p \in outbound.routes : p.conn \in Connection \cup {None}
    BY <2>2 DEF OutboundState, RouteState
  <2>5. tm.jobs \subseteq Job /\ remote.done \subseteq tm.jobs BY <2>1 DEF IInv, Managed
  <2>6. outbound.connections \cap outbound.unconnected = {} BY <2>2 DEF Fits
  <2>7. /\ outbound.level \in {"running", "shutdown", "error", "ended"}
        /\ outbound.connections \cup outbound.unconnected \subseteq Connection
        /\ outbound.lookup \in [Resource -> SUBSET Connection]
        /\ outbound.branches \cup outbound.involved \subseteq Branch
    BY <2>2 DEF OutboundState
  <2>8. /\ inbound.level \in {"running", "shutdown", "error", "ended"}
        /\ inbound.connections \cup inbound.disconnects \subseteq Connection
        /\ inbound.requests \subseteq Request
    BY <2>2 DEF InboundState
  <2> QED BY <2>3, <2>4, <2>5, <2>6, <2>7, <2>8 DEF TypeOK
<1> QED BY <1>1, InitIInv, NextIInv, PTL DEF Spec

(* A soft shutdown of either end loses no call and no queue request,        *)
(* whatever is on its way when it begins and however the two ends, the      *)
(* requests, the discoveries and the transactions interleave.               *)
THEOREM SoftIsLossless == Spec => []SoftLosesNothing
<1>1. IInv => SoftLosesNothing
  <2>1. SUFFICES ASSUME IInv, NEW x \in outbound.replies, x.corr \in Request, x.code = "lost",
                        ~ broken, inbound.level # "error", outbound.level # "error"
        PROVE  FALSE
    BY DEF SoftLosesNothing
  <2>2. Quiet(outbound, inbound, wire, broken) BY <2>1 DEF IInv, Quiet
  <2>3. NoneLost(outbound) BY <2>1, <2>2 DEF IInv, Pre
  <2> QED BY <2>1, <2>3 DEF NoneLost
<1> QED BY <1>1, InitIInv, NextIInv, PTL DEF Spec

(* Until a discovery of a local process has been answered, a route is one   *)
(* of a connection from which the answer, or the loss of the connection, is *)
(* on its way, however often connections are lost and made again.           *)
THEOREM RoutesAreLive == Spec => [](outbound.told = {} => RouteIsLive)
<1>1. IInv => (outbound.told = {} => RouteIsLive)
  <2>1. SUFFICES ASSUME IInv, outbound.told = {}, Alive, NEW p \in outbound.routes
        PROVE  CASE p.kind \in {"call", "queue"} ->
                      IF p.conn \in outbound.connections THEN OnItsWay(p) \/ p.corr \in Queueless
                      ELSE outbound.told # {}
                 [] p.kind = "resource" ->
                      broken \/ p.conn \notin outbound.connections \/ OnItsWay(p)
                 [] p.kind = "conversation" -> TRUE
    BY DEF RouteIsLive
  <2>2. /\ outbound \in OutboundState /\ Fits(outbound, inbound) /\ Early(outbound)
        /\ EarlyFlow(outbound, inbound, wire, cut, lookups, remote)
    BY <2>1 DEF IInv, Pre
  <2>3. p.kind \in {"call", "queue", "conversation", "resource"} /\ p.corr \in Request \cup Job
    BY <2>1, <2>2 DEF OutboundState, RouteState
  <2>4. ASSUME p.kind \in {"call", "queue"}
        PROVE  p.conn \in outbound.connections /\ (OnItsWay(p) \/ p.corr \in Queueless)
    <3>1. p.conn \in outbound.connections BY <2>1, <2>2, <2>4 DEF Alive, Early
    <3>2. CASE p.conn \in cut \/ p.conn \notin inbound.connections BY <3>1, <3>2 DEF OnItsWay
    <3>3. CASE Flow(p, inbound, wire, lookups, remote) BY <2>1, <3>1, <3>3, FlowIs
    <3> QED BY <2>1, <2>2, <2>4, <3>1, <3>2, <3>3 DEF EarlyFlow
  <2>5. ASSUME p.kind = "resource", ~ broken, p.conn \in outbound.connections PROVE OnItsWay(p)
    <3>1. CASE inbound.level = "error" BY <2>2, <3>1 DEF Fits, OnItsWay
    <3>2. CASE inbound.level # "error"
      <4>1. Quiet(outbound, inbound, wire, broken) BY <2>1, <2>5, <3>2 DEF IInv, Quiet, Alive
      <4>2. AllFlow(outbound, inbound, wire, lookups, remote) BY <2>1, <4>1 DEF IInv, Pre
      <4>3. Flow(p, inbound, wire, lookups, remote) BY <2>1, <2>5, <4>2 DEF AllFlow
      <4>4. p.corr \notin Queueless
        BY <2>1, <2>2, <2>5, GatewayAssumption DEF Fits, GatewayAssumption
      <4> QED BY <2>1, <2>5, <4>3, <4>4, FlowIs
    <3> QED BY <3>1, <3>2
  <2> QED BY <2>1, <2>3, <2>4, <2>5
<1> QED BY <1>1, InitIInv, NextIInv, PTL DEF Spec
=============================================================================
