---------------------------- MODULE ServiceProofs ----------------------------
(***************************************************************************)
(* The instances of the service manager: nobody is given an instance that  *)
(* somebody has, what is reported as prepared has nothing to do, and what  *)
(* is reserved for a service with a timeout keeps its deadline, for every  *)
(* value of the constants.                                                 *)
(***************************************************************************)
EXTENDS ServiceManager, LoopProofs, FiniteSetTheorems

-----------------------------------------------------------------------------
(* Types of what is looked up.                                             *)

(* A lookup is of a service, in a context, with a correlation. *)
LEMMA LookupType ==
  ASSUME NEW l \in Lookup
  PROVE  /\ ServiceOf(l) \in Service /\ CorrOf(l) \in Corr
         /\ ContextOf(l) \in {"regular", "forward", "no_busy", "wait"}
         /\ l = <<l[1], l[2]>> /\ l[1] \in Call /\ l[2] \in Kind
<1>1. l = <<l[1], l[2]>> /\ l[1] \in Call /\ l[2] \in Kind
  BY DEF Lookup
<1>2. CorrOf(l) \in Corr
  BY <1>1 DEF CorrOf, Corr
<1>3. ServiceOf(l) \in Service
  <2>1. PICK p : p = Path[l[1]] /\ p \in Seq(Service) /\ p # <<>>
    BY <1>1, CallAssumption
  <2>2. p[1] \in Service /\ p[Len(p)] \in Service
    BY <2>1
  <2>3. QED
    BY <1>1, <2>1, <2>2, ServiceAssumption DEF ServiceOf, Last, Kind
<1>4. ContextOf(l) \in {"regular", "forward", "no_busy", "wait"}
  BY <1>1, CallAssumption DEF ContextOf, Kind
<1>5. QED
  BY <1>1, <1>2, <1>3, <1>4

(* The lookups of a call. *)
LEMMA CallLookups ==
  ASSUME NEW c \in Call
  PROVE  /\ Own(c) \in Lookup /\ Hop(c) \in Lookup /\ Cache(c) \in Lookup
         /\ Own(c)[1] = c /\ Own(c)[2] = "own" /\ Hop(c)[1] = c /\ Hop(c)[2] = "hop"
         /\ Cache(c)[1] = c /\ Cache(c)[2] = "cache"
  BY DEF Own, Hop, Cache, Lookup, Kind

(* The fields of the state of the manager. *)
LEMMA Fields ==
  ASSUME NEW m \in State
  PROVE  /\ m.known \in SUBSET Server /\ m.serves \in [Server -> SUBSET Service]
         /\ m.busy \in [Server -> Service \cup {Nobody}]
         /\ m.caller \in [Server -> Lookup \cup {Nobody}]
         /\ m.remotes \in SUBSET (Service \X Remote) /\ m.pending \in Seq(Lookup)
         /\ m.deadlines \in SUBSET [corr : Corr, service : Service, target : Server]
         /\ m.asked \in SUBSET Corr /\ m.mail \in [Lookup -> Seq(Notice)]
  BY DEF State

(* What a lookup never changes. *)
Kept(u, m) == u.known = m.known /\ u.serves = m.serves /\ u.remotes = m.remotes

Mailed(m, l, x) == IF phase[l] = "dead" THEN m.mail ELSE [m.mail EXCEPT ![l] = Append(@, x)]

(* The lookup is given i. *)
Gave(u, m, l, i) ==
  /\ ServiceOf(l) \in m.serves[i] /\ m.busy[i] = Nobody
  /\ u.busy = [m.busy EXCEPT ![i] = ServiceOf(l)] /\ u.caller = [m.caller EXCEPT ![i] = l]
  /\ u.pending = m.pending /\ u.mail = Mailed(m, l, i) /\ u.asked = m.asked
  /\ u.deadlines = m.deadlines
                   \cup (IF ServiceOf(l) \in Timed
                         THEN {[corr |-> CorrOf(l), service |-> ServiceOf(l), target |-> i]} ELSE {})

(* It waits, or is told something that names no instance. *)
Waited(u, m, l) ==
  /\ u.busy = m.busy /\ u.caller = m.caller /\ u.deadlines = m.deadlines
  /\ \/ u.pending = Append(m.pending, l) /\ u.mail \in {m.mail, Mailed(m, l, "busy")}
     \/ /\ u.pending = m.pending
        /\ \E x \in Notice \ (Server \cup {"busy"}) :
             (x = "cache" => ContextOf(l) = "forward") /\ u.mail = Mailed(m, l, x)

(* A reply is appended to the mail of a lookup. *)
LEMMA ToldIs ==
  ASSUME NEW m \in State, NEW l \in Lookup, NEW x \in Notice, NEW u, u = Told(m, l, x)
  PROVE  /\ u \in State /\ Kept(u, m) /\ u.busy = m.busy /\ u.caller = m.caller
         /\ u.pending = m.pending /\ u.deadlines = m.deadlines /\ u.asked = m.asked
         /\ u.mail = Mailed(m, l, x)
<1>1. m.mail \in [Lookup -> Seq(Notice)]
  BY Fields
<1>2. Append(m.mail[l], x) \in Seq(Notice)
  BY <1>1
<1>3. [m.mail EXCEPT ![l] = Append(@, x)] \in [Lookup -> Seq(Notice)]
  BY <1>1, <1>2
<1>4. PICK f \in [Lookup -> Seq(Notice)] : f = [m.mail EXCEPT ![l] = Append(@, x)]
  BY <1>3
<1>5. CASE phase[l] = "dead"
  BY <1>5 DEF Told, Kept, Mailed
<1>6. CASE phase[l] # "dead"
  <2>1. u = [m EXCEPT !.mail = f]
    BY <1>4, <1>6 DEF Told
  <2>2. u \in State
    BY <2>1 DEF State
  <2>3. QED
    BY <1>4, <1>6, <2>1, <2>2 DEF Kept, Mailed, State
<1>7. QED
  BY <1>5, <1>6

(* A lookup is stacked. *)
LEMMA StackedIs ==
  ASSUME NEW m \in State, NEW l \in Lookup, NEW u, u = Stacked(m, l)
  PROVE  /\ u \in State /\ Kept(u, m) /\ u.busy = m.busy /\ u.caller = m.caller
         /\ u.pending = Append(m.pending, l) /\ u.deadlines = m.deadlines /\ u.asked = m.asked
         /\ u.mail = m.mail
<1>1. PICK p \in Seq(Lookup) : p = Append(m.pending, l)
  <2>1. m.pending \in Seq(Lookup)
    BY Fields
  <2>2. Append(m.pending, l) \in Seq(Lookup)
    BY <2>1
  <2>3. QED
    BY <2>2
<1>2. u = [m EXCEPT !.pending = p]
  BY <1>1 DEF Stacked
<1>3. QED
  BY <1>1, <1>2 DEF Kept, State

(* An idle instance of the service is reserved. *)
LEMMA ReservedIs ==
  ASSUME NEW m \in State, NEW l \in Lookup, NEW i \in Server, NEW u, u = Reserved(m, l, i),
         ServiceOf(l) \in m.serves[i], Free(m, i)
  PROVE  u \in State /\ Kept(u, m) /\ Gave(u, m, l, i)
<1>1. PICK s \in Service, e \in [corr : Corr, service : Service, target : Server] :
        s = ServiceOf(l) /\ e = [corr |-> CorrOf(l), service |-> s, target |-> i]
  BY LookupType
<1>2. PICK b \in [Server -> Service \cup {Nobody}], q \in [Server -> Lookup \cup {Nobody}],
           d \in SUBSET [corr : Corr, service : Service, target : Server] :
        /\ b = [m.busy EXCEPT ![i] = s] /\ q = [m.caller EXCEPT ![i] = l]
        /\ d = m.deadlines \cup (IF s \in Timed THEN {e} ELSE {})
  <2>1. [m.busy EXCEPT ![i] = s] \in [Server -> Service \cup {Nobody}]
    BY Fields
  <2>2. [m.caller EXCEPT ![i] = l] \in [Server -> Lookup \cup {Nobody}]
    BY Fields
  <2>3. m.deadlines \cup (IF s \in Timed THEN {e} ELSE {})
          \in SUBSET [corr : Corr, service : Service, target : Server]
    BY Fields
  <2>4. QED
    BY <2>1, <2>2, <2>3
<1>3. PICK v : v = [m EXCEPT !.busy = b, !.caller = q, !.deadlines = d]
  OBVIOUS
<1>4. /\ v \in State /\ v.known = m.known /\ v.serves = m.serves /\ v.remotes = m.remotes
      /\ v.busy = b /\ v.caller = q /\ v.deadlines = d /\ v.pending = m.pending
      /\ v.asked = m.asked /\ v.mail = m.mail
  BY <1>3 DEF State
<1>5. u = Told(v, l, i)
  <2>1. (IF s \in Timed THEN m.deadlines \cup {e} ELSE m.deadlines) = d
    BY <1>2
  <2>2. v = [m EXCEPT !.busy[i] = s, !.caller[i] = l,
                      !.deadlines = IF s \in Timed THEN @ \cup {e} ELSE @]
    BY <1>2, <1>3, <2>1
  <2>3. QED
    BY <1>1, <2>2, Zenon DEF Reserved
<1>6. i \in Notice
  BY DEF Notice, Place
<1>7. PICK f : f = Mailed(m, l, i) /\ f = Mailed(v, l, i)
  BY <1>4 DEF Mailed
<1>8. /\ u \in State /\ Kept(u, v) /\ u.busy = b /\ u.caller = q /\ u.pending = m.pending
      /\ u.deadlines = d /\ u.asked = m.asked /\ u.mail = f
  BY <1>4, <1>5, <1>6, <1>7, ToldIs
<1>9. Kept(u, m)
  BY <1>4, <1>8 DEF Kept
<1>10. Gave(u, m, l, i)
  <2>1. f = Mailed(m, l, i)
    BY <1>7
  <2>2. d = m.deadlines \cup (IF ServiceOf(l) \in Timed
                              THEN {[corr |-> CorrOf(l), service |-> ServiceOf(l), target |-> i]}
                              ELSE {})
    BY <1>1, <1>2
  <2>3. b = [m.busy EXCEPT ![i] = ServiceOf(l)] /\ q = [m.caller EXCEPT ![i] = l]
    BY <1>1, <1>2
  <2>4. QED
    BY ONLY <1>8, <2>1, <2>2, <2>3, ServiceOf(l) \in m.serves[i], Free(m, i) DEF Gave, Free
<1>11. QED
  BY <1>8, <1>9, <1>10

(* What discovery leads to. *)
LEMMA DiscoveredIs ==
  ASSUME NEW m \in State, NEW l \in Lookup, NEW u, u = Discovered(m, l)
  PROVE  u \in State /\ Kept(u, m) /\ Waited(u, m, l)
<1>1. CASE Discovery
  <2>1. PICK v : v = Stacked(m, l)
    OBVIOUS
  <2>2. /\ v \in State /\ Kept(v, m) /\ v.busy = m.busy /\ v.caller = m.caller
        /\ v.pending = Append(m.pending, l) /\ v.deadlines = m.deadlines /\ v.mail = m.mail
    BY <2>1, StackedIs
  <2>3. PICK a \in SUBSET Corr : a = v.asked \cup {CorrOf(l)}
    BY <2>2, Fields, LookupType
  <2>4. u = [v EXCEPT !.asked = a]
    BY <1>1, <2>1, <2>3 DEF Discovered
  <2>5. /\ u \in State /\ u.known = v.known /\ u.serves = v.serves /\ u.remotes = v.remotes
        /\ u.busy = v.busy /\ u.caller = v.caller /\ u.pending = v.pending
        /\ u.deadlines = v.deadlines /\ u.mail = v.mail
    BY <2>2, <2>4 DEF State
  <2>6. QED
    BY <2>2, <2>5 DEF Kept, Waited
<1>2. CASE ~ Discovery /\ ContextOf(l) = "wait"
  <2>1. u = Stacked(m, l)
    BY <1>2 DEF Discovered
  <2>2. QED
    BY <2>1, StackedIs DEF Waited
<1>3. CASE ~ Discovery /\ ContextOf(l) # "wait"
  <2>1. u = Told(m, l, "absent")
    BY <1>3 DEF Discovered
  <2>2. "absent" \in Notice \ (Server \cup {"busy"})
    BY ServiceAssumption DEF Notice
  <2>3. QED
    BY <2>1, <2>2, ToldIs DEF Waited
<1>4. QED
  BY <1>1, <1>2, <1>3

(* What a lookup leads to when every instance is busy. *)
LEMMA WaitingIs ==
  ASSUME NEW m \in State, NEW l \in Lookup, NEW u, u = Waiting(m, l)
  PROVE  u \in State /\ Kept(u, m) /\ Waited(u, m, l)
<1>1. "cache" \in Notice \ (Server \cup {"busy"}) /\ "absent" \in Notice \ (Server \cup {"busy"})
      /\ "busy" \in Notice
  BY ServiceAssumption DEF Notice, Place
<1>2. CASE ContextOf(l) = "forward"
  <2>1. u = Told(m, l, "cache")
    BY <1>2 DEF Waiting
  <2>2. QED
    BY <1>1, <1>2, <2>1, ToldIs DEF Waited
<1>3. CASE ContextOf(l) = "regular" /\ phase[l] = "dead"
  <2>1. u = m
    BY <1>3 DEF Waiting
  <2>2. u.mail = Mailed(m, l, "absent")
    BY <1>3, <2>1 DEF Mailed
  <2>3. QED
    BY <1>1, <2>1, <2>2 DEF Waited, Kept
<1>4. CASE ContextOf(l) = "regular" /\ phase[l] # "dead"
  <2>1. PICK v : v = Told(m, l, "busy")
    OBVIOUS
  <2>2. u = Stacked(v, l)
    BY <1>4, <2>1 DEF Waiting
  <2>3. /\ v \in State /\ Kept(v, m) /\ v.busy = m.busy /\ v.caller = m.caller
        /\ v.pending = m.pending /\ v.deadlines = m.deadlines /\ v.mail = Mailed(m, l, "busy")
    BY <1>1, <2>1, ToldIs
  <2>4. /\ u \in State /\ Kept(u, v) /\ u.busy = v.busy /\ u.caller = v.caller
        /\ u.pending = Append(v.pending, l) /\ u.deadlines = v.deadlines /\ u.mail = v.mail
    BY <2>2, <2>3, StackedIs
  <2>5. QED
    BY <2>3, <2>4 DEF Waited, Kept
<1>5. CASE ContextOf(l) \notin {"forward", "regular"}
  <2>1. u = Stacked(m, l)
    BY <1>5 DEF Waiting
  <2>2. QED
    BY <2>1, StackedIs DEF Waited
<1>6. QED
  BY <1>2, <1>3, <1>4, <1>5

(* detail::lookup gives an idle instance, or the lookup waits or is told.  *)
LEMMA LookedIs ==
  ASSUME NEW m \in State, NEW l \in Lookup, NEW u \in Looked(m, l)
  PROVE  /\ u \in State /\ Kept(u, m)
         /\ \/ \E i \in Server : Gave(u, m, l, i)
            \/ Waited(u, m, l)
<1>1. \/ \E i \in Server : /\ u = Reserved(m, l, i) /\ ServiceOf(l) \in m.serves[i]
                           /\ Free(m, i)
      \/ \E x \in Remote : u = Told(m, l, x)
      \/ u = Discovered(m, l)
      \/ u = Waiting(m, l)
  BY DEF Looked, Local, Far
<1>2. CASE \E i \in Server : /\ u = Reserved(m, l, i) /\ ServiceOf(l) \in m.serves[i]
                             /\ Free(m, i)
  BY <1>2, ReservedIs
<1>3. ASSUME NEW x \in Remote, u = Told(m, l, x)
      PROVE  u \in State /\ Kept(u, m) /\ Waited(u, m, l)
  <2>1. x \in Notice /\ x \notin Server /\ x # "busy" /\ x # "cache"
    BY ServiceAssumption DEF Notice, Place
  <2>2. QED
    BY <1>3, <2>1, ToldIs DEF Waited
<1>4. QED
  BY <1>1, <1>2, <1>3, DiscoveredIs, WaitingIs
-----------------------------------------------------------------------------
(* What stands between an instance and its next caller.                    *)
Active == {"looking", "waiting", "stray"}
Over == {"ended", "dead"}
Phase == {"none"} \cup Active \cup Over

(* The mail of l names i, and its process will read it or discard it.      *)
Names(m, ph, l, i) == ph[l] \in Active /\ i \in ToSet(m.mail[l])
ClaimsIn(m, ph, w, k, i) ==
  ({"reply"} \X {l \in Lookup : Names(m, ph, l, i)})
  \cup ({"call"} \X {c \in Call : <<c, i>> \in w})
  \cup ({"ack"} \X {a \in k : a.from = i})

(* The members, one by one. *)
LEMMA ClaimIs ==
  ASSUME NEW m, NEW ph, NEW w, NEW k, NEW i
  PROVE  /\ \A l : <<"reply", l>> \in ClaimsIn(m, ph, w, k, i) <=> l \in Lookup /\ Names(m, ph, l, i)
         /\ \A c : <<"call", c>> \in ClaimsIn(m, ph, w, k, i) <=> c \in Call /\ <<c, i>> \in w
         /\ \A a : <<"ack", a>> \in ClaimsIn(m, ph, w, k, i) <=> a \in k /\ a.from = i
<1>1. PICK R, D, A : /\ R = {l \in Lookup : Names(m, ph, l, i)}
                     /\ D = {c \in Call : <<c, i>> \in w} /\ A = {a \in k : a.from = i}
  OBVIOUS
<1>2. PICK C : C = ({"reply"} \X R) \cup ({"call"} \X D) \cup ({"ack"} \X A)
  OBVIOUS
<1>3. C = ClaimsIn(m, ph, w, k, i)
  BY <1>1, <1>2 DEF ClaimsIn
<1>4. /\ \A l : <<"reply", l>> \in C <=> l \in R
      /\ \A l : <<"call", l>> \in C <=> l \in D
      /\ \A l : <<"ack", l>> \in C <=> l \in A
  BY <1>2
<1>5. QED
  BY <1>1, <1>3, <1>4

(* What a claim is. *)
LEMMA ClaimOne ==
  ASSUME NEW m, NEW ph, NEW w, NEW k, NEW i, NEW x \in ClaimsIn(m, ph, w, k, i)
  PROVE  \/ \E l \in Lookup : x = <<"reply", l>> /\ Names(m, ph, l, i)
         \/ \E c \in Call : x = <<"call", c>> /\ <<c, i>> \in w
         \/ \E a \in k : x = <<"ack", a>> /\ a.from = i
<1>1. \/ x \in {"reply"} \X {l \in Lookup : Names(m, ph, l, i)}
      \/ x \in {"call"} \X {c \in Call : <<c, i>> \in w}
      \/ x \in {"ack"} \X {a \in k : a.from = i}
  BY DEF ClaimsIn
<1>2. QED
  BY <1>1

(* They are the claims of the specification. *)
LEMMA ClaimsAre ==
  ASSUME NEW i
  PROVE  Claims(i) = ClaimsIn(sm, phase, at, acks, i)
<1>1. \A l \in Lookup :
        (/\ phase[l] \in {"looking", "waiting", "stray"}
         /\ \E n \in DOMAIN sm.mail[l] : sm.mail[l][n] = i) <=> Names(sm, phase, l, i)
  BY DEF Names, Active, ToSet
<1>2. {l \in Lookup : /\ phase[l] \in {"looking", "waiting", "stray"}
                      /\ \E n \in DOMAIN sm.mail[l] : sm.mail[l][n] = i}
      = {l \in Lookup : Names(sm, phase, l, i)}
  BY <1>1
<1>3. QED
  BY <1>2, Zenon DEF Claims, ClaimsIn

(* The state of the manager is about what is under way: C is what stands   *)
(* between i and its next caller.                                          *)
Away(m, i) == m.serves[i] = {} /\ m.busy[i] = Nobody /\ m.caller[i] = Nobody
Alone(C) == \A x, y \in C : x = y
Reserves(m, i, C) ==
  /\ i \notin m.known => Away(m, i)
  /\ m.caller[i] # Nobody => m.busy[i] # Nobody
  /\ Alone(C)
  /\ i \in m.known /\ C # {} => m.busy[i] # Nobody

(* Until the caller has read its reply nobody else has the instance.       *)
Reads(m, ph, i, C) ==
  m.caller[i] # Nobody => /\ ph[m.caller[i]] # "none"
                          /\ ph[m.caller[i]] \in Active => C \subseteq {<<"reply", m.caller[i]>>}

(* Nothing is there for a lookup that has not been made; only a forward is *)
(* given to the cache.                                                     *)
Mails(m, ph, l) ==
  /\ ph[l] = "none" => m.mail[l] = <<>> /\ l \notin ToSet(m.pending)
  /\ "cache" \in ToSet(m.mail[l]) => ContextOf(l) = "forward"

Safe(m, ph, w, k) ==
  /\ \A i \in Server : /\ Reserves(m, i, ClaimsIn(m, ph, w, k, i))
                       /\ Reads(m, ph, i, ClaimsIn(m, ph, w, k, i))
  /\ \A l \in Lookup : Mails(m, ph, l)

(* u has the instances of m, and those that m does not know are as they were. *)
Kin(u, m, ph, w, k) ==
  /\ u.known = m.known
  /\ \A i \in Server \ m.known : ClaimsIn(u, ph, w, k, i) = ClaimsIn(m, ph, w, k, i)

(* What mail adds to the claims and notices. *)
LEMMA MailedIs ==
  ASSUME NEW m \in State, NEW l \in Lookup, NEW x \in Notice, NEW u, u.mail = Mailed(m, l, x)
  PROVE  /\ \A q \in Lookup : q # l => u.mail[q] = m.mail[q]
         /\ \A q \in Lookup : ToSet(u.mail[q]) \subseteq ToSet(m.mail[q]) \cup {x}
         /\ ToSet(m.mail[l]) \subseteq ToSet(u.mail[l])
<1>1. m.mail \in [Lookup -> Seq(Notice)]
  BY Fields
<1>2. ToSet(Append(m.mail[l], x)) = ToSet(m.mail[l]) \cup {x}
  BY <1>1, AppendIn
<1>3. CASE phase[l] = "dead"
  BY <1>3 DEF Mailed
<1>4. CASE phase[l] # "dead"
  <2>1. u.mail[l] = Append(m.mail[l], x) /\ \A q \in Lookup : q # l => u.mail[q] = m.mail[q]
    BY <1>1, <1>4 DEF Mailed
  <2>2. QED
    BY <1>2, <2>1
<1>5. QED
  BY <1>3, <1>4

(* Claims are the same when mail names no other instance. *)
LEMMA SameClaims ==
  ASSUME NEW m, NEW u, NEW ph, NEW w, NEW k, NEW i,
         \A q \in Lookup : i \in ToSet(u.mail[q]) <=> i \in ToSet(m.mail[q])
  PROVE  ClaimsIn(u, ph, w, k, i) = ClaimsIn(m, ph, w, k, i)
<1>1. \A q \in Lookup : Names(u, ph, q, i) <=> Names(m, ph, q, i)
  BY DEF Names
<1>2. {l \in Lookup : Names(u, ph, l, i)} = {l \in Lookup : Names(m, ph, l, i)}
  BY <1>1
<1>3. QED
  BY <1>2, Zenon DEF ClaimsIn

(* A lookup that waits or is told of no instance. *)
LEMMA WaitedSafe ==
  ASSUME NEW m \in State, NEW ph, NEW w, NEW k, NEW l \in Lookup, NEW u \in State,
         Safe(m, ph, w, k), ph[l] # "none", Kept(u, m), Waited(u, m, l)
  PROVE  Safe(u, ph, w, k) /\ Kin(u, m, ph, w, k)
<1>1. PICK x \in Notice : /\ x \notin Server
                          /\ x = "cache" => ContextOf(l) = "forward"
                          /\ \/ u.mail = m.mail
                             \/ u.mail = Mailed(m, l, x)
  <2>1. "busy" \in Notice /\ "busy" \notin Server /\ "busy" # "cache"
    BY ServiceAssumption DEF Notice
  <2>2. QED
    BY <2>1 DEF Waited
<1>2. /\ \A q \in Lookup : q # l => u.mail[q] = m.mail[q]
      /\ \A q \in Lookup : ToSet(u.mail[q]) \subseteq ToSet(m.mail[q]) \cup {x}
      /\ ToSet(m.mail[l]) \subseteq ToSet(u.mail[l])
  BY <1>1, MailedIs
<1>3. ASSUME NEW i \in Server PROVE ClaimsIn(u, ph, w, k, i) = ClaimsIn(m, ph, w, k, i)
  <2>1. \A q \in Lookup : i \in ToSet(u.mail[q]) <=> i \in ToSet(m.mail[q])
    BY <1>1, <1>2
  <2>2. QED
    BY <2>1, SameClaims
<1>4. ASSUME NEW i \in Server
      PROVE  /\ Reserves(u, i, ClaimsIn(u, ph, w, k, i))
             /\ Reads(u, ph, i, ClaimsIn(u, ph, w, k, i))
  <2>1. PICK C : C = ClaimsIn(m, ph, w, k, i)
    OBVIOUS
  <2>2. Reserves(m, i, C) /\ Reads(m, ph, i, C)
    BY <2>1 DEF Safe
  <2>3. u.known = m.known /\ u.serves = m.serves /\ u.busy = m.busy /\ u.caller = m.caller
    BY DEF Kept, Waited
  <2>4. Reserves(u, i, C) /\ Reads(u, ph, i, C)
    BY <2>2, <2>3 DEF Reserves, Reads, Away
  <2>5. QED
    BY <1>3, <2>1, <2>4
<1>5. ToSet(u.pending) \subseteq ToSet(m.pending) \cup {l}
  <2>1. m.pending \in Seq(Lookup)
    BY Fields
  <2>2. ToSet(Append(m.pending, l)) = ToSet(m.pending) \cup {l}
    BY <2>1, AppendIn
  <2>3. QED
    BY <2>2 DEF Waited
<1>6. ASSUME NEW q \in Lookup PROVE Mails(u, ph, q)
  <2>1. Mails(m, ph, q)
    BY DEF Safe
  <2>2. CASE q # l
    BY <1>2, <1>5, <2>1, <2>2 DEF Mails
  <2>3. CASE q = l
    BY <1>1, <1>2, <2>1, <2>3 DEF Mails
  <2>4. QED
    BY <2>2, <2>3
<1>7. QED
  BY <1>3, <1>4, <1>6 DEF Safe, Kin, Kept

(* A lookup that is given an idle instance: nobody has it. *)
LEMMA GaveSafe ==
  ASSUME NEW m \in State, NEW ph, NEW w, NEW k, NEW l \in Lookup, NEW u \in State,
         Safe(m, ph, w, k), ph[l] # "none", Kept(u, m), NEW i \in Server, Gave(u, m, l, i)
  PROVE  Safe(u, ph, w, k) /\ Kin(u, m, ph, w, k)
<1>1. PICK C : C = ClaimsIn(m, ph, w, k, i)
  OBVIOUS
<1>2. PICK D : D = ClaimsIn(u, ph, w, k, i)
  OBVIOUS
<1>3. i \in m.known /\ C = {}
  <2>1. Reserves(m, i, C)
    BY <1>1 DEF Safe
  <2>2. QED
    BY <2>1 DEF Reserves, Away, Gave
<1>4. /\ \A q \in Lookup : q # l => u.mail[q] = m.mail[q]
      /\ \A q \in Lookup : ToSet(u.mail[q]) \subseteq ToSet(m.mail[q]) \cup {i}
      /\ ToSet(m.mail[l]) \subseteq ToSet(u.mail[l])
  <2>1. i \in Notice /\ u.mail = Mailed(m, l, i)
    BY DEF Notice, Place, Gave
  <2>2. QED
    BY <2>1, MailedIs
<1>5. ASSUME NEW j \in Server, j # i PROVE ClaimsIn(u, ph, w, k, j) = ClaimsIn(m, ph, w, k, j)
  <2>1. \A q \in Lookup : j \in ToSet(u.mail[q]) <=> j \in ToSet(m.mail[q])
    BY <1>4, <1>5
  <2>2. QED
    BY <2>1, SameClaims
<1>6. D \subseteq {<<"reply", l>>}
  <2>1. ASSUME NEW x \in D PROVE x = <<"reply", l>>
    <3>1. CASE \E q \in Lookup : x = <<"reply", q>> /\ Names(u, ph, q, i)
      <4>1. PICK q \in Lookup : x = <<"reply", q>> /\ Names(u, ph, q, i)
        BY <3>1
      <4>2. CASE q # l
        <5>1. Names(m, ph, q, i)
          BY <1>4, <4>1, <4>2 DEF Names
        <5>2. <<"reply", q>> \in C
          BY <1>1, <5>1, ClaimIs
        <5>3. QED
          BY <1>3, <5>2
      <4>3. QED
        BY <4>1, <4>2
    <3>2. CASE \E c \in Call : x = <<"call", c>> /\ <<c, i>> \in w
      <4>1. PICK c \in Call : x = <<"call", c>> /\ <<c, i>> \in w
        BY <3>2
      <4>2. x \in C
        BY <1>1, <4>1, ClaimIs
      <4>3. QED
        BY <1>3, <4>2
    <3>3. CASE \E a \in k : x = <<"ack", a>> /\ a.from = i
      <4>1. PICK a \in k : x = <<"ack", a>> /\ a.from = i
        BY <3>3
      <4>2. x \in C
        BY <1>1, <4>1, ClaimIs
      <4>3. QED
        BY <1>3, <4>2
    <3>4. x \in ClaimsIn(u, ph, w, k, i)
      BY <1>2
    <3>5. \/ \E q \in Lookup : x = <<"reply", q>> /\ Names(u, ph, q, i)
          \/ \E c \in Call : x = <<"call", c>> /\ <<c, i>> \in w
          \/ \E a \in k : x = <<"ack", a>> /\ a.from = i
      BY <3>4, ClaimOne
    <3>6. QED
      BY <3>1, <3>2, <3>3, <3>5
  <2>2. QED
    BY <2>1
<1>7. ServiceOf(l) # Nobody /\ l # Nobody
  BY LookupType, ServiceAssumption
<1>8. /\ \A j \in Server : j # i => u.busy[j] = m.busy[j] /\ u.caller[j] = m.caller[j]
      /\ u.busy[i] # Nobody /\ u.caller[i] = l
  BY <1>7, Fields DEF Gave
<1>9. ASSUME NEW j \in Server
      PROVE  /\ Reserves(u, j, ClaimsIn(u, ph, w, k, j))
             /\ Reads(u, ph, j, ClaimsIn(u, ph, w, k, j))
  <2>1. CASE j = i
    <3>1. Reserves(u, i, D)
      BY <1>3, <1>6, <1>8 DEF Reserves, Kept, Alone
    <3>2. Reads(u, ph, i, D)
      BY <1>6, <1>8 DEF Reads
    <3>3. QED
      BY <1>2, <2>1, <3>1, <3>2
  <2>2. CASE j # i
    <3>1. PICK B : B = ClaimsIn(m, ph, w, k, j)
      OBVIOUS
    <3>2. Reserves(m, j, B) /\ Reads(m, ph, j, B)
      BY <3>1 DEF Safe
    <3>3. u.known = m.known /\ u.serves = m.serves /\ u.busy[j] = m.busy[j]
          /\ u.caller[j] = m.caller[j]
      BY <1>8, <2>2 DEF Kept
    <3>4. Reserves(u, j, B) /\ Reads(u, ph, j, B)
      BY <3>2, <3>3 DEF Reserves, Reads, Away
    <3>5. QED
      BY <1>5, <2>2, <3>1, <3>4
  <2>3. QED
    BY <2>1, <2>2
<1>10. ASSUME NEW q \in Lookup PROVE Mails(u, ph, q)
  <2>1. Mails(m, ph, q) /\ u.pending = m.pending /\ i # "cache"
    BY ServiceAssumption DEF Safe, Gave
  <2>2. CASE q # l
    BY <1>4, <2>1, <2>2 DEF Mails
  <2>3. CASE q = l
    BY <1>4, <2>1, <2>3 DEF Mails
  <2>4. QED
    BY <2>2, <2>3
<1>11. QED
  BY <1>3, <1>5, <1>9, <1>10 DEF Safe, Kin, Kept

(* A lookup keeps the instances safe. *)
LEMMA LookedSafe ==
  ASSUME NEW m \in State, NEW ph, NEW w, NEW k, NEW l \in Lookup, NEW u \in Looked(m, l),
         Safe(m, ph, w, k), ph[l] # "none"
  PROVE  u \in State /\ Safe(u, ph, w, k) /\ Kin(u, m, ph, w, k)
<1>1. /\ u \in State /\ Kept(u, m)
      /\ \/ \E i \in Server : Gave(u, m, l, i)
         \/ Waited(u, m, l)
  BY LookedIs
<1>2. QED
  BY <1>1, GaveSafe, WaitedSafe

(* Fewer lookups wait. *)
LEMMA FewerSafe ==
  ASSUME NEW m \in State, NEW ph, NEW w, NEW k, NEW p \in Seq(Lookup), NEW u,
         Safe(m, ph, w, k), ToSet(p) \subseteq ToSet(m.pending), u = [m EXCEPT !.pending = p]
  PROVE  u \in State /\ Safe(u, ph, w, k) /\ Kin(u, m, ph, w, k)
<1>1. /\ u \in State /\ u.known = m.known /\ u.serves = m.serves /\ u.busy = m.busy
      /\ u.caller = m.caller /\ u.mail = m.mail /\ u.pending = p
  BY DEF State
<1>2. ASSUME NEW i \in Server PROVE ClaimsIn(u, ph, w, k, i) = ClaimsIn(m, ph, w, k, i)
  <2>1. \A q \in Lookup : i \in ToSet(u.mail[q]) <=> i \in ToSet(m.mail[q])
    BY <1>1
  <2>2. QED
    BY ONLY <2>1, SameClaims
<1>3. ASSUME NEW i \in Server
      PROVE  /\ Reserves(u, i, ClaimsIn(u, ph, w, k, i))
             /\ Reads(u, ph, i, ClaimsIn(u, ph, w, k, i))
  <2>1. PICK C : C = ClaimsIn(m, ph, w, k, i)
    OBVIOUS
  <2>2. Reserves(m, i, C) /\ Reads(m, ph, i, C)
    BY <2>1 DEF Safe
  <2>3. Reserves(u, i, C) /\ Reads(u, ph, i, C)
    BY <1>1, <2>2 DEF Reserves, Reads, Away
  <2>4. QED
    BY <1>2, <2>1, <2>3
<1>4. \A q \in Lookup : Mails(u, ph, q)
  BY <1>1 DEF Safe, Mails
<1>5. QED
  BY <1>1, <1>2, <1>3, <1>4 DEF Safe, Kin

(* The first pending lookup of some is made again. *)
LEMMA FirstLookedSafe ==
  ASSUME NEW m \in State, NEW ph, NEW w, NEW k, NEW these, NEW u \in FirstLooked(m, these),
         Safe(m, ph, w, k)
  PROVE  u \in State /\ Safe(u, ph, w, k) /\ Kin(u, m, ph, w, k)
<1>1. PICK p \in Seq(Lookup), j \in Nat : p = m.pending /\ j = Len(p) /\ DOMAIN p = 1 .. j
  <2>1. PICK p \in Seq(Lookup) : p = m.pending
    BY Fields
  <2>2. Len(p) \in Nat /\ DOMAIN p = 1 .. Len(p)
    OBVIOUS
  <2>3. QED
    BY <2>1, <2>2
<1>2. PICK I : I = {i \in 1 .. j : p[i] \in these}
  OBVIOUS
<1>3. PICK n : n = IF I # {} THEN Min(I) ELSE 0
  OBVIOUS
<1>4. n = SelectInSeq(m.pending, LAMBDA l : l \in these)
  BY <1>1, <1>2, <1>3 DEF SelectInSeq
<1>5. CASE I = {}
  <2>1. u = m
    BY <1>3, <1>4, <1>5 DEF FirstLooked
  <2>2. QED
    BY <2>1 DEF Kin
<1>6. CASE I # {}
  <2>1. n \in DOMAIN p /\ n # 0
    <3>1. I \in SUBSET (1 .. j)
      BY <1>2
    <3>2. IF I = {} THEN n = 0 ELSE n \in I /\ n # 0 /\ \A i \in I : n <= i
      BY <1>3, <3>1, FirstOf
    <3>3. QED
      BY <1>1, <1>6, <3>1, <3>2
  <2>2. PICK t : t = RemoveAt(p, n)
    OBVIOUS
  <2>3. t \in Seq(Lookup) /\ ToSet(p) = ToSet(t) \cup {p[n]} /\ p[n] \in Lookup
    BY <1>1, <2>1, <2>2, RemoveIn
  <2>4. PICK v : v = [m EXCEPT !.pending = t]
    OBVIOUS
  <2>5. u \in Looked(v, p[n])
    BY <1>1, <1>4, <2>1, <2>2, <2>4 DEF FirstLooked
  <2>6. v \in State /\ Safe(v, ph, w, k) /\ Kin(v, m, ph, w, k)
    <3>1. ToSet(t) \subseteq ToSet(m.pending)
      BY <1>1, <2>3
    <3>2. QED
      BY <2>3, <2>4, <3>1, FewerSafe
  <2>7. ph[p[n]] # "none"
    <3>1. Mails(m, ph, p[n]) /\ p[n] \in ToSet(m.pending)
      BY <1>1, <2>3 DEF Safe
    <3>2. QED
      BY <3>1 DEF Mails
  <2>8. u \in State /\ Safe(u, ph, w, k) /\ Kin(u, v, ph, w, k)
    BY <2>3, <2>5, <2>6, <2>7, LookedSafe
  <2>9. QED
    BY <2>6, <2>8 DEF Kin
<1>7. QED
  BY <1>5, <1>6

(* Lookups made again one by one: what each of them keeps, and where each  *)
(* of them leads.                                                          *)
LEMMA LookedAllAt ==
  ASSUME NEW Good, NEW H, NEW m \in Good, m \in H[0], NEW ls \in Seq(Lookup),
         \A x \in Good : \A n \in DOMAIN ls : Looked(x, ls[n]) \subseteq Good,
         \A n \in DOMAIN ls : \A x \in Good \cap H[n - 1] : Looked(x, ls[n]) \subseteq H[n]
  PROVE  LookedAll(m, ls) \subseteq Good \cap H[Len(ls)]
<1> DEFINE Step(X, n) == UNION {Looked(x, ls[n]) : x \in X}
           Def(g) == [n \in 0 .. Len(ls) |-> IF n = 0 THEN {m} ELSE Step(g[n - 1], n)]
           made == CHOOSE g : g = Def(g)
<1>1. Len(ls) \in Nat /\ DOMAIN ls = 1 .. Len(ls)
  OBVIOUS
<1>2. ASSUME NEW X \in SUBSET Good, NEW n \in 1 .. Len(ls)
      PROVE  Step(X, n) \in SUBSET Good /\ (X \subseteq H[n - 1] => Step(X, n) \subseteq H[n])
  BY <1>1, <1>2
<1>3. m \in Good
  OBVIOUS
<1>4. made = Def(made) /\ made[Len(ls)] \subseteq Good \cap H[Len(ls)]
  <2> DEFINE G == [p \in (1 .. Len(ls)) \X (SUBSET Good) |-> Step(p[2], p[1])]
  <2>1. G \in [(1 .. Len(ls)) \X (SUBSET Good) -> SUBSET Good] /\ {m} \in SUBSET Good
    <3> HIDE DEF Step
    <3> QED BY <1>2, <1>3
  <2>2. PICK f : Solves(f, Len(ls), {m}, G, SUBSET Good)
    <3> HIDE DEF G
    <3>1. PICK n \in Nat : n = Len(ls)
      BY <1>1
    <3>2. PICK A, a : A = SUBSET Good /\ a = {m}
      OBVIOUS
    <3> QED BY <2>1, <3>1, <3>2, Recursion
  <2>3. \A n \in 1 .. Len(ls) : f[n - 1] \in SUBSET Good /\ f[n] = Step(f[n - 1], n)
    <3>1. \A n \in 1 .. Len(ls) : f[n - 1] \in SUBSET Good /\ f[n] = G[<<n, f[n - 1]>>]
      <4> HIDE DEF G
      <4>1. \A n \in 1 .. Len(ls) : n - 1 \in 0 .. Len(ls)
        BY <1>1
      <4> QED BY <2>2, <4>1 DEF Solves
    <3>2. \A n \in 1 .. Len(ls), X \in SUBSET Good : G[<<n, X>>] = Step(X, n)
      <4> HIDE DEF Step
      <4> QED OBVIOUS
    <3> HIDE DEF G, Step
    <3>3. QED
      BY <3>1, <3>2
  <2>4. f = Def(f) /\ f[Len(ls)] \in SUBSET Good
    <3> HIDE DEF G, Step
    <3>1. f \in [0 .. Len(ls) -> SUBSET Good] /\ f[0] = {m}
      BY <2>2 DEF Solves
    <3>2. \A n \in 0 .. Len(ls) : f[n] = IF n = 0 THEN {m} ELSE Step(f[n - 1], n)
      BY <1>1, <2>3, <3>1
    <3>3. f[Len(ls)] \in SUBSET Good
      BY <1>1, <3>1
    <3>4. QED
      BY <3>1, <3>2, <3>3
  <2>5. made = Def(made)
    <3> HIDE DEF Def
    <3> QED BY <2>4
  <2>6. ASSUME NEW g, g = Def(g) PROVE g[Len(ls)] \subseteq Good \cap H[Len(ls)]
    <3> DEFINE S == {n \in Nat : n <= Len(ls) => g[n] \subseteq Good \cap H[n]}
    <3>1. g = [n \in 0 .. Len(ls) |-> IF n = 0 THEN {m} ELSE Step(g[n - 1], n)]
      BY <2>6
    <3> HIDE DEF Step, Def
    <3>2. \A n \in 0 .. Len(ls) : g[n] = IF n = 0 THEN {m} ELSE Step(g[n - 1], n)
      BY ONLY <3>1
    <3>3. 0 \in S
      BY <1>1, <1>3, <3>2
    <3>4. ASSUME NEW n \in Nat, n \in S PROVE n + 1 \in S
      <4>1. SUFFICES ASSUME n + 1 <= Len(ls) PROVE g[n + 1] \subseteq Good \cap H[n + 1]
        OBVIOUS
      <4>2. g[n] \in SUBSET Good /\ g[n] \subseteq H[n]
        BY <1>1, <3>4, <4>1
      <4>3. n + 1 \in 0 .. Len(ls) /\ n + 1 \in 1 .. Len(ls) /\ n + 1 # 0 /\ (n + 1) - 1 = n
        BY <1>1, <4>1
      <4>4. g[n + 1] = Step(g[n], n + 1)
        BY <3>2, <4>3
      <4>5. QED
        BY <1>2, <4>2, <4>3, <4>4
    <3>5. Nat \subseteq S
      <4> HIDE DEF S
      <4> QED BY <3>3, <3>4, NatSet
    <3>6. QED
      BY <1>1, <3>5
  <2> HIDE DEF Def, made
  <2>7. QED
    BY <2>5, <2>6
<1>5. LookedAll(m, ls) = made[Len(ls)]
  BY DEF LookedAll
<1>6. QED
  <2> HIDE DEF made
  <2> QED BY <1>4, <1>5

(* Every set of states that a lookup keeps. *)
LEMMA LookedAllIn ==
  ASSUME NEW Good, NEW m \in Good, NEW ls \in Seq(Lookup),
         \A x \in Good : \A n \in DOMAIN ls : Looked(x, ls[n]) \subseteq Good
  PROVE  LookedAll(m, ls) \subseteq Good
<1>1. PICK H : H = [n \in 0 .. Len(ls) |-> Good]
  OBVIOUS
<1>2. PICK l \in Nat : l = Len(ls) /\ DOMAIN ls = 1 .. l
  <2>1. Len(ls) \in Nat /\ DOMAIN ls = 1 .. Len(ls)
    OBVIOUS
  <2>2. QED
    BY <2>1
<1>3. /\ H[0] = Good /\ H[l] = Good /\ \A n \in 1 .. l : H[n - 1] = Good /\ H[n] = Good
  BY <1>1, <1>2
<1>4. LookedAll(m, ls) \subseteq Good \cap H[l]
  BY <1>2, <1>3, LookedAllAt
<1>5. QED
  BY <1>4

(* All lookups of a sequence are made again, one by one. *)
LEMMA LookedAllSafe ==
  ASSUME NEW m \in State, NEW ph, NEW w, NEW k, NEW ls \in Seq(Lookup),
         \A n \in DOMAIN ls : ph[ls[n]] # "none", NEW u \in LookedAll(m, ls), Safe(m, ph, w, k)
  PROVE  u \in State /\ Safe(u, ph, w, k) /\ Kin(u, m, ph, w, k)
<1>1. PICK Good : Good = {x \in State : Safe(x, ph, w, k) /\ Kin(x, m, ph, w, k)}
  OBVIOUS
<1>2. ASSUME NEW x \in Good, NEW n \in DOMAIN ls, NEW v \in Looked(x, ls[n]) PROVE v \in Good
  <2>1. x \in State /\ Safe(x, ph, w, k) /\ Kin(x, m, ph, w, k)
    BY <1>1
  <2>2. ls[n] \in Lookup /\ ph[ls[n]] # "none"
    OBVIOUS
  <2>3. v \in State /\ Safe(v, ph, w, k) /\ Kin(v, x, ph, w, k)
    BY <2>1, <2>2, LookedSafe
  <2>4. Kin(v, m, ph, w, k)
    BY <2>1, <2>3 DEF Kin
  <2>5. QED
    BY <1>1, <2>3, <2>4
<1>3. m \in Good
  BY <1>1 DEF Kin
<1>4. LookedAll(m, ls) \subseteq Good
  BY <1>2, <1>3, LookedAllIn
<1>5. QED
  BY <1>1, <1>4
-----------------------------------------------------------------------------
(* What the handlers change themselves, before the lookups they make again. *)

(* Fields that a change of the instances leaves alone. *)
Aside(u, m) ==
  u.remotes = m.remotes /\ u.pending = m.pending /\ u.deadlines = m.deadlines
  /\ u.asked = m.asked /\ u.mail = m.mail

(* The mail of one lookup is set. *)
LEMMA MailIs ==
  ASSUME NEW m \in State, NEW l \in Lookup, NEW t \in Seq(Notice), NEW u,
         u = [m EXCEPT !.mail[l] = t]
  PROVE  /\ u \in State /\ Kept(u, m) /\ u.busy = m.busy /\ u.caller = m.caller
         /\ u.pending = m.pending /\ u.deadlines = m.deadlines /\ u.mail[l] = t
         /\ \A q \in Lookup : q # l => u.mail[q] = m.mail[q]
<1>1. m.mail \in [Lookup -> Seq(Notice)]
  BY Fields
<1>2. PICK f \in [Lookup -> Seq(Notice)] : f = [m.mail EXCEPT ![l] = t]
  BY <1>1
<1>3. u = [m EXCEPT !.mail = f]
  BY <1>2
<1>4. u.mail = f /\ u \in State /\ Kept(u, m) /\ u.busy = m.busy /\ u.caller = m.caller
      /\ u.pending = m.pending /\ u.deadlines = m.deadlines
  BY <1>3 DEF State, Kept
<1>5. f[l] = t /\ \A q \in Lookup : q # l => f[q] = m.mail[q]
  BY <1>1, <1>2
<1>6. QED
  BY <1>4, <1>5

(* An instance is let go. *)
LEMMA FreedIs ==
  ASSUME NEW m \in State, NEW i \in Server, NEW u, u = Freed(m, i)
  PROVE  /\ u \in State /\ Aside(u, m) /\ u.known = m.known /\ u.serves = m.serves
         /\ u.busy[i] = Nobody /\ u.caller[i] = Nobody
         /\ \A j \in Server : j # i => u.busy[j] = m.busy[j] /\ u.caller[j] = m.caller[j]
<1>1. m.busy \in [Server -> Service \cup {Nobody}] /\ m.caller \in [Server -> Lookup \cup {Nobody}]
  BY Fields
<1>2. PICK b \in [Server -> Service \cup {Nobody}], q \in [Server -> Lookup \cup {Nobody}] :
        b = [m.busy EXCEPT ![i] = Nobody] /\ q = [m.caller EXCEPT ![i] = Nobody]
  BY <1>1
<1>3. u = [m EXCEPT !.busy = b, !.caller = q]
  BY <1>2, Zenon DEF Freed
<1>4. /\ u \in State /\ Aside(u, m) /\ u.known = m.known /\ u.serves = m.serves
      /\ u.busy = b /\ u.caller = q
  BY <1>3 DEF State, Aside
<1>5. /\ b[i] = Nobody /\ q[i] = Nobody
      /\ \A j \in Server : j # i => b[j] = m.busy[j] /\ q[j] = m.caller[j]
  BY <1>1, <1>2
<1>6. QED
  BY <1>4, <1>5

(* An instance is taken out. *)
LEMMA ForgottenIs ==
  ASSUME NEW m \in State, NEW i \in Server, NEW u, u = Forgotten(m, i)
  PROVE  /\ u \in State /\ Aside(u, m) /\ u.known = m.known \ {i} /\ Away(u, i)
         /\ \A j \in Server : j # i => /\ u.busy[j] = m.busy[j] /\ u.caller[j] = m.caller[j]
                                       /\ u.serves[j] = m.serves[j]
<1>1. PICK v : v = Freed(m, i)
  OBVIOUS
<1>2. /\ v \in State /\ Aside(v, m) /\ v.known = m.known /\ v.serves = m.serves
      /\ v.busy[i] = Nobody /\ v.caller[i] = Nobody
      /\ \A j \in Server : j # i => v.busy[j] = m.busy[j] /\ v.caller[j] = m.caller[j]
  BY <1>1, FreedIs
<1>3. v.serves \in [Server -> SUBSET Service] /\ v.known \in SUBSET Server
  BY <1>2, Fields
<1>4. PICK f \in [Server -> SUBSET Service], g \in SUBSET Server :
        f = [v.serves EXCEPT ![i] = {}] /\ g = v.known \ {i}
  BY <1>3
<1>5. u = [v EXCEPT !.known = g, !.serves = f]
  BY <1>1, <1>4, Zenon DEF Forgotten
<1>6. /\ u \in State /\ Aside(u, v) /\ u.known = g /\ u.serves = f
      /\ u.busy = v.busy /\ u.caller = v.caller
  BY <1>2, <1>5 DEF State, Aside
<1>7. f[i] = {} /\ \A j \in Server : j # i => f[j] = v.serves[j]
  BY <1>3, <1>4
<1>8. QED
  BY <1>2, <1>4, <1>6, <1>7 DEF Aside, Away

(* An instance advertises. *)
LEMMA KnownIs ==
  ASSUME NEW m \in State, NEW i \in Server, NEW add \in SUBSET Service, NEW remove, NEW u,
         u = [m EXCEPT !.known = @ \cup {i}, !.serves[i] = (@ \cup add) \ remove]
  PROVE  /\ u \in State /\ Aside(u, m) /\ u.known = m.known \cup {i}
         /\ u.busy = m.busy /\ u.caller = m.caller
         /\ u.serves[i] = (m.serves[i] \cup add) \ remove
         /\ \A j \in Server : j # i => u.serves[j] = m.serves[j]
<1>1. m.serves \in [Server -> SUBSET Service] /\ m.known \in SUBSET Server
  BY Fields
<1>2. (m.serves[i] \cup add) \ remove \in SUBSET Service
  BY <1>1
<1>3. PICK f \in [Server -> SUBSET Service], g \in SUBSET Server :
        f = [m.serves EXCEPT ![i] = (@ \cup add) \ remove] /\ g = m.known \cup {i}
  BY <1>1, <1>2
<1>4. u = [m EXCEPT !.known = g, !.serves = f]
  BY <1>3
<1>5. /\ u \in State /\ Aside(u, m) /\ u.known = g /\ u.serves = f
      /\ u.busy = m.busy /\ u.caller = m.caller
  BY <1>4 DEF State, Aside
<1>6. /\ f[i] = (m.serves[i] \cup add) \ remove
      /\ \A j \in Server : j # i => f[j] = m.serves[j]
  BY <1>1, <1>3
<1>7. QED
  BY <1>3, <1>5, <1>6
(* The caller of an instance is consumed. *)
LEMMA ConsumedIs ==
  ASSUME NEW m \in State, NEW i \in Server, NEW d, NEW u,
         u = [m EXCEPT !.deadlines = @ \ {d}, !.caller[i] = Nobody]
  PROVE  /\ u \in State /\ Kept(u, m) /\ u.busy = m.busy
         /\ u.pending = m.pending /\ u.mail = m.mail /\ u.caller[i] = Nobody
         /\ u.deadlines = m.deadlines \ {d}
         /\ \A j \in Server : j # i => u.caller[j] = m.caller[j]
<1>1. m.caller \in [Server -> Lookup \cup {Nobody}]
      /\ m.deadlines \in SUBSET [corr : Corr, service : Service, target : Server]
  BY Fields
<1>2. PICK q \in [Server -> Lookup \cup {Nobody}],
           e \in SUBSET [corr : Corr, service : Service, target : Server] :
        q = [m.caller EXCEPT ![i] = Nobody] /\ e = m.deadlines \ {d}
  BY <1>1
<1>3. u = [m EXCEPT !.deadlines = e, !.caller = q]
  BY <1>2
<1>4. /\ u \in State /\ Kept(u, m) /\ u.busy = m.busy
      /\ u.pending = m.pending /\ u.mail = m.mail /\ u.caller = q /\ u.deadlines = e
  BY <1>3 DEF State, Kept
<1>5. q[i] = Nobody /\ \A j \in Server : j # i => q[j] = m.caller[j]
  BY <1>1, <1>2
<1>6. QED
  BY <1>2, <1>4, <1>5

(* The gateway's connections change, and who waits for what is ready is out. *)
LEMMA RemotesIs ==
  ASSUME NEW m \in State, NEW f \in SUBSET (Service \X Remote), NEW p \in Seq(Lookup), NEW u,
         u = [[m EXCEPT !.remotes = f] EXCEPT !.pending = p]
  PROVE  /\ u \in State /\ u.known = m.known /\ u.serves = m.serves /\ u.busy = m.busy
         /\ u.caller = m.caller /\ u.pending = p /\ u.mail = m.mail /\ u.deadlines = m.deadlines
<1>1. PICK v : v = [m EXCEPT !.remotes = f]
  OBVIOUS
<1>2. /\ v \in State /\ v.known = m.known /\ v.serves = m.serves /\ v.busy = m.busy
      /\ v.caller = m.caller /\ v.mail = m.mail /\ v.deadlines = m.deadlines
  BY <1>1 DEF State
<1>3. u = [v EXCEPT !.pending = p]
  BY <1>1
<1>4. QED
  BY <1>2, <1>3 DEF State
-----------------------------------------------------------------------------
(* Types.                                                                  *)

(* Lookups that are made again. *)
LEMMA FirstLookedType ==
  ASSUME NEW m \in State, NEW these, NEW u \in FirstLooked(m, these)
  PROVE  u \in State
<1>1. PICK p \in Seq(Lookup), j \in Nat : p = m.pending /\ j = Len(p) /\ DOMAIN p = 1 .. j
  <2>1. PICK p \in Seq(Lookup) : p = m.pending
    BY Fields
  <2>2. Len(p) \in Nat /\ DOMAIN p = 1 .. Len(p)
    OBVIOUS
  <2>3. QED
    BY <2>1, <2>2
<1>2. PICK n : n = SelectInSeq(m.pending, LAMBDA l : l \in these)
  OBVIOUS
<1>3. n = 0 \/ n \in DOMAIN p
  <2>1. PICK I : I = {i \in 1 .. j : p[i] \in these}
    OBVIOUS
  <2>2. n = IF I # {} THEN Min(I) ELSE 0
    BY <1>1, <1>2, <2>1 DEF SelectInSeq
  <2>3. I \in SUBSET (1 .. j)
    BY <2>1
  <2>4. IF I = {} THEN n = 0 ELSE n \in I /\ n # 0 /\ \A i \in I : n <= i
    BY <1>1, <2>2, <2>3, FirstOf
  <2>5. QED
    BY <1>1, <2>3, <2>4
<1>4. CASE n = 0
  BY <1>2, <1>4 DEF FirstLooked
<1>5. CASE n # 0
  <2>1. PICK t : t = RemoveAt(p, n)
    OBVIOUS
  <2>2. t \in Seq(Lookup) /\ p[n] \in Lookup
    BY <1>1, <1>3, <1>5, <2>1, RemoveIn
  <2>3. PICK v : v = [m EXCEPT !.pending = t]
    OBVIOUS
  <2>4. v \in State
    BY <2>2, <2>3 DEF State
  <2>5. u \in Looked(v, p[n])
    BY <1>1, <1>2, <1>5, <2>1, <2>3 DEF FirstLooked
  <2>6. QED
    BY <2>2, <2>4, <2>5, LookedIs
<1>6. QED
  BY <1>4, <1>5

(* The same for all of a sequence. *)
LEMMA LookedAllType ==
  ASSUME NEW m \in State, NEW ls \in Seq(Lookup), NEW u \in LookedAll(m, ls)
  PROVE  u \in State
<1>1. ASSUME NEW x \in State, NEW n \in DOMAIN ls PROVE Looked(x, ls[n]) \subseteq State
  <2>1. ls[n] \in Lookup
    OBVIOUS
  <2>2. QED
    BY <2>1, LookedIs
<1>2. LookedAll(m, ls) \subseteq State
  BY <1>1, LookedAllIn
<1>3. QED
  BY <1>2

Answer == {"reply", "timeout", "died", "no_entry"}
Answers == [Call -> Seq(Answer)]

(* The answers of the callers. *)
LEMMA AnswersType ==
  ASSUME NEW ans \in Answers, NEW x \in Answer
  PROVE  /\ \A c \in Call : AnsweredBy(ans, c, x) \in Answers
         /\ \A l : ErrorTo(ans, l, x) \in Answers
         /\ ans = answers => \A c \in Call : ServerReply(c, x) \in Answers
<1>1. ASSUME NEW c \in Call PROVE AnsweredBy(ans, c, x) \in Answers
  <2>1. Append(ans[c], x) \in Seq(Answer)
    BY DEF Answers
  <2>2. QED
    BY <2>1 DEF AnsweredBy, Answers
<1>2. ASSUME NEW l PROVE ErrorTo(ans, l, x) \in Answers
  <2>1. CASE l \in Lookup
    <3>1. l[1] \in Call
      BY <2>1 DEF Lookup
    <3>2. QED
      BY <1>1, <3>1 DEF ErrorTo
  <2>2. CASE l \notin Lookup
    BY <2>2 DEF ErrorTo
  <2>3. QED
    BY <2>1, <2>2
<1>3. ASSUME ans = answers, NEW c \in Call PROVE ServerReply(c, x) \in Answers
  BY <1>1, <1>3 DEF ServerReply
<1>4. QED
  BY <1>1, <1>2, <1>3

Pend == [from : Server, state : {"pending", "received", "failed"},
         caller : Lookup \cup {Nobody}, corr : Corr \cup {Nobody}]

(* A fan-out takes an answer. *)
LEMMA CoordinatedType ==
  ASSUME TypeOK, NEW e \in drains, NEW new \in Entry, NEW ans \in Answers,
         Coordinated(e, new, ans)
  PROVE  /\ drains' \subseteq Entry /\ prepared' \subseteq Server /\ answers' \in Answers
<1>1. drains \subseteq Entry /\ prepared \subseteq Server /\ new.acked \subseteq Server
  BY DEF TypeOK, Entry
<1>2. CASE Open(new)
  BY <1>1, <1>2 DEF Coordinated
<1>3. CASE ~ Open(new)
  <2>1. PICK lost : answers' = [c \in Call |-> IF Own(c) \in lost THEN AnsweredBy(ans, c, "died")[c]
                                               ELSE ans[c]]
    BY <1>3 DEF Coordinated
  <2>2. ASSUME NEW c \in Call PROVE AnsweredBy(ans, c, "died")[c] \in Seq(Answer) /\ ans[c] \in Seq(Answer)
    <3>1. AnsweredBy(ans, c, "died") \in Answers
      BY AnswersType DEF Answer
    <3>2. QED
      BY <3>1 DEF Answers
  <2>3. answers' \in Answers
    BY <2>1, <2>2 DEF Answers
  <2>4. QED
    BY <1>1, <1>3, <2>3 DEF Coordinated
<1>4. QED
  BY <1>2, <1>3

(* What the fan-out of an ACK leaves. *)
LEMMA DrainAckType ==
  ASSUME TypeOK, NEW a \in acks, DrainAck(a)
  PROVE  /\ drains' \subseteq Entry /\ prepared' \subseteq Server /\ answers' \in Answers
<1>1. answers \in Answers /\ drains \subseteq Entry /\ prepared \subseteq Server /\ a.from \in Server
  BY DEF TypeOK, Answers, Answer
<1>2. CASE UNCHANGED <<drains, prepared, answers>>
  BY <1>1, <1>2
<1>3. CASE \E e \in drains : \E p \in e.pends :
             Coordinated(e, [pends |-> (e.pends \ {p}) \cup {[p EXCEPT !.state = "received"]},
                             acked |-> e.acked \cup {a.from}], answers)
  <2>1. PICK e \in drains : \E p \in e.pends :
             Coordinated(e, [pends |-> (e.pends \ {p}) \cup {[p EXCEPT !.state = "received"]},
                             acked |-> e.acked \cup {a.from}], answers)
    BY <1>3
  <2>2. PICK p \in e.pends :
             Coordinated(e, [pends |-> (e.pends \ {p}) \cup {[p EXCEPT !.state = "received"]},
                             acked |-> e.acked \cup {a.from}], answers)
    BY <2>1
  <2>3. e.pends \subseteq Pend /\ e.acked \subseteq Server
    BY <1>1 DEF Entry, Pend
  <2>4. PICK x \in Pend : x = [p EXCEPT !.state = "received"]
    BY <2>3 DEF Pend
  <2>5. PICK new : new = [pends |-> (e.pends \ {p}) \cup {x}, acked |-> e.acked \cup {a.from}]
    OBVIOUS
  <2>6. new \in Entry
    BY <1>1, <2>3, <2>5 DEF Entry, Pend
  <2>7. Coordinated(e, new, answers)
    BY <2>2, <2>4, <2>5
  <2>8. QED
    BY <1>1, <2>6, <2>7, CoordinatedType
<1>4. QED
  BY <1>2, <1>3 DEF DrainAck

(* What the fan-out of an exit leaves. *)
LEMMA DrainFailedType ==
  ASSUME TypeOK, NEW i \in Server, NEW ans \in Answers, DrainFailed(i, ans)
  PROVE  /\ drains' \subseteq Entry /\ prepared' \subseteq Server /\ answers' \in Answers
<1>1. drains \subseteq Entry /\ prepared \subseteq Server
  BY DEF TypeOK
<1>2. CASE answers' = ans /\ UNCHANGED <<drains, prepared>>
  BY <1>1, <1>2
<1>3. CASE \E e \in drains : \E p \in e.pends :
             Coordinated(e, [e EXCEPT !.pends = (e.pends \ {p}) \cup {[p EXCEPT !.state = "failed"]}], ans)
  <2>1. PICK e \in drains : \E p \in e.pends :
             Coordinated(e, [e EXCEPT !.pends = (e.pends \ {p}) \cup {[p EXCEPT !.state = "failed"]}], ans)
    BY <1>3
  <2>2. PICK p \in e.pends :
             Coordinated(e, [e EXCEPT !.pends = (e.pends \ {p}) \cup {[p EXCEPT !.state = "failed"]}], ans)
    BY <2>1
  <2>3. e \in Entry /\ e.pends \subseteq Pend /\ e.acked \subseteq Server
    BY <1>1 DEF Entry, Pend
  <2>4. PICK x \in Pend : x = [p EXCEPT !.state = "failed"]
    BY <2>3 DEF Pend
  <2>5. PICK s : s = (e.pends \ {p}) \cup {x}
    OBVIOUS
  <2>6. s \subseteq Pend
    BY <2>3, <2>5
  <2>7. PICK new : new = [e EXCEPT !.pends = s]
    OBVIOUS
  <2>8. new \in Entry
    BY <2>3, <2>6, <2>7 DEF Entry, Pend
  <2>9. Coordinated(e, new, ans)
    BY <2>2, <2>4, <2>5, <2>7
  <2>10. QED
    BY <2>8, <2>9, CoordinatedType
<1>4. QED
  BY <1>2, <1>3 DEF DrainFailed

(* A pending lookup is taken out. *)
LEMMA TakenIs ==
  ASSUME NEW m \in State, NEW n \in DOMAIN m.pending, NEW t, t = RemoveAt(m.pending, n)
  PROVE  /\ m.pending[n] \in Lookup /\ t \in Seq(Lookup)
         /\ ToSet(m.pending) = ToSet(t) \cup {m.pending[n]}
<1>1. PICK p \in Seq(Lookup) : p = m.pending
  BY Fields
<1>2. n \in DOMAIN p /\ t = RemoveAt(p, n)
  BY <1>1
<1>3. t \in Seq(Lookup) /\ ToSet(p) = ToSet(t) \cup {p[n]} /\ p[n] \in Lookup
  BY ONLY p \in Seq(Lookup), <1>2, RemoveIn
<1>4. QED
  BY <1>1, <1>3

(* The positions of the pending lookups, and the first of some of them. *)
LEMMA FirstPending ==
  ASSUME NEW m \in State, NEW I \in SUBSET (1 .. Len(m.pending)), NEW n,
         n = IF I # {} THEN Min(I) ELSE 0
  PROVE  n = 0 \/ (n # 0 /\ n \in DOMAIN m.pending /\ n \in I)
<1>1. PICK p \in Seq(Lookup), j \in Nat : p = m.pending /\ j = Len(p) /\ DOMAIN p = 1 .. j
  <2>1. PICK p \in Seq(Lookup) : p = m.pending
    BY Fields
  <2>2. Len(p) \in Nat /\ DOMAIN p = 1 .. Len(p)
    OBVIOUS
  <2>3. QED
    BY <2>1, <2>2
<1>2. I \in SUBSET (1 .. j)
  BY <1>1
<1>3. IF I = {} THEN n = 0 ELSE n \in I /\ n # 0 /\ \A i \in I : n <= i
  BY <1>1, <1>2, FirstOf
<1>4. QED
  BY <1>1, <1>2, <1>3

(* An instance that is let go by its correlation. *)
LEMMA DiscardedIs ==
  ASSUME NEW m \in State, NEW l \in Lookup, NEW u \in Discarded(m, l)
  PROVE  \/ u = m
         \/ \E p \in Seq(Lookup) : /\ u = [m EXCEPT !.pending = p]
                                   /\ ToSet(p) \subseteq ToSet(m.pending)
                                   /\ \E n \in DOMAIN m.pending : p = RemoveAt(m.pending, n)
         \/ \E i \in Server : /\ u = [Freed(m, i) EXCEPT !.mail[l] = <<>>]
                              /\ m.caller[i] # Nobody /\ CorrOf(m.caller[i]) = CorrOf(l)
<1>1. PICK n : n = SelectInSeq(m.pending, LAMBDA q : CorrOf(q) = CorrOf(l))
  OBVIOUS
<1>2. PICK holds : holds = {i \in Server : /\ ~ Free(m, i) /\ m.caller[i] # Nobody
                                           /\ CorrOf(m.caller[i]) = CorrOf(l)}
  OBVIOUS
<1>3. u \in IF n # 0 THEN {[m EXCEPT !.pending = RemoveAt(@, n)]}
            ELSE IF holds = {} THEN {m}
            ELSE {[Freed(m, i) EXCEPT !.mail[l] = <<>>] : i \in holds}
  BY <1>1, <1>2 DEF Discarded
<1>4. CASE n # 0
  <2>1. n \in DOMAIN m.pending
    <3>1. PICK I : I = {i \in 1 .. Len(m.pending) : CorrOf(m.pending[i]) = CorrOf(l)}
      OBVIOUS
    <3>2. n = IF I # {} THEN Min(I) ELSE 0
      BY <1>1, <3>1 DEF SelectInSeq
    <3>3. I \in SUBSET (1 .. Len(m.pending))
      BY <3>1
    <3>4. QED
      BY <1>4, <3>2, <3>3, FirstPending
  <2>2. PICK t : t = RemoveAt(m.pending, n)
    OBVIOUS
  <2>3. t \in Seq(Lookup) /\ ToSet(m.pending) = ToSet(t) \cup {m.pending[n]}
    BY <2>1, <2>2, TakenIs
  <2>4. u = [m EXCEPT !.pending = t]
    BY <1>3, <1>4, <2>2
  <2>5. QED
    BY <2>1, <2>2, <2>3, <2>4
<1>5. CASE n = 0
  BY <1>2, <1>3, <1>5
<1>6. QED
  BY <1>4, <1>5

Stages == {"none", "looking", "waiting", "ended", "stray", "dead"}

(* What every step leaves in its range. *)
LEMMA TypeParts ==
  ASSUME TypeOK
  PROVE  /\ sm \in State /\ phase \in [Lookup -> Stages] /\ at \in SUBSET (Call \X Place)
         /\ answers \in Answers /\ srv \in [Server -> {"down", "up", "dead", "gone"}]
         /\ acks \in SUBSET [corr : Corr, from : Server]
         /\ offered \in [Server -> SUBSET Service]
  BY DEF TypeOK, Stages, Answers, Answer

(* The types, part by part. *)
LEMMA TypeWhole ==
  ASSUME TypeOK, UNCHANGED manager \/ manager' = "failed", sm' \in State,
         drains' \subseteq Entry, prepared' \subseteq Server, leaving' \subseteq Server,
         phase' \in [Lookup -> Stages], at' \in SUBSET (Call \X Place),
         acks' \in SUBSET [corr : Corr, from : Server],
         srv' \in [Server -> {"down", "up", "dead", "gone"}],
         offered' \in [Server -> SUBSET Service], answers' \in Answers
  PROVE  TypeOK'
  BY DEF TypeOK, Stages, Answers, Answer

(* What a lookup reads: the first notice of its mail. *)
LEMMA ReadType ==
  ASSUME TypeOK, NEW l \in Lookup, sm.mail[l] # <<>>
  PROVE  /\ Head(sm.mail[l]) \in Notice /\ Tail(sm.mail[l]) \in Seq(Notice)
         /\ [sm EXCEPT !.mail[l] = Tail(@)] \in State
<1>1. PICK s \in Seq(Notice) : s = sm.mail[l] /\ s # <<>>
  BY TypeParts, Fields
<1>2. Head(s) \in Notice /\ Tail(s) \in Seq(Notice)
  BY <1>1
<1>3. PICK t \in Seq(Notice) : t = Tail(s)
  BY <1>2
<1>4. [sm EXCEPT !.mail[l] = t] \in State
  BY MailIs, TypeParts
<1>5. [sm EXCEPT !.mail[l] = Tail(@)] = [sm EXCEPT !.mail[l] = t]
  BY <1>1, <1>3
<1>6. QED
  BY <1>1, <1>2, <1>4, <1>5

(* The steps of the callers keep the types. *)
LEMMA CallerType ==
  ASSUME TypeOK, NEW c \in Call,
         LookupRequest(c) \/ Receive(c) \/ Discard(c) \/ CallerDies(c)
  PROVE  TypeOK'
<1>1. Own(c) \in Lookup
  BY CallLookups
<1>2. CASE LookupRequest(c)
  <2>1. sm' \in State
    BY <1>1, <1>2, LookedIs, TypeParts DEF LookupRequest
  <2>2. phase' \in [Lookup -> Stages]
    BY <1>1, <1>2, TypeParts DEF LookupRequest, Stages
  <2>3. QED
    BY <1>2, <2>1, <2>2, TypeWhole, TypeParts
    DEF LookupRequest, drainVars, processVars, TypeOK
<1>3. CASE Receive(c)
  <2>1. sm' \in State /\ Head(sm.mail[Own(c)]) \in Notice
    BY <1>1, <1>3, ReadType DEF Receive
  <2>2. phase' \in [Lookup -> Stages]
    BY <1>1, <1>3, TypeParts DEF Receive, Stages
  <2>3. at' \in SUBSET (Call \X Place)
    BY <1>3, TypeParts DEF Receive
  <2>4. answers' \in Answers
    <3>1. AnsweredBy(answers, c, "no_entry") \in Answers
      BY TypeParts, AnswersType DEF Answer
    <3>2. QED
      BY <1>3, <3>1, TypeParts DEF Receive
  <2>5. UNCHANGED <<manager, drainVars, acks, processVars>>
    BY <1>3 DEF Receive
  <2>6. drains' \subseteq Entry /\ prepared' \subseteq Server /\ leaving' \subseteq Server
    BY <2>5 DEF drainVars, TypeOK
  <2>7. /\ acks' \in SUBSET [corr : Corr, from : Server]
        /\ srv' \in [Server -> {"down", "up", "dead", "gone"}]
        /\ offered' \in [Server -> SUBSET Service] /\ manager' = manager
    BY <2>5, TypeParts DEF processVars
  <2>8. QED
    BY ONLY TypeOK, <2>1, <2>2, <2>3, <2>4, <2>6, <2>7, TypeWhole
<1>4. CASE Discard(c)
  <2>1. sm' \in Discarded(sm, Own(c)) /\ sm \in State
    BY <1>4, TypeParts DEF Discard
  <2>2. sm' = sm => sm' \in State
    BY <2>1
  <2>3. ASSUME NEW p \in Seq(Lookup), sm' = [sm EXCEPT !.pending = p]
        PROVE  sm' \in State
    BY <2>1, <2>3 DEF State
  <2>4. ASSUME NEW i \in Server, sm' = [Freed(sm, i) EXCEPT !.mail[Own(c)] = <<>>]
        PROVE  sm' \in State
    <3>1. Freed(sm, i) \in State
      BY <2>1, FreedIs
    <3>2. <<>> \in Seq(Notice)
      OBVIOUS
    <3>3. QED
      BY <1>1, <2>4, <3>1, <3>2, MailIs
  <2>5. sm' \in State
    BY <1>1, <2>1, <2>2, <2>3, <2>4, DiscardedIs
  <2>6. phase' \in [Lookup -> Stages]
    BY <1>1, <1>4, TypeParts DEF Discard, Stages
  <2>7. QED
    BY <1>4, <2>5, <2>6, TypeWhole, TypeParts DEF Discard, drainVars, processVars, TypeOK
<1>5. CASE CallerDies(c)
  <2>1. sm' \in State
    <3>1. <<>> \in Seq(Notice)
      OBVIOUS
    <3>2. QED
      BY <1>1, <1>5, <3>1, MailIs, TypeParts DEF CallerDies
  <2>2. phase' \in [Lookup -> Stages]
    BY <1>1, <1>5, TypeParts DEF CallerDies, Stages
  <2>3. QED
    BY <1>5, <2>1, <2>2, TypeWhole, TypeParts
    DEF CallerDies, drainVars, processVars, TypeOK
<1>6. QED
  BY <1>2, <1>3, <1>4, <1>5

(* What an advertise leads to. *)
LEMMA AdvertisedType ==
  ASSUME TypeOK, NEW i \in Server, NEW add \in SUBSET Service, NEW remove,
         sm' \in Advertised(i, add, remove)
  PROVE  sm' \in State
<1>1. PICK m : m = [sm EXCEPT !.known = @ \cup {i}, !.serves[i] = (@ \cup add) \ remove]
  OBVIOUS
<1>2. m \in State
  BY <1>1, KnownIs, TypeParts
<1>3. sm' \in FirstLooked(m, {l \in Lookup : HasName(m, i, ServiceOf(l))})
  BY <1>1 DEF Advertised
<1>4. QED
  BY <1>2, <1>3, FirstLookedType

(* The steps of the servers, as instances, keep the types. *)
LEMMA InstanceType ==
  ASSUME TypeOK, NEW i \in Server,
         \/ Start(i) \/ Die(i) \/ Exit(i)
         \/ \E s \in Service : TpAdvertise(i, s) \/ TpUnadvertise(i, s)
  PROVE  TypeOK'
<1>1. CASE Start(i)
  <2>1. Offers[i] \in SUBSET Service /\ {} \in SUBSET Service
    BY ServiceAssumption
  <2>2. sm' \in State
    BY <1>1, <2>1, AdvertisedType DEF Start
  <2>3. /\ srv' \in [Server -> {"down", "up", "dead", "gone"}]
        /\ offered' \in [Server -> SUBSET Service]
    BY <1>1, <2>1, TypeParts DEF Start
  <2>4. UNCHANGED <<manager, drainVars, phase, at, acks, answers>>
    BY <1>1 DEF Start
  <2>5. QED
    BY <2>2, <2>3, <2>4, TypeWhole, TypeParts DEF drainVars, TypeOK
<1>2. CASE Die(i)
  <2>1. /\ srv' \in [Server -> {"down", "up", "dead", "gone"}]
        /\ at' \in SUBSET (Call \X Place)
    BY <1>2, TypeParts DEF Die
  <2>2. phase' \in [Lookup -> Stages]
    BY <1>2, TypeParts DEF Die, Stages
  <2>3. UNCHANGED <<manager, sm, drainVars, acks, offered, answers>>
    BY <1>2 DEF Die
  <2>4. QED
    BY <2>1, <2>2, <2>3, TypeWhole, TypeParts DEF drainVars, TypeOK
<1>3. CASE Exit(i)
  <2>1. PICK ans : ans = IF Free(sm, i) THEN answers ELSE ErrorTo(answers, sm.caller[i], "died")
    OBVIOUS
  <2>2. ans \in Answers
    BY <2>1, TypeParts, AnswersType DEF Answer
  <2>3. drains' \subseteq Entry /\ prepared' \subseteq Server /\ answers' \in Answers
    BY <1>3, <2>1, <2>2, DrainFailedType DEF Exit
  <2>4. sm' \in State
    BY <1>3, ForgottenIs, TypeParts DEF Exit
  <2>5. srv' \in [Server -> {"down", "up", "dead", "gone"}]
    BY <1>3, TypeParts DEF Exit
  <2>6. UNCHANGED <<manager, leaving, phase, at, acks, offered>>
    BY <1>3 DEF Exit
  <2>7. QED
    BY <2>3, <2>4, <2>5, <2>6, TypeWhole, TypeParts DEF TypeOK
<1>4. ASSUME NEW s \in Service, TpAdvertise(i, s) PROVE TypeOK'
  <2>1. sm' \in State
    BY <1>4, AdvertisedType DEF TpAdvertise
  <2>2. offered' \in [Server -> SUBSET Service]
    BY <1>4, TypeParts DEF TpAdvertise
  <2>3. UNCHANGED <<manager, drainVars, phase, at, acks, srv, answers>>
    BY <1>4 DEF TpAdvertise
  <2>4. QED
    BY <2>1, <2>2, <2>3, TypeWhole, TypeParts DEF drainVars, TypeOK
<1>5. ASSUME NEW s \in Service, TpUnadvertise(i, s) PROVE TypeOK'
  <2>1. {} \in SUBSET Service
    OBVIOUS
  <2>2. sm' \in State
    BY <1>5, <2>1, AdvertisedType DEF TpUnadvertise
  <2>3. offered' \in [Server -> SUBSET Service]
    BY <1>5, TypeParts DEF TpUnadvertise
  <2>4. UNCHANGED <<manager, drainVars, phase, at, acks, srv, answers>>
    BY <1>5 DEF TpUnadvertise
  <2>5. QED
    BY <2>2, <2>3, <2>4, TypeWhole, TypeParts DEF drainVars, TypeOK
<1>6. QED
  BY <1>1, <1>2, <1>3, <1>4, <1>5

(* The steps of the servers in a call keep the types. *)
LEMMA ServerType ==
  ASSUME TypeOK, NEW i \in Server, NEW c \in Call,
         Serve(c, i) \/ Forward(c, i) \/ Forwarded(c, i)
  PROVE  TypeOK'
<1>1. Hop(c) \in Lookup /\ AckOf(c, i) \in [corr : Corr, from : Server]
  BY CallLookups DEF AckOf, Corr
<1>2. ServerReply(c, "reply") \in Answers
  BY TypeParts, AnswersType DEF Answer
<1>3. CASE Serve(c, i)
  <2>1. /\ at' \in SUBSET (Call \X Place)
        /\ acks' \in SUBSET [corr : Corr, from : Server] /\ answers' \in Answers
    BY <1>1, <1>2, <1>3, TypeParts DEF Serve
  <2>2. UNCHANGED <<manager, sm, drainVars, phase, processVars>>
    BY <1>3 DEF Serve
  <2>3. QED
    BY <2>1, <2>2, TypeWhole, TypeParts DEF drainVars, processVars, TypeOK
<1>4. CASE Forward(c, i)
  <2>1. sm' \in State
    BY <1>1, <1>4, LookedIs, TypeParts DEF Forward
  <2>2. phase' \in [Lookup -> Stages]
    BY <1>1, <1>4, TypeParts DEF Forward, Stages
  <2>3. UNCHANGED <<manager, drainVars, at, acks, processVars, answers>>
    BY <1>4 DEF Forward
  <2>4. QED
    BY <2>1, <2>2, <2>3, TypeWhole, TypeParts DEF drainVars, processVars, TypeOK
<1>5. CASE Forwarded(c, i)
  <2>1. sm' \in State /\ Head(sm.mail[Hop(c)]) \in Notice
    BY <1>1, <1>5, ReadType DEF Forwarded
  <2>2. phase' \in [Lookup -> Stages]
    BY <1>1, <1>5, TypeParts DEF Forwarded, Stages
  <2>3. /\ at' \in SUBSET (Call \X Place)
        /\ acks' \in SUBSET [corr : Corr, from : Server]
    BY <1>1, <1>5, TypeParts DEF Forwarded
  <2>4. answers' \in Answers
    BY <1>2, <1>5, TypeParts DEF Forwarded
  <2>5. UNCHANGED <<manager, drainVars, processVars>>
    BY <1>5 DEF Forwarded
  <2>6. QED
    BY <2>1, <2>2, <2>3, <2>4, <2>5, TypeWhole, TypeParts DEF drainVars, processVars, TypeOK
<1>6. QED
  BY <1>3, <1>4, <1>5

(* The gateway, the domain and the cache keep the types. *)
LEMMA RemoteType ==
  ASSUME TypeOK, NEW r \in Remote,
         \/ \E s \in Service : RemoteAdvertise(r, s)
         \/ \E c \in Call : RemoteServe(c, r)
  PROVE  TypeOK'
<1>1. ASSUME NEW s \in Service, RemoteAdvertise(r, s) PROVE TypeOK'
  <2>1. ASSUME NEW add \in SUBSET Service, NEW remove \in SUBSET Service, NEW reset,
               sm' \in RemoteAdvertised(r, add, remove, reset)
        PROVE  sm' \in State
    <3>1. PICK f \in SUBSET (Service \X Remote) :
            f = ((IF reset THEN {e \in sm.remotes : e[2] # r} ELSE sm.remotes)
                 \cup (add \X {r})) \ (remove \X {r})
      BY Fields, TypeParts
    <3>2. PICK v : v = [sm EXCEPT !.remotes = f]
      OBVIOUS
    <3>3. PICK ready : ready = {l \in Lookup : ~ Empty(v, ServiceOf(l))}
      OBVIOUS
    <3>4. PICK p, q : p = Without(v.pending, ready) /\ q = Without(v.pending, Lookup \ ready)
      OBVIOUS
    <3>5. v.pending \in Seq(Lookup)
      BY <3>2, Fields, TypeParts DEF State
    <3>6. p \in Seq(Lookup) /\ q \in Seq(Lookup)
      BY <3>4, <3>5, WithoutIs
    <3>7. PICK u : u = [v EXCEPT !.pending = p]
      OBVIOUS
    <3>8. u \in State
      BY <3>2, <3>6, <3>7, RemotesIs, TypeParts
    <3>9. sm' \in LookedAll(u, q)
      BY <2>1, <3>1, <3>2, <3>3, <3>4, <3>7 DEF RemoteAdvertised
    <3>10. QED
      BY <3>6, <3>8, <3>9, LookedAllType
  <2>2. {s} \in SUBSET Service /\ {} \in SUBSET Service
    OBVIOUS
  <2>3. sm' \in State
    BY <1>1, <2>1, <2>2 DEF RemoteAdvertise
  <2>4. UNCHANGED <<manager, drainVars, phase, at, acks, processVars, answers>>
    BY <1>1 DEF RemoteAdvertise
  <2>5. QED
    BY <2>3, <2>4, TypeWhole, TypeParts DEF drainVars, processVars, TypeOK
<1>2. ASSUME NEW c \in Call, RemoteServe(c, r) PROVE TypeOK'
  <2>1. ServerReply(c, "reply") \in Answers
    BY TypeParts, AnswersType DEF Answer
  <2>2. at' \in SUBSET (Call \X Place) /\ answers' \in Answers
    BY <1>2, <2>1, TypeParts DEF RemoteServe
  <2>3. UNCHANGED <<manager, sm, drainVars, phase, acks, processVars>>
    BY <1>2 DEF RemoteServe
  <2>4. QED
    BY <2>2, <2>3, TypeWhole, TypeParts DEF drainVars, processVars, TypeOK
<1>3. QED
  BY <1>1, <1>2

(* The forward cache keeps the types. *)
LEMMA CacheType ==
  ASSUME TypeOK, NEW c \in Call, CacheRequest(c) \/ CacheReply(c)
  PROVE  TypeOK'
<1>1. Cache(c) \in Lookup
  BY CallLookups
<1>2. CASE CacheRequest(c)
  <2>1. sm' \in State
    BY <1>1, <1>2, LookedIs, TypeParts DEF CacheRequest
  <2>2. phase' \in [Lookup -> Stages] /\ at' \in SUBSET (Call \X Place)
    BY <1>1, <1>2, TypeParts DEF CacheRequest, Stages
  <2>3. UNCHANGED <<manager, drainVars, acks, processVars, answers>>
    BY <1>2 DEF CacheRequest
  <2>4. QED
    BY <2>1, <2>2, <2>3, TypeWhole, TypeParts DEF drainVars, processVars, TypeOK
<1>3. CASE CacheReply(c)
  <2>1. sm' \in State /\ Head(sm.mail[Cache(c)]) \in Notice
    BY <1>1, <1>3, ReadType DEF CacheReply
  <2>2. phase' \in [Lookup -> Stages]
    BY <1>1, <1>3, TypeParts DEF CacheReply, Stages
  <2>3. at' \in SUBSET (Call \X Place)
    BY <1>3, TypeParts DEF CacheReply
  <2>4. ServerReply(c, "no_entry") \in Answers
    BY TypeParts, AnswersType DEF Answer
  <2>5. answers' \in Answers
    BY <1>3, <2>4, TypeParts DEF CacheReply
  <2>6. UNCHANGED <<manager, drainVars, acks, processVars>>
    BY <1>3 DEF CacheReply
  <2>7. QED
    BY <2>1, <2>2, <2>3, <2>5, <2>6, TypeWhole, TypeParts DEF drainVars, processVars, TypeOK
<1>4. QED
  BY <1>2, <1>3

(* What an ACK leads to: the instance is let go, or the ACK of one that is *)
(* not known goes to the fan-outs.                                         *)
LEMMA AckIs ==
  ASSUME TypeOK, NEW a \in acks, Ack(a)
  PROVE  \E u \in State :
           /\ Kept(u, sm) /\ u.busy = sm.busy /\ u.caller = sm.caller
           /\ u.pending = sm.pending /\ u.mail = sm.mail /\ u.deadlines \subseteq sm.deadlines
           /\ \A d \in sm.deadlines : d.corr # a.corr => d \in u.deadlines
           /\ \/ /\ a.from \in sm.known
                 /\ \E fits : sm' \in FirstLooked(Freed(u, a.from), fits)
                 /\ UNCHANGED <<manager, drainVars, answers>>
              \/ /\ a.from \in sm.known /\ Free(sm, a.from) /\ sm' = u
                 /\ manager' = "failed" /\ UNCHANGED <<drainVars, answers>>
              \/ /\ a.from \notin sm.known /\ sm' = u /\ DrainAck(a)
                 /\ UNCHANGED <<manager, leaving>>
<1>1. PICK due, rest : /\ due = {d \in sm.deadlines : d.corr = a.corr}
                       /\ rest = IF due = {} THEN {sm.deadlines}
                                 ELSE {sm.deadlines \ {d} : d \in due}
  OBVIOUS
<1>2. PICK fits : fits = {l \in Lookup :
         \/ HasName(sm, a.from, ServiceOf(l))
         \/ Routed(ServiceOf(l)) /\ HasName(sm, a.from, NameOf[ServiceOf(l)])}
  OBVIOUS
<1>3. PICK ds \in rest :
        LET m == [sm EXCEPT !.deadlines = ds]
        IN \/ /\ a.from \in sm.known /\ ~ Free(sm, a.from)
              /\ sm' \in FirstLooked(Freed(m, a.from), fits)
              /\ UNCHANGED <<manager, drainVars, answers>>
           \/ /\ a.from \in sm.known /\ Free(sm, a.from)
              /\ manager' = "failed" /\ sm' = m
              /\ UNCHANGED <<drainVars, answers>>
           \/ /\ a.from \notin sm.known
              /\ sm' = m /\ DrainAck(a)
              /\ UNCHANGED <<manager, leaving>>
  BY <1>1, <1>2 DEF Ack
<1>4. PICK u : u = [sm EXCEPT !.deadlines = ds]
  OBVIOUS
<1>5. /\ ds \in SUBSET [corr : Corr, service : Service, target : Server] /\ ds \subseteq sm.deadlines
      /\ \A d \in sm.deadlines : d.corr # a.corr => d \in ds
  <2>1. sm.deadlines \in SUBSET [corr : Corr, service : Service, target : Server]
    BY Fields, TypeParts
  <2>2. QED
    BY <1>1, <2>1
<1>6. /\ u \in State /\ Kept(u, sm) /\ u.busy = sm.busy /\ u.caller = sm.caller
      /\ u.pending = sm.pending /\ u.mail = sm.mail /\ u.deadlines = ds
  BY <1>4, <1>5, TypeParts, ZenonT(60) DEF State, Kept
<1>7. QED
  BY <1>3, <1>4, <1>5, <1>6

(* A lookup is put in front. *)
LEMMA FrontIn ==
  ASSUME NEW E, NEW s \in Seq(E), NEW e \in E
  PROVE  <<e>> \o s \in Seq(E) /\ ToSet(<<e>> \o s) = ToSet(s) \cup {e}
<1> DEFINE t == <<e>> \o s
<1>1. PICK n \in Nat : n = Len(s) /\ DOMAIN s = 1 .. n /\ \A j \in 1 .. n : s[j] \in E
  <2>1. Len(s) \in Nat /\ DOMAIN s = 1 .. Len(s) /\ \A j \in 1 .. Len(s) : s[j] \in E
    OBVIOUS
  <2>2. QED
    BY <2>1
<1>2. t \in Seq(E) /\ Len(t) = n + 1
  BY <1>1
<1>3. DOMAIN t = 1 .. n + 1
  BY <1>1, <1>2
<1>4. t[1] = e /\ \A j \in 1 .. n : t[j + 1] = s[j]
  BY <1>1
<1>5. /\ \A j \in 1 .. n : j + 1 \in 1 .. n + 1
      /\ \A j \in 1 .. n + 1 : j = 1 \/ (j - 1 \in 1 .. n /\ (j - 1) + 1 = j)
      /\ 1 \in 1 .. n + 1
  BY <1>1
<1>6. ASSUME NEW x PROVE x \in ToSet(t) <=> x \in ToSet(s) \cup {e}
  <2>1. ASSUME NEW j \in DOMAIN t, x = t[j] PROVE x \in ToSet(s) \cup {e}
    BY <1>1, <1>3, <1>4, <1>5, <2>1 DEF ToSet
  <2>2. ASSUME NEW j \in DOMAIN s, x = s[j] PROVE x \in ToSet(t)
    BY <1>1, <1>3, <1>4, <1>5, <2>2 DEF ToSet
  <2>3. e \in ToSet(t)
    BY <1>3, <1>4, <1>5 DEF ToSet
  <2>4. QED
    BY <2>1, <2>2, <2>3 DEF ToSet
<1>7. ToSet(t) = ToSet(s) \cup {e}
  BY <1>6
<1>8. QED
  BY <1>2, <1>7

(* The state but for the discovery. *)
Alike(u, m) ==
  /\ Kept(u, m) /\ u.busy = m.busy /\ u.caller = m.caller
  /\ u.pending = m.pending /\ u.mail = m.mail /\ u.deadlines = m.deadlines

(* The lookup l that was pending, the others are t, is made again, or put  *)
(* in front, or told that there is no such service.                        *)
Again(u, l, t) ==
  LET rest == [u EXCEPT !.pending = t]
  IN \/ sm' \in Looked(rest, l) /\ UNCHANGED manager
     \/ sm' = [rest EXCEPT !.pending = <<l>> \o t] /\ UNCHANGED manager
     \/ /\ sm' = Told(rest, l, "absent")
        /\ UNCHANGED manager \/ manager' = "failed"

(* What a reply of the domain leads to, for the lookup that asked. *)
LEMMA DiscoveryIs ==
  ASSUME TypeOK, NEW corr, DiscoveryReply(corr)
  PROVE  \E u \in State :
           /\ Alike(u, sm)
           /\ \/ sm' = u /\ UNCHANGED manager
              \/ \E l \in Lookup, t \in Seq(Lookup) :
                   /\ ToSet(u.pending) = ToSet(t) \cup {l} /\ Again(u, l, t)
                   /\ \E n \in DOMAIN u.pending : l = u.pending[n] /\ t = RemoveAt(u.pending, n)
<1>1. PICK u, n : /\ u = [sm EXCEPT !.asked = @ \ {corr}]
                  /\ n = SelectInSeq(u.pending, LAMBDA l : CorrOf(l) = corr)
  OBVIOUS
<1>2. u \in State /\ Alike(u, sm)
  <2>1. PICK q \in SUBSET Corr : q = sm.asked \ {corr}
    BY Fields, TypeParts
  <2>2. u = [sm EXCEPT !.asked = q]
    BY <1>1, <2>1
  <2>3. QED
    BY <2>2, TypeParts DEF State, Alike, Kept
<1>3. PICK l, t, rest : l = u.pending[n] /\ t = RemoveAt(u.pending, n) /\ rest = [u EXCEPT !.pending = t]
  OBVIOUS
<1>4. \/ n = 0 /\ sm' = u /\ UNCHANGED manager
      \/ n # 0 /\ sm' \in Looked(rest, l) /\ UNCHANGED manager
      \/ n # 0 /\ sm' = [rest EXCEPT !.pending = <<l>> \o @] /\ UNCHANGED manager
      \/ /\ n # 0 /\ sm' = Told(rest, l, "absent")
         /\ UNCHANGED manager \/ manager' = "failed"
  <2>1. rest = [u EXCEPT !.pending = RemoveAt(@, n)]
    BY <1>3
  <2>2. QED
    BY <1>1, <1>3, <2>1 DEF DiscoveryReply
<1>5. CASE n = 0
  BY <1>2, <1>4, <1>5
<1>6. CASE n # 0
  <2>1. n \in DOMAIN u.pending
    <3>1. PICK I : I = {i \in 1 .. Len(u.pending) : CorrOf(u.pending[i]) = corr}
      OBVIOUS
    <3>2. n = IF I # {} THEN Min(I) ELSE 0
      BY <1>1, <3>1 DEF SelectInSeq
    <3>3. I \in SUBSET (1 .. Len(u.pending))
      BY <3>1
    <3>4. QED
      BY <1>2, <1>6, <3>2, <3>3, FirstPending
  <2>2. l \in Lookup /\ t \in Seq(Lookup) /\ ToSet(u.pending) = ToSet(t) \cup {l}
    BY <1>2, <1>3, <2>1, TakenIs
  <2>3. rest.pending = t
    BY <1>2, <1>3, <2>2 DEF State
  <2>4. Again(u, l, t)
    BY <1>3, <1>4, <1>6, <2>3 DEF Again
  <2>5. QED
    BY <1>2, <1>3, <2>1, <2>2, <2>4
<1>7. QED
  BY <1>5, <1>6

(* What a prepare shutdown leads to: the instances are out, and some of    *)
(* the pending lookups are made again.                                     *)
LEMMA ShutdownIs ==
  ASSUME TypeOK, NEW P \in Drains, PrepareShutdown(P)
  PROVE  \E u \in State, p \in Seq(Lookup) :
           LET here == P \cap sm.known
           IN /\ sm' \in LookedAll(u, p) /\ ToSet(p) \subseteq ToSet(sm.pending)
              /\ u.known = sm.known \ here /\ ToSet(u.pending) \subseteq ToSet(sm.pending)
              /\ u.mail = sm.mail /\ \A i \in here : Away(u, i)
              /\ \A i \in Server \ here : /\ u.busy[i] = sm.busy[i] /\ u.caller[i] = sm.caller[i]
                                          /\ u.serves[i] = sm.serves[i]
              /\ u.deadlines = sm.deadlines
              /\ \E again : /\ p = Without(sm.pending, Lookup \ again)
                            /\ u.pending = Without(sm.pending, again)
<1>1. PICK h, m : /\ h = P \cap sm.known
                  /\ m = [sm EXCEPT !.known = @ \ h,
                                    !.serves = [i \in Server |-> IF i \in h THEN {} ELSE @[i]],
                                    !.busy = [i \in Server |-> IF i \in h THEN Nobody ELSE @[i]],
                                    !.caller = [i \in Server |-> IF i \in h THEN Nobody ELSE @[i]]]
  OBVIOUS
<1>2. \E again : sm' \in LookedAll([m EXCEPT !.pending = Without(@, again)],
                                   Without(sm.pending, Lookup \ again))
  BY <1>1 DEF PrepareShutdown
<1>3. PICK again : sm' \in LookedAll([m EXCEPT !.pending = Without(@, again)],
                                     Without(sm.pending, Lookup \ again))
  BY <1>2
<1>4. sm.pending \in Seq(Lookup) /\ sm.known \in SUBSET Server
  BY Fields, TypeParts
<1>5. PICK p, q : p = Without(sm.pending, Lookup \ again) /\ q = Without(sm.pending, again)
  OBVIOUS
<1>6. /\ p \in Seq(Lookup) /\ ToSet(p) \subseteq ToSet(sm.pending)
      /\ q \in Seq(Lookup) /\ ToSet(q) \subseteq ToSet(sm.pending)
  BY <1>4, <1>5, WithoutIn
<1>7. PICK u : u = [m EXCEPT !.pending = q]
  OBVIOUS
<1>8. /\ m.pending = sm.pending
      /\ u \in State /\ u.known = sm.known \ h /\ u.pending = q /\ u.mail = sm.mail
      /\ u.deadlines = sm.deadlines
      /\ \A i \in h \cap Server : Away(u, i)
      /\ \A i \in Server \ h : /\ u.busy[i] = sm.busy[i] /\ u.caller[i] = sm.caller[i]
                               /\ u.serves[i] = sm.serves[i]
  <2>1. /\ sm.serves \in [Server -> SUBSET Service] /\ sm.known \in SUBSET Server
        /\ sm.busy \in [Server -> Service \cup {Nobody}]
        /\ sm.caller \in [Server -> Lookup \cup {Nobody}]
    BY Fields, TypeParts
  <2>2. PICK g, s, b, c : /\ g = sm.known \ h
                          /\ s = [i \in Server |-> IF i \in h THEN {} ELSE sm.serves[i]]
                          /\ b = [i \in Server |-> IF i \in h THEN Nobody ELSE sm.busy[i]]
                          /\ c = [i \in Server |-> IF i \in h THEN Nobody ELSE sm.caller[i]]
    OBVIOUS
  <2>3. /\ g \in SUBSET Server /\ s \in [Server -> SUBSET Service]
        /\ b \in [Server -> Service \cup {Nobody}] /\ c \in [Server -> Lookup \cup {Nobody}]
    BY <2>1, <2>2
  <2>4. m = [sm EXCEPT !.known = g, !.serves = s, !.busy = b, !.caller = c]
    BY <1>1, <2>2
  <2>5. /\ m \in State /\ m.pending = sm.pending /\ m.mail = sm.mail
        /\ m.deadlines = sm.deadlines
        /\ m.known = g /\ m.serves = s /\ m.busy = b /\ m.caller = c
    BY <2>3, <2>4, TypeParts DEF State
  <2>6. /\ u \in State /\ u.pending = q /\ u.mail = sm.mail
        /\ u.deadlines = sm.deadlines /\ u.known = g /\ u.serves = s /\ u.busy = b /\ u.caller = c
    BY <1>6, <1>7, <2>5 DEF State
  <2>7. QED
    BY <2>2, <2>5, <2>6 DEF Away
<1>9. sm' \in LookedAll(u, p)
  BY <1>3, <1>5, <1>7, <1>8
<1>10. h \cap Server = h
  BY <1>1, <1>4
<1>11. QED
  BY <1>1, <1>5, <1>6, <1>8, <1>9, <1>10

(* The steps of the manager of its own keep the types. *)
LEMMA ManagerType ==
  ASSUME TypeOK, ManagerNext
  PROVE  TypeOK'
<1>1. ASSUME NEW a \in acks, Ack(a) PROVE TypeOK'
  <2>1. PICK u \in State :
           \/ /\ a.from \in sm.known
              /\ \E fits : sm' \in FirstLooked(Freed(u, a.from), fits)
              /\ UNCHANGED <<manager, drainVars, answers>>
           \/ /\ a.from \in sm.known /\ Free(sm, a.from) /\ sm' = u
              /\ manager' = "failed" /\ UNCHANGED <<drainVars, answers>>
           \/ /\ a.from \notin sm.known /\ sm' = u /\ DrainAck(a)
              /\ UNCHANGED <<manager, leaving>>
    BY <1>1, AckIs
  <2>2. a.from \in Server
    BY TypeParts
  <2>3. /\ acks' \in SUBSET [corr : Corr, from : Server] /\ UNCHANGED <<phase, at, processVars>>
    BY <1>1, TypeParts DEF Ack
  <2>4. ASSUME NEW fits, sm' \in FirstLooked(Freed(u, a.from), fits)
        PROVE  sm' \in State
    <3>1. Freed(u, a.from) \in State
      BY <2>2, FreedIs
    <3>2. QED
      BY <2>4, <3>1, FirstLookedType
  <2>5. sm' \in State /\ (UNCHANGED manager \/ manager' = "failed")
    BY <2>1, <2>4
  <2>6. /\ drains' \subseteq Entry /\ prepared' \subseteq Server /\ leaving' \subseteq Server
        /\ answers' \in Answers
    <3>1. CASE UNCHANGED <<drainVars, answers>>
      BY <3>1, TypeParts DEF drainVars, TypeOK
    <3>2. CASE DrainAck(a) /\ UNCHANGED leaving
      BY <3>2, DrainAckType DEF TypeOK
    <3>3. QED
      BY <2>1, <3>1, <3>2
  <2>7. QED
    BY <2>3, <2>5, <2>6, TypeWhole, TypeParts DEF processVars
<1>2. ASSUME NEW d \in sm.deadlines, Timeout(d) PROVE TypeOK'
  <2>1. PICK m : m = [sm EXCEPT !.deadlines = @ \ {d}]
    OBVIOUS
  <2>2. m \in State
    <3>1. PICK e \in SUBSET [corr : Corr, service : Service, target : Server] :
            e = sm.deadlines \ {d}
      BY Fields, TypeParts
    <3>2. m = [sm EXCEPT !.deadlines = e]
      BY <2>1, <3>1
    <3>3. QED
      BY <3>2, TypeParts DEF State
  <2>3. \/ sm' = m /\ UNCHANGED answers
        \/ \E i \in Server : /\ sm' = [m EXCEPT !.caller[i] = Nobody]
                             /\ answers' = ErrorTo(answers, sm.caller[i], "timeout")
    BY <1>2, <2>1 DEF Timeout, Local
  <2>4. ASSUME NEW i \in Server, sm' = [m EXCEPT !.caller[i] = Nobody]
        PROVE  sm' \in State
    <3>1. sm' = [sm EXCEPT !.deadlines = @ \ {d}, !.caller[i] = Nobody]
      BY <2>1, <2>4, TypeParts DEF State
    <3>2. QED
      BY <3>1, ConsumedIs, TypeParts
  <2>5. sm' \in State
    BY <2>2, <2>3, <2>4
  <2>6. answers' \in Answers
    BY <2>3, TypeParts, AnswersType DEF Answer
  <2>7. UNCHANGED <<manager, drainVars, phase, at, acks, processVars>>
    BY <1>2 DEF Timeout
  <2>8. QED
    BY <2>5, <2>6, <2>7, TypeWhole, TypeParts DEF drainVars, processVars, TypeOK
<1>3. ASSUME NEW corr \in sm.asked, DiscoveryReply(corr) PROVE TypeOK'
  <2>1. sm' \in State /\ (UNCHANGED manager \/ manager' = "failed")
    <3>1. PICK u \in State :
           \/ sm' = u /\ UNCHANGED manager
           \/ \E l \in Lookup, t \in Seq(Lookup) : Again(u, l, t)
      BY <1>3, DiscoveryIs
    <3>2. ASSUME NEW l \in Lookup, NEW t \in Seq(Lookup), NEW rest, rest = [u EXCEPT !.pending = t]
          PROVE  /\ Looked(rest, l) \subseteq State /\ Told(rest, l, "absent") \in State
                 /\ [rest EXCEPT !.pending = <<l>> \o t] \in State
      <4>1. rest \in State /\ rest.pending = t /\ "absent" \in Notice
        BY <3>2 DEF State, Notice
      <4>2. PICK q : q = <<l>> \o t
        OBVIOUS
      <4>3. q \in Seq(Lookup)
        BY <4>2, FrontIn
      <4>4. [rest EXCEPT !.pending = q] \in State
        BY <4>1, <4>3 DEF State
      <4>5. QED
        BY <4>1, <4>2, <4>4, LookedIs, ToldIs
    <3>3. QED
      BY <3>1, <3>2 DEF Again
  <2>2. UNCHANGED <<drainVars, phase, at, acks, processVars, answers>>
    BY <1>3 DEF DiscoveryReply
  <2>3. QED
    BY <2>1, <2>2, TypeWhole, TypeParts DEF drainVars, processVars, TypeOK
<1>4. ASSUME NEW P \in Drains, PrepareShutdown(P) PROVE TypeOK'
  <2>1. sm' \in State
    <3>1. PICK u \in State, p \in Seq(Lookup) : sm' \in LookedAll(u, p)
      BY <1>4, ShutdownIs
    <3>2. QED
      BY <3>1, LookedAllType
  <2>2. /\ prepared' \subseteq Server /\ leaving' \subseteq Server /\ drains' \subseteq Entry
    <3>1. P \subseteq Server /\ prepared \subseteq Server /\ leaving \subseteq Server
          /\ drains \subseteq Entry /\ sm.caller \in [Server -> Lookup \cup {Nobody}]
      BY ServiceAssumption, Fields, TypeParts DEF TypeOK
    <3>2. ASSUME NEW i \in Server
          PROVE  [from |-> i, state |-> "pending", caller |-> sm.caller[i],
                  corr |-> IF sm.caller[i] = Nobody THEN Nobody ELSE CorrOf(sm.caller[i])] \in Pend
      BY <3>1, LookupType DEF Pend
    <3>3. PICK busy : busy = {i \in P \cap sm.known : ~ Free(sm, i)}
      OBVIOUS
    <3>4. {[from |-> i, state |-> "pending", caller |-> sm.caller[i],
            corr |-> IF sm.caller[i] = Nobody THEN Nobody ELSE CorrOf(sm.caller[i])] : i \in busy}
          \subseteq Pend
      BY <3>1, <3>2, <3>3
    <3>5. \/ drains' = drains
          \/ drains' = drains \cup
               {[pends |-> {[from |-> i, state |-> "pending", caller |-> sm.caller[i],
                             corr |-> IF sm.caller[i] = Nobody THEN Nobody
                                      ELSE CorrOf(sm.caller[i])] : i \in busy},
                 acked |-> {}]}
      BY <1>4, <3>3 DEF PrepareShutdown
    <3>6. drains' \subseteq Entry
      BY <3>1, <3>4, <3>5 DEF Entry, Pend
    <3>7. prepared' \subseteq Server /\ leaving' \subseteq Server
      BY <1>4, <3>1 DEF PrepareShutdown
    <3>8. QED
      BY <3>6, <3>7
  <2>3. UNCHANGED <<manager, phase, at, acks, processVars, answers>>
    BY <1>4 DEF PrepareShutdown
  <2>4. QED
    BY <2>1, <2>2, <2>3, TypeWhole, TypeParts DEF processVars
<1>5. QED
  BY <1>1, <1>2, <1>3, <1>4 DEF ManagerNext

(* In every step the variables stay in their ranges. *)
LEMMA TypeStep ==
  ASSUME TypeOK, [Next]_vars
  PROVE  TypeOK'
<1>1. CASE UNCHANGED vars
  BY <1>1 DEF vars, drainVars, processVars, TypeOK
<1>2. CASE CallerNext
  BY <1>2, CallerType DEF CallerNext
<1>3. CASE ServerNext
  BY <1>3, InstanceType, ServerType DEF ServerNext
<1>4. CASE RemoteNext
  BY <1>4, RemoteType DEF RemoteNext
<1>5. CASE CacheNext
  BY <1>5, CacheType DEF CacheNext
<1>6. CASE ManagerNext
  BY <1>6, ManagerType
<1>7. QED
  BY <1>1, <1>2, <1>3, <1>4, <1>5, <1>6 DEF Next

(* The start is in the ranges. *)
LEMMA InitType ==
  ASSUME Init
  PROVE  TypeOK
<1>1. /\ [i \in Server |-> {}] \in [Server -> SUBSET Service]
      /\ [i \in Server |-> Nobody] \in [Server -> Service \cup {Nobody}]
      /\ [i \in Server |-> Nobody] \in [Server -> Lookup \cup {Nobody}]
      /\ <<>> \in Seq(Lookup)
      /\ [l \in Lookup |-> <<>>] \in [Lookup -> Seq(Notice)]
  OBVIOUS
<1>2. sm \in State
  BY <1>1 DEF Init, State
<1>3. answers \in [Call -> Seq({"reply", "timeout", "died", "no_entry"})]
  BY DEF Init
<1>4. QED
  BY <1>2, <1>3 DEF Init, TypeOK

(* Every variable of the service manager, of its callers and servers stays *)
(* in its range.                                                           *)
THEOREM ServiceTypeOK == Spec => []TypeOK
<1>1. Init => TypeOK
  BY InitType
<1>2. TypeOK /\ [Next]_vars => TypeOK'
  BY TypeStep
<1>3. QED
  BY <1>1, <1>2, PTL DEF Spec
-----------------------------------------------------------------------------
(* What a step may do to the claims of an instance: they get fewer, or one *)
(* that nobody reads any more becomes another.                             *)
Moves(ph, C, D) ==
  \/ D \subseteq C
  \/ \E x \in C : /\ \E y : D \subseteq {y}
                  /\ \A l \in Lookup : x = <<"reply", l>> => ph[l] \notin Active

(* The instance i, from m to u: as it was, or let go, or taken out.        *)
Hands(u, m, ph, i, C, D) ==
  \/ /\ i \in u.known <=> i \in m.known
     /\ u.busy[i] = m.busy[i] /\ u.caller[i] \in {m.caller[i], Nobody}
     /\ i \in m.known \/ u.serves[i] = m.serves[i]
     /\ Moves(ph, C, D)
  \/ /\ D = {} /\ u.busy[i] = Nobody /\ u.caller[i] = Nobody
     /\ i \in u.known \/ u.serves[i] = {}
  \/ i \notin u.known /\ Away(u, i) /\ Moves(ph, C, D)

(* The phase of a lookup goes on. *)
Goes(p, q) == (q = "none" => p = "none") /\ (q \in Active => p \in Active \cup {"none"})

(* An instance stays in the hands of one. *)
LEMMA HandOver ==
  ASSUME NEW u, NEW m, NEW ph, NEW ps, NEW i, NEW C, NEW D,
         m.caller[i] \in Lookup \cup {Nobody},
         Reserves(m, i, C), Reads(m, ph, i, C), Hands(u, m, ps, i, C, D),
         \A l \in Lookup : Goes(ph[l], ps[l])
  PROVE  /\ Reserves(u, i, D) /\ Reads(u, ps, i, D)
         /\ C = {} => D = {}
<1>1. CASE /\ D = {} /\ u.busy[i] = Nobody /\ u.caller[i] = Nobody
           /\ i \in u.known \/ u.serves[i] = {}
  BY <1>1 DEF Reserves, Reads, Away, Alone
<1>2. CASE Moves(ps, C, D)
  <2>1. Alone(D) /\ (C = {} => D = {})
    BY <1>2 DEF Moves, Reserves, Alone
  <2>2. CASE i \notin u.known /\ Away(u, i)
    BY <2>1, <2>2 DEF Reserves, Reads, Away
  <2>3. CASE /\ i \in u.known <=> i \in m.known
             /\ u.busy[i] = m.busy[i] /\ u.caller[i] \in {m.caller[i], Nobody}
             /\ i \in m.known \/ u.serves[i] = m.serves[i]
    <3>1. Reserves(u, i, D)
      BY <2>1, <2>3 DEF Reserves, Away
    <3>2. ASSUME u.caller[i] # Nobody
          PROVE  /\ ps[u.caller[i]] # "none"
                 /\ ps[u.caller[i]] \in Active => D \subseteq {<<"reply", u.caller[i]>>}
      <4>1. u.caller[i] = m.caller[i] /\ u.caller[i] \in Lookup
        BY <2>3, <3>2
      <4>2. ps[u.caller[i]] # "none"
        BY <3>2, <4>1 DEF Reads, Goes
      <4>3. ASSUME ps[u.caller[i]] \in Active
            PROVE  D \subseteq {<<"reply", u.caller[i]>>}
        <5>1. ph[u.caller[i]] \in Active
          BY <3>2, <4>1, <4>3 DEF Reads, Goes
        <5>2. C \subseteq {<<"reply", u.caller[i]>>}
          BY <3>2, <4>1, <5>1 DEF Reads
        <5>3. CASE D \subseteq C
          BY <5>2, <5>3
        <5>4. CASE \E x \in C : \A l \in Lookup : x = <<"reply", l>> => ps[l] \notin Active
          BY <4>1, <4>3, <5>2, <5>4
        <5>5. QED
          BY <1>2, <5>3, <5>4 DEF Moves
      <4>4. QED
        BY <4>2, <4>3
    <3>3. QED
      BY <2>1, <3>1, <3>2 DEF Reads
  <2>4. QED
    BY <1>1, <2>1, <2>2, <2>3 DEF Hands
<1>3. QED
  BY <1>1, <1>2 DEF Hands

(* Mail and pending lookups get fewer. *)
Fewer(u, m) ==
  /\ ToSet(u.pending) \subseteq ToSet(m.pending)
  /\ \A l \in Lookup : /\ m.mail[l] = <<>> => u.mail[l] = <<>>
                       /\ ToSet(u.mail[l]) \subseteq ToSet(m.mail[l])

(* A step of which every instance is handed over is safe. *)
LEMMA StepSafe ==
  ASSUME NEW u, NEW m \in State, NEW ph, NEW w, NEW k, NEW ps, NEW w2, NEW k2,
         Safe(m, ph, w, k), Fewer(u, m), \A l \in Lookup : Goes(ph[l], ps[l]),
         \A i \in Server : Hands(u, m, ps, i, ClaimsIn(m, ph, w, k, i), ClaimsIn(u, ps, w2, k2, i))
  PROVE  /\ Safe(u, ps, w2, k2)
         /\ \A i \in Server : ClaimsIn(m, ph, w, k, i) = {} => ClaimsIn(u, ps, w2, k2, i) = {}
<1>1. ASSUME NEW i \in Server
      PROVE  /\ Reserves(u, i, ClaimsIn(u, ps, w2, k2, i))
             /\ Reads(u, ps, i, ClaimsIn(u, ps, w2, k2, i))
             /\ ClaimsIn(m, ph, w, k, i) = {} => ClaimsIn(u, ps, w2, k2, i) = {}
  <2>1. PICK C, D : C = ClaimsIn(m, ph, w, k, i) /\ D = ClaimsIn(u, ps, w2, k2, i)
    OBVIOUS
  <2>2. Reserves(m, i, C) /\ Reads(m, ph, i, C) /\ Hands(u, m, ps, i, C, D)
    BY <2>1 DEF Safe
  <2>3. m.caller[i] \in Lookup \cup {Nobody}
    BY Fields
  <2>4. Reserves(u, i, D) /\ Reads(u, ps, i, D) /\ (C = {} => D = {})
    BY <2>2, <2>3, HandOver
  <2>5. QED
    BY <2>1, <2>4
<1>2. \A l \in Lookup : Mails(u, ps, l)
  BY DEF Safe, Mails, Fewer, Goes
<1>3. QED
  BY <1>1, <1>2 DEF Safe

(* Fewer claims. *)
LEMMA LessClaims ==
  ASSUME NEW u, NEW m, NEW ph, NEW w, NEW k, NEW ps, NEW w2, NEW k2, NEW i,
         \A q \in Lookup : Names(u, ps, q, i) => Names(m, ph, q, i),
         \A c \in Call : <<c, i>> \in w2 => <<c, i>> \in w,
         \A a \in k2 : a.from = i => a \in k
  PROVE  ClaimsIn(u, ps, w2, k2, i) \subseteq ClaimsIn(m, ph, w, k, i)
<1>1. SUFFICES ASSUME NEW z \in ClaimsIn(u, ps, w2, k2, i) PROVE z \in ClaimsIn(m, ph, w, k, i)
  OBVIOUS
<1>2. \/ \E l \in Lookup : z = <<"reply", l>> /\ Names(u, ps, l, i)
      \/ \E c \in Call : z = <<"call", c>> /\ <<c, i>> \in w2
      \/ \E a \in k2 : z = <<"ack", a>> /\ a.from = i
  BY ONLY <1>1, ClaimOne
<1>3. /\ \A l : <<"reply", l>> \in ClaimsIn(m, ph, w, k, i) <=> l \in Lookup /\ Names(m, ph, l, i)
      /\ \A c : <<"call", c>> \in ClaimsIn(m, ph, w, k, i) <=> c \in Call /\ <<c, i>> \in w
      /\ \A a : <<"ack", a>> \in ClaimsIn(m, ph, w, k, i) <=> a \in k /\ a.from = i
  BY ClaimIs
<1>4. QED
  BY <1>2, <1>3

(* The claim x is gone, and y may be new: an instance has one claim.       *)
LEMMA NextClaim ==
  ASSUME NEW u, NEW m, NEW ph, NEW w, NEW k, NEW ps, NEW w2, NEW k2, NEW i,
         NEW x \in ClaimsIn(m, ph, w, k, i), Alone(ClaimsIn(m, ph, w, k, i)), NEW y,
         \A q \in Lookup : Names(u, ps, q, i) => Names(m, ph, q, i) /\ <<"reply", q>> # x,
         \A c \in Call : <<c, i>> \in w2 =>
           (<<c, i>> \in w /\ <<"call", c>> # x) \/ <<"call", c>> = y,
         \A a \in k2 : a.from = i => (a \in k /\ <<"ack", a>> # x) \/ <<"ack", a>> = y
  PROVE  ClaimsIn(u, ps, w2, k2, i) \subseteq {y}
<1>1. SUFFICES ASSUME NEW z \in ClaimsIn(u, ps, w2, k2, i), z # y PROVE FALSE
  OBVIOUS
<1>2. \/ \E l \in Lookup : z = <<"reply", l>> /\ Names(u, ps, l, i)
      \/ \E c \in Call : z = <<"call", c>> /\ <<c, i>> \in w2
      \/ \E a \in k2 : z = <<"ack", a>> /\ a.from = i
  BY ONLY <1>1, ClaimOne
<1>3. /\ \A l : <<"reply", l>> \in ClaimsIn(m, ph, w, k, i) <=> l \in Lookup /\ Names(m, ph, l, i)
      /\ \A c : <<"call", c>> \in ClaimsIn(m, ph, w, k, i) <=> c \in Call /\ <<c, i>> \in w
      /\ \A a : <<"ack", a>> \in ClaimsIn(m, ph, w, k, i) <=> a \in k /\ a.from = i
  BY ClaimIs
<1>4. z \in ClaimsIn(m, ph, w, k, i) /\ z # x
  <2>1. CASE \E l \in Lookup : z = <<"reply", l>> /\ Names(u, ps, l, i)
    BY <1>3, <2>1
  <2>2. CASE \E c \in Call : z = <<"call", c>> /\ <<c, i>> \in w2
    BY <1>1, <1>3, <2>2
  <2>3. CASE \E a \in k2 : z = <<"ack", a>> /\ a.from = i
    BY <1>1, <1>3, <2>3
  <2>4. QED
    BY <1>2, <2>1, <2>2, <2>3
<1>5. QED
  BY <1>4 DEF Alone
-----------------------------------------------------------------------------
(* The inductive invariant.                                                *)
Standing(i) == ClaimsIn(sm, phase, at, acks, i)

(* A server that is not started, or whose exit has been seen, is not known;*)
(* a call is at a server that is there; who is asked to leave may be, and  *)
(* who is not is known.                                                    *)
Lives(i) ==
  /\ srv[i] = "down" => i \notin sm.known /\ Standing(i) = {}
  /\ srv[i] = "gone" => i \notin sm.known
  /\ srv[i] # "up" => \A c \in Call : <<c, i>> \notin at
  /\ i \in leaving => srv[i] # "down" /\ \E P \in Drains : i \in P
  /\ srv[i] = "up" /\ i \notin leaving => i \in sm.known

(* Whose lookup is answered with the cache. *)
Forwarder(c) == IF Context[c] = "forward" THEN Own(c) ELSE Hop(c)

(* A call is looked up by its caller first, then by the server that has it *)
(* and forwards it, then by the cache.                                     *)
Staged(c) ==
  /\ phase[Own(c)] \notin Over =>
       phase[Hop(c)] = "none" /\ phase[Cache(c)] = "none" /\ \A p \in Place : <<c, p>> \notin at
  /\ Context[c] = "forward" => phase[Hop(c)] = "none"
  /\ <<c, "cache">> \in at => phase[Cache(c)] = "none"
  /\ <<c, "cache">> \in at \/ phase[Cache(c)] # "none" => phase[Forwarder(c)] \in Over

(* A server that is prepared, or that has ended its last call: it is out   *)
(* and has nothing to do.                                                  *)
Parting(i) == i \in prepared \/ \E e \in drains : i \in e.acked
Retired(i) == srv[i] # "down" /\ i \notin sm.known /\ Standing(i) = {}

ServiceInv ==
  /\ TypeOK
  /\ Safe(sm, phase, at, acks)
  /\ \A i \in Server : Lives(i)
  /\ \A c \in Call : Staged(c)
  /\ \A i \in Server : Parting(i) => Retired(i)

(* What a step does to the claims. *)
Settles ==
  /\ Safe(sm', phase', at', acks')
  /\ \A i \in Server : i \notin sm'.known /\ Standing(i) = {} => Standing(i)' = {}

(* Servers and their shutdown in a step. *)
Parts(i) ==
  /\ srv'[i] = "down" => srv[i] = "down" /\ (i \in sm'.known => i \in sm.known)
  /\ srv'[i] = "gone" => i \notin sm'.known
  /\ \A c \in Call : <<c, i>> \in at' => srv'[i] = "up"
  /\ i \in leaving' => srv'[i] # "down" /\ \E P \in Drains : i \in P
  /\ srv'[i] = "up" /\ i \notin leaving' => i \in sm'.known
  /\ Parting(i)' => /\ i \notin sm'.known /\ srv'[i] # "down"
                    /\ Standing(i) = {} \/ Standing(i)' = {}

(* Then the servers are as the invariant says. *)
LEMMA PartsKeep ==
  ASSUME ServiceInv, Settles, NEW i \in Server, Parts(i)
  PROVE  Lives(i)' /\ (Parting(i)' => Retired(i)')
<1>1. Lives(i) /\ (i \notin sm'.known /\ Standing(i) = {} => Standing(i)' = {})
  BY DEF ServiceInv, Settles
<1>2. QED
  BY <1>1 DEF Lives, Retired, Parts

(* Most steps leave the servers where they are. *)
LEMMA SameParts ==
  ASSUME ServiceInv, Settles, sm'.known = sm.known, UNCHANGED <<drainVars, srv>>,
         \A i \in Server, c \in Call : <<c, i>> \in at' => <<c, i>> \in at \/ srv[i] = "up"
  PROVE  \A i \in Server : Lives(i)' /\ (Parting(i)' => Retired(i)')
<1>1. SUFFICES ASSUME NEW i \in Server PROVE Parts(i)
  BY PartsKeep
<1>2. Lives(i) /\ (Parting(i) => Retired(i)) /\ (Parting(i)' <=> Parting(i))
  BY DEF ServiceInv, Parting, drainVars
<1>3. \A c \in Call : <<c, i>> \in at' => <<c, i>> \in at \/ srv[i] = "up"
  OBVIOUS
<1>4. QED
  BY <1>2, <1>3 DEF Lives, Retired, Parts, drainVars

(* The parts of the invariant, after a step. *)
LEMMA InvNext ==
  ASSUME TypeOK', Settles, \A c \in Call : Staged(c)',
         \A i \in Server : Lives(i)' /\ (Parting(i)' => Retired(i)')
  PROVE  ServiceInv'
BY DEF ServiceInv, Settles

(* Lookups are made last in a step: m is the state before them. *)
Before(m) ==
  /\ Safe(m, phase', at', acks')
  /\ \A i \in Server : Standing(i) = {} => ClaimsIn(m, phase', at', acks', i) = {}

(* Every instance is handed over. *)
LEMMA BeforeLooking ==
  ASSUME ServiceInv, NEW m, Fewer(m, sm), \A l \in Lookup : Goes(phase[l], phase'[l]),
         \A i \in Server : Hands(m, sm, phase', i, Standing(i),
                                 ClaimsIn(m, phase', at', acks', i))
  PROVE  Before(m)
<1>1. sm \in State /\ Safe(sm, phase, at, acks)
  BY TypeParts DEF ServiceInv
<1>2. \A i \in Server : Hands(m, sm, phase', i, ClaimsIn(sm, phase, at, acks, i),
                              ClaimsIn(m, phase', at', acks', i))
  BY DEF Standing
<1>3. /\ Safe(m, phase', at', acks')
      /\ \A i \in Server : ClaimsIn(sm, phase, at, acks, i) = {}
                           => ClaimsIn(m, phase', at', acks', i) = {}
  BY ONLY <1>1, <1>2, Fewer(m, sm), \A l \in Lookup : Goes(phase[l], phase'[l]), StepSafe
<1>4. QED
  BY <1>3 DEF Standing, Before

(* The state after the lookups. *)
LEMMA AfterLooking ==
  ASSUME NEW m, Before(m), Safe(sm', phase', at', acks'), Kin(sm', m, phase', at', acks')
  PROVE  Settles /\ sm'.known = m.known
<1>1. sm'.known = m.known
  BY DEF Kin
<1>2. ASSUME NEW i \in Server, i \notin sm'.known, Standing(i) = {}
      PROVE  ClaimsIn(sm', phase', at', acks', i) = {}
  BY <1>1, <1>2 DEF Kin, Before
<1>3. QED
  BY <1>1, <1>2 DEF Settles, Standing

(* A step without lookups. *)
LEMMA NoLooking ==
  ASSUME Before(sm')
  PROVE  Settles
BY DEF Before, Settles, Standing

(* What is named after a step was named before it, if the mail is not more. *)
LEMMA NamesFewer ==
  ASSUME NEW u, NEW m, NEW ph, NEW ps, NEW q \in Lookup, NEW i,
         Mails(m, ph, q), Goes(ph[q], ps[q]), ToSet(u.mail[q]) \subseteq ToSet(m.mail[q]),
         Names(u, ps, q, i)
  PROVE  Names(m, ph, q, i)
<1>1. i \in ToSet(m.mail[q])
  BY DEF Names
<1>2. m.mail[q] # <<>>
  BY <1>1 DEF ToSet
<1>3. QED
  BY <1>1, <1>2 DEF Names, Goes, Mails

(* A step in which claims only go. *)
LEMMA Losing ==
  ASSUME ServiceInv, NEW m, Fewer(m, sm), \A l \in Lookup : Goes(phase[l], phase'[l]),
         m.known = sm.known, m.busy = sm.busy, m.serves = sm.serves,
         \A i \in Server : m.caller[i] \in {sm.caller[i], Nobody},
         at' \subseteq at, acks' \subseteq acks
  PROVE  Before(m)
<1>1. Safe(sm, phase, at, acks)
  BY DEF ServiceInv
<1>2. ASSUME NEW i \in Server
      PROVE  ClaimsIn(m, phase', at', acks', i) \subseteq ClaimsIn(sm, phase, at, acks, i)
  <2>1. ASSUME NEW q \in Lookup, Names(m, phase', q, i) PROVE Names(sm, phase, q, i)
    <3>1. Mails(sm, phase, q) /\ ToSet(m.mail[q]) \subseteq ToSet(sm.mail[q])
          /\ Goes(phase[q], phase'[q])
      BY <1>1 DEF Safe, Fewer
    <3>2. QED
      BY ONLY <2>1, <3>1, NamesFewer
  <2>2. \A c \in Call : <<c, i>> \in at' => <<c, i>> \in at
    OBVIOUS
  <2>3. \A a \in acks' : a.from = i => a \in acks
    OBVIOUS
  <2>4. QED
    BY ONLY <2>1, <2>2, <2>3, LessClaims
<1>3. \A i \in Server : Hands(m, sm, phase', i, Standing(i), ClaimsIn(m, phase', at', acks', i))
  BY <1>2 DEF Hands, Moves, Standing
<1>4. QED
  BY <1>3, BeforeLooking

(* A lookup that is made. *)
LEMMA Looking ==
  ASSUME ServiceInv, NEW l \in Lookup, phase[l] = "none",
         phase' = [phase EXCEPT ![l] = "looking"], sm' \in Looked(sm, l),
         at' \subseteq at, acks' \subseteq acks
  PROVE  Settles /\ sm'.known = sm.known
<1>1. phase \in [Lookup -> Stages] /\ sm \in State
  BY TypeParts DEF ServiceInv
<1>2. \A q \in Lookup : Goes(phase[q], phase'[q])
  BY <1>1 DEF Goes, Active
<1>3. Fewer(sm, sm)
  BY DEF Fewer
<1>4. Before(sm)
  BY <1>2, <1>3, Losing
<1>5. phase'[l] # "none" /\ Safe(sm, phase', at', acks')
  BY <1>1, <1>4 DEF Before
<1>6. Safe(sm', phase', at', acks') /\ Kin(sm', sm, phase', at', acks')
  <2>1. PICK u, ph, w, k : u = sm' /\ ph = phase' /\ w = at' /\ k = acks'
    OBVIOUS
  <2>2. u \in Looked(sm, l) /\ Safe(sm, ph, w, k) /\ ph[l] # "none"
    BY <1>5, <2>1
  <2>3. Safe(u, ph, w, k) /\ Kin(u, sm, ph, w, k)
    BY ONLY <1>1, <2>2, l \in Lookup, LookedSafe
  <2>4. QED
    BY <2>1, <2>3
<1>7. QED
  BY <1>4, <1>6, AfterLooking

(* A lookup reads its first notice, and a call goes on to where it says:   *)
(* the server that had it, if any, is done with it.                        *)
Takes(l, c, x, next) ==
  /\ phase[l] \in Active /\ sm.mail[l] # <<>> /\ x = Head(sm.mail[l])
  /\ sm' = [sm EXCEPT !.mail[l] = Tail(@)]
  /\ next \in Active \cup Over /\ phase' = [phase EXCEPT ![l] = next]
  /\ \A d, p : <<d, p>> \in at' => <<d, p>> \in at \/ (d = c /\ p = x /\ next \in Over)
  /\ \A a \in acks' : a \in acks \/ (/\ a = AckOf(c, a.from) /\ <<c, a.from>> \in at
                                     /\ <<c, a.from>> \in at' => a.from = x)

(* Then every instance stays in the hands of one. *)
LEMMA Reading ==
  ASSUME ServiceInv, NEW l \in Lookup, NEW c \in Call, NEW x, NEW next, Takes(l, c, x, next)
  PROVE  Settles /\ sm'.known = sm.known
<1> USE DEF Takes
<1>1. /\ phase \in [Lookup -> Stages] /\ sm \in State /\ Safe(sm, phase, at, acks)
      /\ sm.mail \in [Lookup -> Seq(Notice)]
  BY TypeParts, Fields DEF ServiceInv
<1>2. PICK t \in Seq(Notice) : t = Tail(sm.mail[l]) /\ ToSet(sm.mail[l]) = ToSet(t) \cup {x}
  BY <1>1, TailIn
<1>3. sm' = [sm EXCEPT !.mail[l] = t]
  BY <1>2
<1>4. /\ Kept(sm', sm) /\ sm'.busy = sm.busy /\ sm'.caller = sm.caller
      /\ sm'.pending = sm.pending /\ sm'.mail[l] = t
      /\ \A q \in Lookup : q # l => sm'.mail[q] = sm.mail[q]
  <2>1. PICK f \in [Lookup -> Seq(Notice)] : f = [sm.mail EXCEPT ![l] = t]
    BY <1>1
  <2>2. sm' = [sm EXCEPT !.mail = f]
    BY <1>3, <2>1
  <2>3. /\ Kept(sm', sm) /\ sm'.busy = sm.busy /\ sm'.caller = sm.caller
        /\ sm'.pending = sm.pending /\ sm'.mail = f
    BY <1>1, <2>2 DEF State, Kept
  <2>4. f[l] = t /\ \A q \in Lookup : q # l => f[q] = sm.mail[q]
    BY <1>1, <2>1
  <2>5. QED
    BY <2>3, <2>4
<1>5. \A q \in Lookup : Goes(phase[q], phase'[q])
  BY <1>1 DEF Goes, Active, Over
<1>6. Fewer(sm', sm)
  BY <1>2, <1>4 DEF Fewer
<1>7. ASSUME NEW q \in Lookup, NEW i, Names(sm', phase', q, i)
      PROVE  Names(sm, phase, q, i) /\ (q = l => next \in Active)
  <2>1. Mails(sm, phase, q) /\ ToSet(sm'.mail[q]) \subseteq ToSet(sm.mail[q])
        /\ Goes(phase[q], phase'[q])
    BY <1>1, <1>5, <1>6 DEF Safe, Fewer
  <2>2. Names(sm, phase, q, i)
    BY ONLY <1>7, <2>1, NamesFewer
  <2>3. QED
    BY <1>1, <1>7, <2>2 DEF Names
<1>8. ASSUME NEW i \in Server
      PROVE  Moves(phase', Standing(i), ClaimsIn(sm', phase', at', acks', i))
  <2>1. PICK C, D : C = Standing(i) /\ D = ClaimsIn(sm', phase', at', acks', i)
    OBVIOUS
  <2>2. Alone(C)
    BY <1>1, <2>1 DEF Safe, Reserves, Standing
  <2>3. /\ \A q : <<"reply", q>> \in C <=> q \in Lookup /\ Names(sm, phase, q, i)
        /\ \A d : <<"call", d>> \in C <=> d \in Call /\ <<d, i>> \in at
    BY <2>1, ClaimIs DEF Standing
  <2>4. i = x => <<"reply", l>> \in C
    BY <1>2, <2>3 DEF Names
  <2>5. <<c, i>> \in at => <<"call", c>> \in C
    BY <2>3
  <2>6. ~ (i = x /\ <<c, i>> \in at)
    BY <2>2, <2>4, <2>5 DEF Alone
  <2>7. CASE AckOf(c, i) \in acks' /\ AckOf(c, i) \notin acks
    <3>1. <<c, i>> \in at /\ <<c, i>> \notin at'
      BY <2>6, <2>7 DEF AckOf
    <3>2. PICK y : y = <<"ack", AckOf(c, i)>>
      OBVIOUS
    <3>3. D \subseteq {y}
      <4>1. PICK z : z = <<"call", c>> /\ z \in ClaimsIn(sm, phase, at, acks, i)
        BY <2>1, <2>5, <3>1 DEF Standing
      <4>2. Alone(ClaimsIn(sm, phase, at, acks, i))
        BY <2>1, <2>2 DEF Standing
      <4>3. \A q \in Lookup : Names(sm', phase', q, i) => Names(sm, phase, q, i) /\ <<"reply", q>> # z
        BY <1>7, <4>1
      <4>4. \A d \in Call : <<d, i>> \in at' => (<<d, i>> \in at /\ <<"call", d>> # z) \/ <<"call", d>> = y
        BY <2>6, <3>1, <4>1
      <4>5. \A a \in acks' : a.from = i => (a \in acks /\ <<"ack", a>> # z) \/ <<"ack", a>> = y
        BY <3>2, <4>1
      <4>6. QED
        BY ONLY <2>1, <4>1, <4>2, <4>3, <4>4, <4>5, NextClaim, SMTT(45)
    <3>4. <<"call", c>> \in C /\ \A q \in Lookup : <<"call", c>> # <<"reply", q>>
      BY <2>5, <3>1
    <3>5. QED
      BY <2>1, <3>3, <3>4 DEF Moves
  <2>8. CASE ~ (AckOf(c, i) \in acks' /\ AckOf(c, i) \notin acks) /\ i = x /\ next \in Over
    <3>1. PICK y : y = <<"call", c>>
      OBVIOUS
    <3>2. D \subseteq {y}
      <4>1. PICK z : z = <<"reply", l>> /\ z \in ClaimsIn(sm, phase, at, acks, i)
        BY <2>1, <2>4, <2>8 DEF Standing
      <4>2. Alone(ClaimsIn(sm, phase, at, acks, i))
        BY <2>1, <2>2 DEF Standing
      <4>3. \A q \in Lookup : Names(sm', phase', q, i) => Names(sm, phase, q, i) /\ <<"reply", q>> # z
        BY <1>7, <2>8, <4>1 DEF Active, Over
      <4>4. \A d \in Call : <<d, i>> \in at' => (<<d, i>> \in at /\ <<"call", d>> # z) \/ <<"call", d>> = y
        BY <3>1, <4>1
      <4>5. \A a \in acks' : a.from = i => (a \in acks /\ <<"ack", a>> # z) \/ <<"ack", a>> = y
        BY <2>8, <4>1
      <4>6. QED
        BY ONLY <2>1, <4>1, <4>2, <4>3, <4>4, <4>5, NextClaim
    <3>3. phase'[l] \notin Active
      BY <1>1, <2>8 DEF Active, Over
    <3>4. \A q \in Lookup : <<"reply", l>> = <<"reply", q>> => phase'[q] \notin Active
      BY <3>3
    <3>5. QED
      BY <2>1, <2>4, <2>8, <3>2, <3>4 DEF Moves
  <2>9. CASE ~ (AckOf(c, i) \in acks' /\ AckOf(c, i) \notin acks) /\ ~ (i = x /\ next \in Over)
    <3>1. \A q \in Lookup : Names(sm', phase', q, i) => Names(sm, phase, q, i)
      BY <1>7
    <3>2. \A d \in Call : <<d, i>> \in at' => <<d, i>> \in at
      BY <2>9
    <3>3. \A a \in acks' : a.from = i => a \in acks
      BY <2>9
    <3>4. ClaimsIn(sm', phase', at', acks', i) \subseteq ClaimsIn(sm, phase, at, acks, i)
      BY ONLY <3>1, <3>2, <3>3, LessClaims
    <3>5. QED
      BY <3>4 DEF Moves, Standing
  <2>10. QED
    BY <2>7, <2>8, <2>9
<1>9. \A i \in Server : Hands(sm', sm, phase', i, Standing(i), ClaimsIn(sm', phase', at', acks', i))
  BY <1>4, <1>8 DEF Hands, Kept
<1>10. Before(sm')
  BY <1>5, <1>6, <1>9, BeforeLooking
<1>11. QED
  BY <1>4, <1>10, NoLooking DEF Kept

(* A call whose lookups stay in their phases, and that goes nowhere new. *)
LEMMA StagedStill ==
  ASSUME NEW c \in Call, Staged(c), phase'[Own(c)] = phase[Own(c)],
         phase'[Hop(c)] = phase[Hop(c)], phase'[Cache(c)] = phase[Cache(c)],
         \A p \in Place : <<c, p>> \in at' => <<c, p>> \in at
  PROVE  Staged(c)'
<1>1. phase'[Forwarder(c)] = phase[Forwarder(c)] /\ "cache" \in Place
  BY DEF Forwarder, Place
<1>2. Forwarder(c)' = Forwarder(c)
  BY DEF Forwarder, Own, Hop
<1>3. Own(c)' = Own(c) /\ Hop(c)' = Hop(c) /\ Cache(c)' = Cache(c)
  BY DEF Own, Hop, Cache
<1>4. QED
  BY <1>1, <1>2, <1>3 DEF Staged

(* Only one lookup of one call changes its phase. *)
LEMMA StagedOthers ==
  ASSUME TypeOK, NEW l \in Lookup, NEW x, phase' = [phase EXCEPT ![l] = x],
         NEW c \in Call, Staged(c), l[1] # c,
         \A p \in Place : <<c, p>> \in at' => <<c, p>> \in at
  PROVE  Staged(c)'
<1>1. phase \in [Lookup -> Stages]
  BY TypeParts
<1>2. Own(c) # l /\ Hop(c) # l /\ Cache(c) # l /\ Own(c) \in Lookup /\ Hop(c) \in Lookup /\ Cache(c) \in Lookup
  BY CallLookups
<1>3. QED
  BY <1>1, <1>2, StagedStill

(* What the steps keep. *)
After ==
  /\ Settles
  /\ \A c \in Call : Staged(c)'
  /\ \A i \in Server : Lives(i)' /\ (Parting(i)' => Retired(i)')

(* A caller looks up. *)
LEMMA LookupRequestSafe ==
  ASSUME ServiceInv, NEW c \in Call, LookupRequest(c)
  PROVE  After
<1>1. Settles /\ sm'.known = sm.known
  BY CallLookups, Looking DEF LookupRequest
<1>2. \A i \in Server : Lives(i)' /\ (Parting(i)' => Retired(i)')
  BY <1>1, SameParts DEF LookupRequest, processVars
<1>3. ASSUME NEW d \in Call PROVE Staged(d)'
  <2>1. Staged(d) /\ TypeOK /\ at' = at /\ phase' = [phase EXCEPT ![Own(c)] = "looking"]
    BY DEF ServiceInv, LookupRequest
  <2>2. CASE d # c
    <3>1. PICK l \in Lookup : l = Own(c) /\ l[1] # d
      BY <2>2, CallLookups
    <3>2. phase' = [phase EXCEPT ![l] = "looking"] /\ \A p \in Place : <<d, p>> \in at' => <<d, p>> \in at
      BY <2>1, <3>1
    <3>3. QED
      BY ONLY <2>1, <3>1, <3>2, d \in Call, StagedOthers
  <2>3. CASE d = c
    <3>1. phase[Own(c)] = "none" /\ phase \in [Lookup -> Stages]
      BY <2>1, TypeParts DEF LookupRequest
    <3>2. /\ phase'[Own(c)] = "looking" /\ phase'[Hop(c)] = phase[Hop(c)]
          /\ phase'[Cache(c)] = phase[Cache(c)]
      BY <2>1, <3>1, CallLookups
    <3>3. /\ phase[Hop(c)] = "none" /\ phase[Cache(c)] = "none"
          /\ \A p \in Place : <<c, p>> \notin at
      BY <2>1, <2>3, <3>1 DEF Staged, Over
    <3>4. "cache" \in Place
      BY DEF Place
    <3>5. QED
      BY <2>1, <2>3, <3>2, <3>3, <3>4 DEF Staged, Over, Own, Hop, Cache
  <2>4. QED
    BY <2>2, <2>3
<1>4. QED
  BY <1>1, <1>2, <1>3 DEF After

(* A caller takes a reply. *)
LEMMA ReceiveSafe ==
  ASSUME ServiceInv, NEW c \in Call, Receive(c)
  PROVE  After
<1>1. PICK l, x, next : /\ l = Own(c) /\ x = Head(sm.mail[l])
                        /\ next = IF x # "busy" THEN "ended"
                                  ELSE IF phase[l] = "looking" \/ c \in Impatient THEN "waiting"
                                  ELSE "stray"
  OBVIOUS
<1>2. l \in Lookup /\ phase[l] \in Active /\ sm.mail[l] # <<>>
  BY <1>1, CallLookups DEF Receive, Active
<1>3. sm' = [sm EXCEPT !.mail[l] = Tail(@)] /\ phase' = [phase EXCEPT ![l] = next]
  BY <1>1 DEF Receive
<1>4. next \in Active \cup Over /\ (next \in Over <=> x # "busy")
  BY <1>1 DEF Active, Over
<1>5. at' = IF x \in Place /\ Up(x) THEN at \cup {<<c, x>>} ELSE at
  BY <1>1 DEF Receive
<1>6. "busy" \notin Place /\ "cache" \in Place
  BY ServiceAssumption DEF Place
<1>7. /\ \A d, p : <<d, p>> \in at' => <<d, p>> \in at \/ (d = c /\ p = x /\ next \in Over)
      /\ \A a \in acks' : a \in acks
  BY <1>4, <1>5, <1>6 DEF Receive
<1>8. Settles /\ sm'.known = sm.known
  <2>1. \A a \in acks' : a \in acks \/ (/\ a = AckOf(c, a.from) /\ <<c, a.from>> \in at
                                        /\ <<c, a.from>> \in at' => a.from = x)
    BY <1>7
  <2>2. Takes(l, c, x, next)
    BY <1>1, <1>2, <1>3, <1>4, <1>7, <2>1 DEF Takes
  <2>3. QED
    BY <1>2, <2>2, Reading
<1>9. \A i \in Server : Lives(i)' /\ (Parting(i)' => Retired(i)')
  <2>1. \A i \in Server, d \in Call : <<d, i>> \in at' => <<d, i>> \in at \/ srv[i] = "up"
    BY <1>5 DEF Up
  <2>2. UNCHANGED <<drainVars, srv>>
    BY DEF Receive, processVars
  <2>3. QED
    BY <1>8, <2>1, <2>2, SameParts
<1>10. ASSUME NEW d \in Call PROVE Staged(d)'
  <2>1. Staged(d) /\ TypeOK /\ phase \in [Lookup -> Stages]
    BY TypeParts DEF ServiceInv
  <2>2. CASE d # c
    <3>1. \A p \in Place : <<d, p>> \in at' => <<d, p>> \in at
      BY <1>7, <2>2
    <3>2. l[1] # d
      BY <1>1, <2>2, CallLookups
    <3>3. QED
      BY ONLY <1>2, <1>3, <2>1, <3>1, <3>2, d \in Call, StagedOthers
  <2>3. CASE d = c
    <3>1. /\ phase'[Own(c)] = next /\ phase'[Hop(c)] = phase[Hop(c)]
          /\ phase'[Cache(c)] = phase[Cache(c)]
      BY <1>1, <1>3, <2>1, CallLookups
    <3>2. /\ phase[Hop(c)] = "none" /\ phase[Cache(c)] = "none"
          /\ \A p \in Place : <<c, p>> \notin at
      BY <1>1, <1>2, <2>1, <2>3 DEF Staged, Over, Active
    <3>3. <<c, "cache">> \in at' => Context[c] = "forward" /\ next \in Over
      <4>1. ASSUME <<c, "cache">> \in at' PROVE Context[c] = "forward" /\ next \in Over
        <5>1. x = "cache" /\ next \in Over
          BY <1>6, <1>7, <3>2, <4>1
        <5>2. Mails(sm, phase, l) /\ sm.mail \in [Lookup -> Seq(Notice)]
          BY <1>2, Fields, TypeParts DEF ServiceInv, Safe
        <5>3. "cache" \in ToSet(sm.mail[l])
          BY <1>1, <1>2, <5>1, <5>2, TailIn
        <5>4. ContextOf(l) = Context[c]
          BY <1>1, CallLookups DEF ContextOf
        <5>5. QED
          BY <5>1, <5>2, <5>3, <5>4 DEF Mails
      <4>2. QED
        BY <4>1
    <3>4. next \notin Over => \A p \in Place : <<c, p>> \notin at'
      BY <1>7, <3>2
    <3>5. QED
      BY <2>3, <3>1, <3>2, <3>3, <3>4 DEF Staged, Forwarder, Own, Hop, Cache
  <2>4. QED
    BY <2>2, <2>3
<1>11. QED
  BY <1>8, <1>9, <1>10 DEF After

(* The lookup of a caller comes to its end, and nothing new is under way.  *)
LEMMA StagedEnds ==
  ASSUME ServiceInv, NEW c \in Call, NEW next \in Over,
         phase' = [phase EXCEPT ![Own(c)] = next], at' = at
  PROVE  \A d \in Call : Staged(d)'
<1>1. SUFFICES ASSUME NEW d \in Call PROVE Staged(d)'
  OBVIOUS
<1>2. Staged(d) /\ TypeOK /\ phase \in [Lookup -> Stages]
  BY TypeParts DEF ServiceInv
<1>3. CASE d # c
  <2>1. PICK l \in Lookup : l = Own(c) /\ l[1] # d
    BY <1>3, CallLookups
  <2>2. phase' = [phase EXCEPT ![l] = next] /\ \A p \in Place : <<d, p>> \in at' => <<d, p>> \in at
    BY <2>1
  <2>3. QED
    BY ONLY <1>2, <2>1, <2>2, d \in Call, StagedOthers
<1>4. CASE d = c
  <2>1. /\ phase'[Own(c)] = next /\ phase'[Hop(c)] = phase[Hop(c)]
        /\ phase'[Cache(c)] = phase[Cache(c)]
    BY <1>2, CallLookups
  <2>2. QED
    BY <1>2, <1>4, <2>1 DEF Staged, Forwarder, Own, Hop, Cache
<1>5. QED
  BY <1>3, <1>4

(* The mail of a lookup is dropped. *)
LEMMA MailDropped ==
  ASSUME NEW m \in State, NEW l \in Lookup, NEW u, u = [m EXCEPT !.mail[l] = <<>>]
  PROVE  /\ Kept(u, m) /\ u.busy = m.busy /\ u.caller = m.caller
         /\ u.mail[l] = <<>> /\ Fewer(u, m)
         /\ u.pending = m.pending /\ u.deadlines = m.deadlines
<1>1. m.mail \in [Lookup -> Seq(Notice)] /\ <<>> \in Seq(Notice)
  BY Fields
<1>2. PICK f \in [Lookup -> Seq(Notice)] : f = [m.mail EXCEPT ![l] = <<>>]
  BY <1>1
<1>3. u = [m EXCEPT !.mail = f]
  BY <1>2
<1>4. /\ Kept(u, m) /\ u.busy = m.busy /\ u.caller = m.caller /\ u.pending = m.pending
      /\ u.deadlines = m.deadlines /\ u.mail = f
  BY <1>3 DEF State, Kept
<1>5. f[l] = <<>> /\ \A q \in Lookup : q # l => f[q] = m.mail[q]
  BY <1>1, <1>2
<1>6. ToSet(<<>>) = {}
  BY DEF ToSet
<1>7. QED
  BY <1>4, <1>5, <1>6 DEF Fewer

(* A caller gives its lookup up. *)
LEMMA DiscardSafe ==
  ASSUME ServiceInv, NEW c \in Call, Discard(c)
  PROVE  After
<1>1. PICK l \in Lookup : l = Own(c) /\ l[1] = c /\ l[2] = "own"
  BY CallLookups
<1>2. /\ phase[l] \in Active /\ phase' = [phase EXCEPT ![l] = "ended"]
      /\ sm' \in Discarded(sm, l) /\ at' = at /\ acks' = acks
      /\ UNCHANGED <<drainVars, srv>>
  BY <1>1 DEF Discard, Active, processVars
<1>3. /\ sm \in State /\ phase \in [Lookup -> Stages] /\ Safe(sm, phase, at, acks)
      /\ sm.caller \in [Server -> Lookup \cup {Nobody}]
  BY TypeParts, Fields DEF ServiceInv
<1>4. phase'[l] = "ended" /\ \A q \in Lookup : Goes(phase[q], phase'[q])
  BY <1>2, <1>3 DEF Goes, Active
<1>5. Before(sm') /\ sm'.known = sm.known
  <2>1. CASE sm' = sm
    <3>1. Fewer(sm', sm)
      BY <2>1 DEF Fewer
    <3>2. QED
      BY <1>2, <1>4, <2>1, <3>1, Losing
  <2>2. ASSUME NEW p \in Seq(Lookup), sm' = [sm EXCEPT !.pending = p],
               ToSet(p) \subseteq ToSet(sm.pending)
        PROVE  Before(sm') /\ sm'.known = sm.known
    <3>1. /\ sm'.known = sm.known /\ sm'.busy = sm.busy /\ sm'.serves = sm.serves
          /\ sm'.caller = sm.caller /\ Fewer(sm', sm)
      BY <1>3, <2>2 DEF State, Fewer
    <3>2. QED
      BY <1>2, <1>4, <3>1, Losing
  <2>3. ASSUME NEW i \in Server, sm' = [Freed(sm, i) EXCEPT !.mail[l] = <<>>],
               sm.caller[i] # Nobody, CorrOf(sm.caller[i]) = CorrOf(l)
        PROVE  Before(sm') /\ sm'.known = sm.known
    <3>1. PICK v : v = Freed(sm, i)
      OBVIOUS
    <3>2. /\ v \in State /\ Aside(v, sm) /\ v.known = sm.known /\ v.serves = sm.serves
          /\ v.busy[i] = Nobody /\ v.caller[i] = Nobody
          /\ \A j \in Server : j # i => v.busy[j] = sm.busy[j] /\ v.caller[j] = sm.caller[j]
      BY <1>3, <3>1, FreedIs
    <3>3. /\ Kept(sm', v) /\ sm'.busy = v.busy /\ sm'.caller = v.caller
          /\ sm'.mail[l] = <<>> /\ Fewer(sm', v)
      <4>1. sm' = [v EXCEPT !.mail[l] = <<>>]
        BY <2>3, <3>1
      <4>2. QED
        BY <3>2, <4>1, MailDropped
    <3>4. Fewer(sm', sm)
      BY <3>2, <3>3 DEF Fewer, Aside
    <3>5. sm.caller[i] = l
      <4>1. PICK q \in Lookup : q = sm.caller[i]
        BY <1>3, <2>3
      <4>2. q = <<q[1], q[2]>> /\ q[2] \in Kind /\ l = <<l[1], l[2]>>
        BY <4>1, LookupType
      <4>3. q[1] = c /\ q[2] \in {"own", "cache"}
        BY <1>1, <2>3, <4>1, <4>2 DEF CorrOf, Kind
      <4>4. q = Own(c) \/ q = Cache(c)
        BY <4>2, <4>3 DEF Own, Cache
      <4>5. phase[Cache(c)] = "none"
        BY <1>1, <1>2 DEF ServiceInv, Staged, Active, Over
      <4>6. phase[q] # "none"
        BY <1>3, <2>3, <4>1 DEF Safe, Reads
      <4>7. QED
        BY <1>1, <4>1, <4>4, <4>5, <4>6
    <3>6. ASSUME NEW j \in Server
          PROVE  ClaimsIn(sm', phase', at', acks', j) \subseteq Standing(j)
      <4>1. ASSUME NEW q \in Lookup, Names(sm', phase', q, j) PROVE Names(sm, phase, q, j)
        <5>1. Mails(sm, phase, q) /\ ToSet(sm'.mail[q]) \subseteq ToSet(sm.mail[q])
              /\ Goes(phase[q], phase'[q])
          BY <1>3, <1>4, <3>4 DEF Safe, Fewer
        <5>2. QED
          BY ONLY <4>1, <5>1, NamesFewer
      <4>2. /\ \A d \in Call : <<d, j>> \in at' => <<d, j>> \in at
            /\ \A a \in acks' : a.from = j => a \in acks
        BY <1>2
      <4>3. QED
        BY ONLY <4>1, <4>2, LessClaims DEF Standing
    <3>7. ClaimsIn(sm', phase', at', acks', i) = {}
      <4>1. Standing(i) \subseteq {<<"reply", l>>}
        BY <1>2, <1>3, <2>3, <3>5 DEF Safe, Reads, Standing
      <4>2. <<"reply", l>> \notin ClaimsIn(sm', phase', at', acks', i)
        <5>1. ~ Names(sm', phase', l, i)
          BY <1>4 DEF Names, Active
        <5>2. QED
          BY <5>1, ClaimIs
      <4>3. QED
        BY <3>6, <4>1, <4>2
    <3>8. \A j \in Server : Hands(sm', sm, phase', j, Standing(j), ClaimsIn(sm', phase', at', acks', j))
      <4>1. SUFFICES ASSUME NEW j \in Server
                     PROVE  Hands(sm', sm, phase', j, Standing(j), ClaimsIn(sm', phase', at', acks', j))
        OBVIOUS
      <4>2. CASE j = i
        <5>1. sm'.busy[i] = Nobody /\ sm'.caller[i] = Nobody /\ sm'.serves = sm.serves
              /\ sm'.known = sm.known
          BY <3>2, <3>3 DEF Kept
        <5>2. i \in sm.known \/ sm.serves[i] = {}
          BY <1>3 DEF Safe, Reserves, Away
        <5>3. QED
          BY <3>7, <4>2, <5>1, <5>2 DEF Hands
      <4>3. CASE j # i
        <5>1. sm'.busy[j] = sm.busy[j] /\ sm'.caller[j] = sm.caller[j] /\ sm'.serves = sm.serves
              /\ sm'.known = sm.known
          BY <3>2, <3>3, <4>3 DEF Kept
        <5>2. QED
          BY <3>6, <5>1 DEF Hands, Moves
      <4>4. QED
        BY <4>2, <4>3
    <3>9. Before(sm')
      BY <1>4, <3>4, <3>8, BeforeLooking
    <3>10. QED
      BY <3>2, <3>3, <3>9 DEF Kept
  <2>4. QED
    BY <1>2, <1>3, <2>1, <2>2, <2>3, DiscardedIs
<1>6. Settles
  BY <1>5, NoLooking
<1>7. \A i \in Server : Lives(i)' /\ (Parting(i)' => Retired(i)')
  BY <1>2, <1>5, <1>6, SameParts
<1>8. \A d \in Call : Staged(d)'
  BY <1>1, <1>2, StagedEnds DEF Over
<1>9. QED
  BY <1>6, <1>7, <1>8 DEF After

(* A caller dies. *)
LEMMA CallerDiesSafe ==
  ASSUME ServiceInv, NEW c \in Call, CallerDies(c)
  PROVE  After
<1>1. PICK l \in Lookup : l = Own(c)
  BY CallLookups
<1>2. /\ phase[l] \in Active \cup Over /\ phase' = [phase EXCEPT ![l] = "dead"]
      /\ sm' = [sm EXCEPT !.mail[l] = <<>>] /\ at' = at /\ acks' = acks
      /\ UNCHANGED <<drainVars, srv>>
  BY <1>1 DEF CallerDies, Active, Over, processVars
<1>3. sm \in State /\ phase \in [Lookup -> Stages]
  BY TypeParts DEF ServiceInv
<1>4. /\ Kept(sm', sm) /\ sm'.busy = sm.busy /\ sm'.caller = sm.caller /\ Fewer(sm', sm)
  BY <1>2, <1>3, MailDropped
<1>5. \A q \in Lookup : Goes(phase[q], phase'[q])
  BY <1>2, <1>3 DEF Goes, Active, Over
<1>6. Before(sm')
  BY <1>2, <1>4, <1>5, Losing DEF Kept
<1>7. Settles
  BY <1>6, NoLooking
<1>8. \A i \in Server : Lives(i)' /\ (Parting(i)' => Retired(i)')
  BY <1>2, <1>4, <1>7, SameParts DEF Kept
<1>9. \A d \in Call : Staged(d)'
  BY <1>1, <1>2, StagedEnds DEF Over
<1>10. QED
  BY <1>7, <1>8, <1>9 DEF After

(* A server ends a call: the call becomes its ACK. *)
LEMMA ServeSafe ==
  ASSUME ServiceInv, NEW i \in Server, NEW c \in Call, Serve(c, i)
  PROVE  After
<1>1. /\ <<c, i>> \in at /\ at' = at \ {<<c, i>>} /\ acks' = acks \cup {AckOf(c, i)}
      /\ sm' = sm /\ phase' = phase /\ UNCHANGED <<drainVars, srv>>
  BY DEF Serve, processVars
<1>2. sm \in State /\ Safe(sm, phase, at, acks)
  BY TypeParts DEF ServiceInv
<1>3. Fewer(sm', sm) /\ \A q \in Lookup : Goes(phase[q], phase'[q])
  BY <1>1 DEF Fewer, Goes
<1>4. ASSUME NEW j \in Server
      PROVE  Moves(phase', Standing(j), ClaimsIn(sm', phase', at', acks', j))
  <2>1. \A q \in Lookup : Names(sm', phase', q, j) => Names(sm, phase, q, j)
    BY <1>1 DEF Names
  <2>2. CASE j # i
    <3>1. \A d \in Call : <<d, j>> \in at' => <<d, j>> \in at
      BY <1>1
    <3>2. \A a \in acks' : a.from = j => a \in acks
      BY <1>1, <2>2 DEF AckOf
    <3>3. ClaimsIn(sm', phase', at', acks', j) \subseteq ClaimsIn(sm, phase, at, acks, j)
      BY ONLY <2>1, <3>1, <3>2, LessClaims
    <3>4. QED
      BY <3>3 DEF Moves, Standing
  <2>3. CASE j = i
    <3>1. PICK y, z : y = <<"ack", AckOf(c, i)>> /\ z = <<"call", c>>
      OBVIOUS
    <3>2. z \in ClaimsIn(sm, phase, at, acks, j) /\ Alone(ClaimsIn(sm, phase, at, acks, j))
      BY <1>1, <1>2, <2>3, <3>1, ClaimIs DEF Safe, Reserves
    <3>3. \A q \in Lookup : Names(sm', phase', q, j) => Names(sm, phase, q, j) /\ <<"reply", q>> # z
      BY <2>1, <3>1
    <3>4. \A d \in Call : <<d, j>> \in at' => (<<d, j>> \in at /\ <<"call", d>> # z) \/ <<"call", d>> = y
      BY <1>1, <2>3, <3>1
    <3>5. \A a \in acks' : a.from = j => (a \in acks /\ <<"ack", a>> # z) \/ <<"ack", a>> = y
      BY <1>1, <3>1
    <3>6. ClaimsIn(sm', phase', at', acks', j) \subseteq {y}
      BY ONLY <3>2, <3>3, <3>4, <3>5, NextClaim
    <3>7. z \in Standing(j) /\ \A q \in Lookup : z # <<"reply", q>>
      BY <3>1, <3>2 DEF Standing
    <3>8. QED
      BY <3>6, <3>7 DEF Moves
  <2>4. QED
    BY <2>2, <2>3
<1>5. \A j \in Server : Hands(sm', sm, phase', j, Standing(j), ClaimsIn(sm', phase', at', acks', j))
  BY <1>1, <1>4 DEF Hands
<1>6. Settles
  BY <1>3, <1>5, BeforeLooking, NoLooking
<1>7. \A j \in Server : Lives(j)' /\ (Parting(j)' => Retired(j)')
  BY <1>1, <1>6, SameParts
<1>8. \A d \in Call : Staged(d)'
  BY <1>1, StagedStill DEF ServiceInv
<1>9. QED
  BY <1>6, <1>7, <1>8 DEF After

(* A server looks the next service up. *)
LEMMA ForwardSafe ==
  ASSUME ServiceInv, NEW i \in Server, NEW c \in Call, Forward(c, i)
  PROVE  After
<1>1. PICK l \in Lookup : l = Hop(c) /\ l[1] = c
  BY CallLookups
<1>2. /\ <<c, i>> \in at /\ phase[l] = "none" /\ Len(Path[c]) > 1
      /\ phase' = [phase EXCEPT ![l] = "looking"] /\ sm' \in Looked(sm, l)
      /\ at' = at /\ acks' = acks /\ UNCHANGED <<drainVars, srv>>
  BY <1>1 DEF Forward, Forwards, processVars
<1>3. Settles /\ sm'.known = sm.known
  BY <1>2, Looking
<1>4. \A j \in Server : Lives(j)' /\ (Parting(j)' => Retired(j)')
  BY <1>2, <1>3, SameParts
<1>5. ASSUME NEW d \in Call PROVE Staged(d)'
  <2>1. Staged(d) /\ TypeOK /\ phase \in [Lookup -> Stages]
    BY TypeParts DEF ServiceInv
  <2>2. CASE d # c
    <3>1. \A p \in Place : <<d, p>> \in at' => <<d, p>> \in at
      BY <1>2
    <3>2. l[1] # d
      BY <1>1, <2>2
    <3>3. QED
      BY ONLY <1>2, <2>1, <3>1, <3>2, l \in Lookup, d \in Call, StagedOthers
  <2>3. CASE d = c
    <3>1. /\ phase'[Own(c)] = phase[Own(c)] /\ phase'[Hop(c)] = "looking"
          /\ phase'[Cache(c)] = phase[Cache(c)]
      BY <1>1, <1>2, <2>1, CallLookups
    <3>2. Context[c] # "forward"
      <4>1. PICK n : n = Len(Path[c])
        OBVIOUS
      <4>2. n > 1 /\ (Context[c] = "forward" => n = 1)
        BY <1>2, <4>1, CallAssumption
      <4>3. QED
        BY <4>2
    <3>3. i \in Place /\ phase[Own(c)] \in Over
      BY <1>2, <2>1, <2>3 DEF Staged, Place
    <3>4. <<c, "cache">> \notin at /\ phase[Cache(c)] = "none"
      BY <1>1, <1>2, <2>1, <2>3, <3>2 DEF Staged, Forwarder, Over
    <3>5. QED
      BY <1>2, <2>3, <3>1, <3>2, <3>3, <3>4 DEF Staged, Forwarder, Own, Hop, Cache
  <2>4. QED
    BY <2>2, <2>3
<1>6. QED
  BY <1>3, <1>4, <1>5 DEF After

(* A server sends the call on, and is done with it. *)
LEMMA ForwardedSafe ==
  ASSUME ServiceInv, NEW i \in Server, NEW c \in Call, Forwarded(c, i)
  PROVE  After
<1>1. PICK l, x : /\ l \in Lookup /\ l = Hop(c) /\ l[1] = c /\ l[2] = "hop"
                  /\ x = Head(sm.mail[l])
  BY CallLookups
<1>2. /\ <<c, i>> \in at /\ phase[l] = "looking" /\ sm.mail[l] # <<>>
      /\ phase' = [phase EXCEPT ![l] = "ended"] /\ sm' = [sm EXCEPT !.mail[l] = Tail(@)]
      /\ acks' = acks \cup {AckOf(c, i)} /\ UNCHANGED <<drainVars, srv>>
  BY <1>1 DEF Forwarded, processVars
<1>3. at' = (at \ {<<c, i>>}) \cup (IF x \in Place /\ Up(x) THEN {<<c, x>>} ELSE {})
  BY <1>1 DEF Forwarded
<1>4. Settles /\ sm'.known = sm.known
  <2>1. \A d, p : <<d, p>> \in at' => <<d, p>> \in at \/ (d = c /\ p = x)
    BY <1>3
  <2>2. \A a \in acks' : a \in acks \/ (/\ a = AckOf(c, a.from) /\ <<c, a.from>> \in at
                                        /\ <<c, a.from>> \in at' => a.from = x)
    BY <1>2, <1>3 DEF AckOf
  <2>3. Takes(l, c, x, "ended")
    BY <1>1, <1>2, <2>1, <2>2 DEF Takes, Active, Over
  <2>4. QED
    BY <1>1, <2>3, Reading
<1>5. \A j \in Server : Lives(j)' /\ (Parting(j)' => Retired(j)')
  <2>1. \A j \in Server, d \in Call : <<d, j>> \in at' => <<d, j>> \in at \/ srv[j] = "up"
    BY <1>3 DEF Up
  <2>2. QED
    BY <1>2, <1>4, <2>1, SameParts
<1>6. ASSUME NEW d \in Call PROVE Staged(d)'
  <2>1. Staged(d) /\ TypeOK /\ phase \in [Lookup -> Stages]
    BY TypeParts DEF ServiceInv
  <2>2. CASE d # c
    <3>1. \A p \in Place : <<d, p>> \in at' => <<d, p>> \in at
      BY <1>3, <2>2
    <3>2. l[1] # d
      BY <1>1, <2>2
    <3>3. QED
      BY ONLY <1>1, <1>2, <2>1, <3>1, <3>2, d \in Call, StagedOthers
  <2>3. CASE d = c
    <3>1. /\ phase'[Own(c)] = phase[Own(c)] /\ phase'[Hop(c)] = "ended"
          /\ phase'[Cache(c)] = phase[Cache(c)]
      BY <1>1, <1>2, <2>1, CallLookups
    <3>2. Context[c] # "forward"
      BY <1>1, <1>2, <2>1, <2>3 DEF Staged
    <3>3. i \in Place /\ phase[Own(c)] \in Over
      BY <1>2, <2>1, <2>3 DEF Staged, Place
    <3>4. phase[Cache(c)] = "none"
      BY <1>1, <1>2, <2>1, <2>3, <3>2 DEF Staged, Forwarder, Over
    <3>5. QED
      BY <2>3, <3>1, <3>2, <3>3, <3>4 DEF Staged, Forwarder, Own, Hop, Cache, Over
  <2>4. QED
    BY <2>2, <2>3
<1>7. QED
  BY <1>4, <1>5, <1>6 DEF After

(* A server dies. *)
LEMMA DieSafe ==
  ASSUME ServiceInv, NEW i \in Server, Die(i)
  PROVE  After
<1>1. /\ srv[i] = "up" /\ srv' = [srv EXCEPT ![i] = "dead"] /\ at' = {e \in at : e[2] # i}
      /\ sm' = sm /\ acks' = acks /\ UNCHANGED drainVars
      /\ phase' = [l \in Lookup |->
                     IF l[2] = "hop" /\ <<l[1], i>> \in at /\ phase[l] = "looking"
                     THEN "dead" ELSE phase[l]]
  BY DEF Die
<1>2. sm \in State /\ srv \in [Server -> {"down", "up", "dead", "gone"}]
  BY TypeParts DEF ServiceInv
<1>3. Fewer(sm', sm) /\ \A q \in Lookup : Goes(phase[q], phase'[q])
  BY <1>1 DEF Fewer, Goes, Active
<1>4. at' \subseteq at /\ acks' \subseteq acks
  BY <1>1
<1>5. Before(sm')
  BY <1>1, <1>3, <1>4, Losing
<1>6. Settles
  BY <1>5, NoLooking
<1>7. ASSUME NEW j \in Server PROVE Lives(j)' /\ (Parting(j)' => Retired(j)')
  <2>1. Lives(j) /\ (Parting(j) => Retired(j)) /\ (Parting(j)' <=> Parting(j))
        /\ UNCHANGED <<drains, prepared, leaving>>
    BY <1>1 DEF ServiceInv, Parting, drainVars
  <2>2. Parts(j)
    <3>1. CASE j = i
      <4>1. srv'[j] = "dead" /\ \A c \in Call : <<c, j>> \notin at'
        BY <1>1, <1>2, <3>1
      <4>2. QED
        BY <1>1, <2>1, <3>1, <4>1 DEF Parts, Lives, Retired
    <3>2. CASE j # i
      <4>1. srv'[j] = srv[j] /\ sm' = sm /\ \A c \in Call : <<c, j>> \in at' => <<c, j>> \in at
        BY <1>1, <1>2, <3>2
      <4>2. QED
        BY <2>1, <4>1 DEF Parts, Lives, Retired
    <3>3. QED
      BY <3>1, <3>2
  <2>3. QED
    BY <1>6, <2>2, PartsKeep
<1>8. ASSUME NEW d \in Call PROVE Staged(d)'
  <2>1. Staged(d)
    BY DEF ServiceInv
  <2>2. /\ phase'[Own(d)] = phase[Own(d)] /\ phase'[Cache(d)] = phase[Cache(d)]
        /\ phase'[Hop(d)] \in {phase[Hop(d)], "dead"}
        /\ phase'[Hop(d)] # phase[Hop(d)] => phase[Hop(d)] = "looking" /\ <<d, i>> \in at
    BY <1>1, CallLookups
  <2>3. CASE phase'[Hop(d)] = phase[Hop(d)]
    BY <1>4, <2>1, <2>2, <2>3, StagedStill
  <2>4. CASE phase'[Hop(d)] = "dead" /\ phase[Hop(d)] = "looking" /\ <<d, i>> \in at
    <3>1. i \in Place /\ phase[Own(d)] \in Over /\ Context[d] # "forward"
      BY <2>1, <2>4 DEF Staged, Place
    <3>2. <<d, "cache">> \in at' => <<d, "cache">> \in at
      BY <1>4
    <3>3. QED
      BY <2>1, <2>2, <2>4, <3>1, <3>2 DEF Staged, Forwarder, Over, Own, Hop, Cache
  <2>5. QED
    BY <2>2, <2>3, <2>4
<1>9. QED
  BY <1>6, <1>7, <1>8 DEF After

(* The exit of a server is handled: it is out. *)
LEMMA ExitSafe ==
  ASSUME ServiceInv, NEW i \in Server, Exit(i)
  PROVE  After
<1>1. /\ srv[i] = "dead" /\ srv' = [srv EXCEPT ![i] = "gone"] /\ sm' = Forgotten(sm, i)
      /\ phase' = phase /\ at' = at /\ acks' = acks /\ leaving' = leaving
  BY DEF Exit
<1>2. /\ sm \in State /\ srv \in [Server -> {"down", "up", "dead", "gone"}]
      /\ Safe(sm, phase, at, acks)
  BY TypeParts DEF ServiceInv
<1>3. PICK u : u = Forgotten(sm, i)
  OBVIOUS
<1>4. /\ Aside(u, sm) /\ u.known = sm.known \ {i} /\ Away(u, i)
      /\ \A j \in Server : j # i => /\ u.busy[j] = sm.busy[j] /\ u.caller[j] = sm.caller[j]
                                    /\ u.serves[j] = sm.serves[j]
  BY <1>2, <1>3, ForgottenIs
<1>5. Fewer(u, sm) /\ \A q \in Lookup : Goes(phase[q], phase'[q])
  BY <1>1, <1>4 DEF Fewer, Goes, Aside
<1>6. ASSUME NEW j \in Server PROVE ClaimsIn(u, phase', at', acks', j) = Standing(j)
  <2>1. \A q \in Lookup : j \in ToSet(u.mail[q]) <=> j \in ToSet(sm.mail[q])
    BY <1>4 DEF Aside
  <2>2. ClaimsIn(u, phase, at, acks, j) = ClaimsIn(sm, phase, at, acks, j)
    BY ONLY <2>1, SameClaims
  <2>3. QED
    BY <1>1, <2>2 DEF Standing
<1>7. ASSUME NEW j \in Server
      PROVE  Hands(u, sm, phase', j, Standing(j), ClaimsIn(u, phase', at', acks', j))
  <2>1. Moves(phase', Standing(j), ClaimsIn(u, phase', at', acks', j))
    BY <1>6 DEF Moves
  <2>2. CASE j = i
    BY <1>4, <2>1, <2>2 DEF Hands
  <2>3. CASE j # i
    BY <1>4, <2>1, <2>3 DEF Hands
  <2>4. QED
    BY <2>2, <2>3
<1>8. Before(u)
  BY <1>5, <1>7, BeforeLooking
<1>9. Settles
  BY <1>1, <1>3, <1>8, NoLooking
<1>10. /\ prepared' \subseteq prepared \cup {j \in Server : \E e \in drains : j \in e.acked}
       /\ \A e \in drains' : e \in drains \/ \E d \in drains : e.acked = d.acked
  <2>1. PICK ans : ans = IF Free(sm, i) THEN answers ELSE ErrorTo(answers, sm.caller[i], "died")
    OBVIOUS
  <2>2. DrainFailed(i, ans)
    BY <2>1 DEF Exit
  <2>3. CASE UNCHANGED <<drains, prepared>>
    BY <2>3
  <2>4. ASSUME NEW e \in drains, NEW p \in e.pends,
               Coordinated(e, [e EXCEPT !.pends = (e.pends \ {p}) \cup {[p EXCEPT !.state = "failed"]}], ans)
        PROVE  /\ prepared' \subseteq prepared \cup {j \in Server : \E d \in drains : j \in d.acked}
               /\ \A f \in drains' : f \in drains \/ \E d \in drains : f.acked = d.acked
    <3>1. PICK new : new = [e EXCEPT !.pends = (e.pends \ {p}) \cup {[p EXCEPT !.state = "failed"]}]
      OBVIOUS
    <3>2. e \in Entry
      BY DEF ServiceInv, TypeOK
    <3>3. new.acked = e.acked /\ e.acked \subseteq Server
      BY <3>1, <3>2 DEF Entry
    <3>4. Coordinated(e, new, ans)
      BY <2>4, <3>1
    <3>5. \/ drains' = (drains \ {e}) \cup {new} /\ prepared' = prepared
          \/ drains' = drains \ {e} /\ prepared' \subseteq prepared \cup new.acked
      BY <3>4 DEF Coordinated
    <3>6. QED
      BY <3>3, <3>5
  <2>5. QED
    BY <2>2, <2>3, <2>4 DEF DrainFailed
<1>11. ASSUME NEW j \in Server PROVE Lives(j)' /\ (Parting(j)' => Retired(j)')
  <2>1. Lives(j) /\ (Parting(j) => Retired(j)) /\ (Parting(j)' => Parting(j))
    BY <1>10 DEF ServiceInv, Parting
  <2>2. Parts(j)
    <3>1. CASE j = i
      <4>1. srv'[j] = "gone" /\ srv[j] = "dead" /\ j \notin sm'.known /\ leaving' = leaving
            /\ \A c \in Call : <<c, j>> \in at' => <<c, j>> \in at
        BY <1>1, <1>2, <1>3, <1>4, <3>1
      <4>2. QED
        BY <2>1, <4>1 DEF Parts, Lives, Retired
    <3>2. CASE j # i
      <4>1. srv'[j] = srv[j] /\ (j \in sm'.known <=> j \in sm.known) /\ at' = at
            /\ leaving' = leaving
        BY <1>1, <1>2, <1>3, <1>4, <3>2
      <4>2. QED
        BY <2>1, <4>1 DEF Parts, Lives, Retired
    <3>3. QED
      BY <3>1, <3>2
  <2>3. QED
    BY <1>9, <2>2, PartsKeep
<1>12. \A d \in Call : Staged(d)'
  BY <1>1, StagedStill DEF ServiceInv
<1>13. QED
  BY <1>9, <1>11, <1>12 DEF After

(* A lookup is made last. *)
LEMMA OneLooking ==
  ASSUME NEW m \in State, Before(m), NEW l \in Lookup, phase'[l] # "none", sm' \in Looked(m, l)
  PROVE  Settles /\ sm'.known = m.known
<1>1. PICK u, ph, w, k : u = sm' /\ ph = phase' /\ w = at' /\ k = acks'
  OBVIOUS
<1>2. u \in Looked(m, l) /\ Safe(m, ph, w, k) /\ ph[l] # "none"
  BY <1>1 DEF Before
<1>3. Safe(u, ph, w, k) /\ Kin(u, m, ph, w, k)
  BY ONLY <1>2, m \in State, l \in Lookup, LookedSafe
<1>4. QED
  BY <1>1, <1>3, AfterLooking

(* The first pending lookup of some. *)
LEMMA FirstLooking ==
  ASSUME NEW m \in State, Before(m), NEW these, sm' \in FirstLooked(m, these)
  PROVE  Settles /\ sm'.known = m.known
<1>1. PICK u, ph, w, k : u = sm' /\ ph = phase' /\ w = at' /\ k = acks'
  OBVIOUS
<1>2. u \in FirstLooked(m, these) /\ Safe(m, ph, w, k)
  BY <1>1 DEF Before
<1>3. Safe(u, ph, w, k) /\ Kin(u, m, ph, w, k)
  BY ONLY <1>2, m \in State, FirstLookedSafe
<1>4. QED
  BY <1>1, <1>3, AfterLooking

(* All lookups of some. *)
LEMMA AllLooking ==
  ASSUME NEW m \in State, Before(m), NEW ls \in Seq(Lookup),
         \A n \in DOMAIN ls : phase'[ls[n]] # "none", sm' \in LookedAll(m, ls)
  PROVE  Settles /\ sm'.known = m.known
<1>1. PICK u, ph, w, k : u = sm' /\ ph = phase' /\ w = at' /\ k = acks'
  OBVIOUS
<1>2. u \in LookedAll(m, ls) /\ Safe(m, ph, w, k) /\ \A n \in DOMAIN ls : ph[ls[n]] # "none"
  BY <1>1 DEF Before
<1>3. Safe(u, ph, w, k) /\ Kin(u, m, ph, w, k)
  BY ONLY <1>2, m \in State, ls \in Seq(Lookup), LookedAllSafe
<1>4. QED
  BY <1>1, <1>3, AfterLooking

(* Lookups that were pending have been made. *)
LEMMA PendingMade ==
  ASSUME ServiceInv, NEW ls \in Seq(Lookup), ToSet(ls) \subseteq ToSet(sm.pending)
  PROVE  \A n \in DOMAIN ls : phase[ls[n]] # "none"
<1>1. SUFFICES ASSUME NEW n \in DOMAIN ls PROVE phase[ls[n]] # "none"
  OBVIOUS
<1>2. ls[n] \in ToSet(ls) /\ ls[n] \in Lookup
  BY DEF ToSet
<1>3. Mails(sm, phase, ls[n])
  BY <1>2 DEF ServiceInv, Safe
<1>4. QED
  BY <1>2, <1>3 DEF Mails

(* An instance that has nothing to do, or is known, advertises. *)
LEMMA Advertising ==
  ASSUME ServiceInv, NEW i \in Server, NEW add \in SUBSET Service, NEW remove,
         sm' \in Advertised(i, add, remove), phase' = phase, at' = at, acks' = acks,
         i \in sm.known \/ Standing(i) = {}
  PROVE  Settles /\ sm'.known = sm.known \cup {i}
<1>1. sm \in State /\ Safe(sm, phase, at, acks)
  BY TypeParts DEF ServiceInv
<1>2. PICK m : m = [sm EXCEPT !.known = @ \cup {i}, !.serves[i] = (@ \cup add) \ remove]
  OBVIOUS
<1>3. /\ m \in State /\ Aside(m, sm) /\ m.known = sm.known \cup {i}
      /\ m.busy = sm.busy /\ m.caller = sm.caller
      /\ \A j \in Server : j # i => m.serves[j] = sm.serves[j]
  <2>1. sm.serves \in [Server -> SUBSET Service] /\ sm.known \in SUBSET Server
    BY <1>1, Fields
  <2>2. (sm.serves[i] \cup add) \ remove \in SUBSET Service
    BY <2>1
  <2>3. PICK f \in [Server -> SUBSET Service], g \in SUBSET Server :
          f = [sm.serves EXCEPT ![i] = (@ \cup add) \ remove] /\ g = sm.known \cup {i}
    BY <2>1, <2>2
  <2>4. m = [sm EXCEPT !.known = g, !.serves = f]
    BY <1>2, <2>3
  <2>5. /\ m \in State /\ Aside(m, sm) /\ m.known = g /\ m.serves = f
        /\ m.busy = sm.busy /\ m.caller = sm.caller
    BY <1>1, <2>4 DEF State, Aside
  <2>6. \A j \in Server : j # i => f[j] = sm.serves[j]
    BY <2>1, <2>3
  <2>7. QED
    BY <2>3, <2>5, <2>6
<1>4. Fewer(m, sm) /\ \A q \in Lookup : Goes(phase[q], phase'[q])
  BY <1>3 DEF Fewer, Goes, Aside
<1>5. ASSUME NEW j \in Server PROVE ClaimsIn(m, phase', at', acks', j) = Standing(j)
  <2>1. \A q \in Lookup : j \in ToSet(m.mail[q]) <=> j \in ToSet(sm.mail[q])
    BY <1>3 DEF Aside
  <2>2. ClaimsIn(m, phase, at, acks, j) = ClaimsIn(sm, phase, at, acks, j)
    BY ONLY <2>1, SameClaims
  <2>3. QED
    BY <2>2 DEF Standing
<1>6. ASSUME NEW j \in Server
      PROVE  Hands(m, sm, phase', j, Standing(j), ClaimsIn(m, phase', at', acks', j))
  <2>1. Moves(phase', Standing(j), ClaimsIn(m, phase', at', acks', j))
    BY <1>5 DEF Moves
  <2>2. CASE j \in sm.known \/ j # i
    BY <1>3, <2>1, <2>2 DEF Hands
  <2>3. CASE j = i /\ i \notin sm.known
    <3>1. sm.busy[i] = Nobody /\ sm.caller[i] = Nobody
      BY <1>1, <2>3 DEF Safe, Reserves, Away
    <3>2. ClaimsIn(m, phase', at', acks', j) = {}
      BY <1>5, <2>3
    <3>3. QED
      BY <1>3, <2>3, <3>1, <3>2 DEF Hands
  <2>4. QED
    BY <2>2, <2>3
<1>7. Before(m)
  BY <1>4, <1>6, BeforeLooking
<1>8. sm' \in FirstLooked(m, {l \in Lookup : HasName(m, i, ServiceOf(l))})
  BY <1>2 DEF Advertised
<1>9. QED
  BY <1>3, <1>7, <1>8, FirstLooking

(* A server starts. *)
LEMMA StartSafe ==
  ASSUME ServiceInv, NEW i \in Server, Start(i)
  PROVE  After
<1>1. /\ srv[i] = "down" /\ srv' = [srv EXCEPT ![i] = "up"] /\ sm' \in Advertised(i, Offers[i], {})
      /\ phase' = phase /\ at' = at /\ acks' = acks /\ UNCHANGED <<drains, prepared, leaving>>
  BY DEF Start, drainVars
<1>2. Lives(i) /\ srv \in [Server -> {"down", "up", "dead", "gone"}] /\ (Parting(i) => Retired(i))
  BY TypeParts DEF ServiceInv
<1>3. Offers[i] \in SUBSET Service /\ Standing(i) = {}
  BY <1>1, <1>2, ServiceAssumption DEF Lives
<1>4. Settles /\ sm'.known = sm.known \cup {i}
  BY <1>1, <1>3, Advertising
<1>5. ASSUME NEW j \in Server PROVE Lives(j)' /\ (Parting(j)' => Retired(j)')
  <2>1. Lives(j) /\ (Parting(j) => Retired(j)) /\ (Parting(j)' <=> Parting(j))
    BY <1>1 DEF ServiceInv, Parting
  <2>2. Parts(j)
    <3>1. CASE j = i
      <4>1. srv'[j] = "up" /\ j \in sm'.known /\ j \notin leaving
        BY <1>1, <1>2, <1>4, <3>1 DEF Lives
      <4>2. ~ Parting(j)
        BY <1>1, <1>2, <3>1 DEF Retired
      <4>3. QED
        BY <1>1, <2>1, <4>1, <4>2 DEF Parts
    <3>2. CASE j # i
      <4>1. srv'[j] = srv[j] /\ (j \in sm'.known <=> j \in sm.known)
        BY <1>1, <1>2, <1>4, <3>2
      <4>2. QED
        BY <1>1, <2>1, <4>1 DEF Parts, Lives, Retired
    <3>3. QED
      BY <3>1, <3>2
  <2>3. QED
    BY <1>4, <2>2, PartsKeep
<1>6. \A d \in Call : Staged(d)'
  BY <1>1, StagedStill DEF ServiceInv
<1>7. QED
  BY <1>4, <1>5, <1>6 DEF After

(* A server that may be drained advertises nothing from inside its calls.  *)
Quiet == \A P \in Drains, i \in Server : i \in P => Extra[i] = {}

(* A server advertises or unadvertises in a call. *)
LEMMA TpSafe ==
  ASSUME Quiet, ServiceInv, NEW i \in Server, NEW s \in Service,
         TpAdvertise(i, s) \/ TpUnadvertise(i, s)
  PROVE  After
<1>1. /\ srv[i] = "up" /\ s \in Extra[i]
      /\ sm' \in Advertised(i, {s}, {}) \/ sm' \in Advertised(i, {}, {s})
      /\ phase' = phase /\ at' = at /\ acks' = acks /\ UNCHANGED <<drainVars, srv>>
  BY DEF TpAdvertise, TpUnadvertise, InCall
<1>2. i \in sm.known
  BY <1>1 DEF ServiceInv, Lives, Quiet
<1>3. Settles /\ sm'.known = sm.known \cup {i}
  <2>1. {s} \in SUBSET Service /\ {} \in SUBSET Service
    OBVIOUS
  <2>2. QED
    BY <1>1, <1>2, <2>1, Advertising
<1>4. sm'.known = sm.known
  BY <1>2, <1>3
<1>5. \A j \in Server : Lives(j)' /\ (Parting(j)' => Retired(j)')
  BY <1>1, <1>3, <1>4, SameParts
<1>6. \A d \in Call : Staged(d)'
  BY <1>1, StagedStill DEF ServiceInv
<1>7. QED
  BY <1>3, <1>5, <1>6 DEF After

(* The connections of the gateway change: who can be served looks again.   *)
LEMMA RemoteAdvertiseSafe ==
  ASSUME ServiceInv, NEW r \in Remote, NEW s \in Service, RemoteAdvertise(r, s)
  PROVE  After
<1>1. sm \in State /\ Safe(sm, phase, at, acks)
  BY TypeParts DEF ServiceInv
<1>2. UNCHANGED <<drainVars, srv>> /\ phase' = phase /\ at' = at /\ acks' = acks
  BY DEF RemoteAdvertise, processVars
<1>3. ASSUME NEW add \in SUBSET Service, NEW remove \in SUBSET Service, NEW reset,
             sm' \in RemoteAdvertised(r, add, remove, reset)
      PROVE  Settles /\ sm'.known = sm.known
  <2>1. PICK f \in SUBSET (Service \X Remote) :
          f = ((IF reset THEN {e \in sm.remotes : e[2] # r} ELSE sm.remotes)
               \cup (add \X {r})) \ (remove \X {r})
    BY <1>1, Fields
  <2>2. PICK v : v = [sm EXCEPT !.remotes = f]
    OBVIOUS
  <2>3. v.pending = sm.pending /\ sm.pending \in Seq(Lookup)
    BY <1>1, <2>2, Fields DEF State
  <2>4. PICK ready : ready = {l \in Lookup : ~ Empty(v, ServiceOf(l))}
    OBVIOUS
  <2>5. PICK p, q : p = Without(sm.pending, ready) /\ q = Without(sm.pending, Lookup \ ready)
    OBVIOUS
  <2>6. /\ p \in Seq(Lookup) /\ ToSet(p) \subseteq ToSet(sm.pending)
        /\ q \in Seq(Lookup) /\ ToSet(q) \subseteq ToSet(sm.pending)
    BY <2>3, <2>5, WithoutIn
  <2>7. PICK u : u = [v EXCEPT !.pending = p]
    OBVIOUS
  <2>8. /\ u \in State /\ u.known = sm.known /\ u.serves = sm.serves /\ u.busy = sm.busy
        /\ u.caller = sm.caller /\ u.pending = p /\ u.mail = sm.mail
    BY <1>1, <2>2, <2>6, <2>7 DEF State
  <2>9. sm' \in LookedAll(u, q)
    BY <1>3, <2>1, <2>2, <2>3, <2>4, <2>5, <2>7 DEF RemoteAdvertised
  <2>10. Fewer(u, sm) /\ \A l \in Lookup : Goes(phase[l], phase'[l])
    BY <1>2, <2>6, <2>8 DEF Fewer, Goes
  <2>11. Before(u)
    BY <1>2, <2>8, <2>10, Losing
  <2>12. \A n \in DOMAIN q : phase'[q[n]] # "none"
    BY <1>2, <2>6, PendingMade
  <2>13. QED
    BY <2>6, <2>8, <2>9, <2>11, <2>12, AllLooking
<1>4. {s} \in SUBSET Service /\ {} \in SUBSET Service
  OBVIOUS
<1>5. Settles /\ sm'.known = sm.known
  BY <1>3, <1>4 DEF RemoteAdvertise
<1>6. \A j \in Server : Lives(j)' /\ (Parting(j)' => Retired(j)')
  BY <1>2, <1>5, SameParts
<1>7. \A d \in Call : Staged(d)'
  BY <1>2, StagedStill DEF ServiceInv
<1>8. QED
  BY <1>5, <1>6, <1>7 DEF After

(* A call that went to another domain ends. *)
LEMMA RemoteServeSafe ==
  ASSUME ServiceInv, NEW r \in Remote, NEW c \in Call, RemoteServe(c, r)
  PROVE  After
<1>1. /\ UNCHANGED <<drainVars, srv>> /\ phase' = phase /\ at' = at \ {<<c, r>>} /\ acks' = acks
      /\ sm' = sm
  BY DEF RemoteServe, processVars
<1>2. Fewer(sm', sm) /\ \A l \in Lookup : Goes(phase[l], phase'[l])
  BY <1>1 DEF Fewer, Goes
<1>3. at' \subseteq at
  BY <1>1
<1>4. Settles
  BY <1>1, <1>2, <1>3, Losing, NoLooking
<1>5. \A j \in Server : Lives(j)' /\ (Parting(j)' => Retired(j)')
  BY <1>1, <1>3, <1>4, SameParts
<1>6. \A d \in Call : Staged(d)'
  BY <1>1, <1>3, StagedStill DEF ServiceInv
<1>7. QED
  BY <1>4, <1>5, <1>6 DEF After

(* The forward cache takes a call, and looks it up. *)
LEMMA CacheRequestSafe ==
  ASSUME ServiceInv, NEW c \in Call, CacheRequest(c)
  PROVE  After
<1>1. PICK l \in Lookup : l = Cache(c) /\ l[1] = c
  BY CallLookups
<1>2. /\ <<c, "cache">> \in at /\ at' = at \ {<<c, "cache">>}
      /\ phase' = [phase EXCEPT ![l] = "looking"] /\ sm' \in Looked(sm, l)
      /\ acks' = acks /\ UNCHANGED <<drainVars, srv>>
  BY <1>1 DEF CacheRequest, processVars
<1>3. Staged(c) /\ phase[l] = "none"
  BY <1>1, <1>2 DEF ServiceInv, Staged
<1>4. at' \subseteq at
  BY <1>2
<1>5. Settles /\ sm'.known = sm.known
  BY <1>2, <1>3, <1>4, Looking
<1>6. \A j \in Server : Lives(j)' /\ (Parting(j)' => Retired(j)')
  BY <1>2, <1>4, <1>5, SameParts
<1>7. ASSUME NEW d \in Call PROVE Staged(d)'
  <2>1. Staged(d) /\ TypeOK /\ phase \in [Lookup -> Stages]
    BY TypeParts DEF ServiceInv
  <2>2. CASE d # c
    <3>1. \A p \in Place : <<d, p>> \in at' => <<d, p>> \in at
      BY <1>4
    <3>2. l[1] # d
      BY <1>1, <2>2
    <3>3. QED
      BY ONLY <1>2, <2>1, <3>1, <3>2, l \in Lookup, d \in Call, StagedOthers
  <2>3. CASE d = c
    <3>1. /\ phase'[Own(c)] = phase[Own(c)] /\ phase'[Hop(c)] = phase[Hop(c)]
          /\ phase'[Cache(c)] = "looking"
      BY <1>1, <1>2, <2>1, CallLookups
    <3>2. phase[Forwarder(c)] \in Over /\ (Context[c] = "forward" => phase[Hop(c)] = "none")
      BY <1>2, <1>3 DEF Staged
    <3>3. "cache" \in Place /\ phase[Own(c)] \in Over
      BY <1>2, <1>3 DEF Staged, Place
    <3>4. <<c, "cache">> \notin at'
      BY <1>2
    <3>5. QED
      BY <2>3, <3>1, <3>2, <3>3, <3>4 DEF Staged, Forwarder, Own, Hop, Cache
  <2>4. QED
    BY <2>2, <2>3
<1>8. QED
  BY <1>5, <1>6, <1>7 DEF After

(* The forward cache has a reply, and sends the call on. *)
LEMMA CacheReplySafe ==
  ASSUME ServiceInv, NEW c \in Call, CacheReply(c)
  PROVE  After
<1>1. PICK l, x : l \in Lookup /\ l = Cache(c) /\ l[1] = c /\ l[2] = "cache" /\ x = Head(sm.mail[l])
  BY CallLookups
<1>2. /\ phase[l] = "looking" /\ sm.mail[l] # <<>>
      /\ phase' = [phase EXCEPT ![l] = "ended"] /\ sm' = [sm EXCEPT !.mail[l] = Tail(@)]
      /\ acks' = acks /\ UNCHANGED <<drainVars, srv>>
  BY <1>1 DEF CacheReply, processVars
<1>3. at' = IF x \in Place /\ Up(x) THEN at \cup {<<c, x>>} ELSE at
  BY <1>1 DEF CacheReply
<1>4. /\ \A d, p : <<d, p>> \in at' => <<d, p>> \in at \/ (d = c /\ p = x)
      /\ \A d, p : <<d, p>> \in at => <<d, p>> \in at'
  BY <1>3
<1>5. Settles /\ sm'.known = sm.known
  <2>1. \A a \in acks' : a \in acks \/ (/\ a = AckOf(c, a.from) /\ <<c, a.from>> \in at
                                        /\ <<c, a.from>> \in at' => a.from = x)
    BY <1>2
  <2>2. Takes(l, c, x, "ended")
    BY <1>1, <1>2, <1>4, <2>1 DEF Takes, Active, Over
  <2>3. QED
    BY <1>1, <2>2, Reading
<1>6. \A j \in Server : Lives(j)' /\ (Parting(j)' => Retired(j)')
  <2>1. \A j \in Server, d \in Call : <<d, j>> \in at' => <<d, j>> \in at \/ srv[j] = "up"
    BY <1>3 DEF Up
  <2>2. QED
    BY <1>2, <1>5, <2>1, SameParts
<1>7. x # "cache"
  <2>1. Mails(sm, phase, l) /\ sm.mail \in [Lookup -> Seq(Notice)]
    BY <1>1, Fields, TypeParts DEF ServiceInv, Safe
  <2>2. x \in ToSet(sm.mail[l])
    BY <1>1, <1>2, <2>1, TailIn
  <2>3. ContextOf(l) = "no_busy"
    BY <1>1 DEF ContextOf
  <2>4. QED
    BY <2>1, <2>2, <2>3 DEF Mails
<1>8. ASSUME NEW d \in Call PROVE Staged(d)'
  <2>1. Staged(d) /\ TypeOK /\ phase \in [Lookup -> Stages]
    BY TypeParts DEF ServiceInv
  <2>2. CASE d # c
    <3>1. \A p \in Place : <<d, p>> \in at' => <<d, p>> \in at
      BY <1>4, <2>2
    <3>2. l[1] # d
      BY <1>1, <2>2
    <3>3. QED
      BY ONLY <1>1, <1>2, <2>1, <3>1, <3>2, d \in Call, StagedOthers
  <2>3. CASE d = c
    <3>1. /\ phase'[Own(c)] = phase[Own(c)] /\ phase'[Hop(c)] = phase[Hop(c)]
          /\ phase'[Cache(c)] = "ended"
      BY <1>1, <1>2, <2>1, CallLookups
    <3>2. phase[Own(c)] \in Over /\ phase[Forwarder(c)] \in Over
          /\ (Context[c] = "forward" => phase[Hop(c)] = "none")
      BY <1>1, <1>2, <2>1, <2>3 DEF Staged
    <3>3. <<c, "cache">> \notin at'
      BY <1>1, <1>2, <1>4, <1>7, <2>1, <2>3 DEF Staged
    <3>4. QED
      BY <2>3, <3>1, <3>2, <3>3 DEF Staged, Forwarder, Own, Hop, Cache, Over
  <2>4. QED
    BY <2>2, <2>3
<1>9. QED
  BY <1>5, <1>6, <1>8 DEF After

(* An ACK is taken: nothing is left of the claim, and nobody else has one. *)
LEMMA AckTaken ==
  ASSUME ServiceInv, NEW a \in acks, NEW m, Fewer(m, sm), UNCHANGED <<phase, at>>,
         acks' = acks \ {a}
  PROVE  /\ ClaimsIn(m, phase', at', acks', a.from) = {} /\ Standing(a.from) # {}
         /\ \A i \in Server : ClaimsIn(m, phase', at', acks', i) \subseteq Standing(i)
<1>1. Safe(sm, phase, at, acks) /\ a.from \in Server
  BY TypeParts DEF ServiceInv
<1>2. \A l \in Lookup : Goes(phase[l], phase'[l])
  BY DEF Goes
<1>3. ASSUME NEW i \in Server
      PROVE  ClaimsIn(m, phase', at', acks', i) \subseteq ClaimsIn(sm, phase, at, acks, i)
  <2>1. ASSUME NEW q \in Lookup, Names(m, phase', q, i) PROVE Names(sm, phase, q, i)
    <3>1. Mails(sm, phase, q) /\ ToSet(m.mail[q]) \subseteq ToSet(sm.mail[q])
          /\ Goes(phase[q], phase'[q])
      BY <1>1, <1>2 DEF Safe, Fewer
    <3>2. QED
      BY ONLY <2>1, <3>1, NamesFewer
  <2>2. \A c \in Call : <<c, i>> \in at' => <<c, i>> \in at
    OBVIOUS
  <2>3. \A b \in acks' : b.from = i => b \in acks
    OBVIOUS
  <2>4. QED
    BY ONLY <2>1, <2>2, <2>3, LessClaims
<1>4. PICK C, D : /\ C = ClaimsIn(sm, phase, at, acks, a.from)
                  /\ D = ClaimsIn(m, phase', at', acks', a.from)
  OBVIOUS
<1>5. <<"ack", a>> \in C /\ <<"ack", a>> \notin D
  BY <1>4, ClaimIs
<1>6. Alone(C)
  BY <1>1, <1>4 DEF Safe, Reserves
<1>7. D \subseteq C
  BY <1>1, <1>3, <1>4
<1>8. D = {}
  BY <1>5, <1>6, <1>7 DEF Alone
<1>9. QED
  BY <1>3, <1>4, <1>5, <1>8 DEF Standing

(* The fan-outs take an ACK: only its server may have come to its end.     *)
LEMMA DrainAckParts ==
  ASSUME ServiceInv, NEW a \in acks, DrainAck(a)
  PROVE  \A i \in Server : Parting(i)' => Parting(i) \/ i = a.from
<1>1. /\ prepared' \subseteq prepared \cup {a.from} \cup {i \in Server : \E e \in drains : i \in e.acked}
      /\ \A e \in drains' : e \in drains \/ \E d \in drains : e.acked = d.acked \cup {a.from}
  <2>1. CASE UNCHANGED <<drains, prepared>>
    BY <2>1
  <2>2. ASSUME NEW e \in drains, NEW p \in e.pends,
               Coordinated(e, [pends |-> (e.pends \ {p}) \cup {[p EXCEPT !.state = "received"]},
                               acked |-> e.acked \cup {a.from}], answers)
        PROVE  /\ prepared' \subseteq prepared \cup {a.from}
                                      \cup {i \in Server : \E d \in drains : i \in d.acked}
               /\ \A f \in drains' : f \in drains \/ \E d \in drains : f.acked = d.acked \cup {a.from}
    <3>1. PICK new : new = [pends |-> (e.pends \ {p}) \cup {[p EXCEPT !.state = "received"]},
                            acked |-> e.acked \cup {a.from}]
      OBVIOUS
    <3>2. new.acked = e.acked \cup {a.from} /\ e.acked \subseteq Server
      BY <3>1 DEF ServiceInv, TypeOK, Entry
    <3>3. Coordinated(e, new, answers)
      BY <2>2, <3>1
    <3>4. \/ drains' = (drains \ {e}) \cup {new} /\ prepared' = prepared
          \/ drains' = drains \ {e} /\ prepared' \subseteq prepared \cup new.acked
      BY <3>3 DEF Coordinated
    <3>5. QED
      BY <3>2, <3>4
  <2>3. QED
    BY <2>1, <2>2 DEF DrainAck
<1>2. QED
  BY <1>1 DEF Parting

(* The manager takes an ACK. *)
LEMMA AckSafe ==
  ASSUME ServiceInv, NEW a \in acks, Ack(a)
  PROVE  After
<1>1. /\ TypeOK /\ sm \in State /\ Safe(sm, phase, at, acks) /\ a.from \in Server
  BY TypeParts DEF ServiceInv
<1>2. UNCHANGED <<phase, at, srv>> /\ acks' = acks \ {a}
  BY DEF Ack, processVars
<1>3. \A l \in Lookup : Goes(phase[l], phase'[l])
  BY <1>2 DEF Goes
<1>4. \A d \in Call : Staged(d)'
  BY <1>2, StagedStill DEF ServiceInv
<1>5. PICK u \in State :
        /\ Kept(u, sm) /\ u.busy = sm.busy /\ u.caller = sm.caller
        /\ u.pending = sm.pending /\ u.mail = sm.mail
        /\ \/ /\ a.from \in sm.known
              /\ \E fits : sm' \in FirstLooked(Freed(u, a.from), fits)
              /\ UNCHANGED <<manager, drainVars, answers>>
           \/ /\ a.from \in sm.known /\ Free(sm, a.from) /\ sm' = u
              /\ manager' = "failed" /\ UNCHANGED <<drainVars, answers>>
           \/ /\ a.from \notin sm.known /\ sm' = u /\ DrainAck(a)
              /\ UNCHANGED <<manager, leaving>>
  BY <1>1, AckIs
<1>6. Before(u)
  <2>1. Fewer(u, sm) /\ at' \subseteq at /\ acks' \subseteq acks
    BY <1>2, <1>5 DEF Fewer
  <2>2. QED
    BY <1>3, <1>5, <2>1, Losing DEF Kept
<1>7. CASE /\ a.from \in sm.known
           /\ \E fits : sm' \in FirstLooked(Freed(u, a.from), fits)
           /\ UNCHANGED <<manager, drainVars, answers>>
  <2>1. PICK m : m = Freed(u, a.from)
    OBVIOUS
  <2>2. /\ m \in State /\ Aside(m, u) /\ m.known = u.known /\ m.serves = u.serves
        /\ m.busy[a.from] = Nobody /\ m.caller[a.from] = Nobody
        /\ \A j \in Server : j # a.from => m.busy[j] = u.busy[j] /\ m.caller[j] = u.caller[j]
    BY <1>1, <2>1, FreedIs
  <2>3. Fewer(m, sm)
    BY <1>5, <2>2 DEF Fewer, Aside
  <2>4. /\ ClaimsIn(m, phase', at', acks', a.from) = {}
        /\ \A i \in Server : ClaimsIn(m, phase', at', acks', i) \subseteq Standing(i)
    BY <1>2, <2>3, AckTaken
  <2>5. ASSUME NEW j \in Server
        PROVE  Hands(m, sm, phase', j, Standing(j), ClaimsIn(m, phase', at', acks', j))
    <3>1. CASE j = a.from
      BY <1>5, <1>7, <2>2, <2>4, <3>1 DEF Hands, Kept
    <3>2. CASE j # a.from
      BY <1>5, <2>2, <2>4, <3>2 DEF Hands, Moves, Kept
    <3>3. QED
      BY <3>1, <3>2
  <2>6. Before(m)
    BY <1>3, <2>3, <2>5, BeforeLooking
  <2>7. PICK fits : sm' \in FirstLooked(m, fits)
    BY <1>7, <2>1
  <2>8. Settles /\ sm'.known = m.known
    BY <2>2, <2>6, <2>7, FirstLooking
  <2>9. \A j \in Server : Lives(j)' /\ (Parting(j)' => Retired(j)')
    BY <1>2, <1>5, <1>7, <2>2, <2>8, SameParts DEF Kept
  <2>10. QED
    BY <1>4, <2>8, <2>9 DEF After
<1>8. CASE sm' = u /\ UNCHANGED drainVars
  <2>1. Settles
    BY <1>6, <1>8, NoLooking
  <2>2. \A j \in Server : Lives(j)' /\ (Parting(j)' => Retired(j)')
    BY <1>2, <1>5, <1>8, <2>1, SameParts DEF Kept
  <2>3. QED
    BY <1>4, <2>1, <2>2 DEF After
<1>9. CASE a.from \notin sm.known /\ sm' = u /\ DrainAck(a) /\ UNCHANGED leaving
  <2>1. Settles
    BY <1>6, <1>9, NoLooking
  <2>2. Fewer(sm', sm) /\ sm'.known = sm.known
    BY <1>5, <1>9 DEF Fewer, Kept
  <2>3. Standing(a.from)' = {} /\ Standing(a.from) # {}
    BY <1>2, <2>2, AckTaken DEF Standing
  <2>4. ASSUME NEW j \in Server PROVE Parts(j)
    <3>1. Lives(j) /\ (Parting(j) => Retired(j)) /\ (Parting(j)' => Parting(j) \/ j = a.from)
      BY <1>9, DrainAckParts DEF ServiceInv
    <3>2. CASE j = a.from
      BY <1>2, <1>9, <2>2, <2>3, <3>1, <3>2 DEF Parts, Lives, Retired
    <3>3. CASE j # a.from
      BY <1>2, <1>9, <2>2, <3>1, <3>3 DEF Parts, Lives, Retired
    <3>4. QED
      BY <3>2, <3>3
  <2>5. \A j \in Server : Lives(j)' /\ (Parting(j)' => Retired(j)')
    BY <2>1, <2>4, PartsKeep
  <2>6. QED
    BY <1>4, <2>1, <2>5 DEF After
<1>10. QED
  BY <1>5, <1>7, <1>8, <1>9

(* A call is late: its caller is consumed, the instance stays reserved.    *)
LEMMA TimeoutSafe ==
  ASSUME ServiceInv, NEW d \in sm.deadlines, Timeout(d)
  PROVE  After
<1>1. sm \in State
  BY TypeParts DEF ServiceInv
<1>2. UNCHANGED <<drainVars, srv>> /\ phase' = phase /\ at' = at /\ acks' = acks
  BY DEF Timeout, processVars
<1>3. /\ Kept(sm', sm) /\ sm'.busy = sm.busy /\ sm'.pending = sm.pending /\ sm'.mail = sm.mail
      /\ \A j \in Server : sm'.caller[j] \in {sm.caller[j], Nobody}
  <2>1. CASE sm' = [sm EXCEPT !.deadlines = @ \ {d}]
    BY <1>1, <2>1 DEF State, Kept
  <2>2. ASSUME NEW i \in Server, sm' = [[sm EXCEPT !.deadlines = @ \ {d}] EXCEPT !.caller[i] = Nobody]
        PROVE  /\ Kept(sm', sm) /\ sm'.busy = sm.busy /\ sm'.pending = sm.pending
               /\ sm'.mail = sm.mail
               /\ \A j \in Server : sm'.caller[j] \in {sm.caller[j], Nobody}
    <3>1. PICK q \in [Server -> Lookup \cup {Nobody}], ds \in SUBSET sm.deadlines :
            q = [sm.caller EXCEPT ![i] = Nobody] /\ ds = sm.deadlines \ {d}
      BY <1>1, Fields
    <3>2. sm' = [sm EXCEPT !.deadlines = ds, !.caller = q]
      BY <1>1, <2>2, <3>1 DEF State
    <3>3. /\ Kept(sm', sm) /\ sm'.busy = sm.busy /\ sm'.pending = sm.pending
          /\ sm'.mail = sm.mail /\ sm'.caller = q
      BY <1>1, <3>2 DEF State, Kept
    <3>4. \A j \in Server : q[j] \in {sm.caller[j], Nobody}
      BY <1>1, <3>1, Fields
    <3>5. QED
      BY <3>3, <3>4
  <2>3. QED
    BY <2>1, <2>2 DEF Timeout, Local
<1>4. Fewer(sm', sm) /\ \A l \in Lookup : Goes(phase[l], phase'[l])
  BY <1>2, <1>3 DEF Fewer, Goes
<1>5. Settles
  BY <1>2, <1>3, <1>4, Losing, NoLooking DEF Kept
<1>6. \A j \in Server : Lives(j)' /\ (Parting(j)' => Retired(j)')
  BY <1>2, <1>3, <1>5, SameParts DEF Kept
<1>7. \A c \in Call : Staged(c)'
  BY <1>2, StagedStill DEF ServiceInv
<1>8. QED
  BY <1>5, <1>6, <1>7 DEF After

(* The domain has answered. *)
LEMMA DiscoverySafe ==
  ASSUME ServiceInv, NEW corr \in sm.asked, DiscoveryReply(corr)
  PROVE  After
<1>1. TypeOK /\ sm \in State /\ Safe(sm, phase, at, acks)
  BY TypeParts DEF ServiceInv
<1>2. UNCHANGED <<drainVars, srv>> /\ phase' = phase /\ at' = at /\ acks' = acks
  BY DEF DiscoveryReply, processVars
<1>3. \A l \in Lookup : Goes(phase[l], phase'[l])
  BY <1>2 DEF Goes
<1>4. PICK u \in State :
        /\ Alike(u, sm)
        /\ \/ sm' = u /\ UNCHANGED manager
           \/ \E l \in Lookup, t \in Seq(Lookup) :
                ToSet(u.pending) = ToSet(t) \cup {l} /\ Again(u, l, t)
  BY <1>1, DiscoveryIs
<1>5. ASSUME NEW v, Kept(v, sm), v.busy = sm.busy, v.caller = sm.caller, v.mail = sm.mail,
             ToSet(v.pending) \subseteq ToSet(sm.pending)
      PROVE  Before(v)
  <2>1. Fewer(v, sm)
    BY <1>5 DEF Fewer
  <2>2. QED
    BY <1>2, <1>3, <1>5, <2>1, Losing DEF Kept
<1>6. Settles /\ sm'.known = sm.known
  <2>1. CASE sm' = u
    <3>1. Before(sm')
      BY <1>4, <1>5, <2>1 DEF Alike
    <3>2. QED
      BY <1>4, <2>1, <3>1, NoLooking DEF Alike, Kept
  <2>2. ASSUME NEW l \in Lookup, NEW t \in Seq(Lookup),
               ToSet(u.pending) = ToSet(t) \cup {l}, Again(u, l, t)
        PROVE  Settles /\ sm'.known = sm.known
    <3>1. PICK rest : rest = [u EXCEPT !.pending = t]
      OBVIOUS
    <3>2. /\ rest \in State /\ Kept(rest, sm) /\ rest.busy = sm.busy /\ rest.caller = sm.caller
          /\ rest.mail = sm.mail /\ rest.pending = t
      BY <1>4, <3>1 DEF State, Alike, Kept
    <3>3. ToSet(t) \subseteq ToSet(sm.pending) /\ l \in ToSet(sm.pending)
      BY <1>4, <2>2 DEF Alike
    <3>4. Before(rest)
      BY <1>5, <3>2, <3>3
    <3>5. phase'[l] # "none"
      BY <1>1, <1>2, <3>3 DEF Safe, Mails
    <3>6. CASE sm' \in Looked(rest, l)
      BY <3>2, <3>4, <3>5, <3>6, OneLooking DEF Kept
    <3>7. CASE sm' = [rest EXCEPT !.pending = <<l>> \o t]
      <4>1. PICK f \in Seq(Lookup) : f = <<l>> \o t /\ ToSet(f) = ToSet(t) \cup {l}
        <5>1. <<l>> \o t \in Seq(Lookup) /\ ToSet(<<l>> \o t) = ToSet(t) \cup {l}
          BY FrontIn
        <5>2. QED
          BY <5>1
      <4>2. sm' = [rest EXCEPT !.pending = f]
        BY <3>7, <4>1
      <4>3. /\ Kept(sm', sm) /\ sm'.busy = sm.busy /\ sm'.caller = sm.caller
            /\ sm'.mail = sm.mail /\ sm'.pending = f
        BY <3>2, <4>2 DEF State, Kept
      <4>4. Before(sm')
        BY <1>5, <3>3, <4>1, <4>3
      <4>5. QED
        BY <4>3, <4>4, NoLooking DEF Kept
    <3>8. CASE sm' = Told(rest, l, "absent")
      <4>1. PICK n, ph, w, k : n = sm' /\ ph = phase' /\ w = at' /\ k = acks'
        OBVIOUS
      <4>2. "absent" \in Notice \ (Server \cup {"busy"}) /\ "absent" # "cache"
        BY ServiceAssumption DEF Notice
      <4>3. n = Told(rest, l, "absent")
        BY <3>8, <4>1
      <4>4. n \in State /\ Kept(n, rest) /\ n.busy = rest.busy /\ n.caller = rest.caller
            /\ n.pending = rest.pending /\ n.deadlines = rest.deadlines
            /\ n.mail = Mailed(rest, l, "absent")
        BY <3>2, <4>2, <4>3, ToldIs
      <4>5. Waited(n, rest, l)
        BY <4>2, <4>4 DEF Waited
      <4>6. Safe(rest, ph, w, k) /\ ph[l] # "none"
        BY <3>4, <3>5, <4>1 DEF Before
      <4>7. Safe(n, ph, w, k) /\ Kin(n, rest, ph, w, k)
        BY ONLY <3>2, <4>4, <4>5, <4>6, l \in Lookup, WaitedSafe
      <4>8. Settles /\ sm'.known = rest.known
        BY <3>4, <4>1, <4>7, AfterLooking
      <4>9. QED
        BY <3>2, <4>8 DEF Kept
    <3>9. QED
      BY <2>2, <3>1, <3>6, <3>7, <3>8 DEF Again
  <2>3. QED
    BY <1>4, <2>1, <2>2
<1>7. \A j \in Server : Lives(j)' /\ (Parting(j)' => Retired(j)')
  BY <1>2, <1>6, SameParts
<1>8. \A c \in Call : Staged(c)'
  BY <1>2, StagedStill DEF ServiceInv
<1>9. QED
  BY <1>6, <1>7, <1>8 DEF After

(* Servers are asked to prepare for shutdown: they are out, and those that *)
(* have nothing to do are prepared.                                        *)
LEMMA PrepareShutdownSafe ==
  ASSUME ServiceInv, NEW P \in Drains, PrepareShutdown(P)
  PROVE  After
<1>1. TypeOK /\ sm \in State /\ Safe(sm, phase, at, acks) /\ P \subseteq Server
  BY TypeParts, ServiceAssumption DEF ServiceInv
<1>2. UNCHANGED srv /\ phase' = phase /\ at' = at /\ acks' = acks
  BY DEF PrepareShutdown, processVars
<1>3. PICK here : here = P \cap sm.known
  OBVIOUS
<1>4. PICK u \in State, p \in Seq(Lookup) :
        /\ sm' \in LookedAll(u, p) /\ ToSet(p) \subseteq ToSet(sm.pending)
        /\ u.known = sm.known \ here /\ ToSet(u.pending) \subseteq ToSet(sm.pending)
        /\ u.mail = sm.mail /\ \A i \in here : Away(u, i)
        /\ \A i \in Server \ here : /\ u.busy[i] = sm.busy[i] /\ u.caller[i] = sm.caller[i]
                                    /\ u.serves[i] = sm.serves[i]
  BY <1>1, <1>3, ShutdownIs
<1>5. Fewer(u, sm) /\ \A q \in Lookup : Goes(phase[q], phase'[q])
  BY <1>2, <1>4 DEF Fewer, Goes
<1>6. ASSUME NEW j \in Server
      PROVE  Hands(u, sm, phase', j, Standing(j), ClaimsIn(u, phase', at', acks', j))
  <2>1. \A q \in Lookup : j \in ToSet(u.mail[q]) <=> j \in ToSet(sm.mail[q])
    BY <1>4
  <2>2. ClaimsIn(u, phase, at, acks, j) = ClaimsIn(sm, phase, at, acks, j)
    BY ONLY <2>1, SameClaims
  <2>3. Moves(phase', Standing(j), ClaimsIn(u, phase', at', acks', j))
    BY <1>2, <2>2 DEF Moves, Standing
  <2>4. CASE j \in here
    BY <1>4, <2>3, <2>4 DEF Hands
  <2>5. CASE j \notin here
    BY <1>4, <2>3, <2>5 DEF Hands
  <2>6. QED
    BY <2>4, <2>5
<1>7. Before(u)
  BY <1>5, <1>6, BeforeLooking
<1>8. Settles /\ sm'.known = sm.known \ here
  <2>1. \A n \in DOMAIN p : phase'[p[n]] # "none"
    BY <1>2, <1>4, PendingMade
  <2>2. QED
    BY <1>4, <1>7, <2>1, AllLooking
<1>9. PICK busy : busy = {i \in here : ~ Free(sm, i)}
  OBVIOUS
<1>10. /\ P \cap leaving = {} /\ \A i \in P : srv[i] = "up"
       /\ leaving' = leaving \cup P /\ prepared' = prepared \cup (P \ busy)
       /\ \A e \in drains' : e \in drains \/ e.acked = {}
  <2>1. \E pends : drains' = IF busy = {} THEN drains
                             ELSE drains \cup {[pends |-> pends, acked |-> {}]}
    BY <1>3, <1>9, Zenon DEF PrepareShutdown
  <2>2. \A e \in drains' : e \in drains \/ e.acked = {}
    BY <2>1
  <2>3. QED
    BY <1>3, <1>9, <2>2 DEF PrepareShutdown
<1>11. ASSUME NEW j \in Server PROVE Lives(j)' /\ (Parting(j)' => Retired(j)')
  <2>1. Lives(j) /\ (Parting(j) => Retired(j)) /\ (Parting(j)' => Parting(j) \/ j \in P \ busy)
    BY <1>10 DEF ServiceInv, Parting
  <2>2. ASSUME j \in P \ busy PROVE j \in here /\ Standing(j) = {} /\ srv[j] = "up"
    <3>1. srv[j] = "up" /\ j \in sm.known
      BY <1>10, <2>1, <2>2 DEF Lives
    <3>2. j \in here /\ sm.busy[j] = Nobody
      BY <1>3, <1>9, <2>2, <3>1 DEF Free
    <3>3. Reserves(sm, j, Standing(j))
      BY <1>1 DEF Safe, Standing
    <3>4. QED
      BY <3>1, <3>2, <3>3 DEF Reserves
  <2>3. Parts(j)
    <3>1. srv'[j] = srv[j] /\ at' = at /\ (j \in sm'.known <=> j \in sm.known /\ j \notin here)
      BY <1>2, <1>8
    <3>2. j \in leaving' => srv'[j] # "down" /\ \E Q \in Drains : j \in Q
      BY <1>10, <2>1, <3>1 DEF Lives
    <3>3. srv'[j] = "up" /\ j \notin leaving' => j \in sm'.known
      BY <1>3, <1>10, <2>1, <3>1 DEF Lives
    <3>4. Parting(j)' => /\ j \notin sm'.known /\ srv'[j] # "down"
                         /\ Standing(j) = {} \/ Standing(j)' = {}
      BY <2>1, <2>2, <3>1 DEF Retired
    <3>5. QED
      BY <2>1, <3>1, <3>2, <3>3, <3>4 DEF Parts, Lives
  <2>4. QED
    BY <1>8, <2>3, PartsKeep
<1>12. \A d \in Call : Staged(d)'
  BY <1>2, StagedStill DEF ServiceInv
<1>13. QED
  BY <1>8, <1>11, <1>12 DEF After
-----------------------------------------------------------------------------
(* The invariant.                                                          *)

(* It holds at the start. *)
LEMMA InitSafe ==
  ASSUME Init
  PROVE  ServiceInv
<1>1. TypeOK
  BY InitType
<1>2. /\ sm.known = {} /\ sm.pending = <<>> /\ sm.mail = [l \in Lookup |-> <<>>]
      /\ sm.serves = [i \in Server |-> {}] /\ sm.busy = [i \in Server |-> Nobody]
      /\ sm.caller = [i \in Server |-> Nobody]
  BY DEF Init
<1>3. /\ at = {} /\ acks = {} /\ drains = {} /\ prepared = {} /\ leaving = {}
      /\ phase = [l \in Lookup |-> "none"] /\ srv = [i \in Server |-> "down"]
  BY DEF Init
<1>4. ToSet(<<>>) = {}
  BY DEF ToSet
<1>5. ASSUME NEW i \in Server PROVE Standing(i) = {}
  <2>1. \A l \in Lookup : ~ Names(sm, phase, l, i)
    BY <1>2, <1>4 DEF Names
  <2>2. PICK R, D, A : /\ R = {l \in Lookup : Names(sm, phase, l, i)}
                       /\ D = {c \in Call : <<c, i>> \in at} /\ A = {a \in acks : a.from = i}
    OBVIOUS
  <2>3. R = {} /\ D = {} /\ A = {}
    BY <1>3, <2>1, <2>2
  <2>4. ({"reply"} \X R) \cup ({"call"} \X D) \cup ({"ack"} \X A) = {}
    BY <2>3
  <2>5. QED
    BY <2>2, <2>4, Zenon DEF Standing, ClaimsIn
<1>6. Safe(sm, phase, at, acks)
  <2>1. \A i \in Server : Reserves(sm, i, Standing(i)) /\ Reads(sm, phase, i, Standing(i))
    BY <1>2, <1>5 DEF Reserves, Reads, Away, Alone
  <2>2. \A l \in Lookup : Mails(sm, phase, l)
    BY <1>2, <1>4 DEF Mails
  <2>3. QED
    BY <2>1, <2>2 DEF Safe, Standing
<1>7. \A i \in Server : Lives(i)
  BY <1>2, <1>3, <1>5 DEF Lives
<1>8. \A c \in Call : Staged(c)
  <2>1. SUFFICES ASSUME NEW c \in Call PROVE Staged(c)
    OBVIOUS
  <2>2. phase[Own(c)] = "none" /\ phase[Hop(c)] = "none" /\ phase[Cache(c)] = "none"
    BY <1>3, CallLookups
  <2>3. QED
    BY <1>3, <2>2 DEF Staged
<1>9. \A i \in Server : ~ Parting(i)
  BY <1>3 DEF Parting
<1>10. QED
  BY <1>1, <1>6, <1>7, <1>8, <1>9 DEF ServiceInv

(* Every step keeps it. *)
LEMMA InvStep ==
  ASSUME Quiet, ServiceInv, [Next]_vars
  PROVE  ServiceInv'
<1>1. TypeOK'
  BY TypeStep DEF ServiceInv
<1>2. ASSUME After PROVE ServiceInv'
  BY <1>1, <1>2, InvNext DEF After
<1>3. CASE CallerNext
  <2>1. PICK c \in Call : LookupRequest(c) \/ Receive(c) \/ Discard(c) \/ CallerDies(c)
    BY <1>3 DEF CallerNext
  <2>2. QED
    BY <1>2, <2>1, LookupRequestSafe, ReceiveSafe, DiscardSafe, CallerDiesSafe
<1>4. CASE ServerNext
  <2>1. PICK i \in Server :
          \/ Start(i) \/ Die(i) \/ Exit(i)
          \/ \E s \in Service : TpAdvertise(i, s) \/ TpUnadvertise(i, s)
          \/ \E c \in Call : Serve(c, i) \/ Forward(c, i) \/ Forwarded(c, i)
    BY <1>4 DEF ServerNext
  <2>2. CASE Start(i) \/ Die(i) \/ Exit(i)
    BY <1>2, <2>2, StartSafe, DieSafe, ExitSafe
  <2>3. CASE \E s \in Service : TpAdvertise(i, s) \/ TpUnadvertise(i, s)
    BY <1>2, <2>3, TpSafe
  <2>4. CASE \E c \in Call : Serve(c, i) \/ Forward(c, i) \/ Forwarded(c, i)
    BY <1>2, <2>4, ServeSafe, ForwardSafe, ForwardedSafe
  <2>5. QED
    BY <2>1, <2>2, <2>3, <2>4
<1>5. CASE RemoteNext
  BY <1>2, <1>5, RemoteAdvertiseSafe, RemoteServeSafe DEF RemoteNext
<1>6. CASE CacheNext
  BY <1>2, <1>6, CacheRequestSafe, CacheReplySafe DEF CacheNext
<1>7. CASE ManagerNext
  BY <1>2, <1>7, AckSafe, TimeoutSafe, DiscoverySafe, PrepareShutdownSafe DEF ManagerNext
<1>8. CASE UNCHANGED vars
  BY <1>1, <1>8 DEF vars, drainVars, processVars, ServiceInv, Lives, Staged, Parting, Retired,
                    Standing, Own, Hop, Cache, Forwarder
<1>9. QED
  BY <1>3, <1>4, <1>5, <1>6, <1>7, <1>8 DEF Next

(* At the start and after every step, when no server that is drained       *)
(* advertises from inside a call, the inductive invariant holds.           *)
THEOREM InstancesAreSafe ==
  ASSUME Quiet
  PROVE  Spec => []ServiceInv
<1>1. Init => ServiceInv
  BY InitSafe
<1>2. ServiceInv /\ [Next]_vars => ServiceInv'
  BY InvStep
<1>3. QED
  BY <1>1, <1>2, PTL DEF Spec

(* No two callers have an instance at the same time, and it is reserved as *)
(* long as one has it, from the reply to the lookup to the ACK: a server   *)
(* that takes one call at a time is sent no second one, whatever callers   *)
(* poll, give up or die, servers die or leave, and calls are forwarded.    *)
THEOREM InstanceHasOneCaller ==
  ASSUME Quiet
  PROVE  Spec => []OneCaller
<1>1. ServiceInv => OneCaller
  <2>1. SUFFICES ASSUME ServiceInv, NEW i \in Server
                 PROVE  /\ \A x, y \in Claims(i) : x = y
                        /\ i \in sm.known /\ Claims(i) # {} => ~ Free(sm, i)
    BY DEF OneCaller
  <2>2. Reserves(sm, i, Claims(i))
    BY <2>1, ClaimsAre DEF ServiceInv, Safe
  <2>3. QED
    BY <2>2 DEF Reserves, Alone, Free
<1>2. QED
  BY <1>1, InstancesAreSafe, PTL

(* A server is reported to the domain manager as prepared for shutdown     *)
(* when it has no call and no reply names it any more, and it stays so:    *)
(* the shutdown that follows loses no call.                                *)
THEOREM PreparedHaveNoCall ==
  ASSUME Quiet
  PROVE  Spec => []PreparedIsIdle
<1>1. ServiceInv => PreparedIsIdle
  <2>1. SUFFICES ASSUME ServiceInv, NEW i \in prepared PROVE Claims(i) = {}
    BY DEF PreparedIsIdle
  <2>2. i \in Server /\ Retired(i)
    BY <2>1 DEF ServiceInv, TypeOK, Parting
  <2>3. QED
    BY <2>2, ClaimsAre DEF Retired, Standing
<1>2. QED
  BY <1>1, InstancesAreSafe, PTL
-----------------------------------------------------------------------------
(* Deadlines.                                                              *)

(* No service with a timeout is advertised or unadvertised from inside a   *)
(* call: a timeout finds its instance among those that offer the service.  *)
Watchable == \A i \in Server : Extra[i] \cap Timed = {}

(* Nothing is there twice. *)
Once(p) == \A x, y \in DOMAIN p : p[x] = p[y] => x = y

(* The servers in which something of the correlation of a call is left: a  *)
(* reply that names the server, the call, its ACK or the reservation.      *)
Trace(m, w, k, c) ==
  {i \in Server : \/ i \in ToSet(m.mail[Own(c)]) \/ i \in ToSet(m.mail[Cache(c)])
                  \/ <<c, i>> \in w \/ AckOf(c, i) \in k
                  \/ m.caller[i] \in {Own(c), Cache(c)}}

(* The call has yet to be given a server. *)
Waits(m, ph, w, c) ==
  \/ ph[Own(c)] = "none" \/ Own(c) \in ToSet(m.pending) \/ Cache(c) \in ToSet(m.pending)
  \/ <<c, "cache">> \in w
  \/ ph[Own(c)] \in Active /\ "cache" \in ToSet(m.mail[Own(c)])

(* The caller looks up first and the forward cache after it: what waits is *)
(* at one of them.                                                         *)
Turn(m, ph, w, c) ==
  /\ \/ <<c, "cache">> \in w \/ "cache" \in ToSet(m.mail[Own(c)]) \/ ph[Cache(c)] # "none"
     => Own(c) \notin ToSet(m.pending)
  /\ Hop(c) \notin ToSet(m.pending)
  /\ Cache(c) \in ToSet(m.pending) => ph[Cache(c)] # "none"
  /\ <<c, "cache">> \in w \/ ph[Cache(c)] # "none" => ph[Own(c)] \in Over
  /\ <<c, "cache">> \in w => ph[Cache(c)] = "none"

(* A call leaves its trace in one server, and in none as long as it waits. *)
Course(m, ph, w, k, c) ==
  /\ Alone(Trace(m, w, k, c))
  /\ Waits(m, ph, w, c) => Trace(m, w, k, c) = {}
  /\ Turn(m, ph, w, c)

(* An instance that such a call has for a service with a timeout offers it *)
(* and has its deadline.                                                   *)
Watched(m, i) ==
  m.caller[i] # Nobody /\ Straight(m.caller[i][1]) =>
    /\ m.busy[i] = ServiceOf(m.caller[i])
    /\ m.busy[i] \in Timed =>
         /\ m.busy[i] \in m.serves[i] /\ m.caller[i][2] # "hop"
         /\ \E d \in m.deadlines : d.corr = CorrOf(m.caller[i]) /\ d.service = m.busy[i]

(* The inductive invariant of the deadlines. *)
Guarded(m, ph, w, k) ==
  /\ Once(m.pending)
  /\ \A i \in Server : Watched(m, i)
  /\ \A c \in Call : Straight(c) => Course(m, ph, w, k, c) /\ ph[Hop(c)] = "none"

(* The lookup l may be made: it does not wait, and nothing of it is there. *)
Fresh(m, ph, w, k, l) ==
  /\ l \notin ToSet(m.pending)
  /\ Straight(l[1]) =>
       /\ Trace(m, w, k, l[1]) = {} /\ l[2] # "hop" /\ ph[l] # "none"
       /\ l[2] = "own" => /\ "cache" \notin ToSet(m.mail[l]) /\ <<l[1], "cache">> \notin w
                          /\ ph[Cache(l[1])] = "none"
       /\ l[2] = "cache" => Own(l[1]) \notin ToSet(m.pending) /\ ph[Own(l[1])] \in Over

(* Nothing twice. *)
LEMMA OnceAppend ==
  ASSUME NEW E, NEW s \in Seq(E), NEW e \in E, Once(s), e \notin ToSet(s)
  PROVE  Once(Append(s, e))
<1>1. PICK l \in Nat : l = Len(s) /\ DOMAIN s = 1 .. l
  OBVIOUS
<1>2. PICK t : t = Append(s, e)
  OBVIOUS
<1>3. /\ DOMAIN t = 1 .. l + 1 /\ t[l + 1] = e
      /\ \A n \in 1 .. l : t[n] = s[n] /\ s[n] # e
      /\ \A n \in 1 .. l + 1 : n \in 1 .. l \/ n = l + 1
  BY <1>1, <1>2 DEF ToSet
<1>4. Once(t)
  BY <1>1, <1>3 DEF Once
<1>5. QED
  BY <1>2, <1>4

(* Elements at some positions of what has nothing twice. *)
LEMMA OnceKeeps ==
  ASSUME NEW s, NEW t, NEW S, S \subseteq DOMAIN s, NEW h, Keeps(h, t, s, S), Once(s)
  PROVE  Once(t)
BY DEF Keeps, Once

(* One of them is taken out. *)
LEMMA OnceRemove ==
  ASSUME NEW E, NEW s \in Seq(E), NEW n \in DOMAIN s, NEW t, t = RemoveAt(s, n), Once(s)
  PROVE  Once(t) /\ ToSet(t) = ToSet(s) \ {s[n]}
<1>1. PICK h : Keeps(h, t, s, DOMAIN s \ {n})
  BY RemoveAtIs
<1>2. ToSet(t) = {s[j] : j \in DOMAIN s \ {n}}
  BY <1>1, KeepsIn
<1>3. ToSet(t) = ToSet(s) \ {s[n]}
  BY <1>2 DEF ToSet, Once
<1>4. QED
  BY <1>1, <1>3, OnceKeeps

(* Some of them are taken out. *)
LEMMA OnceWithout ==
  ASSUME NEW E, NEW s \in Seq(E), NEW S, NEW t, t = Without(s, S), Once(s)
  PROVE  Once(t)
<1>1. PICK h : Keeps(h, t, s, {n \in DOMAIN s : s[n] \notin S})
  BY WithoutIs
<1>2. QED
  BY <1>1, OnceKeeps

(* One is put in front. *)
LEMMA OnceFront ==
  ASSUME NEW E, NEW s \in Seq(E), NEW e \in E, Once(s), e \notin ToSet(s)
  PROVE  Once(<<e>> \o s)
<1>1. PICK l \in Nat : l = Len(s) /\ DOMAIN s = 1 .. l
  OBVIOUS
<1>2. PICK t : t = <<e>> \o s
  OBVIOUS
<1>3. DOMAIN t = 1 .. l + 1 /\ t[1] = e /\ \A n \in 1 .. l : t[n + 1] = s[n] /\ s[n] # e
  BY <1>1, <1>2 DEF ToSet
<1>4. \A n \in 1 .. l + 1 : n = 1 \/ (n - 1 \in 1 .. l /\ (n - 1) + 1 = n)
  BY <1>1
<1>5. ASSUME NEW x \in 1 .. l + 1, NEW y \in 1 .. l + 1, t[x] = t[y] PROVE x = y
  <2>1. CASE x = 1 \/ y = 1
    <3>1. ASSUME NEW n \in 1 .. l + 1, n # 1 PROVE t[n] # t[1]
      <4>1. PICK j \in 1 .. l : j + 1 = n
        BY <1>4, <3>1
      <4>2. t[j + 1] = s[j] /\ s[j] # e /\ t[1] = e
        BY <1>3
      <4>3. QED
        BY <4>1, <4>2
    <3>2. QED
      BY <1>5, <2>1, <3>1
  <2>2. CASE x # 1 /\ y # 1
    <3>1. x - 1 \in 1 .. l /\ y - 1 \in 1 .. l /\ s[x - 1] = t[x] /\ s[y - 1] = t[y]
      BY <1>3, <1>4, <2>2
    <3>2. x - 1 = y - 1
      BY <1>1, <1>5, <3>1 DEF Once
    <3>3. QED
      BY <3>2
  <2>3. QED
    BY <2>1, <2>2
<1>6. QED
  BY <1>2, <1>3, <1>5 DEF Once

(* A call goes on from m to u: what stands for it moves from the mail to   *)
(* the call and from the call to the ACK, and no lookup of it is stacked.  *)
Follows(u, m, ph, w, k, ps, w2, k2, c) ==
  /\ \A q \in {Own(c), Hop(c), Cache(c)} : q \in ToSet(u.pending) => q \in ToSet(m.pending)
  /\ \A q \in {Own(c), Cache(c)} : ToSet(u.mail[q]) \subseteq ToSet(m.mail[q])
  /\ \A i \in Server : u.caller[i] \in {Own(c), Cache(c)} => u.caller[i] = m.caller[i]
  /\ \A i \in Server : <<c, i>> \in w2 =>
       <<c, i>> \in w \/ i \in ToSet(m.mail[Own(c)]) \/ i \in ToSet(m.mail[Cache(c)])
  /\ \A i \in Server : AckOf(c, i) \in k2 => AckOf(c, i) \in k \/ <<c, i>> \in w
  /\ <<c, "cache">> \in w2 =>
       /\ ps[Cache(c)] = "none" /\ ps[Own(c)] \in Over
       /\ <<c, "cache">> \in w \/ (ph[Own(c)] \in Active /\ "cache" \in ToSet(m.mail[Own(c)]))
  /\ Goes(ph[Own(c)], ps[Own(c)]) /\ (ph[Own(c)] \in Over => ps[Own(c)] \in Over)
  /\ ps[Cache(c)] = "none" => ph[Cache(c)] = "none"
  /\ ps[Cache(c)] # "none" => ph[Cache(c)] # "none" \/ <<c, "cache">> \in w

(* Then its course goes on. *)
LEMMA FollowsIs ==
  ASSUME NEW c \in Call, NEW u, NEW m, NEW ph, NEW w, NEW k, NEW ps, NEW w2, NEW k2,
         Course(m, ph, w, k, c), Follows(u, m, ph, w, k, ps, w2, k2, c)
  PROVE  Course(u, ps, w2, k2, c)
<1> USE DEF Course, Follows
<1>1. Trace(u, w2, k2, c) \subseteq Trace(m, w, k, c)
  BY DEF Trace
<1>2. Turn(u, ps, w2, c)
  BY DEF Turn
<1>3. Waits(u, ps, w2, c) => Waits(m, ph, w, c)
  BY DEF Waits, Goes
<1>4. QED
  BY <1>1, <1>2, <1>3 DEF Alone

(* What a lookup of l leads to, as far as the callers are concerned. *)
Led(u, m, l) ==
  /\ u \in State /\ u.serves = m.serves
  /\ \A q \in Lookup : q # l => u.mail[q] = m.mail[q]
  /\ \/ \E i \in Server :
          /\ ServiceOf(l) \in m.serves[i] /\ u.pending = m.pending
          /\ u.busy[i] = ServiceOf(l) /\ u.caller[i] = l
          /\ \A j \in Server : j # i => u.busy[j] = m.busy[j] /\ u.caller[j] = m.caller[j]
          /\ ToSet(u.mail[l]) \subseteq ToSet(m.mail[l]) \cup {i}
          /\ m.deadlines \subseteq u.deadlines
          /\ ServiceOf(l) \in Timed =>
               \E d \in u.deadlines : d.corr = CorrOf(l) /\ d.service = ServiceOf(l)
     \/ /\ u.busy = m.busy /\ u.caller = m.caller /\ u.deadlines = m.deadlines
        /\ \/ u.pending = m.pending
           \/ /\ u.pending = Append(m.pending, l)
              /\ ToSet(u.mail[l]) \subseteq ToSet(m.mail[l]) \cup {"busy"}
        /\ \E x \in Notice \ Server : /\ x = "cache" => l[2] # "cache"
                                      /\ ToSet(u.mail[l]) \subseteq ToSet(m.mail[l]) \cup {x}

(* And it leads there. *)
LEMMA LedIs ==
  ASSUME NEW m \in State, NEW l \in Lookup, NEW u \in Looked(m, l)
  PROVE  Led(u, m, l)
<1>1. /\ u \in State /\ Kept(u, m)
      /\ \/ \E i \in Server : Gave(u, m, l, i)
         \/ Waited(u, m, l)
  BY LookedIs
<1>2. ASSUME NEW i \in Server, Gave(u, m, l, i) PROVE Led(u, m, l)
  <2>1. i \in Notice /\ u.mail = Mailed(m, l, i)
    BY <1>2 DEF Notice, Place, Gave
  <2>2. /\ \A q \in Lookup : q # l => u.mail[q] = m.mail[q]
        /\ ToSet(u.mail[l]) \subseteq ToSet(m.mail[l]) \cup {i}
    BY <2>1, MailedIs
  <2>3. /\ u.busy[i] = ServiceOf(l) /\ u.caller[i] = l
        /\ \A j \in Server : j # i => u.busy[j] = m.busy[j] /\ u.caller[j] = m.caller[j]
    BY <1>2, Fields DEF Gave
  <2>4. /\ m.deadlines \subseteq u.deadlines
        /\ ServiceOf(l) \in Timed =>
             \E d \in u.deadlines : d.corr = CorrOf(l) /\ d.service = ServiceOf(l)
    <3>1. PICK e : e = [corr |-> CorrOf(l), service |-> ServiceOf(l), target |-> i]
      OBVIOUS
    <3>2. u.deadlines = m.deadlines \cup (IF ServiceOf(l) \in Timed THEN {e} ELSE {})
      BY <1>2, <3>1 DEF Gave
    <3>3. e.corr = CorrOf(l) /\ e.service = ServiceOf(l)
      BY <3>1
    <3>4. QED
      BY <3>2, <3>3
  <2>5. ServiceOf(l) \in m.serves[i] /\ u.pending = m.pending /\ u.serves = m.serves
    BY <1>1, <1>2 DEF Gave, Kept
  <2>6. QED
    BY <1>1, <2>2, <2>3, <2>4, <2>5 DEF Led
<1>3. ASSUME Waited(u, m, l) PROVE Led(u, m, l)
  <2>1. u.serves = m.serves /\ u.busy = m.busy /\ u.caller = m.caller /\ u.deadlines = m.deadlines
    BY <1>1, <1>3 DEF Waited, Kept
  <2>2. PICK x \in Notice : /\ x \notin Server
                            /\ x = "cache" => ContextOf(l) = "forward"
                            /\ u.mail = m.mail \/ u.mail = Mailed(m, l, x)
                            /\ \/ u.pending = m.pending
                               \/ u.pending = Append(m.pending, l) /\ x = "busy"
    <3>1. "busy" \in Notice /\ "busy" \notin Server /\ "busy" # "cache"
      BY ServiceAssumption DEF Notice
    <3>2. QED
      BY <1>3, <3>1 DEF Waited
  <2>3. /\ \A q \in Lookup : q # l => u.mail[q] = m.mail[q]
        /\ ToSet(u.mail[l]) \subseteq ToSet(m.mail[l]) \cup {x}
    BY <2>2, MailedIs
  <2>4. x = "cache" => l[2] # "cache"
    <3>1. l[2] = "cache" => ContextOf(l) = "no_busy"
      BY DEF ContextOf
    <3>2. QED
      BY <2>2, <3>1
  <2>5. \/ u.pending = m.pending
        \/ /\ u.pending = Append(m.pending, l)
           /\ ToSet(u.mail[l]) \subseteq ToSet(m.mail[l]) \cup {"busy"}
    BY <2>2, <2>3
  <2>6. \E y \in Notice \ Server : /\ y = "cache" => l[2] # "cache"
                                 /\ ToSet(u.mail[l]) \subseteq ToSet(m.mail[l]) \cup {y}
    BY <2>2, <2>3, <2>4
  <2>7. QED
    BY <1>1, <2>1, <2>3, <2>5, <2>6 DEF Led
<1>4. QED
  BY <1>1, <1>2, <1>3

(* A lookup of another call. *)
LEMMA LedElsewhere ==
  ASSUME NEW m \in State, NEW l \in Lookup, NEW u, Led(u, m, l), NEW c \in Call, l[1] # c,
         NEW ph, NEW w, NEW k
  PROVE  /\ Course(m, ph, w, k, c) => Course(u, ph, w, k, c)
         /\ Trace(u, w, k, c) \subseteq Trace(m, w, k, c)
         /\ \A q \in {Own(c), Hop(c), Cache(c)} :
              /\ q \in ToSet(u.pending) => q \in ToSet(m.pending)
              /\ u.mail[q] = m.mail[q]
<1>1. \A q \in {Own(c), Hop(c), Cache(c)} : q \in Lookup /\ q # l
  BY CallLookups
<1>2. ToSet(u.pending) \subseteq ToSet(m.pending) \cup {l}
  <2>1. m.pending \in Seq(Lookup)
    BY Fields
  <2>2. ToSet(Append(m.pending, l)) = ToSet(m.pending) \cup {l}
    BY <2>1, AppendIn
  <2>3. QED
    BY <2>2 DEF Led
<1>3. /\ \A q \in {Own(c), Hop(c), Cache(c)} : /\ q \in ToSet(u.pending) => q \in ToSet(m.pending)
                                               /\ u.mail[q] = m.mail[q]
      /\ \A i \in Server : u.caller[i] \in {Own(c), Cache(c)} => u.caller[i] = m.caller[i]
  BY <1>1, <1>2 DEF Led
<1>4. Trace(u, w, k, c) \subseteq Trace(m, w, k, c)
  BY <1>3 DEF Trace
<1>5. Turn(m, ph, w, c) => Turn(u, ph, w, c)
  BY <1>3 DEF Turn
<1>6. Waits(u, ph, w, c) => Waits(m, ph, w, c)
  BY <1>3 DEF Waits
<1>7. QED
  BY <1>3, <1>4, <1>5, <1>6 DEF Course, Alone

(* A lookup of the call itself: it is given an instance and waits no more, *)
(* or nothing is there for it still.                                       *)
LEMMA LedHere ==
  ASSUME NEW m \in State, NEW l \in Lookup, NEW u, Led(u, m, l), NEW c \in Call, l[1] = c,
         Straight(c), NEW ph, NEW w, NEW k, Course(m, ph, w, k, c), Fresh(m, ph, w, k, l)
  PROVE  Course(u, ph, w, k, c)
<1>1. /\ l \in {Own(c), Cache(c)} /\ Own(c) # Cache(c) /\ Hop(c) # l
      /\ Own(c) \in Lookup /\ Hop(c) \in Lookup /\ Cache(c) \in Lookup
      /\ l = Own(c) <=> l[2] = "own"
  <2>1. l = <<l[1], l[2]>> /\ l[2] \in Kind /\ l[2] # "hop"
    BY LookupType DEF Fresh
  <2>2. l[2] = "own" \/ l[2] = "cache"
    BY <2>1 DEF Kind
  <2>3. l = Own(c) \/ l = Cache(c)
    BY <2>1, <2>2 DEF Own, Cache
  <2>4. Own(c) # Cache(c) /\ Own(c) # Hop(c) /\ Cache(c) # Hop(c)
    BY CallLookups
  <2>5. QED
    BY <2>3, <2>4, CallLookups
<1>2. /\ l \notin ToSet(m.pending) /\ Trace(m, w, k, c) = {} /\ ph[l] # "none"
      /\ l[2] = "own" => /\ "cache" \notin ToSet(m.mail[l]) /\ <<c, "cache">> \notin w
                         /\ ph[Cache(c)] = "none"
      /\ l[2] = "cache" => Own(c) \notin ToSet(m.pending) /\ ph[Own(c)] \in Over
  BY DEF Fresh
<1>3. Turn(m, ph, w, c)
  BY DEF Course
<1>4. \A q \in Lookup : q # l => u.mail[q] = m.mail[q]
  BY DEF Led
<1>5. \A q \in {Own(c), Hop(c), Cache(c)} : q # l /\ q \in ToSet(u.pending) => q \in ToSet(m.pending)
  <2>1. m.pending \in Seq(Lookup)
    BY Fields
  <2>2. ToSet(Append(m.pending, l)) = ToSet(m.pending) \cup {l}
    BY <2>1, AppendIn
  <2>3. QED
    BY <2>2 DEF Led
<1>6. \A i \in Server : /\ i \notin ToSet(m.mail[Own(c)]) /\ i \notin ToSet(m.mail[Cache(c)])
                        /\ <<c, i>> \notin w /\ AckOf(c, i) \notin k
                        /\ m.caller[i] \notin {Own(c), Cache(c)}
  BY <1>2 DEF Trace
<1>7. ASSUME NEW i \in Server, u.pending = m.pending,
             \A j \in Server : j # i => u.caller[j] = m.caller[j],
             ToSet(u.mail[l]) \subseteq ToSet(m.mail[l]) \cup {i}
      PROVE  Course(u, ph, w, k, c)
  <2>1. \A j \in Server : j # i => /\ j \notin ToSet(u.mail[Own(c)])
                                   /\ j \notin ToSet(u.mail[Cache(c)])
                                   /\ u.caller[j] \notin {Own(c), Cache(c)}
    <3>1. SUFFICES ASSUME NEW j \in Server, j # i
                   PROVE  /\ j \notin ToSet(u.mail[Own(c)]) /\ j \notin ToSet(u.mail[Cache(c)])
                          /\ u.caller[j] \notin {Own(c), Cache(c)}
      OBVIOUS
    <3>2. j \notin ToSet(u.mail[l]) /\ u.caller[j] = m.caller[j]
      BY <1>1, <1>6, <1>7, <3>1
    <3>3. QED
      BY <1>1, <1>4, <1>6, <3>2
  <2>2. Trace(u, w, k, c) \subseteq {i}
    BY <1>6, <2>1 DEF Trace
  <2>3. i # "cache"
    BY ServiceAssumption
  <2>4. l = Own(c) => "cache" \notin ToSet(u.mail[l])
    BY <1>1, <1>2, <1>7, <2>3
  <2>5. Turn(u, ph, w, c)
    BY <1>1, <1>2, <1>3, <1>4, <1>7 DEF Turn
  <2>6. ~ Waits(u, ph, w, c)
    BY <1>1, <1>2, <1>3, <1>7, <2>4 DEF Waits, Turn, Active, Over
  <2>7. QED
    BY <2>2, <2>5, <2>6 DEF Course, Alone
<1>8. ASSUME u.caller = m.caller, NEW x \in Notice \ Server,
             ToSet(u.mail[l]) \subseteq ToSet(m.mail[l]) \cup {x},
             \/ u.pending = m.pending
             \/ ToSet(u.mail[l]) \subseteq ToSet(m.mail[l]) \cup {"busy"}
      PROVE  Course(u, ph, w, k, c)
  <2>1. \A j \in Server : /\ j \notin ToSet(u.mail[Own(c)]) /\ j \notin ToSet(u.mail[Cache(c)])
                          /\ u.caller[j] \notin {Own(c), Cache(c)}
    BY <1>1, <1>4, <1>6, <1>8
  <2>2. Trace(u, w, k, c) = {}
    BY <1>6, <2>1 DEF Trace
  <2>3. l = Own(c) /\ u.pending # m.pending => "cache" \notin ToSet(u.mail[l])
    BY <1>1, <1>2, <1>8
  <2>4. Turn(u, ph, w, c)
    <3>1. CASE l = Own(c)
      BY <1>1, <1>2, <1>3, <1>5, <2>3, <3>1 DEF Turn
    <3>2. CASE l = Cache(c)
      BY <1>1, <1>2, <1>3, <1>4, <1>5, <3>2 DEF Turn
    <3>3. QED
      BY <1>1, <3>1, <3>2
  <2>5. QED
    BY <2>2, <2>4 DEF Course, Alone
<1>9. QED
  BY <1>7, <1>8 DEF Led

(* The instances after a lookup. *)
LEMMA LedWatched ==
  ASSUME Watchable, NEW m \in State, NEW l \in Lookup, NEW u, Led(u, m, l),
         NEW ph, NEW w, NEW k, Fresh(m, ph, w, k, l), \A i \in Server : Watched(m, i)
  PROVE  \A i \in Server : Watched(u, i)
<1>1. SUFFICES ASSUME NEW j \in Server PROVE Watched(u, j)
  OBVIOUS
<1>2. Watched(m, j) /\ u.serves = m.serves
  BY DEF Led
<1>3. ASSUME u.busy[j] = m.busy[j], u.caller[j] = m.caller[j], m.deadlines \subseteq u.deadlines
      PROVE  Watched(u, j)
  BY <1>2, <1>3 DEF Watched
<1>4. ASSUME ServiceOf(l) \in m.serves[j], u.busy[j] = ServiceOf(l), u.caller[j] = l,
             ServiceOf(l) \in Timed =>
               \E d \in u.deadlines : d.corr = CorrOf(l) /\ d.service = ServiceOf(l)
      PROVE  Watched(u, j)
  <2>1. Straight(l[1]) => l[2] # "hop"
    BY DEF Fresh
  <2>2. QED
    BY <1>2, <1>4, <2>1 DEF Watched
<1>5. QED
  BY <1>3, <1>4 DEF Led

(* A lookup that may be made keeps the invariant, and others may be made   *)
(* after it.                                                               *)
LEMMA LedGuarded ==
  ASSUME Watchable, NEW m \in State, NEW l \in Lookup, NEW u, Led(u, m, l),
         NEW ph, NEW w, NEW k, Guarded(m, ph, w, k), Fresh(m, ph, w, k, l)
  PROVE  /\ u \in State /\ Guarded(u, ph, w, k)
         /\ \A q \in Lookup : q # l /\ Fresh(m, ph, w, k, q) => Fresh(u, ph, w, k, q)
<1>1. Led(u, m, l)
  OBVIOUS
<1>2. \A i \in Server : Watched(u, i)
  BY <1>1, LedWatched DEF Guarded
<1>3. ASSUME NEW c \in Call, Straight(c) PROVE Course(u, ph, w, k, c) /\ ph[Hop(c)] = "none"
  <2>1. Course(m, ph, w, k, c) /\ ph[Hop(c)] = "none"
    BY <1>3 DEF Guarded
  <2>2. CASE l[1] = c
    BY ONLY <1>1, <1>3, <2>1, <2>2, m \in State, l \in Lookup, c \in Call,
            Fresh(m, ph, w, k, l), LedHere
  <2>3. CASE l[1] # c
    BY ONLY <1>1, <2>1, <2>3, m \in State, l \in Lookup, c \in Call, LedElsewhere
  <2>4. QED
    BY <2>1, <2>2, <2>3
<1>4. m.pending \in Seq(Lookup) /\ Once(m.pending) /\ l \notin ToSet(m.pending)
  BY Fields DEF Guarded, Fresh
<1>5. Once(u.pending) /\ ToSet(u.pending) \subseteq ToSet(m.pending) \cup {l}
  <2>1. Once(Append(m.pending, l))
    BY <1>4, OnceAppend
  <2>2. ToSet(Append(m.pending, l)) = ToSet(m.pending) \cup {l}
    BY <1>4, AppendIn
  <2>3. QED
    BY <1>1, <1>4, <2>1, <2>2 DEF Led
<1>6. ASSUME NEW q \in Lookup, q # l, Fresh(m, ph, w, k, q) PROVE Fresh(u, ph, w, k, q)
  <2>1. q \notin ToSet(u.pending) /\ u.mail[q] = m.mail[q]
    BY <1>1, <1>5, <1>6 DEF Fresh, Led
  <2>2. ASSUME Straight(q[1]) PROVE l[1] # q[1]
    <3>1. SUFFICES ASSUME l[1] = q[1] PROVE FALSE
      OBVIOUS
    <3>2. /\ l = <<l[1], l[2]>> /\ q = <<q[1], q[2]>> /\ l[2] \in Kind /\ q[2] \in Kind
          /\ l[1] \in Call
      BY LookupType
    <3>3. l[2] # "hop" /\ q[2] # "hop" /\ l[2] # q[2]
      BY <1>6, <2>2, <3>1, <3>2 DEF Fresh
    <3>4. \/ l[2] = "own" /\ q[2] = "cache"
          \/ l[2] = "cache" /\ q[2] = "own"
      BY <3>2, <3>3 DEF Kind
    <3>5. CASE l[2] = "own" /\ q[2] = "cache"
      <4>1. q = Cache(l[1])
        BY <3>1, <3>2, <3>5 DEF Cache
      <4>2. ph[Cache(l[1])] = "none" /\ ph[q] # "none"
        BY <1>6, <2>2, <3>1, <3>5 DEF Fresh
      <4>3. QED
        BY <4>1, <4>2
    <3>6. CASE l[2] = "cache" /\ q[2] = "own"
      <4>1. l = Cache(q[1])
        BY <3>1, <3>2, <3>6 DEF Cache
      <4>2. ph[Cache(q[1])] = "none" /\ ph[l] # "none"
        BY <1>6, <2>2, <3>1, <3>6 DEF Fresh
      <4>3. QED
        BY <4>1, <4>2
    <3>7. QED
      BY <3>4, <3>5, <3>6
  <2>3. ASSUME Straight(q[1])
        PROVE  /\ Trace(u, w, k, q[1]) = {}
               /\ Own(q[1]) \in ToSet(u.pending) => Own(q[1]) \in ToSet(m.pending)
    <3>1. q[1] \in Call /\ l[1] # q[1]
      BY <2>2, <2>3, LookupType
    <3>2. Trace(u, w, k, q[1]) \subseteq Trace(m, w, k, q[1])
      BY <1>1, <3>1, LedElsewhere
    <3>3. Own(q[1]) \in ToSet(u.pending) => Own(q[1]) \in ToSet(m.pending)
      BY <1>1, <3>1, LedElsewhere
    <3>4. Trace(m, w, k, q[1]) = {}
      BY <1>6, <2>3 DEF Fresh
    <3>5. QED
      BY <3>2, <3>3, <3>4
  <2>4. QED
    BY <1>6, <2>1, <2>3 DEF Fresh
<1>7. QED
  BY <1>1, <1>2, <1>3, <1>5, <1>6 DEF Guarded, Led

(* The same for what a lookup may lead to. *)
LEMMA LookedGuarded ==
  ASSUME Watchable, NEW m \in State, NEW l \in Lookup, NEW u \in Looked(m, l),
         NEW ph, NEW w, NEW k, Guarded(m, ph, w, k), Fresh(m, ph, w, k, l)
  PROVE  /\ u \in State /\ Guarded(u, ph, w, k)
         /\ \A q \in Lookup : q # l /\ Fresh(m, ph, w, k, q) => Fresh(u, ph, w, k, q)
<1>1. Led(u, m, l)
  BY LedIs
<1>2. QED
  BY <1>1, LedGuarded

(* Lookups made one by one, none of them twice. *)
LEMMA LookedAllGuarded ==
  ASSUME Watchable, NEW m \in State, NEW ls \in Seq(Lookup), NEW u \in LookedAll(m, ls),
         NEW ph, NEW w, NEW k, Guarded(m, ph, w, k), Once(ls),
         \A n \in DOMAIN ls : Fresh(m, ph, w, k, ls[n])
  PROVE  Guarded(u, ph, w, k)
<1>1. PICK j \in Nat : j = Len(ls) /\ DOMAIN ls = 1 .. j
  <2>1. Len(ls) \in Nat /\ DOMAIN ls = 1 .. Len(ls)
    OBVIOUS
  <2>2. QED
    BY <2>1
<1>2. PICK H : H = [n \in 0 .. j |-> {x \in State : /\ Guarded(x, ph, w, k)
                                                   /\ \A i \in 1 .. j : i > n => Fresh(x, ph, w, k, ls[i])}]
  OBVIOUS
<1>3. \A n \in 0 .. j : H[n] = {x \in State : /\ Guarded(x, ph, w, k)
                                              /\ \A i \in 1 .. j : i > n => Fresh(x, ph, w, k, ls[i])}
  BY <1>2
<1>4. 0 \in 0 .. j /\ j \in 0 .. j /\ \A n \in 1 .. j : n \in 0 .. j /\ n - 1 \in 0 .. j
  BY <1>1
<1>5. m \in H[0]
  BY <1>1, <1>3, <1>4
<1>6. ASSUME NEW x \in State, NEW n \in DOMAIN ls PROVE Looked(x, ls[n]) \subseteq State
  <2>1. ls[n] \in Lookup
    OBVIOUS
  <2>2. QED
    BY <2>1, LookedIs
<1>7. ASSUME NEW n \in DOMAIN ls, NEW x \in State, x \in H[n - 1], NEW v \in Looked(x, ls[n])
      PROVE  v \in H[n]
  <2>1. n \in 1 .. j /\ ls[n] \in Lookup
    BY <1>1
  <2>2. Guarded(x, ph, w, k) /\ \A i \in 1 .. j : i > n - 1 => Fresh(x, ph, w, k, ls[i])
    BY <1>3, <1>4, <1>7, <2>1
  <2>3. n > n - 1 /\ \A i \in 1 .. j : i > n => i > n - 1 /\ i # n
    BY <1>1, <2>1
  <2>4. Fresh(x, ph, w, k, ls[n])
    BY <2>1, <2>2, <2>3
  <2>5. /\ v \in State /\ Guarded(v, ph, w, k)
        /\ \A q \in Lookup : q # ls[n] /\ Fresh(x, ph, w, k, q) => Fresh(v, ph, w, k, q)
    BY <1>7, <2>1, <2>2, <2>4, LookedGuarded
  <2>6. ASSUME NEW i \in 1 .. j, i > n PROVE Fresh(v, ph, w, k, ls[i])
    <3>1. i \in DOMAIN ls /\ ls[i] \in Lookup /\ i # n /\ i > n - 1
      BY <1>1, <2>3, <2>6
    <3>2. ls[i] # ls[n]
      BY <3>1 DEF Once
    <3>3. QED
      BY <2>2, <2>5, <3>1, <3>2
  <2>7. QED
    BY <1>3, <1>4, <2>1, <2>5, <2>6
<1>8. LookedAll(m, ls) \subseteq State \cap H[Len(ls)]
  <2>1. m \in State /\ ls \in Seq(Lookup)
    OBVIOUS
  <2>2. QED
    BY ONLY <1>5, <1>6, <1>7, <2>1, LookedAllAt
<1>9. QED
  BY <1>1, <1>3, <1>4, <1>8

(* A step from m to u of which every straight call goes on. *)
LEMMA StepGuarded ==
  ASSUME NEW u, NEW m, NEW ph, NEW w, NEW k, NEW ps, NEW w2, NEW k2,
         Guarded(m, ph, w, k), Once(u.pending), \A i \in Server : Watched(u, i),
         \A c \in Call : Straight(c) => /\ Follows(u, m, ph, w, k, ps, w2, k2, c)
                                        /\ ps[Hop(c)] = "none"
  PROVE  Guarded(u, ps, w2, k2)
BY FollowsIs DEF Guarded

(* Instances are let go, and what waits gets less. *)
Eased(u, m) ==
  /\ Once(u.pending) /\ ToSet(u.pending) \subseteq ToSet(m.pending) /\ u.mail = m.mail
  /\ m.deadlines \subseteq u.deadlines
  /\ \A i \in Server :
       \/ u.caller[i] = Nobody
       \/ /\ u.caller[i] = m.caller[i] /\ u.busy[i] = m.busy[i]
          /\ m.busy[i] \in Timed /\ m.busy[i] \in m.serves[i] => m.busy[i] \in u.serves[i]

(* Then a lookup that was taken out may be made. *)
LEMMA EasedGuarded ==
  ASSUME NEW m, NEW u, NEW ph, NEW w, NEW k, Guarded(m, ph, w, k), Eased(u, m)
  PROVE  /\ Guarded(u, ph, w, k)
         /\ \A l \in Lookup :
              l \in ToSet(m.pending) /\ l \notin ToSet(u.pending) /\ ph[l] # "none" =>
                Fresh(u, ph, w, k, l)
<1>1. \A i \in Server : Watched(u, i)
  BY DEF Guarded, Watched, Eased
<1>2. ASSUME NEW c \in Call
      PROVE  \A i \in Server : u.caller[i] \in {Own(c), Cache(c)} => u.caller[i] = m.caller[i]
  <2>1. Own(c) # Nobody /\ Cache(c) # Nobody
    BY CallLookups, ServiceAssumption
  <2>2. QED
    BY <2>1 DEF Eased
<1>3. ASSUME NEW c \in Call, Straight(c), Course(m, ph, w, k, c)
      PROVE  Follows(u, m, ph, w, k, ph, w, k, c)
  <2>1. Turn(m, ph, w, c)
    BY <1>3 DEF Course
  <2>2. QED
    BY <1>2, <2>1 DEF Follows, Turn, Eased, Goes
<1>4. Guarded(u, ph, w, k)
  BY <1>1, <1>3, StepGuarded DEF Guarded, Eased
<1>5. ASSUME NEW l \in Lookup, l \in ToSet(m.pending), l \notin ToSet(u.pending), ph[l] # "none"
      PROVE  Fresh(u, ph, w, k, l)
  <2>1. SUFFICES ASSUME NEW c \in Call, c = l[1], Straight(c)
                 PROVE  /\ Trace(u, w, k, c) = {} /\ l[2] # "hop"
                        /\ l[2] = "own" => /\ "cache" \notin ToSet(u.mail[l])
                                           /\ <<c, "cache">> \notin w /\ ph[Cache(c)] = "none"
                        /\ l[2] = "cache" => Own(c) \notin ToSet(u.pending) /\ ph[Own(c)] \in Over
    BY <1>5, LookupType DEF Fresh
  <2>2. Course(m, ph, w, k, c) /\ ph[Hop(c)] = "none"
    BY <2>1 DEF Guarded
  <2>3. l = <<c, l[2]>> /\ l[2] \in Kind
    BY <2>1, LookupType
  <2>4. /\ l[2] # "hop" /\ (l[2] = "own" => l = Own(c)) /\ (l[2] = "cache" => l = Cache(c))
        /\ l \in {Own(c), Cache(c)}
    BY <1>5, <2>2, <2>3 DEF Own, Hop, Cache, Kind
  <2>5. Trace(m, w, k, c) = {} /\ Turn(m, ph, w, c)
    BY <1>5, <2>2, <2>4 DEF Course, Waits
  <2>6. Trace(u, w, k, c) \subseteq Trace(m, w, k, c)
    BY <1>2 DEF Trace, Eased
  <2>7. QED
    BY <1>5, <2>4, <2>5, <2>6 DEF Turn, Eased
<1>6. QED
  BY <1>4, <1>5

(* No lookup waits that has not been made. *)
Made(m, ph) == \A l \in Lookup : l \in ToSet(m.pending) => ph[l] # "none"

(* The first pending lookup of some is made again. *)
LEMMA FirstLookedGuarded ==
  ASSUME Watchable, NEW m \in State, NEW ph, NEW w, NEW k, NEW these,
         NEW u \in FirstLooked(m, these), Guarded(m, ph, w, k), Made(m, ph)
  PROVE  Guarded(u, ph, w, k)
<1>1. PICK n : n = SelectInSeq(m.pending, LAMBDA l : l \in these)
  OBVIOUS
<1>2. n = 0 \/ n \in DOMAIN m.pending
  <2>1. PICK I : I = {i \in 1 .. Len(m.pending) : m.pending[i] \in these}
    OBVIOUS
  <2>2. n = IF I # {} THEN Min(I) ELSE 0
    BY <1>1, <2>1 DEF SelectInSeq
  <2>3. I \in SUBSET (1 .. Len(m.pending))
    BY <2>1
  <2>4. QED
    BY <2>2, <2>3, FirstPending
<1>3. CASE n = 0
  BY <1>1, <1>3 DEF FirstLooked
<1>4. CASE n # 0
  <2>1. PICK t, l : t = RemoveAt(m.pending, n) /\ l = m.pending[n]
    OBVIOUS
  <2>2. t \in Seq(Lookup) /\ l \in Lookup /\ ToSet(m.pending) = ToSet(t) \cup {l}
    BY <1>2, <1>4, <2>1, TakenIs
  <2>3. m.pending \in Seq(Lookup) /\ Once(m.pending)
    BY Fields DEF Guarded
  <2>4. Once(t) /\ l \notin ToSet(t)
    BY <1>2, <1>4, <2>1, <2>3, OnceRemove
  <2>5. PICK v : v = [m EXCEPT !.pending = t]
    OBVIOUS
  <2>6. v \in State /\ v.pending = t /\ Eased(v, m)
    BY <2>2, <2>4, <2>5 DEF State, Eased
  <2>7. Guarded(v, ph, w, k) /\ Fresh(v, ph, w, k, l)
    BY <2>2, <2>4, <2>6, EasedGuarded DEF Made
  <2>8. u \in Looked(v, l)
    BY <1>1, <1>4, <2>1, <2>5 DEF FirstLooked
  <2>9. QED
    BY <2>2, <2>6, <2>7, <2>8, LookedGuarded
<1>5. QED
  BY <1>2, <1>3, <1>4

(* A call of which nothing is new. *)
LEMMA StillFollows ==
  ASSUME NEW c \in Call, NEW u, NEW m, NEW ph, NEW w, NEW k, NEW ps, NEW w2, NEW k2,
         Course(m, ph, w, k, c), ToSet(u.pending) \subseteq ToSet(m.pending),
         \A q \in {Own(c), Cache(c)} : ToSet(u.mail[q]) \subseteq ToSet(m.mail[q]) /\ ps[q] = ph[q],
         \A i \in Server : u.caller[i] \in {m.caller[i], Nobody},
         \A p \in Server \cup {"cache"} : <<c, p>> \in w2 => <<c, p>> \in w,
         \A i \in Server : AckOf(c, i) \in k2 => AckOf(c, i) \in k \/ <<c, i>> \in w
  PROVE  Follows(u, m, ph, w, k, ps, w2, k2, c)
<1>1. Own(c) # Nobody /\ Cache(c) # Nobody
  BY CallLookups, ServiceAssumption
<1>2. Turn(m, ph, w, c)
  BY DEF Course
<1>3. \A i \in Server : u.caller[i] \in {Own(c), Cache(c)} => u.caller[i] = m.caller[i]
  BY <1>1
<1>4. QED
  BY <1>2, <1>3 DEF Follows, Turn, Goes

(* The phase of one lookup is set. *)
LEMMA PhaseSet ==
  ASSUME TypeOK, NEW l \in Lookup, NEW x, phase' = [phase EXCEPT ![l] = x]
  PROVE  phase'[l] = x /\ \A q \in Lookup : q # l => phase'[q] = phase[q]
BY TypeParts

(* A caller looks up. *)
LEMMA LookupRequestGuarded ==
  ASSUME Watchable, ServiceInv, Guarded(sm, phase, at, acks), NEW c \in Call, LookupRequest(c)
  PROVE  Guarded(sm', phase', at', acks')
<1>1. /\ TypeOK /\ sm \in State /\ phase[Own(c)] = "none" /\ Own(c) \in Lookup
      /\ sm.mail[Own(c)] = <<>> /\ Own(c) \notin ToSet(sm.pending)
  BY CallLookups, TypeParts DEF ServiceInv, Safe, Mails, LookupRequest
<1>2. /\ at' = at /\ acks' = acks /\ sm' \in Looked(sm, Own(c))
      /\ phase'[Own(c)] = "looking" /\ \A q \in Lookup : q # Own(c) => phase'[q] = phase[q]
  BY <1>1, PhaseSet DEF LookupRequest
<1>3. ASSUME NEW d \in Call, Straight(d)
      PROVE  /\ Follows(sm, sm, phase, at, acks, phase', at', acks', d)
             /\ phase'[Hop(d)] = "none"
  <2>1. Course(sm, phase, at, acks, d) /\ phase[Hop(d)] = "none"
    BY <1>3 DEF Guarded
  <2>2. Turn(sm, phase, at, d)
    BY <2>1 DEF Course
  <2>3. phase'[Hop(d)] = "none" /\ phase'[Cache(d)] = phase[Cache(d)]
    BY <1>2, <2>1, CallLookups
  <2>4. CASE d = c
    BY <1>1, <1>2, <2>2, <2>3, <2>4 DEF Follows, Turn, Goes, Over, Active
  <2>5. CASE d # c
    <3>1. phase'[Own(d)] = phase[Own(d)]
      BY <1>2, <2>5, CallLookups
    <3>2. QED
      BY ONLY <1>2, <2>1, <2>3, <3>1, d \in Call, StillFollows
  <2>6. QED
    BY <2>3, <2>4, <2>5
<1>4. Guarded(sm, phase', at', acks')
  BY ONLY <1>3, Guarded(sm, phase, at, acks), StepGuarded DEF Guarded
<1>5. Fresh(sm, phase', at', acks', Own(c))
  <2>1. "cache" \notin ToSet(sm.mail[Own(c)])
    BY <1>1 DEF ToSet
  <2>2. ASSUME Straight(c)
        PROVE  /\ Trace(sm, at, acks, c) = {} /\ <<c, "cache">> \notin at
               /\ phase'[Cache(c)] = "none"
    <3>1. Course(sm, phase, at, acks, c)
      BY <2>2 DEF Guarded
    <3>2. Trace(sm, at, acks, c) = {} /\ Turn(sm, phase, at, c)
      BY <1>1, <3>1 DEF Course, Waits
    <3>3. phase'[Cache(c)] = phase[Cache(c)]
      BY <1>2, CallLookups
    <3>4. QED
      BY <1>1, <3>2, <3>3 DEF Turn, Over
  <2>3. Own(c)[1] = c /\ Own(c)[2] = "own"
    BY CallLookups
  <2>4. QED
    BY <1>1, <1>2, <2>1, <2>2, <2>3 DEF Fresh
<1>6. QED
  BY <1>1, <1>2, <1>4, <1>5, LookedGuarded

(* A process takes a reply out of the mail of its lookup. *)
LEMMA HeadTaken ==
  ASSUME TypeOK, NEW l \in Lookup, sm.mail[l] # <<>>, sm' = [sm EXCEPT !.mail[l] = Tail(@)]
  PROVE  /\ Kept(sm', sm) /\ sm'.busy = sm.busy /\ sm'.caller = sm.caller
         /\ sm'.pending = sm.pending /\ sm'.deadlines = sm.deadlines
         /\ Head(sm.mail[l]) \in ToSet(sm.mail[l])
         /\ \A q \in Lookup : ToSet(sm'.mail[q]) \subseteq ToSet(sm.mail[q])
<1>1. PICK s \in Seq(Notice) : s = sm.mail[l]
  BY TypeParts, Fields
<1>2. PICK t \in Seq(Notice) : t = Tail(s) /\ ToSet(s) = ToSet(t) \cup {Head(s)}
  BY <1>1, TailIn
<1>3. sm' = [sm EXCEPT !.mail[l] = t] /\ sm \in State
  BY <1>1, <1>2, TypeParts
<1>4. /\ Kept(sm', sm) /\ sm'.busy = sm.busy /\ sm'.caller = sm.caller
      /\ sm'.pending = sm.pending /\ sm'.deadlines = sm.deadlines /\ sm'.mail[l] = t
      /\ \A q \in Lookup : q # l => sm'.mail[q] = sm.mail[q]
  <2>1. sm.mail \in [Lookup -> Seq(Notice)]
    BY <1>3, Fields
  <2>2. PICK f \in [Lookup -> Seq(Notice)] : f = [sm.mail EXCEPT ![l] = t]
    BY <2>1
  <2>3. sm' = [sm EXCEPT !.mail = f]
    BY <1>3, <2>2
  <2>4. /\ Kept(sm', sm) /\ sm'.busy = sm.busy /\ sm'.caller = sm.caller
        /\ sm'.pending = sm.pending /\ sm'.deadlines = sm.deadlines /\ sm'.mail = f
    BY <1>3, <2>3 DEF State, Kept
  <2>5. f[l] = t /\ \A q \in Lookup : q # l => f[q] = sm.mail[q]
    BY <2>1, <2>2
  <2>6. QED
    BY <2>4, <2>5
<1>5. QED
  BY <1>1, <1>2, <1>4

(* The instances are watched as they were. *)
LEMMA SameWatched ==
  ASSUME Guarded(sm, phase, at, acks), sm'.serves = sm.serves, sm'.busy = sm.busy,
         sm'.caller = sm.caller, sm'.pending = sm.pending, sm'.deadlines = sm.deadlines
  PROVE  Once(sm'.pending) /\ \A i \in Server : Watched(sm', i)
BY DEF Guarded, Watched

(* A caller takes a reply. *)
LEMMA ReceiveGuarded ==
  ASSUME ServiceInv, Guarded(sm, phase, at, acks), NEW c \in Call, Receive(c)
  PROVE  Guarded(sm', phase', at', acks')
<1>0. PICK l \in Lookup : l = Own(c)
  BY CallLookups
<1>1. PICK x, next :
        /\ l = Own(c) /\ x = Head(sm.mail[l])
        /\ next = IF x # "busy" THEN "ended"
                  ELSE IF phase[l] = "looking" \/ c \in Impatient THEN "waiting"
                  ELSE "stray"
  BY <1>0
<1>2. /\ TypeOK /\ phase[l] \in {"looking", "waiting"} /\ sm.mail[l] # <<>>
      /\ sm' = [sm EXCEPT !.mail[l] = Tail(@)] /\ phase' = [phase EXCEPT ![l] = next]
      /\ at' = at \/ at' = at \cup {<<c, x>>}
      /\ acks' = acks
  BY <1>1 DEF Receive, ServiceInv
<1>3. next # "none" /\ (x # "busy" => next = "ended")
  BY <1>1
<1>4. /\ Kept(sm', sm) /\ sm'.busy = sm.busy /\ sm'.caller = sm.caller
      /\ sm'.pending = sm.pending /\ sm'.deadlines = sm.deadlines
      /\ x \in ToSet(sm.mail[l])
      /\ \A q \in Lookup : ToSet(sm'.mail[q]) \subseteq ToSet(sm.mail[q])
  BY <1>1, <1>2, HeadTaken
<1>6. phase'[l] = next /\ \A q \in Lookup : q # l => phase'[q] = phase[q]
  BY <1>2, PhaseSet
<1>7. ASSUME NEW d \in Call, Straight(d)
      PROVE  /\ Follows(sm', sm, phase, at, acks, phase', at', acks', d)
             /\ phase'[Hop(d)] = "none"
  <2>1. Course(sm, phase, at, acks, d) /\ phase[Hop(d)] = "none"
    BY <1>7 DEF Guarded
  <2>2. Turn(sm, phase, at, d)
    BY <2>1 DEF Course
  <2>3. phase'[Hop(d)] = "none" /\ phase'[Cache(d)] = phase[Cache(d)]
    BY <1>1, <1>6, <2>1, CallLookups
  <2>4. CASE d = c
    <3>1. \A p : <<c, p>> \in at' => <<c, p>> \in at \/ p = x
      BY <1>2
    <3>2. phase[Own(c)] \in Active /\ phase[Own(c)] \notin Over /\ phase'[Own(c)] # "none"
      BY <1>1, <1>2, <1>3, <1>6 DEF Active, Over
    <3>3. <<c, "cache">> \notin at /\ phase[Cache(c)] = "none"
      BY <2>2, <2>4, <3>2 DEF Turn
    <3>4. x = "cache" => phase'[Own(c)] \in Over
      BY <1>1, <1>3, <1>6 DEF Over
    <3>5. ToSet(sm'.mail[Own(c)]) \subseteq ToSet(sm.mail[Own(c)])
          /\ ToSet(sm'.mail[Cache(c)]) \subseteq ToSet(sm.mail[Cache(c)])
      BY <1>4, CallLookups
    <3>6. QED
      BY <1>1, <1>2, <1>4, <2>3, <2>4, <3>1, <3>2, <3>3, <3>4, <3>5 DEF Follows, Goes
  <2>5. CASE d # c
    <3>1. phase'[Own(d)] = phase[Own(d)]
      BY <1>1, <1>6, <2>5, CallLookups
    <3>2. \A p : <<d, p>> \in at' => <<d, p>> \in at
      BY <1>2, <2>5
    <3>3. \A q \in {Own(d), Cache(d)} : ToSet(sm'.mail[q]) \subseteq ToSet(sm.mail[q])
      BY <1>4, CallLookups
    <3>4. QED
      BY ONLY <1>2, <1>4, <2>1, <2>3, <3>1, <3>2, <3>3, d \in Call, StillFollows
  <2>6. QED
    BY <2>3, <2>4, <2>5
<1>8. Once(sm'.pending) /\ \A i \in Server : Watched(sm', i)
  BY <1>4, SameWatched DEF Kept
<1>9. QED
  BY ONLY <1>7, <1>8, Guarded(sm, phase, at, acks), StepGuarded

(* The callers and the pending lookups are no more than they were, and the *)
(* instances are watched.                                                  *)
Lesser(u, m) ==
  /\ Fewer(u, m) /\ Once(u.pending)
  /\ \A i \in Server : u.caller[i] \in {m.caller[i], Nobody} /\ Watched(u, i)

(* A caller has no use for its lookup any more. *)
LEMMA CallerEnds ==
  ASSUME ServiceInv, Guarded(sm, phase, at, acks), NEW c \in Call, NEW x \in Over,
         phase' = [phase EXCEPT ![Own(c)] = x], phase[Own(c)] # "none",
         at' = at, acks' = acks, Lesser(sm', sm)
  PROVE  Guarded(sm', phase', at', acks')
<1>1. TypeOK /\ Own(c) \in Lookup
  BY CallLookups DEF ServiceInv
<1>2. phase'[Own(c)] = x /\ \A q \in Lookup : q # Own(c) => phase'[q] = phase[q]
  BY <1>1, PhaseSet
<1>3. /\ ToSet(sm'.pending) \subseteq ToSet(sm.pending)
      /\ \A q \in Lookup : ToSet(sm'.mail[q]) \subseteq ToSet(sm.mail[q])
      /\ \A i \in Server : sm'.caller[i] \in {sm.caller[i], Nobody}
      /\ Once(sm'.pending) /\ \A i \in Server : Watched(sm', i)
  BY DEF Lesser, Fewer
<1>4. ASSUME NEW d \in Call, Straight(d)
      PROVE  /\ Follows(sm', sm, phase, at, acks, phase', at', acks', d)
             /\ phase'[Hop(d)] = "none"
  <2>1. Course(sm, phase, at, acks, d) /\ phase[Hop(d)] = "none"
    BY <1>4 DEF Guarded
  <2>2. Turn(sm, phase, at, d)
    BY <2>1 DEF Course
  <2>3. phase'[Hop(d)] = "none" /\ phase'[Cache(d)] = phase[Cache(d)]
    BY <1>2, <2>1, CallLookups
  <2>4. \A q \in {Own(d), Cache(d)} : ToSet(sm'.mail[q]) \subseteq ToSet(sm.mail[q])
    BY <1>3, CallLookups
  <2>5. CASE d = c
    <3>1. x # "none" /\ x \notin Active /\ phase'[Own(d)] = x
      BY <1>2, <2>5 DEF Over, Active
    <3>2. \A i \in Server : sm'.caller[i] \in {Own(d), Cache(d)} => sm'.caller[i] = sm.caller[i]
      <4>1. Own(d) # Nobody /\ Cache(d) # Nobody
        BY CallLookups, ServiceAssumption
      <4>2. QED
        BY <1>3, <4>1
    <3>3. QED
      BY <1>3, <2>2, <2>3, <2>4, <2>5, <3>1, <3>2 DEF Follows, Turn, Goes
  <2>6. CASE d # c
    <3>1. phase'[Own(d)] = phase[Own(d)]
      BY <1>2, <2>6, CallLookups
    <3>2. at' = at /\ acks' = acks
      OBVIOUS
    <3>3. QED
      BY ONLY <1>3, <2>1, <2>3, <2>4, <3>1, <3>2, d \in Call, StillFollows
  <2>7. QED
    BY <2>3, <2>5, <2>6
<1>5. QED
  BY ONLY <1>3, <1>4, Guarded(sm, phase, at, acks), StepGuarded

(* A caller gives its lookup up. *)
LEMMA DiscardGuarded ==
  ASSUME ServiceInv, Guarded(sm, phase, at, acks), NEW c \in Call, Discard(c)
  PROVE  Guarded(sm', phase', at', acks')
<1>1. PICK l \in Lookup : l = Own(c)
  BY CallLookups
<1>2. /\ sm \in State /\ phase[Own(c)] # "none" /\ phase' = [phase EXCEPT ![Own(c)] = "ended"]
      /\ sm' \in Discarded(sm, l) /\ at' = at /\ acks' = acks
  BY <1>1, TypeParts DEF Discard, ServiceInv
<1>3. sm.pending \in Seq(Lookup) /\ Once(sm.pending) /\ \A i \in Server : Watched(sm, i)
  BY <1>2, Fields DEF Guarded
<1>4. ASSUME sm' = sm PROVE Lesser(sm', sm)
  BY <1>3, <1>4 DEF Lesser, Fewer
<1>5. ASSUME NEW p \in Seq(Lookup), NEW n \in DOMAIN sm.pending, p = RemoveAt(sm.pending, n),
             sm' = [sm EXCEPT !.pending = p], ToSet(p) \subseteq ToSet(sm.pending)
      PROVE  Lesser(sm', sm)
  <2>1. Once(p)
    BY <1>3, <1>5, OnceRemove
  <2>2. /\ sm'.pending = p /\ sm'.mail = sm.mail /\ sm'.caller = sm.caller /\ sm'.busy = sm.busy
        /\ sm'.serves = sm.serves /\ sm'.deadlines = sm.deadlines
    BY <1>2, <1>5 DEF State
  <2>3. QED
    BY <1>3, <1>5, <2>1, <2>2 DEF Lesser, Fewer, Watched
<1>6. ASSUME NEW i \in Server, sm' = [Freed(sm, i) EXCEPT !.mail[l] = <<>>]
      PROVE  Lesser(sm', sm)
  <2>1. PICK v : v = Freed(sm, i)
    OBVIOUS
  <2>2. /\ v \in State /\ Aside(v, sm) /\ v.serves = sm.serves
        /\ v.busy[i] = Nobody /\ v.caller[i] = Nobody
        /\ \A j \in Server : j # i => v.busy[j] = sm.busy[j] /\ v.caller[j] = sm.caller[j]
    BY <1>2, <2>1, FreedIs
  <2>3. /\ Kept(sm', v) /\ sm'.busy = v.busy /\ sm'.caller = v.caller /\ Fewer(sm', v)
        /\ sm'.pending = v.pending /\ sm'.deadlines = v.deadlines
    <3>1. sm' = [v EXCEPT !.mail[l] = <<>>]
      BY <1>6, <2>1
    <3>2. QED
      BY <2>2, <3>1, MailDropped
  <2>4. Fewer(sm', sm) /\ Once(sm'.pending)
    BY <1>3, <2>2, <2>3 DEF Fewer, Aside
  <2>5. ASSUME NEW j \in Server PROVE sm'.caller[j] \in {sm.caller[j], Nobody} /\ Watched(sm', j)
    <3>1. CASE j = i
      BY <2>2, <2>3, <3>1 DEF Watched
    <3>2. CASE j # i
      BY <1>3, <2>2, <2>3, <3>2 DEF Watched, Aside, Kept
    <3>3. QED
      BY <3>1, <3>2
  <2>6. QED
    BY <2>4, <2>5 DEF Lesser
<1>7. Lesser(sm', sm)
  BY <1>2, <1>4, <1>5, <1>6, DiscardedIs
<1>8. "ended" \in Over
  BY DEF Over
<1>9. QED
  BY <1>2, <1>7, <1>8, CallerEnds

(* A caller dies. *)
LEMMA CallerDiesGuarded ==
  ASSUME ServiceInv, Guarded(sm, phase, at, acks), NEW c \in Call, CallerDies(c)
  PROVE  Guarded(sm', phase', at', acks')
<1>1. PICK l \in Lookup : l = Own(c)
  BY CallLookups
<1>2. /\ sm \in State /\ phase[Own(c)] # "none" /\ phase' = [phase EXCEPT ![Own(c)] = "dead"]
      /\ sm' = [sm EXCEPT !.mail[l] = <<>>] /\ at' = at /\ acks' = acks
  BY <1>1, TypeParts DEF CallerDies, ServiceInv
<1>3. /\ Kept(sm', sm) /\ sm'.busy = sm.busy /\ sm'.caller = sm.caller /\ Fewer(sm', sm)
      /\ sm'.pending = sm.pending /\ sm'.deadlines = sm.deadlines
  BY <1>2, MailDropped
<1>4. Lesser(sm', sm)
  BY <1>3, SameWatched DEF Lesser, Kept
<1>5. "dead" \in Over
  BY DEF Over
<1>6. QED
  BY <1>2, <1>4, <1>5, CallerEnds

(* A step of which no call that is not forwarded gets a caller: what was a *)
(* call may be its ACK.                                                    *)
LEMMA OthersGuarded ==
  ASSUME Guarded(sm, phase, at, acks), NEW m, Lesser(m, sm),
         \A c \in Call : Straight(c) =>
           /\ phase'[Own(c)] = phase[Own(c)] /\ phase'[Cache(c)] = phase[Cache(c)]
           /\ phase'[Hop(c)] = "none"
           /\ \A p \in Server \cup {"cache"} : <<c, p>> \in at' => <<c, p>> \in at
           /\ \A i \in Server : AckOf(c, i) \in acks' => AckOf(c, i) \in acks \/ <<c, i>> \in at
  PROVE  Guarded(m, phase', at', acks')
<1>1. /\ ToSet(m.pending) \subseteq ToSet(sm.pending)
      /\ \A q \in Lookup : ToSet(m.mail[q]) \subseteq ToSet(sm.mail[q])
      /\ \A i \in Server : m.caller[i] \in {sm.caller[i], Nobody}
      /\ Once(m.pending) /\ \A i \in Server : Watched(m, i)
  BY DEF Lesser, Fewer
<1>2. ASSUME NEW c \in Call, Straight(c)
      PROVE  /\ Follows(m, sm, phase, at, acks, phase', at', acks', c)
             /\ phase'[Hop(c)] = "none"
  <2>1. /\ phase'[Own(c)] = phase[Own(c)] /\ phase'[Cache(c)] = phase[Cache(c)]
        /\ phase'[Hop(c)] = "none"
        /\ \A p \in Server \cup {"cache"} : <<c, p>> \in at' => <<c, p>> \in at
        /\ \A i \in Server : AckOf(c, i) \in acks' => AckOf(c, i) \in acks \/ <<c, i>> \in at
    BY <1>2
  <2>2. Course(sm, phase, at, acks, c)
    BY <1>2 DEF Guarded
  <2>3. \A q \in {Own(c), Cache(c)} : ToSet(m.mail[q]) \subseteq ToSet(sm.mail[q])
                                      /\ phase'[q] = phase[q]
    BY <1>1, <2>1, CallLookups
  <2>4. Follows(m, sm, phase, at, acks, phase', at', acks', c)
    BY ONLY <1>1, <2>1, <2>2, <2>3, c \in Call, StillFollows
  <2>5. QED
    BY <2>1, <2>4
<1>3. QED
  BY ONLY <1>1, <1>2, Guarded(sm, phase, at, acks), StepGuarded

(* What is as it was is no more. *)
LEMMA LesserSame ==
  ASSUME Guarded(sm, phase, at, acks)
  PROVE  Lesser(sm, sm)
BY DEF Guarded, Lesser, Fewer

(* What waits has been looked up. *)
LEMMA AllMade ==
  ASSUME ServiceInv
  PROVE  Made(sm, phase)
BY DEF ServiceInv, Safe, Mails, Made

(* An instance advertises, and unadvertises no service with a timeout. *)
LEMMA AdvertisedGuarded ==
  ASSUME Watchable, ServiceInv, Guarded(sm, phase, at, acks), NEW i \in Server,
         NEW add \in SUBSET Service, NEW remove, remove \cap Timed = {},
         sm' \in Advertised(i, add, remove), phase' = phase, at' = at, acks' = acks
  PROVE  Guarded(sm', phase', at', acks')
<1>1. PICK m : m = [sm EXCEPT !.known = @ \cup {i}, !.serves[i] = (@ \cup add) \ remove]
  OBVIOUS
<1>2. sm \in State /\ sm' \in FirstLooked(m, {l \in Lookup : HasName(m, i, ServiceOf(l))})
  BY <1>1, TypeParts DEF Advertised, ServiceInv
<1>3. /\ m \in State /\ Aside(m, sm) /\ m.busy = sm.busy /\ m.caller = sm.caller
      /\ m.serves[i] = (sm.serves[i] \cup add) \ remove
      /\ \A j \in Server : j # i => m.serves[j] = sm.serves[j]
  <2>1. sm.serves \in [Server -> SUBSET Service] /\ sm.known \in SUBSET Server
    BY <1>2, Fields
  <2>2. (sm.serves[i] \cup add) \ remove \in SUBSET Service
    BY <2>1
  <2>3. PICK f \in [Server -> SUBSET Service], g \in SUBSET Server :
          f = [sm.serves EXCEPT ![i] = (@ \cup add) \ remove] /\ g = sm.known \cup {i}
    BY <2>1, <2>2
  <2>4. m = [sm EXCEPT !.known = g, !.serves = f]
    BY <1>1, <2>3
  <2>5. m \in State /\ Aside(m, sm) /\ m.busy = sm.busy /\ m.caller = sm.caller /\ m.serves = f
    BY <1>2, <2>4 DEF State, Aside
  <2>6. f[i] = (sm.serves[i] \cup add) \ remove /\ \A j \in Server : j # i => f[j] = sm.serves[j]
    BY <2>1, <2>3
  <2>7. QED
    BY <2>5, <2>6
<1>4. \A j \in Server : \A s \in Timed : s \in sm.serves[j] => s \in m.serves[j]
  BY <1>3
<1>5. Eased(m, sm)
  BY <1>3, <1>4 DEF Eased, Aside, Guarded
<1>6. Guarded(m, phase, at, acks)
  BY <1>5, EasedGuarded
<1>7. Made(m, phase)
  BY <1>3, AllMade DEF Made, Aside
<1>8. Guarded(sm', phase, at, acks)
  BY <1>2, <1>3, <1>6, <1>7, FirstLookedGuarded
<1>9. QED
  BY <1>8

(* A server starts, advertises, or unadvertises. *)
LEMMA AdvertiseGuarded ==
  ASSUME Watchable, ServiceInv, Guarded(sm, phase, at, acks), NEW i \in Server,
         Start(i) \/ \E s \in Service : TpAdvertise(i, s) \/ TpUnadvertise(i, s)
  PROVE  Guarded(sm', phase', at', acks')
<1>1. CASE Start(i)
  <2>1. Offers[i] \in SUBSET Service /\ {} \cap Timed = {}
    BY ServiceAssumption
  <2>2. sm' \in Advertised(i, Offers[i], {}) /\ phase' = phase /\ at' = at /\ acks' = acks
    BY <1>1 DEF Start
  <2>3. QED
    BY <2>1, <2>2, AdvertisedGuarded
<1>2. ASSUME NEW s \in Service, TpAdvertise(i, s) PROVE Guarded(sm', phase', at', acks')
  <2>1. {s} \in SUBSET Service /\ {} \cap Timed = {}
    OBVIOUS
  <2>2. sm' \in Advertised(i, {s}, {}) /\ phase' = phase /\ at' = at /\ acks' = acks
    BY <1>2 DEF TpAdvertise
  <2>3. QED
    BY <2>1, <2>2, AdvertisedGuarded
<1>3. ASSUME NEW s \in Service, TpUnadvertise(i, s) PROVE Guarded(sm', phase', at', acks')
  <2>1. {} \in SUBSET Service /\ {s} \cap Timed = {}
    BY <1>3 DEF TpUnadvertise, Watchable
  <2>2. sm' \in Advertised(i, {}, {s}) /\ phase' = phase /\ at' = at /\ acks' = acks
    BY <1>3 DEF TpUnadvertise
  <2>3. QED
    BY <2>1, <2>2, AdvertisedGuarded
<1>4. QED
  BY <1>1, <1>2, <1>3

(* A server dies. *)
LEMMA DieGuarded ==
  ASSUME Guarded(sm, phase, at, acks), NEW i \in Server, Die(i)
  PROVE  Guarded(sm', phase', at', acks')
<1>1. /\ at' = {e \in at : e[2] # i} /\ sm' = sm /\ acks' = acks
      /\ phase' = [l \in Lookup |->
                     IF l[2] = "hop" /\ <<l[1], i>> \in at /\ phase[l] = "looking"
                     THEN "dead" ELSE phase[l]]
  BY DEF Die
<1>2. ASSUME NEW c \in Call, Straight(c)
      PROVE  /\ phase'[Own(c)] = phase[Own(c)] /\ phase'[Cache(c)] = phase[Cache(c)]
             /\ phase'[Hop(c)] = "none"
  <2>1. phase[Hop(c)] = "none"
    BY <1>2 DEF Guarded
  <2>2. Own(c)[2] # "hop" /\ Cache(c)[2] # "hop"
    BY CallLookups
  <2>3. QED
    BY <1>1, <2>1, <2>2, CallLookups
<1>3. Guarded(sm, phase', at', acks')
  BY <1>1, <1>2, LesserSame, OthersGuarded
<1>4. QED
  BY <1>1, <1>3

(* The exit of a server is handled. *)
LEMMA ExitGuarded ==
  ASSUME ServiceInv, Guarded(sm, phase, at, acks), NEW i \in Server, Exit(i)
  PROVE  Guarded(sm', phase', at', acks')
<1>1. PICK m : m = Forgotten(sm, i)
  OBVIOUS
<1>2. sm' = m /\ phase' = phase /\ at' = at /\ acks' = acks /\ sm \in State
  BY <1>1, TypeParts DEF Exit, ServiceInv
<1>3. /\ Aside(m, sm) /\ Away(m, i)
      /\ \A j \in Server : j # i => /\ m.busy[j] = sm.busy[j] /\ m.caller[j] = sm.caller[j]
                                    /\ m.serves[j] = sm.serves[j]
  BY <1>1, <1>2, ForgottenIs
<1>4. Eased(m, sm)
  BY <1>3 DEF Eased, Aside, Away, Guarded
<1>5. Guarded(m, phase, at, acks)
  BY <1>4, EasedGuarded
<1>6. QED
  BY <1>2, <1>5

(* A server ends a call. *)
LEMMA ServeGuarded ==
  ASSUME Guarded(sm, phase, at, acks), NEW i \in Server, NEW c \in Call, Serve(c, i)
  PROVE  Guarded(sm', phase', at', acks')
<1>1. /\ <<c, i>> \in at /\ at' = at \ {<<c, i>>} /\ acks' = acks \cup {AckOf(c, i)}
      /\ sm' = sm /\ phase' = phase
  BY DEF Serve
<1>2. ASSUME NEW d \in Call, Straight(d), NEW j \in Server, AckOf(d, j) \in acks'
      PROVE  AckOf(d, j) \in acks \/ <<d, j>> \in at
  <2>1. AckOf(d, j) = AckOf(c, i) => d = c /\ j = i
    BY DEF AckOf
  <2>2. QED
    BY <1>1, <1>2, <2>1
<1>3. \A d \in Call : Straight(d) => phase[Hop(d)] = "none"
  BY DEF Guarded
<1>4. Guarded(sm, phase', at', acks')
  BY <1>1, <1>2, <1>3, LesserSame, OthersGuarded
<1>5. QED
  BY <1>1, <1>4

(* A server looks up where the call goes on. *)
LEMMA ForwardGuarded ==
  ASSUME Watchable, ServiceInv, Guarded(sm, phase, at, acks), NEW i \in Server, NEW c \in Call,
         Forward(c, i)
  PROVE  Guarded(sm', phase', at', acks')
<1>1. /\ Len(Path[c]) > 1 /\ phase[Hop(c)] = "none" /\ phase' = [phase EXCEPT ![Hop(c)] = "looking"]
      /\ sm' \in Looked(sm, Hop(c)) /\ at' = at /\ acks' = acks
  BY DEF Forward, Forwards
<1>2. /\ ~ Straight(c) /\ Hop(c) \in Lookup /\ Hop(c)[1] = c /\ TypeOK /\ sm \in State
      /\ Hop(c) \notin ToSet(sm.pending)
  <2>1. Len(Path[c]) # 1
    <3>1. PICK p \in Seq(Service) : p = Path[c]
      BY CallAssumption
    <3>2. PICK n \in Nat : n = Len(p)
      BY <3>1
    <3>3. n > 1
      BY <1>1, <3>1, <3>2
    <3>4. n # 1
      BY ONLY <3>3, n \in Nat
    <3>5. QED
      BY <3>1, <3>2, <3>4
  <2>2. QED
    BY <1>1, <2>1, CallLookups, TypeParts DEF Straight, ServiceInv, Safe, Mails
<1>3. phase'[Hop(c)] = "looking" /\ \A q \in Lookup : q # Hop(c) => phase'[q] = phase[q]
  BY <1>1, <1>2, PhaseSet
<1>4. ASSUME NEW d \in Call, Straight(d)
      PROVE  /\ phase'[Own(d)] = phase[Own(d)] /\ phase'[Cache(d)] = phase[Cache(d)]
             /\ phase'[Hop(d)] = "none"
  <2>1. phase[Hop(d)] = "none" /\ d # c
    BY <1>2, <1>4 DEF Guarded
  <2>2. QED
    BY <1>2, <1>3, <2>1, CallLookups
<1>5. Guarded(sm, phase', at', acks')
  BY <1>1, <1>4, LesserSame, OthersGuarded
<1>6. Fresh(sm, phase', at', acks', Hop(c))
  BY <1>2 DEF Fresh
<1>7. QED
  BY <1>1, <1>2, <1>5, <1>6, LookedGuarded

(* It takes the reply. *)
LEMMA ForwardedGuarded ==
  ASSUME ServiceInv, Guarded(sm, phase, at, acks), NEW i \in Server, NEW c \in Call,
         Forwarded(c, i)
  PROVE  Guarded(sm', phase', at', acks')
<1>0. PICK l \in Lookup : l = Hop(c)
  BY CallLookups
<1>1. PICK x : l = Hop(c) /\ x = Head(sm.mail[l])
  BY <1>0
<1>2. /\ phase[l] = "looking" /\ sm.mail[l] # <<>> /\ phase' = [phase EXCEPT ![l] = "ended"]
      /\ sm' = [sm EXCEPT !.mail[l] = Tail(@)] /\ acks' = acks \cup {AckOf(c, i)}
      /\ at' \subseteq at \cup {<<c, x>>} /\ TypeOK
  BY <1>1 DEF Forwarded, ServiceInv
<1>3. ~ Straight(c)
  BY <1>1, <1>2 DEF Guarded
<1>4. /\ Kept(sm', sm) /\ sm'.busy = sm.busy /\ sm'.caller = sm.caller
      /\ sm'.pending = sm.pending /\ sm'.deadlines = sm.deadlines
      /\ \A q \in Lookup : ToSet(sm'.mail[q]) \subseteq ToSet(sm.mail[q])
  BY <1>2, HeadTaken
<1>5. \A q \in Lookup : sm.mail[q] = <<>> => sm'.mail[q] = <<>>
  <2>1. sm.mail \in [Lookup -> Seq(Notice)] /\ sm \in State
    BY <1>2, TypeParts, Fields
  <2>2. PICK f : f = [sm.mail EXCEPT ![l] = Tail(@)]
    OBVIOUS
  <2>3. sm' = [sm EXCEPT !.mail = f]
    BY <1>2, <2>2
  <2>4. sm'.mail = f
    BY <2>1, <2>3 DEF State
  <2>5. QED
    BY <1>2, <2>1, <2>2, <2>4
<1>6. Lesser(sm', sm)
  BY <1>4, <1>5, SameWatched DEF Lesser, Fewer, Kept
<1>7. \A q \in Lookup : q # l => phase'[q] = phase[q]
  BY <1>2, PhaseSet
<1>8. ASSUME NEW d \in Call, Straight(d)
      PROVE  /\ phase'[Own(d)] = phase[Own(d)] /\ phase'[Cache(d)] = phase[Cache(d)]
             /\ phase'[Hop(d)] = "none"
             /\ \A p \in Server \cup {"cache"} : <<d, p>> \in at' => <<d, p>> \in at
             /\ \A j \in Server : AckOf(d, j) \in acks' => AckOf(d, j) \in acks
  <2>1. phase[Hop(d)] = "none" /\ d # c
    BY <1>3, <1>8 DEF Guarded
  <2>2. \A j \in Server : AckOf(d, j) # AckOf(c, i)
    BY <2>1 DEF AckOf
  <2>3. QED
    BY <1>1, <1>2, <1>7, <2>1, <2>2, CallLookups
<1>9. QED
  BY <1>6, <1>8, OthersGuarded

(* Lookups that waited are taken out and made again. *)
LEMMA AgainGuarded ==
  ASSUME Watchable, ServiceInv, Guarded(sm, phase, at, acks), NEW u \in State, NEW again,
         u.pending = Without(sm.pending, again), Eased(u, sm),
         NEW v \in LookedAll(u, Without(sm.pending, Lookup \ again))
  PROVE  Guarded(v, phase, at, acks)
<1>1. PICK s \in Seq(Lookup) : s = sm.pending /\ Once(s)
  BY Fields, TypeParts DEF Guarded, ServiceInv
<1>2. PICK q : q = Without(s, Lookup \ again)
  OBVIOUS
<1>3. q \in Seq(Lookup) /\ ToSet(q) = ToSet(s) \ (Lookup \ again) /\ Once(q)
  BY <1>1, <1>2, WithoutIn, OnceWithout
<1>4. ToSet(u.pending) = ToSet(s) \ again
  BY <1>1, WithoutIn
<1>5. /\ Guarded(u, phase, at, acks)
      /\ \A l \in Lookup :
           l \in ToSet(sm.pending) /\ l \notin ToSet(u.pending) /\ phase[l] # "none" =>
             Fresh(u, phase, at, acks, l)
  BY EasedGuarded
<1>6. ASSUME NEW n \in DOMAIN q PROVE Fresh(u, phase, at, acks, q[n])
  <2>1. q[n] \in Lookup /\ q[n] \in ToSet(q)
    BY <1>3 DEF ToSet
  <2>2. q[n] \in ToSet(sm.pending) /\ q[n] \notin ToSet(u.pending)
    BY <1>1, <1>3, <1>4, <2>1
  <2>3. QED
    BY <1>5, <2>1, <2>2, AllMade DEF Made
<1>7. v \in LookedAll(u, q)
  BY <1>1, <1>2
<1>8. QED
  BY ONLY Watchable, u \in State, <1>3, <1>5, <1>6, <1>7, LookedAllGuarded

(* The connections of the gateway change. *)
LEMMA RemoteAdvertiseGuarded ==
  ASSUME Watchable, ServiceInv, Guarded(sm, phase, at, acks), NEW r \in Remote, NEW s \in Service,
         RemoteAdvertise(r, s)
  PROVE  Guarded(sm', phase', at', acks')
<1>1. sm \in State /\ phase' = phase /\ at' = at /\ acks' = acks
  BY TypeParts DEF RemoteAdvertise, ServiceInv
<1>2. ASSUME NEW add \in SUBSET Service, NEW remove \in SUBSET Service, NEW reset,
             sm' \in RemoteAdvertised(r, add, remove, reset)
      PROVE  Guarded(sm', phase, at, acks)
  <2>1. PICK f \in SUBSET (Service \X Remote) :
          f = ((IF reset THEN {e \in sm.remotes : e[2] # r} ELSE sm.remotes)
               \cup (add \X {r})) \ (remove \X {r})
    BY <1>1, Fields
  <2>2. PICK v : v = [sm EXCEPT !.remotes = f]
    OBVIOUS
  <2>3. v.pending = sm.pending /\ sm.pending \in Seq(Lookup) /\ Once(sm.pending)
    BY <1>1, <2>2, Fields DEF State, Guarded
  <2>4. PICK ready : ready = {l \in Lookup : ~ Empty(v, ServiceOf(l))}
    OBVIOUS
  <2>5. PICK p : p = Without(sm.pending, ready)
    OBVIOUS
  <2>6. p \in Seq(Lookup) /\ ToSet(p) \subseteq ToSet(sm.pending) /\ Once(p)
    BY <2>3, <2>5, WithoutIn, OnceWithout
  <2>7. PICK u : u = [v EXCEPT !.pending = p]
    OBVIOUS
  <2>8. /\ u \in State /\ u.serves = sm.serves /\ u.busy = sm.busy /\ u.deadlines = sm.deadlines
        /\ u.caller = sm.caller /\ u.pending = p /\ u.mail = sm.mail
    BY <1>1, <2>2, <2>6, <2>7 DEF State
  <2>9. sm' \in LookedAll(u, Without(sm.pending, Lookup \ ready))
    BY <1>2, <2>1, <2>2, <2>3, <2>4, <2>5, <2>7 DEF RemoteAdvertised
  <2>10. Eased(u, sm)
    BY <2>6, <2>8 DEF Eased
  <2>11. QED
    BY <2>5, <2>8, <2>9, <2>10, AgainGuarded
<1>3. {s} \in SUBSET Service /\ {} \in SUBSET Service
  OBVIOUS
<1>4. Guarded(sm', phase, at, acks)
  BY <1>2, <1>3 DEF RemoteAdvertise
<1>5. QED
  BY <1>1, <1>4

(* A call that went to another domain ends. *)
LEMMA RemoteServeGuarded ==
  ASSUME Guarded(sm, phase, at, acks), NEW r \in Remote, NEW c \in Call, RemoteServe(c, r)
  PROVE  Guarded(sm', phase', at', acks')
<1>1. at' \subseteq at /\ sm' = sm /\ phase' = phase /\ acks' = acks
  BY DEF RemoteServe
<1>2. \A d \in Call : Straight(d) => phase[Hop(d)] = "none"
  BY DEF Guarded
<1>3. Guarded(sm, phase', at', acks')
  BY <1>1, <1>2, LesserSame, OthersGuarded
<1>4. QED
  BY <1>1, <1>3

(* The forward cache looks up the call it was given. *)
LEMMA CacheRequestGuarded ==
  ASSUME Watchable, ServiceInv, Guarded(sm, phase, at, acks), NEW c \in Call, CacheRequest(c)
  PROVE  Guarded(sm', phase', at', acks')
<1>1. /\ TypeOK /\ sm \in State /\ <<c, "cache">> \in at /\ at' = at \ {<<c, "cache">>}
      /\ phase' = [phase EXCEPT ![Cache(c)] = "looking"]
      /\ sm' \in Looked(sm, Cache(c)) /\ acks' = acks
  BY TypeParts DEF ServiceInv, CacheRequest
<1>2. /\ Cache(c) \in Lookup /\ Cache(c)[1] = c /\ Cache(c)[2] = "cache"
      /\ phase[Cache(c)] = "none" /\ Cache(c) \notin ToSet(sm.pending)
  BY <1>1, CallLookups DEF ServiceInv, Staged, Safe, Mails
<1>3. phase'[Cache(c)] = "looking" /\ \A q \in Lookup : q # Cache(c) => phase'[q] = phase[q]
  BY <1>1, <1>2, PhaseSet
<1>4. ASSUME NEW d \in Call, Straight(d)
      PROVE  /\ Follows(sm, sm, phase, at, acks, phase', at', acks', d)
             /\ phase'[Hop(d)] = "none"
  <2>1. Course(sm, phase, at, acks, d) /\ phase[Hop(d)] = "none"
    BY <1>4 DEF Guarded
  <2>2. Turn(sm, phase, at, d)
    BY <2>1 DEF Course
  <2>3. phase'[Hop(d)] = "none" /\ phase'[Own(d)] = phase[Own(d)]
    BY <1>3, <2>1, CallLookups
  <2>4. CASE d = c
    <3>1. /\ \A p : <<c, p>> \in at' => <<c, p>> \in at
          /\ <<c, "cache">> \notin at' /\ phase'[Cache(c)] # "none"
      BY <1>1, <1>3
    <3>2. QED
      BY <1>1, <1>2, <2>2, <2>3, <2>4, <3>1 DEF Follows, Turn, Goes
  <2>5. CASE d # c
    <3>1. phase'[Cache(d)] = phase[Cache(d)]
      BY <1>3, <2>5, CallLookups
    <3>2. at' \subseteq at /\ acks' = acks
      BY <1>1
    <3>3. QED
      BY ONLY <2>1, <2>3, <3>1, <3>2, d \in Call, StillFollows
  <2>6. QED
    BY <2>3, <2>4, <2>5
<1>5. Guarded(sm, phase', at', acks')
  BY ONLY <1>4, Guarded(sm, phase, at, acks), StepGuarded DEF Guarded
<1>6. Fresh(sm, phase', at', acks', Cache(c))
  <2>1. ASSUME Straight(c)
        PROVE  /\ Trace(sm, at', acks', c) = {} /\ Own(c) \notin ToSet(sm.pending)
               /\ phase'[Own(c)] \in Over
    <3>1. Course(sm, phase, at, acks, c)
      BY <2>1 DEF Guarded
    <3>2. Trace(sm, at, acks, c) = {} /\ Turn(sm, phase, at, c)
      BY <1>1, <3>1 DEF Course, Waits
    <3>3. Trace(sm, at', acks', c) \subseteq Trace(sm, at, acks, c)
      BY <1>1 DEF Trace
    <3>4. phase'[Own(c)] = phase[Own(c)]
      BY <1>3, CallLookups
    <3>5. QED
      BY <1>1, <3>2, <3>3, <3>4 DEF Turn
  <2>2. QED
    BY <1>2, <1>3, <2>1 DEF Fresh
<1>7. QED
  BY <1>1, <1>2, <1>5, <1>6, LookedGuarded

(* It takes the reply. *)
LEMMA CacheReplyGuarded ==
  ASSUME ServiceInv, Guarded(sm, phase, at, acks), NEW c \in Call, CacheReply(c)
  PROVE  Guarded(sm', phase', at', acks')
<1>0. PICK l \in Lookup : l = Cache(c) /\ l[2] = "cache"
  BY CallLookups
<1>1. PICK x : l = Cache(c) /\ x = Head(sm.mail[l]) /\ l[2] = "cache"
  BY <1>0
<1>2. /\ TypeOK /\ phase[l] = "looking" /\ sm.mail[l] # <<>>
      /\ sm' = [sm EXCEPT !.mail[l] = Tail(@)] /\ phase' = [phase EXCEPT ![l] = "ended"]
      /\ at' = at \/ at' = at \cup {<<c, x>>}
      /\ acks' = acks
  BY <1>1 DEF CacheReply, ServiceInv
<1>3. /\ Kept(sm', sm) /\ sm'.busy = sm.busy /\ sm'.caller = sm.caller
      /\ sm'.pending = sm.pending /\ sm'.deadlines = sm.deadlines
      /\ x \in ToSet(sm.mail[l])
      /\ \A q \in Lookup : ToSet(sm'.mail[q]) \subseteq ToSet(sm.mail[q])
  BY <1>1, <1>2, HeadTaken
<1>4. x # "cache"
  <2>1. ContextOf(l) = "no_busy"
    BY <1>1 DEF ContextOf
  <2>2. QED
    BY <1>3, <2>1 DEF ServiceInv, Safe, Mails
<1>5. phase'[l] = "ended" /\ \A q \in Lookup : q # l => phase'[q] = phase[q]
  BY <1>2, PhaseSet
<1>6. ASSUME NEW d \in Call, Straight(d)
      PROVE  /\ Follows(sm', sm, phase, at, acks, phase', at', acks', d)
             /\ phase'[Hop(d)] = "none"
  <2>1. Course(sm, phase, at, acks, d) /\ phase[Hop(d)] = "none"
    BY <1>6 DEF Guarded
  <2>2. Turn(sm, phase, at, d)
    BY <2>1 DEF Course
  <2>3. phase'[Hop(d)] = "none" /\ phase'[Own(d)] = phase[Own(d)]
    BY <1>1, <1>5, <2>1, CallLookups
  <2>4. \A q \in {Own(d), Cache(d)} : ToSet(sm'.mail[q]) \subseteq ToSet(sm.mail[q])
    BY <1>3, CallLookups
  <2>5. CASE d = c
    <3>1. \A p : <<c, p>> \in at' => <<c, p>> \in at \/ p = x
      BY <1>2
    <3>2. <<c, "cache">> \notin at /\ phase[Cache(c)] # "none" /\ phase'[Cache(c)] # "none"
      BY <1>1, <1>2, <1>5, <2>2, <2>5 DEF Turn
    <3>3. <<c, "cache">> \notin at'
      BY <1>4, <3>1, <3>2
    <3>4. QED
      BY <1>1, <1>2, <1>3, <2>3, <2>4, <2>5, <3>1, <3>2, <3>3 DEF Follows, Goes
  <2>6. CASE d # c
    <3>1. phase'[Cache(d)] = phase[Cache(d)]
      BY <1>1, <1>5, <2>6, CallLookups
    <3>2. \A p : <<d, p>> \in at' => <<d, p>> \in at
      BY <1>2, <2>6
    <3>3. QED
      BY ONLY <1>2, <1>3, <2>1, <2>3, <2>4, <3>1, <3>2, d \in Call, StillFollows
  <2>7. QED
    BY <2>3, <2>5, <2>6
<1>7. Once(sm'.pending) /\ \A i \in Server : Watched(sm', i)
  BY <1>3, SameWatched DEF Kept
<1>8. QED
  BY ONLY <1>6, <1>7, Guarded(sm, phase, at, acks), StepGuarded

(* If such a call has an instance of a service with a timeout, nobody else *)
(* has its correlation, nor an ACK of it.                                  *)
LEMMA HolderIs ==
  ASSUME TypeOK, Guarded(sm, phase, at, acks), NEW i \in Server,
         sm.caller[i] # Nobody, Straight(sm.caller[i][1]), sm.busy[i] \in Timed
  PROVE  \A j \in Server :
           /\ sm.caller[j] # Nobody /\ CorrOf(sm.caller[j]) = CorrOf(sm.caller[i]) => j = i
           /\ \A a \in acks : a.corr = CorrOf(sm.caller[i]) => a.from = i
<1>1. /\ sm.caller \in [Server -> Lookup \cup {Nobody}]
      /\ acks \in SUBSET [corr : Corr, from : Server]
  BY TypeParts, Fields
<1>2. PICK l \in Lookup, c \in Call : /\ l = sm.caller[i] /\ c = l[1] /\ l = <<c, l[2]>>
                                      /\ l[2] \in Kind /\ l[2] # "hop" /\ sm.busy[i] = ServiceOf(l)
  BY <1>1, LookupType DEF Guarded, Watched
<1>3. Straight(c)
  BY <1>2
<1>4. CorrOf(l) = <<c, "call">>
  BY <1>2 DEF CorrOf
<1>5. Alone(Trace(sm, at, acks, c))
  BY <1>3 DEF Guarded, Course
<1>6. ASSUME NEW j \in Server, sm.caller[j] # Nobody, CorrOf(sm.caller[j]) = <<c, "call">>
      PROVE  j \in Trace(sm, at, acks, c)
  <2>1. PICK q \in Lookup : q = sm.caller[j] /\ q = <<q[1], q[2]>> /\ q[2] \in Kind
    BY <1>1, <1>6, LookupType
  <2>2. q[1] = c /\ q[2] # "hop"
    BY <1>6, <2>1 DEF CorrOf
  <2>3. q \in {Own(c), Cache(c)}
    BY <2>1, <2>2 DEF Own, Cache, Kind
  <2>4. QED
    BY <2>1, <2>3 DEF Trace
<1>7. ASSUME NEW a \in acks, a.corr = <<c, "call">> PROVE a.from \in Trace(sm, at, acks, c)
  <2>1. a = [corr |-> <<c, "call">>, from |-> a.from] /\ a.from \in Server
    BY <1>1, <1>7
  <2>2. AckOf(c, a.from) \in acks
    BY <2>1 DEF AckOf
  <2>3. QED
    BY <2>1, <2>2 DEF Trace
<1>8. i \in Trace(sm, at, acks, c)
  BY <1>2, <1>4, <1>6, ServiceAssumption
<1>9. QED
  BY <1>2, <1>4, <1>5, <1>6, <1>7, <1>8 DEF Alone

(* An ACK is taken: the deadline that goes with it is that of its call. *)
LEMMA AckGuarded ==
  ASSUME Watchable, ServiceInv, Guarded(sm, phase, at, acks), NEW a \in acks, Ack(a)
  PROVE  Guarded(sm', phase', at', acks')
<1>1. /\ TypeOK /\ sm \in State /\ a.from \in Server /\ phase' = phase /\ at' = at
      /\ acks' = acks \ {a}
  BY TypeParts DEF ServiceInv, Ack
<1>2. PICK u \in State :
        /\ Kept(u, sm) /\ u.busy = sm.busy /\ u.caller = sm.caller
        /\ u.pending = sm.pending /\ u.mail = sm.mail
        /\ \A d \in sm.deadlines : d.corr # a.corr => d \in u.deadlines
        /\ \/ \E fits : sm' \in FirstLooked(Freed(u, a.from), fits)
           \/ a.from \in sm.known /\ Free(sm, a.from) /\ sm' = u
           \/ a.from \notin sm.known /\ sm' = u
  BY <1>1, AckIs
<1>3. ASSUME NEW m, m.pending = sm.pending, m.mail = sm.mail, m.serves = sm.serves,
             m.deadlines = u.deadlines, m.caller[a.from] = Nobody,
             \A j \in Server : j # a.from => m.busy[j] = sm.busy[j] /\ m.caller[j] = sm.caller[j]
      PROVE  Guarded(m, phase', at', acks')
  <2>1. ASSUME NEW j \in Server, j # a.from PROVE Watched(m, j)
    <3>1. Watched(sm, j) /\ m.busy[j] = sm.busy[j] /\ m.caller[j] = sm.caller[j]
      BY <1>3, <2>1 DEF Guarded
    <3>2. ASSUME sm.caller[j] # Nobody, Straight(sm.caller[j][1]), sm.busy[j] \in Timed
          PROVE  \E d \in m.deadlines : d.corr = CorrOf(sm.caller[j]) /\ d.service = sm.busy[j]
      <4>1. PICK d \in sm.deadlines : d.corr = CorrOf(sm.caller[j]) /\ d.service = sm.busy[j]
        BY <3>1, <3>2 DEF Watched
      <4>2. CorrOf(sm.caller[j]) # a.corr
        BY <1>1, <2>1, <3>2, HolderIs
      <4>3. QED
        BY <1>2, <1>3, <4>1, <4>2
    <3>3. QED
      BY <1>3, <3>1, <3>2 DEF Watched
  <2>2. Watched(m, a.from)
    BY <1>3 DEF Watched
  <2>3. Lesser(m, sm)
    BY <1>3, <2>1, <2>2 DEF Lesser, Fewer, Guarded
  <2>4. \A d \in Call : Straight(d) => phase[Hop(d)] = "none"
    BY DEF Guarded
  <2>5. QED
    BY <1>1, <2>3, <2>4, OthersGuarded
<1>4. ASSUME NEW fits, sm' \in FirstLooked(Freed(u, a.from), fits)
      PROVE  Guarded(sm', phase', at', acks')
  <2>1. PICK m : m = Freed(u, a.from)
    OBVIOUS
  <2>2. /\ m \in State /\ Aside(m, u) /\ m.serves = u.serves
        /\ m.busy[a.from] = Nobody /\ m.caller[a.from] = Nobody
        /\ \A j \in Server : j # a.from => m.busy[j] = u.busy[j] /\ m.caller[j] = u.caller[j]
    BY <1>1, <2>1, FreedIs
  <2>3. m.pending = sm.pending /\ Guarded(m, phase', at', acks')
    BY <1>2, <1>3, <2>2 DEF Aside, Kept
  <2>4. Made(m, phase')
    BY <1>1, <2>3, AllMade DEF Made
  <2>5. sm' \in FirstLooked(m, fits)
    BY <1>4, <2>1
  <2>6. QED
    BY <2>2, <2>3, <2>4, <2>5, FirstLookedGuarded
<1>5. ASSUME sm' = u, a.from \notin sm.known \/ Free(sm, a.from)
      PROVE  Guarded(sm', phase', at', acks')
  <2>1. sm.caller[a.from] = Nobody
    BY <1>1, <1>5 DEF ServiceInv, Safe, Reserves, Away, Free
  <2>2. Guarded(u, phase', at', acks')
    BY <1>2, <1>3, <2>1 DEF Kept
  <2>3. QED
    BY <1>5, <2>2
<1>6. QED
  BY <1>2, <1>4, <1>5

(* A call is late: the deadline is that of the caller it finds. *)
LEMMA TimeoutGuarded ==
  ASSUME Watchable, ServiceInv, Guarded(sm, phase, at, acks), NEW d \in sm.deadlines, Timeout(d)
  PROVE  Guarded(sm', phase', at', acks')
<1>1. /\ TypeOK /\ sm \in State /\ phase' = phase /\ at' = at /\ acks' = acks
  BY TypeParts DEF ServiceInv, Timeout, processVars
<1>2. PICK owner : owner = {i \in Local(sm, d.service) :
                              sm.caller[i] # Nobody /\ CorrOf(sm.caller[i]) = d.corr}
  OBVIOUS
<1>3. PICK u : u = sm'
  OBVIOUS
<1>4. /\ u.serves = sm.serves /\ u.busy = sm.busy /\ u.pending = sm.pending /\ u.mail = sm.mail
      /\ u.deadlines = sm.deadlines \ {d}
      /\ \/ owner = {} /\ u.caller = sm.caller
         \/ \E i \in owner : /\ i \in Server /\ u.caller[i] = Nobody
                             /\ \A j \in Server : j # i => u.caller[j] = sm.caller[j]
  <2>1. \/ owner = {} /\ u = [sm EXCEPT !.deadlines = @ \ {d}]
        \/ \E i \in owner : u = [[sm EXCEPT !.deadlines = @ \ {d}] EXCEPT !.caller[i] = Nobody]
    BY <1>2, <1>3 DEF Timeout
  <2>2. ASSUME u = [sm EXCEPT !.deadlines = @ \ {d}]
        PROVE  /\ u.serves = sm.serves /\ u.busy = sm.busy /\ u.pending = sm.pending
               /\ u.mail = sm.mail /\ u.deadlines = sm.deadlines \ {d} /\ u.caller = sm.caller
    BY <1>1, <2>2 DEF State
  <2>3. ASSUME NEW i \in owner, u = [[sm EXCEPT !.deadlines = @ \ {d}] EXCEPT !.caller[i] = Nobody]
        PROVE  /\ u.serves = sm.serves /\ u.busy = sm.busy /\ u.pending = sm.pending
               /\ u.mail = sm.mail /\ u.deadlines = sm.deadlines \ {d}
               /\ i \in Server /\ u.caller[i] = Nobody
               /\ \A j \in Server : j # i => u.caller[j] = sm.caller[j]
    <3>1. i \in Server /\ sm.caller \in [Server -> Lookup \cup {Nobody}]
      BY <1>1, <1>2, Fields DEF Local
    <3>2. PICK q, ds : q = [sm.caller EXCEPT ![i] = Nobody] /\ ds = sm.deadlines \ {d}
      OBVIOUS
    <3>3. u = [sm EXCEPT !.deadlines = ds, !.caller = q]
      BY <1>1, <2>3, <3>2 DEF State
    <3>4. /\ u.serves = sm.serves /\ u.busy = sm.busy /\ u.pending = sm.pending
          /\ u.mail = sm.mail /\ u.deadlines = ds /\ u.caller = q
      BY <1>1, <3>3 DEF State
    <3>5. q[i] = Nobody /\ \A j \in Server : j # i => q[j] = sm.caller[j]
      BY <3>1, <3>2
    <3>6. QED
      BY <3>1, <3>2, <3>4, <3>5
  <2>4. QED
    BY <2>1, <2>2, <2>3
<1>5. \A j \in Server : u.caller[j] \in {sm.caller[j], Nobody}
  BY <1>4
<1>6. ASSUME NEW j \in Server, u.caller[j] # Nobody, u.caller[j] = sm.caller[j] PROVE Watched(u, j)
  <2>1. Watched(sm, j)
    BY DEF Guarded
  <2>2. ASSUME Straight(sm.caller[j][1]), sm.busy[j] \in Timed
        PROVE  \E e \in u.deadlines : e.corr = CorrOf(sm.caller[j]) /\ e.service = sm.busy[j]
    <3>1. PICK e \in sm.deadlines : e.corr = CorrOf(sm.caller[j]) /\ e.service = sm.busy[j]
      BY <1>6, <2>1, <2>2 DEF Watched
    <3>2. ASSUME e = d PROVE FALSE
      <4>1. j \in owner
        BY <1>2, <1>6, <2>1, <2>2, <3>1, <3>2 DEF Watched, Local
      <4>2. PICK i \in owner : i \in Server /\ u.caller[i] = Nobody
        BY <1>4, <4>1
      <4>3. sm.caller[i] # Nobody /\ CorrOf(sm.caller[i]) = CorrOf(sm.caller[j])
        BY <1>2, <3>1, <3>2, <4>2
      <4>4. i = j
        BY <1>1, <1>6, <2>2, <4>2, <4>3, HolderIs
      <4>5. QED
        BY <1>6, <4>2, <4>4
    <3>3. e \in u.deadlines
      BY <1>4, <3>2
    <3>4. QED
      BY <3>1, <3>3
  <2>3. QED
    BY <1>4, <1>6, <2>1, <2>2 DEF Watched
<1>7. \A j \in Server : Watched(u, j)
  BY <1>5, <1>6 DEF Watched
<1>8. Lesser(u, sm)
  BY <1>4, <1>5, <1>7 DEF Lesser, Fewer, Guarded
<1>9. \A c \in Call : Straight(c) => phase[Hop(c)] = "none"
  BY DEF Guarded
<1>10. Guarded(u, phase', at', acks')
  BY <1>1, <1>8, <1>9, OthersGuarded
<1>11. QED
  BY <1>3, <1>10

(* A caller that is told that there is no such service is given nothing.   *)
LEMMA AbsentLed ==
  ASSUME NEW m \in State, NEW l \in Lookup
  PROVE  Led(Told(m, l, "absent"), m, l)
<1>1. PICK x \in Notice \ Server : x = "absent" /\ x # "cache"
  BY ServiceAssumption DEF Notice
<1>2. PICK u : u = Told(m, l, x)
  OBVIOUS
<1>3. /\ u \in State /\ Kept(u, m) /\ u.busy = m.busy /\ u.caller = m.caller
      /\ u.pending = m.pending /\ u.deadlines = m.deadlines /\ u.mail = Mailed(m, l, x)
  BY <1>2, ToldIs
<1>4. u.mail = Mailed(m, l, x)
  BY <1>3
<1>5. /\ \A q \in Lookup : q # l => u.mail[q] = m.mail[q]
      /\ ToSet(u.mail[l]) \subseteq ToSet(m.mail[l]) \cup {x}
  BY <1>4, MailedIs
<1>6. Led(u, m, l)
  BY <1>1, <1>3, <1>5 DEF Led, Kept
<1>7. QED
  BY <1>1, <1>2, <1>6

(* A reply of the domain: the lookup that asked is made again, put in      *)
(* front, or told that there is no such service.                           *)
LEMMA DiscoveryReplyGuarded ==
  ASSUME Watchable, ServiceInv, Guarded(sm, phase, at, acks), NEW corr \in sm.asked,
         DiscoveryReply(corr)
  PROVE  Guarded(sm', phase', at', acks')
<1>1. TypeOK /\ sm \in State /\ phase' = phase /\ at' = at /\ acks' = acks
  BY TypeParts DEF ServiceInv, DiscoveryReply, processVars
<1>2. PICK u \in State :
        /\ Alike(u, sm)
        /\ \/ sm' = u
           \/ \E l \in Lookup, t \in Seq(Lookup) :
                /\ ToSet(u.pending) = ToSet(t) \cup {l} /\ Again(u, l, t)
                /\ \E n \in DOMAIN u.pending : l = u.pending[n] /\ t = RemoveAt(u.pending, n)
  BY <1>1, DiscoveryIs
<1>3. /\ u.pending = sm.pending /\ u.mail = sm.mail /\ u.serves = sm.serves
      /\ u.busy = sm.busy /\ u.caller = sm.caller /\ u.deadlines = sm.deadlines
  BY <1>2 DEF Alike, Kept
<1>4. sm.pending \in Seq(Lookup) /\ Once(sm.pending)
  BY <1>1, Fields DEF Guarded
<1>5. CASE sm' = u
  <2>1. Eased(u, sm)
    BY <1>3, <1>4 DEF Eased
  <2>2. QED
    BY <1>1, <1>5, <2>1, EasedGuarded
<1>6. ASSUME NEW l \in Lookup, NEW t \in Seq(Lookup), Again(u, l, t),
             \E n \in DOMAIN u.pending : l = u.pending[n] /\ t = RemoveAt(u.pending, n)
      PROVE  Guarded(sm', phase, at, acks)
  <2>1. PICK n \in DOMAIN sm.pending : l = sm.pending[n] /\ t = RemoveAt(sm.pending, n)
    BY <1>3, <1>6
  <2>2. /\ Once(t) /\ ToSet(t) = ToSet(sm.pending) \ {l}
        /\ l \in ToSet(sm.pending) /\ l \notin ToSet(t)
    <3>1. Once(t) /\ ToSet(t) = ToSet(sm.pending) \ {l}
      BY <1>4, <2>1, OnceRemove
    <3>2. QED
      BY <2>1, <3>1 DEF ToSet
  <2>3. PICK v : v = [u EXCEPT !.pending = t]
    OBVIOUS
  <2>4. /\ v \in State /\ v.pending = t /\ v.mail = sm.mail /\ v.serves = sm.serves
        /\ v.busy = sm.busy /\ v.caller = sm.caller /\ v.deadlines = sm.deadlines
    BY <1>3, <2>3 DEF State
  <2>5. Eased(v, sm)
    BY <2>2, <2>4 DEF Eased
  <2>6. Guarded(v, phase, at, acks) /\ Fresh(v, phase, at, acks, l)
    BY <2>2, <2>4, <2>5, EasedGuarded, AllMade DEF Made
  <2>7. CASE sm' \in Looked(v, l)
    BY <2>4, <2>6, <2>7, LookedGuarded
  <2>8. CASE sm' = [v EXCEPT !.pending = <<l>> \o t]
    <3>1. PICK p : p = <<l>> \o t
      OBVIOUS
    <3>2. Once(p) /\ ToSet(p) = ToSet(t) \cup {l}
      BY <2>2, <3>1, OnceFront, FrontIn
    <3>3. /\ sm'.pending = p /\ sm'.mail = sm.mail /\ sm'.serves = sm.serves
          /\ sm'.busy = sm.busy /\ sm'.caller = sm.caller /\ sm'.deadlines = sm.deadlines
      BY <2>4, <2>8, <3>1 DEF State
    <3>4. Eased(sm', sm)
      BY <2>2, <3>2, <3>3 DEF Eased
    <3>5. QED
      BY <3>4, EasedGuarded
  <2>9. CASE sm' = Told(v, l, "absent")
    <3>1. Led(sm', v, l)
      BY <2>4, <2>9, AbsentLed
    <3>2. QED
      BY <2>4, <2>6, <3>1, LedGuarded
  <2>10. QED
    BY <1>6, <2>3, <2>7, <2>8, <2>9 DEF Again
<1>7. Guarded(sm', phase, at, acks)
  BY <1>2, <1>5, <1>6, <1>1
<1>8. QED
  BY <1>1, <1>7

(* The domain manager asks for servers. *)
LEMMA PrepareShutdownGuarded ==
  ASSUME Watchable, ServiceInv, Guarded(sm, phase, at, acks), NEW P \in Drains, PrepareShutdown(P)
  PROVE  Guarded(sm', phase', at', acks')
<1>1. TypeOK /\ sm \in State /\ phase' = phase /\ at' = at /\ acks' = acks
  BY TypeParts DEF ServiceInv, PrepareShutdown, processVars
<1>2. PICK u \in State, p \in Seq(Lookup) :
        /\ sm' \in LookedAll(u, p) /\ u.mail = sm.mail
        /\ \A i \in P \cap sm.known : Away(u, i)
        /\ \A i \in Server \ (P \cap sm.known) :
             u.busy[i] = sm.busy[i] /\ u.caller[i] = sm.caller[i] /\ u.serves[i] = sm.serves[i]
        /\ u.deadlines = sm.deadlines
        /\ \E again : /\ p = Without(sm.pending, Lookup \ again)
                      /\ u.pending = Without(sm.pending, again)
  <2>1. \E u \in State, p \in Seq(Lookup) :
          LET here == P \cap sm.known
          IN /\ sm' \in LookedAll(u, p) /\ ToSet(p) \subseteq ToSet(sm.pending)
             /\ u.known = sm.known \ here /\ ToSet(u.pending) \subseteq ToSet(sm.pending)
             /\ u.mail = sm.mail /\ \A i \in here : Away(u, i)
             /\ \A i \in Server \ here : /\ u.busy[i] = sm.busy[i] /\ u.caller[i] = sm.caller[i]
                                         /\ u.serves[i] = sm.serves[i]
             /\ u.deadlines = sm.deadlines
             /\ \E again : /\ p = Without(sm.pending, Lookup \ again)
                           /\ u.pending = Without(sm.pending, again)
    BY <1>1, ShutdownIs
  <2>2. QED
    BY <2>1
<1>3. \A i \in Server :
        \/ u.caller[i] = Nobody
        \/ u.busy[i] = sm.busy[i] /\ u.caller[i] = sm.caller[i] /\ u.serves[i] = sm.serves[i]
  BY <1>2 DEF Away
<1>4. PICK again : /\ p = Without(sm.pending, Lookup \ again)
                   /\ u.pending = Without(sm.pending, again)
  BY <1>2
<1>5. sm.pending \in Seq(Lookup) /\ Once(sm.pending)
  BY <1>1, Fields DEF Guarded
<1>6. Once(u.pending) /\ ToSet(u.pending) \subseteq ToSet(sm.pending)
  <2>1. ToSet(u.pending) = ToSet(sm.pending) \ again
    BY <1>4, <1>5, WithoutIn
  <2>2. Once(u.pending)
    BY <1>4, <1>5, OnceWithout
  <2>3. QED
    BY <2>1, <2>2
<1>7. Eased(u, sm)
  BY <1>2, <1>3, <1>6 DEF Eased
<1>8. sm' \in LookedAll(u, Without(sm.pending, Lookup \ again))
  BY <1>2, <1>4
<1>9. Guarded(sm', phase, at, acks)
  BY <1>4, <1>7, <1>8, AgainGuarded
<1>10. QED
  BY <1>1, <1>9

(* At the start nothing is looked up. *)
LEMMA GuardedInit ==
  ASSUME Init
  PROVE  Guarded(sm, phase, at, acks)
<1>1. /\ sm.pending = <<>> /\ sm.mail = [l \in Lookup |-> <<>>]
      /\ sm.caller = [i \in Server |-> Nobody]
      /\ at = {} /\ acks = {} /\ phase = [l \in Lookup |-> "none"]
  BY DEF Init
<1>2. ToSet(<<>>) = {} /\ Once(<<>>)
  BY DEF ToSet, Once
<1>3. \A i \in Server : Watched(sm, i)
  BY <1>1 DEF Watched
<1>4. ASSUME NEW c \in Call PROVE Course(sm, phase, at, acks, c) /\ phase[Hop(c)] = "none"
  <2>1. /\ Own(c) \in Lookup /\ Hop(c) \in Lookup /\ Cache(c) \in Lookup
        /\ Own(c) # Nobody /\ Cache(c) # Nobody
    BY CallLookups, ServiceAssumption
  <2>2. /\ phase[Own(c)] = "none" /\ phase[Hop(c)] = "none" /\ phase[Cache(c)] = "none"
        /\ sm.mail[Own(c)] = <<>> /\ sm.mail[Cache(c)] = <<>>
    BY <1>1, <2>1
  <2>3. Trace(sm, at, acks, c) = {}
    BY <1>1, <1>2, <2>1, <2>2 DEF Trace
  <2>4. Turn(sm, phase, at, c)
    BY <1>1, <1>2, <2>2 DEF Turn
  <2>5. QED
    BY <2>2, <2>3, <2>4 DEF Course, Alone
<1>5. QED
  BY <1>1, <1>2, <1>3, <1>4 DEF Guarded

(* Every step keeps it. *)
LEMMA GuardedStep ==
  ASSUME Watchable, ServiceInv, Guarded(sm, phase, at, acks), [Next]_vars
  PROVE  Guarded(sm', phase', at', acks')
<1>1. CASE CallerNext
  <2>1. PICK c \in Call : LookupRequest(c) \/ Receive(c) \/ Discard(c) \/ CallerDies(c)
    BY <1>1 DEF CallerNext
  <2>2. QED
    BY <2>1, LookupRequestGuarded, ReceiveGuarded, DiscardGuarded, CallerDiesGuarded
<1>2. CASE ServerNext
  <2>1. PICK i \in Server :
          \/ Start(i) \/ Die(i) \/ Exit(i)
          \/ \E s \in Service : TpAdvertise(i, s) \/ TpUnadvertise(i, s)
          \/ \E c \in Call : Serve(c, i) \/ Forward(c, i) \/ Forwarded(c, i)
    BY <1>2 DEF ServerNext
  <2>2. CASE Start(i) \/ \E s \in Service : TpAdvertise(i, s) \/ TpUnadvertise(i, s)
    BY <2>2, AdvertiseGuarded
  <2>3. CASE Die(i) \/ Exit(i)
    BY <2>3, DieGuarded, ExitGuarded
  <2>4. CASE \E c \in Call : Serve(c, i) \/ Forward(c, i) \/ Forwarded(c, i)
    BY <2>4, ServeGuarded, ForwardGuarded, ForwardedGuarded
  <2>5. QED
    BY <2>1, <2>2, <2>3, <2>4
<1>3. CASE RemoteNext
  BY <1>3, RemoteAdvertiseGuarded, RemoteServeGuarded DEF RemoteNext
<1>4. CASE CacheNext
  BY <1>4, CacheRequestGuarded, CacheReplyGuarded DEF CacheNext
<1>5. CASE ManagerNext
  BY <1>5, AckGuarded, TimeoutGuarded, DiscoveryReplyGuarded, PrepareShutdownGuarded
     DEF ManagerNext
<1>6. CASE UNCHANGED vars
  BY <1>6 DEF vars, drainVars, processVars
<1>7. QED
  BY <1>1, <1>2, <1>3, <1>4, <1>5, <1>6 DEF Next

(* A call that no server hands on has its deadline until its ACK or the    *)
(* timeout, while it has an instance of a service with a timeout: whatever *)
(* callers, servers and the cache do, and whatever correlations the other  *)
(* calls share, a call that takes too long is answered, when no service    *)
(* with a timeout is advertised from inside a call.                        *)
THEOREM DeadlinesAreKept ==
  ASSUME Quiet, Watchable
  PROVE  Spec => []DeadlineKept
<1> DEFINE WatchInv == ServiceInv /\ Guarded(sm, phase, at, acks)
<1>1. Init => WatchInv
  BY InitSafe, GuardedInit
<1>2. WatchInv /\ [Next]_vars => WatchInv'
  BY InvStep, GuardedStep
<1>3. WatchInv => DeadlineKept
  <2>1. SUFFICES ASSUME WatchInv PROVE DeadlineKept
    OBVIOUS
  <2>2. sm.known \subseteq Server
    BY <2>1, TypeParts, Fields DEF ServiceInv
  <2>3. QED
    BY <2>1, <2>2 DEF DeadlineKept, Guarded, Watched
<1>4. QED
  BY <1>1, <1>2, <1>3, PTL DEF Spec
=============================================================================
