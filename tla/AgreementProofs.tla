--------------------------- MODULE AgreementProofs ---------------------------
(***************************************************************************)
(* The parts of a global transaction agree and the answer its owner gets   *)
(* is true, where nothing decides beside the manager (Undisturbed).  The   *)
(* invariant Decided says which situation every transaction is in, from    *)
(* the work in it to the answer; every handler moves one transaction from  *)
(* one situation to the next and leaves the others alone.                  *)
(***************************************************************************)
EXTENDS CommitProofs

USE BranchAssumption, ResourceAssumption, AnswerAssumption

(* Nothing decides beside the manager: no owner dies, no other domain      *)
(* drives a branch, no server is late, no resource fails in the second     *)
(* phase, and one branch of a transaction asks for its end.                *)
Undisturbed ==
  /\ Mortal = {} /\ Upstream = {} /\ Straggler = {} /\ Fault = {}
  /\ \A x, y \in Client : GlobalOf[x] = GlobalOf[y] => x = y

PartsIn(g) == {p \in Part : GlobalOf[p[1]] = g}
Requests(g) == {r \in issued : GlobalOf[r.trid] = g}
Fans(g) == {e \in fanout : GlobalFan(e) = g}
JobsOf(e) == {j \in Outstanding : j.req = e.req}
Votes(e) == e.got \cup {<<m.job.part, m.code>> : m \in {n \in replies : n.job.req = e.req}}
Finals(r) == {answers[r][n] : n \in {k \in DOMAIN answers[r] : answers[r][k].stage # "prepare"}}
Success == [stage |-> "commit", state |-> "ok"]

(* Where a part may be left although TX_OK is answered: ToTx makes ok of   *)
(* retry and of invalid_xid.                                               *)
Unsettled == IF Refusal \cap {"retry", "invalid_xid"} = {} THEN {} ELSE {"active"}

(* The situations of a global transaction, in the order it goes through    *)
(* them.  Nobody has asked for its end: the manager has heard of all work. *)
Working(g) ==
  /\ Requests(g) = {}
  /\ \A p \in PartsIn(g) : rm[p] = IF p \in involved THEN "active" ELSE "idle"

(* The owner has asked for the commit, and e coordinates it.               *)
Alone(g, e) ==
  /\ Fans(g) = {e} /\ Requests(g) = {e.req}
  /\ e.req.kind = "tx_commit" /\ Finals(e.req) = {}

Preparing(g, e) ==
  /\ Alone(g, e)
  /\ e.phase = "prepare" /\ e.base = "read_only"
  /\ \A p \in PartsIn(g) : rm[p] # "committed" /\ (p \notin e.expect => rm[p] = "idle")
  /\ \A j \in JobsOf(e) : rm[j.part] = "active"
  /\ \A v \in Votes(e) : /\ v[2] = "ok" => rm[v[1]] = "prepared"
                         /\ v[2] = "read_only" => rm[v[1]] = "readonly"

OnePhase(g, e) ==
  /\ Alone(g, e)
  /\ e.phase = "commit" /\ e.base = "read_only" /\ e.got = {}
  /\ \E p \in PartsIn(g) :
       /\ e.expect = {p} /\ rm[p] \in {"active", "committed", "rolledback"}
       /\ \A q \in PartsIn(g) \ {p} : rm[q] = "idle"
  /\ \A j \in JobsOf(e) : j.onephase /\ rm[j.part] = "active"
  /\ \A v \in Votes(e) : /\ v[2] # "read_only"
                         /\ v[2] = "ok" <=> rm[v[1]] = "committed"
                         /\ v[2] \in {"retry", "invalid_xid"} => rm[v[1]] \in Unsettled

Committing(g, e) ==
  /\ Alone(g, e)
  /\ e.phase = "commit" /\ e.base = "ok"
  /\ \A p \in PartsIn(g) :
       /\ p \in e.expect => rm[p] \in {"prepared", "committed"}
       /\ p \notin e.expect => rm[p] \in {"idle", "readonly"}
  /\ \A j \in JobsOf(e) : ~ j.onephase /\ rm[j.part] = "prepared"
  /\ \A v \in Votes(e) : v[2] = "ok" /\ rm[v[1]] = "committed"

(* Somebody has refused, or the owner has asked for the rollback.          *)
Doomed(g) ==
  /\ Requests(g) # {}
  /\ \A e \in Fans(g) : e.phase = "rollback"
  /\ \A p \in PartsIn(g) : rm[p] # "committed"
  /\ \A r \in Requests(g) : Success \notin Finals(r)

(* The owner has been told that the transaction is committed.              *)
Finished(g) ==
  /\ Fans(g) = {}
  /\ \E r \in issued : Requests(g) = {r} /\ r.kind = "tx_commit" /\ Finals(r) \subseteq {Success}
  /\ \A p \in PartsIn(g) : rm[p] \in {"idle", "readonly", "committed"} \cup Unsettled

(* The decision to commit is taken, and is or may be in the log.           *)
Sealed(g) ==
  \/ \E e \in fanout : Committing(g, e)
  \/ Finished(g) /\ \A p \in PartsIn(g) : rm[p] # "active"

Situation(g) ==
  \/ Working(g) \/ Doomed(g) \/ Finished(g)
  \/ \E e \in fanout : Preparing(g, e) \/ OnePhase(g, e) \/ Committing(g, e)

(* Only owners ask, and what is coordinated belongs to one transaction.    *)
Owned ==
  /\ \A r \in issued : r.kind \in TxKind /\ r.trid \in Client
  /\ \A r \in Request \ issued : Finals(r) = {}
  /\ \A e \in fanout : /\ \A p \in e.expect : GlobalOf[p[1]] = GlobalFan(e)
                       /\ \A v \in e.got : v[1] \in e.expect

(* The inductive invariant.                                                *)
Decided ==
  /\ CommitInv /\ Coordinated /\ Owned
  /\ \A g \in Gtrid : Situation(g)
  /\ \A x \in logged \cup durable : Sealed(GlobalOf[x])
-----------------------------------------------------------------------------
(* Requests, votes and waited parts of a fan-out are of its transaction.   *)
LEMMA OfOneFamily ==
  ASSUME CommitInv, Owned, NEW e \in fanout
  PROVE  /\ e \in Entry /\ e.req \in Request /\ e.req \in issued
         /\ e.req \in Requests(GlobalFan(e)) /\ GlobalFan(e) \in Gtrid
         /\ \A p \in e.expect : p \in PartsIn(GlobalFan(e))
         /\ \A j \in JobsOf(e) : Waits(e, j) /\ j.part \in PartsIn(GlobalFan(e))
         /\ \A v \in Votes(e) : v[1] \in e.expect /\ v[1] \in PartsIn(GlobalFan(e))
<1>1. e \in Entry /\ e.req \in Request /\ e.req.trid \in Xid /\ e.expect \subseteq Part
  BY DEF CommitInv, TypeOK, Entry, Request
<1>2. e.req \in issued
  BY DEF CommitInv, Known
<1>3. e.req \in Requests(GlobalFan(e)) /\ GlobalFan(e) \in Gtrid
  BY <1>1, <1>2 DEF Requests, GlobalFan
<1>4. \A p \in e.expect : p \in PartsIn(GlobalFan(e))
  BY <1>1 DEF Owned, PartsIn
<1>5. ASSUME NEW j \in Travelling, j.req = e.req PROVE Waits(e, j) /\ j.part \in e.expect
  BY <1>5 DEF CommitInv, AwaitedAll, OneFanout, Waits
<1>6. \A j \in JobsOf(e) : Waits(e, j) /\ j.part \in e.expect
  BY <1>5 DEF JobsOf, Travelling
<1>7. \A v \in Votes(e) : v[1] \in e.expect
  BY <1>5 DEF Votes, Owned, Travelling
<1>8. QED
  BY <1>1, <1>2, <1>3, <1>4, <1>6, <1>7

(* Nothing of the transaction g is touched.                                *)
Same(g) ==
  /\ Requests(g)' = Requests(g) /\ Fans(g)' = Fans(g)
  /\ \A e \in Fans(g) : JobsOf(e)' \subseteq JobsOf(e) /\ Votes(e)' \subseteq Votes(e)
  /\ \A r \in Requests(g) : Finals(r)' = Finals(r)
  /\ \A p \in PartsIn(g) : rm'[p] = rm[p] /\ (p \in involved' <=> p \in involved)

(* Then it stays where it is.                                              *)
LEMMA SameSituation ==
  ASSUME CommitInv, Owned, NEW g \in Gtrid, Same(g)
  PROVE  /\ Situation(g) => Situation(g)'
         /\ Sealed(g) => Sealed(g)'
<1>1. Working(g) => Working(g)'
  BY DEF Same, Working
<1>2. Doomed(g) => Doomed(g)'
  BY DEF Same, Doomed
<1>3. Finished(g) => Finished(g)'
  <2> SUFFICES ASSUME Finished(g) PROVE Finished(g)'
    OBVIOUS
  <2>1. PICK r \in issued : Requests(g) = {r} /\ r.kind = "tx_commit" /\ Finals(r) \subseteq {Success}
    BY DEF Finished
  <2>2. Requests(g)' = {r} /\ Finals(r)' = Finals(r) /\ r \in Requests(g)'
    BY <2>1 DEF Same
  <2>3. r \in issued'
    BY <2>2 DEF Requests
  <2>4. QED
    BY <2>1, <2>2, <2>3 DEF Finished, Same, Unsettled
<1>4. ASSUME NEW e \in fanout, Alone(g, e)
      PROVE  /\ e \in Fans(g) /\ e \in fanout' /\ Alone(g, e)'
             /\ \A p \in e.expect : p \in PartsIn(g)
             /\ \A j \in JobsOf(e)' : j \in JobsOf(e) /\ j.part \in PartsIn(g)
             /\ \A v \in Votes(e)' : v \in Votes(e) /\ v[1] \in PartsIn(g)
  <2>1. e \in Fans(g) /\ e \in Fans(g)' /\ GlobalFan(e) = g
    BY <1>4 DEF Alone, Same, Fans
  <2>2. e \in fanout' /\ Alone(g, e)'
    BY <1>4, <2>1 DEF Alone, Same, Fans
  <2>3. QED
    BY <2>1, <2>2, OfOneFamily DEF Same
<1>5. ASSUME NEW e \in fanout, Preparing(g, e) PROVE e \in fanout' /\ Preparing(g, e)'
  <2>1. Alone(g, e)
    BY <1>5 DEF Preparing
  <2>2. QED
    BY <1>4, <1>5, <2>1 DEF Preparing, Same
<1>6. ASSUME NEW e \in fanout, OnePhase(g, e) PROVE e \in fanout' /\ OnePhase(g, e)'
  <2>1. Alone(g, e)
    BY <1>6 DEF OnePhase
  <2>2. QED
    BY <1>4, <1>6, <2>1 DEF OnePhase, Same, Unsettled
<1>7. ASSUME NEW e \in fanout, Committing(g, e) PROVE e \in fanout' /\ Committing(g, e)'
  <2>1. Alone(g, e)
    BY <1>7 DEF Committing
  <2>2. QED
    BY <1>4, <1>7, <2>1 DEF Committing, Same
<1>8. Situation(g) => Situation(g)'
  BY <1>1, <1>2, <1>3, <1>5, <1>6, <1>7 DEF Situation
<1>9. Sealed(g) => Sealed(g)'
  BY <1>3, <1>7 DEF Sealed, Same
<1>10. QED
  BY <1>8, <1>9

(* A step that is about the transaction h alone.                           *)
OnlyIn(h) ==
  /\ issued \subseteq issued'
  /\ \A r \in issued' : r \in issued \/ GlobalOf[r.trid] = h
  /\ \A e : (e \in fanout <=> e \in fanout') \/ GlobalFan(e) = h
  /\ \A j \in Outstanding' : j \in Outstanding \/ GlobalOf[j.req.trid] = h
  /\ \A m \in replies' : m \in replies \/ GlobalOf[m.job.req.trid] = h
  /\ \A r \in Request : GlobalOf[r.trid] = h \/ Finals(r)' = Finals(r)
  /\ \A p \in Part : GlobalOf[p[1]] = h \/ (rm'[p] = rm[p] /\ (p \in involved' <=> p \in involved))

(* It leaves the others alone.                                             *)
LEMMA OthersSame ==
  ASSUME CommitInv, NEW h \in Gtrid, OnlyIn(h), NEW g \in Gtrid, g # h
  PROVE  Same(g)
<1>1. Requests(g)' = Requests(g) /\ \A r \in Requests(g) : Finals(r)' = Finals(r)
  BY DEF OnlyIn, Requests, CommitInv, TypeOK
<1>2. Fans(g)' = Fans(g)
  BY DEF OnlyIn, Fans
<1>3. ASSUME NEW e \in Fans(g)
      PROVE  JobsOf(e)' \subseteq JobsOf(e) /\ Votes(e)' \subseteq Votes(e)
  <2>1. GlobalOf[e.req.trid] # h
    BY DEF Fans, GlobalFan
  <2>2. QED
    BY <2>1 DEF OnlyIn, JobsOf, Votes
<1>4. \A p \in PartsIn(g) : rm'[p] = rm[p] /\ (p \in involved' <=> p \in involved)
  BY DEF OnlyIn, PartsIn
<1>5. QED
  BY <1>1, <1>2, <1>3, <1>4 DEF Same

(* So it is enough to look at h.                                           *)
LEMMA StepIn ==
  ASSUME Decided, CommitInv', Coordinated', Owned', NEW h \in Gtrid, OnlyIn(h),
         Situation(h)', Sealed(h) => Sealed(h)',
         \A x \in logged' \cup durable' : x \in logged \cup durable \/ Sealed(GlobalOf[x])'
  PROVE  Decided'
<1>1. \A g \in Gtrid : Situation(g)' /\ (Sealed(g) => Sealed(g)')
  <2> SUFFICES ASSUME NEW g \in Gtrid PROVE Situation(g)' /\ (Sealed(g) => Sealed(g)')
    OBVIOUS
  <2>1. CASE g = h
    BY <2>1
  <2>2. CASE g # h
    BY <2>2, OthersSame, SameSituation DEF Decided
  <2>3. QED
    BY <2>1, <2>2
<1>2. \A x \in logged \cup durable : GlobalOf[x] \in Gtrid
  BY DEF Decided, CommitInv, TypeOK
<1>3. QED
  BY <1>1, <1>2 DEF Decided

(* A step that is about none.                                              *)
LEMMA StepInNone ==
  ASSUME Decided, CommitInv', Coordinated', UNCHANGED <<issued, fanout, involved, rm>>,
         Outstanding' \subseteq Outstanding, replies' \subseteq replies,
         \A r \in Request : Finals(r)' = Finals(r),
         logged' \cup durable' \subseteq logged \cup durable
  PROVE  Decided'
<1>1. ASSUME NEW g \in Gtrid PROVE Situation(g)' /\ (Sealed(g) => Sealed(g)')
  <2>1. Same(g)
    BY DEF Same, Requests, Fans, JobsOf, Votes, Decided, CommitInv, TypeOK
  <2>2. QED
    BY <2>1, SameSituation DEF Decided
<1>2. Owned'
  BY DEF Decided, Owned
<1>3. \A x \in logged \cup durable : GlobalOf[x] \in Gtrid
  BY DEF Decided, CommitInv, TypeOK
<1>4. QED
  BY <1>1, <1>2, <1>3 DEF Decided
-----------------------------------------------------------------------------
(* A sequence with one more element.                                       *)
LEMMA AppendedDomain ==
  ASSUME NEW S, NEW s \in Seq(S), NEW a \in S
  PROVE  /\ DOMAIN Append(s, a) = DOMAIN s \cup {Len(s) + 1} /\ Len(s) + 1 \notin DOMAIN s
         /\ \A n \in DOMAIN s : Append(s, a)[n] = s[n]
         /\ Append(s, a)[Len(s) + 1] = a
<1>1. /\ Len(s) \in Nat /\ DOMAIN s = 1 .. Len(s)
      /\ Append(s, a) \in Seq(S) /\ Len(Append(s, a)) = Len(s) + 1
  BY AppendProperties
<1>2. DOMAIN Append(s, a) = 1 .. Len(s) + 1
  BY <1>1
<1>3. QED
  BY <1>1, <1>2, AppendProperties

(* One more final answer of a request, and of no other.                    *)
LEMMA FinalsAnswered ==
  ASSUME TypeOK, NEW req \in Request, req.kind # "exit",
         NEW st \in {"commit", "rollback"}, NEW code \in Code \cup TxCode,
         answers' = Answered(req, st, code)
  PROVE  /\ Finals(req)' = Finals(req) \cup {[stage |-> st, state |-> code]}
         /\ \A r \in Request : r # req => Finals(r)' = Finals(r)
<1> DEFINE a == [stage |-> st, state |-> code]
           s == answers[req]
<1>1. answers \in [Request -> Seq(Answer)] /\ s \in Seq(Answer) /\ a.stage = st /\ a \in Answer
  BY DEF TypeOK, Answer, Phase
<1>2. answers' = [answers EXCEPT ![req] = Append(s, a)]
  BY DEF Answered
<1>3. answers'[req] = Append(s, a) /\ \A r \in Request : r # req => answers'[r] = answers[r]
  BY <1>1, <1>2
<1>4. /\ DOMAIN Append(s, a) = DOMAIN s \cup {Len(s) + 1} /\ Len(s) + 1 \notin DOMAIN s
      /\ \A n \in DOMAIN s : Append(s, a)[n] = s[n]
      /\ Append(s, a)[Len(s) + 1] = a
  BY <1>1, AppendedDomain
<1> HIDE DEF a, s
<1>5. Finals(req)' = Finals(req) \cup {a}
  <2>1. Finals(req)' = {Append(s, a)[n] : n \in {k \in DOMAIN Append(s, a) :
                                                   Append(s, a)[k].stage # "prepare"}}
    BY <1>3 DEF Finals
  <2>2. Finals(req) = {s[n] : n \in {k \in DOMAIN s : s[k].stage # "prepare"}}
    BY DEF Finals, s
  <2>3. a.stage # "prepare"
    BY <1>1
  <2>4. QED
    BY <1>4, <2>1, <2>2, <2>3
<1>6. QED
  BY <1>3, <1>5, SMTT(45) DEF Finals, a

(* The answers that persist::send releases are of the prepare stage.       *)
LEMMA FinalsReleased ==
  ASSUME TypeOK, NEW batch, answers' = Released(answers, batch)
  PROVE  \A r \in Request : Finals(r)' = Finals(r)
<1> SUFFICES ASSUME NEW r \in Request PROVE Finals(r)' = Finals(r)
  OBVIOUS
<1> DEFINE a == [stage |-> "prepare", state |-> ToTx("ok")]
           s == answers[r]
<1>1. s \in Seq(Answer) /\ a.stage = "prepare" /\ a \in Answer
  BY ToTxType DEF TypeOK, Answer, Phase
<1>2. answers'[r] = IF r \in batch THEN Append(s, a) ELSE s
  BY DEF Released
<1>3. /\ DOMAIN Append(s, a) = DOMAIN s \cup {Len(s) + 1} /\ Len(s) + 1 \notin DOMAIN s
      /\ \A n \in DOMAIN s : Append(s, a)[n] = s[n]
      /\ Append(s, a)[Len(s) + 1] = a
  BY <1>1, AppendedDomain
<1> HIDE DEF a, s
<1>4. Finals(r) = {s[n] : n \in {k \in DOMAIN s : s[k].stage # "prepare"}}
  BY DEF Finals, s
<1>5. CASE r \in batch
  <2>1. Finals(r)' = {Append(s, a)[n] : n \in {k \in DOMAIN Append(s, a) :
                                                 Append(s, a)[k].stage # "prepare"}}
    BY <1>2, <1>5 DEF Finals
  <2>2. QED
    BY <1>1, <1>3, <1>4, <2>1
<1>6. CASE r \notin batch
  BY <1>2, <1>4, <1>6 DEF Finals
<1>7. QED
  BY <1>5, <1>6

(* The manager starts with nothing to decide.                              *)
LEMMA DecidedInit == Init => Decided
<1> SUFFICES ASSUME Init PROVE Decided
  OBVIOUS
<1>1. CommitInv /\ Coordinated
  BY CommitInit, CoordinatedInit
<1>2. \A g \in Gtrid : Working(g)
  BY DEF Init, Working, Requests, PartsIn
<1>3. Owned
  BY DEF Init, Owned, Finals
<1>4. logged \cup durable = {}
  BY DEF Init
<1>5. QED
  BY <1>1, <1>2, <1>3, <1>4 DEF Decided, Situation

(* The proxies come and go without touching a transaction.                 *)
LEMMA DecidedQuiet ==
  ASSUME Decided, CommitInv', Coordinated',
         NEW i \in Instance,
         \/ Ready(i) \/ ScaleOut(i) \/ ScaleIn(i) \/ ProxyExit(i)
         \/ ProxyStart(i) \/ ProxyShutdown(i) \/ ProxyCrash(i)
  PROVE  Decided'
<1>1. TypeOK /\ pool \in PoolType /\ Unique(pool)
  BY DEF Decided, CommitInv, TypeOK
<1>2. UNCHANGED <<issued, fanout, involved, rm, answers, replies, logged, durable>>
  BY DEF Ready, ScaleOut, ScaleIn, ProxyExit, ProxyStart, ProxyShutdown, ProxyCrash,
     transVars, logVars, clientVars, resourceVars
<1>3. Outstanding' = JobsIn(pool')
  BY DEF Outstanding, JobsIn, Queued
<1>4. CASE Ready(i)
  <2>1. pool' \in Done(pool, i)
    BY <1>4 DEF Ready
  <2>2. JobsIn(pool') \subseteq JobsIn(pool)
    BY <1>1, <2>1, DoneJobs
  <2>3. QED
    BY <1>2, <1>3, <2>2, StepInNone DEF Finals, Outstanding
<1>5. CASE ScaleOut(i) \/ ScaleIn(i) \/ ProxyExit(i)
  <2>1. \E v : pool' = [pool EXCEPT !.state[i] = v]
    BY <1>5 DEF ScaleOut, ScaleIn, ProxyExit
  <2>2. JobsIn(pool') = JobsIn(pool)
    BY <1>1, <2>1, StateJobs
  <2>3. QED
    BY <1>2, <1>3, <2>2, StepInNone DEF Finals, Outstanding
<1>6. CASE ProxyStart(i) \/ ProxyShutdown(i) \/ ProxyCrash(i)
  <2>1. pool' = pool
    BY <1>6 DEF ProxyStart, ProxyShutdown, ProxyCrash
  <2>2. QED
    BY <1>2, <1>3, <2>1, StepInNone DEF Finals, Outstanding
<1>7. QED
  BY <1>4, <1>5, <1>6

(* Neither does writing the log.                                           *)
LEMMA DecidedPersist ==
  ASSUME Decided, CommitInv', Coordinated', Persist
  PROVE  Decided'
<1>1. \A r \in Request : Finals(r)' = Finals(r)
  BY FinalsReleased DEF Persist, Decided, CommitInv
<1>2. Outstanding' = Outstanding
  BY DEF Persist, Outstanding, JobsIn, Queued
<1>3. QED
  BY <1>1, <1>2, StepInNone DEF Persist, transVars, resourceVars
-----------------------------------------------------------------------------
(* Nothing coordinates a transaction that nobody has asked to end.         *)
LEMMA Unasked ==
  ASSUME Decided, NEW g \in Gtrid, Requests(g) = {}
  PROVE  /\ Working(g) /\ Fans(g) = {} /\ ~ Sealed(g)
         /\ \A f \in fanout : GlobalFan(f) # g
         /\ \A j \in Outstanding : GlobalOf[j.req.trid] # g
<1>1. Working(g) /\ ~ Sealed(g)
  BY DEF Decided, Situation, Sealed, Doomed, Finished, Preparing, OnePhase, Committing, Alone
<1>2. \A f \in fanout : GlobalFan(f) # g
  BY OfOneFamily DEF Decided
<1>3. \A j \in Outstanding : GlobalOf[j.req.trid] # g
  BY <1>2 DEF Decided, CommitInv, AwaitedAll, Travelling, Waits, GlobalFan
<1>4. QED
  BY <1>1, <1>2, <1>3 DEF Fans

(* Whoever has asked, asked for the branch of the owner.                   *)
LEMMA AskedByOwner ==
  ASSUME Undisturbed, Decided, NEW r \in issued
  PROVE  /\ r.trid \in Client /\ r \in Request /\ Asked(r.trid)
         /\ r.kind \in TxKind /\ r = [kind |-> r.kind, trid |-> r.trid]
         /\ \A x \in Client : GlobalOf[x] = GlobalOf[r.trid] => r.trid = x
<1>1. r.kind \in TxKind /\ r.trid \in Client /\ r \in Request
  BY DEF Decided, Owned, CommitInv, TypeOK
<1>2. r = [kind |-> r.kind, trid |-> r.trid]
  BY <1>1 DEF Request
<1>3. Asked(r.trid)
  BY <1>1, <1>2 DEF Asked
<1>4. QED
  BY <1>1, <1>2, <1>3 DEF Undisturbed

(* Work that the manager hears of keeps a transaction at work.             *)
LEMMA WorkedInvolved ==
  ASSUME TypeOK, NEW x \in Xid, NEW S \in SUBSET Resource, Working(GlobalOf[x]),
         NEW inv, inv = involved \cup ({x} \X S)
  PROVE  /\ \A p \in PartsIn(GlobalOf[x]) :
              Worked(x, S)[p] = IF p \in inv THEN "active" ELSE "idle"
         /\ \A p \in Part : GlobalOf[p[1]] = GlobalOf[x]
              \/ (Worked(x, S)[p] = rm[p] /\ (p \in inv <=> p \in involved))
<1>1. \A p \in Part : p \in {x} \X S <=> p[1] = x /\ p[2] \in S
  BY DEF Part
<1>2. QED
  BY <1>1 DEF Working, PartsIn, Worked

(* involved::request: nobody has asked for the end of the transaction.     *)
LEMMA DecidedInvolve ==
  ASSUME Undisturbed, Decided, CommitInv', Coordinated',
         NEW x \in Xid, NEW S \in SUBSET Resource, MayWork(x, S), AddInvolved(x, S),
         rm' = Worked(x, S),
         UNCHANGED <<fanout, pool, issued, answers, replies, logged, durable>>
  PROVE  Decided'
<1> DEFINE h == GlobalOf[x]
<1>1. h \in Gtrid
  OBVIOUS
<1>2. Requests(h) = {}
  BY AskedByOwner DEF MayWork, Requests, Undisturbed
<1>3. Working(h) /\ ~ Sealed(h)
  BY <1>1, <1>2, Unasked
<1>4. involved' = involved \cup ({x} \X S)
  BY DEF AddInvolved
<1>5. /\ \A p \in PartsIn(h) : rm'[p] = IF p \in involved' THEN "active" ELSE "idle"
      /\ \A p \in Part : GlobalOf[p[1]] = h
              \/ (rm'[p] = rm[p] /\ (p \in involved' <=> p \in involved))
  BY <1>3, <1>4, WorkedInvolved DEF Decided, CommitInv
<1>6. Outstanding' = Outstanding
  BY DEF Outstanding, JobsIn, Queued
<1>7. OnlyIn(h)
  BY <1>5, <1>6 DEF OnlyIn, Finals
<1>8. Situation(h)'
  BY <1>2, <1>5 DEF Situation, Working, Requests
<1>9. Owned'
  BY DEF Decided, Owned, Finals
<1> HIDE DEF h
<1>10. QED
  BY <1>1, <1>3, <1>7, <1>8, <1>9, StepIn
-----------------------------------------------------------------------------
(* A handler that takes a request of the owner and starts a fan-out.       *)
LEMMA FanStarted ==
  ASSUME Decided, NEW h \in Gtrid,
         NEW req \in Request, req \notin issued, req.kind \in TxKind, req.trid \in Client,
         GlobalOf[req.trid] = h, issued' = issued \cup {req},
         NEW phase \in Phase, NEW one \in BOOLEAN, NEW parts \in SUBSET PartsIn(h),
         Send(JobsFor(phase, one, req, parts)),
         NEW f, f = Fan(phase, req, parts, "read_only"), fanout' = fanout \cup {f},
         UNCHANGED <<answers, replies>>,
         \A p \in Part : GlobalOf[p[1]] = h
              \/ (rm'[p] = rm[p] /\ (p \in involved' <=> p \in involved))
  PROVE  /\ f.req = req /\ f.phase = phase /\ f.base = "read_only"
         /\ f.expect = parts /\ f.got = {} /\ f \in fanout'
         /\ Fans(h)' = Fans(h) \cup {f} /\ Requests(h)' = Requests(h) \cup {req}
         /\ \A j \in JobsOf(f)' : j.onephase = one /\ j.part \in parts
         /\ Votes(f)' = {} /\ Finals(req)' = {}
         /\ OnlyIn(h) /\ Owned'
<1> DEFINE jobs == JobsFor(phase, one, req, parts)
<1>1. /\ f.req = req /\ f.phase = phase /\ f.base = "read_only"
      /\ f.expect = parts /\ f.got = {} /\ GlobalFan(f) = h
  BY DEF Fan, GlobalFan
<1>2. f \in fanout' /\ Fans(h)' = Fans(h) \cup {f} /\ Requests(h)' = Requests(h) \cup {req}
  BY <1>1 DEF Fans, Requests
<1>3. jobs \in SUBSET Job /\ \A j \in jobs : j.req = req /\ j.onephase = one /\ j.part \in parts
  BY JobsForType DEF JobsFor, PartsIn
<1>4. \A j \in Travelling : j.req # req
  BY KnownJobs DEF Decided
<1>5. Outstanding' = Outstanding \cup jobs
  <2>1. jobs \cap Outstanding = {}
    BY <1>3, <1>4 DEF Travelling
  <2>2. QED
    BY <1>3, <2>1, SendJobs DEF Decided
<1> HIDE DEF jobs
<1>6. \A j \in JobsOf(f)' : j.onephase = one /\ j.part \in parts
  BY <1>1, <1>3, <1>4, <1>5 DEF JobsOf, Travelling
<1>7. Votes(f)' = {}
  BY <1>1, <1>4 DEF Votes, Travelling
<1>8. \A r : Finals(r)' = Finals(r)
  BY DEF Finals
<1>9. OnlyIn(h)
  BY <1>1, <1>3, <1>5, <1>8 DEF OnlyIn
<1>10. Owned'
  BY <1>1, <1>8 DEF Decided, Owned, PartsIn
<1>11. Finals(req)' = {}
  BY <1>8 DEF Decided, Owned
<1>12. QED
  BY <1>1, <1>2, <1>6, <1>7, <1>9, <1>10, <1>11

(* commit::request.                                                        *)
LEMMA DecidedTxCommit ==
  ASSUME Undisturbed, Decided, CommitInv', Coordinated',
         NEW x \in Xid, NEW S \in SUBSET Rm, TxCommit(x, S)
  PROVE  Decided'
<1> DEFINE h == GlobalOf[x]
           req == [kind |-> "tx_commit", trid |-> x]
           inv == involved \cup ({x} \X S)
           br == Purged(h, branches \cup {x}, inv)
           parts == PartsOf(h, inv)
<1>1. /\ h \in Gtrid /\ req \in Request /\ req.kind = "tx_commit" /\ req.kind \in TxKind
      /\ req.kind # "exit" /\ req.trid = x /\ GlobalOf[req.trid] = h /\ x \in Client
  BY DEF TxCommit, ClientMayCommit, Request, TxKind
<1>2. ~ Asked(x) /\ req \notin issued
  BY DEF TxCommit, ClientMayCommit, Asked, TxKind
<1>3. Requests(h) = {}
  BY <1>1, <1>2, AskedByOwner DEF Requests
<1>4. /\ Working(h) /\ Fans(h) = {} /\ ~ Sealed(h)
      /\ \A f \in fanout : GlobalFan(f) # h
  BY <1>1, <1>3, Unasked
<1>5. ~ InProgress(h)
  BY <1>1, <1>4 DEF Decided, Coordinated, InProgressIsCoordinated, GlobalFan
<1>6. S \in SUBSET Resource /\ TypeOK
  BY DEF Resource, Decided, CommitInv
<1>7. /\ \A p \in PartsIn(h) : Worked(x, S)[p] = IF p \in inv THEN "active" ELSE "idle"
      /\ \A p \in Part : GlobalOf[p[1]] = h
              \/ (Worked(x, S)[p] = rm[p] /\ (p \in inv <=> p \in involved))
  <2> HIDE DEF inv
  <2>1. inv = involved \cup ({x} \X S)
    BY DEF inv
  <2>2. QED
    BY <1>4, <1>6, <2>1, WorkedInvolved
<1>8. /\ inv \subseteq Part /\ parts \in SUBSET PartsIn(h)
      /\ \A p \in PartsIn(h) : p \in parts <=> p \in inv
  <2>1. inv \subseteq Part
    BY <1>6, ResourceType DEF TypeOK
  <2>2. QED
    BY <2>1 DEF PartsOf, PartsIn
<1>9. /\ issued' = issued \cup {req} /\ rm' = Worked(x, S) /\ UNCHANGED <<logged, durable, replies>>
      /\ \/ /\ parts = {} /\ answers' = Answered(req, "commit", "ok")
            /\ Removed(h) /\ UNCHANGED <<fanout, pool>>
         \/ StartCommit(req, inv, br)
  BY <1>5 DEF TxCommit, logVars
<1> HIDE DEF req, inv, br, parts
<1>10. \A p \in PartsIn(h) : rm'[p] = IF p \in parts THEN "active" ELSE "idle"
  BY <1>7, <1>8, <1>9
<1>11. CASE /\ parts = {} /\ answers' = Answered(req, "commit", "ok")
            /\ Removed(h) /\ UNCHANGED <<fanout, pool>>
  <2>1. /\ Finals(req)' = {Success}
        /\ \A r \in Request : r # req => Finals(r)' = Finals(r)
    <3>1. Finals(req) = {}
      BY <1>1, <1>2 DEF Decided, Owned
    <3>2. QED
      BY <1>1, <1>6, <1>11, <3>1, FinalsAnswered, StringsOfPhases DEF Success
  <2>2. Outstanding' = Outstanding
    BY <1>11 DEF Outstanding, JobsIn, Queued
  <2>3. \A p \in Part : GlobalOf[p[1]] = h
              \/ (rm'[p] = rm[p] /\ (p \in involved' <=> p \in involved))
    BY <1>7, <1>9, <1>11 DEF Removed, PartsOf
  <2>4. OnlyIn(h)
    BY <1>1, <1>9, <1>11, <2>1, <2>2, <2>3 DEF OnlyIn
  <2>5. Finished(h)'
    <3>1. Fans(h)' = {} /\ Requests(h)' = {req} /\ req \in issued'
      BY <1>1, <1>3, <1>4, <1>9, <1>11 DEF Fans, Requests
    <3>2. QED
      BY <1>1, <1>10, <1>11, <2>1, <3>1 DEF Finished
  <2>6. Owned'
    BY <1>1, <1>9, <1>11, <2>1 DEF Decided, Owned
  <2> HIDE DEF h
  <2>7. QED
    BY <1>1, <1>4, <1>9, <2>4, <2>5, <2>6, StepIn DEF Situation
<1>12. CASE StartCommit(req, inv, br)
  <2>1. PICK phase \in {"prepare", "commit"}, one \in BOOLEAN :
          /\ Send(JobsFor(phase, one, req, parts))
          /\ fanout' = fanout \cup {Fan(phase, req, parts, "read_only")}
          /\ phase = "commit" => one /\ \E p \in parts : parts = {p}
    BY <1>1, <1>12 DEF StartCommit, parts
  <2>2. involved' = inv /\ answers' = answers
    BY <1>12 DEF StartCommit
  <2>3. \A p \in Part : GlobalOf[p[1]] = h
              \/ (rm'[p] = rm[p] /\ (p \in involved' <=> p \in involved))
    BY <1>7, <1>9, <2>2
  <2>4. PICK f : f = Fan(phase, req, parts, "read_only")
    OBVIOUS
  <2>5. /\ f.req = req /\ f.phase = phase /\ f.base = "read_only"
        /\ f.expect = parts /\ f.got = {} /\ f \in fanout'
        /\ Fans(h)' = Fans(h) \cup {f} /\ Requests(h)' = Requests(h) \cup {req}
        /\ \A j \in JobsOf(f)' : j.onephase = one /\ j.part \in parts
        /\ Votes(f)' = {} /\ Finals(req)' = {}
        /\ OnlyIn(h) /\ Owned'
    <3> HIDE DEF h
    <3>1. phase \in Phase /\ fanout' = fanout \cup {f}
      BY <2>1, <2>4, StringsOfPhases
    <3>2. QED
      BY <1>1, <1>2, <1>8, <1>9, <2>1, <2>2, <2>3, <2>4, <3>1, FanStarted
  <2>6. Alone(h, f)'
    BY <1>1, <1>3, <1>4, <2>5 DEF Alone
  <2>7. CASE phase = "prepare"
    <3>1. Preparing(h, f)'
      BY <1>8, <1>10, <2>5, <2>6, <2>7 DEF Preparing
    <3>2. QED
      <4> HIDE DEF h
      <4>1. QED
        BY <1>1, <1>4, <1>9, <2>5, <3>1, StepIn DEF Situation
  <2>8. CASE phase = "commit"
    <3>1. PICK p \in parts : parts = {p}
      BY <2>1, <2>8
    <3>2. /\ p \in PartsIn(h) /\ f.expect = {p} /\ rm'[p] = "active"
          /\ \A q \in PartsIn(h) \ {p} : rm'[q] = "idle"
      BY <1>8, <1>10, <2>5, <3>1
    <3>3. \A j \in JobsOf(f)' : j.onephase /\ rm'[j.part] = "active"
      BY <2>1, <2>5, <2>8, <3>1, <3>2
    <3>4. OnePhase(h, f)'
      BY <2>5, <2>6, <2>8, <3>2, <3>3 DEF OnePhase, PartsIn
    <3>5. QED
      <4> HIDE DEF h
      <4>1. QED
        BY <1>1, <1>4, <1>9, <2>5, <3>4, StepIn DEF Situation
  <2>9. QED
    BY <2>7, <2>8
<1>13. QED
  BY <1>9, <1>11, <1>12

(* The owner asks for the rollback of what is not committed, be it that it *)
(* has not asked for the commit, or that the commit has failed.            *)
LEMMA RollbackOfUndone ==
  ASSUME Undisturbed, Decided, NEW x \in Xid, ClientMayRollback(x)
  PROVE  /\ ~ Sealed(GlobalOf[x])
         /\ \A f \in Fans(GlobalOf[x]) : f.phase = "rollback"
         /\ \A p \in PartsIn(GlobalOf[x]) : rm[p] # "committed"
         /\ \A r \in Requests(GlobalOf[x]) : Success \notin Finals(r)
<1> DEFINE h == GlobalOf[x]
           c == [kind |-> "tx_commit", trid |-> x]
<1>1. h \in Gtrid /\ x \in Client /\ c.kind = "tx_commit" /\ c.trid = x
  BY DEF ClientMayRollback
<1>2. CASE c \notin issued
  <2>1. ASSUME NEW r \in Requests(h) PROVE FALSE
    <3>1. r \in issued /\ GlobalOf[r.trid] = h
      BY <2>1 DEF Requests
    <3>2. r.trid = x /\ r.kind \in TxKind /\ r = [kind |-> r.kind, trid |-> r.trid]
      BY <1>1, <3>1, AskedByOwner
    <3>3. r = c \/ r = [kind |-> "tx_rollback", trid |-> x]
      BY <3>2 DEF TxKind
    <3>4. QED
      BY <1>2, <3>1, <3>3 DEF ClientMayRollback
  <2>2. Requests(h) = {}
    BY <2>1
  <2>3. QED
    BY <1>1, <2>2, Unasked DEF Working
<1>3. CASE c \in issued
  <2>1. CommitFailed(x)
    BY <1>3 DEF ClientMayRollback
  <2>2. PICK n \in DOMAIN answers[c] : answers[c][n].stage = "commit" /\ answers[c][n].state # "ok"
    BY <2>1 DEF CommitFailed
  <2>3. answers[c][n] \in Finals(c) /\ answers[c][n] # Success
    BY <2>2 DEF Finals, Success
  <2>4. c \in Requests(h)
    BY <1>1, <1>3 DEF Requests
  <2> HIDE DEF c
  <2>5. ~ Finished(h) /\ ~ Working(h) /\ \A e : ~ Alone(h, e)
    <3>1. ~ Finished(h)
      BY <2>3, <2>4 DEF Finished
    <3>2. ~ Working(h)
      BY <2>4 DEF Working
    <3>3. \A e : ~ Alone(h, e)
      BY <2>3, <2>4 DEF Alone
    <3>4. QED
      BY <3>1, <3>2, <3>3
  <2>6. Doomed(h) /\ ~ Sealed(h)
    <3> HIDE DEF h
    <3>1. Situation(h)
      BY <1>1 DEF Decided
    <3>2. QED
      BY <2>5, <3>1 DEF Situation, Sealed, Preparing, OnePhase, Committing
  <2>7. QED
    BY <2>6 DEF Doomed
<1>4. QED
  BY <1>2, <1>3

(* rollback::request.                                                      *)
LEMMA DecidedTxRollback ==
  ASSUME Undisturbed, Decided, CommitInv', Coordinated',
         NEW x \in Xid, NEW S \in SUBSET Rm, TxRollback(x, S)
  PROVE  Decided'
<1> DEFINE h == GlobalOf[x]
           req == [kind |-> "tx_rollback", trid |-> x]
           inv == involved \cup ({x} \X S)
           parts == PartsOf(h, inv)
<1>1. /\ h \in Gtrid /\ req \in Request /\ req.kind \in TxKind
      /\ req.kind # "exit" /\ req.trid = x /\ GlobalOf[req.trid] = h /\ x \in Client
      /\ req \notin issued /\ ClientMayRollback(x)
  BY DEF TxRollback, ClientMayRollback, Request, TxKind
<1>2. /\ ~ Sealed(h)
      /\ \A f \in Fans(h) : f.phase = "rollback"
      /\ \A p \in PartsIn(h) : rm[p] # "committed"
      /\ \A r \in Requests(h) : Success \notin Finals(r)
  BY <1>1, RollbackOfUndone
<1>3. S \in SUBSET Resource /\ TypeOK
  BY DEF Resource, Decided, CommitInv
<1>4. /\ inv \subseteq Part /\ parts \in SUBSET PartsIn(h)
      /\ \A p \in Part : GlobalOf[p[1]] = h
           \/ (Worked(x, S)[p] = rm[p] /\ (p \in inv <=> p \in involved))
      /\ \A p \in Part : Worked(x, S)[p] \in {rm[p], "active"}
  <2>1. inv \subseteq Part
    BY <1>3, ResourceType DEF TypeOK
  <2>2. \A p \in Part : p \in {x} \X S <=> p[1] = x /\ p[2] \in S
    BY DEF Part
  <2>3. QED
    BY <2>1, <2>2 DEF PartsOf, PartsIn, Worked
<1>5. /\ issued' = issued \cup {req} /\ rm' = Worked(x, S) /\ UNCHANGED <<durable, replies>>
      /\ logged' \subseteq logged
      /\ \/ /\ answers' = Answered(req, "rollback", Concluded(req, "read_only"))
            /\ Removed(h) /\ UNCHANGED <<fanout, pool>>
         \/ /\ Send(JobsFor("rollback", FALSE, req, parts))
            /\ fanout' = fanout \cup {Fan("rollback", req, parts, "read_only")}
            /\ involved' = inv /\ answers' = answers
  BY DEF TxRollback, Unlogged
<1> HIDE DEF req, inv, parts
<1>6. \A p \in PartsIn(h) : rm'[p] # "committed"
  BY <1>2, <1>4, <1>5 DEF PartsIn
<1>7. CASE /\ answers' = Answered(req, "rollback", Concluded(req, "read_only"))
           /\ Removed(h) /\ UNCHANGED <<fanout, pool>>
  <2>1. /\ Success \notin Finals(req)'
        /\ \A r \in Request : r # req => Finals(r)' = Finals(r)
    <3>1. Finals(req) = {}
      BY <1>1 DEF Decided, Owned
    <3>2. PICK code \in Code \cup TxCode : code = Concluded(req, "read_only")
      BY ConcludedType, StringsOfPhases
    <3>3. [stage |-> "rollback", state |-> code] # Success
      BY DEF Success
    <3>4. QED
      BY <1>1, <1>3, <1>7, <3>1, <3>2, <3>3, FinalsAnswered
  <2>2. Outstanding' = Outstanding
    BY <1>7 DEF Outstanding, JobsIn, Queued
  <2>3. \A p \in Part : GlobalOf[p[1]] = h
              \/ (rm'[p] = rm[p] /\ (p \in involved' <=> p \in involved))
    BY <1>4, <1>5, <1>7 DEF Removed, PartsOf
  <2>4. OnlyIn(h)
    BY <1>1, <1>5, <1>7, <2>1, <2>2, <2>3 DEF OnlyIn
  <2>5. Doomed(h)'
    <3>1. Fans(h)' = Fans(h) /\ Requests(h)' = Requests(h) \cup {req}
      BY <1>1, <1>5, <1>7 DEF Fans, Requests
    <3>2. Requests(h) \subseteq Request
      BY <1>3 DEF Requests, TypeOK
    <3>3. \A r \in Requests(h)' : Success \notin Finals(r)'
      BY <1>2, <2>1, <3>1, <3>2
    <3>4. QED
      BY <1>2, <1>6, <3>1, <3>3 DEF Doomed
  <2>6. Owned'
    BY <1>1, <1>5, <1>7, <2>1 DEF Decided, Owned
  <2> HIDE DEF h
  <2>7. QED
    BY <1>1, <1>2, <1>5, <2>4, <2>5, <2>6, StepIn DEF Situation
<1>8. CASE /\ Send(JobsFor("rollback", FALSE, req, parts))
           /\ fanout' = fanout \cup {Fan("rollback", req, parts, "read_only")}
           /\ involved' = inv /\ answers' = answers
  <2>1. PICK f : f = Fan("rollback", req, parts, "read_only")
    OBVIOUS
  <2>2. PICK phase \in Phase : phase = "rollback"
    BY StringsOfPhases
  <2>3. /\ f.phase = "rollback" /\ Fans(h)' = Fans(h) \cup {f}
        /\ Requests(h)' = Requests(h) \cup {req} /\ Finals(req)' = {}
        /\ OnlyIn(h) /\ Owned'
    <3> HIDE DEF h
    <3>1. /\ Send(JobsFor(phase, FALSE, req, parts)) /\ fanout' = fanout \cup {f}
          /\ f = Fan(phase, req, parts, "read_only")
          /\ UNCHANGED <<answers, replies>>
      BY <1>5, <1>8, <2>1, <2>2
    <3>2. \A p \in Part : GlobalOf[p[1]] = h
              \/ (rm'[p] = rm[p] /\ (p \in involved' <=> p \in involved))
      BY <1>4, <1>5, <1>8
    <3>3. PICK one \in BOOLEAN : one = FALSE
      OBVIOUS
    <3>4. /\ GlobalOf[req.trid] = h /\ req.trid \in Client
          /\ Send(JobsFor(phase, one, req, parts))
      BY <1>1, <3>1, <3>3
    <3>5. /\ f.phase = phase /\ Fans(h)' = Fans(h) \cup {f}
          /\ Requests(h)' = Requests(h) \cup {req} /\ Finals(req)' = {}
          /\ OnlyIn(h) /\ Owned'
      BY <1>1, <1>4, <1>5, <3>1, <3>2, <3>4, FanStarted
    <3>6. QED
      BY <2>2, <3>5
  <2>4. Doomed(h)'
    <3>1. \A r \in Requests(h)' : Success \notin Finals(r)'
      BY <1>2, <1>8, <2>3 DEF Finals
    <3>2. QED
      BY <1>2, <1>6, <2>3, <3>1 DEF Doomed
  <2> HIDE DEF h
  <2>5. QED
    BY <1>1, <1>2, <1>5, <2>3, <2>4, StepIn DEF Situation
<1>9. QED
  BY <1>5, <1>7, <1>8
-----------------------------------------------------------------------------
(* What a resource may answer where nothing fails in the second phase.     *)
LEMMA AnswersOf ==
  ASSUME Undisturbed, NEW j \in Job, NEW s \in RmState, NEW a \in RmAnswers(j, s)
  PROVE  /\ j.phase = "prepare" /\ s = "active" =>
              \/ a[1] = "ok" /\ a[2] = "prepared"
              \/ a[1] = "read_only" /\ a[2] = "readonly"
              \/ a[1] \notin {"ok", "read_only"} /\ a[2] \in {"active", "rolledback"}
         /\ j.phase = "commit" /\ j.onephase /\ s = "active" =>
              \/ a[1] = "ok" /\ a[2] = "committed"
              \/ /\ a[1] \notin {"ok", "read_only"} /\ a[2] \in {"active", "rolledback"}
                 /\ a[1] \in {"retry", "invalid_xid"} => a[2] \in Unsettled
         /\ j.phase = "commit" /\ ~ j.onephase /\ s = "prepared" =>
              a[1] = "ok" /\ a[2] = "committed"
         /\ j.phase = "rollback" =>
              \/ a[2] = s
              \/ a[2] = "rolledback" /\ s \in {"active", "prepared"}
<1>1. ASSUME NEW b \in Refusing("active")
      PROVE  /\ b[1] \notin {"ok", "read_only"} /\ b[2] \in {"active", "rolledback"}
             /\ b[1] \in {"retry", "invalid_xid"} => b[2] \in Unsettled
  <2>1. PICK c \in Refusal : b = <<c, IF c \in RollbackCode THEN "rolledback" ELSE "active">>
    BY DEF Refusing
  <2>2. c \in Code \ {"ok", "read_only"}
    OBVIOUS
  <2>3. "retry" \notin RollbackCode /\ "invalid_xid" \notin RollbackCode
    BY DEF RollbackCode, Severity
  <2>4. QED
    BY <2>1, <2>2, <2>3 DEF Unsettled
<1>2. \A t : Failing(t) = {}
  BY DEF Failing, Undisturbed
<1>3. j.phase = "prepare" /\ s = "active" =>
        a \in {<<"ok", "prepared">>, <<"read_only", "readonly">>} \cup Refusing("active")
  BY DEF RmAnswers, PrepareAnswers
<1>4. ASSUME j.phase = "commit", j.onephase, s = "active"
      PROVE  a \in {<<"ok", "committed">>} \cup Refusing("active")
  <2>1. CommitAnswers("active", TRUE) = {<<"ok", "committed">>} \cup Refusing("active")
    BY DEF CommitAnswers
  <2>2. RmAnswers(j, s) = CommitAnswers(s, j.onephase) /\ j.onephase = TRUE
    BY <1>4 DEF RmAnswers, Job
  <2>3. QED
    BY <1>4, <2>1, <2>2
<1>5. ASSUME j.phase = "commit", ~ j.onephase, s = "prepared"
      PROVE  a \in {<<"ok", "committed">>} \cup Failing("prepared")
  <2>1. CommitAnswers("prepared", FALSE) = {<<"ok", "committed">>} \cup Failing("prepared")
    BY DEF CommitAnswers
  <2>2. RmAnswers(j, s) = CommitAnswers(s, j.onephase) /\ j.onephase = FALSE
    BY <1>5 DEF RmAnswers, Job
  <2>3. QED
    BY <1>5, <2>1, <2>2
<1>6. j.phase = "rollback" =>
        \/ s \in {"active", "prepared"} /\ a \in {<<"ok", "rolledback">>} \cup Failing(s)
        \/ a = <<"invalid_xid", s>>
  BY <1>2 DEF RmAnswers, RollbackAnswers
<1>7. QED
  BY <1>1, <1>2, <1>3, <1>4, <1>5, <1>6

(* A transaction with a fan-out is being ended.                            *)
Ending(e) ==
  \/ Preparing(GlobalFan(e), e) \/ OnePhase(GlobalFan(e), e) \/ Committing(GlobalFan(e), e)
  \/ Doomed(GlobalFan(e)) /\ e.phase = "rollback" /\ ~ Sealed(GlobalFan(e))

(* Whatever it is, its fan-out says in which situation it is.              *)
LEMMA FanSituation ==
  ASSUME Decided, NEW e \in fanout
  PROVE  Ending(e)
<1> DEFINE g == GlobalFan(e)
<1>1. g \in Gtrid /\ e \in Fans(g) /\ e.req \in Requests(g)
  BY OfOneFamily DEF Decided, Fans
<1>2. ~ Working(g) /\ ~ Finished(g)
  BY <1>1 DEF Working, Finished
<1>3. \A f : Alone(g, f) => f = e
  BY <1>1 DEF Alone
<1>4. Doomed(g) => e.phase = "rollback" /\ ~ Sealed(g)
  BY <1>1, <1>2, <1>3 DEF Doomed, Sealed, Committing
<1>5. \A f : Preparing(g, f) \/ OnePhase(g, f) \/ Committing(g, f) => f = e
  BY <1>3 DEF Preparing, OnePhase, Committing
<1> HIDE DEF g
<1>6. Preparing(g, e) \/ OnePhase(g, e) \/ Committing(g, e)
      \/ (Doomed(g) /\ e.phase = "rollback" /\ ~ Sealed(g))
  BY <1>1, <1>2, <1>4, <1>5 DEF Decided, Situation
<1>7. QED
  BY <1>6 DEF Ending, g

(* A request on its way belongs to a transaction that is being ended, and  *)
(* its part has not been answered for.                                     *)
LEMMA JobSituation ==
  ASSUME Decided, NEW j \in Outstanding
  PROVE  \E e \in fanout :
           /\ j \in JobsOf(e) /\ j \in Job /\ Waits(e, j)
           /\ j.part \in PartsIn(GlobalFan(e))
           /\ \A v \in Votes(e) : v[1] # j.part
           /\ \A k \in JobsOf(e) : k = j \/ k.part # j.part
           /\ Ending(e)
<1>1. j \in Travelling /\ j \in Job
  BY TravellingType DEF Travelling, Decided, CommitInv
<1>2. PICK e \in fanout : Waits(e, j)
  BY <1>1 DEF Decided, CommitInv, AwaitedAll
<1> DEFINE g == GlobalFan(e)
<1>3. j \in JobsOf(e) /\ j.part \in PartsIn(g) /\ g \in Gtrid /\ e \in Fans(g)
      /\ e.req \in Requests(g)
  BY <1>2, OfOneFamily DEF JobsOf, Waits, Decided, Fans
<1>4. \A v \in Votes(e) : v[1] # j.part
  <2> SUFFICES ASSUME NEW m \in replies, m.job.req = e.req, m.job.part = j.part PROVE FALSE
    BY <1>2 DEF Votes, Waits
  <2>1. m.job \in Travelling
    BY DEF Travelling
  <2>2. m.job = j
    BY <1>1, <1>2, <2>1, SameJob DEF Waits, Decided
  <2>3. QED
    BY <2>2 DEF Decided, CommitInv, RepliedOnce
<1>5. \A k \in JobsOf(e) : k = j \/ k.part # j.part
  BY <1>1, <1>2, SameJob DEF JobsOf, Travelling, Waits, Decided
<1>6. QED
  BY <1>1, <1>2, <1>3, <1>4, <1>5, FanSituation

(* A resource works.                                                       *)
LEMMA DecidedWorks ==
  ASSUME Undisturbed, Decided, CommitInv', Coordinated',
         NEW j \in Outstanding, NEW from, Works(j, from), Outstanding' = Outstanding \ {j},
         UNCHANGED <<fanout, issued, answers, involved, logged, durable>>
  PROVE  Decided'
<1>1. PICK e \in fanout :
           /\ j \in JobsOf(e) /\ j \in Job /\ Waits(e, j)
           /\ j.part \in PartsIn(GlobalFan(e))
           /\ \A v \in Votes(e) : v[1] # j.part
           /\ \A k \in JobsOf(e) : k = j \/ k.part # j.part
           /\ Ending(e)
  BY JobSituation
<1>2. PICK g \in Gtrid : g = GlobalFan(e)
  BY OfOneFamily DEF Decided
<1>3. PICK a \in RmAnswers(j, rm[j.part]) :
        /\ rm' = [rm EXCEPT ![j.part] = a[2]]
        /\ replies' = replies \cup {[job |-> j, code |-> a[1], from |-> from]}
  BY DEF Works
<1>4. rm \in [Part -> RmState] /\ rm[j.part] \in RmState /\ j.part \in Part
  BY <1>1 DEF Decided, CommitInv, TypeOK, PartsIn
<1>5. /\ rm'[j.part] = a[2]
      /\ \A p \in Part : p = j.part \/ rm'[p] = rm[p]
  BY <1>3, <1>4
<1>6. j.req = e.req /\ j.phase = e.phase /\ j.part \in e.expect
  BY <1>1 DEF Waits
<1>7. /\ JobsOf(e)' = JobsOf(e) \ {j}
      /\ Votes(e)' = Votes(e) \cup {<<j.part, a[1]>>}
  <2>1. PICK n : n = [job |-> j, code |-> a[1], from |-> from]
    OBVIOUS
  <2>2. n.job = j /\ n.code = a[1] /\ replies' = replies \cup {n}
    BY <1>3, <2>1
  <2>3. Votes(e)' = Votes(e) \cup {<<n.job.part, n.code>>}
    BY <1>6, <2>2 DEF Votes
  <2>4. JobsOf(e)' = JobsOf(e) \ {j}
    BY DEF JobsOf
  <2>5. QED
    BY <2>2, <2>3, <2>4
<1>8. Requests(g)' = Requests(g) /\ Fans(g)' = Fans(g) /\ \A r : Finals(r)' = Finals(r)
  BY DEF Requests, Fans, Finals
<1>9. OnlyIn(g)
  BY <1>1, <1>2, <1>3, <1>5, <1>6, <1>8 DEF OnlyIn, PartsIn, GlobalFan
<1>10. Owned'
  BY SMTT(45) DEF Decided, Owned, Finals
<1>11. /\ \A k \in JobsOf(e)' : k \in JobsOf(e) /\ k.part \in PartsIn(g) /\ rm'[k.part] = rm[k.part]
       /\ \A v \in Votes(e) : v[1] \in PartsIn(g) /\ rm'[v[1]] = rm[v[1]]
  <2>1. \A p \in PartsIn(g) : p \in Part
    BY DEF PartsIn
  <2>2. QED
    BY <1>1, <1>2, <1>5, <1>7, <2>1, OfOneFamily DEF Decided
<1>12. Alone(g, e) => Alone(g, e)'
  BY <1>8 DEF Alone
<1>13. CASE Preparing(g, e)
  <2>1. rm[j.part] = "active" /\ j.phase = "prepare"
    BY <1>1, <1>6, <1>13 DEF Preparing
  <2>2. \/ a[1] = "ok" /\ a[2] = "prepared"
        \/ a[1] = "read_only" /\ a[2] = "readonly"
        \/ a[1] \notin {"ok", "read_only"} /\ a[2] \in {"active", "rolledback"}
    BY <1>1, <1>4, <2>1, AnswersOf
  <2>3. \A p \in PartsIn(g) : rm'[p] # "committed" /\ (p \notin e.expect => rm'[p] = "idle")
    BY <1>5, <1>6, <1>13, <2>2 DEF Preparing, PartsIn
  <2>4. \A k \in JobsOf(e)' : rm'[k.part] = "active"
    BY <1>11, <1>13 DEF Preparing
  <2>5. \A v \in Votes(e)' : /\ v[2] = "ok" => rm'[v[1]] = "prepared"
                             /\ v[2] = "read_only" => rm'[v[1]] = "readonly"
    BY <1>5, <1>7, <1>11, <1>13, <2>2 DEF Preparing
  <2>6. Preparing(g, e)'
    BY <1>12, <1>13, <2>3, <2>4, <2>5 DEF Preparing
  <2>7. ~ Sealed(g)
    BY <1>13 DEF Preparing, Alone, Sealed, Committing, Finished
  <2>8. QED
    BY <1>9, <1>10, <2>6, <2>7, StepIn DEF Situation
<1>14. CASE OnePhase(g, e)
  <2>1. rm[j.part] = "active" /\ j.phase = "commit" /\ j.onephase
    BY <1>1, <1>6, <1>14 DEF OnePhase
  <2>2. \/ a[1] = "ok" /\ a[2] = "committed"
        \/ /\ a[1] \notin {"ok", "read_only"} /\ a[2] \in {"active", "rolledback"}
           /\ a[1] \in {"retry", "invalid_xid"} => a[2] \in Unsettled
    BY <1>1, <1>4, <2>1, AnswersOf
  <2>3. \E p \in PartsIn(g) :
          /\ e.expect = {p} /\ rm'[p] \in {"active", "committed", "rolledback"}
          /\ \A q \in PartsIn(g) \ {p} : rm'[q] = "idle"
    BY <1>5, <1>6, <1>14, <2>2 DEF OnePhase, PartsIn
  <2>4. \A k \in JobsOf(e)' : k.onephase /\ rm'[k.part] = "active"
    BY <1>11, <1>14 DEF OnePhase
  <2>5. ASSUME NEW v \in Votes(e)'
        PROVE  /\ v[2] # "read_only"
               /\ v[2] = "ok" <=> rm'[v[1]] = "committed"
               /\ v[2] \in {"retry", "invalid_xid"} => rm'[v[1]] \in Unsettled
    <3>1. CASE v \in Votes(e)
      BY <1>11, <1>14, <3>1 DEF OnePhase
    <3>2. CASE v = <<j.part, a[1]>>
      BY <1>5, <2>2, <3>2
    <3>3. QED
      BY <1>7, <3>1, <3>2
  <2>6. OnePhase(g, e)'
    BY <1>12, <1>14, <2>3, <2>4, <2>5 DEF OnePhase, Unsettled
  <2>7. ~ Sealed(g)
    BY <1>14 DEF OnePhase, Alone, Sealed, Committing, Finished
  <2>8. QED
    BY <1>9, <1>10, <2>6, <2>7, StepIn DEF Situation
<1>15. CASE Committing(g, e)
  <2>1. rm[j.part] = "prepared" /\ j.phase = "commit" /\ ~ j.onephase
    BY <1>1, <1>6, <1>15 DEF Committing
  <2>2. a[1] = "ok" /\ a[2] = "committed"
    BY <1>1, <1>4, <2>1, AnswersOf
  <2>3. \A p \in PartsIn(g) :
       /\ p \in e.expect => rm'[p] \in {"prepared", "committed"}
       /\ p \notin e.expect => rm'[p] \in {"idle", "readonly"}
    BY <1>5, <1>6, <1>15, <2>2 DEF Committing, PartsIn
  <2>4. \A k \in JobsOf(e)' : ~ k.onephase /\ rm'[k.part] = "prepared"
    BY <1>11, <1>15 DEF Committing
  <2>5. \A v \in Votes(e)' : v[2] = "ok" /\ rm'[v[1]] = "committed"
    BY <1>5, <1>7, <1>11, <1>15, <2>2 DEF Committing
  <2>6. Committing(g, e)'
    BY <1>12, <1>15, <2>3, <2>4, <2>5 DEF Committing
  <2>7. QED
    BY <1>9, <1>10, <2>6, StepIn DEF Situation, Sealed
<1>16. CASE Doomed(g) /\ e.phase = "rollback" /\ ~ Sealed(g)
  <2>1. a[2] = rm[j.part] \/ a[2] = "rolledback"
    BY <1>1, <1>4, <1>6, <1>16, AnswersOf
  <2>2. Doomed(g)'
    BY <1>5, <1>8, <1>16, <2>1 DEF Doomed, PartsIn
  <2>3. QED
    BY <1>9, <1>10, <1>16, <2>2, StepIn DEF Situation
<1>17. QED
  BY <1>1, <1>2, <1>13, <1>14, <1>15, <1>16 DEF Ending
-----------------------------------------------------------------------------
(* A reply belongs to the fan-out of its transaction, as the vote it is.   *)
LEMMA ReplyOf ==
  ASSUME Decided, NEW m \in replies, NEW e \in Awaiting(m)
  PROVE  /\ e \in fanout /\ e \in Entry /\ e \in Fans(GlobalFan(e))
         /\ e.req \in Request /\ e.req \in issued /\ e.req \in Requests(GlobalFan(e))
         /\ e.phase = m.job.phase /\ e.req = m.job.req
         /\ GlobalFan(e) \in Gtrid /\ Ending(e)
         /\ m.job.part \in e.expect /\ m.job.part \in PartsIn(GlobalFan(e))
         /\ <<m.job.part, m.code>> \in Votes(e) /\ m.code \in Code
         /\ Received(e, m).req = e.req /\ Received(e, m).phase = e.phase
         /\ Received(e, m).expect = e.expect /\ Received(e, m).base = e.base
         /\ Received(e, m).got = e.got \cup {<<m.job.part, m.code>>}
         /\ GlobalFan(Received(e, m)) = GlobalFan(e)
<1>1. /\ e \in fanout /\ m.job.part \in e.expect
      /\ e.phase = m.job.phase /\ e.req = m.job.req
  BY DEF Awaiting
<1>2. /\ e \in Entry /\ e.req \in Request /\ e.req \in Requests(GlobalFan(e)) /\ e.req \in issued
      /\ GlobalFan(e) \in Gtrid /\ m.job.part \in PartsIn(GlobalFan(e))
  BY <1>1, OfOneFamily DEF Decided
<1>3. /\ Received(e, m).req = e.req /\ Received(e, m).phase = e.phase
      /\ Received(e, m).expect = e.expect /\ Received(e, m).base = e.base
      /\ Received(e, m).got = e.got \cup {<<m.job.part, m.code>>}
  BY <1>2 DEF Received, Entry
<1>4. GlobalFan(Received(e, m)) = GlobalFan(e)
  BY <1>3 DEF GlobalFan
<1>5. <<m.job.part, m.code>> \in Votes(e) /\ e \in Fans(GlobalFan(e))
  BY <1>1 DEF Votes, Fans
<1>6. m.code \in Code /\ Ending(e)
  BY <1>1, FanSituation DEF Decided, CommitInv, TypeOK, Reply
<1>7. QED
  BY <1>1, <1>2, <1>3, <1>4, <1>5, <1>6

(* received() moves a vote from the replies to the fan-out.                *)
LEMMA DecidedPartial ==
  ASSUME Decided, CommitInv', Coordinated', NEW m \in replies, NEW e \in Awaiting(m),
         ~ Complete(Received(e, m)), Outstanding' \subseteq Outstanding,
         fanout' = (fanout \ {e}) \cup {Received(e, m)}, replies' = replies \ {m},
         UNCHANGED <<issued, answers, involved, rm, logged, durable>>
  PROVE  Decided'
<1>0. PICK g \in Gtrid : g = GlobalFan(e)
  BY ReplyOf
<1>1. PICK f : g = GlobalFan(e) /\ f = Received(e, m)
  BY <1>0
<1>2. /\ e \in Fans(g) /\ e.req \in Requests(g) /\ Ending(e) /\ m.job.part \in e.expect
      /\ <<m.job.part, m.code>> \in Votes(e) /\ m.job.req = e.req
      /\ f.req = e.req /\ f.phase = e.phase /\ f.expect = e.expect /\ f.base = e.base
      /\ f.got = e.got \cup {<<m.job.part, m.code>>} /\ GlobalFan(f) = g
  BY <1>1, ReplyOf
<1>3. /\ Requests(g)' = Requests(g) /\ \A r : Finals(r)' = Finals(r)
      /\ f \in fanout' /\ Fans(g)' = (Fans(g) \ {e}) \cup {f}
  BY <1>1, <1>2 DEF Requests, Finals, Fans
<1>4. JobsOf(f)' \subseteq JobsOf(e) /\ Votes(f)' \subseteq Votes(e)
  BY <1>2 DEF JobsOf, Votes
<1>5. OnlyIn(g)
  BY <1>1, <1>2, <1>3 DEF OnlyIn
<1>6. Owned'
  <2>1. e \in fanout /\ GlobalFan(e) = g
    BY <1>1, ReplyOf
  <2>2. /\ \A p \in f.expect : GlobalOf[p[1]] = GlobalFan(f)
        /\ \A v \in f.got : v[1] \in f.expect
    BY <1>2, <2>1 DEF Decided, Owned
  <2>3. \A b \in fanout' : b = f \/ b \in fanout
    BY <1>1
  <2>4. QED
    BY <1>3, <2>2, <2>3 DEF Decided, Owned
<1>7. Alone(g, e) => Alone(g, f)'
  BY <1>2, <1>3 DEF Alone
<1>8. CASE Preparing(g, e)
  <2>1. Preparing(g, f)'
    BY <1>2, <1>4, <1>7, <1>8 DEF Preparing
  <2>2. ~ Sealed(g)
    BY <1>8 DEF Preparing, Alone, Sealed, Committing, Finished
  <2>3. QED
    BY <1>3, <1>5, <1>6, <2>1, <2>2, StepIn DEF Situation
<1>9. CASE OnePhase(g, e)
  <2>1. Complete(f)
    BY <1>2, <1>9 DEF OnePhase, Complete
  <2>2. QED
    BY <1>1, <2>1
<1>10. CASE Committing(g, e)
  <2>1. Committing(g, f)'
    BY <1>2, <1>4, <1>7, <1>10 DEF Committing
  <2>2. QED
    BY <1>3, <1>5, <1>6, <2>1, StepIn DEF Situation, Sealed
<1>11. CASE Doomed(g) /\ e.phase = "rollback" /\ ~ Sealed(g)
  <2>1. Doomed(g)'
    BY <1>2, <1>3, <1>11 DEF Doomed
  <2>2. QED
    BY <1>5, <1>6, <1>11, <2>1, StepIn DEF Situation
<1>12. QED
  BY <1>1, <1>2, <1>8, <1>9, <1>10, <1>11 DEF Ending

(* With the last reply nothing of the fan-out is on its way any more, and  *)
(* every part has voted.                                                   *)
LEMMA VotesIn ==
  ASSUME Decided, NEW m \in replies, NEW e \in Awaiting(m), Complete(Received(e, m)),
         NEW p \in Replied(pool, m)
  PROVE  /\ p \in PoolType /\ Unique(p) /\ JobsIn(p) \subseteq Outstanding
         /\ \A j \in JobsIn(p) : j.req # e.req
         /\ \A n \in replies \ {m} : n.job.req # e.req
         /\ \A q \in e.expect : \E v \in Received(e, m).got : v[1] = q
         /\ \A v \in Received(e, m).got : v[1] \in e.expect
         /\ Received(e, m).got \subseteq Votes(e)
<1>1. p \in PoolType /\ Unique(p) /\ JobsIn(p) \subseteq Outstanding
  BY RepliedJobs DEF Decided
<1> DEFINE O == JobsIn(p)
<1>2. O \in SUBSET Outstanding
  BY <1>1
<1>3. \A j \in O \cup {n.job : n \in replies \ {m}} : j.req # e.req
  <2> HIDE DEF O
  <2>1. QED
    BY <1>2, OthersOfReply DEF Decided
<1>4. /\ Received(e, m).expect = e.expect
      /\ Received(e, m).got = e.got \cup {<<m.job.part, m.code>>}
      /\ m.job.part \in e.expect /\ e \in fanout
      /\ <<m.job.part, m.code>> \in Votes(e)
  BY ReplyOf
<1>5. \A v \in Received(e, m).got : v[1] \in e.expect
  BY <1>4 DEF Decided, Owned
<1>6. Received(e, m).got \subseteq Votes(e)
  BY <1>4 DEF Votes
<1>7. QED
  BY <1>1, <1>3, <1>4, <1>5, <1>6 DEF Complete

(* The last reply ends the fan-out and the owner is answered.              *)
LEMMA FanEnded ==
  ASSUME Decided, NEW m \in replies, NEW e \in Awaiting(m), Complete(Received(e, m)),
         NEW p \in Replied(pool, m),
         NEW st \in {"commit", "rollback"}, NEW code \in Code \cup TxCode,
         answers' = Answered(e.req, st, code), Removed(GlobalFan(e)),
         fanout' = fanout \ {e}, pool' = p, replies' = replies \ {m}, UNCHANGED <<issued, rm>>
  PROVE  /\ Fans(GlobalFan(e))' = Fans(GlobalFan(e)) \ {e}
         /\ Requests(GlobalFan(e))' = Requests(GlobalFan(e))
         /\ Finals(e.req)' = Finals(e.req) \cup {[stage |-> st, state |-> code]}
         /\ \A r \in Request : r # e.req => Finals(r)' = Finals(r)
         /\ OnlyIn(GlobalFan(e)) /\ Owned'
<1>1. PICK g \in Gtrid : g = GlobalFan(e)
  BY ReplyOf
<1>2. e \in fanout /\ e.req \in Request /\ e.req \in issued /\ GlobalOf[e.req.trid] = g
  BY <1>1, ReplyOf DEF GlobalFan
<1>3. e.req.kind # "exit" /\ TypeOK
  BY <1>2 DEF Decided, Owned, TxKind, CommitInv
<1>4. /\ Finals(e.req)' = Finals(e.req) \cup {[stage |-> st, state |-> code]}
      /\ \A r \in Request : r # e.req => Finals(r)' = Finals(r)
  BY <1>2, <1>3, FinalsAnswered
<1>5. Fans(g)' = Fans(g) \ {e} /\ Requests(g)' = Requests(g)
  BY DEF Fans, Requests
<1>6. Outstanding' \subseteq Outstanding
  <2>1. Outstanding' = JobsIn(p)
    BY DEF Outstanding, JobsIn, Queued
  <2>2. QED
    BY <2>1, VotesIn
<1>7. OnlyIn(g)
  <2>1. \A q \in Part : GlobalOf[q[1]] = g \/ (q \in involved' <=> q \in involved)
    BY <1>1 DEF Removed, PartsOf
  <2>2. QED
    BY <1>1, <1>2, <1>4, <1>6, <2>1 DEF OnlyIn
<1>8. Owned'
  <2>1. \A r \in Request \ issued : Finals(r)' = Finals(r)
    BY <1>2, <1>4
  <2>2. QED
    BY <2>1 DEF Decided, Owned
<1>9. QED
  BY <1>1, <1>4, <1>5, <1>7, <1>8

(* The most severe of one code and read_only is the code.                  *)
LEMMA WorstOfOne ==
  ASSUME NEW c \in Code, c # "read_only" PROVE Worst({c, "read_only"}) = c
<1> DEFINE S == {c, "read_only"}
<1>1. S \in SUBSET Code /\ S # {}
  BY StringsOfPhases
<1>2. Worst(S) \in S /\ \A d \in S : Severity[Worst(S)] <= Severity[d]
  <2> HIDE DEF S
  <2>1. QED
    BY <1>1, WorstIsWorst
<1>3. Severity["read_only"] = 23 /\ Severity[c] < 23
  BY DEF Severity, Code
<1>4. QED
  BY <1>2, <1>3, SeverityType

(* What the owner is told is ok for these codes and for no other.          *)
LEMMA ConcludedOk ==
  ASSUME NEW req, req.kind \in TxKind, NEW c \in Code
  PROVE  Concluded(req, c) = "ok" <=> c \in {"ok", "read_only", "retry", "invalid_xid"}
<1>1. Concluded(req, c) = ToTx(Normalised(c))
  BY DEF Concluded
<1>2. Normalised(c) \in {"ok", "read_only", "retry"} <=>
        c \in {"ok", "read_only", "retry", "invalid_xid"}
  BY DEF Normalised
<1>3. \A d : ToTx(d) = "ok" <=> d \in {"ok", "read_only", "retry"}
  BY DEF ToTx
<1>4. QED
  BY <1>1, <1>2, <1>3

(* No vote or a commit of ok alone is ok.                                  *)
LEMMA OutcomeOfOk ==
  ASSUME NEW e, NEW votes, \A v \in votes : v[2] = "ok", e.base = "ok"
  PROVE  Outcome(e, votes) = "ok"
<1>1. {v[2] : v \in votes} \cup {e.base} = {"ok"}
  OBVIOUS
<1>2. QED
  BY <1>1 DEF Outcome, Worst

(* The callback of coordinate::prepare: all is read only, all may commit,  *)
(* or somebody has refused.                                                *)
LEMMA DecidedPrepared ==
  ASSUME Decided, CommitInv', Coordinated', NEW m \in replies, NEW e \in Awaiting(m),
         e.phase = "prepare", Complete(Received(e, m)), NEW p \in Replied(pool, m),
         Prepared(e, Received(e, m), p), replies' = replies \ {m}, UNCHANGED <<issued, rm>>
  PROVE  Decided'
<1>0. PICK g \in Gtrid : g = GlobalFan(e)
  BY ReplyOf
<1>1. PICK e2 : g = GlobalFan(e) /\ e2 = Received(e, m)
  BY <1>0
<1> DEFINE active == {v \in e2.got : v[2] # "read_only"}
           parts == {v[1] : v \in active}
           code == Outcome(e2, active)
<1>2. /\ e.req \in Request /\ e.req \in issued /\ e2.req = e.req /\ Ending(e)
      /\ e2.base = e.base /\ e \in Fans(g) /\ e.req \in Requests(g) /\ GlobalFan(e2) = g
      /\ e2.got \subseteq Part \X Code /\ e.base \in Code
  <2>1. Received(e, m) \in Entry
    BY ReplyOf, ReceivedType DEF Decided, CommitInv, TypeOK
  <2>2. QED
    BY <1>1, <2>1, ReplyOf DEF Entry
<1>3. Preparing(g, e) /\ ~ Sealed(g)
  <2>1. Preparing(g, e)
    BY <1>1, <1>2 DEF Ending, OnePhase, Committing
  <2>2. QED
    BY <2>1 DEF Preparing, Alone, Sealed, Committing, Finished
<1>4. /\ \A v \in e2.got : /\ v[1] \in e.expect
                           /\ v[2] = "ok" => rm[v[1]] = "prepared"
                           /\ v[2] = "read_only" => rm[v[1]] = "readonly"
      /\ \A q \in e.expect : \E v \in e2.got : v[1] = q
      /\ \A q \in PartsIn(g) : rm[q] # "committed" /\ (q \notin e.expect => rm[q] = "idle")
      /\ Fans(g) = {e} /\ Requests(g) = {e.req} /\ e.req.kind = "tx_commit"
      /\ Finals(e.req) = {} /\ e.base = "read_only"
  BY <1>1, <1>3, VotesIn DEF Preparing, Alone
<1>5. /\ code \in Code
      /\ code = "read_only" => active = {}
      /\ code = "ok" => \A v \in active : v[2] = "ok"
  <2> DEFINE W == {v[2] : v \in active} \cup {e2.base}
  <2>1. W \in SUBSET Code /\ W # {} /\ code = Worst(W)
    BY <1>2 DEF Outcome
  <2>2. \A v \in active : v[2] \in W /\ v[2] # "read_only"
    OBVIOUS
  <2> HIDE DEF W, active, code
  <2>3. code \in Code
    BY <2>1, WorstIsWorst
  <2>4. code \in {"ok", "read_only"} => \A v \in active : v[2] = "ok"
    BY <2>1, <2>2, WorstOk
  <2>5. code = "read_only" => \A v \in active : v[2] # "ok"
    <3>1. Severity["ok"] < Severity["read_only"] /\ Severity["ok"] \in Nat
      BY DEF Severity
    <3>2. \A d \in W : Severity[code] <= Severity[d]
      BY <2>1, WorstIsWorst
    <3>3. code = "read_only" => "ok" \notin W
      BY <3>1, <3>2, SeverityType, <2>3
    <3>4. QED
      BY <2>2, <3>3
  <2>6. QED
    BY <2>3, <2>4, <2>5
<1>6. parts \subseteq e.expect
  BY <1>4, SMTT(45)
<1> DEFINE next(phase) ==
        /\ involved' = PurgedInvolved(g, involved, {v[1][2] : v \in e2.got \ active})
        /\ pool' \in Sent(p, JobsFor(phase, FALSE, e.req, parts))
        /\ fanout' = (fanout \ {e}) \cup {Fan(phase, e.req, parts, code)}
<1>7. \/ /\ code = "read_only" /\ Removed(g)
         /\ answers' = Answered(e.req, "commit", Concluded(e.req, code))
         /\ fanout' = fanout \ {e} /\ pool' = p /\ UNCHANGED <<logged, durable>>
      \/ /\ code = "ok" /\ next("commit")
         /\ answers' = answers \/ \E batch : answers' = Released(answers, batch)
         /\ \E left : /\ logged' = logged \cup BranchesOf(g, left)
                      /\ durable' = durable \/ durable' = logged'
      \/ next("rollback") /\ UNCHANGED <<answers, logged, durable>>
  <2>1. Prepared(e, e2, p) /\ GlobalOf[e2.req.trid] = g
    BY <1>1, <1>2 DEF GlobalFan
  <2>2. QED
    BY <1>2, <2>1 DEF Prepared, logVars
<1>8. \A inv : inv = PurgedInvolved(g, involved, {v[1][2] : v \in e2.got \ active}) =>
        \A q \in Part : GlobalOf[q[1]] = g \/ (q \in inv <=> q \in involved)
  BY DEF PurgedInvolved
<1> HIDE DEF code
<1>9. CASE /\ code = "read_only" /\ Removed(g)
           /\ answers' = Answered(e.req, "commit", Concluded(e.req, code))
           /\ fanout' = fanout \ {e} /\ pool' = p /\ UNCHANGED <<logged, durable>>
  <2>1. Concluded(e.req, code) = "ok"
    BY <1>4, <1>9, ConcludedOk, StringsOfPhases DEF TxKind
  <2>2. /\ Fans(g)' = {} /\ Requests(g)' = {e.req} /\ Finals(e.req)' = {Success}
        /\ OnlyIn(g) /\ Owned'
    <3>1. "ok" \in Code \cup TxCode /\ answers' = Answered(e.req, "commit", "ok")
      BY <1>9, <2>1, StringsOfPhases
    <3>2. /\ Fans(g)' = Fans(g) \ {e} /\ Requests(g)' = Requests(g)
          /\ Finals(e.req)' = Finals(e.req) \cup {[stage |-> "commit", state |-> "ok"]}
          /\ OnlyIn(g) /\ Owned'
      BY <1>1, <1>9, <3>1, FanEnded
    <3>3. QED
      BY <1>4, <3>2 DEF Success
  <2>3. \A q \in PartsIn(g) : rm[q] \in {"idle", "readonly"}
    BY <1>4, <1>5, <1>9
  <2>4. Finished(g)'
    BY <1>2, <1>4, <2>2, <2>3 DEF Finished
  <2>5. QED
    BY <1>3, <1>9, <2>2, <2>4, StepIn DEF Situation
<1>10. ASSUME NEW phase \in {"commit", "rollback"}, next(phase),
              \A r \in Request : Finals(r)' = Finals(r), NEW f, f = Fan(phase, e.req, parts, code)
       PROVE  /\ f.req = e.req /\ f.phase = phase /\ f.base = code
              /\ f.expect = parts /\ f.got = {} /\ f \in fanout'
              /\ Fans(g)' = {f} /\ Requests(g)' = {e.req} /\ Finals(e.req)' = {}
              /\ \A j \in JobsOf(f)' : ~ j.onephase /\ j.part \in parts
              /\ Votes(f)' = {}
              /\ OnlyIn(g) /\ Owned'
  <2>1. \A q \in Part : GlobalOf[q[1]] = g \/ (q \in involved' <=> q \in involved)
    BY <1>8, <1>10
  <2>2. /\ fanout' = (fanout \ {e}) \cup {f}
        /\ pool' \in Sent(p, JobsFor(phase, FALSE, e.req, parts))
    BY <1>10
  <2> HIDE DEF parts, next, active
  <2>3. PICK P, c, jobs : P = parts /\ c = code /\ jobs = JobsFor(phase, FALSE, e.req, parts)
    OBVIOUS
  <2>4. /\ f = Fan(phase, e.req, P, c) /\ P \subseteq e.expect
        /\ jobs = JobsFor(phase, FALSE, e.req, P) /\ pool' \in Sent(p, jobs)
    BY <1>6, <1>10, <2>2, <2>3
  <2>5. /\ f.req = e.req /\ f.phase = phase /\ f.base = c
        /\ f.expect = P /\ f.got = {} /\ GlobalFan(f) = g /\ GlobalFan(e) = g
        /\ e \in fanout /\ e \in Entry /\ GlobalOf[e.req.trid] = g
    BY <1>1, <2>4, ReplyOf DEF Fan, GlobalFan
  <2>6. /\ f \in fanout' /\ Fans(g)' = (Fans(g) \ {e}) \cup {f}
        /\ Requests(g)' = Requests(g)
    BY <2>2, <2>5 DEF Fans, Requests
  <2>7. /\ p \in PoolType /\ JobsIn(p) \subseteq Outstanding
        /\ \A j \in JobsIn(p) : j.req # e.req
        /\ \A n \in replies \ {m} : n.job.req # e.req
    BY VotesIn
  <2>8. jobs \in SUBSET Job /\ \A j \in jobs : j.req = e.req /\ ~ j.onephase /\ j.part \in P
    <3>1. P \in SUBSET Part
      BY <2>4, <2>5 DEF Entry
    <3>2. PICK ph \in Phase : ph = phase
      BY StringsOfPhases
    <3>3. JobsFor(ph, FALSE, e.req, P) \in SUBSET Job
      BY <1>2, <3>1, JobsForType
    <3>4. \A j \in jobs : j.req = e.req /\ j.onephase = FALSE /\ j.part \in P
      BY <2>4 DEF JobsFor
    <3>5. QED
      BY <2>4, <3>2, <3>3, <3>4
  <2>9. Outstanding' = JobsIn(p) \cup jobs
    <3>1. Outstanding' = JobsIn(pool')
      BY DEF Outstanding, JobsIn, Queued
    <3>2. QED
      BY <2>4, <2>7, <2>8, <3>1, SentJobs
  <2>10. /\ \A j \in JobsOf(f)' : ~ j.onephase /\ j.part \in P
         /\ Votes(f)' = {}
    BY <2>5, <2>7, <2>8, <2>9 DEF JobsOf, Votes
  <2>11. OnlyIn(g)
    BY <1>10, <2>1, <2>2, <2>5, <2>7, <2>8, <2>9 DEF OnlyIn
  <2>12. Owned'
    <3>1. \A q \in P : GlobalOf[q[1]] = GlobalFan(f)
      BY <2>4, <2>5 DEF Decided, Owned
    <3>2. \A b \in fanout' : b = f \/ b \in fanout
      BY <2>2
    <3>3. QED
      BY <1>10, <2>5, <3>1, <3>2 DEF Decided, Owned
  <2>13. QED
    BY <1>2, <1>4, <1>10, <2>3, <2>5, <2>6, <2>10, <2>11, <2>12
<1>11. CASE /\ code = "ok" /\ next("commit")
            /\ answers' = answers \/ \E batch : answers' = Released(answers, batch)
            /\ \E left : /\ logged' = logged \cup BranchesOf(g, left)
                         /\ durable' = durable \/ durable' = logged'
  <2>1. \A r \in Request : Finals(r)' = Finals(r)
    <3>1. CASE answers' = answers
      BY <3>1 DEF Finals
    <3>2. CASE \E batch : answers' = Released(answers, batch)
      BY <3>2, FinalsReleased DEF Decided, CommitInv
    <3>3. QED
      BY <1>11, <3>1, <3>2
  <2>2. PICK f : f = Fan("commit", e.req, parts, code)
    OBVIOUS
  <2>3. /\ f.req = e.req /\ f.phase = "commit" /\ f.base = "ok"
        /\ f.expect = parts /\ f.got = {} /\ f \in fanout'
        /\ Fans(g)' = {f} /\ Requests(g)' = {e.req} /\ Finals(e.req)' = {}
        /\ \A j \in JobsOf(f)' : ~ j.onephase /\ j.part \in parts
        /\ Votes(f)' = {}
        /\ OnlyIn(g) /\ Owned'
    <3> HIDE DEF next, parts
    <3>1. QED
      BY <1>10, <1>11, <2>1, <2>2
  <2>4. \A q \in PartsIn(g) : /\ q \in parts => rm[q] = "prepared"
                              /\ q \notin parts => rm[q] \in {"idle", "readonly"}
    <3>1. \A q \in parts : rm[q] = "prepared"
      BY <1>4, <1>5, <1>11
    <3>2. \A q \in e.expect : q \in parts \/ rm[q] = "readonly"
      BY <1>4
    <3>3. QED
      BY <1>4, <3>1, <3>2
  <2>5. Committing(g, f)'
    <3> HIDE DEF parts
    <3>1. \A j \in JobsOf(f)' : ~ j.onephase /\ rm'[j.part] = "prepared"
      <4>1. \A q \in e.expect : q \in PartsIn(g)
        BY <1>1, ReplyOf, OfOneFamily DEF Decided
      <4>2. \A q \in parts : rm'[q] = "prepared"
        BY <1>6, <2>4, <4>1
      <4>3. QED
        BY <2>3, <4>2
    <3>2. Alone(g, f)'
      BY <1>4, <2>3 DEF Alone
    <3>3. QED
      BY <2>3, <2>4, <3>1, <3>2 DEF Committing
  <2>6. \A x \in logged' \cup durable' : x \in logged \cup durable \/ GlobalOf[x] = g
    BY <1>11 DEF BranchesOf
  <2>7. Sealed(g)' /\ Situation(g)'
    BY <2>3, <2>5 DEF Sealed, Situation
  <2>8. QED
    BY <2>3, <2>6, <2>7, StepIn
<1>12. CASE next("rollback") /\ UNCHANGED <<answers, logged, durable>>
  <2>1. PICK f : f = Fan("rollback", e.req, parts, code)
    OBVIOUS
  <2>2. \A r \in Request : Finals(r)' = Finals(r)
    BY <1>12 DEF Finals
  <2>3. /\ f.phase = "rollback" /\ Fans(g)' = {f} /\ Requests(g)' = {e.req}
        /\ Finals(e.req)' = {} /\ OnlyIn(g) /\ Owned'
    <3> HIDE DEF next, parts
    <3>1. QED
      BY <1>10, <1>12, <2>1, <2>2
  <2>4. Doomed(g)'
    BY <1>4, <2>3 DEF Doomed
  <2>5. QED
    BY <1>3, <1>12, <2>3, <2>4, StepIn DEF Situation
<1>13. QED
  BY <1>7, <1>9, <1>11, <1>12

(* resource::prepare::reply.                                               *)
LEMMA DecidedPrepareReply ==
  ASSUME Decided, CommitInv', Coordinated', NEW m \in replies, PrepareReply(m)
  PROVE  Decided'
<1>1. PICK e \in Awaiting(m), p \in Replied(pool, m) :
        \/ /\ ~ Complete(Received(e, m))
           /\ fanout' = (fanout \ {e}) \cup {Received(e, m)}
           /\ pool' = p /\ UNCHANGED <<answers, involved, logged, durable>>
        \/ pool' = p /\ UNCHANGED <<fanout, answers, involved, logged, durable>>
        \/ Complete(Received(e, m)) /\ Prepared(e, Received(e, m), p)
  BY DEF PrepareReply, transVars, logVars
<1>2. replies' = replies \ {m} /\ UNCHANGED <<issued, rm>> /\ m.job.phase = "prepare"
  BY DEF PrepareReply
<1>3. pool' = p => Outstanding' \subseteq Outstanding
  <2>1. JobsIn(p) \subseteq Outstanding
    BY RepliedJobs DEF Outstanding, Decided, CommitInv, TypeOK
  <2>2. QED
    BY <2>1 DEF Outstanding, JobsIn, Queued
<1>4. CASE /\ ~ Complete(Received(e, m))
           /\ fanout' = (fanout \ {e}) \cup {Received(e, m)}
           /\ pool' = p /\ UNCHANGED <<answers, involved, logged, durable>>
  BY <1>2, <1>3, <1>4, DecidedPartial
<1>5. CASE pool' = p /\ UNCHANGED <<fanout, answers, involved, logged, durable>>
  <2>1. \A r \in Request : Finals(r)' = Finals(r)
    BY <1>5 DEF Finals
  <2>2. QED
    BY <1>2, <1>3, <1>5, <2>1, StepInNone
<1>6. CASE Complete(Received(e, m)) /\ Prepared(e, Received(e, m), p)
  <2>1. e.phase = "prepare"
    BY <1>2, ReplyOf
  <2>2. QED
    BY <1>2, <1>6, <2>1, DecidedPrepared
<1>7. QED
  BY <1>1, <1>4, <1>5, <1>6

(* resource::commit::reply and resource::rollback::reply, with the last    *)
(* reply of the fan-out e.                                                 *)
LEMMA DecidedConcluded ==
  ASSUME Decided, CommitInv', Coordinated', NEW m \in replies, NEW e \in Awaiting(m),
         e.phase # "prepare", Complete(Received(e, m)), NEW p \in Replied(pool, m),
         NEW e2, e2 = Received(e, m), NEW code, code = Concluded(e.req, Outcome(e2, e2.got)),
         answers' = Answered(e.req, e.phase, code), Removed(GlobalFan(e)),
         fanout' = fanout \ {e}, pool' = p, replies' = replies \ {m}, UNCHANGED <<issued, rm>>,
         logged' \subseteq logged, durable' = durable
  PROVE  Decided'
<1>1. PICK g \in Gtrid : g = GlobalFan(e)
  BY ReplyOf
<1>2. /\ e \in fanout /\ e \in Fans(g) /\ e \in Entry /\ e.req \in Request /\ e.req \in issued
      /\ e.req \in Requests(g) /\ Ending(e) /\ e.req.kind \in TxKind
      /\ e.phase \in {"commit", "rollback"} /\ e2.base = e.base
      /\ e2.got \subseteq Part \X Code /\ e.base \in Code
      /\ e2.got = e.got \cup {<<m.job.part, m.code>>} /\ m.code \in Code
  <2>1. Received(e, m) \in Entry
    BY ReplyOf, ReceivedType DEF Decided, CommitInv, TypeOK
  <2>2. QED
    BY <1>1, <2>1, ReplyOf DEF Entry, Phase, Decided, Owned
<1>3. Outcome(e2, e2.got) \in Code /\ code \in Code \cup TxCode
  <2> DEFINE W == {v[2] : v \in e2.got} \cup {e2.base}
  <2>1. W \in SUBSET Code /\ W # {} /\ Outcome(e2, e2.got) = Worst(W)
    BY <1>2 DEF Outcome
  <2> HIDE DEF W
  <2>2. Outcome(e2, e2.got) \in Code
    BY <2>1, WorstIsWorst
  <2>3. QED
    BY <1>2, <2>2, ConcludedType
<1>4. /\ Fans(g)' = Fans(g) \ {e} /\ Requests(g)' = Requests(g)
      /\ Finals(e.req)' = Finals(e.req) \cup {[stage |-> e.phase, state |-> code]}
      /\ \A r \in Request : r # e.req => Finals(r)' = Finals(r)
      /\ OnlyIn(g) /\ Owned'
  <2>1. PICK st \in {"commit", "rollback"}, c \in Code \cup TxCode : st = e.phase /\ c = code
    BY <1>2, <1>3
  <2>2. answers' = Answered(e.req, st, c)
    BY <2>1
  <2>3. /\ Fans(GlobalFan(e))' = Fans(GlobalFan(e)) \ {e}
        /\ Requests(GlobalFan(e))' = Requests(GlobalFan(e))
        /\ Finals(e.req)' = Finals(e.req) \cup {[stage |-> st, state |-> c]}
        /\ \A r \in Request : r # e.req => Finals(r)' = Finals(r)
        /\ OnlyIn(GlobalFan(e)) /\ Owned'
    BY <2>2, FanEnded
  <2>4. QED
    BY <1>1, <2>1, <2>3
<1>5. /\ \A v \in e2.got : v \in Votes(e) /\ v[1] \in e.expect
      /\ \A q \in e.expect : \E v \in e2.got : v[1] = q
  BY VotesIn
<1>6. CASE OnePhase(g, e)
  <2>1. PICK q \in PartsIn(g) :
          /\ e.expect = {q} /\ rm[q] \in {"active", "committed", "rolledback"}
          /\ \A r \in PartsIn(g) \ {q} : rm[r] = "idle"
    BY <1>6 DEF OnePhase
  <2>2. /\ e2.got = {<<q, m.code>>} /\ m.code # "read_only"
        /\ m.code = "ok" <=> rm[q] = "committed"
        /\ m.code \in {"retry", "invalid_xid"} => rm[q] \in Unsettled
        /\ e.base = "read_only" /\ e.phase = "commit" /\ Alone(g, e)
    BY <1>2, <1>5, <1>6, <2>1 DEF OnePhase
  <2>3. Outcome(e2, e2.got) = m.code
    <3>1. {v[2] : v \in e2.got} \cup {e2.base} = {m.code, "read_only"}
      <4>1. <<q, m.code>>[2] = m.code /\ e2.base = "read_only"
        BY <1>2, <2>2
      <4>2. {v[2] : v \in {<<q, m.code>>}} = {m.code}
        BY <4>1
      <4>3. QED
        BY <2>2, <4>1, <4>2
    <3>2. QED
      BY <1>2, <2>2, <3>1, WorstOfOne DEF Outcome
  <2>4. code = "ok" <=> m.code \in {"ok", "retry", "invalid_xid"}
    BY <1>2, <2>2, <2>3, ConcludedOk
  <2>5. /\ Fans(g)' = {} /\ Requests(g)' = {e.req} /\ ~ Sealed(g)
        /\ Finals(e.req)' = {[stage |-> "commit", state |-> code]}
    BY <1>4, <2>2 DEF Alone, Sealed, Committing, Finished
  <2>6. CASE code = "ok"
    <3>1. \A r \in PartsIn(g) : rm[r] \in {"idle", "committed"} \cup Unsettled
      BY <2>1, <2>2, <2>4, <2>6
    <3>2. Finished(g)'
      BY <1>2, <2>2, <2>5, <2>6, <3>1 DEF Finished, Alone, Success, Unsettled
    <3>3. QED
      BY <1>4, <2>5, <3>2, StepIn DEF Situation
  <2>7. CASE code # "ok"
    <3>1. \A r \in PartsIn(g) : rm[r] # "committed"
      BY <2>1, <2>2, <2>4, <2>7
    <3>2. Success \notin Finals(e.req)'
      BY <2>5, <2>7 DEF Success
    <3>3. Doomed(g)'
      BY <2>5, <3>1, <3>2 DEF Doomed
    <3>4. QED
      BY <1>4, <2>5, <3>3, StepIn DEF Situation
  <2>8. QED
    BY <2>6, <2>7
<1>7. CASE Committing(g, e)
  <2>1. /\ e.base = "ok" /\ e.phase = "commit" /\ Alone(g, e)
        /\ \A v \in e2.got : v[2] = "ok" /\ rm[v[1]] = "committed"
        /\ \A q \in PartsIn(g) : q \notin e.expect => rm[q] \in {"idle", "readonly"}
    BY <1>5, <1>7 DEF Committing
  <2>2. Outcome(e2, e2.got) = "ok"
    BY <1>2, <2>1, OutcomeOfOk
  <2>3. code = "ok"
    BY <1>2, <1>3, <2>2, ConcludedOk
  <2>4. /\ Fans(g)' = {} /\ Requests(g)' = {e.req} /\ Finals(e.req)' = {Success}
    BY <1>4, <2>1, <2>3 DEF Alone, Success
  <2>5. \A q \in PartsIn(g) : rm[q] \in {"idle", "readonly", "committed"}
    BY <1>5, <2>1
  <2>6. Finished(g)' /\ Sealed(g)'
    BY <1>2, <2>1, <2>4, <2>5 DEF Finished, Alone, Sealed
  <2>7. QED
    BY <1>4, <2>6, StepIn DEF Situation
<1>8. CASE Doomed(g) /\ e.phase = "rollback" /\ ~ Sealed(g)
  <2>1. \A r \in Requests(g)' : Success \notin Finals(r)'
    <3>1. Requests(g)' = Requests(g) /\ \A r \in Requests(g) : r \in Request
      BY <1>4 DEF Requests, Decided, CommitInv, TypeOK
    <3>2. \A r \in Requests(g) : Success \notin Finals(r)
      BY <1>8 DEF Doomed
    <3>3. Success # [stage |-> e.phase, state |-> code]
      BY <1>8 DEF Success
    <3>4. QED
      BY <1>4, <3>1, <3>2, <3>3
  <2>2. Doomed(g)'
    BY <1>4, <1>8, <2>1 DEF Doomed
  <2>3. QED
    BY <1>4, <1>8, <2>2, StepIn DEF Situation
<1>9. QED
  BY <1>1, <1>2, <1>6, <1>7, <1>8 DEF Ending, Preparing

(* resource::commit::reply and resource::rollback::reply.                  *)
LEMMA DecidedOutcomeReply ==
  ASSUME Decided, CommitInv', Coordinated', NEW m \in replies, OutcomeReply(m)
  PROVE  Decided'
<1>1. PICK e \in Awaiting(m), p \in Replied(pool, m) :
        /\ pool' = p
        /\ \/ /\ ~ Complete(Received(e, m))
              /\ fanout' = (fanout \ {e}) \cup {Received(e, m)}
              /\ UNCHANGED <<answers, involved, logged>>
           \/ /\ Complete(Received(e, m))
              /\ answers' = Answered(e.req, e.phase,
                              Concluded(e.req, Outcome(Received(e, m), Received(e, m).got)))
              /\ Removed(GlobalFan(e)) /\ logged' = Unlogged(GlobalFan(e), logged)
              /\ fanout' = fanout \ {e}
  BY DEF OutcomeReply, transVars, GlobalFan
<1>2. /\ replies' = replies \ {m} /\ UNCHANGED <<issued, rm, durable>>
      /\ e.phase # "prepare"
  <2>1. m.job.phase # "prepare" /\ e.phase = m.job.phase
    BY ReplyOf DEF OutcomeReply
  <2>2. QED
    BY <2>1 DEF OutcomeReply
<1>3. Outstanding' \subseteq Outstanding
  <2>1. JobsIn(p) \subseteq Outstanding
    BY RepliedJobs DEF Outstanding, Decided, CommitInv, TypeOK
  <2>2. QED
    BY <1>1, <2>1 DEF Outstanding, JobsIn, Queued
<1>4. CASE ~ Complete(Received(e, m))
  BY <1>1, <1>2, <1>3, <1>4, DecidedPartial
<1>5. CASE Complete(Received(e, m))
  <2>1. logged' \subseteq logged
    BY <1>1, <1>5 DEF Unlogged
  <2>2. QED
    BY <1>1, <1>2, <1>5, <2>1, DecidedConcluded
<1>6. QED
  BY <1>4, <1>5
-----------------------------------------------------------------------------
(* Every step keeps the decision.                                          *)
LEMMA DecidedNext ==
  ASSUME Undisturbed, Decided, [Next]_vars
  PROVE  Decided'
<1>1. CommitInv' /\ Coordinated'
  BY CommitStep, CoordinatedNext DEF Decided
<1>2. TypeOK /\ pool \in PoolType /\ Unique(pool)
  BY DEF Decided, CommitInv, TypeOK
<1>3. CASE ClientNext
  <2>1. ASSUME NEW x \in Xid, NEW S \in SUBSET Rm, Involve(x, S) PROVE Decided'
    <3>1. S \in SUBSET Resource
      BY DEF Resource
    <3>2. QED
      BY <1>1, <2>1, <3>1, DecidedInvolve DEF Involve, logVars, clientVars
  <2>2. ASSUME NEW x \in Xid, NEW r \in ExternalRm, ExternalInvolve(x, r) PROVE Decided'
    <3>1. {r} \in SUBSET Resource
      BY DEF Resource
    <3>2. QED
      BY <1>1, <2>2, <3>1, DecidedInvolve DEF ExternalInvolve, logVars, clientVars
  <2>3. ASSUME NEW req \in Request, XaCommit(req) \/ XaRollback(req) PROVE Decided'
    BY <2>3 DEF XaCommit, XaRollback, UpstreamMay, Undisturbed
  <2>4. QED
    BY <1>1, <1>3, <2>1, <2>2, <2>3, DecidedTxCommit, DecidedTxRollback DEF ClientNext
<1>4. CASE ReplyNext
  BY <1>1, <1>4, DecidedPrepareReply, DecidedOutcomeReply DEF ReplyNext
<1>5. CASE Persist
  BY <1>1, <1>5, DecidedPersist
<1>6. CASE ProcessNext
  <2> USE DEF transVars, logVars, clientVars
  <2>1. ASSUME NEW o \in Process, OwnerExit(o) PROVE Decided'
    BY <2>1 DEF OwnerExit, Undisturbed
  <2>2. \A q : q = pool' => Outstanding' = JobsIn(q)
    BY DEF Outstanding, JobsIn, Queued
  <2>3. ASSUME NEW i \in Instance, ProxyWork(i) PROVE Decided'
    <3>1. PICK j \in pool.inbox[i] :
            pool' = [pool EXCEPT !.inbox[i] = @ \ {j}] /\ Works(j, i)
      BY <2>3 DEF ProxyWork
    <3>2. j \in Outstanding
      BY <1>2, InJobsIn DEF Outstanding
    <3>3. Outstanding' = Outstanding \ {j}
      BY <1>2, <2>2, <3>1, WorkJobs DEF Outstanding
    <3>4. UNCHANGED <<fanout, issued, answers, involved, logged, durable>>
      BY <2>3 DEF ProxyWork
    <3>5. QED
      BY <1>1, <3>1, <3>2, <3>3, <3>4, DecidedWorks
  <2>4. ASSUME NEW j \in pool.external, ExternalWork(j) PROVE Decided'
    <3>1. pool' = [pool EXCEPT !.external = @ \ {j}] /\ Works(j, Nobody)
      BY <2>4 DEF ExternalWork
    <3>2. j \in Outstanding
      BY <1>2, InJobsIn DEF Outstanding
    <3>3. Outstanding' = Outstanding \ {j}
      BY <1>2, <2>2, <3>1, ExternalJobs DEF Outstanding
    <3>4. UNCHANGED <<fanout, issued, answers, involved, logged, durable>>
      BY <2>4 DEF ExternalWork
    <3>5. QED
      BY <1>1, <3>1, <3>2, <3>3, <3>4, DecidedWorks
  <2>5. QED
    BY <1>1, <1>6, <2>1, <2>3, <2>4, DecidedQuiet DEF ProcessNext
<1>7. CASE UNCHANGED vars
  <2>1. UNCHANGED <<issued, fanout, involved, rm, answers, pool, replies, logged, durable>>
    BY <1>7 DEF vars, transVars, logVars, clientVars, resourceVars
  <2>2. Outstanding' = Outstanding
    BY <2>1 DEF Outstanding, JobsIn, Queued
  <2>3. \A r \in Request : Finals(r)' = Finals(r)
    BY <2>1 DEF Finals
  <2>4. QED
    BY <1>1, <2>1, <2>2, <2>3, StepInNone
<1>8. QED
  BY <1>3, <1>4, <1>5, <1>6, <1>7 DEF Next

(* Where nothing decides beside the manager, every transaction is always   *)
(* in one of the situations.                                               *)
LEMMA DecidedAlways == Undisturbed /\ Spec => []Decided
<1>1. Undisturbed /\ Decided /\ [Next]_vars => Decided'
  BY DecidedNext
<1>2. Undisturbed => []Undisturbed
  <2>1. Undisturbed => Undisturbed'
    BY DEF Undisturbed
  <2>2. QED
    BY <2>1, PTL DEF Undisturbed
<1>3. QED
  BY <1>1, <1>2, DecidedInit, PTL DEF Spec

(* No global transaction is committed in one of its resources and rolled   *)
(* back in another: for any number of branches, resources, proxies, lost   *)
(* proxies, refusals and transactions at a time, where nothing decides     *)
(* beside the manager.                                                     *)
THEOREM PartsAgree ==
  ASSUME Undisturbed PROVE Spec => []Agreement
<1>1. Decided => Agreement
  <2> SUFFICES ASSUME Decided, NEW p \in Part, NEW q \in Part, GlobalOf[p[1]] = GlobalOf[q[1]],
                      rm[p] = "committed", rm[q] = "rolledback"
               PROVE  FALSE
    BY DEF Agreement
  <2>1. PICK g \in Gtrid : g = GlobalOf[p[1]]
    BY DEF Part
  <2>2. p \in PartsIn(g) /\ q \in PartsIn(g) /\ Situation(g)
    BY <2>1 DEF PartsIn, Decided
  <2>3. CASE Working(g) \/ Doomed(g)
    BY <2>2, <2>3 DEF Working, Doomed
  <2>4. CASE Finished(g)
    BY <2>2, <2>4 DEF Finished, Unsettled
  <2>5. ASSUME NEW e \in fanout, Preparing(g, e) \/ OnePhase(g, e) \/ Committing(g, e) PROVE FALSE
    BY <2>2, <2>5 DEF Preparing, OnePhase, Committing
  <2>6. QED
    BY <2>2, <2>3, <2>4, <2>5 DEF Situation
<1>2. QED
  BY <1>1, DecidedAlways, PTL

(* Whatever the log holds, in memory or on disk, can still be committed in *)
(* every resource: a manager that restarts and reads it decides nothing    *)
(* else than the one that wrote it.                                        *)
THEOREM LogIsCommittable ==
  ASSUME Undisturbed PROVE Spec => []LoggedIsCommittable
<1>1. Decided => LoggedIsCommittable
  <2> SUFFICES ASSUME Decided, NEW x \in logged \cup durable, NEW p \in Part,
                      GlobalOf[p[1]] = GlobalOf[x]
               PROVE  rm[p] \notin {"active", "rolledback"}
    BY DEF LoggedIsCommittable
  <2>1. PICK g \in Gtrid : g = GlobalOf[p[1]]
    BY DEF Part
  <2>2. p \in PartsIn(g) /\ Sealed(g)
    BY <2>1 DEF PartsIn, Decided
  <2>3. QED
    BY <2>2 DEF Sealed, Committing, Finished, Unsettled
<1>2. QED
  BY <1>1, DecidedAlways, PTL

(* What the owner is told is what has happened: after TX_OK no part is     *)
(* rolled back or open, after an answer of the rollback stage none is      *)
(* committed. A resource that refuses with XA_RETRY or XAER_NOTA is left   *)
(* out, ToTx making TX_OK of both.                                         *)
THEOREM AnswersAreTrue ==
  ASSUME Undisturbed, Refusal \cap {"retry", "invalid_xid"} = {}
  PROVE  Spec => []AnswerIsTrue
<1>1. Decided => AnswerIsTrue
  <2> SUFFICES ASSUME Decided, NEW x \in Client,
                      NEW req, req = [kind |-> "tx_commit", trid |-> x], NEW n \in DOMAIN answers[req]
               PROVE  /\ answers[req][n].stage = "commit" /\ answers[req][n].state = "ok" =>
                           \A p \in PartsIn(GlobalOf[x]) : rm[p] \in {"idle", "readonly", "committed"}
                      /\ answers[req][n].stage = "rollback" =>
                           \A p \in PartsIn(GlobalOf[x]) : rm[p] # "committed"
    BY DEF AnswerIsTrue, PartsIn
  <2>1. PICK g \in Gtrid : g = GlobalOf[x]
    OBVIOUS
  <2>2. req \in Request /\ req.kind = "tx_commit" /\ req.trid = x
    BY DEF Request, TxKind
  <2>3. PICK a \in Answer : a = answers[req][n]
    <3>1. answers[req] \in Seq(Answer)
      BY <2>2 DEF Decided, CommitInv, TypeOK
    <3>2. QED
      BY <3>1, LenProperties, ElementOfSeq
  <2>4. /\ a.stage = "commit" /\ a.state = "ok" <=> a = Success
        /\ a.stage # "prepare" => a \in Finals(req)
    BY <2>3 DEF Answer, Success, Finals
  <2>5. CASE a.stage = "prepare"
    BY <2>3, <2>5
  <2>6. CASE a.stage # "prepare"
    <3>1. req \in Requests(g) /\ Situation(g) /\ a \in Finals(req)
      BY <2>1, <2>2, <2>4, <2>6 DEF Requests, Decided, Owned
    <3>2. \A e : ~ Alone(g, e)
      BY <3>1 DEF Alone
    <3>3. Doomed(g) \/ Finished(g)
      BY <3>1, <3>2 DEF Situation, Working, Preparing, OnePhase, Committing
    <3>4. CASE Doomed(g)
      BY <2>1, <2>3, <2>4, <3>1, <3>4 DEF Doomed
    <3>5. CASE Finished(g)
      <4>1. a = Success /\ Unsettled = {}
        BY <3>1, <3>5 DEF Finished, Unsettled
      <4>2. QED
        BY <2>1, <2>3, <3>5, <4>1 DEF Finished, Success
    <3>6. QED
      BY <3>3, <3>4, <3>5
  <2>7. QED
    BY <2>5, <2>6
<1>2. QED
  BY <1>1, DecidedAlways, PTL
-----------------------------------------------------------------------------
(* Seen from the resources: work is work in parts of one family.           *)
LEMMA WorkIsAtomic ==
  ASSUME TypeOK, NEW x \in Xid, NEW S \in SUBSET Resource, rm' = Worked(x, S),
         \A p \in PartsIn(GlobalOf[x]) : rm[p] # "committed"
  PROVE  Atomic!Next
<1> DEFINE W == {p \in Part : p[1] = x /\ p[2] \in S /\ rm[p] = "idle"}
<1>1. \A p \in W : Atomic!Family(p) = PartsIn(GlobalOf[x])
  BY DEF Atomic!Family, PartsIn
<1>2. \A p \in W : p \in PartsIn(GlobalOf[x]) /\ rm[p] = "idle"
  BY DEF PartsIn
<1>3. rm' = [p \in Part |-> IF p \in W THEN "active" ELSE rm[p]]
  BY DEF Worked
<1>4. Atomic!Work(W)
  <2> HIDE DEF W
  <2>1. QED
    BY <1>1, <1>2, <1>3 DEF Atomic!Work
<1>5. QED
  BY <1>4 DEF Atomic!Next

(* What a resource manager does at a request is what AtomicCommit lets it  *)
(* do: the situation of the transaction says which.                        *)
LEMMA WorksAreAtomic ==
  ASSUME Undisturbed, Decided, NEW j \in Outstanding, NEW from, Works(j, from)
  PROVE  Atomic!Next \/ UNCHANGED rm
<1>1. PICK e \in fanout :
           /\ j \in JobsOf(e) /\ j \in Job /\ Waits(e, j)
           /\ j.part \in PartsIn(GlobalFan(e))
           /\ Ending(e)
  BY JobSituation
<1>2. PICK g \in Gtrid : g = GlobalFan(e)
  BY OfOneFamily DEF Decided
<1>3. PICK p \in Part : p = j.part /\ p \in PartsIn(g)
  BY <1>1, <1>2 DEF PartsIn
<1>4. PICK s \in RmState : s = rm[p]
  BY DEF Decided, CommitInv, TypeOK
<1>5. PICK a \in RmAnswers(j, s) : rm' = [rm EXCEPT ![p] = a[2]]
  BY <1>3, <1>4 DEF Works
<1>6. rm \in [Part -> RmState]
  BY DEF Decided, CommitInv, TypeOK
<1>7. Atomic!Family(p) = PartsIn(g)
  BY <1>3 DEF Atomic!Family, PartsIn
<1>8. a[2] = s => UNCHANGED rm
  BY <1>4, <1>5, <1>6
<1>9. a[2] = "rolledback" /\ s \in {"active", "prepared"}
        /\ (\A q \in PartsIn(g) : rm[q] # "committed") => Atomic!Next
  BY <1>3, <1>4, <1>5, <1>7 DEF Atomic!Next, Atomic!Abort, Atomic!Become
<1>10. j.phase = e.phase /\ p \in e.expect
  BY <1>1, <1>3 DEF Waits
<1>11. CASE Preparing(g, e)
  <2>1. s = "active" /\ j.phase = "prepare" /\ \A q \in PartsIn(g) : rm[q] # "committed"
    BY <1>1, <1>3, <1>4, <1>10, <1>11 DEF Preparing
  <2>2. a[2] \in {"prepared", "readonly", "active", "rolledback"}
    BY <1>1, <2>1, AnswersOf
  <2>3. a[2] = "prepared" => Atomic!Next
    BY <1>3, <1>4, <1>5, <2>1 DEF Atomic!Next, Atomic!Prepare, Atomic!Become
  <2>4. a[2] = "readonly" => Atomic!Next
    BY <1>3, <1>4, <1>5, <2>1 DEF Atomic!Next, Atomic!ReadOnly, Atomic!Become
  <2>5. QED
    BY <1>8, <1>9, <2>1, <2>2, <2>3, <2>4
<1>12. CASE OnePhase(g, e)
  <2>1. /\ s = "active" /\ j.phase = "commit" /\ j.onephase
        /\ \A q \in PartsIn(g) \ {p} : rm[q] = "idle"
    BY <1>1, <1>3, <1>4, <1>10, <1>12 DEF OnePhase
  <2>2. a[2] \in {"committed", "active", "rolledback"}
    BY <1>1, <2>1, AnswersOf
  <2>3. a[2] = "committed" => Atomic!Next
    BY <1>3, <1>4, <1>5, <1>7, <2>1
       DEF Atomic!Next, Atomic!Commit, Atomic!MayCommit, Atomic!Become
  <2>4. \A q \in PartsIn(g) : rm[q] # "committed"
    BY <1>4, <2>1
  <2>5. QED
    BY <1>8, <1>9, <2>1, <2>2, <2>3, <2>4
<1>13. CASE Committing(g, e)
  <2>1. /\ s = "prepared" /\ j.phase = "commit" /\ ~ j.onephase
        /\ \A q \in PartsIn(g) : rm[q] \in {"idle", "readonly", "prepared", "committed"}
    BY <1>1, <1>3, <1>4, <1>10, <1>13 DEF Committing
  <2>2. a[2] = "committed"
    BY <1>1, <2>1, AnswersOf
  <2>3. QED
    BY <1>3, <1>4, <1>5, <1>7, <2>1, <2>2
       DEF Atomic!Next, Atomic!Commit, Atomic!MayCommit, Atomic!Become
<1>14. CASE Doomed(g) /\ e.phase = "rollback"
  <2>1. a[2] = s \/ (a[2] = "rolledback" /\ s \in {"active", "prepared"})
    BY <1>1, <1>10, <1>14, AnswersOf
  <2>2. QED
    BY <1>8, <1>9, <1>14, <2>1 DEF Doomed
<1>15. QED
  BY <1>1, <1>2, <1>11, <1>12, <1>13, <1>14 DEF Ending

(* Every step of the manager and its resources is one of AtomicCommit, or  *)
(* none.                                                                   *)
LEMMA AtomicStep ==
  ASSUME Undisturbed, Decided, [Next]_vars
  PROVE  Atomic!Next \/ UNCHANGED rm
<1>1. TypeOK /\ pool \in PoolType
  BY DEF Decided, CommitInv, TypeOK
<1>2. ASSUME NEW x \in Xid, NEW S \in SUBSET Resource, rm' = Worked(x, S), Working(GlobalOf[x])
      PROVE  Atomic!Next
  BY <1>1, <1>2, WorkIsAtomic DEF Working
<1>3. CASE ClientNext
  <2>1. ASSUME NEW x \in Xid, NEW S \in SUBSET Resource, MayWork(x, S), rm' = Worked(x, S)
        PROVE  Atomic!Next
    <3>1. Requests(GlobalOf[x]) = {}
      BY <2>1, AskedByOwner DEF MayWork, Requests, Undisturbed
    <3>2. QED
      BY <1>2, <2>1, <3>1, Unasked
  <2>2. ASSUME NEW x \in Xid, NEW S \in SUBSET Rm, Involve(x, S) PROVE Atomic!Next
    BY <2>1, <2>2 DEF Involve, Resource
  <2>3. ASSUME NEW x \in Xid, NEW r \in ExternalRm, ExternalInvolve(x, r) PROVE Atomic!Next
    BY <2>1, <2>3 DEF ExternalInvolve, Resource
  <2>4. ASSUME NEW x \in Xid, NEW S \in SUBSET Rm, TxCommit(x, S) PROVE Atomic!Next
    <3>1. x \in Client /\ ~ Asked(x) /\ rm' = Worked(x, S)
      BY <2>4 DEF TxCommit, ClientMayCommit
    <3>2. Requests(GlobalOf[x]) = {}
      BY <3>1, AskedByOwner DEF Requests
    <3>3. Working(GlobalOf[x]) /\ S \in SUBSET Resource
      BY <3>2, Unasked DEF Resource
    <3>4. QED
      BY <1>2, <3>1, <3>3
  <2>5. ASSUME NEW x \in Xid, NEW S \in SUBSET Rm, TxRollback(x, S) PROVE Atomic!Next
    <3>1. ClientMayRollback(x) /\ rm' = Worked(x, S) /\ S \in SUBSET Resource
      BY <2>5 DEF TxRollback, Resource
    <3>2. QED
      BY <1>1, <3>1, RollbackOfUndone, WorkIsAtomic
  <2>6. ASSUME NEW req \in Request, XaCommit(req) \/ XaRollback(req) PROVE FALSE
    BY <2>6 DEF XaCommit, XaRollback, UpstreamMay, Undisturbed
  <2>7. QED
    BY <1>3, <2>2, <2>3, <2>4, <2>5, <2>6 DEF ClientNext
<1>4. CASE ReplyNext \/ Persist \/ UNCHANGED vars
  BY <1>4 DEF ReplyNext, PrepareReply, OutcomeReply, Persist, vars, resourceVars
<1>5. CASE ProcessNext
  <2> USE DEF resourceVars
  <2>1. ASSUME NEW i \in Instance, ProxyWork(i) PROVE Atomic!Next \/ UNCHANGED rm
    <3>1. PICK j \in pool.inbox[i] : Works(j, i)
      BY <2>1 DEF ProxyWork
    <3>2. j \in Outstanding
      BY <1>1, InJobsIn DEF Outstanding
    <3>3. QED
      BY <3>1, <3>2, WorksAreAtomic
  <2>2. ASSUME NEW j \in pool.external, ExternalWork(j) PROVE Atomic!Next \/ UNCHANGED rm
    <3>1. Works(j, Nobody)
      BY <2>2 DEF ExternalWork
    <3>2. j \in Outstanding
      BY <1>1, InJobsIn DEF Outstanding
    <3>3. QED
      BY <3>1, <3>2, WorksAreAtomic
  <2>3. ASSUME NEW i \in Instance,
               \/ Ready(i) \/ ScaleOut(i) \/ ScaleIn(i) \/ ProxyExit(i)
               \/ ProxyStart(i) \/ ProxyShutdown(i) \/ ProxyCrash(i)
        PROVE  UNCHANGED rm
    BY <2>3 DEF Ready, ScaleOut, ScaleIn, ProxyExit, ProxyStart, ProxyShutdown, ProxyCrash
  <2>4. ASSUME NEW o \in Process, OwnerExit(o) PROVE UNCHANGED rm
    BY <2>4 DEF OwnerExit
  <2>5. QED
    BY <1>5, <2>1, <2>2, <2>3, <2>4 DEF ProcessNext
<1>6. QED
  BY <1>3, <1>4, <1>5 DEF Next

(* The transaction manager implements AtomicCommit: it asks a resource for *)
(* a commit only where the whole transaction can still be committed, and   *)
(* for a rollback only where nothing of it is, for every instance of the   *)
(* constants where nothing decides beside it.                              *)
THEOREM ManagerIsAtomic ==
  ASSUME Undisturbed PROVE Spec => ImplementsAtomicCommit
<1>1. Init => Atomic!Init
  BY DEF Init, Atomic!Init
<1>2. Decided /\ [Next]_vars => [Atomic!Next]_rm
  BY AtomicStep
<1>3. QED
  BY <1>1, <1>2, DecidedAlways, PTL DEF Spec, ImplementsAtomicCommit, Atomic!Spec
=============================================================================
