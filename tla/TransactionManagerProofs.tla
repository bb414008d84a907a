---------------------- MODULE TransactionManagerProofs ----------------------
(***************************************************************************)
(* Type correctness of the transaction manager and what holds of its pool  *)
(* of resource proxies, for every value of the constants.                  *)
(***************************************************************************)
EXTENDS TransactionManager, TLAPS, WellFoundedInduction, SequenceTheorems, FiniteSetTheorems

USE BranchAssumption, ResourceAssumption, AnswerAssumption

(* Every code has a rank (code::priority::xa is total). *)
LEMMA SeverityType == Severity \in [Code -> Nat]
  BY DEF Severity, Code

(* The outcome of several replies is one of them and none is more severe:  *)
(* accumulate::code is well defined when there is something to fold.       *)
LEMMA WorstIsWorst ==
  ASSUME NEW S \in SUBSET Code, S # {}
  PROVE  Worst(S) \in S /\ \A d \in S : Severity[Worst(S)] <= Severity[d]
<1> DEFINE T == {Severity[c] : c \in S}
<1>1. T \subseteq Nat /\ T # {}
  BY SeverityType
<1> DEFINE R == {ss \in Nat \X Nat : ss[1] < ss[2]}
<1>2. IsWellFoundedOn(R, Nat)
  BY NatLessThanWellFounded, Zenon DEF OpToRel
<1>3. PICK n \in T : \A m \in T : ~ (<<m, n>> \in R)
  <2> HIDE DEF R, T
  <2>1. QED BY <1>1, <1>2, WFMin
<1>4. \A m \in T : n <= m
  <2> TAKE m \in T
  <2>1. m \in Nat /\ n \in Nat
    BY <1>1
  <2>2. ~ (m < n)
    BY <1>3, <2>1
  <2>3. QED
    BY <2>1, <2>2
<1>5. \E c \in S : \A d \in S : Severity[c] <= Severity[d]
  BY <1>4
<1>6. QED
  BY <1>5 DEF Worst

(* The outcome of a prepare phase is ok only when nobody refused. *)
LEMMA WorstOk ==
  ASSUME NEW S \in SUBSET Code, S # {}, Worst(S) \in {"ok", "read_only"}
  PROVE  S \subseteq {"ok", "read_only"}
<1>1. \A c \in Code : Severity[c] >= 22 => c \in {"ok", "read_only"}
  BY DEF Severity, Code
<1>2. Severity["ok"] = 22 /\ Severity["read_only"] = 23
  BY DEF Severity
<1>3. \A d \in S : Severity[d] >= 22
  BY <1>2, SeverityType, WorstIsWorst
<1>4. QED
  BY <1>1, <1>3

(* What the application sees is a code of the TX interface. *)
LEMMA ToTxType == \A c : ToTx(c) \in TxCode
  BY DEF ToTx, TxCode
-----------------------------------------------------------------------------
(* Sending keeps the type of the pool; no waiting batch is empty.          *)
LEMMA SentType ==
  ASSUME NEW p \in PoolType, NEW jobs \in SUBSET Job, NEW q \in Sent(p, jobs)
  PROVE  q \in PoolType
<1>1. PICK to \in Placements(p, jobs) : q = Placed(p, jobs, to)
  BY DEF Sent
<1>2. DOMAIN to \subseteq Job
  BY <1>1 DEF Placements
<1> DEFINE for(i) == {j \in DOMAIN to : to[j] = i}
           waits(r) == {j \in DOMAIN to : to[j] = Nobody /\ j.part[2] = r}
<1>3. \A i : for(i) \in SUBSET Job
  BY <1>2
<1>4. \A r : waits(r) \in SUBSET Job
  BY <1>2
<1> HIDE DEF for, waits
<1>5. [i \in Instance |-> IF for(i) # {} THEN "busy" ELSE p.state[i]]
        \in [Instance -> ProxyState]
  BY DEF PoolType, ProxyState
<1>6. [i \in Instance |-> p.inbox[i] \cup for(i)] \in [Instance -> SUBSET Job]
  BY <1>3 DEF PoolType
<1>7. [r \in Rm |-> IF waits(r) # {} THEN Append(p.queue[r], waits(r))
                                     ELSE p.queue[r]]
        \in [Rm -> Seq((SUBSET Job) \ {{}})]
  <2> SUFFICES ASSUME NEW r \in Rm
               PROVE  (IF waits(r) # {} THEN Append(p.queue[r], waits(r))
                       ELSE p.queue[r]) \in Seq((SUBSET Job) \ {{}})
    OBVIOUS
  <2>1. p.queue[r] \in Seq((SUBSET Job) \ {{}})
    BY DEF PoolType
  <2>2. waits(r) # {} => waits(r) \in (SUBSET Job) \ {{}}
    BY <1>4
  <2>3. QED
    BY <2>1, <2>2, AppendProperties
<1>8. p.external \cup (jobs \ DOMAIN to) \in SUBSET Job
  BY DEF PoolType
<1>9. QED
  BY <1>1, <1>5, <1>6, <1>7, <1>8 DEF Placed, PoolType, for, waits

(* instance::done keeps it; a batch that would be empty is erased.         *)
LEMMA DoneType ==
  ASSUME NEW p \in PoolType, NEW i \in Instance, NEW q \in Done(p, i)
  PROVE  q \in PoolType
<1> DEFINE w == p.queue[RmOf[i]]
<1>1. w \in Seq((SUBSET Job) \ {{}})
  BY DEF PoolType
<1>2. \A v \in {"idle", "busy"} : Settled(p.state[i], v) \in ProxyState
  BY DEF Settled, PoolType, ProxyState
<1>3. CASE w = <<>> \/ i \notin up
  <2>1. q = [p EXCEPT !.state[i] = Settled(@, "idle")]
    BY <1>3 DEF Done
  <2>2. QED
    BY <2>1, <1>2 DEF PoolType
<1>4. CASE ~ (w = <<>> \/ i \notin up)
  <2>1. PICK j \in Head(w) :
          q = [p EXCEPT !.state[i] = Settled(@, "busy"),
                        !.inbox[i] = IF i \in closing THEN @ ELSE @ \cup {j},
                        !.queue[RmOf[i]] = Without(@, j)]
    BY <1>4 DEF Done
  <2>2. Head(w) \in (SUBSET Job) \ {{}} /\ Tail(w) \in Seq((SUBSET Job) \ {{}})
    BY <1>1, <1>4, HeadTailProperties
  <2>3. Without(w, j) \in Seq((SUBSET Job) \ {{}})
    <3>1. CASE Head(w) = {j}
      BY <3>1, <2>2 DEF Without
    <3>2. CASE Head(w) # {j}
      <4>1. Head(w) \ {j} \in (SUBSET Job) \ {{}}
        BY <3>2, <2>1, <2>2
      <4>2. <<Head(w) \ {j}>> \in Seq((SUBSET Job) \ {{}})
        BY <4>1
      <4>3. QED
        BY <3>2, <4>2, <2>2, ConcatProperties DEF Without
    <3>3. QED
      BY <3>1, <3>2
  <2> HIDE DEF w
  <2>4. j \in Job
    BY <2>1, <2>2
  <2>5. QED
    BY <2>1, <2>3, <2>4, <1>2 DEF PoolType, w
<1>5. QED
  BY <1>3, <1>4

(* Machine::operator = gives one of its stages.                            *)
LEMMA AdvancedType ==
  ASSUME NEW a \in Stage, NEW b \in Stage PROVE Advanced(a, b) \in Stage
  BY DEF Advanced

(* An answer is appended to those of its request.                          *)
LEMMA AnsweredType ==
  ASSUME answers \in [Request -> Seq(Answer)], NEW req \in Request,
         NEW st \in Phase, NEW code \in Code \cup TxCode
  PROVE  Answered(req, st, code) \in [Request -> Seq(Answer)]
<1>1. [stage |-> st, state |-> code] \in Answer
  BY DEF Answer
<1>2. Append(answers[req], [stage |-> st, state |-> code]) \in Seq(Answer)
  BY <1>1, AppendProperties
<1>3. QED
  BY <1>2 DEF Answered

(* What is answered is a code of XA, or of TX for a client.                *)
LEMMA ConcludedType ==
  ASSUME NEW req, NEW code \in Code
  PROVE  Concluded(req, code) \in Code \cup TxCode
<1>1. Normalised(code) \in Code
  BY DEF Normalised, Code, Severity
<1>2. QED
  BY <1>1, ToTxType DEF Concluded

(* persist::send appends answers only.                                     *)
LEMMA ReleasedType ==
  ASSUME NEW ans \in [Request -> Seq(Answer)], NEW batch
  PROVE  Released(ans, batch) \in [Request -> Seq(Answer)]
<1>1. [stage |-> "prepare", state |-> ToTx("ok")] \in Answer
  BY ToTxType DEF Answer, Phase
<1>2. \A q \in Request :
        Append(ans[q], [stage |-> "prepare", state |-> ToTx("ok")]) \in Seq(Answer)
  BY <1>1, AppendProperties
<1>3. QED
  BY <1>2 DEF Released

(* Send keeps the types of what it changes.                                *)
LEMMA SendType ==
  ASSUME TypeOK, NEW jobs \in SUBSET Job, Send(jobs)
  PROVE  pool' \in PoolType /\ manager' \in {"running", "terminated"}
  BY SentType DEF Send, AfterSend, TypeOK

(* The work of servers keeps the states of the resources well typed.       *)
LEMMA WorkedType ==
  ASSUME rm \in [Part -> RmState], NEW x, NEW resources
  PROVE  Worked(x, resources) \in [Part -> RmState]
  BY DEF Worked, RmState

(* The requests to a set of resources are requests.                        *)
LEMMA JobsForType ==
  ASSUME NEW phase \in Phase, NEW onephase \in BOOLEAN, NEW req \in Request,
         NEW parts \in SUBSET Part
  PROVE  JobsFor(phase, onephase, req, parts) \in SUBSET Job
  BY DEF JobsFor, Job

(* A new fan-out is an entry of fan::Out.                                  *)
LEMMA FanType ==
  ASSUME NEW phase \in Phase, NEW req \in Request, NEW parts \in SUBSET Part,
         NEW code \in Code
  PROVE  Fan(phase, req, parts, code) \in Entry
  BY DEF Fan, Entry

(* The phases, stages and codes that the handlers name.                    *)
LEMMA StringsOfPhases ==
  /\ Phase = {"prepare", "commit", "rollback"} /\ Phase \subseteq Stage
  /\ {"absent", "involved"} \subseteq Stage
  /\ {"ok", "read_only"} \subseteq Code
  /\ {"ok", "protocol"} \subseteq TxCode
  BY DEF Phase, Stage, Code, Severity, TxCode

(* A branch and some resources make parts.                                 *)
LEMMA ResourceType ==
  \A x \in Xid : \A S \in SUBSET Resource : {x} \X S \subseteq Part
  BY DEF Part, Resource

(* involved() of a branch keeps the transactions well typed.               *)
LEMMA InvolveType ==
  ASSUME TypeOK, NEW x \in Xid,
         NEW S \in SUBSET Resource, AddInvolved(x, S)
  PROVE  /\ stage' \in [Gtrid -> Stage] /\ branches' \subseteq Xid
         /\ involved' \subseteq Part
  BY AdvancedType, StringsOfPhases, ResourceType DEF AddInvolved, TypeOK

(* The start of a commit keeps the types of what it changes.               *)
LEMMA StartCommitType ==
  ASSUME TypeOK, NEW req \in Request, NEW inv \in SUBSET Part,
         NEW br \in SUBSET Xid, StartCommit(req, inv, br)
  PROVE  /\ stage' \in [Gtrid -> Stage] /\ branches' \subseteq Xid
         /\ involved' \subseteq Part /\ fanout' \subseteq Entry
         /\ pool' \in PoolType /\ manager' \in {"running", "terminated"}
<1> DEFINE parts == PartsOf(GlobalOf[req.trid], inv)
<1>1. parts \in SUBSET Part
  BY DEF PartsOf
<1>2. GlobalOf[req.trid] \in Gtrid
  BY DEF Request
<1>3. PICK phase \in {"commit", "prepare"}, one \in BOOLEAN :
        /\ stage' = [stage EXCEPT ![GlobalOf[req.trid]] = Advanced(@, phase)]
        /\ Send(JobsFor(phase, one, req, parts))
        /\ fanout' = fanout \cup {Fan(phase, req, parts, "read_only")}
  BY DEF StartCommit
<1>4. stage' \in [Gtrid -> Stage]
  BY <1>3, <1>2, StringsOfPhases, AdvancedType DEF TypeOK
<1>5. JobsFor(phase, one, req, parts) \in SUBSET Job
  BY <1>1, StringsOfPhases, JobsForType
<1>6. Fan(phase, req, parts, "read_only") \in Entry
  BY <1>1, StringsOfPhases, FanType
<1>7. branches' = br /\ involved' = inv
  BY DEF StartCommit
<1>8. QED
  BY <1>3, <1>4, <1>5, <1>6, <1>7, SendType DEF TypeOK

(* remove::transaction keeps the types of what it changes.                 *)
LEMMA RemovedType ==
  ASSUME TypeOK, NEW g \in Gtrid, Removed(g)
  PROVE  /\ stage' \in [Gtrid -> Stage] /\ branches' \subseteq Xid
         /\ involved' \subseteq Part
  BY StringsOfPhases DEF Removed, TypeOK

(* A resource answers with a code and is then in one of its states.        *)
LEMMA AnswersType ==
  \A j \in Job, s \in RmState : RmAnswers(j, s) \subseteq Code \X RmState
<1> SUFFICES ASSUME NEW j \in Job, NEW s \in RmState
             PROVE  RmAnswers(j, s) \subseteq Code \X RmState
  OBVIOUS
<1> DEFINE A == Code \X RmState
<1>1. {"ok", "read_only", "protocol", "invalid_xid"} \subseteq Code
  BY DEF Code, Severity
<1>2. Refusing(s) \subseteq A
  BY DEF Refusing, RmState
<1>3. Failing(s) \subseteq A
  <2>1. \A c : (CASE c = "heuristic_commit" -> "committed"
                  [] c = "heuristic_rollback" -> "rolledback"
                  [] OTHER -> s) \in RmState
    BY Zenon DEF RmState
  <2>2. QED
    BY <2>1 DEF Failing
<1>4. PrepareAnswers(s) \subseteq A
  <2>1. {<<"ok", "prepared">>, <<"read_only", "readonly">>} \cup Refusing(s) \subseteq A
    BY <1>1, <1>2 DEF RmState
  <2>2. {<<"read_only", s>>} \subseteq A /\ {<<"invalid_xid", s>>} \subseteq A
    BY <1>1
  <2> HIDE DEF A
  <2>3. QED
    BY <2>1, <2>2, Zenon DEF PrepareAnswers
<1>5. CommitAnswers(s, j.onephase) \subseteq A
  <2>1. /\ {<<"ok", "committed">>} \cup Refusing(s) \subseteq A
        /\ {<<"ok", "committed">>} \cup Failing(s) \subseteq A
    BY <1>1, <1>2, <1>3 DEF RmState
  <2>2. {<<"protocol", s>>} \subseteq A /\ {<<"invalid_xid", s>>} \subseteq A
    BY <1>1
  <2> HIDE DEF A
  <2>3. QED
    BY <2>1, <2>2, Zenon DEF CommitAnswers
<1>6. RollbackAnswers(s) \subseteq A
  BY <1>1, <1>3 DEF RollbackAnswers, RmState
<1> HIDE DEF A
<1>7. QED
  <2>1. j.phase = "prepare" \/ j.phase = "commit" \/ j.phase = "rollback"
    BY DEF Job, Phase
  <2>2. RmAnswers(j, s) \subseteq A
    BY <2>1, <1>4, <1>5, <1>6, Zenon DEF RmAnswers
  <2>3. QED
    BY <2>2 DEF A

(* A resource that works keeps the types of what it changes.               *)
LEMMA WorksType ==
  ASSUME TypeOK, NEW j \in Job, NEW from \in Instance \cup {Nobody}, Works(j, from)
  PROVE  /\ rm' \in [Part -> RmState] /\ replies' \subseteq Reply
         /\ ballot' \subseteq [req : Request, part : Part, code : Code]
<1>1. PICK a \in RmAnswers(j, rm[j.part]) :
        /\ rm' = [rm EXCEPT ![j.part] = a[2]]
        /\ replies' = replies \cup {[job |-> j, code |-> a[1], from |-> from]}
        /\ ballot' = IF j.phase = "prepare"
             THEN ballot \cup {[req |-> j.req, part |-> j.part, code |-> a[1]]}
             ELSE ballot
  BY DEF Works
<1>2. j.part \in Part /\ j.req \in Request
  BY DEF Job
<1>3. a[1] \in Code /\ a[2] \in RmState
  BY <1>1, <1>2, AnswersType DEF TypeOK
<1>4. QED
  BY <1>1, <1>2, <1>3 DEF TypeOK, Reply

(* The most severe of the codes and the base is a code.                    *)
LEMMA OutcomeType ==
  ASSUME NEW e \in Entry, NEW votes \in SUBSET (Part \X Code)
  PROVE  Outcome(e, votes) \in Code
<1> DEFINE S == {v[2] : v \in votes} \cup {e.base}
<1>1. S \in SUBSET Code /\ S # {}
  BY DEF Entry
<1>2. QED
  BY <1>1, WorstIsWorst DEF Outcome

(* A received reply leaves an entry of fan::Out.                           *)
LEMMA ReceivedType ==
  ASSUME NEW e \in Entry, NEW m \in Reply
  PROVE  Received(e, m) \in Entry
  BY DEF Received, Entry, Reply, Job

(* The callback of coordinate::prepare keeps every type it can disturb.    *)
LEMMA PreparedType ==
  ASSUME TypeOK, NEW old \in fanout, NEW e \in Entry, NEW p \in PoolType,
         Prepared(old, e, p)
  PROVE  /\ stage' \in [Gtrid -> Stage] /\ branches' \subseteq Xid
         /\ involved' \subseteq Part /\ fanout' \subseteq Entry
         /\ pool' \in PoolType /\ manager' \in {"running", "terminated"}
         /\ held' \subseteq Request /\ logged' \subseteq Xid /\ durable' \subseteq Xid
         /\ answers' \in [Request -> Seq(Answer)]
<1> DEFINE g == GlobalOf[e.req.trid]
           active == {v \in e.got : v[2] # "read_only"}
           parts == {v[1] : v \in active}
           kept == PurgedInvolved(g, involved, {v[1][2] : v \in e.got \ active})
           left == Purged(g, branches, kept)
           code == Outcome(e, active)
           next(phase) ==
             /\ involved' = kept
             /\ branches' = left
             /\ \E q \in Sent(p, JobsFor(phase, FALSE, e.req, parts)) :
                  /\ pool' = q
                  /\ manager' = AfterSend(p, q)
             /\ fanout' = (fanout \ {old}) \cup {Fan(phase, e.req, parts, code)}
             /\ UNCHANGED stage
<1>1. e.req \in Request /\ g \in Gtrid /\ e.got \in SUBSET (Part \X Code)
  BY DEF Entry, Request
<1>2. code \in Code
  BY <1>1, OutcomeType
<1>3. parts \in SUBSET Part
  BY <1>1
<1>4. kept \subseteq Part /\ left \subseteq Xid
  BY DEF PurgedInvolved, Purged, TypeOK
<1>5. ASSUME NEW phase \in Phase, next(phase)
      PROVE  /\ stage' \in [Gtrid -> Stage] /\ branches' \subseteq Xid
             /\ involved' \subseteq Part /\ fanout' \subseteq Entry
             /\ pool' \in PoolType /\ manager' \in {"running", "terminated"}
  <2>1. JobsFor(phase, FALSE, e.req, parts) \in SUBSET Job
    BY <1>1, <1>3, JobsForType
  <2>2. Fan(phase, e.req, parts, code) \in Entry
    BY <1>1, <1>2, <1>3, FanType
  <2> HIDE DEF parts, kept, left, code
  <2>3. pool' \in PoolType /\ manager' \in {"running", "terminated"}
    BY <1>5, <2>1, SentType DEF AfterSend
  <2>4. QED
    BY <1>5, <1>4, <2>2, <2>3 DEF TypeOK
<1>6. CASE /\ code = "read_only"
           /\ Removed(g)
           /\ answers' = Answered(e.req, "commit", Concluded(e.req, code))
           /\ fanout' = fanout \ {old}
           /\ pool' = p
           /\ UNCHANGED <<manager, logVars>>
  <2>1. answers' \in [Request -> Seq(Answer)]
    BY <1>6, <1>1, <1>2, ConcludedType, AnsweredType, StringsOfPhases DEF TypeOK
  <2> HIDE DEF code
  <2>2. QED
    BY <1>6, <1>1, <2>1, RemovedType DEF TypeOK, logVars
<1>7. CASE /\ code = "ok"
           /\ next("commit")
           /\ LET rows == logged \cup BranchesOf(g, left)
                  batch == held \cup {e.req}
              IN /\ logged' = rows
                 /\ \/ UNCHANGED <<held, durable, answers>>
                    \/ held' = batch /\ UNCHANGED <<durable, answers>>
                    \/ /\ held' = {} /\ durable' = rows
                       /\ answers' = Released(answers, batch)
  <2>1. logged \cup BranchesOf(g, left) \subseteq Xid
    BY <1>4 DEF BranchesOf, TypeOK
  <2>2. held \cup {e.req} \subseteq Request
    BY <1>1 DEF TypeOK
  <2>3. Released(answers, held \cup {e.req}) \in [Request -> Seq(Answer)]
    BY ReleasedType DEF TypeOK
  <2>4. next("commit")
    BY <1>7
  <2> HIDE DEF next, left, code
  <2>5. QED
    BY <1>5, <1>7, <2>1, <2>2, <2>3, <2>4, StringsOfPhases DEF TypeOK
<1>8. CASE next("rollback") /\ UNCHANGED <<answers, logVars>>
  <2>1. next("rollback")
    BY <1>8
  <2> HIDE DEF next
  <2>2. QED
    BY <1>5, <1>8, <2>1, StringsOfPhases DEF TypeOK, logVars
<1>9. QED
  BY <1>6, <1>7, <1>8 DEF Prepared

(* The initial state is well typed.                                        *)
LEMMA TypeInit == Init => TypeOK
<1> SUFFICES ASSUME Init PROVE TypeOK
  OBVIOUS
<1>1. pool \in PoolType
  BY DEF Init, PoolType, ProxyState
<1>2. stage \in [Gtrid -> Stage] /\ rm \in [Part -> RmState]
  BY DEF Init, Stage, RmState
<1>3. answers \in [Request -> Seq(Answer)]
  BY DEF Init
<1>4. QED
  BY <1>1, <1>2, <1>3 DEF Init, TypeOK

(* The handlers of requests keep the types.                                *)
LEMMA TypeClient == TypeOK /\ ClientNext => TypeOK'
<1> SUFFICES ASSUME TypeOK, ClientNext PROVE TypeOK'
  OBVIOUS
<1> USE DEF logVars, clientVars, proxyVars, transVars, resourceVars
<1>1. ASSUME NEW x \in Xid, NEW S \in SUBSET Resource,
             AddInvolved(x, S), rm' = Worked(x, S),
             UNCHANGED <<manager, fanout, pool, logVars, clientVars, replies,
                         ballot, proxyVars>>
      PROVE  TypeOK'
  BY <1>1, InvolveType, WorkedType DEF TypeOK
<1>2. ASSUME NEW x \in Xid, NEW S \in SUBSET Rm, Involve(x, S) PROVE TypeOK'
  BY <1>2, <1>1 DEF Involve, Resource
<1>3. ASSUME NEW x \in Xid, NEW r \in ExternalRm, ExternalInvolve(x, r)
      PROVE TypeOK'
  BY <1>3, <1>1 DEF ExternalInvolve, Resource
<1>4. ASSUME NEW x \in Xid, NEW S \in SUBSET Rm, TxCommit(x, S) PROVE TypeOK'
  <2> DEFINE g == GlobalOf[x]
             req == [kind |-> "tx_commit", trid |-> x]
             inv == involved \cup ({x} \X S)
             br == Purged(g, branches \cup {x}, inv)
  <2>1. req \in Request /\ g \in Gtrid /\ inv \in SUBSET Part /\ br \in SUBSET Xid
    BY DEF Request, TxKind, Purged, TypeOK, Part, Resource
  <2>2. issued' \subseteq Request /\ rm' \in [Part -> RmState]
    BY <1>4, <2>1, WorkedType DEF TxCommit, TypeOK
  <2>3. UNCHANGED <<logVars, gone, replies, ballot, proxyVars>>
    BY <1>4 DEF TxCommit
  <2>4. CASE /\ answers' = Answered(req, "commit", "protocol")
             /\ branches' = br /\ involved' = inv
             /\ UNCHANGED <<manager, stage, fanout, pool>>
    <3>1. answers' \in [Request -> Seq(Answer)]
      BY <2>1, <2>4, AnsweredType, StringsOfPhases DEF TypeOK
    <3> HIDE DEF req, inv, br
    <3>2. QED
      BY <2>1, <2>2, <2>3, <2>4, <3>1 DEF TypeOK
  <2>5. CASE /\ answers' = Answered(req, "commit", "ok")
             /\ Removed(g)
             /\ UNCHANGED <<manager, fanout, pool>>
    <3>1. answers' \in [Request -> Seq(Answer)]
      BY <2>1, <2>5, AnsweredType, StringsOfPhases DEF TypeOK
    <3> HIDE DEF req, inv, br
    <3>2. QED
      BY <2>1, <2>2, <2>3, <2>5, <3>1, RemovedType DEF TypeOK
  <2>6. CASE StartCommit(req, inv, br)
    <3> HIDE DEF req, inv, br
    <3>1. UNCHANGED answers
      BY <2>6 DEF StartCommit
    <3>2. QED
      BY <2>1, <2>2, <2>3, <2>6, <3>1, StartCommitType DEF TypeOK
  <2>7. QED
    BY <1>4, <2>4, <2>5, <2>6 DEF TxCommit
<1>5. ASSUME NEW x \in Xid, NEW S \in SUBSET Rm, TxRollback(x, S) PROVE TypeOK'
  <2> DEFINE g == GlobalOf[x]
             req == [kind |-> "tx_rollback", trid |-> x]
             inv == involved \cup ({x} \X S)
             parts == PartsOf(g, inv)
             br == Purged(g, branches \cup {x}, inv)
  <2>1. /\ req \in Request /\ g \in Gtrid /\ inv \in SUBSET Part
        /\ parts \in SUBSET Part /\ br \in SUBSET Xid
    BY DEF Request, TxKind, Purged, TypeOK, Part, Resource, PartsOf
  <2>2. issued' \subseteq Request /\ rm' \in [Part -> RmState]
    BY <1>5, <2>1, WorkedType DEF TxRollback, TypeOK
  <2>3. UNCHANGED <<held, durable, gone, replies, ballot, proxyVars>>
    BY <1>5 DEF TxRollback
  <2>4. CASE /\ answers' = Answered(req, "rollback", Concluded(req, "read_only"))
             /\ Removed(g)
             /\ logged' = Unlogged(g, logged)
             /\ UNCHANGED <<manager, fanout, pool>>
    <3>1. answers' \in [Request -> Seq(Answer)]
      BY <2>1, <2>4, ConcludedType, AnsweredType, StringsOfPhases DEF TypeOK
    <3>2. logged' \subseteq Xid
      BY <2>4 DEF Unlogged, TypeOK
    <3> HIDE DEF req, inv, br, parts
    <3>3. QED
      BY <2>1, <2>2, <2>3, <2>4, <3>1, <3>2, RemovedType DEF TypeOK
  <2>5. CASE /\ stage' = [stage EXCEPT ![g] = Advanced(@, "rollback")]
             /\ branches' = br
             /\ involved' = inv
             /\ Send(JobsFor("rollback", FALSE, req, parts))
             /\ fanout' = fanout \cup {Fan("rollback", req, parts, "read_only")}
             /\ UNCHANGED <<answers, logged>>
    <3> HIDE DEF req, inv, br, parts
    <3>1. stage' \in [Gtrid -> Stage]
      BY <2>1, <2>5, AdvancedType, StringsOfPhases DEF TypeOK
    <3>2. Fan("rollback", req, parts, "read_only") \in Entry
      BY <2>1, FanType, StringsOfPhases
    <3>3. pool' \in PoolType /\ manager' \in {"running", "terminated"}
      BY <2>1, <2>5, JobsForType, SendType, StringsOfPhases
    <3>4. QED
      BY <2>1, <2>2, <2>3, <2>5, <3>1, <3>2, <3>3 DEF TypeOK
  <2>6. QED
    BY <1>5, <2>4, <2>5 DEF TxRollback
<1>6. ASSUME NEW req \in Request, XaCommit(req) PROVE TypeOK'
  <2> DEFINE g == GlobalOf[req.trid]
  <2>1. g \in Gtrid
    BY DEF Request
  <2>2. issued' \subseteq Request /\ UNCHANGED <<logVars, gone, resourceVars, proxyVars>>
    BY <1>6 DEF XaCommit, TypeOK
  <2>3. CASE AnswerReadOnly(req, "commit")
    <3>1. answers' \in [Request -> Seq(Answer)]
      BY <2>3, AnsweredType, StringsOfPhases DEF AnswerReadOnly, TypeOK
    <3>2. QED
      BY <2>2, <2>3, <3>1 DEF AnswerReadOnly, TypeOK
  <2>4. CASE /\ answers' = Answered(req, "commit", "read_only")
             /\ Removed(g)
             /\ UNCHANGED <<manager, fanout, pool>>
    <3>1. answers' \in [Request -> Seq(Answer)]
      BY <2>4, AnsweredType, StringsOfPhases DEF TypeOK
    <3>2. QED
      BY <2>1, <2>2, <2>4, <3>1, RemovedType DEF TypeOK
  <2>5. CASE StartCommit(req, involved, branches)
    <3>1. UNCHANGED answers
      BY <2>5 DEF StartCommit
    <3>2. involved \in SUBSET Part /\ branches \in SUBSET Xid
      BY DEF TypeOK
    <3>3. QED
      BY <2>2, <2>5, <3>1, <3>2, StartCommitType DEF TypeOK
  <2>6. QED
    BY <1>6, <2>3, <2>4, <2>5 DEF XaCommit
<1>7. ASSUME NEW req \in Request, XaRollback(req) PROVE TypeOK'
  <2> DEFINE g == GlobalOf[req.trid]
             parts == PartsOf(g, involved)
  <2>1. g \in Gtrid /\ parts \in SUBSET Part
    BY DEF Request, PartsOf, TypeOK
  <2>2. /\ issued' \subseteq Request
        /\ UNCHANGED <<held, durable, gone, resourceVars, proxyVars>>
    BY <1>7 DEF XaRollback, TypeOK
  <2>3. CASE AnswerReadOnly(req, "rollback") /\ UNCHANGED logged
    <3>1. answers' \in [Request -> Seq(Answer)]
      BY <2>3, AnsweredType, StringsOfPhases DEF AnswerReadOnly, TypeOK
    <3>2. QED
      BY <2>2, <2>3, <3>1 DEF AnswerReadOnly, TypeOK
  <2>4. CASE /\ answers' = Answered(req, "rollback", "read_only")
             /\ Removed(g)
             /\ logged' = Unlogged(g, logged)
             /\ UNCHANGED <<manager, fanout, pool>>
    <3>1. answers' \in [Request -> Seq(Answer)]
      BY <2>4, AnsweredType, StringsOfPhases DEF TypeOK
    <3>2. logged' \subseteq Xid
      BY <2>4 DEF Unlogged, TypeOK
    <3>3. QED
      BY <2>1, <2>2, <2>4, <3>1, <3>2, RemovedType DEF TypeOK
  <2>5. CASE /\ stage' = [stage EXCEPT ![g] = Advanced(@, "rollback")]
             /\ Send(JobsFor("rollback", FALSE, req, parts))
             /\ fanout' = fanout \cup {Fan("rollback", req, parts, "read_only")}
             /\ UNCHANGED <<branches, involved, answers, logged>>
    <3> HIDE DEF parts
    <3>1. stage' \in [Gtrid -> Stage]
      BY <2>1, <2>5, AdvancedType, StringsOfPhases DEF TypeOK
    <3>2. Fan("rollback", req, parts, "read_only") \in Entry
      BY <2>1, FanType, StringsOfPhases
    <3>3. pool' \in PoolType /\ manager' \in {"running", "terminated"}
      BY <2>1, <2>5, JobsForType, SendType, StringsOfPhases
    <3>4. QED
      BY <2>1, <2>2, <2>5, <3>1, <3>2, <3>3 DEF TypeOK
  <2>6. QED
    BY <1>7, <2>3, <2>4, <2>5 DEF XaRollback
<1>8. QED
  BY <1>2, <1>3, <1>4, <1>5, <1>6, <1>7 DEF ClientNext

(* instance::replied keeps the type of the pool.                           *)
LEMMA RepliedType ==
  ASSUME TypeOK, NEW m \in replies, NEW p \in Replied(pool, m)
  PROVE  p \in PoolType
  BY DoneType DEF Replied, TypeOK, Reply

(* prepare::reply keeps the types.                                         *)
LEMMA TypePrepareReply ==
  ASSUME TypeOK, NEW m \in replies, PrepareReply(m)
  PROVE  TypeOK'
<1> USE DEF logVars, proxyVars, transVars
<1>1. PICK e \in Awaiting(m), p \in Replied(pool, m) :
        \/ /\ fanout' = (fanout \ {e}) \cup {Received(e, m)}
           /\ pool' = p
           /\ UNCHANGED <<manager, transVars, logVars, answers>>
        \/ /\ manager' = "terminated"
           /\ pool' = p
           /\ UNCHANGED <<transVars, fanout, logVars, answers>>
        \/ Prepared(e, Received(e, m), p)
  BY DEF PrepareReply
<1>2. m \in Reply /\ e \in fanout /\ e \in Entry /\ p \in PoolType
  BY <1>1, RepliedType DEF TypeOK, Awaiting
<1>3. Received(e, m) \in Entry
  BY <1>2, ReceivedType
<1>4. replies' \subseteq Reply /\ UNCHANGED <<issued, gone, rm, ballot, proxyVars>>
  BY DEF PrepareReply, TypeOK
<1>5. CASE Prepared(e, Received(e, m), p)
  BY <1>2, <1>3, <1>4, <1>5, PreparedType DEF TypeOK
<1>6. CASE ~ Prepared(e, Received(e, m), p)
  BY <1>1, <1>2, <1>3, <1>4, <1>6 DEF TypeOK
<1>7. QED
  BY <1>5, <1>6

(* commit::reply and rollback::reply keep the types.                       *)
LEMMA TypeOutcomeReply ==
  ASSUME TypeOK, NEW m \in replies, OutcomeReply(m)
  PROVE  TypeOK'
<1> USE DEF logVars, proxyVars, transVars
<1>1. PICK e \in Awaiting(m), p \in Replied(pool, m) :
        LET e2 == Received(e, m)
            g == GlobalOf[e.req.trid]
        IN /\ pool' = p
           /\ \/ /\ fanout' = (fanout \ {e}) \cup {e2}
                 /\ UNCHANGED <<transVars, logged, answers>>
              \/ /\ answers' = Answered(e.req, e.phase,
                                        Concluded(e.req, Outcome(e2, e2.got)))
                 /\ Removed(g)
                 /\ logged' = Unlogged(g, logged)
                 /\ fanout' = fanout \ {e}
  BY DEF OutcomeReply
<1> DEFINE e2 == Received(e, m)
           g == GlobalOf[e.req.trid]
<1>2. m \in Reply /\ e \in fanout /\ e \in Entry /\ p \in PoolType
  BY <1>1, RepliedType DEF TypeOK, Awaiting
<1>3. e2 \in Entry
  BY <1>2, ReceivedType
<1>4. /\ replies' \subseteq Reply
      /\ UNCHANGED <<manager, held, durable, issued, gone, rm, ballot, proxyVars>>
  BY DEF OutcomeReply, TypeOK
<1>5. CASE fanout' = (fanout \ {e}) \cup {e2} /\ UNCHANGED <<transVars, logged, answers>>
  <2> HIDE DEF e2
  <2>1. QED
    BY <1>1, <1>2, <1>3, <1>4, <1>5 DEF TypeOK
<1>6. CASE /\ answers' = Answered(e.req, e.phase,
                                  Concluded(e.req, Outcome(e2, e2.got)))
           /\ Removed(g)
           /\ logged' = Unlogged(g, logged)
           /\ fanout' = fanout \ {e}
  <2>1. e.req \in Request /\ e.phase \in Phase /\ g \in Gtrid
    BY <1>2 DEF Entry, Request
  <2>2. Outcome(e2, e2.got) \in Code
    BY <1>3, OutcomeType DEF Entry
  <2> HIDE DEF e2, g
  <2>3. answers' \in [Request -> Seq(Answer)]
    BY <1>6, <2>1, <2>2, ConcludedType, AnsweredType DEF TypeOK
  <2>4. logged' \subseteq Xid
    BY <1>6 DEF Unlogged, TypeOK
  <2>5. QED
    BY <1>1, <1>2, <1>4, <1>6, <2>1, <2>3, <2>4, RemovedType DEF TypeOK
<1>7. QED
  BY <1>1, <1>5, <1>6

(* persist::send keeps the types.                                          *)
LEMMA TypePersist == TypeOK /\ Persist => TypeOK'
  BY ReleasedType DEF Persist, TypeOK, transVars, resourceVars, proxyVars

RollbackJobs(busy, req) ==
  UNION {JobsFor("rollback", FALSE, req[g], PartsOf(g, involved)) : g \in busy}
RollbackFans(busy, req) ==
  {Fan("rollback", req[g], PartsOf(g, involved), "read_only") : g \in busy}

(* The owner o is gone, the transactions in lost are rolled back for it,   *)
(* those in busy by asking their resources.                                *)
RollsBack(o, lost, busy, req) ==
  /\ \A g \in lost : /\ req[g].kind = "exit"
                    /\ GlobalOf[req[g].trid] = g /\ OwnerOf[req[g].trid] = o
  /\ stage' = [g \in Gtrid |->
                 IF g \in lost \ busy THEN "absent"
                 ELSE IF g \in busy THEN Advanced(stage[g], "rollback")
                 ELSE stage[g]]
  /\ branches' \subseteq branches /\ logged' \subseteq logged
  /\ Send(RollbackJobs(busy, req))
  /\ fanout' = fanout \cup RollbackFans(busy, req)
  /\ issued' = issued \cup {req[g] : g \in lost}

(* The death of an owner rolls back some transactions, each in the name of *)
(* one of the branches that the owner had in it.                           *)
LEMMA OwnerExitRolls ==
  ASSUME TypeOK, NEW o \in Process, OwnerExit(o)
  PROVE  \E lost \in SUBSET Gtrid : \E busy \in SUBSET lost, req \in [lost -> Request] :
           RollsBack(o, lost, busy, req)
<1> DEFINE owned(g) == {x \in BranchesOf(g, branches) : OwnerOf[x] = o}
           last(g) == CHOOSE x \in owned(g) : TRUE
           req(g) == [kind |-> "exit", trid |-> last(g)]
           parts(g) == PartsOf(g, involved)
<1>1. PICK lost \in SUBSET Gtrid :
        LET empty == {g \in lost : parts(g) = {}}
            busy == lost \ empty
        IN /\ \A g \in Gtrid :
                /\ g \in lost => owned(g) # {}
                /\ BranchesOf(g, branches) # {} /\ owned(g) = BranchesOf(g, branches)
                     => g \in lost
           /\ stage' = [g \in Gtrid |->
                          IF g \in empty THEN "absent"
                          ELSE IF g \in busy THEN Advanced(stage[g], "rollback")
                          ELSE stage[g]]
           /\ branches' = {x \in branches : GlobalOf[x] \in lost =>
                                              \E p \in involved : p[1] = x}
           /\ logged' = {x \in logged : GlobalOf[x] \notin empty}
           /\ Send(UNION {JobsFor("rollback", FALSE, req(g), parts(g)) : g \in busy})
           /\ fanout' = fanout \cup {Fan("rollback", req(g), parts(g), "read_only")
                                     : g \in busy}
           /\ issued' = issued \cup {req(g) : g \in lost}
  BY Zenon DEF OwnerExit
<1> DEFINE busy == lost \ {g \in lost : parts(g) = {}}
           asked == [g \in lost |-> req(g)]
<1>2. \A g \in lost : last(g) \in Xid /\ GlobalOf[last(g)] = g /\ OwnerOf[last(g)] = o
  BY <1>1 DEF BranchesOf, TypeOK
<1>3. asked \in [lost -> Request]
  BY <1>2 DEF Request
<1>4. \A g \in lost : /\ asked[g] = req(g) /\ asked[g].kind = "exit"
                     /\ GlobalOf[asked[g].trid] = g /\ OwnerOf[asked[g].trid] = o
  BY <1>2
<1>5. lost \ busy = {g \in lost : parts(g) = {}} /\ busy \in SUBSET lost
  OBVIOUS
<1>6. /\ {req(g) : g \in lost} = {asked[g] : g \in lost}
      /\ UNION {JobsFor("rollback", FALSE, req(g), parts(g)) : g \in busy}
           = RollbackJobs(busy, asked)
      /\ {Fan("rollback", req(g), parts(g), "read_only") : g \in busy}
           = RollbackFans(busy, asked)
  BY <1>4 DEF RollbackJobs, RollbackFans
<1>7. branches' \subseteq branches /\ logged' \subseteq logged
  BY <1>1
<1>8. stage' = [g \in Gtrid |->
                 IF g \in lost \ busy THEN "absent"
                 ELSE IF g \in busy THEN Advanced(stage[g], "rollback")
                 ELSE stage[g]]
  <2> HIDE DEF req, owned, parts, asked
  <2>1. QED
    BY <1>1, <1>5
<1>9. RollsBack(o, lost, busy, asked)
  <2> HIDE DEF req, owned, asked
  <2>1. QED
    BY <1>1, <1>4, <1>6, <1>7, <1>8 DEF RollsBack
<1> HIDE DEF asked, busy
<1>10. QED
  BY <1>3, <1>5, <1>9

(* What is asked for in those rollbacks is well typed.                     *)
LEMMA RollbackType ==
  ASSUME TypeOK, NEW lost, NEW busy \in SUBSET lost, NEW req \in [lost -> Request]
  PROVE  RollbackJobs(busy, req) \in SUBSET Job /\ RollbackFans(busy, req) \subseteq Entry
<1>1. \A g : PartsOf(g, involved) \in SUBSET Part
  BY DEF PartsOf, TypeOK
<1>2. \A g \in busy : JobsFor("rollback", FALSE, req[g], PartsOf(g, involved)) \in SUBSET Job
  BY <1>1, JobsForType, StringsOfPhases
<1>3. \A g \in busy : Fan("rollback", req[g], PartsOf(g, involved), "read_only") \in Entry
  BY <1>1, FanType, StringsOfPhases
<1> DEFINE asked(g) == JobsFor("rollback", FALSE, req[g], PartsOf(g, involved))
<1>4. RollbackJobs(busy, req) \in SUBSET Job
  <2>1. \A g \in busy : asked(g) \in SUBSET Job
    BY <1>2
  <2>2. RollbackJobs(busy, req) = UNION {asked(g) : g \in busy}
    BY DEF RollbackJobs
  <2> HIDE DEF asked
  <2>3. QED
    BY <2>1, <2>2
<1>5. RollbackFans(busy, req) \subseteq Entry
  BY <1>3 DEF RollbackFans
<1>6. QED
  BY <1>4, <1>5

(* The death of an owner keeps the types.                                  *)
LEMMA TypeOwnerExit ==
  ASSUME TypeOK, NEW o \in Process, OwnerExit(o)
  PROVE  TypeOK'
<1>1. /\ gone' \subseteq Process
      /\ UNCHANGED <<involved, held, durable, answers, resourceVars, proxyVars>>
  BY DEF OwnerExit, TypeOK
<1>2. ASSUME NEW lost \in SUBSET Gtrid, NEW busy \in SUBSET lost,
             NEW req \in [lost -> Request], RollsBack(o, lost, busy, req)
      PROVE  TypeOK'
  <2>1. stage' \in [Gtrid -> Stage]
    BY <1>2, AdvancedType, StringsOfPhases DEF TypeOK, RollsBack
  <2>2. pool' \in PoolType /\ manager' \in {"running", "terminated"}
    BY <1>2, RollbackType, SendType DEF RollsBack
  <2>3. fanout' \subseteq Entry
    BY <1>2, RollbackType DEF TypeOK, RollsBack
  <2>4. issued' \subseteq Request /\ branches' \subseteq Xid /\ logged' \subseteq Xid
    BY <1>2 DEF TypeOK, RollsBack
  <2>5. QED
    BY <1>1, <2>1, <2>2, <2>3, <2>4 DEF TypeOK, resourceVars, proxyVars
<1>3. QED
  BY <1>2, OwnerExitRolls

(* Proxies, owners and resources keep the types.                           *)
LEMMA TypeProcess == TypeOK /\ ProcessNext => TypeOK'
<1> SUFFICES ASSUME TypeOK, ProcessNext PROVE TypeOK'
  OBVIOUS
<1> USE DEF logVars, clientVars, proxyVars, transVars, resourceVars
<1>1. ASSUME NEW i \in Instance, Ready(i) PROVE TypeOK'
  BY <1>1, DoneType DEF Ready, TypeOK
<1>2. ASSUME NEW i \in Instance, NEW v \in ProxyState
      PROVE  [pool EXCEPT !.state[i] = v] \in PoolType
  BY DEF TypeOK, PoolType
<1>3. ASSUME NEW i \in Instance, ScaleOut(i) PROVE TypeOK'
  BY <1>2, <1>3 DEF ScaleOut, TypeOK, ProxyState
<1>4. ASSUME NEW i \in Instance, ScaleIn(i) PROVE TypeOK'
  BY <1>2, <1>4 DEF ScaleIn, TypeOK, ProxyState
<1>5. ASSUME NEW i \in Instance, ProxyExit(i) PROVE TypeOK'
  BY <1>2, <1>5 DEF ProxyExit, TypeOK, ProxyState
<1>6. ASSUME NEW i \in Instance, ProxyStart(i) PROVE TypeOK'
  BY <1>6 DEF ProxyStart, TypeOK
<1>7. ASSUME NEW i \in Instance, ProxyWork(i) PROVE TypeOK'
  <2>1. PICK j \in pool.inbox[i] :
          /\ pool' = [pool EXCEPT !.inbox[i] = @ \ {j}]
          /\ Works(j, i)
    BY <1>7 DEF ProxyWork
  <2>2. j \in Job /\ [pool EXCEPT !.inbox[i] = @ \ {j}] \in PoolType
    BY DEF TypeOK, PoolType
  <2>3. QED
    BY <1>7, <2>1, <2>2, WorksType DEF ProxyWork, TypeOK
<1>8. ASSUME NEW i \in Instance, ProxyShutdown(i) PROVE TypeOK'
  BY <1>8 DEF ProxyShutdown, TypeOK
<1>9. ASSUME NEW i \in Instance, ProxyCrash(i) PROVE TypeOK'
  BY <1>9 DEF ProxyCrash, TypeOK
<1>10. ASSUME NEW j \in pool.external, ExternalWork(j) PROVE TypeOK'
  <2>1. j \in Job /\ [pool EXCEPT !.external = @ \ {j}] \in PoolType
    BY DEF TypeOK, PoolType
  <2>2. QED
    BY <1>10, <2>1, WorksType DEF ExternalWork, TypeOK
<1>11. QED
  BY TypeOwnerExit, <1>1, <1>3, <1>4, <1>5, <1>6, <1>7, <1>8, <1>9, <1>10
     DEF ProcessNext

(* Every step keeps the types.                                             *)
LEMMA TypeStep == TypeOK /\ [Next]_vars => TypeOK'
<1> SUFFICES ASSUME TypeOK, [Next]_vars PROVE TypeOK'
  OBVIOUS
<1>1. CASE ReplyNext
  BY <1>1, TypePrepareReply, TypeOutcomeReply DEF ReplyNext
<1>2. CASE UNCHANGED vars
  BY <1>2 DEF vars, logVars, clientVars, proxyVars, transVars, resourceVars, TypeOK
<1>3. QED
  BY <1>1, <1>2, TypeClient, TypePersist, TypeProcess DEF Next

(* Type correctness. *)
THEOREM TypeCorrect == Spec => []TypeOK
  BY TypeInit, TypeStep, PTL DEF Spec
-----------------------------------------------------------------------------
(* The pool of resource proxies: no wakeup is lost, and no request is in   *)
(* two places at a time (Unique). The lemmas say what each operation of    *)
(* the pool does to the set of requests in it.                             *)

Woken(p) == \A i \in up : p.state[i] = "idle" => p.queue[RmOf[i]] = <<>>

(* send::resource::request leaves a request waiting only when State::idle  *)
(* finds no proxy of its resource, so no idle proxy is passed over.        *)
LEMMA SentWoken ==
  ASSUME up \subseteq Instance, NEW p \in PoolType, Woken(p),
         NEW jobs \in SUBSET Job, NEW q \in Sent(p, jobs)
  PROVE  Woken(q)
<1>1. PICK to \in Placements(p, jobs) : q = Placed(p, jobs, to)
  BY DEF Sent
<1> DEFINE for(i) == {j \in DOMAIN to : to[j] = i}
           waits(r) == {j \in DOMAIN to : to[j] = Nobody /\ j.part[2] = r}
<1>2. \A i \in Instance :
        /\ q.state[i] = IF for(i) # {} THEN "busy" ELSE p.state[i]
        /\ q.queue[RmOf[i]] = IF waits(RmOf[i]) # {}
                              THEN Append(p.queue[RmOf[i]], waits(RmOf[i]))
                              ELSE p.queue[RmOf[i]]
  BY <1>1 DEF Placed
<1> SUFFICES ASSUME NEW i \in up, q.state[i] = "idle"
             PROVE  q.queue[RmOf[i]] = <<>>
  BY DEF Woken
<1>3. for(i) = {} /\ i \in IdleIn(p)
  BY <1>2 DEF IdleIn
<1>4. waits(RmOf[i]) = {}
  BY <1>1, <1>3 DEF Placements
<1>5. QED
  BY <1>2, <1>3, <1>4 DEF Woken, IdleIn

(* instance::done frees a proxy only when nothing waits for its resource.  *)
LEMMA DoneWoken ==
  ASSUME up \subseteq Instance, NEW p \in PoolType, Woken(p),
         NEW i \in Instance, NEW q \in Done(p, i)
  PROVE  Woken(q)
<1> DEFINE w == p.queue[RmOf[i]]
<1>1. CASE w = <<>> \/ i \notin up
  <2>1. q = [p EXCEPT !.state[i] = Settled(@, "idle")]
    BY <1>1 DEF Done
  <2>2. \A k \in Instance \ {i} : q.state[k] = p.state[k]
    BY <2>1 DEF PoolType
  <2>3. q.queue = p.queue
    BY <2>1 DEF PoolType
  <2>4. QED
    BY <1>1, <2>2, <2>3 DEF Woken
<1>2. CASE w # <<>> /\ i \in up
  <2>1. PICK j \in Head(w) :
          q = [p EXCEPT !.state[i] = Settled(@, "busy"),
                        !.inbox[i] = IF i \in closing THEN @ ELSE @ \cup {j},
                        !.queue[RmOf[i]] = Without(@, j)]
    BY <1>2 DEF Done
  <2>2. \A k \in Instance \ {i} : q.state[k] = p.state[k]
    BY <2>1 DEF PoolType
  <2>3. q.state[i] # "idle"
    BY <2>1 DEF PoolType, Settled
  <2>4. \A k \in Instance : RmOf[k] # RmOf[i] => q.queue[RmOf[k]] = p.queue[RmOf[k]]
    BY <2>1 DEF PoolType
  <2> SUFFICES ASSUME NEW k \in up, q.state[k] = "idle"
               PROVE  q.queue[RmOf[k]] = <<>>
    BY DEF Woken
  <2>5. RmOf[k] # RmOf[i]
    BY <1>2, <2>2, <2>3 DEF Woken
  <2>6. QED
    BY <2>2, <2>3, <2>4, <2>5 DEF Woken
<1>3. QED
  BY <1>1, <1>2

(* A request to the manager makes it send one set of requests or nothing,  *)
(* and touches neither the proxies nor the replies on their way.           *)
LEMMA ClientSends ==
  ASSUME TypeOK, ClientNext
  PROVE  /\ pool' = pool \/ \E jobs \in SUBSET Job : Send(jobs)
         /\ UNCHANGED <<replies, announced, up, closing>>
<1> USE DEF proxyVars, resourceVars
<1> DEFINE quiet == UNCHANGED <<replies, announced, up, closing>>
           sends == pool' = pool \/ \E jobs \in SUBSET Job : Send(jobs)
<1>1. ASSUME NEW req \in Request, NEW inv \in SUBSET Part, NEW br,
             StartCommit(req, inv, br)
      PROVE  sends
  <2>1. PICK phase \in {"commit", "prepare"}, one \in BOOLEAN :
          Send(JobsFor(phase, one, req, PartsOf(GlobalOf[req.trid], inv)))
    BY <1>1 DEF StartCommit
  <2>2. PartsOf(GlobalOf[req.trid], inv) \in SUBSET Part
    BY DEF PartsOf
  <2>3. QED
    BY <2>1, <2>2, JobsForType, StringsOfPhases
<1>2. ASSUME NEW req \in Request, NEW inv \in SUBSET Part,
             Send(JobsFor("rollback", FALSE, req, PartsOf(GlobalOf[req.trid], inv)))
      PROVE  sends
  <2>1. PartsOf(GlobalOf[req.trid], inv) \in SUBSET Part
    BY DEF PartsOf
  <2>2. QED
    BY <1>2, <2>1, JobsForType, StringsOfPhases
<1>3. \A x \in Xid, S \in SUBSET Rm, k \in TxKind :
        /\ involved \cup ({x} \X S) \in SUBSET Part
        /\ [kind |-> k, trid |-> x] \in Request
  BY DEF TypeOK, Part, Resource, Request
<1>4. ASSUME NEW x \in Xid, NEW S \in SUBSET Rm, TxCommit(x, S) PROVE sends /\ quiet
  <2>1. \/ pool' = pool
        \/ \E br : StartCommit([kind |-> "tx_commit", trid |-> x],
                                involved \cup ({x} \X S), br)
    BY <1>4 DEF TxCommit
  <2>2. quiet
    BY <1>4 DEF TxCommit
  <2>3. QED
    BY <1>1, <1>3, <2>1, <2>2 DEF TxKind
<1>5. ASSUME NEW x \in Xid, NEW S \in SUBSET Rm, TxRollback(x, S) PROVE sends /\ quiet
  <2> DEFINE req == [kind |-> "tx_rollback", trid |-> x]
             inv == involved \cup ({x} \X S)
  <2>1. req \in Request /\ inv \in SUBSET Part /\ req.trid = x
    BY <1>3 DEF TxKind
  <2>2. \/ pool' = pool
        \/ Send(JobsFor("rollback", FALSE, req, PartsOf(GlobalOf[x], inv)))
    BY <1>5 DEF TxRollback
  <2>3. quiet
    BY <1>5 DEF TxRollback
  <2> HIDE DEF req, inv
  <2>4. QED
    BY <1>2, <2>1, <2>2, <2>3
<1>6. ASSUME NEW req \in Request, XaCommit(req) PROVE sends /\ quiet
  <2>1. pool' = pool \/ StartCommit(req, involved, branches)
    BY <1>6 DEF XaCommit, AnswerReadOnly
  <2>2. quiet
    BY <1>6 DEF XaCommit
  <2>3. QED
    BY <1>1, <2>1, <2>2 DEF TypeOK
<1>7. ASSUME NEW req \in Request, XaRollback(req) PROVE sends /\ quiet
  <2>1. \/ pool' = pool
        \/ Send(JobsFor("rollback", FALSE, req,
                        PartsOf(GlobalOf[req.trid], involved)))
    BY <1>7 DEF XaRollback, AnswerReadOnly
  <2>2. quiet
    BY <1>7 DEF XaRollback
  <2>3. QED
    BY <1>2, <2>1, <2>2 DEF TypeOK
<1>8. ASSUME NEW x \in Xid, NEW S \in SUBSET Rm, Involve(x, S) PROVE sends /\ quiet
  BY <1>8 DEF Involve
<1>9. ASSUME NEW x \in Xid, NEW r \in ExternalRm, ExternalInvolve(x, r) PROVE sends /\ quiet
  BY <1>9 DEF ExternalInvolve
<1> HIDE DEF sends, quiet
<1>10. sends /\ quiet
  BY <1>4, <1>5, <1>6, <1>7, <1>8, <1>9 DEF ClientNext
<1>11. QED
  BY <1>10 DEF sends, quiet

(* Requests to the manager only place requests: no wakeup is lost.         *)
LEMMA WokenClient ==
  ASSUME TypeOK, NoLostWakeup, ClientNext
  PROVE  NoLostWakeup'
<1>1. up \subseteq Instance /\ pool \in PoolType /\ Woken(pool)
  BY DEF TypeOK, NoLostWakeup, Woken
<1>2. ASSUME NEW jobs \in SUBSET Job, Send(jobs) PROVE Woken(pool')
  BY <1>1, <1>2, SentWoken DEF Send
<1>3. Woken(pool') /\ up' = up
  BY <1>1, <1>2, ClientSends
<1>4. QED
  BY <1>3 DEF Woken, NoLostWakeup

(* After the votes the manager either sends one set of requests or         *)
(* nothing.                                                                *)
LEMMA PreparedSends ==
  ASSUME NEW old, NEW e \in Entry, NEW p, Prepared(old, e, p)
  PROVE  \/ pool' = p
         \/ \E jobs \in SUBSET Job : pool' \in Sent(p, jobs)
<1> DEFINE active == {v \in e.got : v[2] # "read_only"}
           parts == {v[1] : v \in active}
<1>1. e.req \in Request /\ parts \in SUBSET Part
  BY DEF Entry
<1>2. \/ pool' = p
      \/ \E phase \in {"commit", "rollback"} :
           pool' \in Sent(p, JobsFor(phase, FALSE, e.req, parts))
  BY DEF Prepared
<1> HIDE DEF parts
<1>3. QED
  BY <1>1, <1>2, JobsForType, StringsOfPhases

(* A reply frees its proxy through instance::done, and what follows is     *)
(* placed.                                                                 *)
LEMMA WokenReply ==
  ASSUME TypeOK, NoLostWakeup, NEW m \in replies, PrepareReply(m) \/ OutcomeReply(m)
  PROVE  NoLostWakeup'
<1>1. up' = up /\ up \subseteq Instance /\ pool \in PoolType /\ Woken(pool)
  BY DEF PrepareReply, OutcomeReply, proxyVars, TypeOK, NoLostWakeup, Woken
<1>2. PICK e \in Awaiting(m), p \in Replied(pool, m) :
        pool' = p \/ Prepared(e, Received(e, m), p)
  BY DEF PrepareReply, OutcomeReply
<1>3. p \in PoolType
  BY RepliedType
<1>4. Woken(p)
  BY <1>1, DoneWoken DEF Replied, TypeOK, Reply
<1>5. Received(e, m) \in Entry
  BY ReceivedType DEF Awaiting, TypeOK
<1>6. Woken(pool')
  <2>1. CASE pool' = p
    BY <1>4, <2>1
  <2>2. ASSUME NEW jobs \in SUBSET Job, pool' \in Sent(p, jobs) PROVE Woken(pool')
    BY <1>1, <1>3, <1>4, <2>2, SentWoken
  <2>3. QED
    BY <1>2, <1>5, <2>1, <2>2, PreparedSends
<1>7. QED
  BY <1>1, <1>6 DEF Woken, NoLostWakeup

(* No other handler makes a proxy idle behind the back of the queue.       *)
LEMMA WokenProcess ==
  ASSUME TypeOK, NoLostWakeup, ProcessNext
  PROVE  NoLostWakeup'
<1>1. up \subseteq Instance /\ pool \in PoolType /\ Woken(pool)
  BY DEF TypeOK, NoLostWakeup, Woken
<1>2. ASSUME NEW o \in Process, OwnerExit(o) PROVE NoLostWakeup'
  <2>1. \E jobs \in SUBSET Job : Send(jobs)
    BY <1>2, OwnerExitRolls, RollbackType DEF RollsBack
  <2>2. Woken(pool') /\ up' = up
    BY <1>1, <1>2, <2>1, SentWoken DEF Send, OwnerExit, proxyVars
  <2>3. QED
    BY <2>2 DEF Woken, NoLostWakeup
<1>3. ASSUME NEW i \in Instance, Ready(i) PROVE NoLostWakeup'
  BY <1>1, <1>3, DoneWoken DEF Ready, Woken, NoLostWakeup
<1>4. ASSUME NEW i \in Instance, ScaleOut(i) \/ ScaleIn(i) \/ ProxyExit(i)
      PROVE  NoLostWakeup'
  <2>1. PICK v \in ProxyState \ {"idle"} : pool' = [pool EXCEPT !.state[i] = v]
    BY <1>4 DEF ScaleOut, ScaleIn, ProxyExit, ProxyState
  <2>2. pool'.queue = pool.queue /\ \A k \in Instance : pool'.state[k] =
          IF k = i THEN v ELSE pool.state[k]
    BY <1>1, <2>1 DEF PoolType
  <2>3. up' \subseteq up \cup {i}
    BY <1>4 DEF ScaleOut, ScaleIn, ProxyExit, proxyVars
  <2>4. QED
    BY <1>1, <2>2, <2>3 DEF NoLostWakeup
<1>5. ASSUME NEW i \in Instance, ProxyStart(i) \/ ProxyShutdown(i) \/ ProxyCrash(i)
      PROVE  NoLostWakeup'
  BY <1>5 DEF ProxyStart, ProxyShutdown, ProxyCrash, NoLostWakeup
<1>6. ASSUME NEW i \in Instance, ProxyWork(i) PROVE NoLostWakeup'
  <2>1. pool'.queue = pool.queue /\ pool'.state = pool.state /\ up' = up
    BY <1>1, <1>6 DEF ProxyWork, PoolType, proxyVars
  <2>2. QED
    BY <2>1 DEF NoLostWakeup
<1>7. ASSUME NEW j \in pool.external, ExternalWork(j) PROVE NoLostWakeup'
  <2>1. pool'.queue = pool.queue /\ pool'.state = pool.state /\ up' = up
    BY <1>1, <1>7 DEF ExternalWork, PoolType, proxyVars
  <2>2. QED
    BY <2>1 DEF NoLostWakeup
<1>8. QED
  BY <1>2, <1>3, <1>4, <1>5, <1>6, <1>7 DEF ProcessNext

(* No request waits in pending.requests while a proxy of its resource that *)
(* runs is idle, whatever the scaling and the failures: the handlers that  *)
(* free a proxy (instance::done) and those that look for one (State::idle) *)
(* miss nothing.                                                           *)
THEOREM WakeupNeverLost == Spec => []NoLostWakeup
<1>1. Init => NoLostWakeup
  BY DEF Init, NoLostWakeup
<1>2. TypeOK /\ NoLostWakeup /\ [Next]_vars => NoLostWakeup'
  <2> SUFFICES ASSUME TypeOK, NoLostWakeup, [Next]_vars PROVE NoLostWakeup'
    OBVIOUS
  <2>1. CASE Persist
    BY <2>1 DEF Persist, proxyVars, NoLostWakeup
  <2>2. CASE UNCHANGED vars
    BY <2>2 DEF vars, proxyVars, NoLostWakeup
  <2>3. QED
    BY <2>1, <2>2, WokenClient, WokenReply, WokenProcess DEF Next, ReplyNext
<1>3. QED
  BY <1>1, <1>2, TypeCorrect, PTL DEF Spec
-----------------------------------------------------------------------------
(* What the manager believes of a proxy agrees with what the proxy has     *)
(* from it: nothing, one request, or the reply to one request. Of a proxy  *)
(* that has been asked to shut down it believes nothing.                   *)
Quiet(rs, i) == \A m \in rs : m.from # i
Answering(rs, i) == \E m \in rs : m.from = i /\ \A n \in rs : n.from = i => n = m

Fits(state, inbox, rs, i) ==
  \/ state \in {"absent", "started", "idle"} /\ inbox = {} /\ Quiet(rs, i)
  \/ state = "busy" /\ (\E j : inbox = {j}) /\ Quiet(rs, i)
  \/ state = "busy" /\ inbox = {} /\ Answering(rs, i)
  \/ state = "shutdown"

(* Only a proxy that has just started reports, and only one that has been  *)
(* shut down is closing.                                                   *)
Reported(state, an, i) ==
  /\ i \in an => state \in {"started", "shutdown"}
  /\ i \in closing => state = "shutdown"

Believes(p, rs, an) ==
  \A i \in Instance : i \in up \/ p.state[i] = "absent" =>
    Fits(p.state[i], p.inbox[i], rs, i) /\ Reported(p.state[i], an, i)

(* The inductive invariant.                                                *)
Believed == TypeOK /\ Believes(pool, replies, announced)

(* State::idle hands a proxy one request, and only if it is idle.          *)
LEMMA SentBelieved ==
  ASSUME up \subseteq Instance, NEW p \in PoolType, NEW rs, NEW an, Believes(p, rs, an),
         NEW jobs \in SUBSET Job, NEW q \in Sent(p, jobs)
  PROVE  Believes(q, rs, an)
<1>1. PICK to \in Placements(p, jobs) : q = Placed(p, jobs, to)
  BY DEF Sent
<1> SUFFICES ASSUME NEW i \in Instance, i \in up \/ q.state[i] = "absent"
             PROVE  Fits(q.state[i], q.inbox[i], rs, i) /\ Reported(q.state[i], an, i)
  BY DEF Believes
<1> DEFINE for == {j \in DOMAIN to : to[j] = i}
<1>2. /\ q.state[i] = IF for # {} THEN "busy" ELSE p.state[i]
      /\ q.inbox[i] = p.inbox[i] \cup for
  BY <1>1 DEF Placed
<1>3. ASSUME for # {} PROVE p.state[i] = "idle" /\ \E j : for = {j}
  <2>1. PICK j \in for : TRUE
    BY <1>3
  <2>2. to[j] # Nobody /\ to[j] = i /\ i \in IdleIn(p)
    BY <1>1 DEF Placements
  <2>3. \A k \in for : k = j
    BY <1>1, <2>2 DEF Placements
  <2>4. QED
    BY <2>1, <2>2, <2>3, SMTT(45) DEF IdleIn
<1> HIDE DEF for
<1>4. CASE for = {}
  BY <1>2, <1>4 DEF Believes
<1>5. CASE for # {}
  <2>1. p.state[i] = "idle" /\ q.state[i] = "busy" /\ \E j : for = {j}
    BY <1>2, <1>3, <1>5
  <2>2. p.inbox[i] = {} /\ Quiet(rs, i) /\ i \notin an /\ i \notin closing
    BY <2>1 DEF Believes, Fits, Reported
  <2>3. QED
    BY <1>2, <2>1, <2>2 DEF Fits, Reported
<1>6. QED
  BY <1>4, <1>5

(* instance::done of a proxy that has nothing left from the manager.       *)
LEMMA DoneBelieved ==
  ASSUME up \subseteq Instance, NEW p \in PoolType, NEW rs, NEW an, NEW i \in Instance,
         NEW q \in Done(p, i),
         \A k \in Instance \ {i} : k \in up \/ p.state[k] = "absent" =>
           Fits(p.state[k], p.inbox[k], rs, k) /\ Reported(p.state[k], an, k),
         i \in up => \/ p.state[i] = "shutdown"
                     \/ /\ p.state[i] \in {"started", "busy"} /\ p.inbox[i] = {}
                        /\ Quiet(rs, i) /\ i \notin an /\ i \notin closing
  PROVE  Believes(q, rs, an)
<1> DEFINE w == p.queue[RmOf[i]]
<1>1. CASE w = <<>> \/ i \notin up
  <2>1. q = [p EXCEPT !.state[i] = Settled(@, "idle")]
    BY <1>1 DEF Done
  <2>2. /\ q.state[i] = Settled(p.state[i], "idle") /\ q.inbox = p.inbox
        /\ \A k \in Instance \ {i} : q.state[k] = p.state[k]
    BY <2>1 DEF PoolType
  <2>3. i \in up => Fits(q.state[i], q.inbox[i], rs, i) /\ Reported(q.state[i], an, i)
    BY <2>2 DEF Fits, Reported, Settled
  <2>4. i \in up \/ q.state[i] # "absent"
    BY <2>2 DEF Settled
  <2>5. QED
    BY <2>2, <2>3, <2>4 DEF Believes
<1>2. CASE w # <<>> /\ i \in up
  <2>1. PICK j \in Head(w) :
          q = [p EXCEPT !.state[i] = Settled(@, "busy"),
                        !.inbox[i] = IF i \in closing THEN @ ELSE @ \cup {j},
                        !.queue[RmOf[i]] = Without(@, j)]
    BY <1>2 DEF Done
  <2>2. /\ q.state[i] = Settled(p.state[i], "busy")
        /\ i \notin closing => q.inbox[i] = p.inbox[i] \cup {j}
        /\ \A k \in Instance \ {i} : q.state[k] = p.state[k] /\ q.inbox[k] = p.inbox[k]
    BY <2>1 DEF PoolType
  <2>3. Fits(q.state[i], q.inbox[i], rs, i) /\ Reported(q.state[i], an, i)
    <3>1. CASE p.state[i] = "shutdown"
      BY <2>2, <3>1 DEF Fits, Reported, Settled
    <3>2. CASE /\ p.state[i] \in {"started", "busy"} /\ p.inbox[i] = {}
               /\ Quiet(rs, i) /\ i \notin an /\ i \notin closing
      <4>1. q.state[i] = "busy" /\ q.inbox[i] = {j}
        BY <2>2, <3>2 DEF Settled
      <4>2. QED
        BY <3>2, <4>1 DEF Fits, Reported
    <3>3. QED
      BY <1>2, <3>1, <3>2
  <2>4. QED
    BY <1>2, <2>2, <2>3 DEF Believes
<1>3. QED
  BY <1>1, <1>2

(* A handled reply frees its proxy; what the handler then sends is placed. *)
LEMMA ReplyBelieved ==
  ASSUME Believed, NEW m \in replies, PrepareReply(m) \/ OutcomeReply(m)
  PROVE  Believes(pool, replies, announced)'
<1>1. PICK rs : rs = replies \ {m}
  OBVIOUS
<1>2. /\ UNCHANGED <<up, announced, closing>> /\ up \subseteq Instance /\ pool \in PoolType
      /\ replies' = rs
  BY <1>1 DEF PrepareReply, OutcomeReply, proxyVars, Believed, TypeOK
<1>3. PICK e \in Awaiting(m), p \in Replied(pool, m) :
        pool' = p \/ Prepared(e, Received(e, m), p)
  BY DEF PrepareReply, OutcomeReply
<1>4. p \in PoolType /\ Received(e, m) \in Entry
  BY RepliedType, ReceivedType DEF Awaiting, Believed, TypeOK
<1>5. ASSUME NEW k \in Instance, k \in up \/ pool.state[k] = "absent", k # m.from
      PROVE  /\ Fits(pool.state[k], pool.inbox[k], rs, k)
             /\ Reported(pool.state[k], announced, k)
  <2>1. (Quiet(replies, k) => Quiet(rs, k)) /\ (Answering(replies, k) => Answering(rs, k))
    BY <1>1, <1>5 DEF Quiet, Answering
  <2>2. QED
    BY <1>5, <2>1 DEF Believed, Believes, Fits
<1>6. ASSUME m.from \in up
      PROVE  \/ pool.state[m.from] = "shutdown"
             \/ /\ pool.state[m.from] = "busy" /\ pool.inbox[m.from] = {}
                /\ Quiet(rs, m.from) /\ m.from \notin announced /\ m.from \notin closing
  <2>1. ~ Quiet(replies, m.from) /\ (Answering(replies, m.from) => Quiet(rs, m.from))
    BY <1>1 DEF Quiet, Answering
  <2>2. QED
    BY <1>2, <1>6, <2>1 DEF Believed, Believes, Fits, Reported
<1>7. Believes(p, rs, announced)
  <2>1. CASE m.from = Nobody
    <3>1. p = pool
      BY <2>1 DEF Replied
    <3>2. QED
      BY <1>2, <1>5, <2>1, <3>1 DEF Believes
  <2>2. CASE m.from \in Instance
    <3>1. PICK i \in Instance : i = m.from
      BY <2>2
    <3>2. p \in Done(pool, i)
      BY <2>2, <3>1 DEF Replied
    <3>3. QED
      BY <1>2, <1>5, <1>6, <3>1, <3>2, DoneBelieved
  <2>3. QED
    BY <2>1, <2>2 DEF Believed, TypeOK, Reply
<1>8. Believes(pool', rs, announced)
  BY <1>2, <1>3, <1>4, <1>7, PreparedSends, SentBelieved
<1>9. QED
  BY <1>2, <1>8 DEF Believes, Reported

(* A reply to nobody of the proxies or to another one changes nothing.     *)
LEMMA MoreReplies ==
  ASSUME NEW rs, NEW m, NEW k, m.from # k
  PROVE  /\ Quiet(rs, k) => Quiet(rs \cup {m}, k)
         /\ Answering(rs, k) => Answering(rs \cup {m}, k)
  BY DEF Quiet, Answering

(* Proxies that come, work and go.                                         *)
LEMMA ProcessBelieved ==
  ASSUME Believed, ProcessNext
  PROVE  Believes(pool, replies, announced)'
<1>1. up \subseteq Instance /\ pool \in PoolType /\ Believes(pool, replies, announced)
  BY DEF Believed, TypeOK
<1> USE DEF proxyVars, resourceVars
<1>2. ASSUME NEW o \in Process, OwnerExit(o) PROVE Believes(pool, replies, announced)'
  <2>1. \E jobs \in SUBSET Job : Send(jobs)
    BY <1>2, OwnerExitRolls, RollbackType DEF RollsBack, Believed
  <2>2. UNCHANGED <<up, replies, announced, closing>>
    BY <1>2 DEF OwnerExit
  <2>3. Believes(pool', replies, announced)
    BY <1>1, <2>1, SentBelieved DEF Send
  <2>4. QED
    BY <2>2, <2>3 DEF Believes, Reported
<1>3. ASSUME NEW i \in Instance, Ready(i) PROVE Believes(pool, replies, announced)'
  <2>1. PICK an : an = announced \ {i}
    OBVIOUS
  <2>2. /\ i \in announced /\ pool' \in Done(pool, i) /\ announced' = an
        /\ UNCHANGED <<up, replies, closing>>
    BY <1>3, <2>1 DEF Ready
  <2>3. \A k \in Instance \ {i} : k \in up \/ pool.state[k] = "absent" =>
          /\ Fits(pool.state[k], pool.inbox[k], replies, k)
          /\ Reported(pool.state[k], an, k)
    BY <1>1, <2>1 DEF Believes, Reported
  <2>4. i \in up => \/ pool.state[i] = "shutdown"
                    \/ /\ pool.state[i] = "started" /\ pool.inbox[i] = {}
                       /\ Quiet(replies, i) /\ i \notin an /\ i \notin closing
    BY <1>1, <2>1, <2>2 DEF Believes, Reported, Fits
  <2>5. Believes(pool', replies, an)
    BY <1>1, <2>2, <2>3, <2>4, DoneBelieved
  <2>6. QED
    BY <2>2, <2>5 DEF Believes, Reported
<1>4. ASSUME NEW i \in Instance, ScaleOut(i) \/ ScaleIn(i) \/ ProxyExit(i)
      PROVE  Believes(pool, replies, announced)'
  <2>1. PICK v : /\ pool' = [pool EXCEPT !.state[i] = v]
                 /\ \/ v = "started" /\ pool.state[i] = "absent" /\ UNCHANGED closing
                    \/ v = "shutdown"
                    \/ v = "removed" /\ i \notin up /\ UNCHANGED <<up, closing>>
                 /\ UNCHANGED <<replies, announced>>
                 /\ \A k \in Instance \ {i} : /\ k \in up' <=> k \in up
                                              /\ k \in closing' <=> k \in closing
    BY <1>4 DEF ScaleOut, ScaleIn, ProxyExit
  <2>2. /\ pool'.inbox = pool.inbox /\ pool'.state[i] = v
        /\ \A k \in Instance \ {i} : pool'.state[k] = pool.state[k]
    BY <1>1, <2>1 DEF PoolType
  <2>3. \A k \in Instance \ {i} : k \in up' \/ pool'.state[k] = "absent" =>
          /\ Fits(pool'.state[k], pool'.inbox[k], replies', k)
          /\ Reported(pool.state[k], announced, k)'
    BY <1>1, <2>1, <2>2 DEF Believes, Reported
  <2>4. CASE v = "started" /\ pool.state[i] = "absent" /\ UNCHANGED closing
    <3>1. Fits(pool'.state[i], pool'.inbox[i], replies', i) /\ Reported(pool.state[i], announced, i)'
      BY <1>1, <2>1, <2>2, <2>4 DEF Believes, Fits, Reported
    <3>2. QED
      BY <2>3, <3>1 DEF Believes
  <2>5. CASE v = "shutdown"
    <3>1. Fits(pool'.state[i], pool'.inbox[i], replies', i) /\ Reported(pool.state[i], announced, i)'
      BY <2>2, <2>5 DEF Fits, Reported
    <3>2. QED
      BY <2>3, <3>1 DEF Believes
  <2>6. CASE v = "removed" /\ i \notin up /\ UNCHANGED <<up, closing>>
    BY <2>2, <2>3, <2>6 DEF Believes
  <2>7. QED
    BY <2>1, <2>4, <2>5, <2>6
<1>5. ASSUME NEW i \in Instance, ProxyStart(i) PROVE Believes(pool, replies, announced)'
  BY <1>1, <1>5 DEF ProxyStart, Believes, Reported
<1>6. ASSUME NEW i \in Instance, ProxyShutdown(i) \/ ProxyCrash(i)
      PROVE  Believes(pool, replies, announced)'
  BY <1>1, <1>6 DEF ProxyShutdown, ProxyCrash, Believes, Reported
<1>7. ASSUME NEW i \in Instance, ProxyWork(i) PROVE Believes(pool, replies, announced)'
  <2>1. PICK j, m :
          /\ j \in pool.inbox[i] /\ pool' = [pool EXCEPT !.inbox[i] = @ \ {j}]
          /\ m.from = i /\ replies' = replies \cup {m}
          /\ i \in up /\ UNCHANGED <<up, announced, closing>>
    <3>1. PICK j \in pool.inbox[i] : pool' = [pool EXCEPT !.inbox[i] = @ \ {j}] /\ Works(j, i)
      BY <1>7 DEF ProxyWork
    <3>2. PICK m : m.from = i /\ replies' = replies \cup {m}
      BY <3>1 DEF Works
    <3>3. QED
      BY <1>7, <3>1, <3>2 DEF ProxyWork
  <2>2. /\ pool'.state = pool.state /\ pool'.inbox[i] = pool.inbox[i] \ {j}
        /\ \A k \in Instance \ {i} : pool'.inbox[k] = pool.inbox[k]
    BY <1>1, <2>1 DEF PoolType
  <2>3. \A k \in Instance \ {i} : k \in up \/ pool.state[k] = "absent" =>
          Fits(pool.state[k], pool.inbox[k], replies', k)
    BY <1>1, <2>1, MoreReplies DEF Believes, Fits
  <2>4. Fits(pool.state[i], pool.inbox[i] \ {j}, replies', i)
    <3>1. Quiet(replies, i) => Answering(replies', i)
      BY <2>1 DEF Quiet, Answering
    <3>2. Fits(pool.state[i], pool.inbox[i], replies, i)
      BY <1>1, <2>1 DEF Believes
    <3>3. CASE pool.state[i] = "shutdown"
      BY <3>3 DEF Fits
    <3>4. CASE pool.state[i] = "busy" /\ Quiet(replies, i) /\ \E k : pool.inbox[i] = {k}
      <4>1. pool.inbox[i] \ {j} = {}
        BY <2>1, <3>4
      <4>2. QED
        BY <3>1, <3>4, <4>1 DEF Fits
    <3>5. QED
      BY <2>1, <3>2, <3>3, <3>4 DEF Fits
  <2>5. QED
    BY <1>1, <2>1, <2>2, <2>3, <2>4 DEF Believes, Reported
<1>8. ASSUME NEW j \in pool.external, ExternalWork(j) PROVE Believes(pool, replies, announced)'
  <2>1. /\ pool' = [pool EXCEPT !.external = @ \ {j}]
        /\ \E m : m.from = Nobody /\ replies' = replies \cup {m}
        /\ UNCHANGED <<up, announced, closing>>
    BY <1>8 DEF ExternalWork, Works
  <2>2. pool'.state = pool.state /\ pool'.inbox = pool.inbox
    BY <1>1, <2>1 DEF PoolType
  <2>3. \A k \in Instance : /\ Quiet(replies, k) => Quiet(replies', k)
                            /\ Answering(replies, k) => Answering(replies', k)
    BY <2>1, MoreReplies
  <2>4. \A k \in Instance : \A s, b : Fits(s, b, replies, k) => Fits(s, b, replies', k)
    BY <2>3 DEF Fits
  <2>5. QED
    BY <1>1, <2>1, <2>2, <2>4 DEF Believes, Reported
<1>9. QED
  BY <1>2, <1>3, <1>4, <1>5, <1>6, <1>7, <1>8 DEF ProcessNext

(* It is inductive.                                                        *)
LEMMA BelievedNext == Believed /\ [Next]_vars => Believed'
<1> SUFFICES ASSUME Believed, [Next]_vars PROVE Believed'
  OBVIOUS
<1>1. TypeOK' /\ TypeOK /\ up \subseteq Instance /\ pool \in PoolType
  BY TypeStep DEF Believed, TypeOK
<1>2. CASE ClientNext
  <2>1. UNCHANGED <<replies, announced, up, closing>>
    BY <1>1, <1>2, ClientSends
  <2>2. Believes(pool', replies, announced)
    BY <1>1, <1>2, ClientSends, SentBelieved DEF Send, Believed
  <2>3. QED
    BY <1>1, <2>1, <2>2 DEF Believed, Believes, Reported
<1>3. CASE ReplyNext
  BY <1>1, <1>3, ReplyBelieved DEF ReplyNext, Believed
<1>4. CASE ProcessNext
  BY <1>1, <1>4, ProcessBelieved DEF Believed
<1>5. CASE Persist \/ UNCHANGED vars
  BY <1>1, <1>5 DEF Persist, vars, proxyVars, resourceVars, Believed, Believes, Reported
<1>6. QED
  BY <1>2, <1>3, <1>4, <1>5 DEF Next

(* A running proxy that the manager holds idle has nothing to do and sends *)
(* no reply, a busy one has one request or one reply: State::idle hands no *)
(* proxy two requests, and instance::done frees none that works.           *)
THEOREM ProxiesHaveOneJob == Spec => []OneJobPerProxy
<1>1. Init => Believed
  <2>1. Init => TypeOK
    BY TypeInit
  <2>2. Init => Believes(pool, replies, announced)
    BY DEF Init, Believes, Fits, Reported, Quiet
  <2>3. QED
    BY <2>1, <2>2 DEF Believed
<1>2. Believed => OneJobPerProxy
  <2> SUFFICES ASSUME Believed, NEW i \in up
               PROVE  LET sent == {m \in replies : m.from = i}
                          load == Cardinality(pool.inbox[i]) + Cardinality(sent)
                      IN /\ pool.state[i] = "idle" => load = 0
                         /\ pool.state[i] = "busy" => load = 1
    BY DEF OneJobPerProxy
  <2> DEFINE sent == {m \in replies : m.from = i}
  <2>1. /\ Quiet(replies, i) => sent = {}
        /\ Answering(replies, i) => \E m : sent = {m}
    BY DEF Quiet, Answering
  <2>2. Fits(pool.state[i], pool.inbox[i], replies, i)
    BY DEF Believed, Believes, TypeOK
  <2> HIDE DEF sent
  <2>3. /\ pool.state[i] = "idle" => pool.inbox[i] = {} /\ sent = {}
        /\ pool.state[i] = "busy" => \/ sent = {} /\ \E j : pool.inbox[i] = {j}
                                     \/ pool.inbox[i] = {} /\ \E m : sent = {m}
    BY <2>1, <2>2 DEF Fits
  <2>4. \A S : (S = {} => Cardinality(S) = 0) /\ ((\E x : S = {x}) => Cardinality(S) = 1)
    BY FS_EmptySet, FS_Singleton, Zenon
  <2>5. /\ pool.state[i] = "idle" => Cardinality(pool.inbox[i]) + Cardinality(sent) = 0
        /\ pool.state[i] = "busy" => Cardinality(pool.inbox[i]) + Cardinality(sent) = 1
    <3>1. PICK a, b : a = Cardinality(pool.inbox[i]) /\ b = Cardinality(sent)
      OBVIOUS
    <3>2. /\ pool.state[i] = "idle" => a = 0 /\ b = 0
          /\ pool.state[i] = "busy" => (a = 1 /\ b = 0) \/ (a = 0 /\ b = 1)
      BY <2>3, <2>4, <3>1
    <3>3. QED
      BY <3>1, <3>2
  <2>6. QED
    BY <2>5 DEF sent
<1>3. QED
  BY <1>1, <1>2, BelievedNext, PTL DEF Spec
-----------------------------------------------------------------------------
(* No request is in two places. *)
Unique(p) ==
  /\ \A j \in p.external : j.part[2] \notin Rm
  /\ \A i \in Instance : \A j \in p.inbox[i] :
       /\ j.part[2] = RmOf[i]
       /\ \A k \in Instance : j \in p.inbox[k] => k = i
  /\ \A r \in Rm : \A n \in DOMAIN p.queue[r] : \A j \in p.queue[r][n] :
       /\ j.part[2] = r
       /\ \A l \in DOMAIN p.queue[r] : j \in p.queue[r][l] => l = n
       /\ \A i \in Instance : j \notin p.inbox[i]

(* The places where a request can be.                                      *)
LEMMA InJobsIn ==
  ASSUME NEW p, NEW j
  PROVE  j \in JobsIn(p) <=>
           \/ j \in p.external
           \/ \E r \in Rm : \E n \in DOMAIN p.queue[r] : j \in p.queue[r][n]
           \/ \E i \in Instance : j \in p.inbox[i]
  BY DEF JobsIn, Queued

(* What Append does to the positions of a sequence.                        *)
LEMMA AppendShape ==
  ASSUME NEW S, NEW s \in Seq(S), NEW e \in S
  PROVE  /\ DOMAIN Append(s, e) = DOMAIN s \cup {Len(s) + 1}
         /\ Len(s) + 1 \notin DOMAIN s
         /\ Append(s, e)[Len(s) + 1] = e
         /\ \A n \in DOMAIN s : Append(s, e)[n] = s[n]
<1>1. /\ DOMAIN s = 1 .. Len(s) /\ Len(s) \in Nat
  BY LenProperties
<1>2. Append(s, e) \in Seq(S) /\ Len(Append(s, e)) = Len(s) + 1
  BY AppendProperties
<1>3. DOMAIN Append(s, e) = 1 .. Len(s) + 1
  BY <1>2, LenProperties
<1>4. QED
  BY <1>1, <1>3, AppendProperties

(* What putting an element in front does to the positions.                 *)
LEMMA ConsShape ==
  ASSUME NEW S, NEW a \in S, NEW t \in Seq(S)
  PROVE  /\ DOMAIN (<<a>> \o t) = 1 .. Len(t) + 1
         /\ (<<a>> \o t)[1] = a
         /\ \A n \in 1 .. Len(t) : (<<a>> \o t)[n + 1] = t[n]
<1>1. <<a>> \in Seq(S) /\ Len(<<a>>) = 1 /\ <<a>>[1] = a
  OBVIOUS
<1> DEFINE h == <<a>>
<1>2. h \in Seq(S) /\ Len(h) = 1 /\ h[1] = a
  BY <1>1
<1> HIDE DEF h
<1>3. /\ h \o t \in Seq(S) /\ Len(h \o t) = Len(h) + Len(t)
      /\ \A n \in 1 .. Len(h) + Len(t) : (h \o t)[n] =
            IF n <= Len(h) THEN h[n] ELSE t[n - Len(h)]
  <2>1. h \o t \in Seq(S) /\ Len(h \o t) = Len(h) + Len(t)
    BY <1>2, ConcatProperties
  <2>2. \A n \in 1 .. Len(h) + Len(t) : (h \o t)[n] =
            IF n <= Len(h) THEN h[n] ELSE t[n - Len(h)]
    BY <1>2, ConcatProperties
  <2>3. QED
    BY <2>1, <2>2
<1>4. Len(t) \in Nat /\ DOMAIN (h \o t) = 1 .. Len(h \o t)
  BY <1>3, LenProperties
<1>5. /\ DOMAIN (h \o t) = 1 .. Len(t) + 1
      /\ (h \o t)[1] = a
      /\ \A n \in 1 .. Len(t) : (h \o t)[n + 1] = t[n]
  BY <1>2, <1>3, <1>4
<1>6. QED
  BY <1>5 DEF h

(* What erasing a request from the oldest batch of pending.requests        *)
(* leaves: the batch goes with its last request, all others keep their     *)
(* order.                                                                  *)
LEMMA WithoutShape ==
  ASSUME NEW q \in Seq((SUBSET Job) \ {{}}), q # <<>>, NEW j \in Head(q)
  PROVE  /\ 1 \in DOMAIN q /\ Head(q) = q[1]
         /\ \/ /\ q[1] = {j}
               /\ \A n \in DOMAIN Without(q, j) :
                    n + 1 \in DOMAIN q /\ Without(q, j)[n] = q[n + 1]
               /\ \A n \in DOMAIN q \ {1} :
                    n - 1 \in DOMAIN Without(q, j) /\ Without(q, j)[n - 1] = q[n]
            \/ /\ DOMAIN Without(q, j) = DOMAIN q
               /\ \A n \in DOMAIN q \ {1} : Without(q, j)[n] = q[n]
               /\ Without(q, j)[1] = q[1] \ {j}
<1> DEFINE S == (SUBSET Job) \ {{}}
<1>1. /\ Len(q) \in Nat \ {0} /\ DOMAIN q = 1 .. Len(q)
  BY EmptySeq, LenProperties
<1>2. Head(q) = q[1] /\ Head(q) \in S /\ Tail(q) \in Seq(S)
  BY HeadTailProperties
<1>3. /\ Len(Tail(q)) = Len(q) - 1
      /\ DOMAIN Tail(q) = 1 .. Len(q) - 1
      /\ \A n \in 1 .. Len(q) - 1 : Tail(q)[n] = q[n + 1]
  BY <1>1, <1>2, HeadTailProperties, LenProperties
<1>4. CASE Head(q) = {j}
  <2>1. Without(q, j) = Tail(q)
    BY <1>4 DEF Without
  <2>2. DOMAIN Tail(q) = 1 .. Len(q) - 1
    BY <1>3
  <2> HIDE DEF S
  <2>3. \A n \in DOMAIN Tail(q) : n + 1 \in DOMAIN q /\ Tail(q)[n] = q[n + 1]
    BY <1>1, <1>3
  <2>4. \A n \in DOMAIN q \ {1} : n - 1 \in DOMAIN Tail(q) /\ Tail(q)[n - 1] = q[n]
    BY <1>1, <1>3
  <2>5. /\ \A n \in DOMAIN Without(q, j) :
             n + 1 \in DOMAIN q /\ Without(q, j)[n] = q[n + 1]
        /\ \A n \in DOMAIN q \ {1} :
             n - 1 \in DOMAIN Without(q, j) /\ Without(q, j)[n - 1] = q[n]
    BY <2>1, <2>3, <2>4, Zenon
  <2>6. 1 \in DOMAIN q /\ Head(q) = q[1] /\ q[1] = {j}
    BY <1>1, <1>2, <1>4
  <2>7. QED
    BY <2>5, <2>6
<1>5. CASE Head(q) # {j}
  <2> DEFINE c == <<Head(q) \ {j}>> \o Tail(q)
  <2>1. Head(q) \ {j} \in S
    BY <1>2, <1>5
  <2>2. /\ DOMAIN c = 1 .. Len(Tail(q)) + 1
        /\ c[1] = Head(q) \ {j}
        /\ \A n \in 1 .. Len(Tail(q)) : c[n + 1] = Tail(q)[n]
    BY <1>2, <2>1, ConsShape
  <2>3. Without(q, j) = c
    BY <1>5 DEF Without
  <2> HIDE DEF c
  <2>4. DOMAIN c = DOMAIN q
    BY <1>1, <1>3, <2>2
  <2>5. \A n \in DOMAIN q \ {1} : c[n] = q[n]
    <3> SUFFICES ASSUME NEW n \in DOMAIN q \ {1} PROVE c[n] = q[n]
      OBVIOUS
    <3>1. n - 1 \in 1 .. Len(q) - 1 /\ (n - 1) + 1 = n
      BY <1>1
    <3>2. QED
      BY <1>3, <2>2, <3>1
  <2>6. QED
    BY <1>1, <1>2, <2>2, <2>3, <2>4, <2>5
<1>6. QED
  BY <1>4, <1>5

(* send::resource::request adds its requests and puts none in two places.  *)
LEMMA SentJobs ==
  ASSUME NEW p \in PoolType, NEW jobs \in SUBSET Job, NEW q \in Sent(p, jobs)
  PROVE  /\ JobsIn(q) = JobsIn(p) \cup jobs
         /\ Unique(p) /\ jobs \cap JobsIn(p) = {} => Unique(q)
<1>0. PICK to \in Placements(p, jobs) : q = Placed(p, jobs, to)
  BY DEF Sent
<1> DEFINE waits == [r \in Rm |-> {j \in DOMAIN to : to[j] = Nobody /\ j.part[2] = r}]
<1>1. /\ DOMAIN to = {j \in jobs : Local(j.part)}
      /\ \A j \in DOMAIN to : to[j] = Nobody \/ (to[j] \in Instance /\ RmOf[to[j]] = j.part[2])
      /\ \A i \in Instance : q.inbox[i] = p.inbox[i] \cup {j \in DOMAIN to : to[j] = i}
      /\ q.external = p.external \cup (jobs \ DOMAIN to)
      /\ \A r \in Rm :
           \/ waits[r] = {} /\ q.queue[r] = p.queue[r]
           \/ /\ waits[r] # {}
              /\ DOMAIN q.queue[r] = DOMAIN p.queue[r] \cup {Len(p.queue[r]) + 1}
              /\ Len(p.queue[r]) + 1 \notin DOMAIN p.queue[r]
              /\ q.queue[r][Len(p.queue[r]) + 1] = waits[r]
              /\ \A n \in DOMAIN p.queue[r] : q.queue[r][n] = p.queue[r][n]
  <2>1. /\ DOMAIN to = {j \in jobs : Local(j.part)}
        /\ \A j \in DOMAIN to : to[j] = Nobody \/ (to[j] \in Instance /\ RmOf[to[j]] = j.part[2])
    BY <1>0 DEF Placements, IdleIn
  <2>2. /\ \A i \in Instance : q.inbox[i] = p.inbox[i] \cup {j \in DOMAIN to : to[j] = i}
        /\ q.external = p.external \cup (jobs \ DOMAIN to)
    BY <1>0 DEF Placed
  <2>3. \A r \in Rm : q.queue[r] = IF waits[r] # {} THEN Append(p.queue[r], waits[r])
                                                    ELSE p.queue[r]
    BY <1>0 DEF Placed
  <2>4. \A r \in Rm : waits[r] \in SUBSET Job
    BY <2>1
  <2> HIDE DEF waits
  <2>5. ASSUME NEW r \in Rm, waits[r] # {}
        PROVE  /\ DOMAIN q.queue[r] = DOMAIN p.queue[r] \cup {Len(p.queue[r]) + 1}
               /\ Len(p.queue[r]) + 1 \notin DOMAIN p.queue[r]
               /\ q.queue[r][Len(p.queue[r]) + 1] = waits[r]
               /\ \A n \in DOMAIN p.queue[r] : q.queue[r][n] = p.queue[r][n]
    <3>1. p.queue[r] \in Seq((SUBSET Job) \ {{}}) /\ waits[r] \in (SUBSET Job) \ {{}}
      BY <2>4, <2>5 DEF PoolType
    <3>2. q.queue[r] = Append(p.queue[r], waits[r])
      BY <2>3, <2>5
    <3>3. QED
      BY <3>1, <3>2, AppendShape
  <2>6. QED
    BY <2>1, <2>2, <2>3, <2>5
<1>2. \A r \in Rm : waits[r] = {j \in DOMAIN to : to[j] = Nobody /\ j.part[2] = r}
  OBVIOUS
<1> HIDE DEF waits
<1> DEFINE inQ(x, j) == \E r \in Rm : \E n \in DOMAIN x.queue[r] : j \in x.queue[r][n]
           inB(x, j) == \E i \in Instance : j \in x.inbox[i]
<1>3. ASSUME NEW j
      PROVE inQ(q, j) <=> inQ(p, j) \/ (j \in DOMAIN to /\ to[j] = Nobody)
  <2>1. ASSUME inQ(q, j) PROVE inQ(p, j) \/ (j \in DOMAIN to /\ to[j] = Nobody)
    BY <1>1, <1>2, <2>1
  <2>2. ASSUME inQ(p, j) PROVE inQ(q, j)
    <3>1. PICK r \in Rm : \E n \in DOMAIN p.queue[r] : j \in p.queue[r][n]
      BY <2>2
    <3>2. PICK n \in DOMAIN p.queue[r] : j \in p.queue[r][n]
      BY <3>1
    <3>3. n \in DOMAIN q.queue[r] /\ j \in q.queue[r][n]
      BY <1>1, <3>2
    <3>4. QED
      BY <3>3
  <2>3. ASSUME j \in DOMAIN to, to[j] = Nobody PROVE inQ(q, j)
    <3>1. j.part[2] \in Rm /\ j \in waits[j.part[2]]
      BY <1>1, <1>2, <2>3 DEF Local
    <3>2. QED
      BY <1>1, <3>1
  <2>4. QED
    BY <2>1, <2>2, <2>3
<1>4. ASSUME NEW j
      PROVE inB(q, j) <=> inB(p, j) \/ (j \in DOMAIN to /\ to[j] # Nobody)
  BY <1>1
<1>5. JobsIn(q) = JobsIn(p) \cup jobs
  <2>1. \A j : j \in JobsIn(q) <=> j \in q.external \/ inQ(q, j) \/ inB(q, j)
    BY InJobsIn
  <2>2. \A j : j \in JobsIn(p) <=> j \in p.external \/ inQ(p, j) \/ inB(p, j)
    BY InJobsIn
  <2> HIDE DEF inQ, inB
  <2>3. \A j : j \in JobsIn(q) <=> j \in JobsIn(p) \cup jobs
    BY <1>1, <1>3, <1>4, <2>1, <2>2
  <2>4. QED
    BY <2>3
<1>6. ASSUME Unique(p), jobs \cap JobsIn(p) = {} PROVE Unique(q)
  <2>1. \A j \in jobs : /\ j \notin p.external
                        /\ \A i \in Instance : j \notin p.inbox[i]
                        /\ \A r \in Rm : \A n \in DOMAIN p.queue[r] : j \notin p.queue[r][n]
    BY <1>6, InJobsIn
  <2>2. \A j \in q.external : j.part[2] \notin Rm
    BY <1>1, <1>6 DEF Unique, Local
  <2>3. \A i \in Instance : \A j \in q.inbox[i] :
          /\ j.part[2] = RmOf[i]
          /\ \A k \in Instance : j \in q.inbox[k] => k = i
    BY <1>1, <1>6, <2>1 DEF Unique
  <2>4. ASSUME NEW r \in Rm, NEW n \in DOMAIN q.queue[r], NEW j \in q.queue[r][n]
        PROVE  /\ j.part[2] = r
               /\ \A l \in DOMAIN q.queue[r] : j \in q.queue[r][l] => l = n
               /\ \A i \in Instance : j \notin q.inbox[i]
    <3>1. CASE n \in DOMAIN p.queue[r] /\ j \in p.queue[r][n]
      <4>1. j \notin jobs
        BY <2>1, <3>1
      <4>2. QED
        BY <1>1, <1>2, <1>6, <3>1, <4>1 DEF Unique
    <3>2. CASE ~ (n \in DOMAIN p.queue[r] /\ j \in p.queue[r][n])
      <4>1. waits[r] # {} /\ n = Len(p.queue[r]) + 1 /\ j \in waits[r]
        BY <1>1, <2>4, <3>2
      <4>2. j \in jobs /\ j.part[2] = r /\ to[j] = Nobody
        BY <1>1, <1>2, <4>1
      <4>3. \A i \in Instance : j \notin q.inbox[i]
        BY <1>1, <2>1, <4>2
      <4>4. QED
        BY <1>1, <2>1, <4>1, <4>2, <4>3
    <3>3. QED
      BY <3>1, <3>2
  <2>5. QED
    BY <2>2, <2>3, <2>4 DEF Unique
<1>7. QED
  BY <1>5, <1>6

(* Only inbox, queue and external say where requests are.                  *)
LEMMA SameJobs ==
  ASSUME NEW p, NEW q,
         q.inbox = p.inbox, q.queue = p.queue, q.external = p.external
  PROVE  JobsIn(q) = JobsIn(p) /\ (Unique(p) => Unique(q))
  BY DEF JobsIn, Queued, Unique

(* The state the manager notes for a proxy moves no request.               *)
LEMMA StateJobs ==
  ASSUME NEW p \in PoolType, NEW i \in Instance, NEW v
  PROVE  LET q == [p EXCEPT !.state[i] = v]
         IN JobsIn(q) = JobsIn(p) /\ (Unique(p) => Unique(q))
<1> DEFINE q == [p EXCEPT !.state[i] = v]
<1>1. q.inbox = p.inbox /\ q.queue = p.queue /\ q.external = p.external
  BY DEF PoolType
<1> HIDE DEF q
<1>2. JobsIn(q) = JobsIn(p) /\ (Unique(p) => Unique(q))
  BY <1>1, SameJobs
<1>3. QED
  BY <1>2 DEF q

(* instance::done moves one request from the queue to its proxy, and loses *)
(* it only when that proxy is being shut down.                             *)
LEMMA DoneJobs ==
  ASSUME NEW p \in PoolType, NEW i \in Instance, NEW q \in Done(p, i), Unique(p)
  PROVE  /\ Unique(q)
         /\ JobsIn(q) \subseteq JobsIn(p)
         /\ i \notin closing => JobsIn(q) = JobsIn(p)
<1> DEFINE w == p.queue[RmOf[i]]
<1>1. w \in Seq((SUBSET Job) \ {{}}) /\ RmOf[i] \in Rm
  BY DEF PoolType
<1>2. CASE w = <<>> \/ i \notin up
  <2>1. q = [p EXCEPT !.state[i] = Settled(@, "idle")]
    BY <1>2 DEF Done
  <2>2. QED
    BY <2>1, StateJobs
<1>3. CASE w # <<>> /\ i \in up
  <2>1. PICK j \in Head(w) :
          q = [p EXCEPT !.state[i] = Settled(@, "busy"),
                        !.inbox[i] = IF i \in closing THEN @ ELSE @ \cup {j},
                        !.queue[RmOf[i]] = Without(@, j)]
    BY <1>3 DEF Done
  <2> DEFINE u == Without(w, j)
             r0 == RmOf[i]
  <2>2. /\ q.external = p.external
        /\ q.queue[r0] = u
        /\ \A r \in Rm \ {r0} : q.queue[r] = p.queue[r]
        /\ \A k \in Instance \ {i} : q.inbox[k] = p.inbox[k]
        /\ q.inbox[i] = IF i \in closing THEN p.inbox[i] ELSE p.inbox[i] \cup {j}
    BY <1>1, <2>1 DEF PoolType
  <2>3. /\ 1 \in DOMAIN w /\ j \in w[1]
        /\ \/ /\ w[1] = {j}
              /\ \A n \in DOMAIN u : n + 1 \in DOMAIN w /\ u[n] = w[n + 1]
              /\ \A n \in DOMAIN w \ {1} : n - 1 \in DOMAIN u /\ u[n - 1] = w[n]
           \/ /\ DOMAIN u = DOMAIN w
              /\ \A n \in DOMAIN w \ {1} : u[n] = w[n]
              /\ u[1] = w[1] \ {j}
    BY <1>1, <1>3, <2>1, WithoutShape
  <2>4. \A n \in DOMAIN w : n \in Int
    BY <1>1, LenProperties
  <2> HIDE DEF u, w, r0
  <2>5. p.queue[r0] = w /\ r0 \in Rm /\ RmOf[i] = r0
    BY <1>1 DEF w, r0
  <2>6. \A n \in DOMAIN u : n \in Int /\ n # 0
    <3>1. q \in PoolType
      BY DoneType
    <3>2. q.queue[r0] \in Seq((SUBSET Job) \ {{}})
      BY <3>1, <2>5 DEF PoolType
    <3>3. QED
      BY <2>2, <3>2, LenProperties
  <2>7. \A n \in DOMAIN w : j \in w[n] => n = 1
    BY <2>3, <2>5 DEF Unique
  <2>8. \A n \in DOMAIN u : j \notin u[n]
    <3> SUFFICES ASSUME NEW n \in DOMAIN u, j \in u[n] PROVE FALSE
      OBVIOUS
    <3>1. CASE n + 1 \in DOMAIN w /\ u[n] = w[n + 1]
      <4>1. n + 1 = 1
        BY <2>7, <3>1
      <4>2. QED
        BY <2>6, <4>1
    <3>2. CASE n \in DOMAIN w /\ n # 1 /\ u[n] = w[n]
      BY <2>7, <3>2
    <3>3. CASE n = 1 /\ u[n] = w[1] \ {j}
      BY <3>3
    <3>4. QED
      BY <2>3, <3>1, <3>2, <3>3
  <2>9. \A k : k # j => ((\E n \in DOMAIN u : k \in u[n]) <=> (\E n \in DOMAIN w : k \in w[n]))
    <3> SUFFICES ASSUME NEW k, k # j
                 PROVE (\E n \in DOMAIN u : k \in u[n]) <=> (\E n \in DOMAIN w : k \in w[n])
      OBVIOUS
    <3>1. ASSUME NEW n \in DOMAIN u, k \in u[n] PROVE \E l \in DOMAIN w : k \in w[l]
      BY <2>3, <3>1
    <3>2. ASSUME NEW n \in DOMAIN w, k \in w[n] PROVE \E l \in DOMAIN u : k \in u[l]
      BY <2>3, <3>2
    <3>3. QED
      BY <3>1, <3>2
  <2>10. ASSUME NEW k, NEW n \in DOMAIN u, NEW l \in DOMAIN u, k \in u[n], k \in u[l]
         PROVE  l = n
    <3>1. \A a \in DOMAIN w, b \in DOMAIN w : k \in w[a] /\ k \in w[b] => b = a
      BY <2>5 DEF Unique
    <3>2. n \in Int /\ l \in Int
      BY <2>6
    <3>3. CASE n + 1 \in DOMAIN w /\ u[n] = w[n + 1] /\ l + 1 \in DOMAIN w /\ u[l] = w[l + 1]
      <4>1. l + 1 = n + 1
        BY <2>10, <3>1, <3>3
      <4>2. QED
        BY <3>2, <4>1
    <3>4. CASE /\ DOMAIN u = DOMAIN w
               /\ \A m \in DOMAIN w \ {1} : u[m] = w[m]
               /\ u[1] = w[1] \ {j}
      BY <2>10, <3>1, <3>4
    <3>5. QED
      BY <2>3, <3>3, <3>4
  <2>11. \A k : k # j => (k \in JobsIn(q) <=> k \in JobsIn(p))
    <3> SUFFICES ASSUME NEW k, k # j PROVE k \in JobsIn(q) <=> k \in JobsIn(p)
      OBVIOUS
    <3>1. (\E r \in Rm : \E n \in DOMAIN q.queue[r] : k \in q.queue[r][n])
            <=> (\E r \in Rm : \E n \in DOMAIN p.queue[r] : k \in p.queue[r][n])
      <4>1. \A r \in Rm : (\E n \in DOMAIN q.queue[r] : k \in q.queue[r][n])
                          <=> (\E n \in DOMAIN p.queue[r] : k \in p.queue[r][n])
        BY <2>2, <2>5, <2>9
      <4>2. QED
        BY <4>1
    <3>2. (\E l \in Instance : k \in q.inbox[l]) <=> (\E l \in Instance : k \in p.inbox[l])
      <4>1. \A l \in Instance : k \in q.inbox[l] <=> k \in p.inbox[l]
        BY <2>2
      <4>2. QED
        BY <4>1
    <3>3. QED
      BY <2>2, <3>1, <3>2, InJobsIn
  <2>12. j \in JobsIn(p)
    BY <2>3, <2>5, InJobsIn
  <2>13. i \notin closing => j \in JobsIn(q)
    BY <2>2, InJobsIn
  <2>14. j.part[2] = r0 /\ j \notin p.external /\ \A k \in Instance : j \notin p.inbox[k]
    BY <2>3, <2>5 DEF Unique
  <2>15. \A k \in Instance : \A g \in q.inbox[k] :
           /\ g.part[2] = RmOf[k]
           /\ \A l \in Instance : g \in q.inbox[l] => l = k
    BY <2>2, <2>5, <2>14 DEF Unique
  <2>16. ASSUME NEW r \in Rm, NEW n \in DOMAIN q.queue[r], NEW g \in q.queue[r][n]
         PROVE  /\ g.part[2] = r
                /\ \A l \in DOMAIN q.queue[r] : g \in q.queue[r][l] => l = n
                /\ \A k \in Instance : g \notin q.inbox[k]
    <3>1. CASE r = r0
      <4>1. g # j
        BY <2>2, <2>8, <2>16, <3>1
      <4>2. \E l \in DOMAIN w : g \in w[l]
        BY <2>2, <2>9, <2>16, <3>1, <4>1
      <4>3. g.part[2] = r /\ \A k \in Instance : g \notin p.inbox[k]
        BY <2>5, <3>1, <4>2 DEF Unique
      <4>4. \A l \in DOMAIN q.queue[r] : g \in q.queue[r][l] => l = n
        BY <2>2, <2>10, <2>16, <3>1
      <4>5. QED
        BY <2>2, <4>1, <4>3, <4>4
    <3>2. CASE r # r0
      <4>1. q.queue[r] = p.queue[r]
        BY <2>2, <3>2
      <4>2. g.part[2] = r /\ \A k \in Instance : g \notin p.inbox[k]
        BY <2>16, <4>1 DEF Unique
      <4>3. g # j
        BY <2>14, <3>2, <4>2
      <4>4. QED
        BY <2>2, <2>16, <4>1, <4>2, <4>3 DEF Unique
    <3>3. QED
      BY <3>1, <3>2
  <2>17. Unique(q)
    BY <2>2, <2>15, <2>16 DEF Unique
  <2>18. QED
    BY <2>11, <2>12, <2>13, <2>17
<1>4. QED
  BY <1>2, <1>3

(* A proxy that takes a request takes that one only.                       *)
LEMMA WorkJobs ==
  ASSUME NEW p \in PoolType, Unique(p), NEW i \in Instance, NEW j \in p.inbox[i]
  PROVE  LET q == [p EXCEPT !.inbox[i] = @ \ {j}]
         IN JobsIn(q) = JobsIn(p) \ {j} /\ Unique(q)
<1> DEFINE q == [p EXCEPT !.inbox[i] = @ \ {j}]
<1>1. /\ q.queue = p.queue /\ q.external = p.external
      /\ q.inbox[i] = p.inbox[i] \ {j}
      /\ \A k \in Instance \ {i} : q.inbox[k] = p.inbox[k]
  BY DEF PoolType
<1> HIDE DEF q
<1>2. Unique(q)
  BY <1>1 DEF Unique
<1>3. /\ \A k \in Instance : j \notin q.inbox[k]
      /\ \A r \in Rm : \A n \in DOMAIN p.queue[r] : j \notin p.queue[r][n]
      /\ j \notin p.external
  BY <1>1 DEF Unique
<1>4. \A k : k \in JobsIn(q) <=> k \in JobsIn(p) \ {j}
  <2>1. \A k : k # j => ((\E l \in Instance : k \in q.inbox[l])
                          <=> (\E l \in Instance : k \in p.inbox[l]))
    BY <1>1
  <2>2. QED
    BY <1>1, <1>3, <2>1, InJobsIn
<1>5. QED
  BY <1>2, <1>4 DEF q

(* An external resource that takes a request takes that one only.          *)
LEMMA ExternalJobs ==
  ASSUME NEW p \in PoolType, Unique(p), NEW j \in p.external
  PROVE  LET q == [p EXCEPT !.external = @ \ {j}]
         IN JobsIn(q) = JobsIn(p) \ {j} /\ Unique(q)
<1> DEFINE q == [p EXCEPT !.external = @ \ {j}]
<1>1. /\ q.queue = p.queue /\ q.inbox = p.inbox
      /\ q.external = p.external \ {j}
  BY DEF PoolType
<1> HIDE DEF q
<1>2. Unique(q)
  BY <1>1 DEF Unique
<1>3. /\ \A k \in Instance : j \notin p.inbox[k]
      /\ \A r \in Rm : \A n \in DOMAIN p.queue[r] : j \notin p.queue[r][n]
  BY DEF Unique
<1>4. \A k : k \in JobsIn(q) <=> k \in JobsIn(p) \ {j}
  BY <1>1, <1>3, InJobsIn
<1>5. QED
  BY <1>2, <1>4 DEF q
=============================================================================
