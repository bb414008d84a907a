------------------------- MODULE TransactionManager -------------------------
(***************************************************************************)
(* The casual transaction manager (TM): one single threaded process that   *)
(* coordinates the commit and rollback of distributed transactions.        *)
(*                                                                         *)
(*   source/manager/handle.cpp   the message handlers, one action each     *)
(*   source/manager/state.{h,cpp} transactions, resource proxies, pending  *)
(*   source/manager/action.cpp   scaling of the resource proxies           *)
(*   source/manager/log.cpp      the sqlite log                            *)
(*   common/message/coordinate.h the fan-out of requests and their replies *)
(*   source/resource/proxy.cpp   a proxy: one xa call per message          *)
(*                                                                         *)
(* A handler runs to its end before the next message is taken, so it is    *)
(* one step.  A message to the manager that nobody has taken yet cannot be *)
(* told from one that is not sent yet, so client requests are sent and     *)
(* handled in one step; the replies of the resources are kept in flight,   *)
(* since their order is what the protocol is about.                        *)
(***************************************************************************)
EXTENDS XACode, Sequences, FiniteSets

CONSTANTS
  Gtrid,        \* global transaction ids
  Xid,          \* transaction branches, each of one global transaction
  GlobalOf,     \* [Xid -> Gtrid]
  Process,      \* the processes that own branches
  OwnerOf,      \* [Xid -> Process]
  Client,       \* branches whose owner asks this TM to commit or roll back
  Upstream,     \* branches that the TM of another domain drives
  Straggler,    \* branches whose servers may report after that request
  Rm,           \* local resources, each with proxy processes
  Instance,     \* the proxy processes
  RmOf,         \* [Instance -> Rm]
  ExternalRm,   \* external resources: gateways and queue groups
  Spare,        \* proxies that an administrator may start later
  Mortal,       \* owners that may die
  MayCrash,     \* proxies that may die
  MayScaleIn,   \* proxies that an administrator may shut down
  Refusal,      \* codes a resource may answer instead of doing the work
  Fault,        \* codes a resource may answer to the second phase
  Batch,        \* platform::batch::transaction::persistence
  Nobody        \* no proxy

Resource == Rm \cup ExternalRm
Part == Xid \X Resource                    \* a resource involved in a branch

TxKind == {"tx_commit", "tx_rollback"}
XaKind == {"xa_prepare", "xa_commit", "xa_rollback"}
(* What starts a coordination; the kind and the branch identify it.        *)
(* "exit" is the rollback the manager asks of itself when an owner dies.   *)
Request == [kind : TxKind \cup XaKind \cup {"exit"}, trid : Xid]

Phase == {"prepare", "commit", "rollback"}
(* A request to a resource. A pair (phase, req) and a part are enough to   *)
(* tell its correlation id from every other.                               *)
Job == [phase : Phase, onephase : BOOLEAN, req : Request, part : Part]
Reply == [job : Job, code : Code, from : Instance \cup {Nobody}]

(* An entry of fan::Out: expect is m_pending, got is m_received, base is   *)
(* the code captured by the callback.                                      *)
Entry == [phase : Phase, req : Request, expect : SUBSET Part,
          got : SUBSET (Part \X Code), base : Code]

Stage == {"absent", "involved", "prepare", "commit", "rollback"}
ProxyState == {"absent", "started", "idle", "busy", "shutdown", "removed"}
RmState == {"idle", "active", "prepared", "readonly", "committed",
            "rolledback"}
Answer == [stage : Phase, state : Code \cup TxCode]

ASSUME BranchAssumption ==
  /\ GlobalOf \in [Xid -> Gtrid] /\ OwnerOf \in [Xid -> Process]
  /\ Client \subseteq Xid /\ Upstream \subseteq Xid /\ Straggler \subseteq Xid
  /\ Client \cap Upstream = {} /\ Mortal \subseteq Process

ASSUME ResourceAssumption ==
  /\ RmOf \in [Instance -> Rm] /\ Rm \cap ExternalRm = {}
  /\ Spare \subseteq Instance /\ MayCrash \subseteq Instance
  /\ MayScaleIn \subseteq Instance
  /\ Nobody \notin Instance
  /\ Batch \in Nat \ {0}

ASSUME AnswerAssumption ==
  /\ Refusal \subseteq Code \ {"ok", "read_only"}
  /\ Fault \subseteq Code \ {"ok", "read_only"}

VARIABLES
  manager,    \* "running", or "terminated" by an assertion or an exception
  stage,      \* state.transactions[].stage; "absent": no such transaction
  branches,   \* state.transactions[].branches
  involved,   \* state.transactions[].branches[].resources
  fanout,     \* state.coordinate
  pool,       \* the proxies and the requests sent to or waiting for them
  held,       \* state.persistent.replies
  logged,     \* rows of the log in the open sqlite transaction
  durable,    \* rows of the log on disk
  issued,     \* requests made so far
  answers,    \* what each request has been answered
  replies,    \* replies of resources on their way to the manager
  announced,  \* proxies whose Ready is on its way to the manager
  up,         \* proxies that run
  closing,    \* proxies that have been sent a shutdown message
  gone,       \* owners that have died
  rm,         \* what each resource manager has done with a part
  ballot      \* every vote cast in a prepare phase (history)

transVars == <<stage, branches, involved>>
logVars == <<held, logged, durable>>
clientVars == <<issued, answers, gone>>
resourceVars == <<replies, rm, ballot>>
proxyVars == <<announced, up, closing>>
vars == <<manager, transVars, fanout, pool, logVars, clientVars,
          resourceVars, proxyVars>>

Running == manager = "running"
-----------------------------------------------------------------------------
(* Transactions: state.h, Transaction and Branch.                          *)

BranchesOf(g, br) == {x \in br : GlobalOf[x] = g}
PartsOf(g, inv) == {p \in inv : GlobalOf[p[1]] = g}
Local(p) == p[2] \in Rm

(* Transaction::purge: the branches of g that have no resource go. *)
Purged(g, br, inv) ==
  {x \in br : GlobalOf[x] = g => \E p \in inv : p[1] = x}

(* Transaction::purge( replies): trim keeps what intersection returns      *)
(* first, the resources that have such a reply, and drops the others.      *)
PurgedInvolved(g, inv, resources) ==
  {p \in inv : GlobalOf[p[1]] = g => p[2] \in resources}

(* Machine::operator =: a stage never goes back. *)
StageRank == [absent |-> 0, involved |-> 1, prepare |-> 2, commit |-> 3,
              rollback |-> 4]
Advanced(from, to) == IF StageRank[to] > StageRank[from] THEN to ELSE from

InProgress(g) == StageRank[stage[g]] > StageRank["involved"]
-----------------------------------------------------------------------------
(* Proxies: send::resource::request and instance::done of handle.cpp.      *)
(* pool.state[i] is what the manager believes of proxy i; pool.queue[r]    *)
(* the batches of pending.requests for r, in order, a batch being the      *)
(* requests one handler added; pool.inbox[i] the requests proxy i has not  *)
(* taken; pool.external the requests that external resources work on.      *)

IdleIn(p) == {i \in Instance : p.state[i] = "idle"}

(* Mutant: a proxy that the handler has used already is found idle again. *)
PlacementsStillIdle(p, jobs) ==
  { to \in [{j \in jobs : Local(j.part)} -> IdleIn(p) \cup {Nobody}] :
      \A j \in DOMAIN to :
        IF to[j] = Nobody THEN \A i \in IdleIn(p) : RmOf[i] # j.part[2]
                          ELSE RmOf[to[j]] = j.part[2] }

(* State::idle for every request of one handler: a proxy takes one request *)
(* and a request waits only when no proxy of its resource is left.         *)
Placements(p, jobs) ==
  { to \in [{j \in jobs : Local(j.part)} -> IdleIn(p) \cup {Nobody}] :
      \A j \in DOMAIN to :
        /\ to[j] # Nobody => RmOf[to[j]] = j.part[2]
        /\ to[j] # Nobody => \A k \in DOMAIN to \ {j} : to[k] # to[j]
        /\ to[j] = Nobody => \A i \in IdleIn(p) :
             RmOf[i] = j.part[2] => \E k \in DOMAIN to : to[k] = i }

Placed(p, jobs, to) ==
  LET for(i) == {j \in DOMAIN to : to[j] = i}
      waits(r) == {j \in DOMAIN to : to[j] = Nobody /\ j.part[2] = r}
  IN [ state    |-> [i \in Instance |->
                      IF for(i) # {} THEN "busy" ELSE p.state[i]],
       inbox    |-> [i \in Instance |-> p.inbox[i] \cup for(i)],
       queue    |-> [r \in Rm |->
                      IF waits(r) # {} THEN Append(p.queue[r], waits(r))
                                       ELSE p.queue[r]],
       external |-> p.external \cup (jobs \ DOMAIN to) ]

(* What sending these requests can leave behind. *)
Sent(p, jobs) == {Placed(p, jobs, to) : to \in Placements(p, jobs)}

(* flush::send throws when the proxy is no more, and nothing catches it. *)
AfterSend(p, q) ==
  IF \E i \in Instance \ up : q.inbox[i] # p.inbox[i] THEN "terminated"
                                                      ELSE "running"

(* Mutant: the state of a proxy that has answered is left as it was. *)
SettledNever(old, new) == old

(* Instance::state( State): shutdown is final. *)
Settled(old, new) == IF old = "shutdown" THEN old ELSE new

(* Mutants: the request is sent and not erased; erased with its slot left. *)
WithoutErase(q, j) == q
WithoutRequestOnly(q, j) == <<Head(q) \ {j}>> \o Tail(q)

Without(q, j) == IF Head(q) = {j} THEN Tail(q)
                                  ELSE <<Head(q) \ {j}>> \o Tail(q)

(* Mutants: the pending requests are not looked at; the newest is taken.   *)
DoneIdle(p, i) == {[p EXCEPT !.state[i] = Settled(@, "idle")]}

(* instance::done: proxy i is given the oldest request that waits for its  *)
(* resource, even if it is being shut down and will never take it, being   *)
(* behind the shutdown message; a proxy that is no more is given none.     *)
Done(p, i) ==
  LET q == p.queue[RmOf[i]]
  IN IF q = <<>> \/ i \notin up
     THEN {[p EXCEPT !.state[i] = Settled(@, "idle")]}
     ELSE {[p EXCEPT !.state[i] = Settled(@, "busy"),
                     !.inbox[i] = IF i \in closing THEN @ ELSE @ \cup {j},
                     !.queue[RmOf[i]] = Without(@, j)] : j \in Head(q)}

(* instance::replied. *)
Replied(p, m) == IF m.from = Nobody THEN {p} ELSE Done(p, m.from)

JobsFor(phase, onephase, req, parts) ==
  [phase : {phase}, onephase : {onephase}, req : {req}, part : parts]

Fan(phase, req, parts, base) ==
  [phase |-> phase, req |-> req, expect |-> parts, got |-> {}, base |-> base]
-----------------------------------------------------------------------------
(* Answers to whoever asked: create::reply, send::reply. *)

Answered(req, answerStage, state) ==
  IF req.kind = "exit" THEN answers
  ELSE [answers EXCEPT ![req] = Append(@, [stage |-> answerStage,
                                           state |-> state])]

Concluded(req, code) ==
  IF req.kind \in TxKind THEN ToTx(Normalised(code)) ELSE Normalised(code)

(* The last answer of a request has been sent. *)
Final(req) == \E n \in DOMAIN answers[req] : answers[req][n].stage # "prepare"

(* persist::send: the log is committed, then every held reply is sent. *)
Released(ans, replied) ==
  [q \in Request |->
     IF q \in replied
     THEN Append(ans[q], [stage |-> "prepare", state |-> ToTx("ok")])
     ELSE ans[q]]

(* Mutant: the branches go, the transaction stays. *)
RemovedBranchesOnly(g) ==
  /\ UNCHANGED stage
  /\ branches' = branches \ BranchesOf(g, branches)
  /\ involved' = involved \ PartsOf(g, involved)

(* remove::transaction. *)
Removed(g) ==
  /\ stage' = [stage EXCEPT ![g] = "absent"]
  /\ branches' = branches \ BranchesOf(g, branches)
  /\ involved' = involved \ PartsOf(g, involved)

(* Mutant: log.remove forgotten. *)
UnloggedNever(g, rows) == rows

Unlogged(g, rows) == rows \ BranchesOf(g, rows)
-----------------------------------------------------------------------------
Init ==
  /\ manager = "running"
  /\ stage = [g \in Gtrid |-> "absent"]
  /\ branches = {} /\ involved = {} /\ fanout = {}
  /\ pool = [ state    |-> [i \in Instance |->
                              IF i \in Spare THEN "absent" ELSE "idle"],
              inbox    |-> [i \in Instance |-> {}],
              queue    |-> [r \in Rm |-> <<>>],
              external |-> {} ]
  /\ held = {} /\ logged = {} /\ durable = {}
  /\ issued = {} /\ answers = [q \in Request |-> <<>>] /\ gone = {}
  /\ replies = {} /\ rm = [p \in Part |-> "idle"] /\ ballot = {}
  /\ announced = {} /\ up = Instance \ Spare /\ closing = {}
-----------------------------------------------------------------------------
(* Involvement.                                                            *)

(* Servers do their work in the resource before the manager hears of it.   *)
Worked(x, resources) ==
  [p \in Part |-> IF p[1] = x /\ p[2] \in resources /\ rm[p] = "idle"
                  THEN "active" ELSE rm[p]]

Asked(x) == \E k \in TxKind \cup XaKind : [kind |-> k, trid |-> x] \in issued

(* A branch is worked in until its global transaction is asked to end; the *)
(* server of a straggler is not waited for.                                *)
MayWork(x, resources) ==
  /\ OwnerOf[x] \notin gone
  /\ (\E y \in Xid : GlobalOf[y] = GlobalOf[x] /\ Asked(y)) => x \in Straggler
  /\ \A r \in resources : rm[<<x, r>>] \in {"idle", "active"}

AddInvolved(x, resources) ==
  /\ stage' = [stage EXCEPT ![GlobalOf[x]] = Advanced(@, "involved")]
  /\ branches' = branches \cup {x}
  /\ involved' = involved \cup ({x} \X resources)

(* resource::involved::request; resources without configuration are left   *)
(* out of the set, which is empty when a server names nothing else.        *)
Involve(x, resources) ==
  /\ Running /\ MayWork(x, resources)
  /\ AddInvolved(x, resources)
  /\ rm' = Worked(x, resources)
  /\ UNCHANGED <<manager, fanout, pool, logVars, clientVars, replies, ballot,
                 proxyVars>>

(* resource::external::involved::request: a call left the domain in x. *)
ExternalInvolve(x, r) ==
  /\ Running /\ MayWork(x, {r})
  /\ AddInvolved(x, {r})
  /\ rm' = Worked(x, {r})
  /\ UNCHANGED <<manager, fanout, pool, logVars, clientVars, replies, ballot,
                 proxyVars>>
-----------------------------------------------------------------------------
(* Requests.                                                               *)

Send(jobs) == \E q \in Sent(pool, jobs) :
  /\ pool' = q
  /\ manager' = AfterSend(pool, q)

(* Mutant: resource_count counts the branches. *)
StartCommitByBranch(req, inv, br) ==
  LET g == GlobalOf[req.trid]
      parts == PartsOf(g, inv)
      single == \E x \in Xid : parts \subseteq {x} \X Resource
      phase == IF single THEN "commit" ELSE "prepare"
  IN /\ parts # {}
     /\ branches' = br
     /\ involved' = inv
     /\ stage' = [stage EXCEPT ![g] = Advanced(@, phase)]
     /\ Send(JobsFor(phase, single, req, parts))
     /\ fanout' = fanout \cup {Fan(phase, req, parts, "read_only")}
     /\ UNCHANGED answers

(* The tail that commit::request and external prepare::commit::phase share:*)
(* one resource is committed in one phase, more are prepared first.        *)
StartCommit(req, inv, br) ==
  LET g == GlobalOf[req.trid]
      parts == PartsOf(g, inv)
  IN /\ parts # {}
     /\ branches' = br
     /\ involved' = inv
     /\ \/ /\ \E p \in parts : parts = {p}
           /\ stage' = [stage EXCEPT ![g] = Advanced(@, "commit")]
           /\ Send(JobsFor("commit", TRUE, req, parts))
           /\ fanout' = fanout \cup {Fan("commit", req, parts, "read_only")}
        \/ /\ \A p \in parts : parts # {p}
           /\ stage' = [stage EXCEPT ![g] = Advanced(@, "prepare")]
           /\ Send(JobsFor("prepare", FALSE, req, parts))
           /\ fanout' = fanout \cup {Fan("prepare", req, parts, "read_only")}
     /\ UNCHANGED answers

(* A client asks once; it may still roll back when the commit has failed   *)
(* and the transaction was not rolled back (Context::commit).              *)
ClientMayCommit(x) ==
  /\ x \in Client /\ OwnerOf[x] \notin gone
  /\ ~ Asked(x)

CommitFailed(x) ==
  LET req == [kind |-> "tx_commit", trid |-> x]
  IN \E n \in DOMAIN answers[req] :
       answers[req][n].stage = "commit" /\ answers[req][n].state # "ok"

ClientMayRollback(x) ==
  /\ x \in Client /\ OwnerOf[x] \notin gone
  /\ [kind |-> "tx_rollback", trid |-> x] \notin issued
  /\ [kind |-> "tx_commit", trid |-> x] \in issued => CommitFailed(x)

(* commit::request: the branch and the resources of the caller are added   *)
(* before the stage is looked at.                                          *)
TxCommit(x, resources) ==
  LET g == GlobalOf[x]
      req == [kind |-> "tx_commit", trid |-> x]
      inv == involved \cup ({x} \X resources)
      br == Purged(g, branches \cup {x}, inv)
  IN /\ Running /\ ClientMayCommit(x)
     /\ issued' = issued \cup {req}
     /\ rm' = Worked(x, resources)
     /\ \/ /\ InProgress(g)
           /\ answers' = Answered(req, "commit", "protocol")
           /\ branches' = br /\ involved' = inv
           /\ UNCHANGED <<manager, stage, fanout, pool>>
        \/ /\ ~ InProgress(g) /\ PartsOf(g, inv) = {}
           /\ answers' = Answered(req, "commit", "ok")
           /\ Removed(g)
           /\ UNCHANGED <<manager, fanout, pool>>
        \/ /\ ~ InProgress(g)
           /\ StartCommit(req, inv, br)
     /\ UNCHANGED <<logVars, gone, replies, ballot, proxyVars>>

(* rollback::request: no stage keeps it out.  A transaction without        *)
(* resources is answered and removed at once.                              *)
TxRollback(x, resources) ==
  LET g == GlobalOf[x]
      req == [kind |-> "tx_rollback", trid |-> x]
      inv == involved \cup ({x} \X resources)
      parts == PartsOf(g, inv)
  IN /\ Running /\ ClientMayRollback(x)
     /\ issued' = issued \cup {req}
     /\ rm' = Worked(x, resources)
     /\ \/ /\ parts = {}
           /\ answers' = Answered(req, "rollback", Concluded(req, "read_only"))
           /\ Removed(g)
           /\ logged' = Unlogged(g, logged)
           /\ UNCHANGED <<manager, fanout, pool>>
        \/ /\ parts # {}
           /\ stage' = [stage EXCEPT ![g] = Advanced(@, "rollback")]
           /\ branches' = Purged(g, branches \cup {x}, inv)
           /\ involved' = inv
           /\ Send(JobsFor("rollback", FALSE, req, parts))
           /\ fanout' = fanout \cup {Fan("rollback", req, parts, "read_only")}
           /\ UNCHANGED <<answers, logged>>
     /\ UNCHANGED <<held, durable, gone, replies, ballot, proxyVars>>
-----------------------------------------------------------------------------
(* Requests of the manager of another domain, through a gateway.           *)

VotedOk(req) == \E n \in DOMAIN answers[req] : answers[req][n].state = "ok"

(* Prepare first, or a commit in one phase; a commit in two phases follows *)
(* a vote; a rollback may come at any time.                                *)
UpstreamMay(req) ==
  LET prepare == [kind |-> "xa_prepare", trid |-> req.trid]
  IN /\ req.trid \in Upstream /\ req \notin issued
     /\ req.kind = "xa_prepare" => ~ Asked(req.trid)
     /\ req.kind = "xa_commit" =>
          ~ Asked(req.trid) \/ (prepare \in issued /\ VotedOk(prepare))

(* Answered without a coordination: nothing known, or already under way.   *)
AnswerReadOnly(req, answerStage) ==
  /\ answers' = Answered(req, answerStage, "read_only")
  /\ UNCHANGED <<manager, transVars, fanout, pool>>

(* external::detail::prepare::commit::phase: prepare and commit of another *)
(* domain take the same road, to the end of the commit.                    *)
XaCommit(req) ==
  LET g == GlobalOf[req.trid]
  IN /\ Running /\ UpstreamMay(req)
     /\ req.kind \in {"xa_prepare", "xa_commit"}
     /\ issued' = issued \cup {req}
     /\ \/ /\ stage[g] = "absent" \/ InProgress(g)
           /\ AnswerReadOnly(req, "commit")
        \/ /\ stage[g] = "involved" /\ PartsOf(g, involved) = {}
           /\ answers' = Answered(req, "commit", "read_only")
           /\ Removed(g)
           /\ UNCHANGED <<manager, fanout, pool>>
        \/ /\ stage[g] = "involved"
           /\ StartCommit(req, involved, branches)
     /\ UNCHANGED <<logVars, gone, resourceVars, proxyVars>>

(* external::rollback::request. *)
XaRollback(req) ==
  LET g == GlobalOf[req.trid]
      parts == PartsOf(g, involved)
  IN /\ Running /\ UpstreamMay(req)
     /\ req.kind = "xa_rollback"
     /\ issued' = issued \cup {req}
     /\ \/ /\ stage[g] = "absent" \/ InProgress(g)
           /\ AnswerReadOnly(req, "rollback")
           /\ UNCHANGED logged
        \/ /\ stage[g] = "involved" /\ parts = {}
           /\ answers' = Answered(req, "rollback", "read_only")
           /\ Removed(g)
           /\ logged' = Unlogged(g, logged)
           /\ UNCHANGED <<manager, fanout, pool>>
        \/ /\ stage[g] = "involved" /\ parts # {}
           /\ stage' = [stage EXCEPT ![g] = Advanced(@, "rollback")]
           /\ Send(JobsFor("rollback", FALSE, req, parts))
           /\ fanout' = fanout \cup {Fan("rollback", req, parts, "read_only")}
           /\ UNCHANGED <<branches, involved, answers, logged>>
     /\ UNCHANGED <<held, durable, gone, resourceVars, proxyVars>>
-----------------------------------------------------------------------------
(* Replies of the resources: instance::replied, then the fan-out.          *)

(* The entry a reply belongs to: Out::operator() finds it by correlation.  *)
Awaiting(m) == {e \in fanout : /\ e.phase = m.job.phase
                               /\ e.req = m.job.req
                               /\ m.job.part \in e.expect}

Received(e, m) == [e EXCEPT !.got = @ \cup {<<m.job.part, m.code>>}]
(* Mutant: the first reply completes the fan-out. *)
CompleteAtFirst(e) == \E p \in e.expect : \E v \in e.got : v[1] = p

Complete(e) == \A p \in e.expect : \E v \in e.got : v[1] = p

Outcome(e, votes) == Worst({v[2] : v \in votes} \cup {e.base})

(* The votes are in: the callback of coordinate::prepare.                  *)
(* old: the entry before the last vote; e: with it; active: the votes that *)
(* are not read_only; p: the proxies after instance::done.                 *)
Prepared(old, e, p) ==
  LET req == e.req
      g == GlobalOf[req.trid]
      active == {v \in e.got : v[2] # "read_only"}
      parts == {v[1] : v \in active}
      kept == PurgedInvolved(g, involved, {v[1][2] : v \in e.got \ active})
      left == Purged(g, branches, kept)
      code == Outcome(e, active)
      next(phase) ==
        /\ involved' = kept
        /\ branches' = left
        /\ \E q \in Sent(p, JobsFor(phase, FALSE, req, parts)) :
             /\ pool' = q
             /\ manager' = AfterSend(p, q)
        /\ fanout' = (fanout \ {old}) \cup {Fan(phase, req, parts, code)}
        /\ UNCHANGED stage
  IN \/ /\ code = "read_only"
        /\ Removed(g)
        /\ answers' = Answered(req, "commit", Concluded(req, code))
        /\ fanout' = fanout \ {old}
        /\ pool' = p
        /\ UNCHANGED <<manager, logVars>>
     \/ /\ code = "ok"
        /\ next("commit")
        /\ LET rows == logged \cup BranchesOf(g, left)
               batch == held \cup {req}
           IN /\ logged' = rows
              /\ \/ /\ req.kind # "tx_commit"
                    /\ UNCHANGED <<held, durable, answers>>
                 \/ /\ req.kind = "tx_commit"
                    /\ Cardinality(batch) < Batch
                    /\ held' = batch
                    /\ UNCHANGED <<durable, answers>>
                 \/ /\ req.kind = "tx_commit"
                    /\ Cardinality(batch) >= Batch
                    /\ held' = {}
                    /\ durable' = rows
                    /\ answers' = Released(answers, batch)
     \/ /\ code \notin {"read_only", "ok"}
        /\ next("rollback")
        /\ UNCHANGED <<answers, logVars>>

(* resource::prepare::reply.  The callback asserts that the transaction is *)
(* still there.                                                            *)
PrepareReply(m) ==
  /\ Running /\ m.job.phase = "prepare"
  /\ replies' = replies \ {m}
  /\ \E e \in Awaiting(m), p \in Replied(pool, m) :
       LET e2 == Received(e, m)
       IN \/ /\ ~ Complete(e2)
             /\ fanout' = (fanout \ {e}) \cup {e2}
             /\ pool' = p
             /\ UNCHANGED <<manager, transVars, logVars, answers>>
          \/ /\ Complete(e2)
             /\ stage[GlobalOf[e.req.trid]] = "absent"
             /\ manager' = "terminated"
             /\ pool' = p
             /\ UNCHANGED <<transVars, fanout, logVars, answers>>
          \/ /\ Complete(e2)
             /\ stage[GlobalOf[e.req.trid]] # "absent"
             /\ Prepared(e, e2, p)
  /\ UNCHANGED <<issued, gone, rm, ballot, proxyVars>>

(* resource::commit::reply and resource::rollback::reply, with the         *)
(* callbacks of coordinate::commit and coordinate::rollback: answer, then  *)
(* forget the transaction and its rows.                                    *)
OutcomeReply(m) ==
  /\ Running /\ m.job.phase # "prepare"
  /\ replies' = replies \ {m}
  /\ \E e \in Awaiting(m), p \in Replied(pool, m) :
       LET e2 == Received(e, m)
           g == GlobalOf[e.req.trid]
       IN /\ pool' = p
          /\ \/ /\ ~ Complete(e2)
                /\ fanout' = (fanout \ {e}) \cup {e2}
                /\ UNCHANGED <<transVars, logged, answers>>
             \/ /\ Complete(e2)
                /\ answers' = Answered(e.req, e.phase,
                                       Concluded(e.req, Outcome(e2, e2.got)))
                /\ Removed(g)
                /\ logged' = Unlogged(g, logged)
                /\ fanout' = fanout \ {e}
  /\ UNCHANGED <<manager, held, durable, issued, gone, rm, ballot, proxyVars>>

(* handle::persist::send, when the inbound device is empty. *)
Persist ==
  /\ Running /\ held # {}
  /\ durable' = logged
  /\ answers' = Released(answers, held)
  /\ held' = {}
  /\ UNCHANGED <<manager, transVars, fanout, pool, logged, issued, gone,
                 resourceVars, proxyVars>>
-----------------------------------------------------------------------------
(* process::exit of an owner: every transaction whose last branch it owns  *)
(* is rolled back, whatever its stage.  The model does not keep the order  *)
(* of the branches, which depends on who reported first and on             *)
(* std::partition: with several branches any of them may be the last.      *)
OwnerExit(o) ==
  /\ Running /\ o \in Mortal \ gone
  /\ gone' = gone \cup {o}
  /\ \E lost \in SUBSET Gtrid :
       LET owned(g) == {x \in BranchesOf(g, branches) : OwnerOf[x] = o}
           last(g) == CHOOSE x \in owned(g) : TRUE
           req(g) == [kind |-> "exit", trid |-> last(g)]
           parts(g) == PartsOf(g, involved)
           empty == {g \in lost : parts(g) = {}}
           busy == lost \ empty
       IN /\ \A g \in Gtrid :
               /\ g \in lost => owned(g) # {}
               /\ BranchesOf(g, branches) # {} /\ owned(g) = BranchesOf(g, branches)
                    => g \in lost
          /\ stage' = [g \in Gtrid |->
                         IF g \in empty THEN "absent"
                         ELSE IF g \in busy THEN Advanced(stage[g], "rollback")
                         ELSE stage[g]]
          /\ branches' = {x \in branches : GlobalOf[x] \in lost =>
                                             \E p \in involved : p[1] = x}
          /\ logged' = {x \in logged : GlobalOf[x] \notin empty}
          /\ Send(UNION {JobsFor("rollback", FALSE, req(g), parts(g)) : g \in busy})
          /\ fanout' = fanout \cup {Fan("rollback", req(g), parts(g), "read_only")
                                    : g \in busy}
          /\ issued' = issued \cup {req(g) : g \in lost}
  /\ UNCHANGED <<involved, held, durable, answers, resourceVars, proxyVars>>
-----------------------------------------------------------------------------
(* The proxies of the local resources, as the manager handles them.        *)

(* resource::ready. *)
Ready(i) ==
  /\ Running /\ i \in announced
  /\ announced' = announced \ {i}
  /\ pool' \in Done(pool, i)
  /\ UNCHANGED <<manager, transVars, fanout, logVars, clientVars,
                 resourceVars, up, closing>>

(* scale::instances with a higher count: spawn. *)
ScaleOut(i) ==
  /\ Running /\ pool.state[i] = "absent"
  /\ pool' = [pool EXCEPT !.state[i] = "started"]
  /\ up' = up \cup {i}
  /\ UNCHANGED <<manager, transVars, fanout, logVars, clientVars,
                 resourceVars, announced, closing>>

(* scale::instances with a lower count: a proxy that has not reported is   *)
(* killed, the others are asked to shut down once they reach the message;  *)
(* an exception of that send ends in the admin service.                    *)
ScaleIn(i) ==
  /\ Running /\ i \in MayScaleIn
  /\ pool' = [pool EXCEPT !.state[i] = "shutdown"]
  /\ \/ /\ pool.state[i] = "started"
        /\ up' = up \ {i}
        /\ UNCHANGED closing
     \/ /\ pool.state[i] \in {"idle", "busy"}
        /\ closing' = closing \cup {i}
        /\ UNCHANGED up
  /\ UNCHANGED <<manager, transVars, fanout, logVars, clientVars,
                 resourceVars, announced>>

(* process::exit of a proxy.  Its messages were read before the signal was *)
(* handled (Inbound::push).  A request it had not answered stays awaited.  *)
ProxyExit(i) ==
  /\ Running /\ i \notin up /\ i \notin announced
  /\ pool.state[i] \notin {"absent", "removed"}
  /\ \A m \in replies : m.from # i
  /\ pool' = [pool EXCEPT !.state[i] = "removed"]
  /\ UNCHANGED <<manager, transVars, fanout, logVars, clientVars,
                 resourceVars, proxyVars>>
-----------------------------------------------------------------------------
(* The environment: proxy processes, resource managers, failures.          *)

(* proxy::handle::open: a started proxy reports that it is ready. *)
ProxyStart(i) ==
  /\ i \in up /\ pool.state[i] = "started" /\ i \notin announced
  /\ announced' = announced \cup {i}
  /\ UNCHANGED <<manager, transVars, fanout, pool, logVars, clientVars,
                 resourceVars, up, closing>>

RollbackCode == {c \in Code : Severity[c] \in 6..10 \cup 12..14}

(* What a resource manager answers, and the state it is then in.  A part   *)
(* it does not know (any more) is invalid_xid.                             *)
Refusing(s) == {<<c, IF c \in RollbackCode THEN "rolledback" ELSE s>> :
                  c \in Refusal}
Failing(s) == {<<c, CASE c = "heuristic_commit" -> "committed"
                      [] c = "heuristic_rollback" -> "rolledback"
                      [] OTHER -> s>> : c \in Fault}

(* Resource::prepare turns the protocol error of a part that is prepared   *)
(* already into read_only.                                                 *)
PrepareAnswers(s) ==
  CASE s = "active" -> {<<"ok", "prepared">>, <<"read_only", "readonly">>}
                         \cup Refusing(s)
    [] s = "prepared" -> {<<"read_only", s>>}
    [] OTHER -> {<<"invalid_xid", s>>}

CommitAnswers(s, onephase) ==
  CASE onephase /\ s = "active" -> {<<"ok", "committed">>} \cup Refusing(s)
    [] ~ onephase /\ s = "prepared" -> {<<"ok", "committed">>} \cup Failing(s)
    [] s = (IF onephase THEN "prepared" ELSE "active") -> {<<"protocol", s>>}
    [] OTHER -> {<<"invalid_xid", s>>}

RollbackAnswers(s) ==
  IF s \in {"active", "prepared"}
  THEN {<<"ok", "rolledback">>} \cup (IF s = "prepared" THEN Failing(s) ELSE {})
  ELSE {<<"invalid_xid", s>>}

RmAnswers(j, s) ==
  CASE j.phase = "prepare" -> PrepareAnswers(s)
    [] j.phase = "commit" -> CommitAnswers(s, j.onephase)
    [] j.phase = "rollback" -> RollbackAnswers(s)

Works(j, from) == \E a \in RmAnswers(j, rm[j.part]) :
  /\ rm' = [rm EXCEPT ![j.part] = a[2]]
  /\ replies' = replies \cup {[job |-> j, code |-> a[1], from |-> from]}
  /\ ballot' = IF j.phase = "prepare"
               THEN ballot \cup {[req |-> j.req, part |-> j.part, code |-> a[1]]}
               ELSE ballot

(* proxy::handle::helper: one xa call, one reply. *)
ProxyWork(i) ==
  /\ i \in up
  /\ \E j \in pool.inbox[i] :
       /\ pool' = [pool EXCEPT !.inbox[i] = @ \ {j}]
       /\ Works(j, i)
  /\ UNCHANGED <<manager, transVars, fanout, logVars, clientVars, proxyVars>>

(* The shutdown message is reached: the pump of the proxy ends. *)
ProxyShutdown(i) ==
  /\ i \in up \cap closing /\ pool.inbox[i] = {}
  /\ up' = up \ {i}
  /\ UNCHANGED <<manager, transVars, fanout, pool, logVars, clientVars,
                 resourceVars, announced, closing>>

(* An external resource works on any of its requests. *)
ExternalWork(j) ==
  /\ j \in pool.external
  /\ pool' = [pool EXCEPT !.external = @ \ {j}]
  /\ Works(j, Nobody)
  /\ UNCHANGED <<manager, transVars, fanout, logVars, clientVars, proxyVars>>

ProxyCrash(i) ==
  /\ i \in up \cap MayCrash
  /\ up' = up \ {i}
  /\ UNCHANGED <<manager, transVars, fanout, pool, logVars, clientVars,
                 resourceVars, announced, closing>>
-----------------------------------------------------------------------------
ClientNext ==
  \/ \E x \in Xid, resources \in SUBSET Rm :
       Involve(x, resources) \/ TxCommit(x, resources) \/ TxRollback(x, resources)
  \/ \E x \in Xid, r \in ExternalRm : ExternalInvolve(x, r)
  \/ \E req \in Request : XaCommit(req) \/ XaRollback(req)

ReplyNext == \E m \in replies : PrepareReply(m) \/ OutcomeReply(m)

ProcessNext ==
  \/ \E o \in Process : OwnerExit(o)
  \/ \E i \in Instance :
       \/ Ready(i) \/ ScaleOut(i) \/ ScaleIn(i) \/ ProxyExit(i)
       \/ ProxyStart(i) \/ ProxyWork(i) \/ ProxyShutdown(i) \/ ProxyCrash(i)
  \/ \E j \in pool.external : ExternalWork(j)

Next == ClientNext \/ ReplyNext \/ Persist \/ ProcessNext

Spec == Init /\ [][Next]_vars

(* The manager takes every message that has arrived and persists when none *)
(* is left; proxies and external resources take the requests they have.    *)
(* Clients, administrators and failures owe nothing.                       *)
Fairness ==
  /\ WF_vars(ReplyNext) /\ WF_vars(Persist)
  /\ \A i \in Instance : /\ WF_vars(ProxyWork(i)) /\ WF_vars(ProxyStart(i))
                         /\ WF_vars(Ready(i))
  /\ WF_vars(\E j \in pool.external : ExternalWork(j))

FairSpec == Spec /\ Fairness
-----------------------------------------------------------------------------
(* Properties.                                                             *)

(* The requests that wait for, or are with, a resource. *)
Queued(p, r) == UNION {p.queue[r][n] : n \in DOMAIN p.queue[r]}
JobsIn(p) == p.external \cup (UNION {Queued(p, r) : r \in Rm})
                        \cup (UNION {p.inbox[i] : i \in Instance})
Outstanding == JobsIn(pool)

PoolType ==
  [ state    : [Instance -> ProxyState],
    inbox    : [Instance -> SUBSET Job],
    queue    : [Rm -> Seq((SUBSET Job) \ {{}})],
    external : SUBSET Job ]

(* The type of every variable; no batch of waiting requests is ever empty. *)
TypeOK ==
  /\ manager \in {"running", "terminated"}
  /\ stage \in [Gtrid -> Stage]
  /\ branches \subseteq Xid /\ involved \subseteq Part
  /\ fanout \subseteq Entry
  /\ pool \in PoolType
  /\ held \subseteq Request /\ logged \subseteq Xid /\ durable \subseteq Xid
  /\ issued \subseteq Request /\ answers \in [Request -> Seq(Answer)]
  /\ gone \subseteq Process
  /\ replies \subseteq Reply /\ rm \in [Part -> RmState]
  /\ ballot \subseteq [req : Request, part : Part, code : Code]
  /\ announced \subseteq Instance /\ up \subseteq Instance
  /\ closing \subseteq Instance

(* A proxy that the manager holds idle has nothing to do, and a busy one   *)
(* has exactly one request, with it or answered: State::idle never hands   *)
(* two requests to one proxy, and done never frees one that works.         *)
OneJobPerProxy ==
  \A i \in up :
    LET load == Cardinality(pool.inbox[i]) + Cardinality({m \in replies : m.from = i})
    IN /\ pool.state[i] = "idle" => load = 0
       /\ pool.state[i] = "busy" => load = 1

(* No request waits in pending.requests while a proxy of its resource is   *)
(* idle: whoever frees a proxy looks at the queue.                         *)
NoLostWakeup ==
  \A i \in up : pool.state[i] = "idle" => pool.queue[RmOf[i]] = <<>>

(* What a fan-out still waits for is on its way, once, and nothing is on   *)
(* its way that no fan-out waits for: no request is lost or sent twice     *)
(* between pending.requests, the proxies and the replies.                  *)
AwaitedIsOnItsWay ==
  Running =>
    /\ \A e \in fanout, p \in Part :
         LET same(j) == j.phase = e.phase /\ j.req = e.req /\ j.part = p
             travelling == Cardinality({j \in Outstanding : same(j)})
                           + Cardinality({m \in replies : same(m.job)})
             missing == p \in e.expect /\ \A v \in e.got : v[1] # p
         IN travelling = IF missing THEN 1 ELSE 0
    /\ \A m \in replies : Awaiting(m) # {}

(* The second phase of a two-phase commit is not asked of any resource     *)
(* before every resource has voted, and not at all when one has refused.   *)
CommitAfterVotes ==
  \A j \in Outstanding : j.phase = "commit" /\ ~ j.onephase =>
    /\ \A k \in Outstanding : k.req = j.req => k.phase = "commit"
    /\ \A v \in ballot : v.req = j.req => v.code \in {"ok", "read_only"}

(* No global transaction is committed in one resource and rolled back in   *)
(* another (no owner dies, no resource decides by itself).                 *)
Agreement ==
  \A p, q \in Part : GlobalOf[p[1]] = GlobalOf[q[1]] =>
    ~ (rm[p] = "committed" /\ rm[q] = "rolledback")

(* What tx_commit returns is what happened: after TX_OK no part of the     *)
(* transaction is rolled back or undecided, after a rollback stage no part *)
(* is committed.                                                           *)
AnswerIsTrue ==
  \A x \in Client :
    LET req == [kind |-> "tx_commit", trid |-> x]
        family == {p \in Part : GlobalOf[p[1]] = GlobalOf[x]}
    IN \A n \in DOMAIN answers[req] :
         LET a == answers[req][n]
         IN /\ a.stage = "commit" /\ a.state = "ok" =>
                 \A p \in family : rm[p] \in {"idle", "readonly", "committed"}
            /\ a.stage = "rollback" =>
                 \A p \in family : rm[p] # "committed"

(* A row of the log has a commit under way that will delete it: the log    *)
(* keeps no transaction that nobody finishes.                              *)
LoggedIsCommitting ==
  \A x \in logged : \E e \in fanout :
    e.phase = "commit" /\ GlobalOf[e.req.trid] = GlobalOf[x]

(* A transaction that has left the involved stage has a fan-out that will  *)
(* remove it: none is left behind in state.transactions.                   *)
InProgressIsCoordinated ==
  \A g \in Gtrid : InProgress(g) => \E e \in fanout : GlobalOf[e.req.trid] = g

(* What the assertion in coordinate::prepare wants: a transaction whose    *)
(* votes are being collected is still there when the last one comes in.    *)
PrepareHasContext ==
  \A e \in fanout : e.phase = "prepare" => stage[GlobalOf[e.req.trid]] # "absent"

(* What the log would make a restarted manager commit can be committed: no *)
(* part of a transaction in it is rolled back or has refused, in memory or *)
(* on disk (no owner dies).                                                *)
LoggedIsCommittable ==
  \A x \in logged \cup durable, p \in Part :
    GlobalOf[p[1]] = GlobalOf[x] => rm[p] \notin {"active", "rolledback"}

(* Seen from the resources the manager implements AtomicCommit: it asks   *)
(* for a commit only when nothing else can happen any more.                *)
Atomic == INSTANCE AtomicCommit WITH FamilyOf <- [p \in Part |-> GlobalOf[p[1]]]
ImplementsAtomicCommit == Atomic!Spec

(* Whoever asks for a commit or a rollback gets its final answer, when no  *)
(* proxy dies or is shut down.                                             *)
EveryRequestAnswered ==
  \A req \in Request : req.kind # "exit" => (req \in issued ~> Final(req))
=============================================================================
