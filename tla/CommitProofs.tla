---------------------------- MODULE CommitProofs ----------------------------
(***************************************************************************)
(* The two-phase commit of the transaction manager, for any number of      *)
(* branches, resources and proxies. CommitInv relates the fan-outs         *)
(* (coordinate), the requests and replies on their way and the votes cast; *)
(* it is inductive, and CommitAfterVotes and AwaitedIsOnItsWay follow from *)
(* it. At the end: no transaction in progress and no row of the log is     *)
(* left without a fan-out that will end it.                                *)
(***************************************************************************)
EXTENDS TransactionManagerProofs

USE BranchAssumption, ResourceAssumption, AnswerAssumption

(* Every request of the manager that has no handled reply yet.            *)
Travelling == Outstanding \cup {m.job : m \in replies}

(* A request that has been answered is nowhere else, and answered once.    *)
RepliedOnce ==
  \A m \in replies :
    /\ m.job \notin Outstanding
    /\ \A n \in replies : n.job = m.job => n = m

(* Nothing is coordinated or voted on that has not been asked for, and the *)
(* manager asks itself for a rollback only when an owner dies.             *)
Known ==
  /\ \A e \in fanout : e.req \in issued
  /\ \A v \in ballot : v.req \in issued
  /\ \A x \in Xid : [kind |-> "exit", trid |-> x] \in issued => OwnerOf[x] \in gone

(* A request has one fan-out at a time.                                    *)
OneFanout == \A e, f \in fanout : e.req = f.req => e = f

(* The fan-out e still waits for the reply to j.                           *)
Waits(e, j) ==
  /\ e.req = j.req /\ e.phase = j.phase /\ j.part \in e.expect
  /\ \A v \in e.got : v[1] # j.part

(* Whatever is on its way is waited for, so a reply finds its fan-out.     *)
AwaitedAll == \A j \in Travelling : \E e \in fanout : Waits(e, j)

(* All requests of a coordination commit in one phase, or none does.       *)
OneKind == \A j, k \in Travelling : j.req = k.req => j.onephase = k.onephase

(* What is waited for is on its way, unless a proxy may be shut down.      *)
NothingLost ==
  MayScaleIn = {} /\ Running => \A e \in fanout : \A p \in e.expect :
    (\A v \in e.got : v[1] # p) => \E j \in Travelling : Waits(e, j) /\ j.part = p

(* A vote of an open prepare phase is counted, or its reply is on its way. *)
VotesKept ==
  Running => \A v \in ballot, e \in fanout : e.phase = "prepare" /\ e.req = v.req =>
    \/ <<v.part, v.code>> \in e.got
    \/ \E m \in replies : /\ m.job.req = v.req
                          /\ m.job.part = v.part /\ m.code = v.code

(* What is being committed has no vote against it.                         *)
VotesOk ==
  \A e \in fanout, v \in ballot :
    e.phase = "commit" /\ v.req = e.req => v.code \in {"ok", "read_only"}

(* The inductive invariant.                                                *)
CommitInv ==
  /\ TypeOK /\ Unique(pool) /\ closing \subseteq MayScaleIn
  /\ RepliedOnce /\ Known /\ OneFanout /\ AwaitedAll /\ OneKind /\ NothingLost
  /\ VotesKept /\ VotesOk
-----------------------------------------------------------------------------
(* Whatever is on its way is a request.                                    *)
LEMMA TravellingType == TypeOK => Travelling \subseteq Job
<1> SUFFICES ASSUME TypeOK PROVE Travelling \subseteq Job
  OBVIOUS
<1>1. Outstanding \subseteq Job
  <2> SUFFICES ASSUME NEW j \in Outstanding PROVE j \in Job
    OBVIOUS
  <2>1. pool \in PoolType
    BY DEF TypeOK
  <2>2. CASE j \in pool.external
    BY <2>1, <2>2 DEF PoolType
  <2>3. ASSUME NEW r \in Rm, NEW n \in DOMAIN pool.queue[r], j \in pool.queue[r][n]
        PROVE  j \in Job
    <3>1. pool.queue[r] \in Seq((SUBSET Job) \ {{}})
      BY <2>1 DEF PoolType
    <3>2. pool.queue[r][n] \in (SUBSET Job) \ {{}}
      BY <3>1, LenProperties, ElementOfSeq
    <3>3. QED
      BY <2>3, <3>2
  <2>4. ASSUME NEW i \in Instance, j \in pool.inbox[i] PROVE j \in Job
    BY <2>1, <2>4 DEF PoolType
  <2>5. QED
    BY <2>2, <2>3, <2>4, InJobsIn DEF Outstanding
<1>2. QED
  BY <1>1 DEF Travelling, TypeOK, Reply

(* A resource of a branch has at most one request of one coordination on   *)
(* its way: the correlation that Out::operator() looks for is unique.      *)
LEMMA SameJob ==
  ASSUME CommitInv, NEW j \in Travelling, NEW k \in Travelling,
         j.req = k.req, j.part = k.part
  PROVE  j = k
<1>1. j.phase = k.phase
  BY DEF CommitInv, AwaitedAll, OneFanout, Waits
<1>2. j.onephase = k.onephase
  BY DEF CommitInv, OneKind
<1>3. j \in Job /\ k \in Job
  BY TravellingType DEF CommitInv
<1>4. QED
  BY <1>1, <1>2, <1>3 DEF Job

(* Nothing is on its way for a request that nobody has made.               *)
LEMMA KnownJobs ==
  ASSUME CommitInv, NEW j \in Travelling
  PROVE  j.req \in issued
  BY DEF CommitInv, AwaitedAll, Known, Waits

(* The manager starts with nothing on its way.                             *)
LEMMA CommitInit == Init => CommitInv
<1> SUFFICES ASSUME Init PROVE CommitInv
  OBVIOUS
<1>1. TypeOK
  BY TypeInit
<1>2. Outstanding = {}
  BY DEF Init, Outstanding, JobsIn, Queued
<1>3. Travelling = {}
  BY <1>2 DEF Init, Travelling
<1>4. Unique(pool)
  BY DEF Init, Unique
<1>5. QED
  BY <1>1, <1>3, <1>4 DEF Init, CommitInv, RepliedOnce, Known, OneFanout,
     AwaitedAll, OneKind, NothingLost, VotesKept, VotesOk

(* Requests may be dropped with a proxy that is shut down. *)
LEMMA QuietStep ==
  ASSUME CommitInv, TypeOK', Unique(pool)', closing' \subseteq MayScaleIn,
         Outstanding' \subseteq Outstanding,
         MayScaleIn = {} => Outstanding' = Outstanding,
         UNCHANGED <<fanout, replies, ballot>>, manager' = manager,
         issued \subseteq issued', gone \subseteq gone',
         \A x \in Xid : [kind |-> "exit", trid |-> x] \in issued' => OwnerOf[x] \in gone'
  PROVE  CommitInv'
<1>1. Travelling' \subseteq Travelling /\ (MayScaleIn = {} => Travelling' = Travelling)
  BY DEF Travelling
<1>2. RepliedOnce' /\ Known' /\ OneFanout'
  BY DEF CommitInv, RepliedOnce, Known, OneFanout
<1>3. AwaitedAll' /\ OneKind'
  BY <1>1 DEF CommitInv, AwaitedAll, OneKind, Waits
<1>4. NothingLost'
  BY <1>1 DEF CommitInv, NothingLost, Waits, Running
<1>5. VotesKept' /\ VotesOk'
  BY DEF CommitInv, VotesKept, VotesOk, Running
<1>6. QED
  BY <1>2, <1>3, <1>4, <1>5 DEF CommitInv

(* The fan-outs of a handler are for requests nobody has made before, each *)
(* has its jobs and every job its fan-out.                                 *)
Issues(jobs, fans) ==
  /\ \A f \in fans : /\ f.req \notin issued /\ f.req \in issued' /\ f.got = {}
                     /\ \A g \in fans : g.req = f.req => g = f
                     /\ \A p \in f.expect : \E j \in jobs : Waits(f, j) /\ j.part = p
  /\ \A j \in jobs : \E f \in fans : Waits(f, j)
  /\ \A j, k \in jobs : j.req = k.req => j.onephase = k.onephase

(* A handler that starts fan-outs, with all their requests in one step,    *)
(* keeps the invariant: coordinate's Out::operator() is filled and the     *)
(* requests are sent before the next message is taken.                     *)
LEMMA IssueStep ==
  ASSUME CommitInv, TypeOK', Unique(pool)', closing' \subseteq MayScaleIn,
         NEW jobs \in SUBSET Job, NEW fans \in SUBSET Entry,
         Outstanding' = Outstanding \cup jobs, fanout' = fanout \cup fans,
         Issues(jobs, fans),
         UNCHANGED <<replies, ballot>>, manager' = "running" => manager = "running",
         issued \subseteq issued', gone \subseteq gone',
         \A x \in Xid : [kind |-> "exit", trid |-> x] \in issued' => OwnerOf[x] \in gone'
  PROVE  CommitInv'
<1> USE DEF Issues
<1>1. Travelling' = Travelling \cup jobs
  BY DEF Travelling
<1>2. \A j \in jobs : j.req \notin issued
  BY DEF Waits
<1>3. \A j \in jobs, k \in Travelling : j.req # k.req
  BY <1>2, KnownJobs
<1>4. RepliedOnce'
  BY <1>3 DEF CommitInv, RepliedOnce, Travelling
<1>5. Known' /\ OneFanout'
  BY DEF CommitInv, Known, OneFanout
<1>6. AwaitedAll' /\ OneKind'
  BY <1>1, <1>3 DEF CommitInv, AwaitedAll, OneKind, Waits
<1>7. NothingLost'
  <2> SUFFICES ASSUME MayScaleIn = {}, Running', NEW e \in fanout', NEW p \in e.expect,
                      \A v \in e.got : v[1] # p
               PROVE  \E j \in Travelling' : Waits(e, j) /\ j.part = p
    BY DEF NothingLost, Waits
  <2>1. CASE e \in fanout
    BY <1>1, <2>1 DEF CommitInv, NothingLost, Running
  <2>2. CASE e \in fans
    BY <1>1, <2>2
  <2>3. QED
    BY <2>1, <2>2
<1>8. VotesKept' /\ VotesOk'
  BY DEF CommitInv, VotesKept, VotesOk, Running, Known
<1>9. QED
  BY <1>4, <1>5, <1>6, <1>7, <1>8 DEF CommitInv

(* A resource that takes a request and answers it keeps the invariant: the *)
(* request leaves its place, the reply is its only trace and a vote goes   *)
(* with it.                                                                *)
LEMMA WorkStep ==
  ASSUME CommitInv, TypeOK', Unique(pool)',
         NEW j \in Outstanding, NEW m \in Reply, m.job = j,
         Outstanding' = Outstanding \ {j}, replies' = replies \cup {m},
         ballot' = IF j.phase = "prepare"
                   THEN ballot \cup {[req |-> j.req, part |-> j.part, code |-> m.code]}
                   ELSE ballot,
         UNCHANGED <<fanout, manager, issued, gone, closing>>
  PROVE  CommitInv'
<1>1. Travelling' = Travelling /\ j \in Travelling
  BY DEF Travelling
<1>2. RepliedOnce'
  BY DEF CommitInv, RepliedOnce
<1>3. j.req \in issued
  BY <1>1, KnownJobs
<1>4. Known'
  BY <1>3 DEF CommitInv, Known
<1>5. OneFanout'
  BY DEF CommitInv, OneFanout
<1>6. AwaitedAll' /\ OneKind'
  BY <1>1 DEF CommitInv, AwaitedAll, OneKind, Waits
<1>7. NothingLost'
  BY <1>1 DEF CommitInv, NothingLost, Waits, Running
<1>8. VotesKept'
  <2> SUFFICES ASSUME Running, NEW v \in ballot', NEW e \in fanout,
                      e.phase = "prepare", e.req = v.req
               PROVE  \/ <<v.part, v.code>> \in e.got
                      \/ \E n \in replies' : /\ n.job.req = v.req
                                             /\ n.job.part = v.part /\ n.code = v.code
    BY DEF VotesKept, Running
  <2>1. CASE v \in ballot
    BY <2>1 DEF CommitInv, VotesKept
  <2>2. CASE v = [req |-> j.req, part |-> j.part, code |-> m.code]
    BY <2>2
  <2>3. QED
    BY <2>1, <2>2
<1>9. VotesOk'
  <2>1. \A e \in fanout : j.phase = "prepare" /\ e.req = j.req => e.phase # "commit"
    BY <1>1 DEF CommitInv, AwaitedAll, OneFanout, Waits
  <2>2. QED
    BY <2>1 DEF CommitInv, VotesOk
<1>10. QED
  BY <1>2, <1>4, <1>5, <1>6, <1>7, <1>8, <1>9 DEF CommitInv

(* Nothing else is on its way for the part whose reply is handled. *)
LEMMA OthersOfReply ==
  ASSUME CommitInv, NEW m \in replies, NEW e \in Awaiting(m), NEW O \in SUBSET Outstanding,
         NEW j \in O \cup {n.job : n \in replies \ {m}}
  PROVE  /\ j \in Travelling
         /\ j.req = e.req => /\ Waits(e, j) /\ j.part # m.job.part
                             /\ ~ Complete(Received(e, m))
<1>1. j \in Travelling /\ m.job \in Travelling
  BY DEF Travelling
<1>2. j # m.job
  BY DEF CommitInv, RepliedOnce
<1>3. ASSUME j.req = e.req
      PROVE  Waits(e, j) /\ j.part # m.job.part /\ ~ Complete(Received(e, m))
  <2>1. Waits(e, j)
    BY <1>1, <1>3 DEF CommitInv, AwaitedAll, OneFanout, Awaiting, Waits
  <2>2. j.part # m.job.part
    BY <1>1, <1>2, <1>3, SameJob DEF Awaiting
  <2>3. /\ Received(e, m).expect = e.expect
        /\ Received(e, m).got = e.got \cup {<<m.job.part, m.code>>}
    <3>1. e \in Entry
      BY DEF Awaiting, CommitInv, TypeOK
    <3>2. QED
      BY <3>1 DEF Received, Entry
  <2>4. ~ Complete(Received(e, m))
    BY <2>1, <2>2, <2>3 DEF Complete, Waits
  <2>5. QED
    BY <2>1, <2>2, <2>4
<1>4. QED
  BY <1>1, <1>3

(* A reply that is not the last one: received() notes it and the fan-out   *)
(* waits for the rest.                                                     *)
LEMMA PartialStep ==
  ASSUME CommitInv, TypeOK', Unique(pool)', NEW m \in replies, NEW e \in Awaiting(m),
         Outstanding' \in SUBSET Outstanding,
         MayScaleIn = {} => Outstanding' = Outstanding,
         fanout' = (fanout \ {e}) \cup {Received(e, m)}, replies' = replies \ {m},
         UNCHANGED <<manager, issued, gone, closing, ballot>>
  PROVE  CommitInv'
<1> DEFINE e2 == Received(e, m)
<1>1. e \in fanout /\ e \in Entry /\ e.req = m.job.req /\ e.phase = m.job.phase
  BY DEF Awaiting, CommitInv, TypeOK
<1>2. /\ e2.phase = e.phase /\ e2.req = e.req /\ e2.expect = e.expect
      /\ e2.got = e.got \cup {<<m.job.part, m.code>>}
  BY <1>1 DEF Received, Entry
<1>3. Travelling' = Outstanding' \cup {n.job : n \in replies \ {m}}
  BY DEF Travelling
<1> HIDE DEF e2
<1>4. /\ Travelling' \subseteq Travelling
      /\ \A j \in Travelling' : j.req = e.req => j.part # m.job.part
  BY <1>3, OthersOfReply
<1>5. fanout' = (fanout \ {e}) \cup {e2}
  BY DEF e2
<1>6. RepliedOnce'
  BY DEF CommitInv, RepliedOnce
<1>7. Known' /\ OneFanout'
  BY <1>1, <1>2, <1>5 DEF CommitInv, Known, OneFanout
<1>8. ASSUME NEW j \in Travelling' PROVE \E f \in fanout' : Waits(f, j)
  <2>1. PICK f \in fanout : Waits(f, j)
    BY <1>4, <1>8 DEF CommitInv, AwaitedAll
  <2>2. CASE f # e
    BY <1>5, <2>1, <2>2
  <2>3. CASE f = e
    <3>1. j.part # m.job.part
      BY <1>4, <1>8, <2>1, <2>3 DEF Waits
    <3>2. \A v \in e2.got : v[1] # j.part
      BY <1>2, <2>1, <2>3, <3>1 DEF Waits
    <3>3. Waits(e2, j)
      BY <1>2, <2>1, <2>3, <3>2 DEF Waits
    <3>4. QED
      BY <1>5, <3>3
  <2>4. QED
    BY <2>2, <2>3
<1>9. AwaitedAll'
  BY <1>8 DEF AwaitedAll, Waits
<1>10. OneKind'
  BY <1>4 DEF CommitInv, OneKind
<1>11. NothingLost'
  <2> SUFFICES ASSUME MayScaleIn = {}, Running, NEW f \in fanout', NEW p \in f.expect,
                      \A v \in f.got : v[1] # p
               PROVE  \E j \in Travelling' : Waits(f, j) /\ j.part = p
    BY DEF NothingLost, Waits, Running
  <2>1. \A j \in Travelling : j # m.job => j \in Travelling'
    BY <1>3 DEF Travelling
  <2>2. CASE f = e2
    <3>1. p # m.job.part /\ \A v \in e.got : v[1] # p
      <4>1. \A v \in e2.got : v[1] # p
        BY <2>2
      <4>2. <<m.job.part, m.code>> \in e2.got /\ \A v \in e.got : v \in e2.got
        BY <1>2
      <4>3. <<m.job.part, m.code>>[1] # p
        BY <4>1, <4>2
      <4>4. QED
        BY <4>1, <4>2, <4>3
    <3>2. PICK j \in Travelling : Waits(e, j) /\ j.part = p
      BY <1>1, <1>2, <2>2, <3>1 DEF CommitInv, NothingLost
    <3>3. Waits(e2, j)
      BY <1>2, <3>1, <3>2 DEF Waits
    <3>4. QED
      BY <2>1, <2>2, <3>1, <3>2, <3>3
  <2>3. CASE f \in fanout /\ f # e
    <3>1. PICK j \in Travelling : Waits(f, j) /\ j.part = p
      BY <2>3 DEF CommitInv, NothingLost
    <3>2. j # m.job
      BY <1>1, <2>3, <3>1 DEF CommitInv, OneFanout, Waits
    <3>3. QED
      BY <2>1, <3>1, <3>2
  <2>4. QED
    BY <1>5, <2>2, <2>3
<1>12. VotesKept'
  <2> SUFFICES ASSUME Running, NEW v \in ballot, NEW f \in fanout',
                      f.phase = "prepare", f.req = v.req
               PROVE  \/ <<v.part, v.code>> \in f.got
                      \/ \E n \in replies \ {m} : /\ n.job.req = v.req
                                                  /\ n.job.part = v.part /\ n.code = v.code
    BY DEF VotesKept, Running
  <2>1. CASE f = e2
    BY <1>1, <1>2, <2>1 DEF CommitInv, VotesKept
  <2>2. CASE f \in fanout /\ f # e
    <3>1. f.req # m.job.req
      BY <1>1, <2>2 DEF CommitInv, OneFanout
    <3>2. QED
      BY <2>2, <3>1 DEF CommitInv, VotesKept
  <2>3. QED
    BY <1>5, <2>1, <2>2
<1>13. VotesOk'
  BY <1>1, <1>2, <1>5 DEF CommitInv, VotesOk
<1>14. QED
  BY <1>6, <1>7, <1>9, <1>10, <1>11, <1>12, <1>13 DEF CommitInv

(* The assertion of the prepare callback ends the manager. *)
LEMMA AssertStep ==
  ASSUME CommitInv, TypeOK', Unique(pool)', NEW m \in replies,
         Outstanding' \in SUBSET Outstanding,
         replies' = replies \ {m}, manager' = "terminated",
         UNCHANGED <<fanout, issued, gone, closing, ballot>>
  PROVE  CommitInv'
<1>1. Travelling' \subseteq Travelling
  BY DEF Travelling
<1>2. RepliedOnce'
  BY DEF CommitInv, RepliedOnce
<1>3. Known' /\ OneFanout' /\ VotesOk'
  BY DEF CommitInv, Known, OneFanout, VotesOk
<1>4. AwaitedAll' /\ OneKind'
  BY <1>1 DEF CommitInv, AwaitedAll, OneKind, Waits
<1>5. NothingLost' /\ VotesKept'
  BY DEF NothingLost, VotesKept, Running
<1>6. QED
  BY <1>2, <1>3, <1>4, <1>5 DEF CommitInv

(* The last reply of a fan-out. *)
LEMMA CompleteStep ==
  ASSUME CommitInv, TypeOK', Unique(pool)', NEW m \in replies, NEW e \in Awaiting(m),
         Complete(Received(e, m)),
         Outstanding' \in SUBSET Outstanding,
         MayScaleIn = {} => Outstanding' = Outstanding,
         fanout' = fanout \ {e}, replies' = replies \ {m},
         UNCHANGED <<manager, issued, gone, closing, ballot>>
  PROVE  CommitInv'
<1>1. e \in fanout /\ e \in Entry /\ e.req = m.job.req /\ e.phase = m.job.phase
  BY DEF Awaiting, CommitInv, TypeOK
<1>2. Travelling' = Outstanding' \cup {n.job : n \in replies \ {m}}
  BY DEF Travelling
<1>3. \A j \in Travelling' : j \in Travelling /\ j.req # e.req
  BY <1>2, OthersOfReply
<1>4. RepliedOnce'
  BY DEF CommitInv, RepliedOnce
<1>5. Known' /\ OneFanout' /\ VotesOk'
  BY DEF CommitInv, Known, OneFanout, VotesOk
<1>6. AwaitedAll' /\ OneKind'
  BY <1>3 DEF CommitInv, AwaitedAll, OneKind, Waits
<1>7. NothingLost'
  <2> SUFFICES ASSUME MayScaleIn = {}, Running, NEW f \in fanout, f # e, NEW p \in f.expect,
                      \A v \in f.got : v[1] # p
               PROVE  \E j \in Travelling' : Waits(f, j) /\ j.part = p
    BY DEF NothingLost, Waits, Running
  <2>1. PICK j \in Travelling : Waits(f, j) /\ j.part = p
    BY DEF CommitInv, NothingLost
  <2>2. j # m.job
    BY <1>1, <2>1 DEF CommitInv, OneFanout, Waits
  <2>3. QED
    BY <1>2, <2>1, <2>2 DEF Travelling
<1>8. VotesKept'
  <2> SUFFICES ASSUME Running, NEW v \in ballot, NEW f \in fanout, f # e,
                      f.phase = "prepare", f.req = v.req
               PROVE  \/ <<v.part, v.code>> \in f.got
                      \/ \E n \in replies \ {m} : /\ n.job.req = v.req
                                                  /\ n.job.part = v.part /\ n.code = v.code
    BY DEF VotesKept, Running
  <2>1. f.req # m.job.req
    BY <1>1 DEF CommitInv, OneFanout
  <2>2. QED
    BY <2>1 DEF CommitInv, VotesKept
<1>9. QED
  BY <1>4, <1>5, <1>6, <1>7, <1>8 DEF CommitInv

(* The last vote, after which the transaction is committed or rolled back. *)
LEMMA SecondPhaseStep ==
  ASSUME CommitInv, TypeOK', Unique(pool)', NEW m \in replies, NEW e \in Awaiting(m),
         Complete(Received(e, m)), e.phase = "prepare", Running,
         NEW O \in SUBSET Outstanding,
         MayScaleIn = {} => O = Outstanding,
         NEW phase \in {"commit", "rollback"}, NEW parts \in SUBSET Part, NEW code \in Code,
         phase = "commit" => \A v \in Received(e, m).got : v[2] \in {"ok", "read_only"},
         Outstanding' = O \cup JobsFor(phase, FALSE, e.req, parts),
         fanout' = (fanout \ {e}) \cup {Fan(phase, e.req, parts, code)},
         replies' = replies \ {m}, manager' \in {"running", "terminated"},
         UNCHANGED <<issued, gone, closing, ballot>>
  PROVE  CommitInv'
<1> DEFINE f == Fan(phase, e.req, parts, code)
           jobs == JobsFor(phase, FALSE, e.req, parts)
           rest == O \cup {n.job : n \in replies \ {m}}
<1>1. e \in fanout /\ e \in Entry /\ e.req = m.job.req /\ e.phase = m.job.phase
  BY DEF Awaiting, CommitInv, TypeOK
<1>2. /\ f.phase = phase /\ f.req = e.req /\ f.expect = parts /\ f.got = {}
      /\ \A j \in jobs : j.req = e.req /\ j.phase = phase /\ j.part \in parts
                        /\ j.onephase = FALSE
      /\ \A p \in parts : \E j \in jobs : j.part = p
  <2>1. \A p \in parts : [phase |-> phase, onephase |-> FALSE, req |-> e.req, part |-> p] \in jobs
    BY DEF JobsFor
  <2>2. QED
    BY <2>1 DEF Fan, JobsFor
<1> HIDE DEF f, jobs
<1>3. Travelling' = rest \cup jobs /\ fanout' = (fanout \ {e}) \cup {f}
  BY DEF Travelling, f, jobs
<1>4. rest \subseteq Travelling /\ \A j \in rest : j.req # e.req
  BY OthersOfReply
<1>5. \A j \in jobs : Waits(f, j)
  BY <1>2 DEF Waits
<1>6. RepliedOnce'
  <2>1. \A n \in replies \ {m} : n.job \notin O /\ n.job \notin jobs
    BY <1>2, <1>4 DEF CommitInv, RepliedOnce
  <2>2. Outstanding' = O \cup jobs
    BY DEF jobs
  <2>3. QED
    BY <2>1, <2>2 DEF CommitInv, RepliedOnce
<1>7. Known' /\ OneFanout'
  BY <1>1, <1>2, <1>3 DEF CommitInv, Known, OneFanout
<1> HIDE DEF rest
<1>8. ASSUME NEW j \in Travelling' PROVE \E g \in fanout' : Waits(g, j)
  <2>1. CASE j \in jobs
    BY <1>3, <1>5, <2>1
  <2>2. CASE j \in rest
    <3>1. PICK g \in fanout : Waits(g, j)
      BY <1>4, <2>2 DEF CommitInv, AwaitedAll
    <3>2. g # e
      BY <1>4, <2>2, <3>1 DEF Waits
    <3>3. QED
      BY <1>3, <3>1, <3>2
  <2>3. QED
    BY <1>3, <1>8, <2>1, <2>2
<1>9. AwaitedAll'
  BY <1>8 DEF AwaitedAll, Waits
<1>10. OneKind'
  <2> SUFFICES ASSUME NEW j \in rest \cup jobs, NEW k \in rest \cup jobs, j.req = k.req
               PROVE  j.onephase = k.onephase
    BY <1>3 DEF OneKind
  <2>1. CASE j \in rest /\ k \in rest
    BY <1>4, <2>1 DEF CommitInv, OneKind
  <2>2. CASE j \in jobs /\ k \in jobs
    BY <1>2, <2>2
  <2>3. QED
    BY <1>2, <1>4, <2>1, <2>2
<1>11. NothingLost'
  <2> SUFFICES ASSUME MayScaleIn = {}, NEW g \in fanout', NEW p \in g.expect,
                      \A v \in g.got : v[1] # p
               PROVE  \E j \in Travelling' : Waits(g, j) /\ j.part = p
    BY DEF NothingLost, Waits
  <2>1. CASE g = f
    BY <1>2, <1>3, <1>5, <2>1
  <2>2. CASE g \in fanout /\ g # e
    <3>1. PICK j \in Travelling : Waits(g, j) /\ j.part = p
      BY <2>2 DEF CommitInv, NothingLost
    <3>2. j # m.job
      BY <1>1, <2>2, <3>1 DEF CommitInv, OneFanout, Waits
    <3>3. j \in rest
      BY <3>2 DEF rest, Travelling
    <3>4. QED
      BY <1>3, <3>1, <3>3
  <2>3. QED
    BY <1>3, <2>1, <2>2
<1>12. VotesKept'
  <2> SUFFICES ASSUME NEW v \in ballot, NEW g \in fanout', g.phase = "prepare", g.req = v.req
               PROVE  \/ <<v.part, v.code>> \in g.got
                      \/ \E n \in replies \ {m} : /\ n.job.req = v.req
                                                  /\ n.job.part = v.part /\ n.code = v.code
    BY DEF VotesKept
  <2>1. g \in fanout /\ g # e
    BY <1>2, <1>3
  <2>2. g.req # m.job.req
    BY <1>1, <2>1 DEF CommitInv, OneFanout
  <2>3. QED
    BY <2>1, <2>2 DEF CommitInv, VotesKept
<1>13. VotesOk'
  <2> SUFFICES ASSUME NEW g \in fanout', NEW v \in ballot, g.phase = "commit", v.req = g.req
               PROVE  v.code \in {"ok", "read_only"}
    BY DEF VotesOk
  <2>1. CASE g \in fanout
    BY <2>1 DEF CommitInv, VotesOk
  <2>2. CASE g = f
    <3>1. phase = "commit" /\ v.req = e.req
      BY <1>2, <2>2
    <3>2. Received(e, m).got = e.got \cup {<<m.job.part, m.code>>}
      BY <1>1 DEF Received, Entry
    <3>3. CASE <<v.part, v.code>> \in e.got
      <4>1. <<v.part, v.code>> \in Received(e, m).got
        BY <3>2, <3>3
      <4>2. <<v.part, v.code>>[2] \in {"ok", "read_only"}
        BY <3>1, <4>1
      <4>3. QED
        BY <4>2
    <3>4. ASSUME NEW n \in replies, n.job.req = v.req, n.job.part = v.part, n.code = v.code
          PROVE  v.code \in {"ok", "read_only"}
      <4>1. n = m
        BY <1>4, <3>1, <3>4 DEF rest
      <4>2. <<m.job.part, m.code>> \in Received(e, m).got
        BY <3>2
      <4>3. <<m.job.part, m.code>>[2] \in {"ok", "read_only"}
        BY <3>1, <4>2
      <4>4. QED
        BY <3>4, <4>1, <4>3
    <3>5. QED
      BY <1>1, <3>1, <3>3, <3>4 DEF CommitInv, VotesKept
  <2>3. QED
    BY <1>3, <2>1, <2>2
<1>14. QED
  BY <1>6, <1>7, <1>9, <1>10, <1>11, <1>12, <1>13 DEF CommitInv
-----------------------------------------------------------------------------
(* What send::resource::request adds to the pool is exactly what it was    *)
(* given.                                                                  *)
LEMMA SendJobs ==
  ASSUME CommitInv, NEW jobs \in SUBSET Job, Send(jobs), jobs \cap Outstanding = {}
  PROVE  Outstanding' = Outstanding \cup jobs /\ Unique(pool)'
<1>1. pool \in PoolType /\ Unique(pool) /\ jobs \cap JobsIn(pool) = {}
  BY DEF CommitInv, TypeOK, Outstanding
<1>2. JobsIn(pool') = JobsIn(pool) \cup jobs /\ Unique(pool')
  BY <1>1, SentJobs DEF Send
<1>3. QED
  BY <1>2 DEF Outstanding, Unique

(* One request of a client or of another domain, answered by one fan-out.  *)
LEMMA IssueOne ==
  ASSUME CommitInv, TypeOK', Running, NEW req \in Request, req \notin issued,
         req.kind # "exit", issued' = issued \cup {req},
         NEW phase \in Phase, NEW one \in BOOLEAN, NEW parts \in SUBSET Part,
         Send(JobsFor(phase, one, req, parts)),
         fanout' = fanout \cup {Fan(phase, req, parts, "read_only")},
         UNCHANGED <<replies, ballot, gone, closing>>
  PROVE  CommitInv'
<1> DEFINE f == Fan(phase, req, parts, "read_only")
           jobs == JobsFor(phase, one, req, parts)
<1>1. /\ f \in Entry /\ f.req = req /\ f.phase = phase /\ f.expect = parts /\ f.got = {}
      /\ jobs \in SUBSET Job
  BY FanType, JobsForType, StringsOfPhases DEF Fan
<1>2. /\ \A j \in jobs : j.req = req /\ j.phase = phase /\ j.part \in parts
                        /\ j.onephase = one
      /\ \A p \in parts : \E j \in jobs : j.part = p
  <2>1. \A p \in parts : [phase |-> phase, onephase |-> one, req |-> req, part |-> p] \in jobs
    BY DEF JobsFor
  <2>2. QED
    BY <2>1 DEF JobsFor
<1>3. jobs \cap Outstanding = {}
  BY <1>2, KnownJobs DEF Travelling
<1>4. Send(jobs) /\ fanout' = fanout \cup {f}
  OBVIOUS
<1> HIDE DEF f, jobs
<1>5. Outstanding' = Outstanding \cup jobs /\ Unique(pool)'
  BY <1>1, <1>3, <1>4, SendJobs
<1>6. \A j \in jobs : Waits(f, j)
  BY <1>1, <1>2 DEF Waits
<1>7. \A x \in Xid : [kind |-> "exit", trid |-> x] \in issued' => OwnerOf[x] \in gone'
  BY DEF CommitInv, Known
<1>8. closing' \subseteq MayScaleIn
  BY DEF CommitInv
<1> DEFINE fans == {f}
<1>9. fans \in SUBSET Entry /\ fanout' = fanout \cup fans /\ Issues(jobs, fans)
  BY <1>1, <1>2, <1>4, <1>6 DEF Issues
<1> HIDE DEF fans
<1>10. QED
  BY <1>1, <1>5, <1>7, <1>8, <1>9, IssueStep DEF Running

(* A request that is answered at once, or only noted, starts nothing.      *)
LEMMA QuietRequest ==
  ASSUME CommitInv, TypeOK',
         \A x \in Xid : [kind |-> "exit", trid |-> x] \in issued' =>
                           [kind |-> "exit", trid |-> x] \in issued,
         issued \subseteq issued',
         UNCHANGED <<manager, fanout, pool, replies, ballot, gone, closing>>
  PROVE  CommitInv'
<1>1. Outstanding' = Outstanding /\ Unique(pool)'
  BY DEF CommitInv, Outstanding, Unique, JobsIn, Queued
<1>2. closing' \subseteq MayScaleIn
  BY DEF CommitInv
<1>3. \A x \in Xid : [kind |-> "exit", trid |-> x] \in issued' => OwnerOf[x] \in gone'
  BY DEF CommitInv, Known
<1>4. QED
  BY <1>1, <1>2, <1>3, QuietStep

(* The common tail of commit::request and prepare::commit::phase starts    *)
(* one fan-out, of prepare or of a commit in one phase.                    *)
LEMMA StartCommitStep ==
  ASSUME CommitInv, TypeOK', Running, NEW req \in Request, req \notin issued,
         req.kind # "exit", issued' = issued \cup {req},
         NEW inv \in SUBSET Part, NEW br, StartCommit(req, inv, br),
         UNCHANGED <<replies, ballot, gone, closing>>
  PROVE  CommitInv'
<1> DEFINE parts == PartsOf(GlobalOf[req.trid], inv)
<1>1. PICK phase \in {"commit", "prepare"}, one \in BOOLEAN :
        /\ Send(JobsFor(phase, one, req, parts))
        /\ fanout' = fanout \cup {Fan(phase, req, parts, "read_only")}
  BY DEF StartCommit
<1>2. parts \in SUBSET Part
  BY DEF PartsOf
<1> HIDE DEF parts
<1>3. QED
  BY <1>1, <1>2, IssueOne, StringsOfPhases

(* The handlers of the requests of clients, servers and other domains keep *)
(* the invariant.                                                          *)
LEMMA CommitClient == CommitInv /\ ClientNext => CommitInv'
<1> SUFFICES ASSUME CommitInv, ClientNext PROVE CommitInv'
  OBVIOUS
<1>1. TypeOK' /\ TypeOK
  BY TypeClient DEF CommitInv
<1> USE DEF logVars, clientVars, proxyVars, transVars, resourceVars
<1>2. ASSUME NEW x \in Xid, NEW S \in SUBSET Rm, Involve(x, S) PROVE CommitInv'
  BY <1>1, <1>2, QuietRequest DEF Involve
<1>3. ASSUME NEW x \in Xid, NEW r \in ExternalRm, ExternalInvolve(x, r) PROVE CommitInv'
  BY <1>1, <1>3, QuietRequest DEF ExternalInvolve
<1>4. \A x \in Xid, S \in SUBSET Rm : involved \cup ({x} \X S) \in SUBSET Part
  BY <1>1 DEF TypeOK, Part, Resource
<1>5. ASSUME NEW x \in Xid, NEW S \in SUBSET Rm, TxCommit(x, S) PROVE CommitInv'
  <2> DEFINE req == [kind |-> "tx_commit", trid |-> x]
             inv == involved \cup ({x} \X S)
  <2>1. /\ req \in Request /\ req.kind # "exit" /\ req \notin issued
        /\ inv \in SUBSET Part
    BY <1>4, <1>5 DEF TxCommit, ClientMayCommit, Asked, Request, TxKind
  <2>2. /\ Running /\ issued' = issued \cup {req}
        /\ UNCHANGED <<replies, ballot, gone, closing>>
        /\ \/ UNCHANGED <<manager, fanout, pool>>
           \/ \E br : StartCommit(req, inv, br)
    BY <1>5 DEF TxCommit
  <2>3. \A y \in Xid : [kind |-> "exit", trid |-> y] # req
    OBVIOUS
  <2> HIDE DEF req, inv
  <2>4. CASE UNCHANGED <<manager, fanout, pool>>
    BY <1>1, <2>2, <2>3, <2>4, QuietRequest
  <2>5. QED
    BY <1>1, <2>1, <2>2, <2>4, StartCommitStep
<1>6. ASSUME NEW x \in Xid, NEW S \in SUBSET Rm, TxRollback(x, S) PROVE CommitInv'
  <2> DEFINE req == [kind |-> "tx_rollback", trid |-> x]
             parts == PartsOf(GlobalOf[x], involved \cup ({x} \X S))
  <2>1. /\ req \in Request /\ req.kind # "exit" /\ req \notin issued
        /\ parts \in SUBSET Part
    BY <1>4, <1>6 DEF TxRollback, ClientMayRollback, Request, TxKind, PartsOf
  <2>2. /\ Running /\ issued' = issued \cup {req}
        /\ UNCHANGED <<replies, ballot, gone, closing>>
        /\ \/ UNCHANGED <<manager, fanout, pool>>
           \/ /\ Send(JobsFor("rollback", FALSE, req, parts))
              /\ fanout' = fanout \cup {Fan("rollback", req, parts, "read_only")}
    BY <1>6 DEF TxRollback
  <2>3. \A y \in Xid : [kind |-> "exit", trid |-> y] # req
    OBVIOUS
  <2> HIDE DEF req, parts
  <2>4. CASE UNCHANGED <<manager, fanout, pool>>
    BY <1>1, <2>2, <2>3, <2>4, QuietRequest
  <2>5. QED
    BY <1>1, <2>1, <2>2, <2>4, IssueOne, StringsOfPhases
<1>7. ASSUME NEW req \in Request, XaCommit(req) PROVE CommitInv'
  <2>1. req.kind # "exit" /\ req \notin issued /\ involved \in SUBSET Part
    BY <1>1, <1>7 DEF XaCommit, UpstreamMay, TypeOK
  <2>2. /\ Running /\ issued' = issued \cup {req}
        /\ UNCHANGED <<replies, ballot, gone, closing>>
        /\ \/ UNCHANGED <<manager, fanout, pool>>
           \/ StartCommit(req, involved, branches)
    BY <1>7 DEF XaCommit, AnswerReadOnly
  <2>3. \A y \in Xid : [kind |-> "exit", trid |-> y] # req
    BY <2>1
  <2>4. CASE UNCHANGED <<manager, fanout, pool>>
    BY <1>1, <2>2, <2>3, <2>4, QuietRequest
  <2>5. QED
    BY <1>1, <2>1, <2>2, <2>4, StartCommitStep
<1>8. ASSUME NEW req \in Request, XaRollback(req) PROVE CommitInv'
  <2> DEFINE parts == PartsOf(GlobalOf[req.trid], involved)
  <2>1. req.kind # "exit" /\ req \notin issued /\ parts \in SUBSET Part
    BY <1>1, <1>8 DEF XaRollback, UpstreamMay, TypeOK, PartsOf
  <2>2. /\ Running /\ issued' = issued \cup {req}
        /\ UNCHANGED <<replies, ballot, gone, closing>>
        /\ \/ UNCHANGED <<manager, fanout, pool>>
           \/ /\ Send(JobsFor("rollback", FALSE, req, parts))
              /\ fanout' = fanout \cup {Fan("rollback", req, parts, "read_only")}
    BY <1>8 DEF XaRollback, AnswerReadOnly
  <2>3. \A y \in Xid : [kind |-> "exit", trid |-> y] # req
    BY <2>1
  <2> HIDE DEF parts
  <2>4. CASE UNCHANGED <<manager, fanout, pool>>
    BY <1>1, <2>2, <2>3, <2>4, QuietRequest
  <2>5. QED
    BY <1>1, <2>1, <2>2, <2>4, IssueOne, StringsOfPhases
<1>9. QED
  BY <1>2, <1>3, <1>5, <1>6, <1>7, <1>8 DEF ClientNext
-----------------------------------------------------------------------------
(* instance::replied loses a waiting request only to a proxy that is being *)
(* shut down.                                                              *)
LEMMA RepliedJobs ==
  ASSUME CommitInv, NEW m \in replies, NEW p \in Replied(pool, m)
  PROVE  /\ p \in PoolType /\ Unique(p)
         /\ JobsIn(p) \subseteq Outstanding
         /\ MayScaleIn = {} => JobsIn(p) = Outstanding
<1>1. p \in PoolType /\ pool \in PoolType /\ Unique(pool)
  BY RepliedType DEF CommitInv, TypeOK
<1>2. CASE m.from = Nobody
  BY <1>1, <1>2 DEF Replied, Outstanding
<1>3. CASE m.from \in Instance
  <2>1. p \in Done(pool, m.from)
    BY <1>3 DEF Replied
  <2>2. MayScaleIn = {} => m.from \notin closing
    BY DEF CommitInv
  <2>3. QED
    BY <1>1, <1>3, <2>1, <2>2, DoneJobs DEF Outstanding
<1>4. QED
  BY <1>2, <1>3 DEF CommitInv, TypeOK, Reply

(* When the votes are in: what coordinate::prepare then asks for goes with *)
(* the votes, and nothing of this request is on its way any more.          *)
LEMMA PreparedStep ==
  ASSUME CommitInv, TypeOK', Running, NEW m \in replies, NEW e \in Awaiting(m),
         NEW p \in Replied(pool, m), e.phase = "prepare",
         Complete(Received(e, m)), Prepared(e, Received(e, m), p),
         replies' = replies \ {m}, UNCHANGED <<issued, gone, closing, ballot>>
  PROVE  CommitInv'
<1> DEFINE e2 == Received(e, m)
           active == {v \in e2.got : v[2] # "read_only"}
           parts == {v[1] : v \in active}
           code == Outcome(e2, active)
           next(phase) ==
             /\ \E q \in Sent(p, JobsFor(phase, FALSE, e.req, parts)) :
                  /\ pool' = q
                  /\ manager' = AfterSend(p, q)
             /\ fanout' = (fanout \ {e}) \cup {Fan(phase, e.req, parts, code)}
<1>1. e \in Entry /\ e2 \in Entry /\ e2.req = e.req
  <2>1. e \in Entry /\ m \in Reply
    BY DEF Awaiting, CommitInv, TypeOK
  <2>2. QED
    BY <2>1, ReceivedType DEF Received, Entry
<1>2. /\ p \in PoolType /\ Unique(p) /\ JobsIn(p) \in SUBSET Outstanding
      /\ MayScaleIn = {} => JobsIn(p) = Outstanding
  BY RepliedJobs
<1>3. \/ code = "read_only" /\ fanout' = fanout \ {e} /\ pool' = p /\ manager' = manager
      \/ code = "ok" /\ next("commit")
      \/ next("rollback")
  BY <1>1 DEF Prepared
<1>4. e2.got \in SUBSET (Part \X Code) /\ e2.base \in Code /\ parts \in SUBSET Part
  BY <1>1 DEF Entry
<1>5. code \in Code
  BY <1>1, <1>4, OutcomeType
<1>6. code = "ok" => \A v \in e2.got : v[2] \in {"ok", "read_only"}
  <2> SUFFICES ASSUME code = "ok", NEW v \in e2.got PROVE v[2] \in {"ok", "read_only"}
    OBVIOUS
  <2> DEFINE S == {u[2] : u \in active} \cup {e2.base}
  <2>1. S \in SUBSET Code /\ S # {}
    BY <1>4
  <2>2. Worst(S) = "ok"
    BY DEF Outcome
  <2> HIDE DEF S
  <2>3. S \subseteq {"ok", "read_only"}
    BY <2>1, <2>2, WorstOk
  <2>4. v[2] # "read_only" => v[2] \in S
    BY DEF S
  <2>5. QED
    BY <2>3, <2>4
<1>7. CASE fanout' = fanout \ {e} /\ pool' = p /\ manager' = manager
  <2>1. Outstanding' = JobsIn(p) /\ Unique(pool)'
    BY <1>2, <1>7 DEF Outstanding, JobsIn, Queued, Unique
  <2>2. QED
    BY <1>2, <1>7, <2>1, CompleteStep
<1>8. ASSUME NEW phase \in {"commit", "rollback"}, next(phase),
             phase = "commit" => code = "ok"
      PROVE  CommitInv'
  <2> DEFINE jobs == JobsFor(phase, FALSE, e.req, parts)
  <2> HIDE DEF parts, code, active
  <2>1. jobs \in SUBSET Job
    BY <1>1, <1>4, JobsForType, StringsOfPhases DEF Entry
  <2>2. \A j \in jobs : j.req = e.req
    BY DEF JobsFor
  <2> HIDE DEF jobs, next
  <2>3. jobs \cap JobsIn(p) = {}
    <3> SUFFICES ASSUME NEW j \in jobs, j \in JobsIn(p) PROVE FALSE
      OBVIOUS
    <3> DEFINE O == JobsIn(p)
    <3>1. O \in SUBSET Outstanding /\ j \in O /\ j.req = e.req
      BY <1>2, <2>2
    <3> HIDE DEF O
    <3>2. j \in O \cup {n.job : n \in replies \ {m}}
      BY <3>1
    <3>3. ~ Complete(Received(e, m))
      BY <3>1, <3>2, OthersOfReply
    <3>4. QED
      BY <3>3
  <2>4. /\ pool' \in Sent(p, jobs) /\ manager' \in {"running", "terminated"}
        /\ fanout' = (fanout \ {e}) \cup {Fan(phase, e.req, parts, code)}
    BY <1>8 DEF AfterSend, jobs, next
  <2>5. JobsIn(pool') = JobsIn(p) \cup jobs /\ Unique(pool')
    BY <1>2, <2>1, <2>3, <2>4, SentJobs
  <2>6. Outstanding' = JobsIn(p) \cup jobs /\ Unique(pool)'
    BY <2>5 DEF Outstanding, JobsIn, Queued, Unique
  <2>7. phase = "commit" => \A v \in Received(e, m).got : v[2] \in {"ok", "read_only"}
    BY <1>6, <1>8
  <2> HIDE DEF e2
  <2>8. QED
    BY <1>2, <1>4, <1>5, <2>4, <2>6, <2>7, SecondPhaseStep DEF jobs
<1>9. QED
  <2> HIDE DEF next, code
  <2>1. QED
    BY <1>3, <1>7, <1>8

(* The handlers of the replies of resources keep the invariant.            *)
LEMMA CommitReply == CommitInv /\ ReplyNext => CommitInv'
<1> SUFFICES ASSUME CommitInv, ReplyNext PROVE CommitInv'
  OBVIOUS
<1>1. PICK m \in replies : PrepareReply(m) \/ OutcomeReply(m)
  BY DEF ReplyNext
<1>2. TypeOK' /\ TypeOK
  BY <1>1, TypePrepareReply, TypeOutcomeReply DEF CommitInv
<1>3. /\ Running /\ replies' = replies \ {m}
      /\ UNCHANGED <<issued, gone, closing, ballot>>
  BY <1>1 DEF PrepareReply, OutcomeReply, proxyVars
<1>4. ASSUME NEW p \in Replied(pool, m), pool' = p
      PROVE  /\ Unique(pool)' /\ Outstanding' \in SUBSET Outstanding
             /\ MayScaleIn = {} => Outstanding' = Outstanding
  <2>1. Outstanding' = JobsIn(p) /\ Unique(pool)' = Unique(p)
    BY <1>4 DEF Outstanding, JobsIn, Queued, Unique
  <2>2. QED
    BY <2>1, RepliedJobs
<1>5. CASE PrepareReply(m)
  <2>1. PICK e \in Awaiting(m), p \in Replied(pool, m) :
          \/ /\ fanout' = (fanout \ {e}) \cup {Received(e, m)}
             /\ pool' = p /\ manager' = manager
          \/ pool' = p /\ manager' = "terminated" /\ fanout' = fanout
          \/ Complete(Received(e, m)) /\ Prepared(e, Received(e, m), p)
    BY <1>5 DEF PrepareReply
  <2>2. e.phase = "prepare"
    BY <1>5 DEF PrepareReply, Awaiting
  <2>3. CASE /\ fanout' = (fanout \ {e}) \cup {Received(e, m)}
             /\ pool' = p /\ manager' = manager
    BY <1>2, <1>3, <1>4, <2>3, PartialStep
  <2>4. CASE pool' = p /\ manager' = "terminated" /\ fanout' = fanout
    BY <1>2, <1>3, <1>4, <2>4, AssertStep
  <2>5. CASE Complete(Received(e, m)) /\ Prepared(e, Received(e, m), p)
    BY <1>2, <1>3, <2>2, <2>5, PreparedStep
  <2>6. QED
    BY <2>1, <2>3, <2>4, <2>5
<1>6. CASE OutcomeReply(m)
  <2>1. PICK e \in Awaiting(m), p \in Replied(pool, m) :
          /\ pool' = p /\ manager' = manager
          /\ \/ fanout' = (fanout \ {e}) \cup {Received(e, m)}
             \/ Complete(Received(e, m)) /\ fanout' = fanout \ {e}
    BY <1>6 DEF OutcomeReply
  <2>2. CASE fanout' = (fanout \ {e}) \cup {Received(e, m)}
    BY <1>2, <1>3, <1>4, <2>1, <2>2, PartialStep
  <2>3. CASE Complete(Received(e, m)) /\ fanout' = fanout \ {e}
    BY <1>2, <1>3, <1>4, <2>1, <2>3, CompleteStep
  <2>4. QED
    BY <2>1, <2>2, <2>3
<1>7. QED
  BY <1>1, <1>5, <1>6
-----------------------------------------------------------------------------
(* One dead owner may roll back several transactions in one handler; each  *)
(* has a request of its own, which nobody has made before.                 *)
LEMMA OwnerExitStep ==
  ASSUME CommitInv, NEW o \in Process, OwnerExit(o)
  PROVE  CommitInv'
<1>1. TypeOK /\ TypeOK'
  BY TypeOwnerExit DEF CommitInv
<1>2. PICK lost \in SUBSET Gtrid : \E busy \in SUBSET lost, req \in [lost -> Request] :
        RollsBack(o, lost, busy, req)
  BY <1>1, OwnerExitRolls
<1>3. PICK busy \in SUBSET lost, req \in [lost -> Request] : RollsBack(o, lost, busy, req)
  BY <1>2
<1> DEFINE fans == RollbackFans(busy, req)
           jobs == RollbackJobs(busy, req)
           fan(g) == Fan("rollback", req[g], PartsOf(g, involved), "read_only")
<1>4. /\ o \notin gone /\ gone' = gone \cup {o} /\ Running
      /\ UNCHANGED <<replies, ballot, closing>>
  BY DEF OwnerExit, resourceVars, proxyVars
<1>5. fans \in SUBSET Entry /\ jobs \in SUBSET Job
  BY <1>1, RollbackType
<1>6. \A g \in lost : /\ req[g] \in Request /\ req[g].kind = "exit"
                      /\ GlobalOf[req[g].trid] = g /\ OwnerOf[req[g].trid] = o
  BY <1>3 DEF RollsBack
<1>7. \A g \in lost : req[g] \notin issued
  <2> SUFFICES ASSUME NEW g \in lost PROVE req[g] \notin issued
    OBVIOUS
  <2>1. req[g] = [kind |-> "exit", trid |-> req[g].trid] /\ req[g].trid \in Xid
    BY <1>6 DEF Request
  <2>2. QED
    BY <1>4, <1>6, <2>1 DEF CommitInv, Known
<1>8. \A g, h \in lost : req[g] = req[h] => g = h
  BY <1>6
<1>9. /\ \A f \in fans : \E g \in busy : f = fan(g)
      /\ \A g \in busy : fan(g) \in fans
      /\ \A g \in busy : /\ fan(g).req = req[g] /\ fan(g).phase = "rollback"
                          /\ fan(g).expect = PartsOf(g, involved) /\ fan(g).got = {}
      /\ \A j \in jobs : \E g \in busy : /\ j.req = req[g] /\ j.phase = "rollback"
                                         /\ j.part \in PartsOf(g, involved)
                                         /\ j.onephase = FALSE
      /\ \A g \in busy : \A p \in PartsOf(g, involved) :
           [phase |-> "rollback", onephase |-> FALSE, req |-> req[g], part |-> p] \in jobs
  <2>1. /\ \A f \in fans : \E g \in busy : f = fan(g)
        /\ \A g \in busy : fan(g) \in fans
    BY DEF RollbackFans
  <2>2. \A g \in busy : /\ fan(g).req = req[g] /\ fan(g).phase = "rollback"
                        /\ fan(g).expect = PartsOf(g, involved) /\ fan(g).got = {}
    BY DEF Fan
  <2>3. ASSUME NEW j \in jobs
        PROVE  \E g \in busy : /\ j.req = req[g] /\ j.phase = "rollback"
                               /\ j.part \in PartsOf(g, involved)
                               /\ j.onephase = FALSE
    <3>1. PICK g \in busy : j \in JobsFor("rollback", FALSE, req[g], PartsOf(g, involved))
      BY DEF RollbackJobs
    <3>2. QED
      BY <3>1 DEF JobsFor
  <2>4. ASSUME NEW g \in busy, NEW p \in PartsOf(g, involved)
        PROVE  [phase |-> "rollback", onephase |-> FALSE, req |-> req[g], part |-> p] \in jobs
    <3>1. [phase |-> "rollback", onephase |-> FALSE, req |-> req[g], part |-> p]
             \in JobsFor("rollback", FALSE, req[g], PartsOf(g, involved))
      BY DEF JobsFor
    <3>2. QED
      BY <3>1 DEF RollbackJobs
  <2> HIDE DEF fan, fans, jobs
  <2>5. QED
    BY <2>1, <2>2, <2>3, <2>4
<1> HIDE DEF fan, fans, jobs
<1>10. fanout' = fanout \cup fans /\ Send(jobs) /\ issued' = issued \cup {req[g] : g \in lost}
  BY <1>3 DEF RollsBack, fans, jobs
<1>11. \A g \in busy : \A p \in PartsOf(g, involved) :
         \E j \in jobs : Waits(fan(g), j) /\ j.part = p
  <2> SUFFICES ASSUME NEW g \in busy, NEW p \in PartsOf(g, involved)
               PROVE  \E j \in jobs : Waits(fan(g), j) /\ j.part = p
    OBVIOUS
  <2> DEFINE j == [phase |-> "rollback", onephase |-> FALSE, req |-> req[g], part |-> p]
  <2>1. Waits(fan(g), j) /\ j.part = p
    BY <1>9 DEF Waits
  <2>2. QED
    BY <1>9, <2>1
<1>12. \A f \in fans : /\ f.req \notin issued /\ f.req \in issued' /\ f.got = {}
                       /\ \A g \in fans : g.req = f.req => g = f
                       /\ \A p \in f.expect : \E j \in jobs : Waits(f, j) /\ j.part = p
  BY <1>7, <1>8, <1>9, <1>10, <1>11
<1>13. \A j \in jobs : \E f \in fans : Waits(f, j)
  <2> SUFFICES ASSUME NEW j \in jobs PROVE \E f \in fans : Waits(f, j)
    OBVIOUS
  <2>1. PICK g \in busy : /\ j.req = req[g] /\ j.phase = "rollback"
                          /\ j.part \in PartsOf(g, involved)
    BY <1>9
  <2>2. Waits(fan(g), j)
    BY <1>9, <2>1 DEF Waits
  <2>3. QED
    BY <1>9, <2>2
<1>14. \A j, k \in jobs : j.req = k.req => j.onephase = k.onephase
  BY <1>9
<1>15. jobs \cap Outstanding = {}
  <2>1. \A j \in jobs : j.req \notin issued
    BY <1>7, <1>9
  <2>2. QED
    BY <2>1, KnownJobs DEF Travelling
<1>16. Outstanding' = Outstanding \cup jobs /\ Unique(pool)'
  BY <1>5, <1>10, <1>15, SendJobs
<1>17. \A x \in Xid : [kind |-> "exit", trid |-> x] \in issued' => OwnerOf[x] \in gone'
  <2> SUFFICES ASSUME NEW x \in Xid, [kind |-> "exit", trid |-> x] \in issued'
               PROVE  OwnerOf[x] \in gone'
    OBVIOUS
  <2>1. CASE [kind |-> "exit", trid |-> x] \in issued
    BY <1>4, <2>1 DEF CommitInv, Known
  <2>2. ASSUME NEW g \in lost, req[g] = [kind |-> "exit", trid |-> x]
        PROVE  OwnerOf[x] \in gone'
    <3>1. req[g].trid = x
      BY <2>2
    <3>2. QED
      BY <1>4, <1>6, <3>1
  <2>3. QED
    BY <1>10, <2>1, <2>2
<1>18. closing' \subseteq MayScaleIn /\ issued \subseteq issued' /\ gone \subseteq gone'
  BY <1>4, <1>10 DEF CommitInv
<1>19. UNCHANGED <<replies, ballot>> /\ (manager' = "running" => manager = "running")
  BY <1>4 DEF Running
<1>20. fanout' = fanout \cup fans /\ Issues(jobs, fans)
  BY <1>10, <1>12, <1>13, <1>14 DEF Issues
<1>21. QED
  BY <1>1, <1>5, <1>16, <1>17, <1>18, <1>19, <1>20, IssueStep

(* Processes that die, start and scale, and resources that work, keep it.  *)
LEMMA CommitProcess == CommitInv /\ ProcessNext => CommitInv'
<1> SUFFICES ASSUME CommitInv, ProcessNext PROVE CommitInv'
  OBVIOUS
<1>1. TypeOK /\ TypeOK' /\ pool \in PoolType /\ Unique(pool)
  BY TypeProcess DEF CommitInv, TypeOK
<1> USE DEF clientVars, resourceVars, proxyVars
<1>2. ASSUME Outstanding' \subseteq Outstanding,
             MayScaleIn = {} => Outstanding' = Outstanding,
             Unique(pool)', closing' \subseteq MayScaleIn,
             UNCHANGED <<manager, fanout, replies, ballot, issued, gone>>
      PROVE  CommitInv'
  <2>1. \A x \in Xid : [kind |-> "exit", trid |-> x] \in issued' => OwnerOf[x] \in gone'
    BY <1>2 DEF CommitInv, Known
  <2>2. QED
    BY <1>1, <1>2, <2>1, QuietStep
<1>3. \A q : q = pool' => Outstanding' = JobsIn(q) /\ Unique(pool)' = Unique(q)
  BY DEF Outstanding, JobsIn, Queued, Unique
<1>4. ASSUME NEW i \in Instance, Ready(i) PROVE CommitInv'
  <2>1. /\ pool' \in Done(pool, i)
        /\ UNCHANGED <<manager, fanout, replies, ballot, issued, gone, closing>>
    BY <1>4 DEF Ready
  <2>2. MayScaleIn = {} => i \notin closing
    BY DEF CommitInv
  <2>3. /\ JobsIn(pool') \subseteq Outstanding /\ Unique(pool')
        /\ MayScaleIn = {} => JobsIn(pool') = Outstanding
    BY <1>1, <2>1, <2>2, DoneJobs DEF Outstanding
  <2>4. closing' \subseteq MayScaleIn
    BY <2>1 DEF CommitInv
  <2>5. QED
    BY <1>2, <1>3, <2>1, <2>3, <2>4
<1>5. ASSUME NEW i \in Instance, ScaleOut(i) \/ ScaleIn(i) \/ ProxyExit(i)
      PROVE  CommitInv'
  <2>1. /\ \E v : pool' = [pool EXCEPT !.state[i] = v]
        /\ UNCHANGED <<manager, fanout, replies, ballot, issued, gone>>
        /\ closing' = closing \/ (i \in MayScaleIn /\ closing' = closing \cup {i})
    BY <1>5 DEF ScaleOut, ScaleIn, ProxyExit
  <2>2. JobsIn(pool') = Outstanding /\ Unique(pool')
    BY <1>1, <2>1, StateJobs DEF Outstanding
  <2>3. closing' \subseteq MayScaleIn
    BY <2>1 DEF CommitInv
  <2>4. QED
    BY <1>2, <1>3, <2>1, <2>2, <2>3
<1>6. ASSUME NEW i \in Instance, ProxyStart(i) \/ ProxyShutdown(i) \/ ProxyCrash(i)
      PROVE  CommitInv'
  <2>1. UNCHANGED <<pool, manager, fanout, replies, ballot, issued, gone, closing>>
    BY <1>6 DEF ProxyStart, ProxyShutdown, ProxyCrash
  <2>2. Outstanding' = Outstanding /\ Unique(pool)'
    BY <1>1, <1>3, <2>1 DEF Outstanding
  <2>3. closing' \subseteq MayScaleIn
    BY <2>1 DEF CommitInv
  <2>4. QED
    BY <1>2, <2>1, <2>2, <2>3
<1>7. ASSUME NEW j \in Job, NEW from \in Instance \cup {Nobody}, Works(j, from),
             j \in Outstanding, Outstanding' = Outstanding \ {j}, Unique(pool)',
             UNCHANGED <<fanout, manager, issued, gone, closing>>
      PROVE  CommitInv'
  <2>1. PICK a \in RmAnswers(j, rm[j.part]) :
          /\ replies' = replies \cup {[job |-> j, code |-> a[1], from |-> from]}
          /\ ballot' = IF j.phase = "prepare"
               THEN ballot \cup {[req |-> j.req, part |-> j.part, code |-> a[1]]}
               ELSE ballot
    BY <1>7 DEF Works
  <2> DEFINE m == [job |-> j, code |-> a[1], from |-> from]
  <2>2. m.job = j /\ m.code = a[1] /\ m \in Reply
    <3>1. m \in replies'
      BY <2>1
    <3>2. QED
      BY <1>1, <3>1 DEF TypeOK
  <2> HIDE DEF m
  <2>3. /\ replies' = replies \cup {m}
        /\ ballot' = IF j.phase = "prepare"
               THEN ballot \cup {[req |-> j.req, part |-> j.part, code |-> m.code]}
               ELSE ballot
    BY <2>1, <2>2 DEF m
  <2>4. QED
    BY <1>1, <1>7, <2>2, <2>3, WorkStep
<1>8. ASSUME NEW i \in Instance, ProxyWork(i) PROVE CommitInv'
  <2>1. PICK j \in pool.inbox[i] :
          pool' = [pool EXCEPT !.inbox[i] = @ \ {j}] /\ Works(j, i)
    BY <1>8 DEF ProxyWork
  <2>2. j \in Job /\ j \in Outstanding
    BY <1>1, InJobsIn DEF PoolType, Outstanding
  <2>3. JobsIn(pool') = Outstanding \ {j} /\ Unique(pool')
    BY <1>1, <2>1, WorkJobs DEF Outstanding
  <2>4. UNCHANGED <<fanout, manager, issued, gone, closing>>
    BY <1>8 DEF ProxyWork
  <2>5. QED
    BY <1>3, <1>7, <2>1, <2>2, <2>3, <2>4
<1>9. ASSUME NEW j \in pool.external, ExternalWork(j) PROVE CommitInv'
  <2>1. pool' = [pool EXCEPT !.external = @ \ {j}] /\ Works(j, Nobody)
    BY <1>9 DEF ExternalWork
  <2>2. j \in Job /\ j \in Outstanding
    BY <1>1, InJobsIn DEF PoolType, Outstanding
  <2>3. JobsIn(pool') = Outstanding \ {j} /\ Unique(pool')
    BY <1>1, <2>1, ExternalJobs DEF Outstanding
  <2>4. UNCHANGED <<fanout, manager, issued, gone, closing>>
    BY <1>9 DEF ExternalWork
  <2>5. QED
    BY <1>3, <1>7, <2>1, <2>2, <2>3, <2>4
<1>10. QED
  BY <1>4, <1>5, <1>6, <1>8, <1>9, OwnerExitStep DEF ProcessNext

(* The invariant is inductive.                                             *)
LEMMA CommitStep == CommitInv /\ [Next]_vars => CommitInv'
<1> SUFFICES ASSUME CommitInv, [Next]_vars PROVE CommitInv'
  OBVIOUS
<1>1. CASE Persist \/ UNCHANGED vars
  <2>1. UNCHANGED <<manager, fanout, pool, issued, replies, ballot, gone, closing>>
    BY <1>1 DEF Persist, vars, clientVars, resourceVars, proxyVars
  <2>2. TypeOK'
    BY TypeStep DEF CommitInv
  <2>3. QED
    BY <2>1, <2>2, QuietRequest
<1>2. QED
  BY <1>1, CommitClient, CommitReply, CommitProcess DEF Next

(* CommitInv holds in every reachable state: the bookkeeping of fan-outs,  *)
(* requests, replies and votes agrees.                                     *)
THEOREM CommitInvariant == Spec => []CommitInv
  BY CommitInit, CommitStep, PTL DEF Spec

(* No resource is asked to commit in two phases before every resource of   *)
(* the transaction has voted, nor after one has refused: the order that    *)
(* coordinate::prepare and Out::operator() keep between them.              *)
THEOREM CommitIsDecided == Spec => []CommitAfterVotes
<1>1. CommitInv => CommitAfterVotes
  <2> SUFFICES ASSUME CommitInv, NEW j \in Outstanding, j.phase = "commit"
               PROVE  /\ \A k \in Outstanding : k.req = j.req => k.phase = "commit"
                      /\ \A v \in ballot : v.req = j.req => v.code \in {"ok", "read_only"}
    BY DEF CommitAfterVotes
  <2>1. PICK e \in fanout : Waits(e, j)
    BY DEF CommitInv, AwaitedAll, Travelling
  <2>2. ASSUME NEW k \in Outstanding, k.req = j.req PROVE k.phase = "commit"
    BY <2>1, <2>2 DEF CommitInv, AwaitedAll, OneFanout, Travelling, Waits
  <2>3. ASSUME NEW v \in ballot, v.req = j.req PROVE v.code \in {"ok", "read_only"}
    BY <2>1, <2>3 DEF CommitInv, VotesOk, Waits
  <2>4. QED
    BY <2>2, <2>3
<1>2. QED
  BY <1>1, CommitInvariant, PTL

(* What a fan-out waits for is in one place. *)
LEMMA OnItsWay ==
  ASSUME CommitInv, MayScaleIn = {}, Running, NEW e \in fanout, NEW p \in Part
  PROVE  LET same(j) == j.phase = e.phase /\ j.req = e.req /\ j.part = p
             travelling == Cardinality({j \in Outstanding : same(j)})
                           + Cardinality({m \in replies : same(m.job)})
             missing == p \in e.expect /\ \A v \in e.got : v[1] # p
         IN travelling = IF missing THEN 1 ELSE 0
<1> DEFINE same(j) == j.phase = e.phase /\ j.req = e.req /\ j.part = p
           A == {j \in Outstanding : same(j)}
           B == {m \in replies : same(m.job)}
           missing == p \in e.expect /\ \A v \in e.got : v[1] # p
<1>1. \A j \in Travelling : same(j) => missing
  BY DEF CommitInv, AwaitedAll, OneFanout, Waits
<1>2. \A j, k \in Travelling : same(j) /\ same(k) => j = k
  BY SameJob
<1>3. missing => \E j \in Travelling : same(j)
  BY DEF CommitInv, NothingLost, Waits
<1>4. \A m \in replies : m.job \notin Outstanding /\ \A n \in replies : n.job = m.job => n = m
  BY DEF CommitInv, RepliedOnce
<1>5. Cardinality({}) = 0 /\ \A x : Cardinality({x}) = 1
  BY FS_EmptySet, FS_Singleton
<1> HIDE DEF A, B, missing
<1>6. ASSUME ~ missing PROVE Cardinality(A) + Cardinality(B) = 0
  <2>1. A = {} /\ B = {}
    BY <1>1, <1>6 DEF Travelling, A, B
  <2>2. Cardinality(A) = 0 /\ Cardinality(B) = 0
    BY <1>5, <2>1
  <2>3. QED
    BY <2>2
<1>7. ASSUME missing PROVE Cardinality(A) + Cardinality(B) = 1
  <2>1. PICK j \in Travelling : same(j)
    BY <1>3, <1>7
  <2>2. CASE j \in Outstanding
    <3>1. A = {j} /\ B = {}
      BY <1>2, <1>4, <2>1, <2>2 DEF Travelling, A, B
    <3>2. Cardinality(A) = 1 /\ Cardinality(B) = 0
      BY <1>5, <3>1
    <3>3. QED
      BY <3>2
  <2>3. ASSUME NEW m \in replies, j = m.job PROVE Cardinality(A) + Cardinality(B) = 1
    <3>1. A = {} /\ B = {m}
      BY <1>2, <1>4, <2>1, <2>3 DEF Travelling, A, B
    <3>2. Cardinality(A) = 0 /\ Cardinality(B) = 1
      BY <1>5, <3>1
    <3>3. QED
      BY <3>2
  <2>4. QED
    BY <2>2, <2>3 DEF Travelling
<1>8. Cardinality(A) + Cardinality(B) = IF missing THEN 1 ELSE 0
  BY <1>6, <1>7
<1>9. QED
  BY <1>8 DEF A, B, missing

(* When no proxy is asked to shut down, no request of a fan-out is lost or *)
(* sent twice on its way through pending.requests, the proxies and back,   *)
(* and every reply finds its fan-out.  MayScaleIn has to be empty: done    *)
(* gives a waiting request to a proxy that shuts down.                     *)
THEOREM NothingIsLost ==
  ASSUME MayScaleIn = {} PROVE Spec => []AwaitedIsOnItsWay
<1>1. CommitInv => AwaitedIsOnItsWay
  <2> SUFFICES ASSUME CommitInv, Running PROVE AwaitedIsOnItsWay
    BY DEF AwaitedIsOnItsWay
  <2>1. \A m \in replies : Awaiting(m) # {}
    BY DEF CommitInv, AwaitedAll, Travelling, Awaiting, Waits
  <2>2. QED
    BY <2>1, OnItsWay DEF AwaitedIsOnItsWay
<1>2. QED
  BY <1>1, CommitInvariant, PTL
-----------------------------------------------------------------------------
(* What is started is ended and what is logged is committed: the global    *)
(* transaction that a fan-out works for.                                   *)
GlobalFan(e) == GlobalOf[e.req.trid]

(* The stages after "involved".                                            *)
LEMMA ProgressStages ==
  ASSUME TypeOK, NEW g \in Gtrid
  PROVE  InProgress(g) <=> stage[g] \notin {"absent", "involved"}
<1>1. stage[g] \in Stage
  BY DEF TypeOK
<1>2. QED
  BY <1>1 DEF InProgress, StageRank, Stage

(* Machine::operator = moves a transaction on to the stage or leaves it.   *)
LEMMA AdvancedTo ==
  ASSUME NEW s, NEW t PROVE Advanced(s, t) \in {s, t}
  BY DEF Advanced

Coordinated == TypeOK /\ InProgressIsCoordinated /\ LoggedIsCommitting

(* A step that ends a fan-out ends its transaction with it or starts the   *)
(* next fan-out, and logs nothing that is not being committed.             *)
LEMMA CoordinatedStep ==
  ASSUME Coordinated, TypeOK',
         \A g \in Gtrid : stage'[g] \notin {"absent", "involved"} =>
           \/ \E f \in fanout' : GlobalFan(f) = g
           \/ /\ stage[g] \notin {"absent", "involved"}
              /\ \A e \in fanout : GlobalFan(e) = g => \E f \in fanout' : GlobalFan(f) = g,
         \A x \in logged' :
           \/ \E f \in fanout' : f.phase = "commit" /\ GlobalFan(f) = GlobalOf[x]
           \/ /\ x \in logged
              /\ \A e \in fanout : e.phase = "commit" /\ GlobalFan(e) = GlobalOf[x] =>
                   \E f \in fanout' : f.phase = "commit" /\ GlobalFan(f) = GlobalOf[x]
  PROVE  Coordinated'
<1>1. InProgressIsCoordinated'
  <2> SUFFICES ASSUME NEW g \in Gtrid, InProgress(g)'
               PROVE  \E f \in fanout' : GlobalFan(f) = g
    BY DEF InProgressIsCoordinated, GlobalFan
  <2>1. stage'[g] \notin {"absent", "involved"}
    <3>1. stage'[g] \in Stage
      BY DEF TypeOK
    <3>2. QED
      BY <3>1 DEF InProgress, StageRank, Stage
  <2>2. stage[g] \notin {"absent", "involved"} => \E e \in fanout : GlobalFan(e) = g
    BY ProgressStages DEF Coordinated, InProgressIsCoordinated, GlobalFan
  <2>3. QED
    BY <2>1, <2>2
<1>2. LoggedIsCommitting'
  BY DEF Coordinated, LoggedIsCommitting, GlobalFan
<1>3. QED
  BY <1>1, <1>2 DEF Coordinated

(* A handler that adds fan-outs for what it brings into progress, and logs *)
(* nothing, keeps it.                                                      *)
LEMMA CoordinatedMore ==
  ASSUME Coordinated, TypeOK', fanout \subseteq fanout', logged' \subseteq logged,
         \A g \in Gtrid : stage'[g] \in {"absent", "involved", stage[g]} \/
                          \E f \in fanout' : GlobalFan(f) = g
  PROVE  Coordinated'
  BY CoordinatedStep

(* The handlers of requests start what they bring into progress.           *)
LEMMA CoordinatedClient == Coordinated /\ ClientNext => Coordinated'
<1> SUFFICES ASSUME Coordinated, ClientNext PROVE Coordinated'
  OBVIOUS
<1>1. TypeOK /\ TypeOK' /\ stage \in [Gtrid -> Stage]
  BY TypeClient DEF Coordinated, TypeOK
<1> USE DEF logVars, transVars
<1>2. ASSUME NEW x \in Xid, NEW S, AddInvolved(x, S), UNCHANGED <<fanout, logged>>
      PROVE  Coordinated'
  <2>1. \A g \in Gtrid : stage'[g] \in {"absent", "involved", stage[g]}
    BY <1>1, <1>2, AdvancedTo DEF AddInvolved
  <2>2. QED
    BY <1>1, <1>2, <2>1, CoordinatedMore
<1>3. ASSUME NEW x \in Xid, UNCHANGED <<stage, fanout, logged>> \/
                            (Removed(GlobalOf[x]) /\ fanout' = fanout /\ logged' \subseteq logged)
      PROVE  Coordinated'
  <2>1. \A g \in Gtrid : stage'[g] \in {"absent", "involved", stage[g]}
    BY <1>1, <1>3 DEF Removed
  <2>2. QED
    BY <1>1, <1>3, <2>1, CoordinatedMore
<1>4. ASSUME NEW req \in Request, NEW phase \in Phase, NEW parts,
             stage' = [stage EXCEPT ![GlobalOf[req.trid]] = Advanced(@, phase)],
             fanout' = fanout \cup {Fan(phase, req, parts, "read_only")},
             logged' = logged
      PROVE  Coordinated'
  <2> DEFINE f == Fan(phase, req, parts, "read_only")
  <2>1. f \in fanout' /\ GlobalFan(f) = GlobalOf[req.trid]
    BY <1>4 DEF Fan, GlobalFan
  <2>2. \A g \in Gtrid : g = GlobalOf[req.trid] \/ stage'[g] = stage[g]
    BY <1>1, <1>4
  <2>3. fanout \subseteq fanout'
    BY <1>4
  <2> HIDE DEF f
  <2>4. QED
    BY <1>1, <1>4, <2>1, <2>2, <2>3, CoordinatedMore
<1>5. ASSUME NEW req \in Request, NEW inv, NEW br, StartCommit(req, inv, br), logged' = logged
      PROVE  Coordinated'
  BY <1>4, <1>5, StringsOfPhases DEF StartCommit
<1>6. ASSUME NEW x \in Xid, NEW S \in SUBSET Rm, Involve(x, S) PROVE Coordinated'
  BY <1>2, <1>6 DEF Involve
<1>7. ASSUME NEW x \in Xid, NEW r \in ExternalRm, ExternalInvolve(x, r) PROVE Coordinated'
  BY <1>2, <1>7 DEF ExternalInvolve
<1>8. ASSUME NEW x \in Xid, NEW S \in SUBSET Rm, TxCommit(x, S) PROVE Coordinated'
  <2>1. [kind |-> "tx_commit", trid |-> x] \in Request
    BY DEF Request, TxKind
  <2>2. QED
    BY <1>3, <1>5, <1>8, <2>1 DEF TxCommit
<1>9. ASSUME NEW x \in Xid, NEW S \in SUBSET Rm, TxRollback(x, S) PROVE Coordinated'
  <2> DEFINE req == [kind |-> "tx_rollback", trid |-> x]
  <2>1. req \in Request /\ req.trid = x
    BY DEF Request, TxKind
  <2>2. \/ Removed(GlobalOf[x]) /\ fanout' = fanout /\ logged' \subseteq logged
        \/ \E parts : /\ stage' = [stage EXCEPT ![GlobalOf[x]] = Advanced(@, "rollback")]
                      /\ fanout' = fanout \cup {Fan("rollback", req, parts, "read_only")}
                      /\ logged' = logged
    BY <1>9 DEF TxRollback, Unlogged
  <2> HIDE DEF req
  <2>3. QED
    BY <1>3, <1>4, <2>1, <2>2, StringsOfPhases
<1>10. ASSUME NEW req \in Request, XaCommit(req) PROVE Coordinated'
  <2>1. req.trid \in Xid
    BY DEF Request
  <2>2. QED
    BY <1>3, <1>5, <1>10, <2>1 DEF XaCommit, AnswerReadOnly
<1>11. ASSUME NEW req \in Request, XaRollback(req) PROVE Coordinated'
  <2>1. req.trid \in Xid
    BY DEF Request
  <2>2. \/ UNCHANGED <<stage, fanout, logged>>
        \/ Removed(GlobalOf[req.trid]) /\ fanout' = fanout /\ logged' \subseteq logged
        \/ \E parts : /\ stage' = [stage EXCEPT ![GlobalOf[req.trid]] = Advanced(@, "rollback")]
                      /\ fanout' = fanout \cup {Fan("rollback", req, parts, "read_only")}
                      /\ logged' = logged
    BY <1>11 DEF XaRollback, AnswerReadOnly, Unlogged
  <2>3. QED
    BY <1>3, <1>4, <2>1, <2>2, StringsOfPhases
<1>12. QED
  BY <1>6, <1>7, <1>8, <1>9, <1>10, <1>11 DEF ClientNext

(* The last reply of a fan-out removes its transaction or goes on to the   *)
(* next phase.                                                             *)
LEMMA CoordinatedReply == Coordinated /\ ReplyNext => Coordinated'
<1> SUFFICES ASSUME Coordinated, NEW m \in replies, PrepareReply(m) \/ OutcomeReply(m)
             PROVE  Coordinated'
  BY DEF ReplyNext
<1>1. TypeOK /\ TypeOK' /\ stage \in [Gtrid -> Stage] /\ fanout \subseteq Entry
      /\ logged \subseteq Xid
  BY TypePrepareReply, TypeOutcomeReply DEF Coordinated, TypeOK
<1> USE DEF logVars, transVars
<1>2. PICK e \in Awaiting(m), p \in Replied(pool, m) :
        \/ /\ fanout' = (fanout \ {e}) \cup {Received(e, m)}
           /\ UNCHANGED <<stage, logged>>
        \/ UNCHANGED <<stage, fanout, logged>>
        \/ /\ m.job.phase # "prepare" /\ Removed(GlobalFan(e))
           /\ logged' = Unlogged(GlobalFan(e), logged)
           /\ fanout' = fanout \ {e}
        \/ m.job.phase = "prepare" /\ Prepared(e, Received(e, m), p)
  BY DEF PrepareReply, OutcomeReply, GlobalFan
<1>3. /\ e \in fanout /\ e \in Entry /\ e.phase = m.job.phase /\ e.req.trid \in Xid
      /\ GlobalFan(e) \in Gtrid
  BY <1>1 DEF Awaiting, Entry, Request, GlobalFan
<1>4. /\ Received(e, m).req = e.req /\ Received(e, m).phase = e.phase
      /\ GlobalFan(Received(e, m)) = GlobalFan(e)
  BY <1>3 DEF Received, Entry, GlobalFan
<1>5. CASE fanout' = (fanout \ {e}) \cup {Received(e, m)} /\ UNCHANGED <<stage, logged>>
  <2>1. \A d \in fanout : \E f \in fanout' : f.phase = d.phase /\ GlobalFan(f) = GlobalFan(d)
    BY <1>4, <1>5
  <2>2. QED
    BY <1>1, <1>5, <2>1, CoordinatedStep
<1>6. CASE UNCHANGED <<stage, fanout, logged>>
  BY <1>1, <1>6, CoordinatedMore
<1>7. ASSUME Removed(GlobalFan(e)), fanout' = fanout \ {e},
             \/ logged' = Unlogged(GlobalFan(e), logged)
             \/ logged' = logged /\ e.phase # "commit"
      PROVE  Coordinated'
  <2>1. \A g \in Gtrid : stage'[g] = IF g = GlobalFan(e) THEN "absent" ELSE stage[g]
    BY <1>1, <1>7 DEF Removed
  <2>2. \A d \in fanout : d \in fanout' \/ d = e
    BY <1>7
  <2>3. \A x \in logged' : x \in logged /\ (GlobalOf[x] # GlobalFan(e) \/ e.phase # "commit")
    <3>1. Unlogged(GlobalFan(e), logged) \subseteq logged
          /\ \A x \in Unlogged(GlobalFan(e), logged) : GlobalOf[x] # GlobalFan(e)
      BY DEF Unlogged, BranchesOf
    <3>2. QED
      BY <1>7, <3>1
  <2>4. \A g \in Gtrid : stage'[g] \notin {"absent", "involved"} =>
          /\ stage[g] \notin {"absent", "involved"}
          /\ \A d \in fanout : GlobalFan(d) = g => d \in fanout'
    BY <2>1, <2>2
  <2>5. \A x \in logged' : /\ x \in logged
                           /\ \A d \in fanout : d.phase = "commit" /\ GlobalFan(d) = GlobalOf[x]
                                => d \in fanout'
    BY <2>2, <2>3
  <2>6. QED
    BY <1>1, <2>4, <2>5, CoordinatedStep
<1>8. ASSUME NEW phase \in {"commit", "rollback"}, NEW parts, NEW code,
             e.phase = "prepare", stage' = stage,
             fanout' = (fanout \ {e}) \cup {Fan(phase, e.req, parts, code)},
             \A x \in logged' : x \in logged \/ (phase = "commit" /\ GlobalOf[x] = GlobalFan(e))
      PROVE  Coordinated'
  <2> DEFINE f == Fan(phase, e.req, parts, code)
  <2>1. f \in fanout' /\ GlobalFan(f) = GlobalFan(e) /\ f.phase = phase
    BY <1>8 DEF Fan, GlobalFan
  <2> HIDE DEF f
  <2>2. \A d \in fanout : d = e \/ d \in fanout'
    BY <1>8
  <2>3. \A d \in fanout : /\ \E b \in fanout' : GlobalFan(b) = GlobalFan(d)
                          /\ d.phase = "commit" => d \in fanout'
    BY <1>8, <2>1, <2>2
  <2>4. QED
    BY <1>1, <1>8, <2>1, <2>3, CoordinatedStep
<1>9. CASE m.job.phase = "prepare" /\ Prepared(e, Received(e, m), p)
  <2> DEFINE e2 == Received(e, m)
             active == {v \in e2.got : v[2] # "read_only"}
             parts == {v[1] : v \in active}
             code == Outcome(e2, active)
  <2>1. \/ Removed(GlobalFan(e)) /\ fanout' = fanout \ {e} /\ logged' = logged
        \/ /\ fanout' = (fanout \ {e}) \cup {Fan("commit", e2.req, parts, code)}
           /\ stage' = stage
           /\ \E left : logged' = logged \cup BranchesOf(GlobalFan(e), left)
        \/ /\ fanout' = (fanout \ {e}) \cup {Fan("rollback", e2.req, parts, code)}
           /\ stage' = stage /\ logged' = logged
    BY <1>4, <1>9 DEF Prepared, GlobalFan
  <2> HIDE DEF e2, parts, code
  <2>2. e2.req = e.req
    BY <1>4 DEF e2
  <2>3. QED
    BY <1>3, <1>7, <1>8, <1>9, <2>1, <2>2 DEF BranchesOf
<1>10. QED
  BY <1>2, <1>3, <1>5, <1>6, <1>7, <1>9

(* The exit of an owner starts the rollbacks it brings into progress.      *)
LEMMA CoordinatedProcess == Coordinated /\ ProcessNext => Coordinated'
<1> SUFFICES ASSUME Coordinated, ProcessNext PROVE Coordinated'
  OBVIOUS
<1>1. TypeOK /\ TypeOK'
  BY TypeProcess DEF Coordinated
<1>2. CASE UNCHANGED <<stage, fanout, logged>>
  BY <1>1, <1>2, CoordinatedMore
<1>3. ASSUME NEW o \in Process, OwnerExit(o) PROVE Coordinated'
  <2>1. PICK lost \in SUBSET Gtrid : \E busy \in SUBSET lost, req \in [lost -> Request] :
          RollsBack(o, lost, busy, req)
    BY <1>1, <1>3, OwnerExitRolls
  <2>2. PICK busy \in SUBSET lost, req \in [lost -> Request] : RollsBack(o, lost, busy, req)
    BY <2>1
  <2>3. ASSUME NEW g \in busy PROVE \E f \in fanout' : GlobalFan(f) = g
    <3> DEFINE f == Fan("rollback", req[g], PartsOf(g, involved), "read_only")
    <3>1. f \in fanout' /\ f.req = req[g]
      BY <2>2 DEF RollsBack, RollbackFans, Fan
    <3>2. GlobalOf[req[g].trid] = g
      BY <2>2 DEF RollsBack
    <3> HIDE DEF f
    <3>3. QED
      BY <3>1, <3>2 DEF GlobalFan
  <2>4. \A g \in Gtrid : g \in busy \/ stage'[g] \in {"absent", stage[g]}
    BY <2>2 DEF RollsBack
  <2>5. fanout \subseteq fanout' /\ logged' \subseteq logged
    BY <2>2 DEF RollsBack
  <2>6. QED
    BY <1>1, <2>3, <2>4, <2>5, CoordinatedMore
<1>4. QED
  BY <1>2, <1>3 DEF ProcessNext, Ready, ScaleOut, ScaleIn, ProxyExit, ProxyStart, ProxyWork,
     ProxyShutdown, ProxyCrash, ExternalWork, transVars, logVars

(* The manager starts without a transaction.                               *)
LEMMA CoordinatedInit == Init => Coordinated
<1> SUFFICES ASSUME Init PROVE Coordinated
  OBVIOUS
<1>1. TypeOK
  BY TypeInit
<1>2. \A g \in Gtrid : stage[g] = "absent"
  BY DEF Init
<1>3. InProgressIsCoordinated
  BY <1>1, <1>2, ProgressStages DEF InProgressIsCoordinated
<1>4. QED
  BY <1>1, <1>3 DEF Init, Coordinated, LoggedIsCommitting

(* Every step keeps it.                                                    *)
LEMMA CoordinatedNext == Coordinated /\ [Next]_vars => Coordinated'
<1> SUFFICES ASSUME Coordinated, [Next]_vars PROVE Coordinated'
  OBVIOUS
<1>1. TypeOK'
  BY TypeStep DEF Coordinated
<1>2. CASE UNCHANGED <<stage, fanout, logged>>
  BY <1>1, <1>2, CoordinatedMore
<1>3. QED
  BY <1>2, CoordinatedClient, CoordinatedReply, CoordinatedProcess
     DEF Next, Persist, vars, transVars, logVars

(* It holds in every reachable state.                                      *)
LEMMA CoordinatedAlways == Spec => []Coordinated
  BY CoordinatedInit, CoordinatedNext, PTL DEF Spec

(* A transaction that has left the involved stage has a fan-out that will  *)
(* remove it, whatever messages, deaths and scaling the manager has seen:  *)
(* Manager::transactions keeps no transaction that nothing will end.       *)
THEOREM ProgressIsCoordinated == Spec => []InProgressIsCoordinated
<1>1. Coordinated => InProgressIsCoordinated
  BY DEF Coordinated
<1>2. QED
  BY <1>1, CoordinatedAlways, PTL

(* Every row of the log belongs to a commit under way, whose last reply    *)
(* deletes it: persistent::Log keeps nothing that nobody finishes.         *)
THEOREM LogIsCommitting == Spec => []LoggedIsCommitting
<1>1. Coordinated => LoggedIsCommitting
  BY DEF Coordinated
<1>2. QED
  BY <1>1, CoordinatedAlways, PTL
=============================================================================
