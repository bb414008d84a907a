--------------------------- MODULE QueueFlowProofs ---------------------------
(***************************************************************************)
(* A queue group and its forwards: no message is lost or doubled, what has *)
(* been told is on disk, nothing is given to the dead, counts are never    *)
(* negative and no dequeue that waits is forgotten.                        *)
(*                                                                         *)
(* The invariant, IInv, says of each flow where it is (the letters and the *)
(* replies about it, its dequeue that waits), which rows its transaction   *)
(* has, and what the forward believes: it rests, moves a message, has      *)
(* ended, or is an orphan of a forward that has died (Fits).  It says of   *)
(* each message of a producer who has it (Known), that what has been told  *)
(* is on disk (Durable), in which order letters are in the inbox (Unique,  *)
(* Ordered), and that who has died asked before its exit (Mourned).        *)
(*                                                                         *)
(* Its parts are stated for any state w of the group with any set I of     *)
(* letters before it and any set V of flows that wait, so that they can be *)
(* followed through a handler and through its loop over the dequeues.      *)
(*                                                                         *)
(* The counts (Kept), the dequeues that wait (Awake) and the rest of the   *)
(* types (Shaped) have invariants of their own, at the end.                *)
(***************************************************************************)
EXTENDS QueueProofs
-----------------------------------------------------------------------------
(* The part of the inbox that is about flows, as pairs of a kind and a     *)
(* message; what waits for a flow in the mail.  A flow is where its pairs  *)
(* are: letters to the group (I), its waiting dequeue (V), the reply that  *)
(* is held for the disk (H), letters from the group (M).                   *)
Carried == Message \cup {Nobody}
Letters(I, f) == {p \in LetterKind \X Carried : To(p[1], f, p[2]) \in I}
Mails(M, f) == {p \in MailKind \X Carried : Reply(p[1], f, p[2]) \in M}
Places(I, M, V, H, f) ==
  Letters(I, f) \cup Mails(M, f)
  \cup {p \in {<<"waits", Nobody>>} : f \in V}
  \cup {p \in {<<"held", Nobody>>} : Reply("xa", f, Nobody) \in H}

(* A flow has no transaction: it is idle, or its dequeue is on its way.    *)
Resting(f, P, T, A, s, inv, reg, lv) ==
  /\ T = {} /\ A = {} /\ f \notin inv /\ f \notin reg
  /\ \/ P = {} /\ s.stage \in {"idle", "dequeue"}
     \/ /\ \/ P = {<<"dequeue", Nobody>>} \/ P = {<<"waits", Nobody>>}
           \/ P = {<<"forgotten", Nobody>>}
        /\ s.stage = "dequeue"
     \/ /\ P = {<<"dequeue", Nobody>>} \/ P = {<<"forgotten", Nobody>>}
        /\ s.stage = "idle" /\ lv = "gone"

(* It has taken a message m, and has added it or not.                      *)
Moving(f, P, T, A, s, inv, reg, m) ==
  /\ T = {m} /\ f \in inv /\ f \in reg
  /\ \/ A = {} /\ \/ P = {<<"dequeued", m>>} /\ s.stage = "dequeue"
                  \/ P = {} /\ s.stage \in {"lookup", "call"} /\ s.msg = m
                  \/ P = {<<"enqueue", m>>} /\ s.stage = "enqueue"
     \/ A = {m} /\ \/ P = {<<"enqueued", m>>} /\ s.stage = "enqueue"
                   \/ /\ \/ P = {<<"commit", Nobody>>} \/ P = {<<"prepare", Nobody>>}
                         \/ P = {<<"prepared", Nobody>>}
                      /\ s.stage = "commit"
     \/ /\ A = {} \/ A = {m}
        /\ P = {<<"rollback", Nobody>>} /\ s.stage \in {"commit", "rollback"}

(* It has been committed or rolled back.                                   *)
Closed(f, P, T, A, s, inv, reg) ==
  /\ T = {} /\ A = {} /\ f \notin inv /\ s.stage \in {"commit", "rollback"}
  /\ \/ P = {<<"held", Nobody>>} \/ P = {<<"xa", Nobody>>}
     \/ P = {<<"ended", Nobody>>} /\ f \notin reg

(* The transaction manager rolls it back, its forward being dead; nobody   *)
(* receives what the group has told the forward (m).                       *)
Ignored(p, P, m) == P = {p} \/ P = {p, <<"dequeued", m>>} \/ P = {p, <<"enqueued", m>>}
Orphan(f, P, T, A, s, inv, nt, m) ==
  /\ "tm" \in nt /\ s.stage \in {"dequeue", "lookup", "call", "enqueue"}
  /\ \/ /\ T = {m} /\ f \in inv
        /\ \/ A = {} /\ P = {<<"rollback", Nobody>>, <<"enqueue", m>>}
           \/ (A = {} \/ A = {m}) /\ Ignored(<<"rollback", Nobody>>, P, m)
     \/ /\ T = {} /\ A = {} /\ f \notin inv
        /\ \/ Ignored(<<"held", Nobody>>, P, m) \/ Ignored(<<"xa", Nobody>>, P, m)
           \/ Ignored(<<"ended", Nobody>>, P, m)

Fits(f, P, T, A, s, inv, reg, lv, nt) ==
  \/ Resting(f, P, T, A, s, inv, reg, lv)
  \/ Closed(f, P, T, A, s, inv, reg)
  \/ \E m \in Message : \/ Moving(f, P, T, A, s, inv, reg, m)
                        \/ Orphan(f, P, T, A, s, inv, nt, m)

FlowFits(w, I, V, f, s, lv, nt) ==
  Fits(f, Places(I, w.mail, V, ToSet(w.held), f), Takes(w.db, f), Adds(w.db, f), s,
       w.involved, w.registered, lv, nt)

(* A message of a producer is new until the group takes it; from then on   *)
(* it is in the database or has been given to one consumer.                *)
Given(M, m) == {c \in Consumer : Reply("dequeued", c, m) \in M}
Known(w, I, m) ==
  /\ To("enqueue", m, m) \in I => ~ Has(w.db, m) /\ Given(w.mail, m) = {}
  /\ Reply("enqueued", m, m) \in w.mail \cup ToSet(w.held) =>
       Shows(w.db, m) \/ Given(w.mail, m) # {}
  /\ Given(w.mail, m) # {} => ~ Has(w.db, m)
  /\ \A c, d \in Given(w.mail, m) : c = d

(* What has been told is on disk.                                          *)
Durable(w) ==
  /\ \A m \in Message : Reply("enqueued", m, m) \in w.mail /\ Has(w.db, m) => Has(w.disk, m)
  /\ \A f \in Flow : Reply("xa", f, Nobody) \in w.mail =>
       Takes(w.disk, f) = {} /\ Adds(w.disk, f) = {}

Sound(w, I, V, fl, lv, nt) ==
  /\ Tidy(w.db) /\ Durable(w)
  /\ \A f \in Flow : FlowFits(w, I, V, f, fl[f], lv, nt)
  /\ \A m \in Message : Known(w, I, m)

(* A letter of a flow or of a producer is in the inbox once, and the       *)
(* enqueue of a flow is before its rollback.                               *)
Unique(ib) ==
  \A n, k \in DOMAIN ib :
    ib[n] = ib[k] /\ ib[n].kind \in LetterKind /\ ib[n].who \in Flow \cup Message => n = k
Ordered(ib) ==
  \A n, k \in DOMAIN ib :
    ib[n].kind = "enqueue" /\ ib[k].kind = "rollback" /\ ib[n].who = ib[k].who => n < k

(* The group hears of a death after the dequeues of the process.           *)
Exit(c) == To("exit", {c}, Nobody)
Mourned(V, ib, cs) ==
  \A c \in Consumer : cs[c] = "noticed" =>
    /\ \A n \in DOMAIN ib : ib[n].kind = "dequeue" /\ ib[n].who = c =>
         \E k \in DOMAIN ib : n < k /\ ib[k] = Exit(c)
    /\ c \in V => Exit(c) \in ToSet(ib)

Outside ==
  /\ \A f \in service.asked : flow[f].stage = "lookup"
  /\ noticed # {} => run = "dead"
  /\ level = "gone" => group.dequeues = <<>> /\ group.held = <<>> /\ group.involved = {}

Correct ==
  /\ Sound(group, ToSet(inbox), Whos(group.dequeues), flow, level, noticed)
  /\ Unique(inbox) /\ Ordered(inbox) /\ Singly(group.dequeues)
  /\ Mourned(Whos(group.dequeues), inbox, consumer)
  /\ Outside
-----------------------------------------------------------------------------
(* A letter, like a reply, is told by what it says.                        *)
LEMMA ToIs ==
  ASSUME NEW k, NEW t, NEW m, NEW j, NEW s, NEW n
  PROVE  /\ To(k, t, m).kind = k /\ To(k, t, m).who = t /\ To(k, t, m).msg = m
         /\ To(k, t, m) = To(j, s, n) => k = j /\ t = s /\ m = n
BY DEF To

(* A flow is where its letters are: a letter that is sent or received, a   *)
(* reply that is sent, received or held, and a dequeue that waits or not.  *)
LEMMA LetterIn ==
  ASSUME NEW I, NEW M, NEW V, NEW H, NEW f, NEW k \in LetterKind, NEW m \in Carried
  PROVE  Places(I \cup {To(k, f, m)}, M, V, H, f) = Places(I, M, V, H, f) \cup {<<k, m>>}
<1>1. ASSUME NEW J, J = I \cup {To(k, f, m)}
      PROVE  Letters(J, f) = Letters(I, f) \cup {<<k, m>>}
  <2>1. ASSUME NEW p \in LetterKind \X Carried
        PROVE  p \in Letters(J, f) <=> p \in Letters(I, f) \/ p = <<k, m>>
    BY <1>1, ToIs DEF Letters
  <2>2. QED
    BY <2>1 DEF Letters
<1>2. QED
  BY <1>1, Zenon DEF Places

(* A letter to the group about the flow is received.                       *)
LEMMA LetterOut ==
  ASSUME NEW I, NEW M, NEW V, NEW H, NEW f, NEW k \in LetterKind, NEW m \in Carried
  PROVE  Places(I \ {To(k, f, m)}, M, V, H, f) = Places(I, M, V, H, f) \ {<<k, m>>}
<1>1. ASSUME NEW J, J = I \ {To(k, f, m)}
      PROVE  Letters(J, f) = Letters(I, f) \ {<<k, m>>}
  <2>1. ASSUME NEW p \in LetterKind \X Carried
        PROVE  p \in Letters(J, f) <=> p \in Letters(I, f) /\ p # <<k, m>>
    BY <1>1, ToIs DEF Letters
  <2>2. QED
    BY <2>1 DEF Letters
<1>2. <<k, m>> \notin Mails(M, f) /\ k # "waits" /\ k # "held"
  BY DEF Mails, LetterKind, MailKind
<1>3. QED
  BY <1>1, <1>2 DEF Places

(* The group sends a reply about the flow.                                 *)
LEMMA MailIn ==
  ASSUME NEW I, NEW M, NEW V, NEW H, NEW f, NEW k \in MailKind, NEW m \in Carried
  PROVE  Places(I, M \cup {Reply(k, f, m)}, V, H, f) = Places(I, M, V, H, f) \cup {<<k, m>>}
<1>1. ASSUME NEW N, N = M \cup {Reply(k, f, m)}
      PROVE  Mails(N, f) = Mails(M, f) \cup {<<k, m>>}
  <2>1. ASSUME NEW p \in MailKind \X Carried
        PROVE  p \in Mails(N, f) <=> p \in Mails(M, f) \/ p = <<k, m>>
    BY <1>1, ReplyIs DEF Mails
  <2>2. QED
    BY <2>1 DEF Mails
<1>2. QED
  BY <1>1, Zenon DEF Places

(* A reply about the flow is received.                                     *)
LEMMA MailOut ==
  ASSUME NEW I, NEW M, NEW V, NEW H, NEW f, NEW k \in MailKind, NEW m \in Carried
  PROVE  Places(I, M \ {Reply(k, f, m)}, V, H, f) = Places(I, M, V, H, f) \ {<<k, m>>}
<1>1. ASSUME NEW N, N = M \ {Reply(k, f, m)}
      PROVE  Mails(N, f) = Mails(M, f) \ {<<k, m>>}
  <2>1. ASSUME NEW p \in MailKind \X Carried
        PROVE  p \in Mails(N, f) <=> p \in Mails(M, f) /\ p # <<k, m>>
    BY <1>1, ReplyIs DEF Mails
  <2>2. QED
    BY <2>1 DEF Mails
<1>2. <<k, m>> \notin Letters(I, f) /\ k # "waits" /\ k # "held"
  BY DEF Letters, LetterKind, MailKind
<1>3. QED
  BY <1>1, <1>2 DEF Places

(* The flow's dequeue waits.                                               *)
LEMMA WaitIn ==
  ASSUME NEW I, NEW M, NEW V, NEW H, NEW f, NEW X, f \in X
  PROVE  Places(I, M, X, H, f) = Places(I, M, V, H, f) \cup {<<"waits", Nobody>>}
BY DEF Places

(* It does not, or not any more.                                           *)
LEMMA WaitOut ==
  ASSUME NEW I, NEW M, NEW V, NEW H, NEW f, NEW X, f \notin X
  PROVE  Places(I, M, X, H, f) = Places(I, M, V, H, f) \ {<<"waits", Nobody>>}
<1>1. /\ <<"waits", Nobody>> \notin Letters(I, f) /\ <<"waits", Nobody>> \notin Mails(M, f)
      /\ <<"waits", Nobody>> # <<"held", Nobody>>
  BY DEF Letters, LetterKind, Mails, MailKind
<1>2. QED
  BY <1>1 DEF Places

(* The reply to the end of its transaction is held.                        *)
LEMMA HeldIn ==
  ASSUME NEW I, NEW M, NEW V, NEW H, NEW f, NEW X, Reply("xa", f, Nobody) \in X
  PROVE  Places(I, M, V, X, f) = Places(I, M, V, H, f) \cup {<<"held", Nobody>>}
BY DEF Places

(* It is not held, or has been sent.                                       *)
LEMMA HeldOut ==
  ASSUME NEW I, NEW M, NEW V, NEW H, NEW f, NEW X, Reply("xa", f, Nobody) \notin X
  PROVE  Places(I, M, V, X, f) = Places(I, M, V, H, f) \ {<<"held", Nobody>>}
<1>1. /\ <<"held", Nobody>> \notin Letters(I, f) /\ <<"held", Nobody>> \notin Mails(M, f)
      /\ <<"held", Nobody>> # <<"waits", Nobody>>
  BY DEF Letters, LetterKind, Mails, MailKind
<1>2. QED
  BY <1>1 DEF Places

(* What is not about a flow leaves it where it is.                         *)
LEMMA PlacesSame ==
  ASSUME NEW I, NEW M, NEW V, NEW H, NEW J, NEW N, NEW X, NEW G, NEW f,
         \A k \in LetterKind, m \in Carried : To(k, f, m) \in I <=> To(k, f, m) \in J,
         \A k \in MailKind, m \in Carried : Reply(k, f, m) \in M <=> Reply(k, f, m) \in N,
         f \in V <=> f \in X, Reply("xa", f, Nobody) \in H <=> Reply("xa", f, Nobody) \in G
  PROVE  Places(I, M, V, H, f) = Places(J, N, X, G, f)
<1>1. Letters(I, f) = Letters(J, f)
  BY DEF Letters
<1>2. Mails(M, f) = Mails(N, f)
  BY DEF Mails
<1>3. QED
  BY <1>1, <1>2 DEF Places

(* Where a flow is said to be, there is something of it.                   *)
LEMMA PlaceIs ==
  ASSUME NEW I, NEW M, NEW V, NEW H, NEW f, NEW m \in Carried
  PROVE  /\ \A k \in LetterKind : <<k, m>> \in Places(I, M, V, H, f) <=> To(k, f, m) \in I
         /\ \A k \in MailKind : <<k, m>> \in Places(I, M, V, H, f) <=> Reply(k, f, m) \in M
         /\ <<"waits", Nobody>> \in Places(I, M, V, H, f) <=> f \in V
         /\ <<"held", Nobody>> \in Places(I, M, V, H, f) <=> Reply("xa", f, Nobody) \in H
<1>1. /\ \A k \in LetterKind : <<k, m>> \in Letters(I, f) <=> To(k, f, m) \in I
      /\ \A k \in MailKind : <<k, m>> \in Mails(M, f) <=> Reply(k, f, m) \in M
      /\ \A k, n : <<k, n>> \in Letters(I, f) => k \in LetterKind
      /\ \A k, n : <<k, n>> \in Mails(M, f) => k \in MailKind
  BY DEF Letters, Mails
<1>2. /\ \A k \in LetterKind : k \notin MailKind /\ k # "waits" /\ k # "held"
      /\ \A k \in MailKind : k \notin LetterKind /\ k # "waits" /\ k # "held"
      /\ "waits" \notin LetterKind \cup MailKind /\ "held" \notin LetterKind \cup MailKind
  BY DEF LetterKind, MailKind
<1>3. QED
  BY <1>1, <1>2 DEF Places
-----------------------------------------------------------------------------
(* What a flow's places say of its transaction, and what becomes of it     *)
(* when one of them is left for another.                                   *)

(* Nothing that is added has not been taken.                               *)
LEMMA FitsAdds ==
  ASSUME NEW f, NEW P, NEW T, NEW A, NEW s, NEW inv, NEW reg, NEW lv, NEW nt,
         Fits(f, P, T, A, s, inv, reg, lv, nt)
  PROVE  A \subseteq T
BY DEF Fits, Resting, Moving, Closed, Orphan

(* Other flows, a group that has ended, and a death are nothing to a flow. *)
LEMMA FitsSame ==
  ASSUME NEW f, NEW P, NEW T, NEW A, NEW s, NEW inv, NEW reg, NEW lv, NEW nt,
         Fits(f, P, T, A, s, inv, reg, lv, nt), NEW ji, NEW jr, NEW jl, NEW jt,
         f \in inv <=> f \in ji, f \in reg <=> f \in jr, lv = "gone" => jl = "gone",
         "tm" \in nt => "tm" \in jt
  PROVE  Fits(f, P, T, A, s, ji, jr, jl, jt)
BY DEF Fits, Resting, Moving, Closed, Orphan

(* The group answers a prepare.                                            *)
LEMMA FitsPrepare ==
  ASSUME NEW f, NEW P, NEW T, NEW A, NEW s, NEW inv, NEW reg, NEW lv, NEW nt,
         Fits(f, P, T, A, s, inv, reg, lv, nt), <<"prepare", Nobody>> \in P
  PROVE  Fits(f, (P \ {<<"prepare", Nobody>>}) \cup {<<"prepared", Nobody>>}, T, A, s, inv, reg, lv, nt)
BY DEF Fits, Resting, Moving, Closed, Orphan, Ignored

(* The group commits: the transaction has added what it has taken.         *)
LEMMA FitsCommit ==
  ASSUME NEW f, NEW P, NEW T, NEW A, NEW s, NEW inv, NEW reg, NEW lv, NEW nt,
         Fits(f, P, T, A, s, inv, reg, lv, nt), <<"commit", Nobody>> \in P
  PROVE  /\ T = A
         /\ Fits(f, (P \ {<<"commit", Nobody>>}) \cup {<<"held", Nobody>>}, {}, {}, s,
                 inv \ {f}, reg, lv, nt)
BY DEF Fits, Resting, Moving, Closed, Orphan, Ignored

(* The group rolls back: nothing else of the flow is behind the letter,    *)
(* but for replies to a forward that is dead.                              *)
LEMMA FitsRollback ==
  ASSUME NEW f, NEW P, NEW T, NEW A, NEW s, NEW inv, NEW reg, NEW lv, NEW nt,
         Fits(f, P, T, A, s, inv, reg, lv, nt), <<"rollback", Nobody>> \in P,
         \A m \in Message : <<"enqueue", m>> \notin P
  PROVE  /\ A \subseteq T
         /\ Fits(f, (P \ {<<"rollback", Nobody>>}) \cup {<<"held", Nobody>>}, {}, {}, s,
                 inv \ {f}, reg, lv, nt)
BY DEF Fits, Resting, Moving, Closed, Orphan, Ignored

(* The group takes the enqueue of a flow, whose transaction has taken this *)
(* message and has added nothing.                                          *)
LEMMA FitsEnqueue ==
  ASSUME NEW f, NEW P, NEW T, NEW A, NEW s, NEW inv, NEW reg, NEW lv, NEW nt,
         Fits(f, P, T, A, s, inv, reg, lv, nt), NEW m, <<"enqueue", m>> \in P
  PROVE  /\ T = {m} /\ A = {} /\ f \in inv
         /\ Fits(f, (P \ {<<"enqueue", m>>}) \cup {<<"enqueued", m>>}, {m}, {m}, s, inv, reg, lv, nt)
BY DEF Fits, Resting, Moving, Closed, Orphan, Ignored

(* The group takes a dequeue, which waits.                                 *)
LEMMA FitsDequeue ==
  ASSUME NEW f, NEW P, NEW T, NEW A, NEW s, NEW inv, NEW reg, NEW lv, NEW nt, lv # "gone",
         Fits(f, P, T, A, s, inv, reg, lv, nt), <<"dequeue", Nobody>> \in P
  PROVE  /\ <<"waits", Nobody>> \notin P
         /\ Fits(f, (P \ {<<"dequeue", Nobody>>}) \cup {<<"waits", Nobody>>}, T, A, s, inv, reg, lv, nt)
BY DEF Fits, Resting, Moving, Closed, Orphan, Ignored

(* A dequeue that waits finds a message, or is forgotten, or its process   *)
(* has died.                                                               *)
LEMMA FitsFound ==
  ASSUME NEW f, NEW P, NEW T, NEW A, NEW s, NEW inv, NEW reg, NEW lv, NEW nt,
         Fits(f, P, T, A, s, inv, reg, lv, nt), <<"waits", Nobody>> \in P, NEW m \in Message
  PROVE  Fits(f, (P \ {<<"waits", Nobody>>}) \cup {<<"dequeued", m>>}, {m}, {}, s,
              inv \cup {f}, reg \cup {f}, lv, nt)
BY DEF Fits, Resting, Moving, Closed, Orphan, Ignored

(* A dequeue that waits is told to forget, or is removed.                  *)
LEMMA FitsWaits ==
  ASSUME NEW f, NEW P, NEW T, NEW A, NEW s, NEW inv, NEW reg, NEW lv, NEW nt,
         Fits(f, P, T, A, s, inv, reg, lv, nt), <<"waits", Nobody>> \in P
  PROVE  /\ T = {} /\ A = {} /\ f \notin inv /\ f \notin reg
         /\ Fits(f, (P \ {<<"waits", Nobody>>}) \cup {<<"forgotten", Nobody>>}, T, A, s,
                 inv, reg, lv, nt)
         /\ Fits(f, P \ {<<"waits", Nobody>>}, T, A, s, inv, reg, lv, nt)
BY DEF Fits, Resting, Moving, Closed, Orphan, Ignored

(* A reply that is held or sent to the transaction manager is about a      *)
(* transaction that is no more.                                            *)
LEMMA FitsHeld ==
  ASSUME NEW f, NEW P, NEW T, NEW A, NEW s, NEW inv, NEW reg, NEW lv, NEW nt,
         Fits(f, P, T, A, s, inv, reg, lv, nt)
  PROVE  /\ <<"xa", Nobody>> \in P => T = {} /\ A = {}
         /\ <<"held", Nobody>> \in P =>
              /\ T = {} /\ A = {}
              /\ Fits(f, (P \ {<<"held", Nobody>>}) \cup {<<"xa", Nobody>>}, T, A, s, inv, reg, lv, nt)
BY DEF Fits, Resting, Moving, Closed, Orphan, Ignored
-----------------------------------------------------------------------------
(* What a step leaves as it was: the flows that are not in F, and the      *)
(* messages, the replies to producers among them.                          *)
Beside(F, w, I, V, fl, u, J, X, gl) ==
  \A x \in Flow \ F :
    /\ Takes(u.db, x) = Takes(w.db, x) /\ Adds(u.db, x) = Adds(w.db, x)
    /\ \A k \in LetterKind, m \in Carried : To(k, x, m) \in I <=> To(k, x, m) \in J
    /\ \A k \in MailKind, m \in Carried : Reply(k, x, m) \in w.mail <=> Reply(k, x, m) \in u.mail
    /\ x \in V <=> x \in X
    /\ Reply("xa", x, Nobody) \in ToSet(w.held) <=> Reply("xa", x, Nobody) \in ToSet(u.held)
    /\ x \in w.involved <=> x \in u.involved
    /\ x \in w.registered <=> x \in u.registered
    /\ gl[x] = fl[x]

Unmoved(w, I, u, J, m) ==
  /\ Has(u.db, m) <=> Has(w.db, m)
  /\ Shows(u.db, m) <=> Shows(w.db, m)
  /\ To("enqueue", m, m) \in J => To("enqueue", m, m) \in I
  /\ \A c \in Consumer : Reply("dequeued", c, m) \in w.mail <=> Reply("dequeued", c, m) \in u.mail
  /\ Reply("enqueued", m, m) \in u.mail \cup ToSet(u.held) =>
       Reply("enqueued", m, m) \in w.mail \cup ToSet(w.held)

(* The group may end meanwhile, and the transaction manager hear of a      *)
(* death.                                                                  *)
Onward(lv, nt, jl, jt) == (lv = "gone" => jl = "gone") /\ ("tm" \in nt => "tm" \in jt)

(* A flow beside the step is where it was.                                 *)
LEMMA BesideFits ==
  ASSUME NEW F, NEW w, NEW I, NEW V, NEW fl, NEW u, NEW J, NEW X, NEW gl,
         Beside(F, w, I, V, fl, u, J, X, gl), NEW f \in Flow \ F, NEW lv, NEW nt,
         FlowFits(w, I, V, f, fl[f], lv, nt), NEW jl, NEW jt,
         Onward(lv, nt, jl, jt)
  PROVE  FlowFits(u, J, X, f, gl[f], jl, jt)
<1>1. Places(I, w.mail, V, ToSet(w.held), f) = Places(J, u.mail, X, ToSet(u.held), f)
  <2>1. PICK M, N, H, G : M = w.mail /\ N = u.mail /\ H = ToSet(w.held) /\ G = ToSet(u.held)
    OBVIOUS
  <2>2. Places(I, M, V, H, f) = Places(J, N, X, G, f)
    <3>1. \A k \in LetterKind, m \in Carried : To(k, f, m) \in I <=> To(k, f, m) \in J
      BY DEF Beside
    <3>2. \A k \in MailKind, m \in Carried : Reply(k, f, m) \in M <=> Reply(k, f, m) \in N
      BY <2>1 DEF Beside
    <3>3. (f \in V <=> f \in X) /\ (Reply("xa", f, Nobody) \in H <=> Reply("xa", f, Nobody) \in G)
      BY <2>1 DEF Beside
    <3>4. QED
      BY <3>1, <3>2, <3>3, PlacesSame
  <2>3. QED
    BY <2>1, <2>2
<1>2. /\ Takes(u.db, f) = Takes(w.db, f) /\ Adds(u.db, f) = Adds(w.db, f) /\ gl[f] = fl[f]
      /\ f \in w.involved <=> f \in u.involved
      /\ f \in w.registered <=> f \in u.registered
  BY DEF Beside
<1>3. PICK P, T, A, s, inv, reg :
        /\ P = Places(I, w.mail, V, ToSet(w.held), f) /\ T = Takes(w.db, f)
        /\ A = Adds(w.db, f) /\ s = fl[f] /\ inv = w.involved /\ reg = w.registered
  OBVIOUS
<1>4. PICK ji, jr : ji = u.involved /\ jr = u.registered
  OBVIOUS
<1>5. Fits(f, P, T, A, s, inv, reg, lv, nt)
  BY <1>3 DEF FlowFits
<1>6. Fits(f, P, T, A, s, ji, jr, jl, jt)
  BY <1>2, <1>3, <1>4, <1>5, FitsSame DEF Onward
<1>7. QED
  BY <1>1, <1>2, <1>3, <1>4, <1>6 DEF FlowFits

(* What is known of a message beside the step is still so.                 *)
LEMMA UnmovedKnown ==
  ASSUME NEW w, NEW I, NEW u, NEW J, NEW m, Unmoved(w, I, u, J, m), Known(w, I, m)
  PROVE  Known(u, J, m)
<1>1. Given(u.mail, m) = Given(w.mail, m)
  BY DEF Unmoved, Given
<1>2. QED
  BY <1>1 DEF Unmoved, Known

(* A step beside which everything is as it was.                            *)
LEMMA SoundSame ==
  ASSUME NEW w, NEW I, NEW V, NEW fl, NEW lv, NEW nt, Sound(w, I, V, fl, lv, nt),
         NEW u, NEW J, NEW X, NEW gl, Beside({}, w, I, V, fl, u, J, X, gl),
         \A m \in Message : Unmoved(w, I, u, J, m) \/ Known(u, J, m),
         Tidy(u.db), Durable(u),
         NEW jl, NEW jt, Onward(lv, nt, jl, jt)
  PROVE  Sound(u, J, X, gl, jl, jt)
<1>1. ASSUME NEW f \in Flow
      PROVE  FlowFits(u, J, X, f, gl[f], jl, jt)
  <2>1. FlowFits(w, I, V, f, fl[f], lv, nt)
    BY DEF Sound
  <2>2. PICK F : F = {}
    OBVIOUS
  <2>3. f \in Flow \ F /\ Beside(F, w, I, V, fl, u, J, X, gl)
    BY <2>2
  <2>4. QED
    BY <2>1, <2>3, BesideFits
<1>2. ASSUME NEW m \in Message
      PROVE  Known(u, J, m)
  <2>1. Known(w, I, m) /\ (Unmoved(w, I, u, J, m) \/ Known(u, J, m))
    BY DEF Sound
  <2>2. QED
    BY <2>1, UnmovedKnown
<1>3. QED
  BY <1>1, <1>2 DEF Sound

(* A step of one flow.                                                     *)
LEMMA SoundBut ==
  ASSUME NEW w, NEW I, NEW V, NEW fl, NEW lv, NEW nt, Sound(w, I, V, fl, lv, nt),
         NEW u, NEW J, NEW X, NEW gl, NEW f \in Flow,
         Beside({f}, w, I, V, fl, u, J, X, gl), FlowFits(u, J, X, f, gl[f], lv, nt),
         \A m \in Message : Unmoved(w, I, u, J, m) \/ Known(u, J, m),
         Tidy(u.db), Durable(u)
  PROVE  Sound(u, J, X, gl, lv, nt)
<1>1. ASSUME NEW x \in Flow, x # f
      PROVE  FlowFits(u, J, X, x, gl[x], lv, nt)
  <2>1. FlowFits(w, I, V, x, fl[x], lv, nt)
    BY DEF Sound
  <2>2. x \in Flow \ {f} /\ Onward(lv, nt, lv, nt)
    BY <1>1 DEF Onward
  <2>3. QED
    BY <2>1, <2>2, BesideFits
<1>2. ASSUME NEW m \in Message
      PROVE  Known(u, J, m)
  <2>1. Known(w, I, m) /\ (Unmoved(w, I, u, J, m) \/ Known(u, J, m))
    BY DEF Sound
  <2>2. QED
    BY <2>1, UnmovedKnown
<1>3. QED
  BY <1>1, <1>2 DEF Sound

(* A reply that is held is to a producer, or to the transaction manager.   *)
LEMMA AckIs ==
  ASSUME NEW k, NEW f, NEW m, Reply(k, f, m) \in Ack
  PROVE  /\ f \in Flow => k = "xa" /\ m = Nobody
         /\ k # "dequeued"
BY QueueAssumption, ReplyIs DEF Ack, Mail

(* The write to disk sends the replies that are held.                      *)
LEMMA WrittenSound ==
  ASSUME NEW w \in Group, NEW I, NEW V, NEW fl, NEW lv, NEW nt, Sound(w, I, V, fl, lv, nt),
         NEW u, u = Written(w)
  PROVE  Sound(u, I, V, fl, lv, nt)
<1> PICK M, H : M = w.mail /\ H = ToSet(w.held)
  OBVIOUS
<1>1. /\ u.db = w.db /\ u.disk = w.db /\ u.mail = M \cup H /\ ToSet(u.held) = {}
      /\ u.involved = w.involved /\ u.registered = w.registered
  BY WrittenIs DEF ToSet
<1>2. \A r \in H : r \in Ack
  BY DEF Group, ToSet
<1>3. ASSUME NEW f \in Flow
      PROVE  FlowFits(u, I, V, f, fl[f], lv, nt)
  <2>1. PICK P, T, A, s, inv, reg :
          /\ P = Places(I, M, V, H, f) /\ T = Takes(w.db, f) /\ A = Adds(w.db, f)
          /\ s = fl[f] /\ inv = w.involved /\ reg = w.registered
    OBVIOUS
  <2>2. Fits(f, P, T, A, s, inv, reg, lv, nt)
    BY <2>1 DEF Sound, FlowFits
  <2>3. Nobody \in Carried /\ "xa" \in MailKind
    BY DEF Carried, MailKind
  <2>4. \A k \in MailKind, m \in Carried :
          Reply(k, f, m) \in H => Reply(k, f, m) = Reply("xa", f, Nobody)
    BY <1>2, AckIs
  <2>5. CASE Reply("xa", f, Nobody) \in H
    <3>1. Places(I, M \cup H, V, {}, f) = Places(I, M \cup {Reply("xa", f, Nobody)}, V, {}, f)
      <4>1. PICK N, X : N = M \cup H /\ X = M \cup {Reply("xa", f, Nobody)}
        OBVIOUS
      <4>2. \A k \in MailKind, m \in Carried : Reply(k, f, m) \in N <=> Reply(k, f, m) \in X
        BY <2>4, <2>5, <4>1
      <4>3. Places(I, N, V, {}, f) = Places(I, X, V, {}, f)
        BY <4>2, PlacesSame
      <4>4. QED
        BY <4>1, <4>3
    <3>2. Places(I, M \cup {Reply("xa", f, Nobody)}, V, {}, f)
            = Places(I, M, V, {}, f) \cup {<<"xa", Nobody>>}
      BY <2>3, MailIn
    <3>3. Places(I, M, V, {}, f) = P \ {<<"held", Nobody>>}
      <4>1. Reply("xa", f, Nobody) \notin {}
        OBVIOUS
      <4>2. QED
        BY <2>1, <4>1, HeldOut
    <3>4. <<"held", Nobody>> \in P
      BY <2>1, <2>3, <2>5, PlaceIs
    <3>5. Fits(f, (P \ {<<"held", Nobody>>}) \cup {<<"xa", Nobody>>}, T, A, s, inv, reg, lv, nt)
      BY <2>2, <3>4, FitsHeld
    <3>6. QED
      BY <1>1, <2>1, <3>1, <3>2, <3>3, <3>5 DEF FlowFits
  <2>6. CASE Reply("xa", f, Nobody) \notin H
    <3>1. PICK N : N = M \cup H
      OBVIOUS
    <3>2. \A k \in MailKind, m \in Carried : Reply(k, f, m) \in M <=> Reply(k, f, m) \in N
      BY <2>4, <2>6, <3>1
    <3>3. Places(I, M, V, H, f) = Places(I, N, V, {}, f)
      BY <2>6, <3>2, PlacesSame
    <3>4. QED
      BY <1>1, <2>1, <2>2, <3>1, <3>3 DEF FlowFits
  <2>7. QED
    BY <2>5, <2>6
<1>4. ASSUME NEW m \in Message
      PROVE  Known(u, I, m)
  <2>1. \A c \in Consumer : Reply("dequeued", c, m) \in w.mail <=> Reply("dequeued", c, m) \in u.mail
    BY <1>1, <1>2, AckIs
  <2>2. Unmoved(w, I, u, I, m)
    BY <1>1, <2>1 DEF Unmoved
  <2>3. QED
    BY <2>2, UnmovedKnown DEF Sound
<1>5. Durable(u)
  <2>1. ASSUME NEW f \in Flow, Reply("xa", f, Nobody) \in u.mail
        PROVE  Takes(u.db, f) = {} /\ Adds(u.db, f) = {}
    <3>1. Nobody \in Carried /\ "xa" \in MailKind
      BY DEF Carried, MailKind
    <3>2. PICK N, G : N = u.mail /\ G = ToSet(u.held)
      OBVIOUS
    <3>3. <<"xa", Nobody>> \in Places(I, N, V, G, f)
      BY <2>1, <3>1, <3>2, PlaceIs
    <3>4. Fits(f, Places(I, N, V, G, f), Takes(u.db, f), Adds(u.db, f), fl[f],
               u.involved, u.registered, lv, nt)
      BY <1>3, <3>2 DEF FlowFits
    <3>5. QED
      BY <3>3, <3>4, FitsHeld
  <2>2. QED
    BY <1>1, <2>1 DEF Durable
<1>6. QED
  BY <1>1, <1>3, <1>4, <1>5 DEF Sound

(* A message that is there for the taking is nowhere else.                 *)
LEMMA FreeIs ==
  ASSUME NEW w \in Group, NEW I, NEW V, NEW fl, NEW lv, NEW nt, Sound(w, I, V, fl, lv, nt),
         NEW n \in DOMAIN w.db, w.db[n].state = "enqueued", NEW m, m = w.db[n].msg
  PROVE  /\ m \in Message /\ Has(w.db, m) /\ Given(w.mail, m) = {}
         /\ To("enqueue", m, m) \notin I
         /\ \A f \in Flow : m \notin Takes(w.db, f) /\ m \notin Adds(w.db, f)
<1>1. w.db \in Seq(Row)
  BY DEF Group
<1>2. m \in Message /\ Has(w.db, m)
  BY <1>1, RowOf DEF Has
<1>3. ASSUME NEW f \in Flow, m \in Takes(w.db, f)
      PROVE  FALSE
  <2>1. PICK k \in DOMAIN w.db : w.db[k].msg = m /\ w.db[k].state = "dequeued"
    BY <1>3 DEF Takes
  <2>2. n = k
    BY <2>1 DEF Sound, Tidy, Visible
  <2>3. QED
    BY <2>1, <2>2
<1>4. ASSUME NEW f \in Flow
      PROVE  Adds(w.db, f) \subseteq Takes(w.db, f)
  BY FitsAdds DEF Sound, FlowFits
<1>5. QED
  BY <1>2, <1>3, <1>4 DEF Sound, Known

(* A dequeue that is made leaves everything in order, whoever it is for.   *)
LEMMA FoundSound ==
  ASSUME NEW w \in Group, NEW I, NEW V, NEW fl, NEW lv, NEW nt, Sound(w, I, V, fl, lv, nt),
         NEW d \in Wait, d.who \in V, NEW u, u.disk = w.disk, u.held = w.held,
         NEW n \in DOMAIN w.db, Found(w, u, d, n),
         NEW X, \A x \in Flow : x \in X <=> x \in V /\ x # d.who
  PROVE  Sound(u, I, X, fl, lv, nt)
<1> PICK m : m = w.db[n].msg
  OBVIOUS
<1>1. /\ w.db \in Seq(Row) /\ Tidy(w.db) /\ w.db[n].state = "enqueued"
      /\ u.mail = w.mail \cup {Reply("dequeued", d.who, m)}
  BY DEF Group, Sound, Found
<1>2. /\ m \in Message /\ Has(w.db, m) /\ Given(w.mail, m) = {} /\ To("enqueue", m, m) \notin I
      /\ \A f \in Flow : m \notin Takes(w.db, f) /\ m \notin Adds(w.db, f)
  BY <1>1, FreeIs
<1>3. \A c \in Consumer, y \in Message :
        Reply("dequeued", c, y) \in u.mail <=>
          Reply("dequeued", c, y) \in w.mail \/ (c = d.who /\ y = m)
  BY <1>1, ReplyIs
<1>4. \A x \in Flow, k \in MailKind, y \in Carried :
        x # d.who => (Reply(k, x, y) \in u.mail <=> Reply(k, x, y) \in w.mail)
  BY <1>1, ReplyIs
<1>5. \A k, t, y : k # "dequeued" => (Reply(k, t, y) \in u.mail <=> Reply(k, t, y) \in w.mail)
  BY <1>1, ReplyIs
<1>6. CASE d.who \in Consumer
  <2>1. /\ u.db = RemoveAt(w.db, n) /\ u.involved = w.involved /\ u.registered = w.registered
    BY <1>6 DEF Found
  <2>2. /\ Tidy(u.db)
        /\ \A f \in Flow : Takes(u.db, f) = Takes(w.db, f) /\ Adds(u.db, f) = Adds(w.db, f)
        /\ \A y \in Message : /\ Has(u.db, y) <=> Has(w.db, y) /\ y # m
                              /\ Shows(u.db, y) <=> Shows(w.db, y) /\ y # m
    BY <1>1, <1>2, <2>1, RemoveRow
  <2>3. d.who \notin Flow
    BY <1>6, QueueAssumption
  <2>4. Beside({}, w, I, V, fl, u, I, X, fl)
    BY <1>4, <2>1, <2>2, <2>3 DEF Beside
  <2>5. ASSUME NEW y \in Message, y # m
        PROVE  Unmoved(w, I, u, I, y)
    BY <1>3, <1>5, <2>2, <2>5 DEF Unmoved
  <2>6. Known(u, I, m)
    <3>1. Given(u.mail, m) = {d.who}
      BY <1>2, <1>3, <1>6 DEF Given
    <3>2. QED
      BY <1>2, <2>2, <3>1 DEF Known
  <2>7. Durable(u)
    BY <1>5, <2>2 DEF Durable, Sound
  <2>8. Onward(lv, nt, lv, nt)
    BY DEF Onward
  <2>9. QED
    BY <2>2, <2>4, <2>5, <2>6, <2>7, <2>8, SoundSame
<1>7. CASE d.who \in Flow
  <2> PICK f \in Flow : f = d.who
    BY <1>7
  <2>1. /\ u.db = Marked(w.db, n, f) /\ u.involved = w.involved \cup {f}
        /\ u.registered = w.registered \cup ({f} \ w.involved)
    BY <1>7 DEF Found
  <2>2. /\ Tidy(u.db)
        /\ \A x \in Flow : /\ Takes(u.db, x) = Takes(w.db, x) \cup (IF x = f THEN {m} ELSE {})
                           /\ Adds(u.db, x) = Adds(w.db, x)
        /\ \A y \in Message : (Has(u.db, y) <=> Has(w.db, y)) /\ (Shows(u.db, y) <=> Shows(w.db, y))
    <3>1. PICK db, e : db = w.db /\ e = u.db
      OBVIOUS
    <3>2. db \in Seq(Row) /\ Tidy(db) /\ n \in DOMAIN db /\ db[n].state = "enqueued"
          /\ e = Marked(db, n, f)
      BY <1>1, <2>1, <3>1
    <3>3. /\ Tidy(e)
          /\ \A x \in Flow : /\ Takes(e, x) = Takes(db, x) \cup (IF x = f THEN {db[n].msg} ELSE {})
                             /\ Adds(e, x) = Adds(db, x)
          /\ \A y \in Message : (Has(e, y) <=> Has(db, y)) /\ (Shows(e, y) <=> Shows(db, y))
      BY <3>2, MarkRow
    <3>4. QED
      BY <3>1, <3>3
  <2>3. Beside({f}, w, I, V, fl, u, I, X, fl)
    <3>1. ASSUME NEW x \in Flow \ {f}
          PROVE  /\ Takes(u.db, x) = Takes(w.db, x) /\ Adds(u.db, x) = Adds(w.db, x)
                 /\ \A k \in MailKind, y \in Carried :
                      Reply(k, x, y) \in w.mail <=> Reply(k, x, y) \in u.mail
                 /\ x \in V <=> x \in X
                 /\ x \in w.involved <=> x \in u.involved
                 /\ x \in w.registered <=> x \in u.registered
      <4>1. x # f /\ x \in Flow /\ x # d.who
        OBVIOUS
      <4>2. x \in V <=> x \in X
        BY <4>1
      <4>3. /\ x \in w.involved <=> x \in u.involved
            /\ x \in w.registered <=> x \in u.registered
        BY <2>1, <4>1
      <4>4. Takes(u.db, x) = Takes(w.db, x) /\ Adds(u.db, x) = Adds(w.db, x)
        BY <2>2, <4>1
      <4>5. QED
        BY <1>4, <4>1, <4>2, <4>3, <4>4
    <3>2. QED
      BY <3>1 DEF Beside
  <2>4. ASSUME NEW y \in Message
        PROVE  Unmoved(w, I, u, I, y)
    <3>1. f \notin Consumer
      BY QueueAssumption
    <3>2. QED
      BY <1>3, <1>5, <2>2, <3>1 DEF Unmoved
  <2>5. Durable(u)
    BY <1>5, <2>2 DEF Durable, Sound
  <2>6. FlowFits(u, I, X, f, fl[f], lv, nt)
    <3>1. PICK M, H, P, T, A, s, inv, reg :
            /\ M = w.mail /\ H = ToSet(w.held) /\ P = Places(I, M, V, H, f) /\ T = Takes(w.db, f)
            /\ A = Adds(w.db, f) /\ s = fl[f] /\ inv = w.involved /\ reg = w.registered
      OBVIOUS
    <3>2. Fits(f, P, T, A, s, inv, reg, lv, nt)
      BY <3>1 DEF Sound, FlowFits
    <3>3. Nobody \in Carried /\ m \in Carried /\ "dequeued" \in MailKind
      BY <1>2 DEF Carried, MailKind
    <3>4. <<"waits", Nobody>> \in P
      BY <3>1, <3>3, PlaceIs
    <3>5. /\ T = {} /\ A = {} /\ f \notin inv
          /\ Fits(f, (P \ {<<"waits", Nobody>>}) \cup {<<"dequeued", m>>}, {m}, {}, s,
                  inv \cup {f}, reg \cup {f}, lv, nt)
      <4>1. T = {} /\ A = {} /\ f \notin inv
        BY ONLY <3>2, <3>4, FitsWaits
      <4>2. m \in Message
        BY <1>2
      <4>3. Fits(f, (P \ {<<"waits", Nobody>>}) \cup {<<"dequeued", m>>}, {m}, {}, s,
                 inv \cup {f}, reg \cup {f}, lv, nt)
        BY <3>2, <3>4, <4>2, FitsFound
      <4>4. QED
        BY <4>1, <4>3
    <3>6. Places(I, M \cup {Reply("dequeued", f, m)}, X, H, f)
            = (P \ {<<"waits", Nobody>>}) \cup {<<"dequeued", m>>}
      <4>1. Places(I, M \cup {Reply("dequeued", f, m)}, X, H, f)
              = Places(I, M, X, H, f) \cup {<<"dequeued", m>>}
        BY <3>3, MailIn
      <4>2. Places(I, M, X, H, f) = P \ {<<"waits", Nobody>>}
        <5>1. f \notin X
          OBVIOUS
        <5>2. QED
          BY <3>1, <5>1, WaitOut
      <4>3. QED
        BY <4>1, <4>2
    <3>7. /\ Takes(u.db, f) = {m} /\ Adds(u.db, f) = {} /\ u.mail = M \cup {Reply("dequeued", f, m)}
          /\ ToSet(u.held) = H /\ u.involved = inv \cup {f} /\ u.registered = reg \cup {f}
      BY <1>1, <2>1, <2>2, <3>1, <3>5, ZenonT(60)
    <3>8. QED
      BY <3>1, <3>5, <3>6, <3>7 DEF FlowFits
  <2>7. QED
    BY <2>2, <2>3, <2>4, <2>5, <2>6, SoundBut
<1>8. QED
  BY <1>6, <1>7 DEF Wait

(* One that waits leaves everything as it was.                             *)
LEMMA FieldsSound ==
  ASSUME NEW w, NEW I, NEW V, NEW fl, NEW lv, NEW nt, Sound(w, I, V, fl, lv, nt),
         NEW u, u.db = w.db, u.disk = w.disk, u.mail = w.mail, u.held = w.held,
         u.involved = w.involved, u.registered = w.registered
  PROVE  Sound(u, I, V, fl, lv, nt)
BY DEF Sound, FlowFits, Known, Durable
-----------------------------------------------------------------------------
(* Waking the dequeues that wait.  In the loop the dequeues that wait, the *)
(* ones that go back and the ones to come are of different flows.          *)
Steady(w, I, fl, lv, nt) ==
  Sound(w, I, Whos(w.dequeues), fl, lv, nt) /\ Singly(w.dequeues)

ToCome(s, n) == {s[k].who : k \in {i \in DOMAIN s : n < i}}
Apiece(n, acc, s) ==
  /\ Singly(acc.w.dequeues) /\ Singly(acc.back)
  /\ \A f \in Flow : /\ ~ (f \in Whos(acc.w.dequeues) /\ f \in Whos(acc.back))
                     /\ ~ (f \in Whos(acc.w.dequeues) /\ f \in ToCome(s, n))
                     /\ ~ (f \in Whos(acc.back) /\ f \in ToCome(s, n))
InHand(n, acc, s) == Whos(acc.w.dequeues) \cup Whos(acc.back) \cup ToCome(s, n)

(* Two sequences of different flows are one.                               *)
LEMMA SinglyConcat ==
  ASSUME NEW E, NEW s \in Seq(E), NEW t \in Seq(E), Singly(s), Singly(t),
         \A f \in Flow : ~ (f \in Whos(s) /\ f \in Whos(t))
  PROVE  Singly(s \o t)
<1>1. PICK u : u = s \o t
  OBVIOUS
<1>2. PICK l \in Nat : l = Len(s)
  OBVIOUS
<1>3. \A n \in DOMAIN u :
        \/ n \in DOMAIN s /\ u[n] = s[n] /\ u[n].who \in Whos(s)
        \/ n \in Int /\ n - l \in DOMAIN t /\ u[n] = t[n - l] /\ u[n].who \in Whos(t)
  BY <1>1, <1>2, ConcatSet DEF Whos
<1>4. ASSUME NEW n \in DOMAIN u, NEW k \in DOMAIN u, u[n].who \in Flow, u[n].who = u[k].who
      PROVE  n = k
  <2>1. \/ n \in DOMAIN s /\ u[n] = s[n] /\ k \in DOMAIN s /\ u[k] = s[k]
        \/ /\ n \in Int /\ n - l \in DOMAIN t /\ u[n] = t[n - l]
           /\ k \in Int /\ k - l \in DOMAIN t /\ u[k] = t[k - l]
    BY <1>3, <1>4
  <2>2. CASE n \in DOMAIN s /\ u[n] = s[n] /\ k \in DOMAIN s /\ u[k] = s[k]
    BY <1>4, <2>2 DEF Singly
  <2>3. CASE /\ n \in Int /\ n - l \in DOMAIN t /\ u[n] = t[n - l]
             /\ k \in Int /\ k - l \in DOMAIN t /\ u[k] = t[k - l]
    <3>1. n - l = k - l
      BY <1>4, <2>3 DEF Singly
    <3>2. QED
      BY <2>3, <3>1
  <2>4. QED
    BY <2>1, <2>2, <2>3
<1>5. QED
  BY <1>1, <1>4 DEF Singly

(* Each waits once when one that did not is put behind the others.         *)
LEMMA SinglyAppend ==
  ASSUME NEW E, NEW s \in Seq(E), NEW e \in E, Singly(s), e.who \in Flow => e.who \notin Whos(s)
  PROVE  Singly(Append(s, e))
<1>1. PICK t, l : t = Append(s, e) /\ l = Len(s)
  OBVIOUS
<1>2. /\ DOMAIN t = 1 .. l + 1 /\ t[l + 1] = e /\ \A n \in DOMAIN s : t[n] = s[n]
      /\ DOMAIN s = 1 .. l /\ l \in Nat
  BY <1>1, AppendSet
<1>3. \A n \in DOMAIN t : \/ n = l + 1 /\ t[n] = e
                          \/ n \in DOMAIN s /\ t[n] = s[n] /\ t[n].who \in Whos(s)
  BY <1>2 DEF Whos
<1>4. ASSUME NEW n \in DOMAIN t, NEW k \in DOMAIN t, t[n].who \in Flow, t[n].who = t[k].who
      PROVE  n = k
  BY <1>3, <1>4 DEF Singly
<1>5. QED
  BY <1>1, <1>4 DEF Singly

(* What is to come with one less.                                          *)
LEMMA ComesNext ==
  ASSUME NEW E, NEW s \in Seq(E), Singly(s), NEW n \in 1 .. Len(s)
  PROVE  /\ ToCome(s, n - 1) = ToCome(s, n) \cup {s[n].who}
         /\ s[n].who \in Flow => s[n].who \notin ToCome(s, n)
         /\ n \in DOMAIN s
<1>1. DOMAIN s = 1 .. Len(s) /\ Len(s) \in Nat
  OBVIOUS
<1>2. {i \in DOMAIN s : n - 1 < i} = {i \in DOMAIN s : n < i} \cup {n}
  BY <1>1
<1>3. s[n].who \in Flow => s[n].who \notin ToCome(s, n)
  BY <1>1 DEF ToCome, Singly
<1>4. QED
  BY <1>1, <1>2, <1>3 DEF ToCome

(* One turn of the loop: a dequeue that waited is tried again.             *)
LEMMA TurnSound ==
  ASSUME NEW s \in Seq(Wait), Singly(s), NEW n \in 1 .. Len(s), NEW acc \in Acc,
         NEW I, NEW fl, NEW lv, NEW nt, NEW next, next = Again(acc, s[n]),
         Apiece(n - 1, acc, s), Sound(acc.w, I, InHand(n - 1, acc, s), fl, lv, nt)
  PROVE  Apiece(n, next, s) /\ Sound(next.w, I, InHand(n, next, s), fl, lv, nt)
<1> PICK d \in Wait : d = s[n]
  OBVIOUS
<1>1. /\ ToCome(s, n - 1) = ToCome(s, n) \cup {d.who}
      /\ d.who \in Flow => d.who \notin ToCome(s, n)
  BY ComesNext
<1>2. /\ next \in Acc
      /\ \/ next.w = acc.w /\ next.back = Append(acc.back, d)
         \/ next.w = Dequeued(acc.w, d) /\ next.back = acc.back
  BY AgainIs
<1>3. acc.w \in Group /\ acc.back \in Seq(Wait) /\ acc.w.dequeues \in Seq(Wait)
  BY DEF Acc, Group
<1>4. PICK w, b, q : w = acc.w /\ b = acc.back /\ q = acc.w.dequeues
  OBVIOUS
<1>5. d.who \in Flow => d.who \notin Whos(q) /\ d.who \notin Whos(b)
  BY <1>1, <1>4 DEF Apiece
<1>6. CASE next.w = acc.w /\ next.back = Append(acc.back, d)
  <2>1. Whos(next.back) = Whos(b) \cup {d.who} /\ Singly(next.back)
    <3>1. Whos(Append(b, d)) = Whos(b) \cup {d.who}
      BY <1>3, <1>4, AppendSet
    <3>2. Singly(Append(b, d))
      <4>1. Singly(b)
        BY <1>4 DEF Apiece
      <4>2. QED
        BY <1>3, <1>4, <1>5, <4>1, SinglyAppend
    <3>3. QED
      BY <1>4, <1>6, <3>1, <3>2
  <2>2. InHand(n, next, s) = InHand(n - 1, acc, s)
    BY <1>1, <1>4, <1>6, <2>1 DEF InHand
  <2>3. Apiece(n, next, s)
    BY <1>1, <1>4, <1>5, <1>6, <2>1 DEF Apiece
  <2>4. QED
    BY <1>6, <2>2, <2>3
<1>7. CASE next.w = Dequeued(acc.w, d) /\ next.back = acc.back
  <2>1. PICK u : u = next.w
    OBVIOUS
  <2>2. /\ u \in Group /\ u.disk = w.disk /\ u.held = w.held
        /\ Waited(w, u, d) \/ \E k \in DOMAIN w.db : Found(w, u, d, k)
    BY <1>3, <1>4, <1>7, <2>1, DequeuedIs
  <2>3. PICK V : V = InHand(n - 1, acc, s)
    OBVIOUS
  <2>4. d.who \in V /\ Sound(w, I, V, fl, lv, nt)
    BY <1>1, <1>4, <2>3 DEF InHand
  <2>5. CASE Waited(w, u, d)
    <3>1. Whos(u.dequeues) = Whos(q) \cup {d.who} /\ Singly(u.dequeues)
      <4>1. u.dequeues = Append(q, d)
        BY <1>4, <2>5 DEF Waited
      <4>2. Whos(Append(q, d)) = Whos(q) \cup {d.who}
        BY <1>3, <1>4, AppendSet
      <4>3. Singly(q)
        BY <1>4 DEF Apiece
      <4>4. Singly(Append(q, d))
        BY <1>3, <1>4, <1>5, <4>3, SinglyAppend
      <4>5. QED
        BY <4>1, <4>2, <4>4
    <3>2. InHand(n, next, s) = V
      BY <1>1, <1>4, <1>7, <2>1, <2>3, <3>1 DEF InHand
    <3>3. Apiece(n, next, s)
      BY <1>1, <1>4, <1>5, <1>7, <2>1, <3>1 DEF Apiece
    <3>4. Sound(u, I, V, fl, lv, nt)
      BY <2>2, <2>4, <2>5, FieldsSound DEF Waited
    <3>5. QED
      BY <2>1, <3>2, <3>3, <3>4
  <2>6. CASE \E k \in DOMAIN w.db : Found(w, u, d, k)
    <3>1. PICK k \in DOMAIN w.db : Found(w, u, d, k)
      BY <2>6
    <3>2. u.dequeues = q
      BY <1>4, <3>1 DEF Found
    <3>3. PICK X : X = InHand(n, next, s)
      OBVIOUS
    <3>4. \A x \in Flow : x \in X <=> x \in V /\ x # d.who
      BY <1>1, <1>4, <1>5, <1>7, <2>1, <2>3, <3>2, <3>3 DEF InHand
    <3>5. Sound(u, I, X, fl, lv, nt)
      BY <1>3, <1>4, <2>2, <2>4, <3>1, <3>4, FoundSound
    <3>6. Apiece(n, next, s)
      BY <1>1, <1>4, <1>7, <2>1, <3>2 DEF Apiece
    <3>7. QED
      BY <2>1, <3>3, <3>5, <3>6
  <2>7. QED
    BY <2>2, <2>5, <2>6
<1>8. QED
  BY <1>2, <1>6, <1>7

(* The whole loop, by induction over the dequeues.                         *)
LEMMA WokenSound ==
  ASSUME NEW w \in Group, NEW I, NEW fl, NEW lv, NEW nt, Steady(w, I, fl, lv, nt),
         NEW u, u = Woken(w)
  PROVE  u \in Group /\ Steady(u, I, fl, lv, nt)
<1>1. u \in Group
  BY WokenOnly
<1>2. CASE w.dequeues = <<>>
  BY <1>2 DEF Woken
<1>3. CASE w.dequeues # <<>>
  <2> PICK q : q = w.dequeues
    OBVIOUS
  <2>1. PICK again \in Seq(Wait) : again = AgainOf(w)
    BY AgainRest
  <2>2. q \in Seq(Wait) /\ Singly(q) /\ Sound(w, I, Whos(q), fl, lv, nt)
    BY DEF Group, Steady
  <2>3. PICK rest : rest = RestOf(w)
    OBVIOUS
  <2>4. PICK g : Keeps(g, again, q, Passes(w))
    BY <2>1, AgainRest
  <2>5. PICK h : Keeps(h, rest, q, DOMAIN q \ Passes(w))
    BY <2>3, AgainRest
  <2>6. /\ Whos(again) = {q[n].who : n \in Passes(w)}
        /\ Whos(rest) = {q[n].who : n \in DOMAIN q \ Passes(w)}
    BY <2>4, <2>5, KeepsSet
  <2>7. Passes(w) \in SUBSET DOMAIN q /\ (DOMAIN q \ Passes(w)) \in SUBSET DOMAIN q
    BY DEF Passes
  <2>8. Singly(again) /\ Singly(rest)
    BY <2>2, <2>4, <2>5, <2>7, KeepsSingly
  <2>9. Whos(again) \cup Whos(rest) = Whos(q)
    BY <2>6, <2>7 DEF Whos
  <2>10. \A f \in Flow : ~ (f \in Whos(rest) /\ f \in Whos(again))
    BY <2>2, <2>6, <2>7 DEF Singly
  <2>11. ToCome(again, 0) = Whos(again) /\ ToCome(again, Len(again)) = {}
    <3>1. DOMAIN again = 1 .. Len(again) /\ Len(again) \in Nat
      BY <2>1
    <3>2. {i \in DOMAIN again : 0 < i} = DOMAIN again /\ {i \in DOMAIN again : Len(again) < i} = {}
      BY <3>1
    <3>3. QED
      BY <3>2 DEF ToCome, Whos
  <2> DEFINE Kept(n, acc) == /\ Apiece(n, acc, again)
                             /\ Sound(acc.w, I, InHand(n, acc, again), fl, lv, nt)
             S == {p \in Nat \X Acc : Kept(p[1], p[2])}
  <2>12. Start(w) \in Acc /\ Kept(0, Start(w))
    <3>1. PICK acc \in Acc : acc = Start(w)
      BY StartIs
    <3>2. /\ acc.back = <<>> /\ acc.w.dequeues = rest /\ acc.w.db = w.db /\ acc.w.disk = w.disk
          /\ acc.w.involved = w.involved /\ acc.w.registered = w.registered
          /\ acc.w.held = w.held /\ acc.w.mail = w.mail
      BY <2>3, <3>1, StartIs
    <3>3. Whos(<<>>) = {} /\ Singly(<<>>)
      BY DEF Whos, Singly
    <3>4. Apiece(0, acc, again)
      BY <2>8, <2>10, <2>11, <3>2, <3>3 DEF Apiece
    <3>5. InHand(0, acc, again) = Whos(q)
      BY <2>9, <2>11, <3>2, <3>3 DEF InHand
    <3>6. PICK v : v = acc.w
      OBVIOUS
    <3>7. Sound(v, I, Whos(q), fl, lv, nt)
      BY <2>2, <3>2, <3>6, FieldsSound
    <3>8. QED
      BY <3>1, <3>4, <3>5, <3>6, <3>7
  <2>13. ASSUME NEW n \in 1 .. Len(again), NEW acc \in Acc, Kept(n - 1, acc)
         PROVE  Kept(n, Again(acc, again[n])) /\ Again(acc, again[n]) \in Acc
    <3>1. PICK next : next = Again(acc, again[n])
      OBVIOUS
    <3>2. Apiece(n, next, again) /\ Sound(next.w, I, InHand(n, next, again), fl, lv, nt)
      BY <2>8, <2>13, <3>1, TurnSound
    <3>3. again[n] \in Wait
      BY <2>1
    <3>4. next \in Acc
      BY <3>1, <3>3, AgainIs
    <3>5. QED
      BY <3>1, <3>2, <3>4
  <2>14. <<0, Start(w)>> \in S
    BY <2>12
  <2>15. \A n \in 1 .. Len(AgainOf(w)), acc \in Acc :
           <<n - 1, acc>> \in S => <<n, Again(acc, AgainOf(w)[n])>> \in S
    <3> HIDE DEF Kept
    <3>1. ASSUME NEW n \in 1 .. Len(again), NEW acc \in Acc, <<n - 1, acc>> \in S
          PROVE  <<n, Again(acc, again[n])>> \in S
      <4>1. Kept(n - 1, acc) /\ n \in Nat
        BY <2>1, <3>1
      <4>2. Kept(n, Again(acc, again[n])) /\ Again(acc, again[n]) \in Acc
        BY <2>13, <4>1
      <4>3. QED
        BY <4>1, <4>2
    <3>2. QED
      BY <2>1, <3>1
  <2>16. PICK done \in Acc, t \in BOOLEAN :
          <<Len(AgainOf(w)), done>> \in S /\ Woken(w) = Finish(done, t)
    <3> HIDE DEF S
    <3> QED BY <1>3, <2>14, <2>15, WokenIs
  <2>17. Kept(Len(again), done)
    BY <2>1, <2>16
  <2>18. done.w \in Group /\ done.back \in Seq(Wait) /\ done.w.dequeues \in Seq(Wait)
    BY DEF Acc, Group
  <2>19. PICK v, s, b : v = done.w /\ s = done.w.dequeues /\ b = done.back
    OBVIOUS
  <2>20. /\ u.dequeues = s \o b /\ u.db = v.db /\ u.disk = v.disk /\ u.involved = v.involved
         /\ u.registered = v.registered /\ u.held = v.held /\ u.mail = v.mail
    BY <2>16, <2>19, FinishIs, ZenonT(60)
  <2>21. Whos(s \o b) = Whos(s) \cup Whos(b)
    BY <2>18, <2>19, ConcatSet
  <2>22. Singly(s \o b)
    <3>1. Singly(s) /\ Singly(b) /\ \A f \in Flow : ~ (f \in Whos(s) /\ f \in Whos(b))
      BY <2>17, <2>19 DEF Apiece
    <3>2. QED
      BY <2>18, <2>19, <3>1, SinglyConcat
  <2>23. InHand(Len(again), done, again) = Whos(u.dequeues)
    BY <2>11, <2>19, <2>20, <2>21 DEF InHand
  <2>24. Sound(u, I, Whos(u.dequeues), fl, lv, nt)
    <3>1. PICK X : X = Whos(u.dequeues)
      OBVIOUS
    <3>2. Sound(v, I, X, fl, lv, nt)
      BY <2>17, <2>19, <2>23, <3>1
    <3>3. Sound(u, I, X, fl, lv, nt)
      BY <2>20, <3>2, FieldsSound
    <3>4. QED
      BY <3>1, <3>3
  <2>25. QED
    BY <1>1, <2>20, <2>22, <2>24 DEF Steady
<1>4. QED
  BY <1>2, <1>3

(* persist, and a reply that is held until then.                           *)
LEMMA PersistedSound ==
  ASSUME NEW w \in Group, NEW I, NEW fl, NEW lv, NEW nt, Steady(w, I, fl, lv, nt),
         NEW u, u = Persisted(w)
  PROVE  u \in Group /\ Steady(u, I, fl, lv, nt)
<1>1. PICK v : v = Written(w)
  OBVIOUS
<1>2. v \in Group /\ v.dequeues = w.dequeues
  BY <1>1, WrittenIs
<1>3. Steady(v, I, fl, lv, nt)
  <2>1. PICK V : V = Whos(w.dequeues)
    OBVIOUS
  <2>2. Sound(v, I, V, fl, lv, nt)
    BY <1>1, <2>1, WrittenSound DEF Steady
  <2>3. QED
    BY <1>2, <2>1, <2>2 DEF Steady
<1>4. u = w \/ u = Woken(v)
  BY <1>1, PersistedIs
<1>5. QED
  BY <1>2, <1>3, <1>4, WokenSound

(* A reply that is held, and what follows when the batch is full.          *)
LEMMA HeldSound ==
  ASSUME NEW w \in Group, NEW r \in Ack, NEW I, NEW fl, NEW lv, NEW nt,
         Steady(Queued(w, r), I, fl, lv, nt), NEW u, u = Held(w, r)
  PROVE  u \in Group /\ Steady(u, I, fl, lv, nt)
<1>1. PICK v : v = Queued(w, r)
  OBVIOUS
<1>2. v \in Group /\ Steady(v, I, fl, lv, nt)
  BY <1>1, QueuedIs
<1>3. u = v \/ u = Persisted(v)
  BY <1>1, HeldIs
<1>4. QED
  BY <1>2, <1>3, PersistedSound
-----------------------------------------------------------------------------
(* The inbox.  Taking the first letter.                                    *)
LEMMA LetterIs ==
  ASSUME NEW l \in Letter
  PROVE  l = To(l.kind, l.who, l.msg) /\ l.msg \in Carried
BY DEF Letter, To, Carried

(* What is known of the letter that is first, and of those behind it.      *)
LEMMA HeadOut ==
  ASSUME NEW ib \in Seq(Letter), ib # <<>>, Unique(ib), Ordered(ib), NEW l, l = Head(ib)
  PROVE  /\ Tail(ib) \in Seq(Letter) /\ Unique(Tail(ib)) /\ Ordered(Tail(ib))
         /\ l \in Letter /\ l \in ToSet(ib)
         /\ ToSet(Tail(ib)) \subseteq ToSet(ib) /\ ToSet(ib) \subseteq ToSet(Tail(ib)) \cup {l}
         /\ l.kind \in LetterKind /\ l.who \in Flow \cup Message =>
              ToSet(Tail(ib)) = ToSet(ib) \ {l}
         /\ l.kind = "rollback" =>
              \A y \in ToSet(ib) : ~ (y.kind = "enqueue" /\ y.who = l.who)
<1>1. PICK t : t = Tail(ib)
  OBVIOUS
<1>2. /\ t \in Seq(Letter) /\ l \in Letter /\ l = ib[1] /\ 1 \in DOMAIN ib
      /\ \A n \in DOMAIN t : /\ n \in Nat /\ n + 1 \in DOMAIN ib /\ n + 1 # 1
                             /\ t[n] = ib[n + 1]
      /\ ToSet(ib) = ToSet(t) \cup {l}
      /\ DOMAIN ib = 1 .. Len(ib)
  BY <1>1, TailSet
<1>3. Unique(t)
  <2>1. ASSUME NEW n \in DOMAIN t, NEW k \in DOMAIN t, t[n] = t[k], t[n].kind \in LetterKind,
               t[n].who \in Flow \cup Message
        PROVE  n = k
    <3>1. n + 1 = k + 1
      BY <1>2, <2>1 DEF Unique
    <3>2. QED
      BY <1>2, <3>1
  <2>2. QED
    BY <2>1 DEF Unique
<1>4. Ordered(t)
  <2>1. ASSUME NEW n \in DOMAIN t, NEW k \in DOMAIN t, t[n].kind = "enqueue",
               t[k].kind = "rollback", t[n].who = t[k].who
        PROVE  n < k
    <3>1. n + 1 < k + 1
      BY <1>2, <2>1 DEF Ordered
    <3>2. QED
      BY <1>2, <3>1
  <2>2. QED
    BY <2>1 DEF Ordered
<1>5. ASSUME l.kind \in LetterKind, l.who \in Flow \cup Message
      PROVE  l \notin ToSet(t)
  <2>1. ASSUME NEW n \in DOMAIN t, t[n] = l
        PROVE  FALSE
    <3>1. n + 1 \in DOMAIN ib /\ ib[n + 1] = ib[1] /\ n + 1 # 1
      BY <1>2, <2>1
    <3>2. QED
      BY <1>2, <1>5, <3>1 DEF Unique
  <2>2. QED
    BY <2>1 DEF ToSet
<1>6. ASSUME l.kind = "rollback", NEW y \in ToSet(ib), y.kind = "enqueue", y.who = l.who
      PROVE  FALSE
  <2>1. PICK n \in DOMAIN ib : y = ib[n]
    BY <1>6 DEF ToSet
  <2>2. n < 1
    BY <1>2, <1>6, <2>1 DEF Ordered
  <2>3. QED
    BY <1>2, <2>2
<1>7. QED
  BY <1>1, <1>2, <1>3, <1>4, <1>5, <1>6

(* What the letters of the others are when one is taken, and the letters   *)
(* of producers.                                                           *)
LEMMA TakenLetter ==
  ASSUME NEW I, NEW k, NEW f, NEW m, NEW J, J = I \ {To(k, f, m)}
  PROVE  /\ \A j, x, y : x # f => (To(j, x, y) \in I <=> To(j, x, y) \in J)
         /\ \A y : To("enqueue", y, y) \in J => To("enqueue", y, y) \in I
BY ToIs

(* enqueue of a producer: the message is there, and was not.               *)
LEMMA ProducerEnqueueSound ==
  ASSUME NEW w \in Group, NEW I, NEW fl, NEW lv, NEW nt, Steady(w, I, fl, lv, nt),
         NEW l \in Letter, l.kind = "enqueue", l.who \notin Flow, l \in I,
         NEW u, u = OnEnqueue(w, l)
  PROVE  u \in Group /\ Steady(u, I \ {l}, fl, lv, nt)
<1>1. PICK ack, m : m = l.who /\ ack = Reply("enqueued", m, m)
  OBVIOUS
<1>2. /\ m \in Message /\ ack \in Ack /\ l.msg = m
      /\ \E v \in Group :
           /\ u = Held(v, ack) /\ Rest(v) = Rest(w)
           /\ \E r \in Row : /\ v.db = Append(w.db, r) /\ r.msg = m /\ r.state = "enqueued"
                             /\ r.gtrid = Nobody
  BY <1>1, ProducerEnqueueIs
<1>3. PICK v \in Group :
        /\ u = Held(v, ack) /\ Rest(v) = Rest(w)
        /\ \E r \in Row : /\ v.db = Append(w.db, r) /\ r.msg = m /\ r.state = "enqueued"
                          /\ r.gtrid = Nobody
  BY <1>2
<1>4. PICK r \in Row : /\ v.db = Append(w.db, r) /\ r.msg = m /\ r.state = "enqueued"
                       /\ r.gtrid = Nobody
  BY <1>3
<1>5. l = To("enqueue", m, m)
  BY <1>1, <1>2, LetterIs
<1>6. Known(w, I, m) /\ ~ Has(w.db, m) /\ Given(w.mail, m) = {}
  BY <1>2, <1>5 DEF Steady, Sound, Known
<1>7. w.db \in Seq(Row) /\ Tidy(w.db)
  BY DEF Group, Steady, Sound
<1>8. PICK q : q = Queued(v, ack)
  OBVIOUS
<1>9. /\ q \in Group /\ q.db = v.db /\ q.disk = w.disk /\ q.mail = w.mail
      /\ ToSet(q.held) = ToSet(w.held) \cup {ack} /\ q.dequeues = w.dequeues
      /\ q.involved = w.involved /\ q.registered = w.registered
  <2>1. q \in Group /\ Queues(q, v, ack)
    <3>1. v \in Group /\ ack \in Ack
      BY <1>2
    <3>2. QED
      BY ONLY <3>1, <1>8, QueuedIs
  <2>2. QED
    BY <1>3, <2>1 DEF Rest, Queues
<1>10. /\ Tidy(q.db)
       /\ \A f \in Flow : Takes(q.db, f) = Takes(w.db, f) /\ Adds(q.db, f) = Adds(w.db, f)
       /\ \A y \in Message : /\ Has(q.db, y) <=> Has(w.db, y) \/ y = m
                             /\ Shows(q.db, y) <=> Shows(w.db, y) \/ y = m
  <2>1. PICK db, e : db = w.db /\ e = q.db
    OBVIOUS
  <2>2. Fresh(r, db)
    BY <1>4, <1>6, <2>1 DEF Has, Fresh
  <2>3. db \in Seq(Row) /\ Tidy(db) /\ e = Append(db, r) /\ Visible(r)
    BY <1>4, <1>7, <1>9, <2>1 DEF Visible
  <2>4. Tidy(e) /\ Grown(e, db, r)
    BY <2>2, <2>3, AppendRow
  <2>5. QED
    BY <1>4, <2>1, <2>3, <2>4 DEF AddedBy, Grown
<1>11. PICK J, V : J = I \ {l} /\ V = Whos(w.dequeues)
  OBVIOUS
<1>12. /\ \A j, x, y : x # m => (To(j, x, y) \in I <=> To(j, x, y) \in J)
       /\ \A y : To("enqueue", y, y) \in J => To("enqueue", y, y) \in I
       /\ To("enqueue", m, m) \notin J
  BY <1>5, <1>11, TakenLetter
<1>13. /\ \A k, x, y : x # m => (Reply(k, x, y) \in ToSet(w.held) <=> Reply(k, x, y) \in ToSet(q.held))
       /\ m \notin Flow
  BY <1>1, <1>2, <1>9, ReplyIs, QueueAssumption
<1>14. Beside({}, w, I, V, fl, q, J, V, fl)
  BY <1>9, <1>10, <1>12, <1>13 DEF Beside
<1>15. ASSUME NEW y \in Message, y # m
       PROVE  Unmoved(w, I, q, J, y)
  BY <1>9, <1>10, <1>12, <1>13, <1>15 DEF Unmoved
<1>16. Known(q, J, m)
  BY <1>2, <1>6, <1>9, <1>10, <1>12 DEF Known
<1>17. Durable(q)
  <2>1. Shows(w.db, m) => Has(w.db, m)
    BY DEF Shows, Has
  <2>2. ASSUME NEW y \in Message, Reply("enqueued", y, y) \in w.mail, y = m
        PROVE  FALSE
    BY <1>6, <2>1, <2>2 DEF Known
  <2>3. QED
    BY <1>9, <1>10, <2>2 DEF Durable, Steady, Sound
<1>18. Sound(q, J, V, fl, lv, nt)
  <2>1. Onward(lv, nt, lv, nt) /\ Sound(w, I, V, fl, lv, nt)
    BY <1>11 DEF Onward, Steady
  <2>2. QED
    BY <1>10, <1>14, <1>15, <1>16, <1>17, <2>1, SoundSame
<1>19. Steady(q, J, fl, lv, nt)
  BY <1>9, <1>11, <1>18 DEF Steady
<1>20. QED
  BY <1>2, <1>3, <1>8, <1>11, <1>19, HeldSound
-----------------------------------------------------------------------------
(* A step of one flow, f: letters, replies, rows and sets of flows are     *)
(* those of the others as they were.                                       *)
OwnLetters(I, J, f) ==
  /\ \A x \in Flow \ {f}, k \in LetterKind, m \in Carried : To(k, x, m) \in I <=> To(k, x, m) \in J
  /\ \A m \in Message : To("enqueue", m, m) \in J => To("enqueue", m, m) \in I
OwnMail(M, N, f) ==
  /\ \A x \in Flow \ {f}, k \in MailKind, m \in Carried : Reply(k, x, m) \in M <=> Reply(k, x, m) \in N
  /\ \A c \in Consumer, m \in Message : Reply("dequeued", c, m) \in M <=> Reply("dequeued", c, m) \in N
  /\ \A m \in Message : Reply("enqueued", m, m) \in N => Reply("enqueued", m, m) \in M
OwnRows(d, db, f) ==
  /\ \A x \in Flow \ {f} : Takes(d, x) = Takes(db, x) /\ Adds(d, x) = Adds(db, x)
  /\ \A m \in Message : (Has(d, m) <=> Has(db, m)) /\ (Shows(d, m) <=> Shows(db, m))
OwnSet(S, T, f) == \A x \in Flow \ {f} : x \in S <=> x \in T

Own(f, w, I, V, fl, u, J, X, gl) ==
  /\ OwnLetters(I, J, f) /\ OwnMail(w.mail, u.mail, f) /\ OwnMail(ToSet(w.held), ToSet(u.held), f)
  /\ OwnRows(u.db, w.db, f) /\ OwnSet(V, X, f) /\ OwnSet(w.involved, u.involved, f)
  /\ OwnSet(w.registered, u.registered, f)
  /\ \A x \in Flow \ {f} : gl[x] = fl[x]

(* What is a flow's own.                                                   *)
LEMMA OwnIs ==
  ASSUME NEW f \in Flow, NEW S, NEW db
  PROVE  /\ OwnLetters(S, S, f) /\ OwnMail(S, S, f) /\ OwnRows(db, db, f) /\ OwnSet(S, S, f)
         /\ \A k, n, T : T = S \ {To(k, f, n)} \/ T = S \cup {To(k, f, n)} => OwnLetters(S, T, f)
         /\ \A k, n, T : T = S \ {Reply(k, f, n)} \/ T = S \cup {Reply(k, f, n)} => OwnMail(S, T, f)
         /\ \A T : T = S \ {f} \/ T = S \cup {f} => OwnSet(S, T, f)
<1>1. f \notin Message /\ f \notin Consumer
  BY QueueAssumption
<1>2. ASSUME NEW k, NEW n, NEW T, T = S \ {To(k, f, n)} \/ T = S \cup {To(k, f, n)}
      PROVE  OwnLetters(S, T, f)
  BY <1>1, <1>2, ToIs DEF OwnLetters
<1>3. ASSUME NEW k, NEW n, NEW T, T = S \ {Reply(k, f, n)} \/ T = S \cup {Reply(k, f, n)}
      PROVE  OwnMail(S, T, f)
  BY <1>1, <1>3, ReplyIs DEF OwnMail
<1>4. OwnLetters(S, S, f) /\ OwnMail(S, S, f)
  BY DEF OwnLetters, OwnMail
<1>5. OwnRows(db, db, f)
  BY DEF OwnRows
<1>6. OwnSet(S, S, f) /\ \A T : T = S \ {f} \/ T = S \cup {f} => OwnSet(S, T, f)
  BY DEF OwnSet
<1>7. QED
  BY <1>2, <1>3, <1>4, <1>5, <1>6

(* If the flow fits where the step leaves it, everything is in order.      *)
LEMMA OneFlow ==
  ASSUME NEW f \in Flow, NEW w, NEW I, NEW V, NEW fl, NEW lv, NEW nt,
         Sound(w, I, V, fl, lv, nt),
         NEW u, NEW J, NEW X, NEW gl, Own(f, w, I, V, fl, u, J, X, gl),
         FlowFits(u, J, X, f, gl[f], lv, nt), Tidy(u.db), u.disk = w.disk,
         Reply("xa", f, Nobody) \in u.mail => Reply("xa", f, Nobody) \in w.mail
  PROVE  Sound(u, J, X, gl, lv, nt)
<1>1. Beside({f}, w, I, V, fl, u, J, X, gl)
  <2>1. \A x \in Flow \ {f} : Reply("xa", x, Nobody) \in ToSet(w.held) <=> Reply("xa", x, Nobody) \in ToSet(u.held)
    BY DEF Own, OwnMail, Carried, MailKind
  <2>2. \A x \in Flow \ {f} : /\ Takes(u.db, x) = Takes(w.db, x) /\ Adds(u.db, x) = Adds(w.db, x)
                              /\ gl[x] = fl[x]
    BY DEF Own, OwnRows
  <2>3. \A x \in Flow \ {f} : /\ x \in V <=> x \in X
                              /\ x \in w.involved <=> x \in u.involved
                              /\ x \in w.registered <=> x \in u.registered
    BY DEF Own, OwnSet
  <2>4. \A x \in Flow \ {f} :
          /\ \A k \in LetterKind, m \in Carried : To(k, x, m) \in I <=> To(k, x, m) \in J
          /\ \A k \in MailKind, m \in Carried : Reply(k, x, m) \in w.mail <=> Reply(k, x, m) \in u.mail
    BY DEF Own, OwnLetters, OwnMail
  <2>5. QED
    BY <2>1, <2>2, <2>3, <2>4 DEF Beside
<1>2. ASSUME NEW m \in Message
      PROVE  Unmoved(w, I, u, J, m)
  BY DEF Own, OwnLetters, OwnMail, OwnRows, Unmoved
<1>3. Durable(u)
  <2>1. Durable(w)
    BY DEF Sound
  <2>2. ASSUME NEW m \in Message, Reply("enqueued", m, m) \in u.mail, Has(u.db, m)
        PROVE  Has(u.disk, m)
    BY <2>1, <2>2 DEF Durable, Own, OwnMail, OwnRows
  <2>3. ASSUME NEW x \in Flow, Reply("xa", x, Nobody) \in u.mail
        PROVE  Takes(u.disk, x) = {} /\ Adds(u.disk, x) = {}
    <3>1. Reply("xa", x, Nobody) \in w.mail
      BY <2>3 DEF Own, OwnMail, Carried, MailKind
    <3>2. QED
      BY <2>1, <3>1 DEF Durable
  <2>4. QED
    BY <2>2, <2>3 DEF Durable
<1>4. QED
  BY <1>1, <1>2, <1>3, SoundBut

(* Where a flow is while everything is in order.                           *)
At(f, w, I, V, fl, P, T, A, s) ==
  /\ P = Places(I, w.mail, V, ToSet(w.held), f) /\ T = Takes(w.db, f) /\ A = Adds(w.db, f)
  /\ s = fl[f]

(* The invariant gives a flow its place, its rows and its stage.           *)
LEMMA AtIs ==
  ASSUME NEW f \in Flow, NEW w, NEW I, NEW V, NEW fl, NEW lv, NEW nt,
         Sound(w, I, V, fl, lv, nt)
  PROVE  \E P, T, A, s : /\ At(f, w, I, V, fl, P, T, A, s)
                         /\ Fits(f, P, T, A, s, w.involved, w.registered, lv, nt)
BY DEF At, Sound, FlowFits

(* prepare: nothing is written.                                            *)
LEMMA PrepareSound ==
  ASSUME NEW w \in Group, NEW I, NEW fl, NEW lv, NEW nt, Steady(w, I, fl, lv, nt),
         NEW l \in Letter, l.kind = "prepare", l \in I, NEW u, u = OnPrepare(w, l)
  PROVE  u \in Group /\ Steady(u, I \ {l}, fl, lv, nt)
<1>1. PICK f \in Flow : f = l.who /\ l = To("prepare", f, Nobody)
  BY LetterIs DEF Letter
<1>2. PICK r \in Mail : r = Reply("prepared", f, Nobody)
  BY <1>1 DEF Reply, Mail, MailKind, Who
<1>3. /\ u \in Group /\ u.mail = w.mail \cup {r} /\ u.db = w.db /\ u.disk = w.disk
      /\ u.involved = w.involved /\ u.registered = w.registered /\ u.dequeues = w.dequeues
      /\ u.held = w.held
  <2>1. u = Sent(w, r)
    BY <1>1, <1>2 DEF OnPrepare
  <2>2. QED
    BY <2>1, SentIs
<1>4. PICK V, M, H, J : V = Whos(w.dequeues) /\ M = w.mail /\ H = ToSet(w.held) /\ J = I \ {l}
  OBVIOUS
<1>5. Sound(w, I, V, fl, lv, nt) /\ Singly(w.dequeues)
  BY <1>4 DEF Steady
<1>6. PICK P, T, A, s : /\ At(f, w, I, V, fl, P, T, A, s)
                        /\ Fits(f, P, T, A, s, w.involved, w.registered, lv, nt)
  BY <1>5, AtIs
<1>7. P = Places(I, M, V, H, f) /\ Nobody \in Carried /\ "prepare" \in LetterKind
      /\ "prepared" \in MailKind /\ To("prepare", f, Nobody) \in I
  BY <1>1, <1>4, <1>6 DEF At, Carried, LetterKind, MailKind
<1>8. <<"prepare", Nobody>> \in P
  BY <1>7, PlaceIs
<1>9. PICK N : N = M \cup {r}
  OBVIOUS
<1>10. Places(J, N, V, H, f) = (P \ {<<"prepare", Nobody>>}) \cup {<<"prepared", Nobody>>}
  <2>1. Places(J, N, V, H, f) = Places(J, M, V, H, f) \cup {<<"prepared", Nobody>>}
    BY <1>2, <1>7, <1>9, MailIn
  <2>2. Places(J, M, V, H, f) = P \ {<<"prepare", Nobody>>}
    <3>1. J = I \ {To("prepare", f, Nobody)}
      BY <1>1, <1>4
    <3>2. QED
      BY ONLY <1>7, <3>1, LetterOut
  <2>3. QED
    BY <2>1, <2>2
<1>11. FlowFits(u, J, V, f, fl[f], lv, nt)
  <2>1. Fits(f, (P \ {<<"prepare", Nobody>>}) \cup {<<"prepared", Nobody>>}, T, A, s,
             w.involved, w.registered, lv, nt)
    BY <1>6, <1>8, FitsPrepare
  <2>2. QED
    BY <1>3, <1>4, <1>6, <1>9, <1>10, <2>1 DEF FlowFits, At
<1>12. Own(f, w, I, V, fl, u, J, V, fl)
  <2>1. OwnLetters(I, J, f)
    BY <1>1, <1>4, OwnIs
  <2>2. OwnMail(w.mail, u.mail, f)
    BY <1>2, <1>3, OwnIs
  <2>3. /\ OwnMail(ToSet(w.held), ToSet(u.held), f) /\ OwnRows(u.db, w.db, f) /\ OwnSet(V, V, f)
        /\ OwnSet(w.involved, u.involved, f) /\ OwnSet(w.registered, u.registered, f)
    BY <1>3, OwnIs
  <2>4. QED
    BY <2>1, <2>2, <2>3 DEF Own
<1>13. Reply("xa", f, Nobody) \in u.mail => Reply("xa", f, Nobody) \in w.mail
  BY <1>2, <1>3, ReplyIs
<1>14. Sound(u, J, V, fl, lv, nt)
  <2>1. Tidy(u.db)
    BY <1>3, <1>5 DEF Sound
  <2>2. QED
    BY <1>3, <1>5, <1>11, <1>12, <1>13, <2>1, OneFlow
<1>15. QED
  BY <1>3, <1>4, <1>5, <1>14 DEF Steady

(* A transaction that has ended has no rows, and the others have theirs.   *)
LEMMA ClearedOwn ==
  ASSUME NEW f \in Flow, NEW d, NEW db, Cleared(d, db, f)
  PROVE  OwnRows(d, db, f) /\ Takes(d, f) = {} /\ Adds(d, f) = {}
BY DEF Cleared, OwnRows

(* commit and rollback: what the transaction leaves is held for the disk.  *)
Ends(w, v, f) ==
  /\ Tidy(v.db) /\ Cleared(v.db, w.db, f) /\ v.disk = w.disk /\ v.involved = w.involved \ {f}
  /\ v.registered = w.registered /\ v.dequeues = w.dequeues /\ v.held = w.held
  /\ v.mail = w.mail

(* The group ends the transaction of a flow, one way or the other.         *)
LEMMA EndsSound ==
  ASSUME NEW w \in Group, NEW I, NEW fl, NEW lv, NEW nt, Steady(w, I, fl, lv, nt),
         NEW f \in Flow, NEW k \in LetterKind, NEW l, l = To(k, f, Nobody),
         NEW P, NEW T, NEW A, NEW s, At(f, w, I, Whos(w.dequeues), fl, P, T, A, s),
         Fits(f, (P \ {<<k, Nobody>>}) \cup {<<"held", Nobody>>}, {}, {}, s,
              w.involved \ {f}, w.registered, lv, nt),
         NEW v \in Group, Ends(w, v, f), NEW r \in Ack, r = Reply("xa", f, Nobody),
         NEW u, u = Held(v, r)
  PROVE  u \in Group /\ Steady(u, I \ {l}, fl, lv, nt)
<1>1. PICK q : q = Queued(v, r)
  OBVIOUS
<1>2. /\ q \in Group /\ q.db = v.db /\ q.disk = v.disk /\ q.mail = v.mail
      /\ ToSet(q.held) = ToSet(v.held) \cup {r} /\ q.dequeues = v.dequeues
      /\ q.involved = v.involved /\ q.registered = v.registered
  <2>1. v \in Group /\ r \in Ack
    OBVIOUS
  <2>2. q \in Group /\ Queues(q, v, r)
    BY ONLY <1>1, <2>1, QueuedIs
  <2>3. QED
    BY <2>2 DEF Queues
<1>3. PICK V, M, H, J, G : /\ V = Whos(w.dequeues) /\ M = w.mail /\ H = ToSet(w.held)
                           /\ J = I \ {l} /\ G = ToSet(q.held)
  OBVIOUS
<1>4. Sound(w, I, V, fl, lv, nt) /\ Singly(w.dequeues)
  BY <1>3 DEF Steady
<1>5. P = Places(I, M, V, H, f) /\ Nobody \in Carried /\ J = I \ {To(k, f, Nobody)}
      /\ Reply("xa", f, Nobody) \in G
  BY <1>2, <1>3 DEF At, Carried
<1>6. Places(J, M, V, G, f) = (P \ {<<k, Nobody>>}) \cup {<<"held", Nobody>>}
  <2>1. Places(J, M, V, H, f) = P \ {<<k, Nobody>>}
    BY ONLY <1>5, k \in LetterKind, LetterOut
  <2>2. Places(J, M, V, G, f) = Places(J, M, V, H, f) \cup {<<"held", Nobody>>}
    BY ONLY <1>5, HeldIn
  <2>3. QED
    BY <2>1, <2>2
<1>7. OwnRows(q.db, w.db, f) /\ Takes(q.db, f) = {} /\ Adds(q.db, f) = {}
  BY <1>2, ClearedOwn DEF Ends
<1>8. FlowFits(q, J, V, f, fl[f], lv, nt)
  BY <1>2, <1>3, <1>6, <1>7 DEF FlowFits, At, Ends
<1>9. Own(f, w, I, V, fl, q, J, V, fl)
  <2>1. OwnLetters(I, J, f)
    BY <1>5, OwnIs
  <2>2. OwnMail(H, G, f)
    <3>1. G = H \cup {Reply("xa", f, Nobody)}
      BY <1>2, <1>3 DEF Ends
    <3>2. QED
      BY <3>1, OwnIs
  <2>3. OwnMail(w.mail, q.mail, f) /\ OwnSet(V, V, f) /\ OwnSet(w.registered, q.registered, f)
    BY <1>2, OwnIs DEF Ends
  <2>4. OwnSet(w.involved, q.involved, f)
    <3>1. q.involved = w.involved \ {f}
      BY <1>2 DEF Ends
    <3>2. QED
      BY <3>1, OwnIs
  <2>5. QED
    BY <1>3, <1>7, <2>1, <2>2, <2>3, <2>4 DEF Own
<1>10. Sound(q, J, V, fl, lv, nt)
  <2>1. Tidy(q.db) /\ q.disk = w.disk /\ q.mail = w.mail
    BY <1>2 DEF Ends
  <2>2. QED
    BY <1>4, <1>8, <1>9, <2>1, OneFlow
<1>11. Steady(q, J, fl, lv, nt)
  BY <1>2, <1>3, <1>4, <1>10 DEF Steady, Ends
<1>12. QED
  BY <1>1, <1>3, <1>11, HeldSound

(* The handler of a commit.                                                *)
LEMMA CommitSound ==
  ASSUME NEW w \in Group, NEW I, NEW fl, NEW lv, NEW nt, Steady(w, I, fl, lv, nt),
         NEW l \in Letter, l.kind = "commit", l \in I, NEW u, u = OnCommit(w, l)
  PROVE  u \in Group /\ Steady(u, I \ {l}, fl, lv, nt)
<1>1. PICK f \in Flow : f = l.who /\ l = To("commit", f, Nobody)
  BY LetterIs DEF Letter
<1>2. PICK r \in Ack : r = Reply("xa", f, Nobody)
  BY <1>1, CommitIs
<1>3. PICK v \in Group :
        /\ u = Held(v, r)
        /\ v.db = Without(Shown(w.db, f), RowsOf(Shown(w.db, f), f, "dequeued"))
        /\ v.involved = w.involved \ {f} /\ v.disk = w.disk
        /\ v.registered = w.registered /\ v.dequeues = w.dequeues /\ v.held = w.held
        /\ v.mail = w.mail
  <2>1. \E v \in Group :
          /\ u = Held(v, Reply("xa", l.who, Nobody))
          /\ v.db = Without(Shown(w.db, l.who), RowsOf(Shown(w.db, l.who), l.who, "dequeued"))
          /\ v.involved = w.involved \ {l.who} /\ v.disk = w.disk
          /\ v.registered = w.registered /\ v.dequeues = w.dequeues /\ v.held = w.held
          /\ v.mail = w.mail
    BY CommitIs
  <2>2. QED
    BY <1>1, <1>2, <2>1
<1>4. PICK V, M, H : V = Whos(w.dequeues) /\ M = w.mail /\ H = ToSet(w.held)
  OBVIOUS
<1>5. PICK P, T, A, s : /\ At(f, w, I, V, fl, P, T, A, s)
                        /\ Fits(f, P, T, A, s, w.involved, w.registered, lv, nt)
  BY <1>4, AtIs DEF Steady
<1>6. <<"commit", Nobody>> \in P
  <2>1. P = Places(I, M, V, H, f) /\ Nobody \in Carried /\ "commit" \in LetterKind
    BY <1>4, <1>5 DEF At, Carried, LetterKind
  <2>2. QED
    BY <1>1, <2>1, PlaceIs
<1>7. /\ T = A
      /\ Fits(f, (P \ {<<"commit", Nobody>>}) \cup {<<"held", Nobody>>}, {}, {}, s,
              w.involved \ {f}, w.registered, lv, nt)
  BY <1>5, <1>6, FitsCommit
<1>8. Ends(w, v, f)
  <2>1. PICK db, d : db = w.db /\ d = v.db
    OBVIOUS
  <2>2. db \in Seq(Row) /\ Tidy(db) /\ Takes(db, f) = Adds(db, f)
    BY <1>5, <1>7, <2>1 DEF Group, Steady, Sound, At
  <2>3. d = Without(Shown(db, f), RowsOf(Shown(db, f), f, "dequeued"))
    BY <1>3, <2>1
  <2>4. Tidy(d) /\ Cleared(d, db, f)
    BY <2>2, <2>3, CommitRows
  <2>5. QED
    BY <1>3, <2>1, <2>4 DEF Ends
<1>9. At(f, w, I, Whos(w.dequeues), fl, P, T, A, s) /\ "commit" \in LetterKind
  BY <1>4, <1>5 DEF LetterKind
<1>10. u = Held(v, r) /\ v \in Group /\ r \in Ack /\ w \in Group /\ Steady(w, I, fl, lv, nt)
       /\ f \in Flow
  BY <1>3
<1>11. QED
  BY ONLY <1>1, <1>2, <1>7, <1>8, <1>9, <1>10, EndsSound

(* The enqueue of a flow is not behind its rollback.                       *)
LEMMA RollbackSound ==
  ASSUME NEW w \in Group, NEW I, NEW fl, NEW lv, NEW nt, Steady(w, I, fl, lv, nt),
         NEW l \in Letter, l.kind = "rollback", l \in I,
         \A y \in I : ~ (y.kind = "enqueue" /\ y.who = l.who), NEW u, u = OnRollback(w, l)
  PROVE  u \in Group /\ Steady(u, I \ {l}, fl, lv, nt)
<1>1. PICK f \in Flow : f = l.who /\ l = To("rollback", f, Nobody)
  BY LetterIs DEF Letter
<1>2. PICK r \in Ack : r = Reply("xa", f, Nobody)
  BY <1>1, RollbackIs
<1>3. PICK v \in Group, e \in Seq(Row) :
        /\ u = Held(v, r)
        /\ e = Without(w.db, RowsOf(w.db, f, "added")) /\ Reverted(v.db, e, f)
        /\ v.involved = w.involved \ {f} /\ v.disk = w.disk
        /\ v.registered = w.registered /\ v.dequeues = w.dequeues /\ v.held = w.held
        /\ v.mail = w.mail
  <2>1. \E v \in Group, e \in Seq(Row) :
          /\ u = Held(v, Reply("xa", l.who, Nobody))
          /\ e = Without(w.db, RowsOf(w.db, l.who, "added")) /\ Reverted(v.db, e, l.who)
          /\ v.involved = w.involved \ {l.who} /\ v.disk = w.disk
          /\ v.registered = w.registered /\ v.dequeues = w.dequeues /\ v.held = w.held
          /\ v.mail = w.mail
    BY RollbackIs
  <2>2. QED
    BY <1>1, <1>2, <2>1
<1>4. PICK V, M, H : V = Whos(w.dequeues) /\ M = w.mail /\ H = ToSet(w.held)
  OBVIOUS
<1>5. PICK P, T, A, s : /\ At(f, w, I, V, fl, P, T, A, s)
                        /\ Fits(f, P, T, A, s, w.involved, w.registered, lv, nt)
  BY <1>4, AtIs DEF Steady
<1>6. <<"rollback", Nobody>> \in P /\ \A m \in Message : <<"enqueue", m>> \notin P
  <2>1. P = Places(I, M, V, H, f) /\ Nobody \in Carried /\ "rollback" \in LetterKind
        /\ "enqueue" \in LetterKind
    BY <1>4, <1>5 DEF At, Carried, LetterKind
  <2>2. <<"rollback", Nobody>> \in P
    BY <1>1, <2>1, PlaceIs
  <2>3. ASSUME NEW m \in Message, <<"enqueue", m>> \in P
        PROVE  FALSE
    <3>1. m \in Carried
      BY DEF Carried
    <3>2. To("enqueue", f, m) \in I
      BY <2>1, <2>3, <3>1, PlaceIs
    <3>3. QED
      BY <1>1, <3>2, ToIs
  <2>4. QED
    BY <2>2, <2>3
<1>7. /\ A \subseteq T
      /\ Fits(f, (P \ {<<"rollback", Nobody>>}) \cup {<<"held", Nobody>>}, {}, {}, s,
              w.involved \ {f}, w.registered, lv, nt)
  BY <1>5, <1>6, FitsRollback
<1>8. Ends(w, v, f)
  <2>1. PICK db, d : db = w.db /\ d = v.db
    OBVIOUS
  <2>2. /\ db \in Seq(Row) /\ d \in Seq(Row) /\ Tidy(db) /\ Adds(db, f) \subseteq Takes(db, f)
        /\ e = Without(db, RowsOf(db, f, "added")) /\ Reverted(d, e, f)
    BY <1>3, <1>5, <1>7, <2>1 DEF Group, Steady, Sound, At
  <2>3. Tidy(d) /\ Cleared(d, db, f)
    BY <2>2, RollbackRows
  <2>4. QED
    BY <1>3, <2>1, <2>3 DEF Ends
<1>9. At(f, w, I, Whos(w.dequeues), fl, P, T, A, s) /\ "rollback" \in LetterKind
  BY <1>4, <1>5 DEF LetterKind
<1>10. QED
  BY <1>1, <1>2, <1>3, <1>7, <1>8, <1>9, EndsSound, ZenonT(60)

(* enqueue of a flow: it adds the message that it has taken.               *)
LEMMA FlowEnqueueSound ==
  ASSUME NEW w \in Group, NEW I, NEW fl, NEW lv, NEW nt, Steady(w, I, fl, lv, nt),
         NEW l \in Letter, l.kind = "enqueue", l.who \in Flow, l \in I, NEW u, u = OnEnqueue(w, l)
  PROVE  u \in Group /\ Steady(u, I \ {l}, fl, lv, nt)
<1>1. PICK f \in Flow, m \in Message : f = l.who /\ m = l.msg /\ l = To("enqueue", f, m)
  <2>1. l.msg \in Message
    BY QueueAssumption DEF Letter
  <2>2. QED
    BY <2>1, LetterIs
<1>2. PICK r \in Mail : r = Reply("enqueued", f, m)
  BY <1>1, FlowEnqueueIs
<1>3. /\ u \in Group /\ u.mail = w.mail \cup {r} /\ u.involved = w.involved \cup {f}
      /\ u.registered = w.registered \cup ({f} \ w.involved)
      /\ u.disk = w.disk /\ u.dequeues = w.dequeues /\ u.held = w.held
      /\ \E row \in Row : u.db = Append(w.db, row) /\ row.msg = m /\ row.gtrid = f
                          /\ row.state = "added"
  <2>1. /\ u \in Group /\ u.mail = w.mail \cup {Reply("enqueued", l.who, l.msg)}
        /\ u.involved = w.involved \cup {l.who}
        /\ u.registered = w.registered \cup ({l.who} \ w.involved)
        /\ u.disk = w.disk /\ u.dequeues = w.dequeues /\ u.held = w.held
        /\ \E row \in Row : u.db = Append(w.db, row) /\ row.msg = l.msg /\ row.gtrid = l.who
                            /\ row.state = "added"
    BY FlowEnqueueIs
  <2>2. QED
    BY <1>1, <1>2, <2>1
<1>4. PICK row \in Row : u.db = Append(w.db, row) /\ row.msg = m /\ row.gtrid = f
                         /\ row.state = "added"
  BY <1>3
<1>5. PICK V, M, H, J : V = Whos(w.dequeues) /\ M = w.mail /\ H = ToSet(w.held) /\ J = I \ {l}
  OBVIOUS
<1>6. Sound(w, I, V, fl, lv, nt) /\ Singly(w.dequeues)
  BY <1>5 DEF Steady
<1>7. PICK P, T, A, s : /\ At(f, w, I, V, fl, P, T, A, s)
                        /\ Fits(f, P, T, A, s, w.involved, w.registered, lv, nt)
  BY <1>6, AtIs
<1>8. P = Places(I, M, V, H, f) /\ m \in Carried /\ "enqueue" \in LetterKind
      /\ "enqueued" \in MailKind /\ To("enqueue", f, m) \in I
  BY <1>1, <1>5, <1>7 DEF At, Carried, LetterKind, MailKind
<1>9. <<"enqueue", m>> \in P
  BY <1>8, PlaceIs
<1>10. /\ T = {m} /\ A = {} /\ f \in w.involved
       /\ Fits(f, (P \ {<<"enqueue", m>>}) \cup {<<"enqueued", m>>}, {m}, {m}, s,
               w.involved, w.registered, lv, nt)
  <2>1. Fits(f, P, T, A, s, w.involved, w.registered, lv, nt)
    BY <1>7
  <2>2. QED
    BY ONLY <1>9, <2>1, FitsEnqueue
<1>11. u.involved = w.involved /\ u.registered = w.registered
  BY <1>3, <1>10
<1>12. PICK db, d : db = w.db /\ d = u.db
  OBVIOUS
<1>13. /\ db \in Seq(Row) /\ Tidy(db) /\ Takes(db, f) = {m} /\ Adds(db, f) = {}
       /\ \A g \in Flow : Adds(db, g) \subseteq Takes(db, g)
  <2>1. ASSUME NEW g \in Flow
        PROVE  Adds(db, g) \subseteq Takes(db, g)
    BY <1>6, <1>12, FitsAdds DEF Sound, FlowFits
  <2>2. QED
    BY <1>6, <1>7, <1>10, <1>12, <2>1 DEF Group, Sound, At
<1>14. Fresh(row, db)
  <2>1. ASSUME NEW n \in DOMAIN db, db[n].msg = m, ~ Visible(db[n])
        PROVE  FALSE
    <3>1. db[n].state = "added"
      BY <1>13, <2>1, RowOf DEF Visible
    <3>2. PICK g \in Flow : g = db[n].gtrid
      BY <1>13, <3>1 DEF Tidy
    <3>3. m \in Adds(db, g)
      BY <2>1, <3>1, <3>2 DEF Adds
    <3>4. m \in Takes(db, g) /\ m \in Takes(db, f)
      BY <1>13, <3>3
    <3>5. f = g
      BY <1>13, <3>4, Apart
    <3>6. QED
      BY <1>13, <3>3, <3>5
  <2>2. ~ Visible(row)
    BY <1>4 DEF Visible
  <2>3. QED
    BY <1>4, <2>1, <2>2 DEF Fresh
<1>15. Tidy(d) /\ Grown(d, db, row)
  <2>1. d = Append(db, row)
    BY <1>4, <1>12
  <2>2. QED
    BY <1>13, <1>14, <2>1, AppendRow
<1>16. OwnRows(d, db, f) /\ Takes(d, f) = {m} /\ Adds(d, f) = {m}
  <2>1. Has(db, m) /\ ~ Visible(row)
    <3>1. m \in Takes(db, f)
      BY <1>13
    <3>2. QED
      BY <1>4, <3>1 DEF Takes, Has, Visible
  <2>2. \A y \in Message : (Has(d, y) <=> Has(db, y)) /\ (Shows(d, y) <=> Shows(db, y))
    BY <1>4, <1>15, <2>1 DEF Grown
  <2>3. \A x \in Flow : Takes(d, x) = Takes(db, x)
                        /\ Adds(d, x) = Adds(db, x) \cup (IF x = f THEN {m} ELSE {})
    BY <1>4, <1>15 DEF Grown, AddedBy
  <2>4. QED
    BY <1>13, <2>2, <2>3 DEF OwnRows
<1>17. PICK N : N = M \cup {r}
  OBVIOUS
<1>18. Places(J, N, V, H, f) = (P \ {<<"enqueue", m>>}) \cup {<<"enqueued", m>>}
  <2>1. Places(J, N, V, H, f) = Places(J, M, V, H, f) \cup {<<"enqueued", m>>}
    BY ONLY <1>2, <1>8, <1>17, MailIn
  <2>2. Places(J, M, V, H, f) = P \ {<<"enqueue", m>>}
    <3>1. J = I \ {To("enqueue", f, m)}
      BY <1>1, <1>5
    <3>2. QED
      BY ONLY <1>8, <3>1, LetterOut
  <2>3. QED
    BY <2>1, <2>2
<1>19. FlowFits(u, J, V, f, fl[f], lv, nt)
  BY <1>3, <1>5, <1>7, <1>10, <1>11, <1>12, <1>16, <1>17, <1>18 DEF FlowFits, At
<1>20. Own(f, w, I, V, fl, u, J, V, fl)
  <2>1. OwnLetters(I, J, f)
    BY <1>1, <1>5, OwnIs
  <2>2. OwnMail(w.mail, u.mail, f)
    BY <1>2, <1>3, OwnIs
  <2>3. /\ OwnMail(ToSet(w.held), ToSet(u.held), f) /\ OwnSet(V, V, f)
        /\ OwnSet(w.involved, u.involved, f) /\ OwnSet(w.registered, u.registered, f)
    BY <1>3, <1>11, OwnIs
  <2>4. QED
    BY <1>12, <1>16, <2>1, <2>2, <2>3 DEF Own
<1>21. Reply("xa", f, Nobody) \in u.mail => Reply("xa", f, Nobody) \in w.mail
  BY <1>2, <1>3, ReplyIs
<1>22. Sound(u, J, V, fl, lv, nt)
  BY <1>3, <1>6, <1>12, <1>15, <1>19, <1>20, <1>21, OneFlow
<1>23. QED
  BY <1>3, <1>5, <1>6, <1>22 DEF Steady

(* What is about no flow, and tells a producer of nothing.                 *)
Aside(I, J) ==
  /\ \A x \in Flow, k \in LetterKind, m \in Carried : To(k, x, m) \in I <=> To(k, x, m) \in J
  /\ \A m \in Message : To("enqueue", m, m) \in J => To("enqueue", m, m) \in I
AsideMail(M, N) ==
  /\ \A x \in Flow, k \in MailKind, m \in Carried : Reply(k, x, m) \in M <=> Reply(k, x, m) \in N
  /\ \A c \in Consumer, m \in Message : Reply("dequeued", c, m) \in M <=> Reply("dequeued", c, m) \in N
  /\ \A m \in Message : Reply("enqueued", m, m) \in N => Reply("enqueued", m, m) \in M
AsideSet(V, X) == \A x \in Flow : x \in V <=> x \in X

(* Such a step leaves everything in order.                                 *)
LEMMA AsideSound ==
  ASSUME NEW w, NEW I, NEW V, NEW fl, NEW lv, NEW nt, Sound(w, I, V, fl, lv, nt),
         NEW u, NEW J, NEW X, Aside(I, J), AsideSet(V, X), AsideMail(w.mail, u.mail),
         AsideMail(ToSet(w.held), ToSet(u.held)), u.db = w.db, u.disk = w.disk,
         u.involved = w.involved, u.registered = w.registered,
         NEW jl, NEW jt, Onward(lv, nt, jl, jt)
  PROVE  Sound(u, J, X, fl, jl, jt)
<1>1. Beside({}, w, I, V, fl, u, J, X, fl)
  <2>1. ASSUME NEW x \in Flow
        PROVE  /\ \A k \in LetterKind, m \in Carried : To(k, x, m) \in I <=> To(k, x, m) \in J
               /\ \A k \in MailKind, m \in Carried :
                    Reply(k, x, m) \in w.mail <=> Reply(k, x, m) \in u.mail
               /\ x \in V <=> x \in X
               /\ Reply("xa", x, Nobody) \in ToSet(w.held) <=> Reply("xa", x, Nobody) \in ToSet(u.held)
    BY DEF Aside, AsideMail, AsideSet, Carried, MailKind
  <2>2. QED
    BY <2>1 DEF Beside
<1>2. ASSUME NEW m \in Message
      PROVE  Unmoved(w, I, u, J, m)
  BY DEF Aside, AsideMail, Unmoved
<1>3. Durable(u) /\ Tidy(u.db)
  <2>1. Durable(w) /\ Tidy(w.db)
    BY DEF Sound
  <2>2. \A x \in Flow : Reply("xa", x, Nobody) \in u.mail => Reply("xa", x, Nobody) \in w.mail
    BY DEF AsideMail, Carried, MailKind
  <2>3. QED
    BY <2>1, <2>2 DEF Durable, AsideMail
<1>4. QED
  BY <1>1, <1>2, <1>3, SoundSame

(* What is aside of the flows.                                             *)
LEMMA AsideIs ==
  ASSUME NEW S
  PROVE  /\ Aside(S, S) /\ AsideMail(S, S) /\ AsideSet(S, S)
         /\ \A k, t, n, T : T = S \ {To(k, t, n)} =>
              (k \notin LetterKind \/ t \notin Flow => Aside(S, T))
         /\ \A k, t, n, T : T = S \cup {To(k, t, n)} =>
              (k \notin LetterKind \/ (t \notin Flow /\ k # "enqueue") => Aside(S, T))
         /\ \A t, T : t \notin Flow =>
              (T = S \cup {Reply("forgotten", t, Nobody)} => AsideMail(S, T))
         /\ \A t, T : t \notin Flow => (T = S \cup {t} \/ T = S \ {t} => AsideSet(S, T))
<1>1. Aside(S, S) /\ AsideMail(S, S) /\ AsideSet(S, S)
  BY DEF Aside, AsideMail, AsideSet
<1>2. "enqueue" \in LetterKind
  BY DEF LetterKind
<1>3. ASSUME NEW k, NEW t, NEW n, NEW T, T = S \ {To(k, t, n)}, k \notin LetterKind \/ t \notin Flow
      PROVE  Aside(S, T)
  BY <1>3, ToIs DEF Aside
<1>4. ASSUME NEW k, NEW t, NEW n, NEW T, T = S \cup {To(k, t, n)},
             k \notin LetterKind \/ (t \notin Flow /\ k # "enqueue")
      PROVE  Aside(S, T)
  BY <1>2, <1>4, ToIs DEF Aside
<1>5. ASSUME NEW t, t \notin Flow, NEW T, T = S \cup {Reply("forgotten", t, Nobody)}
      PROVE  AsideMail(S, T)
  BY <1>5, ReplyIs DEF AsideMail
<1>6. \A t, T : t \notin Flow => (T = S \cup {t} \/ T = S \ {t} => AsideSet(S, T))
  BY DEF AsideSet
<1>7. QED
  BY <1>1, <1>3, <1>4, <1>5, <1>6

(* The dequeue that the group has in hand waits or finds a message.        *)
LEMMA MadeSound ==
  ASSUME NEW w \in Group, NEW J, NEW fl, NEW lv, NEW nt, NEW d \in Wait, NEW V,
         V = Whos(w.dequeues), Singly(w.dequeues), d.who \in Flow => d.who \notin V,
         NEW X, X = V \cup {d.who}, Sound(w, J, X, fl, lv, nt), NEW u, u = Dequeued(w, d)
  PROVE  u \in Group /\ Steady(u, J, fl, lv, nt)
<1>1. /\ u \in Group /\ u.disk = w.disk /\ u.held = w.held
      /\ Waited(w, u, d) \/ \E n \in DOMAIN w.db : Found(w, u, d, n)
  BY DequeuedIs
<1>2. CASE Waited(w, u, d)
  <2>1. u.dequeues = Append(w.dequeues, d) /\ w.dequeues \in Seq(Wait)
    BY <1>2 DEF Waited, Group
  <2>2. Whos(u.dequeues) = X
    BY <2>1, AppendSet
  <2>3. Singly(u.dequeues)
    BY <2>1, SinglyAppend
  <2>4. Sound(u, J, X, fl, lv, nt)
    BY <1>1, <1>2, FieldsSound DEF Waited
  <2>5. QED
    BY <1>1, <2>2, <2>3, <2>4 DEF Steady
<1>3. CASE \E n \in DOMAIN w.db : Found(w, u, d, n)
  <2>1. PICK n \in DOMAIN w.db : Found(w, u, d, n)
    BY <1>3
  <2>2. u.dequeues = w.dequeues
    BY <2>1 DEF Found
  <2>3. \A x \in Flow : x \in V <=> x \in X /\ x # d.who
    OBVIOUS
  <2>4. d.who \in X
    OBVIOUS
  <2>5. Sound(u, J, V, fl, lv, nt)
    BY <1>1, <2>1, <2>3, <2>4, FoundSound
  <2>6. QED
    BY <1>1, <2>2, <2>5 DEF Steady
<1>4. QED
  BY <1>1, <1>2, <1>3

(* dequeue *)
LEMMA DequeueSound ==
  ASSUME NEW w \in Group, NEW I, NEW fl, NEW lv, NEW nt, Steady(w, I, fl, lv, nt), lv # "gone",
         NEW l \in Letter, l.kind = "dequeue", l \in I, NEW u, u = Dequeued(w, Dequeue(l.who))
  PROVE  u \in Group /\ Steady(u, I \ {l}, fl, lv, nt)
<1>1. PICK t : t = l.who /\ l = To("dequeue", t, Nobody) /\ t \in Flow \cup Consumer
  BY LetterIs DEF Letter
<1>2. PICK d \in Wait : d = Dequeue(t) /\ d.who = t
  BY <1>1, QueueAssumption DEF Dequeue, Wait, Queue
<1>3. PICK V, M, H, J, X : /\ V = Whos(w.dequeues) /\ M = w.mail /\ H = ToSet(w.held)
                           /\ J = I \ {l} /\ X = V \cup {t}
  OBVIOUS
<1>4. Sound(w, I, V, fl, lv, nt) /\ Singly(w.dequeues)
  BY <1>3 DEF Steady
<1>5. (t \in Flow => t \notin V) /\ Sound(w, J, X, fl, lv, nt)
  <2>1. CASE t \notin Flow
    <3>1. Aside(I, J) /\ AsideSet(V, X) /\ AsideMail(w.mail, w.mail)
          /\ AsideMail(ToSet(w.held), ToSet(w.held))
      BY <1>1, <1>3, <2>1, AsideIs
    <3>2. Onward(lv, nt, lv, nt)
      BY DEF Onward
    <3>3. QED
      BY <1>4, <2>1, <3>1, <3>2, AsideSound
  <2>2. CASE t \in Flow
    <3>1. PICK f \in Flow : f = t
      BY <2>2
    <3>2. PICK P, T, A, s : /\ At(f, w, I, V, fl, P, T, A, s)
                            /\ Fits(f, P, T, A, s, w.involved, w.registered, lv, nt)
      BY <1>4, AtIs
    <3>3. P = Places(I, M, V, H, f) /\ Nobody \in Carried /\ "dequeue" \in LetterKind
          /\ To("dequeue", f, Nobody) \in I
      BY <1>1, <1>3, <3>1, <3>2 DEF At, Carried, LetterKind
    <3>4. <<"dequeue", Nobody>> \in P
      BY <3>3, PlaceIs
    <3>5. /\ <<"waits", Nobody>> \notin P
          /\ Fits(f, (P \ {<<"dequeue", Nobody>>}) \cup {<<"waits", Nobody>>}, T, A, s,
                  w.involved, w.registered, lv, nt)
      <4>1. Fits(f, P, T, A, s, w.involved, w.registered, lv, nt) /\ lv # "gone"
        BY <3>2
      <4>2. QED
        BY ONLY <3>4, <4>1, FitsDequeue
    <3>6. f \notin V
      BY <3>3, <3>5, PlaceIs
    <3>7. Places(J, M, X, H, f) = (P \ {<<"dequeue", Nobody>>}) \cup {<<"waits", Nobody>>}
      <4>1. Places(J, M, V, H, f) = P \ {<<"dequeue", Nobody>>}
        <5>1. J = I \ {To("dequeue", f, Nobody)}
          BY <1>1, <1>3, <3>1
        <5>2. QED
          BY ONLY <3>3, <5>1, LetterOut
      <4>2. f \in X
        BY <1>3, <3>1
      <4>3. Places(J, M, X, H, f) = Places(J, M, V, H, f) \cup {<<"waits", Nobody>>}
        BY ONLY <4>2, WaitIn
      <4>4. QED
        BY <4>1, <4>3
    <3>8. FlowFits(w, J, X, f, fl[f], lv, nt)
      BY <1>3, <3>2, <3>5, <3>7 DEF FlowFits, At
    <3>9. Own(f, w, I, V, fl, w, J, X, fl)
      <4>1. OwnLetters(I, J, f) /\ OwnSet(V, X, f)
        BY <1>1, <1>3, <3>1, OwnIs
      <4>2. /\ OwnMail(w.mail, w.mail, f) /\ OwnMail(ToSet(w.held), ToSet(w.held), f)
            /\ OwnRows(w.db, w.db, f)
            /\ OwnSet(w.involved, w.involved, f) /\ OwnSet(w.registered, w.registered, f)
        BY OwnIs
      <4>3. QED
        BY <4>1, <4>2 DEF Own
    <3>10. Sound(w, J, X, fl, lv, nt)
      <4>1. Tidy(w.db)
        BY <1>4 DEF Sound
      <4>2. QED
        BY <1>4, <3>8, <3>9, <4>1, OneFlow
    <3>11. QED
      BY <3>1, <3>6, <3>10
  <2>3. QED
    BY <2>1, <2>2
<1>6. u = Dequeued(w, d)
  BY <1>1, <1>2
<1>7. u \in Group /\ Steady(u, J, fl, lv, nt)
  BY <1>2, <1>3, <1>4, <1>5, <1>6, MadeSound
<1>8. QED
  BY <1>3, <1>7

(* forget *)
LEMMA ForgetSound ==
  ASSUME NEW w \in Group, NEW I, NEW fl, NEW lv, NEW nt, Steady(w, I, fl, lv, nt),
         NEW l \in Letter, l.kind = "forget", l \in I, NEW u, u = OnForget(w, l)
  PROVE  u \in Group /\ Steady(u, I \ {l}, fl, lv, nt)
<1>1. PICK t : t = l.who /\ l = To("forget", t, Nobody)
  BY LetterIs DEF Letter
<1>2. PICK V, M, H, J, X : /\ V = Whos(w.dequeues) /\ M = w.mail /\ H = ToSet(w.held)
                           /\ J = I \ {l} /\ X = Whos(u.dequeues)
  OBVIOUS
<1>3. Sound(w, I, V, fl, lv, nt) /\ Singly(w.dequeues)
  BY <1>2 DEF Steady
<1>4. /\ u \in Group /\ u.db = w.db /\ u.disk = w.disk /\ u.involved = w.involved
      /\ u.registered = w.registered /\ u.held = w.held
      /\ \/ u = w
         \/ /\ t \in Consumer \/ (t \in Flow /\ t \in V)
            /\ u.mail = w.mail \cup {Reply("forgotten", t, Nobody)} /\ X = V \ {t}
            /\ Singly(u.dequeues)
  <2>1. /\ u \in Group /\ l.who \in Flow \cup Consumer
        /\ u.db = w.db /\ u.disk = w.disk /\ u.involved = w.involved
        /\ u.registered = w.registered /\ u.held = w.held
        /\ \/ u = w /\ l.who \in Flow /\ l.who \notin Whos(w.dequeues)
           \/ /\ l.who \in Consumer \/ l.who \in Whos(w.dequeues)
              /\ Reply("forgotten", l.who, Nobody) \in Mail
              /\ u.mail = w.mail \cup {Reply("forgotten", l.who, Nobody)}
              /\ Whos(u.dequeues) = Whos(w.dequeues) \ {l.who}
              /\ Singly(w.dequeues) => Singly(u.dequeues)
    BY ForgetIs, SMTT(45)
  <2>2. QED
    BY <1>1, <1>2, <1>3, <2>1
<1>5. /\ Aside(I, J) /\ AsideSet(V, V) /\ AsideMail(M, M) /\ AsideMail(H, H)
      /\ Onward(lv, nt, lv, nt)
  <2>1. "forget" \notin LetterKind
    BY DEF LetterKind
  <2>2. QED
    BY <1>1, <1>2, <2>1, AsideIs DEF Onward
<1>6. CASE u = w
  BY <1>2, <1>3, <1>5, <1>6, AsideSound DEF Steady
<1>7. CASE /\ t \in Consumer /\ u.mail = w.mail \cup {Reply("forgotten", t, Nobody)}
           /\ X = V \ {t} /\ Singly(u.dequeues)
  <2>1. t \notin Flow
    BY <1>7, QueueAssumption
  <2>2. AsideMail(w.mail, u.mail) /\ AsideSet(V, X)
    BY <1>7, <2>1, AsideIs
  <2>3. AsideMail(ToSet(w.held), ToSet(u.held))
    BY <1>2, <1>4, <1>5
  <2>4. Sound(u, J, X, fl, lv, nt)
    BY <1>3, <1>4, <1>5, <2>2, <2>3, AsideSound
  <2>5. QED
    BY <1>2, <1>4, <1>7, <2>4 DEF Steady
<1>8. CASE /\ t \in Flow /\ t \in V /\ u.mail = w.mail \cup {Reply("forgotten", t, Nobody)}
           /\ X = V \ {t} /\ Singly(u.dequeues)
  <2>1. PICK f \in Flow : f = t
    BY <1>8
  <2>2. PICK P, T, A, s : /\ At(f, w, I, V, fl, P, T, A, s)
                          /\ Fits(f, P, T, A, s, w.involved, w.registered, lv, nt)
    BY <1>3, AtIs
  <2>3. /\ P = Places(I, M, V, H, f) /\ Nobody \in Carried /\ "forgotten" \in MailKind
        /\ f \in V /\ f \notin X
    BY <1>2, <1>8, <2>1, <2>2 DEF At, Carried, MailKind
  <2>4. <<"waits", Nobody>> \in P
    BY <2>3, PlaceIs
  <2>5. Fits(f, (P \ {<<"waits", Nobody>>}) \cup {<<"forgotten", Nobody>>}, T, A, s,
             w.involved, w.registered, lv, nt)
    <3>1. Fits(f, P, T, A, s, w.involved, w.registered, lv, nt)
      BY <2>2
    <3>2. QED
      BY ONLY <2>4, <3>1, FitsWaits
  <2>6. PICK N : N = M \cup {Reply("forgotten", f, Nobody)}
    OBVIOUS
  <2>7. Places(J, N, X, H, f) = (P \ {<<"waits", Nobody>>}) \cup {<<"forgotten", Nobody>>}
    <3>1. Places(J, N, X, H, f) = Places(J, M, X, H, f) \cup {<<"forgotten", Nobody>>}
      BY ONLY <2>3, <2>6, MailIn
    <3>2. Places(J, M, X, H, f) = Places(J, M, V, H, f) \ {<<"waits", Nobody>>}
      BY ONLY <2>3, WaitOut
    <3>3. Places(I, M, V, H, f) = Places(J, M, V, H, f)
      <4>1. \A k \in LetterKind, m \in Carried : To(k, f, m) \in I <=> To(k, f, m) \in J
        BY <1>5 DEF Aside
      <4>2. QED
        BY <4>1, PlacesSame
    <3>4. QED
      BY <2>3, <3>1, <3>2, <3>3
  <2>8. FlowFits(u, J, X, f, fl[f], lv, nt)
    <3>1. u.mail = N /\ ToSet(u.held) = H
      BY <1>2, <1>4, <1>8, <2>1, <2>6
    <3>2. QED
      BY <1>4, <2>2, <2>5, <2>7, <3>1 DEF FlowFits, At
  <2>9. Own(f, w, I, V, fl, u, J, X, fl)
    <3>1. OwnLetters(I, J, f) /\ OwnSet(V, X, f) /\ OwnMail(w.mail, u.mail, f)
      BY <1>1, <1>2, <1>8, <2>1, OwnIs
    <3>2. /\ OwnMail(ToSet(w.held), ToSet(u.held), f) /\ OwnRows(u.db, w.db, f)
          /\ OwnSet(w.involved, u.involved, f) /\ OwnSet(w.registered, u.registered, f)
      BY <1>4, OwnIs
    <3>3. QED
      BY <3>1, <3>2 DEF Own
  <2>10. Sound(u, J, X, fl, lv, nt)
    <3>1. Tidy(u.db)
      BY <1>3, <1>4 DEF Sound
    <3>2. Reply("xa", f, Nobody) \in u.mail => Reply("xa", f, Nobody) \in w.mail
      BY <1>8, ReplyIs
    <3>3. QED
      BY <1>3, <1>4, <2>8, <2>9, <3>1, <3>2, OneFlow
  <2>11. QED
    BY <1>2, <1>4, <1>8, <2>10 DEF Steady
<1>9. QED
  BY <1>4, <1>6, <1>7, <1>8

(* A database that cannot be told from the one before.                     *)
LEMMA AlikeSound ==
  ASSUME NEW w, NEW I, NEW V, NEW fl, NEW lv, NEW nt, Sound(w, I, V, fl, lv, nt),
         NEW u, NEW J, Aside(I, J), AsRows(u.db, w.db), Durable(u), u.mail = w.mail,
         u.held = w.held, u.involved = w.involved, u.registered = w.registered
  PROVE  Sound(u, J, V, fl, lv, nt)
<1>1. Alike(u.db, w.db) /\ Tidy(u.db)
  BY SameRows DEF Sound
<1>2. Beside({}, w, I, V, fl, u, J, V, fl)
  BY <1>1 DEF Beside, Alike, Aside
<1>3. ASSUME NEW m \in Message
      PROVE  Unmoved(w, I, u, J, m)
  BY <1>1 DEF Alike, Aside, Unmoved
<1>4. Onward(lv, nt, lv, nt)
  BY DEF Onward
<1>5. QED
  BY <1>1, <1>2, <1>3, <1>4, SoundSame

(* What the transaction manager is told of has no rows.                    *)
LEMMA ToldIs ==
  ASSUME NEW w, NEW I, NEW V, NEW fl, NEW lv, NEW nt, Sound(w, I, V, fl, lv, nt),
         NEW f \in Flow, Reply("xa", f, Nobody) \in w.mail
  PROVE  Takes(w.db, f) = {} /\ Adds(w.db, f) = {}
<1>1. PICK P, T, A, s : /\ At(f, w, I, V, fl, P, T, A, s)
                        /\ Fits(f, P, T, A, s, w.involved, w.registered, lv, nt)
  BY AtIs
<1>2. PICK M, H : M = w.mail /\ H = ToSet(w.held)
  OBVIOUS
<1>3. P = Places(I, M, V, H, f) /\ Nobody \in Carried /\ "xa" \in MailKind
  BY <1>1, <1>2 DEF At, Carried, MailKind
<1>4. <<"xa", Nobody>> \in P
  BY <1>2, <1>3, PlaceIs
<1>5. T = {} /\ A = {}
  BY <1>1, <1>4, FitsHeld
<1>6. QED
  BY <1>1, <1>5 DEF At

(* restore *)
LEMMA RestoreSound ==
  ASSUME NEW w \in Group, NEW I, NEW fl, NEW lv, NEW nt, Steady(w, I, fl, lv, nt),
         NEW l \in Letter, l.kind = "restore", NEW u, u = OnRestore(w)
  PROVE  u \in Group /\ Steady(u, I \ {l}, fl, lv, nt)
<1>1. PICK v \in Group :
        /\ u = Woken(v) /\ v.disk = v.db /\ AsRows(v.db, w.db)
        /\ v.involved = w.involved /\ v.registered = w.registered
        /\ v.dequeues = w.dequeues /\ v.held = w.held /\ v.mail = w.mail
  BY RestoreIs
<1>2. PICK V, J : V = Whos(w.dequeues) /\ J = I \ {l}
  OBVIOUS
<1>3. Sound(w, I, V, fl, lv, nt) /\ Singly(w.dequeues)
  BY <1>2 DEF Steady
<1>4. Aside(I, J)
  <2>1. "restore" \notin LetterKind
    BY DEF LetterKind
  <2>2. QED
    BY <1>2, <2>1, LetterIs, AsideIs
<1>5. Durable(v)
  <2>1. ASSUME NEW f \in Flow, Reply("xa", f, Nobody) \in v.mail
        PROVE  Takes(v.disk, f) = {} /\ Adds(v.disk, f) = {}
    <3>1. Takes(w.db, f) = {} /\ Adds(w.db, f) = {}
      BY <1>1, <1>3, <2>1, ToldIs
    <3>2. Alike(v.db, w.db)
      BY <1>1, SameRows
    <3>3. QED
      BY <1>1, <3>1, <3>2 DEF Alike
  <2>2. QED
    BY <1>1, <2>1 DEF Durable
<1>6. Sound(v, J, V, fl, lv, nt)
  BY <1>1, <1>3, <1>4, <1>5, AlikeSound
<1>7. Steady(v, J, fl, lv, nt)
  BY <1>1, <1>2, <1>3, <1>6 DEF Steady
<1>8. QED
  BY <1>1, <1>2, <1>7, WokenSound

(* timeout *)
LEMMA TimeoutSound ==
  ASSUME NEW w \in Group, NEW I, NEW fl, NEW lv, NEW nt, Steady(w, I, fl, lv, nt),
         NEW l \in Letter, l.kind = "timeout", NEW u, u = OnTimeout(w)
  PROVE  u \in Group /\ Steady(u, I \ {l}, fl, lv, nt)
<1>1. PICK V, J : V = Whos(w.dequeues) /\ J = I \ {l}
  OBVIOUS
<1>2. Sound(w, I, V, fl, lv, nt) /\ Singly(w.dequeues)
  BY <1>1 DEF Steady
<1>3. /\ Aside(I, J) /\ AsideSet(V, V) /\ AsideMail(w.mail, w.mail)
      /\ AsideMail(ToSet(w.held), ToSet(w.held)) /\ Onward(lv, nt, lv, nt)
  <2>1. "timeout" \notin LetterKind
    BY DEF LetterKind
  <2>2. QED
    BY <1>1, <2>1, LetterIs, AsideIs DEF Onward
<1>4. Sound(w, J, V, fl, lv, nt)
  BY <1>2, <1>3, AsideSound
<1>5. Steady(w, J, fl, lv, nt)
  BY <1>1, <1>2, <1>4 DEF Steady
<1>6. u = w \/ u = Woken(w)
  BY DEF OnTimeout
<1>7. QED
  BY <1>1, <1>5, <1>6, WokenSound

(* exit: the dequeues and the held replies of the process go.              *)
LEMMA ExitSound ==
  ASSUME NEW w \in Group, NEW I, NEW fl, NEW lv, NEW nt, Steady(w, I, fl, lv, nt),
         NEW l \in Letter, l.kind = "exit", NEW u, u = OnExit(w, l)
  PROVE  u \in Group /\ Steady(u, I \ {l}, fl, lv, nt)
<1>1. PICK V, M, H, J, X, G : /\ V = Whos(w.dequeues) /\ M = w.mail /\ H = ToSet(w.held)
                              /\ J = I \ {l} /\ X = Whos(u.dequeues) /\ G = ToSet(u.held)
  OBVIOUS
<1>2. Sound(w, I, V, fl, lv, nt) /\ Singly(w.dequeues)
  BY <1>1 DEF Steady
<1>3. /\ u \in Group
      /\ u.db = w.db /\ u.disk = w.disk /\ u.involved = w.involved
      /\ u.registered = w.registered /\ u.mail = M
      /\ X = V \ l.who /\ Singly(u.dequeues)
      /\ G = {r \in H : ~ (r.kind = "enqueued" /\ r.to \in l.who)}
  BY <1>1, <1>2, ExitIs, SMTT(45)
<1>4. Aside(I, J)
  <2>1. "exit" \notin LetterKind
    BY DEF LetterKind
  <2>2. QED
    BY <1>1, <2>1, LetterIs, AsideIs
<1>5. \A f : Reply("xa", f, Nobody) \in H <=> Reply("xa", f, Nobody) \in G
  BY <1>3, ReplyIs
<1>6. ASSUME NEW f \in Flow
      PROVE  FlowFits(u, J, X, f, fl[f], lv, nt)
  <2>1. PICK P, T, A, s : /\ At(f, w, I, V, fl, P, T, A, s)
                          /\ Fits(f, P, T, A, s, w.involved, w.registered, lv, nt)
    BY <1>2, AtIs
  <2>2. P = Places(I, M, V, H, f) /\ Nobody \in Carried
    BY <1>1, <2>1 DEF At, Carried
  <2>3. Places(I, M, X, H, f) = Places(J, M, X, G, f)
    <3>1. \A k \in LetterKind, m \in Carried : To(k, f, m) \in I <=> To(k, f, m) \in J
      BY <1>4 DEF Aside
    <3>2. Reply("xa", f, Nobody) \in H <=> Reply("xa", f, Nobody) \in G
      BY <1>5
    <3>3. QED
      BY <3>1, <3>2, PlacesSame
  <2>4. Fits(f, Places(J, M, X, G, f), T, A, s, w.involved, w.registered, lv, nt)
    <3>1. CASE f \in V /\ f \notin X
      <4>1. <<"waits", Nobody>> \in P
        BY <2>2, <3>1, PlaceIs
      <4>2. Fits(f, P \ {<<"waits", Nobody>>}, T, A, s, w.involved, w.registered, lv, nt)
        <5>1. Fits(f, P, T, A, s, w.involved, w.registered, lv, nt)
          BY <2>1
        <5>2. QED
          BY ONLY <4>1, <5>1, FitsWaits
      <4>3. Places(I, M, X, H, f) = Places(I, M, V, H, f) \ {<<"waits", Nobody>>}
        BY ONLY <3>1, WaitOut
      <4>4. QED
        BY <2>2, <2>3, <4>2, <4>3
    <3>2. CASE ~ (f \in V /\ f \notin X)
      <4>1. f \in V <=> f \in X
        BY <1>3, <3>2
      <4>2. Places(I, M, V, H, f) = Places(I, M, X, H, f)
        BY <4>1, PlacesSame
      <4>3. QED
        BY <2>1, <2>2, <2>3, <4>2
    <3>3. QED
      BY <3>1, <3>2
  <2>5. QED
    BY <1>1, <1>3, <2>1, <2>4 DEF FlowFits, At
<1>7. ASSUME NEW m \in Message
      PROVE  Known(u, J, m)
  <2>1. Unmoved(w, I, u, J, m)
    BY <1>1, <1>3, <1>4 DEF Unmoved, Aside
  <2>2. QED
    BY <1>2, <2>1, UnmovedKnown DEF Sound
<1>8. Sound(u, J, X, fl, lv, nt)
  BY <1>1, <1>2, <1>3, <1>6, <1>7 DEF Sound, Durable
<1>9. QED
  BY <1>1, <1>3, <1>8 DEF Steady

(* shutdown: the dequeues that wait are told.                              *)
LEMMA ShutdownSound ==
  ASSUME NEW w \in Group, NEW I, NEW fl, NEW lv, NEW nt, Steady(w, I, fl, lv, nt),
         NEW l \in Letter, l.kind = "shutdown", NEW u, u = OnShutdown(w)
  PROVE  u \in Group /\ Steady(u, I \ {l}, fl, lv, nt)
<1>1. PICK p : p = Persisted(w)
  OBVIOUS
<1>2. p \in Group /\ Steady(p, I, fl, lv, nt)
  BY <1>1, PersistedSound
<1>3. PICK V, M, H, J, N : /\ V = Whos(p.dequeues) /\ M = p.mail /\ H = ToSet(p.held)
                           /\ J = I \ {l} /\ N = M \cup Farewells(p)
  OBVIOUS
<1>4. Sound(p, I, V, fl, lv, nt)
  BY <1>2, <1>3 DEF Steady
<1>5. /\ u \in Group /\ u.dequeues = <<>>
      /\ u.db = p.db /\ u.disk = p.disk /\ u.involved = p.involved
      /\ u.registered = p.registered /\ u.held = p.held /\ u.mail = N
  BY <1>1, <1>2, <1>3, ShutdownIs
<1>6. \A k, t, m : Reply(k, t, m) \in Farewells(p) <=> k = "forgotten" /\ t \in V /\ m = Nobody
  <2>1. V = {d.who : d \in ToSet(p.dequeues)}
    BY <1>3 DEF Whos, ToSet
  <2>2. QED
    BY <2>1, ReplyIs DEF Farewells
<1>7. Aside(I, J)
  <2>1. "shutdown" \notin LetterKind
    BY DEF LetterKind
  <2>2. QED
    BY <1>3, <2>1, LetterIs, AsideIs
<1>8. PICK X : X = {}
  OBVIOUS
<1>9. ASSUME NEW f \in Flow
      PROVE  FlowFits(u, J, X, f, fl[f], lv, nt)
  <2>1. PICK P, T, A, s : /\ At(f, p, I, V, fl, P, T, A, s)
                          /\ Fits(f, P, T, A, s, p.involved, p.registered, lv, nt)
    BY <1>4, AtIs
  <2>2. P = Places(I, M, V, H, f) /\ Nobody \in Carried /\ "forgotten" \in MailKind /\ f \notin X
    BY <1>3, <1>8, <2>1 DEF At, Carried, MailKind
  <2>3. Places(I, N, X, H, f) = Places(J, N, X, H, f)
    <3>1. \A k \in LetterKind, m \in Carried : To(k, f, m) \in I <=> To(k, f, m) \in J
      BY <1>7 DEF Aside
    <3>2. QED
      BY <3>1, PlacesSame
  <2>4. Fits(f, Places(J, N, X, H, f), T, A, s, p.involved, p.registered, lv, nt)
    <3>1. CASE f \in V
      <4>1. <<"waits", Nobody>> \in P
        BY <2>2, <3>1, PlaceIs
      <4>2. Fits(f, (P \ {<<"waits", Nobody>>}) \cup {<<"forgotten", Nobody>>}, T, A, s,
                 p.involved, p.registered, lv, nt)
        <5>1. Fits(f, P, T, A, s, p.involved, p.registered, lv, nt)
          BY <2>1
        <5>2. QED
          BY ONLY <4>1, <5>1, FitsWaits
      <4>3. Places(I, M, X, H, f) = Places(I, M, V, H, f) \ {<<"waits", Nobody>>}
        BY ONLY <2>2, WaitOut
      <4>4. PICK O : O = M \cup {Reply("forgotten", f, Nobody)}
        OBVIOUS
      <4>5. Places(I, O, X, H, f) = Places(I, M, X, H, f) \cup {<<"forgotten", Nobody>>}
        BY ONLY <2>2, <4>4, MailIn
      <4>6. Places(I, O, X, H, f) = Places(I, N, X, H, f)
        <5>1. \A k \in MailKind, m \in Carried : Reply(k, f, m) \in O <=> Reply(k, f, m) \in N
          BY <1>3, <1>6, <3>1, <4>4, ReplyIs
        <5>2. QED
          BY <5>1, PlacesSame
      <4>7. QED
        BY <2>2, <2>3, <4>2, <4>3, <4>5, <4>6
    <3>2. CASE f \notin V
      <4>1. \A k \in MailKind, m \in Carried : Reply(k, f, m) \in M <=> Reply(k, f, m) \in N
        BY <1>3, <1>6, <3>2
      <4>2. f \in V <=> f \in X
        BY <2>2, <3>2
      <4>3. Places(I, M, V, H, f) = Places(I, N, X, H, f)
        BY <4>1, <4>2, PlacesSame
      <4>4. QED
        BY <2>1, <2>2, <2>3, <4>3
    <3>3. QED
      BY <3>1, <3>2
  <2>5. QED
    BY <1>3, <1>5, <2>1, <2>4 DEF FlowFits, At
<1>10. ASSUME NEW m \in Message
       PROVE  Known(u, J, m)
  <2>1. Unmoved(p, I, u, J, m)
    BY <1>3, <1>5, <1>6, <1>7 DEF Unmoved, Aside
  <2>2. QED
    BY <1>4, <2>1, UnmovedKnown DEF Sound
<1>11. Durable(u)
  <2>1. Durable(p)
    BY <1>4 DEF Sound
  <2>2. QED
    BY <1>3, <1>5, <1>6, <2>1 DEF Durable
<1>12. Sound(u, J, X, fl, lv, nt)
  BY <1>4, <1>5, <1>9, <1>10, <1>11 DEF Sound
<1>13. Whos(u.dequeues) = X /\ Singly(u.dequeues)
  BY <1>5, <1>8 DEF Whos, Singly
<1>14. QED
  BY <1>3, <1>5, <1>12, <1>13 DEF Steady
-----------------------------------------------------------------------------
(* Every handler.                                                          *)
LEMMA KindIs ==
  ASSUME NEW l \in Letter, NEW w, NEW u, u = Handled(w, l)
  PROVE  \/ l.kind = "enqueue" /\ u = OnEnqueue(w, l)
         \/ l.kind = "dequeue" /\ u = Dequeued(w, Dequeue(l.who))
         \/ l.kind = "forget" /\ u = OnForget(w, l)
         \/ l.kind = "commit" /\ u = OnCommit(w, l)
         \/ l.kind = "rollback" /\ u = OnRollback(w, l)
         \/ l.kind = "prepare" /\ u = OnPrepare(w, l)
         \/ l.kind = "restore" /\ u = OnRestore(w)
         \/ l.kind = "timeout" /\ u = OnTimeout(w)
         \/ l.kind = "exit" /\ u = OnExit(w, l)
         \/ l.kind = "shutdown" /\ u = OnShutdown(w)
<1>1. l.kind \in {"dequeue", "enqueue", "commit", "rollback", "prepare", "forget", "restore",
                  "timeout", "exit", "shutdown"}
  BY DEF Letter, LetterKind
<1>2. QED
  BY <1>1 DEF Handled

(* It keeps everything in order.                                           *)
LEMMA HandledSound ==
  ASSUME NEW w \in Group, NEW I, NEW fl, NEW lv, NEW nt, Steady(w, I, fl, lv, nt), lv # "gone",
         NEW l \in Letter, l \in I,
         l.kind = "rollback" => \A y \in I : ~ (y.kind = "enqueue" /\ y.who = l.who),
         NEW u, u = Handled(w, l)
  PROVE  u \in Group /\ Steady(u, I \ {l}, fl, lv, nt)
<1>1. CASE l.kind = "enqueue" /\ u = OnEnqueue(w, l)
  BY <1>1, FlowEnqueueSound, ProducerEnqueueSound
<1>2. CASE l.kind = "dequeue" /\ u = Dequeued(w, Dequeue(l.who))
  BY <1>2, DequeueSound
<1>3. CASE l.kind = "forget" /\ u = OnForget(w, l)
  BY <1>3, ForgetSound
<1>4. CASE l.kind = "commit" /\ u = OnCommit(w, l)
  BY <1>4, CommitSound
<1>5. CASE l.kind = "rollback" /\ u = OnRollback(w, l)
  BY <1>5, RollbackSound
<1>6. CASE l.kind = "prepare" /\ u = OnPrepare(w, l)
  BY <1>6, PrepareSound
<1>7. CASE l.kind = "restore" /\ u = OnRestore(w)
  BY <1>7, RestoreSound
<1>8. CASE l.kind = "timeout" /\ u = OnTimeout(w)
  BY <1>8, TimeoutSound
<1>9. CASE l.kind = "exit" /\ u = OnExit(w, l)
  BY <1>9, ExitSound
<1>10. CASE l.kind = "shutdown" /\ u = OnShutdown(w)
  BY <1>10, ShutdownSound
<1>11. QED
  BY <1>1, <1>2, <1>3, <1>4, <1>5, <1>6, <1>7, <1>8, <1>9, <1>10, KindIs

(* Only who waits, or asks, is given a message.                            *)
Asker(l) == IF l.kind = "dequeue" THEN {l.who} ELSE {}

(* Every handler gives messages to those that wait or to who asks, and     *)
(* after an exit those that it names do not wait.                          *)
LEMMA HandledOnly ==
  ASSUME NEW w \in Group, NEW l \in Letter, NEW u, u = Handled(w, l)
  PROVE  /\ Only(w, u, Asker(l))
         /\ l.kind = "exit" => Whos(u.dequeues) \subseteq Whos(w.dequeues) \ l.who
<1>1. ASSUME NEW v \in Group, v.dequeues = w.dequeues, v.mail = w.mail, Only(v, u, {})
      PROVE  Only(w, u, {})
  BY <1>1 DEF Only
<1>2. CASE l.kind = "enqueue" /\ u = OnEnqueue(w, l)
  <2>1. CASE l.who \in Flow
    <3>1. u.mail = w.mail \cup {Reply("enqueued", l.who, l.msg)} /\ u.dequeues = w.dequeues
      BY <1>2, <2>1, FlowEnqueueIs
    <3>2. QED
      BY <1>2, <3>1, ReplyIs DEF Only, Asker
  <2>2. CASE l.who \notin Flow
    <3>1. PICK r \in Ack : r = Reply("enqueued", l.who, l.who)
      BY <1>2, <2>2, ProducerEnqueueIs
    <3>2. PICK v \in Group : u = Held(v, r) /\ Rest(v) = Rest(w)
      BY <1>2, <2>2, <3>1, ProducerEnqueueIs
    <3>3. v.dequeues = w.dequeues /\ v.mail = w.mail
      BY <3>2 DEF Rest
    <3>4. Only(v, u, {})
      BY <3>2, HeldOnly
    <3>5. QED
      BY <1>1, <1>2, <3>3, <3>4 DEF Asker
  <2>3. QED
    BY <2>1, <2>2
<1>3. CASE l.kind = "dequeue" /\ u = Dequeued(w, Dequeue(l.who))
  <2>1. PICK d \in Wait : d = Dequeue(l.who) /\ d.who = l.who
    BY <1>3, QueueAssumption DEF Letter, Dequeue, Wait, Queue
  <2>2. Only(w, u, {d.who})
    BY <1>3, <2>1, DequeuedOnly
  <2>3. QED
    BY <1>3, <2>1, <2>2 DEF Asker
<1>4. CASE l.kind = "forget" /\ u = OnForget(w, l)
  <2>1. \/ u = w
        \/ /\ u.mail = w.mail \cup {Reply("forgotten", l.who, Nobody)}
           /\ Whos(u.dequeues) = Whos(w.dequeues) \ {l.who}
    BY <1>4, ForgetIs, ZenonT(60)
  <2>2. QED
    BY <1>4, <2>1, ReplyIs DEF Only, Asker
<1>5. CASE l.kind = "commit" /\ u = OnCommit(w, l)
  <2>1. PICK r \in Ack : r = Reply("xa", l.who, Nobody)
    BY <1>5, CommitIs
  <2>2. PICK v \in Group : u = Held(v, r) /\ v.dequeues = w.dequeues /\ v.mail = w.mail
    BY <1>5, <2>1, CommitIs
  <2>3. QED
    BY <1>1, <1>5, <2>2, HeldOnly DEF Asker
<1>6. CASE l.kind = "rollback" /\ u = OnRollback(w, l)
  <2>1. PICK r \in Ack : r = Reply("xa", l.who, Nobody)
    BY <1>6, RollbackIs
  <2>2. PICK v \in Group : u = Held(v, r) /\ v.dequeues = w.dequeues /\ v.mail = w.mail
    BY <1>6, <2>1, RollbackIs
  <2>3. QED
    BY <1>1, <1>6, <2>2, HeldOnly DEF Asker
<1>7. CASE l.kind = "prepare" /\ u = OnPrepare(w, l)
  <2>1. PICK r \in Mail : r = Reply("prepared", l.who, Nobody)
    BY <1>7 DEF Letter, Reply, Mail, MailKind, Who
  <2>2. u.mail = w.mail \cup {r} /\ u.dequeues = w.dequeues
    <3>1. u = Sent(w, r)
      BY <1>7, <2>1 DEF OnPrepare
    <3>2. QED
      BY <3>1, SentIs
  <2>3. QED
    BY <1>7, <2>1, <2>2, ReplyIs DEF Only, Asker
<1>8. CASE l.kind = "restore" /\ u = OnRestore(w)
  <2>1. PICK v \in Group : u = Woken(v) /\ v.dequeues = w.dequeues /\ v.mail = w.mail
    BY <1>8, RestoreIs
  <2>2. QED
    BY <1>1, <1>8, <2>1, WokenOnly DEF Asker
<1>9. CASE l.kind = "timeout" /\ u = OnTimeout(w)
  <2>1. u = w \/ u = Woken(w)
    BY <1>9 DEF OnTimeout
  <2>2. CASE u = w
    BY <1>9, <2>2 DEF Only, Asker
  <2>3. CASE u = Woken(w)
    BY <1>9, <2>3, WokenOnly DEF Asker
  <2>4. QED
    BY <2>1, <2>2, <2>3
<1>10. CASE l.kind = "exit" /\ u = OnExit(w, l)
  <2>1. u.mail = w.mail /\ Whos(u.dequeues) = Whos(w.dequeues) \ l.who
    BY <1>10, ExitIs, ZenonT(60)
  <2>2. QED
    BY <1>10, <2>1 DEF Only, Asker
<1>11. CASE l.kind = "shutdown" /\ u = OnShutdown(w)
  <2>1. PICK p : p = Persisted(w)
    OBVIOUS
  <2>2. p \in Group /\ Only(w, p, {})
    BY <2>1, PersistOnly
  <2>3. u.dequeues = <<>> /\ u.mail = p.mail \cup Farewells(p)
    BY <1>11, <2>1, <2>2, ShutdownIs
  <2>4. \A c, m : Reply("dequeued", c, m) \notin Farewells(p)
    BY ReplyIs DEF Farewells
  <2>5. Whos(u.dequeues) = {}
    BY <2>3 DEF Whos
  <2>6. QED
    BY <1>11, <2>2, <2>3, <2>4, <2>5 DEF Only, Asker
<1>12. QED
  BY <1>2, <1>3, <1>4, <1>5, <1>6, <1>7, <1>8, <1>9, <1>10, <1>11, KindIs
-----------------------------------------------------------------------------
(* What may be put behind an inbox.                                        *)
Joins(s, ib) ==
  /\ s \in Seq(Letter) /\ Unique(s) /\ Ordered(s)
  /\ \A x \in ToSet(s) : x.kind \in LetterKind /\ x.who \in Flow \cup Message => x \notin ToSet(ib)
  /\ \A x \in ToSet(s), y \in ToSet(ib) :
       ~ (x.kind = "enqueue" /\ y.kind = "rollback" /\ x.who = y.who)

(* Letters that are put behind an inbox keep it in order.                  *)
LEMMA JoinedIs ==
  ASSUME NEW ib \in Seq(Letter), Unique(ib), Ordered(ib), NEW s, Joins(s, ib), NEW t, t = ib \o s
  PROVE  t \in Seq(Letter) /\ Unique(t) /\ Ordered(t) /\ ToSet(t) = ToSet(ib) \cup ToSet(s)
<1>1. s \in Seq(Letter) /\ Unique(s) /\ Ordered(s)
  BY DEF Joins
<1>2. /\ t \in Seq(Letter) /\ ToSet(t) = ToSet(ib) \cup ToSet(s) /\ Len(ib) \in Nat
      /\ \A n \in DOMAIN t :
           \/ n \in DOMAIN ib /\ t[n] = ib[n]
           \/ n \in Int /\ n > Len(ib) /\ n - Len(ib) \in DOMAIN s /\ t[n] = s[n - Len(ib)]
  BY <1>1, ConcatSet
<1>3. PICK a \in Nat : a = Len(ib)
  BY <1>2
<1>4. \A n \in DOMAIN ib : n \in Int /\ n <= a
  BY <1>3
<1>5. \A n \in DOMAIN ib : ib[n] \in ToSet(ib)
  BY DEF ToSet
<1>6. \A n \in DOMAIN s : s[n] \in ToSet(s)
  BY DEF ToSet
<1>7. ASSUME NEW n \in DOMAIN t, NEW k \in DOMAIN t, t[n] = t[k], t[n].kind \in LetterKind,
             t[n].who \in Flow \cup Message
      PROVE  n = k
  <2>1. CASE n \in DOMAIN ib /\ t[n] = ib[n] /\ k \in DOMAIN ib /\ t[k] = ib[k]
    BY <1>7, <2>1 DEF Unique
  <2>2. CASE n - a \in DOMAIN s /\ t[n] = s[n - a] /\ k - a \in DOMAIN s /\ t[k] = s[k - a]
             /\ n \in Int /\ k \in Int
    <3>1. n - a = k - a
      BY <1>1, <1>7, <2>2 DEF Unique
    <3>2. QED
      BY <2>2, <3>1
  <2>3. CASE n \in DOMAIN ib /\ t[n] = ib[n] /\ k - a \in DOMAIN s /\ t[k] = s[k - a]
    BY <1>5, <1>6, <1>7, <2>3 DEF Joins
  <2>4. CASE k \in DOMAIN ib /\ t[k] = ib[k] /\ n - a \in DOMAIN s /\ t[n] = s[n - a]
    BY <1>5, <1>6, <1>7, <2>4 DEF Joins
  <2>5. QED
    BY <1>2, <1>3, <2>1, <2>2, <2>3, <2>4
<1>8. ASSUME NEW n \in DOMAIN t, NEW k \in DOMAIN t, t[n].kind = "enqueue",
             t[k].kind = "rollback", t[n].who = t[k].who
      PROVE  n < k
  <2>1. CASE n \in DOMAIN ib /\ t[n] = ib[n] /\ k \in DOMAIN ib /\ t[k] = ib[k]
    BY <1>8, <2>1 DEF Ordered
  <2>2. CASE n - a \in DOMAIN s /\ t[n] = s[n - a] /\ k - a \in DOMAIN s /\ t[k] = s[k - a]
             /\ n \in Int /\ k \in Int
    <3>1. n - a < k - a
      BY <1>1, <1>8, <2>2 DEF Ordered
    <3>2. QED
      BY <2>2, <3>1
  <2>3. CASE n \in DOMAIN ib /\ k \in Int /\ k > a
    BY <1>4, <2>3
  <2>4. CASE k \in DOMAIN ib /\ t[k] = ib[k] /\ n - a \in DOMAIN s /\ t[n] = s[n - a]
    <3>1. s[n - a] \in ToSet(s) /\ ib[k] \in ToSet(ib)
      BY <1>5, <1>6, <2>4
    <3>2. QED
      BY <1>8, <2>4, <3>1 DEF Joins
  <2>5. QED
    BY <1>2, <1>3, <2>1, <2>2, <2>3, <2>4
<1>9. Unique(t)
  BY <1>7 DEF Unique
<1>10. Ordered(t)
  BY <1>8 DEF Ordered
<1>11. QED
  BY <1>2, <1>9, <1>10

(* Those that wait for a death to be heard of still do.                    *)
Spares(s, cs, ds) ==
  /\ \A c \in Consumer : ds[c] = "noticed" => cs[c] = "noticed"
  /\ \A x \in ToSet(s), c \in Consumer : x.kind = "dequeue" /\ x.who = c => ds[c] # "noticed"

(* Letters that are put behind the inbox keep the exits where they are.    *)
LEMMA JoinedMourned ==
  ASSUME NEW ib \in Seq(Letter), NEW s \in Seq(Letter), NEW t, t = ib \o s, NEW V, NEW cs,
         Mourned(V, ib, cs), NEW ds, Spares(s, cs, ds)
  PROVE  Mourned(V, t, ds)
<1> USE DEF Spares
<1>1. /\ ToSet(t) = ToSet(ib) \cup ToSet(s) /\ Len(ib) \in Nat
      /\ \A n \in DOMAIN t :
           \/ n \in DOMAIN ib /\ t[n] = ib[n]
           \/ n \in Int /\ n > Len(ib) /\ n - Len(ib) \in DOMAIN s /\ t[n] = s[n - Len(ib)]
      /\ \A n \in DOMAIN ib : n \in DOMAIN t
  BY ConcatSet
<1>2. \A n \in DOMAIN ib : t[n] = ib[n]
  OBVIOUS
<1>3. \A n \in DOMAIN s : s[n] \in ToSet(s)
  BY DEF ToSet
<1>4. ASSUME NEW c \in Consumer, ds[c] = "noticed", NEW n \in DOMAIN t, t[n].kind = "dequeue",
             t[n].who = c
      PROVE  \E k \in DOMAIN t : n < k /\ t[k] = Exit(c)
  <2>1. n \in DOMAIN ib /\ t[n] = ib[n]
    BY <1>1, <1>3, <1>4
  <2>2. PICK k \in DOMAIN ib : n < k /\ ib[k] = Exit(c)
    BY <1>4, <2>1 DEF Mourned
  <2>3. QED
    BY <1>1, <1>2, <2>2
<1>5. ASSUME NEW c \in Consumer, ds[c] = "noticed", c \in V
      PROVE  Exit(c) \in ToSet(t)
  BY <1>1, <1>5 DEF Mourned
<1>6. QED
  BY <1>4, <1>5 DEF Mourned

(* One letter, and none.                                                   *)
LEMMA SingleIs ==
  ASSUME NEW ib \in Seq(Letter), NEW l \in Letter
  PROVE  /\ Append(ib, l) = ib \o <<l>> /\ ToSet(<<l>>) = {l} /\ <<l>> \in Seq(Letter)
         /\ Unique(<<l>>) /\ Ordered(<<l>>)
<1>1. Append(ib, l) = ib \o <<l>> /\ <<l>> \in Seq(Letter)
  OBVIOUS
<1>2. DOMAIN <<l>> = {1} /\ <<l>>[1] = l
  OBVIOUS
<1>3. QED
  BY <1>1, <1>2 DEF ToSet, Unique, Ordered
-----------------------------------------------------------------------------
(* The invariant.                                                          *)
Typed ==
  /\ group \in Group /\ inbox \in Seq(Letter)
  /\ flow \in [Flow -> [stage : Stage, msg : Carried]]
  /\ consumer \in [Consumer -> {"new", "waiting", "late", "leaving", "served", "told", "dead", "noticed"}]
  /\ service \in [asked : SUBSET Flow, discards : SUBSET Flow]
IInv == Typed /\ Correct

(* The letters that are left when the first one is taken.                  *)
LEMMA TailAside ==
  ASSUME NEW ib \in Seq(Letter), ib # <<>>, Unique(ib), Ordered(ib), NEW l, l = Head(ib),
         NEW J, J = ToSet(ib) \ {l}
  PROVE  Aside(J, ToSet(Tail(ib)))
<1>1. PICK I, K : I = ToSet(ib) /\ K = ToSet(Tail(ib))
  OBVIOUS
<1>2. /\ l \in Letter /\ K \subseteq I /\ I \subseteq K \cup {l}
      /\ l.kind \in LetterKind /\ l.who \in Flow \cup Message => K = I \ {l}
  BY <1>1, HeadOut
<1>3. J = I \ {l} /\ (K = J \/ K = J \cup {l})
  BY <1>1, <1>2
<1>4. CASE K = J
  BY <1>1, <1>4, AsideIs
<1>5. CASE K # J
  <2>1. l.kind \notin LetterKind \/ (l.who \notin Flow /\ l.kind # "enqueue")
    BY <1>2, <1>3, <1>5 DEF Letter
  <2>2. K = J \cup {To(l.kind, l.who, l.msg)}
    BY <1>2, <1>3, <1>5, LetterIs
  <2>3. QED
    BY <1>1, <2>1, <2>2, AsideIs
<1>6. QED
  BY <1>4, <1>5

(* Becomes: the group may have ended.                                      *)
LEMMA BecomesCorrect ==
  ASSUME Correct, NEW u, NEW ib, NEW lv, level # "gone", Becomes(u, lv), lv # "gone",
         inbox' = ib, Steady(u, ToSet(ib), flow, level, noticed), Unique(ib), Ordered(ib),
         Mourned(Whos(u.dequeues), ib, consumer), UNCHANGED <<clientVars, forwardVars>>
  PROVE  Correct'
<1>1. group' = u /\ level' \in {lv, "gone"} /\ (level' = "gone" => Done(u))
  BY DEF Becomes
<1>2. flow' = flow /\ noticed' = noticed /\ consumer' = consumer /\ service' = service /\ run' = run
  BY DEF clientVars, forwardVars
<1>3. PICK J, V, jl, nt, fl, l0 : /\ J = ToSet(ib) /\ V = Whos(u.dequeues) /\ jl = level'
                                  /\ nt = noticed /\ fl = flow /\ l0 = level
  OBVIOUS
<1>4. Sound(u, J, V, fl, l0, nt)
  BY <1>3 DEF Steady
<1>5. Sound(u, J, V, fl, jl, nt)
  <2>1. /\ Aside(J, J) /\ AsideSet(V, V) /\ AsideMail(u.mail, u.mail)
        /\ AsideMail(ToSet(u.held), ToSet(u.held))
    BY AsideIs
  <2>2. Onward(l0, nt, jl, nt)
    BY <1>3 DEF Onward
  <2>3. QED
    BY <1>4, <2>1, <2>2, AsideSound
<1>6. Outside'
  <2>1. Outside
    BY DEF Correct
  <2>2. QED
    BY <1>1, <1>2, <2>1 DEF Outside, Done
<1>7. Sound(group', ToSet(inbox'), Whos(group'.dequeues), flow', level', noticed')
  BY <1>1, <1>2, <1>3, <1>5
<1>8. Unique(inbox') /\ Ordered(inbox') /\ Singly(group'.dequeues)
      /\ Mourned(Whos(group'.dequeues), inbox', consumer')
  BY <1>1, <1>2 DEF Steady
<1>9. QED
  BY <1>6, <1>7, <1>8 DEF Correct

(* Who waits after a handler, and has died: its exit is still to come.     *)
LEMMA HandledMourned ==
  ASSUME NEW w \in Group, NEW ib \in Seq(Letter), ib # <<>>, NEW l, l = Head(ib),
         NEW cs, Mourned(Whos(w.dequeues), ib, cs), NEW u, u = Handled(w, l)
  PROVE  Mourned(Whos(u.dequeues), Tail(ib), cs)
<1>1. PICK t : t = Tail(ib)
  OBVIOUS
<1>2. /\ t \in Seq(Letter) /\ l \in Letter /\ l = ib[1] /\ 1 \in DOMAIN ib
      /\ \A n \in DOMAIN t : n \in Nat /\ n + 1 \in DOMAIN ib /\ t[n] = ib[n + 1]
      /\ \A n \in DOMAIN ib : n # 1 => /\ n \in Int /\ 1 < n /\ n - 1 \in DOMAIN t
                                       /\ t[n - 1] = ib[n]
      /\ ToSet(ib) = ToSet(t) \cup {l}
  BY <1>1, TailSet
<1>3. /\ Whos(u.dequeues) \subseteq Whos(w.dequeues) \cup Asker(l)
      /\ l.kind = "exit" => Whos(u.dequeues) \subseteq Whos(w.dequeues) \ l.who
  BY <1>2, HandledOnly DEF Only
<1>4. ASSUME NEW c \in Consumer, cs[c] = "noticed", NEW n \in DOMAIN t, t[n].kind = "dequeue",
             t[n].who = c
      PROVE  \E k \in DOMAIN t : n < k /\ t[k] = Exit(c)
  <2>1. PICK k \in DOMAIN ib : n + 1 < k /\ ib[k] = Exit(c)
    BY <1>2, <1>4 DEF Mourned
  <2>2. k # 1
    BY <1>2, <2>1
  <2>3. k \in Int /\ k - 1 \in DOMAIN t /\ t[k - 1] = Exit(c)
    BY <1>2, <2>1, <2>2
  <2>4. n < k - 1
    BY <1>2, <2>1, <2>3
  <2>5. QED
    BY <2>3, <2>4
<1>5. ASSUME NEW c \in Consumer, cs[c] = "noticed", c \in Whos(u.dequeues)
      PROVE  Exit(c) \in ToSet(t)
  <2>1. CASE c \in Whos(w.dequeues)
    <3>1. Exit(c) \in ToSet(ib)
      BY <1>5, <2>1 DEF Mourned
    <3>2. l # Exit(c)
      BY <1>3, <1>5, ToIs DEF Exit
    <3>3. QED
      BY <1>2, <3>1, <3>2
  <2>2. CASE c \notin Whos(w.dequeues)
    <3>1. l.kind = "dequeue" /\ l.who = c
      BY <1>3, <1>5, <2>2 DEF Asker
    <3>2. PICK k \in DOMAIN ib : 1 < k /\ ib[k] = Exit(c)
      BY <1>2, <1>5, <3>1 DEF Mourned
    <3>3. k - 1 \in DOMAIN t /\ t[k - 1] = Exit(c)
      BY <1>2, <3>2
    <3>4. QED
      BY <3>3 DEF ToSet
  <2>3. QED
    BY <2>1, <2>2
<1>6. QED
  BY <1>1, <1>4, <1>5 DEF Mourned
-----------------------------------------------------------------------------
(* The group's own steps.                                                  *)
LEMMA HandleCorrect ==
  ASSUME IInv, Handle, UNCHANGED <<clientVars, forwardVars>>
  PROVE  IInv'
<1>1. PICK w, ib, l, t, u : /\ w = group /\ ib = inbox /\ l = Head(ib) /\ t = Tail(ib)
                            /\ u = Handled(w, l)
  OBVIOUS
<1>2. PICK I : I = ToSet(ib)
  OBVIOUS
<1>3. w \in Group /\ ib \in Seq(Letter) /\ ib # <<>> /\ level # "gone"
  BY <1>1 DEF IInv, Typed, Handle
<1>4. PICK lv, nt, fl : lv = level /\ nt = noticed /\ fl = flow
  OBVIOUS
<1>5. /\ Unique(ib) /\ Ordered(ib) /\ Steady(w, I, fl, lv, nt)
      /\ Mourned(Whos(w.dequeues), ib, consumer)
  BY <1>1, <1>2, <1>4 DEF IInv, Correct, Steady
<1>6. /\ t \in Seq(Letter) /\ Unique(t) /\ Ordered(t) /\ l \in Letter /\ l \in I
      /\ l.kind = "rollback" => \A y \in I : ~ (y.kind = "enqueue" /\ y.who = l.who)
  BY <1>1, <1>2, <1>3, <1>5, HeadOut
<1>7. u \in Group /\ Steady(u, I \ {l}, fl, lv, nt)
  BY <1>1, <1>3, <1>4, <1>5, <1>6, HandledSound
<1>8. Steady(u, ToSet(t), fl, lv, nt)
  <2>1. PICK J, K, V : J = I \ {l} /\ K = ToSet(t) /\ V = Whos(u.dequeues)
    OBVIOUS
  <2>2. Aside(J, K)
    BY <1>1, <1>2, <1>3, <1>5, <2>1, TailAside
  <2>3. AsideSet(V, V) /\ AsideMail(u.mail, u.mail) /\ AsideMail(ToSet(u.held), ToSet(u.held))
        /\ Onward(lv, nt, lv, nt)
    BY AsideIs DEF Onward
  <2>4. Sound(u, J, V, fl, lv, nt)
    BY <1>7, <2>1 DEF Steady
  <2>5. Sound(u, K, V, fl, lv, nt)
    BY <2>2, <2>3, <2>4, AsideSound
  <2>6. QED
    BY <1>7, <2>1, <2>5 DEF Steady
<1>9. Mourned(Whos(u.dequeues), t, consumer)
  BY <1>1, <1>3, <1>5, HandledMourned
<1>10. PICK jl : jl = IF l.kind = "shutdown" THEN "shutdown" ELSE level
  OBVIOUS
<1>11. inbox' = t /\ Becomes(u, jl) /\ jl # "gone"
  BY <1>1, <1>3, <1>10 DEF Handle
<1>12. Correct'
  BY <1>3, <1>4, <1>6, <1>8, <1>9, <1>11, BecomesCorrect DEF IInv
<1>13. Typed'
  BY <1>6, <1>7, <1>11 DEF IInv, Typed, Becomes, clientVars, forwardVars
<1>14. QED
  BY <1>12, <1>13 DEF IInv

(* The group writes when it has nothing else to do.                        *)
LEMMA IdleCorrect ==
  ASSUME IInv, Idle, UNCHANGED <<clientVars, forwardVars>>
  PROVE  IInv'
<1>1. PICK w, ib, u : w = group /\ ib = inbox /\ u = Persisted(w)
  OBVIOUS
<1>2. PICK lv, nt, fl, I : lv = level /\ nt = noticed /\ fl = flow /\ I = ToSet(ib)
  OBVIOUS
<1>3. w \in Group /\ ib \in Seq(Letter) /\ level # "gone" /\ inbox' = ib /\ Becomes(u, level)
  BY <1>1 DEF IInv, Typed, Idle
<1>4. /\ Unique(ib) /\ Ordered(ib) /\ Steady(w, I, fl, lv, nt)
      /\ Mourned(Whos(w.dequeues), ib, consumer)
  BY <1>1, <1>2 DEF IInv, Correct, Steady
<1>5. u \in Group /\ Steady(u, I, fl, lv, nt) /\ Only(w, u, {})
  BY <1>1, <1>3, <1>4, PersistedSound, PersistOnly
<1>6. Mourned(Whos(u.dequeues), ib, consumer)
  BY <1>4, <1>5 DEF Mourned, Only
<1>7. Correct'
  BY <1>2, <1>3, <1>4, <1>5, <1>6, BecomesCorrect DEF IInv
<1>8. Typed'
  BY <1>1, <1>3, <1>5 DEF IInv, Typed, Becomes, clientVars, forwardVars
<1>9. QED
  BY <1>7, <1>8 DEF IInv

(* What time does to the rows of the messages in s.                        *)
Now(db, s) ==
  [n \in DOMAIN db |-> IF db[n].msg \in s THEN [db[n] EXCEPT !.later = FALSE] ELSE db[n]]

(* Time changes nothing of a row but whether it can be taken.              *)
LEMMA NowRows ==
  ASSUME NEW db \in Seq(Row), NEW s, NEW d, d = Now(db, s)
  PROVE  d \in Seq(Row) /\ AsRows(d, db)
<1>1. ASSUME NEW n \in DOMAIN db
      PROVE  /\ d[n] \in Row /\ d[n].msg = db[n].msg /\ d[n].gtrid = db[n].gtrid
             /\ d[n].state = db[n].state
  <2>1. PICK r \in Row : r = db[n]
    BY RowOf
  <2>2. d[n] = IF r.msg \in s THEN [r EXCEPT !.later = FALSE] ELSE r
    BY <2>1 DEF Now
  <2>3. QED
    BY <2>1, <2>2 DEF Row
<1>2. DOMAIN d = DOMAIN db /\ DOMAIN db = 1 .. Len(db) /\ Len(db) \in Nat
  BY DEF Now
<1>3. d = [n \in 1 .. Len(db) |-> d[n]]
  BY <1>2 DEF Now
<1>4. d \in Seq(Row)
  BY <1>1, <1>2, <1>3
<1>5. QED
  BY <1>1, <1>2, <1>4 DEF AsRows

(* A letter that is put behind the others and is about no flow.            *)
LEMMA JoinsAside ==
  ASSUME NEW ib \in Seq(Letter), Unique(ib), Ordered(ib), NEW l \in Letter,
         l.kind \notin LetterKind \/ (l.who \notin Flow \cup Message /\ l.kind # "enqueue"),
         NEW t, t = Append(ib, l)
  PROVE  /\ t \in Seq(Letter) /\ Unique(t) /\ Ordered(t) /\ ToSet(t) = ToSet(ib) \cup {l}
         /\ Aside(ToSet(ib), ToSet(t))
<1>1. PICK s \in Seq(Letter) : s = <<l>>
  BY SingleIs
<1>2. t = ib \o s /\ ToSet(s) = {l} /\ Unique(s) /\ Ordered(s)
  BY <1>1, SingleIs
<1>3. Joins(s, ib)
  BY <1>2 DEF Joins, LetterKind
<1>4. t \in Seq(Letter) /\ Unique(t) /\ Ordered(t) /\ ToSet(t) = ToSet(ib) \cup {l}
  <2>1. ib \in Seq(Letter) /\ Unique(ib) /\ Ordered(ib) /\ t = ib \o s
    BY <1>2
  <2>2. t \in Seq(Letter) /\ Unique(t) /\ Ordered(t) /\ ToSet(t) = ToSet(ib) \cup ToSet(s)
    BY ONLY <1>3, <2>1, JoinedIs
  <2>3. QED
    BY <1>2, <2>2
<1>5. l.kind \notin LetterKind \/ (l.who \notin Flow /\ l.kind # "enqueue")
  OBVIOUS
<1>6. PICK I, J : I = ToSet(ib) /\ J = ToSet(t)
  OBVIOUS
<1>7. J = I \cup {To(l.kind, l.who, l.msg)}
  BY <1>4, <1>6, LetterIs
<1>8. Aside(I, J)
  BY <1>5, <1>7, AsideIs
<1>9. QED
  BY <1>4, <1>6, <1>8

(* Time, and the alarm.                                                    *)
LEMMA ClockCorrect ==
  ASSUME IInv, Clock, UNCHANGED <<clientVars, forwardVars>>
  PROVE  IInv'
<1>1. PICK w, ib, u, t : w = group /\ ib = inbox /\ u = group' /\ t = inbox'
  OBVIOUS
<1>2. PICK lv, nt, fl, I, V, J : /\ lv = level /\ nt = noticed /\ fl = flow /\ I = ToSet(ib)
                                 /\ V = Whos(w.dequeues) /\ J = ToSet(t)
  OBVIOUS
<1>3. PICK l \in Letter : l = To("timeout", Nobody, Nobody)
  BY DEF To, Letter
<1>4. w \in Group /\ ib \in Seq(Letter)
  BY <1>1 DEF IInv, Typed
<1>5. PICK s : /\ u = [w EXCEPT !.db = Now(@, s), !.disk = Now(@, s), !.timer = FALSE]
               /\ t = ib \/ t = Append(ib, l)
  <2>1. PICK s : /\ group' = [group EXCEPT !.db = Now(@, s), !.disk = Now(@, s), !.timer = FALSE]
                 /\ inbox' = IF group.timer THEN Append(inbox, l) ELSE inbox
    BY <1>3, Zenon DEF Clock, Now
  <2>2. QED
    BY <1>1, <2>1
<1>6. level' = level /\ level # "gone"
  BY DEF Clock
<1>7. PICK d, e : d = Now(w.db, s) /\ e = Now(w.disk, s)
  OBVIOUS
<1>8. d \in Seq(Row) /\ AsRows(d, w.db) /\ e \in Seq(Row) /\ AsRows(e, w.disk)
  BY <1>4, <1>7, NowRows DEF Group
<1>9. /\ u \in Group /\ u.db = d /\ u.disk = e /\ u.mail = w.mail /\ u.held = w.held
      /\ u.involved = w.involved /\ u.registered = w.registered /\ u.dequeues = w.dequeues
  BY <1>4, <1>5, <1>7, <1>8 DEF Group
<1>10. /\ Unique(ib) /\ Ordered(ib) /\ Sound(w, I, V, fl, lv, nt) /\ Singly(w.dequeues)
       /\ Mourned(V, ib, consumer)
  BY <1>1, <1>2 DEF IInv, Correct
<1>11. /\ t \in Seq(Letter) /\ Unique(t) /\ Ordered(t) /\ Aside(I, J)
       /\ Mourned(V, t, consumer)
  <2>1. CASE t = ib
    BY <1>2, <1>4, <1>10, <2>1, AsideIs
  <2>2. CASE t = Append(ib, l)
    <3>1. l.kind \notin LetterKind /\ l.kind # "dequeue"
      BY <1>3, ToIs DEF LetterKind
    <3>2. t \in Seq(Letter) /\ Unique(t) /\ Ordered(t) /\ Aside(I, J)
      BY <1>2, <1>4, <1>10, <2>2, <3>1, JoinsAside
    <3>3. PICK a \in Seq(Letter) : t = ib \o a /\ ToSet(a) = {l}
      BY <1>4, <2>2, SingleIs
    <3>4. Spares(a, consumer, consumer)
      BY <3>1, <3>3 DEF Spares
    <3>5. PICK cs : cs = consumer
      OBVIOUS
    <3>6. Mourned(V, t, cs)
      BY <1>4, <1>10, <3>3, <3>4, <3>5, JoinedMourned
    <3>7. QED
      BY <3>2, <3>5, <3>6
  <2>3. QED
    BY <1>5, <2>1, <2>2
<1>12. Durable(u)
  <2>1. Alike(d, w.db) /\ Alike(e, w.disk)
    BY <1>8, SameRows
  <2>2. Durable(w)
    BY <1>10 DEF Sound
  <2>3. QED
    BY <1>9, <2>1, <2>2 DEF Alike, Durable
<1>13. Sound(u, J, V, fl, lv, nt)
  BY <1>8, <1>9, <1>10, <1>11, <1>12, AlikeSound
<1>14. flow' = flow /\ noticed' = noticed /\ consumer' = consumer /\ service' = service /\ run' = run
  BY DEF clientVars, forwardVars
<1>15. Outside'
  BY <1>6, <1>14 DEF IInv, Correct, Outside
<1>16. Correct'
  <2>1. Sound(group', ToSet(inbox'), Whos(group'.dequeues), flow', level', noticed')
    BY <1>1, <1>2, <1>6, <1>9, <1>13, <1>14
  <2>2. Unique(inbox') /\ Ordered(inbox') /\ Singly(group'.dequeues)
        /\ Mourned(Whos(group'.dequeues), inbox', consumer')
    BY <1>1, <1>2, <1>9, <1>10, <1>11, <1>14
  <2>3. QED
    BY <1>15, <2>1, <2>2 DEF Correct
<1>17. Typed'
  BY <1>1, <1>9, <1>11, <1>14 DEF IInv, Typed
<1>18. QED
  BY <1>16, <1>17 DEF IInv
-----------------------------------------------------------------------------
(* The letters that are sent to the group.                                 *)
LEMMA LettersAre ==
  /\ \A c \in Flow \cup Consumer : /\ To("dequeue", c, Nobody) \in Letter
                                  /\ To("forget", c, Nobody) \in Letter
  /\ \A f \in Flow : /\ To("commit", f, Nobody) \in Letter /\ To("prepare", f, Nobody) \in Letter
                     /\ To("rollback", f, Nobody) \in Letter
                     /\ \A m \in Message : To("enqueue", f, m) \in Letter
  /\ \A S \in SUBSET Who : To("exit", S, Nobody) \in Letter
  /\ To("restore", Nobody, Nobody) \in Letter /\ To("shutdown", Nobody, Nobody) \in Letter
<1>1. ASSUME NEW c \in Flow \cup Consumer
      PROVE  To("dequeue", c, Nobody) \in Letter /\ To("forget", c, Nobody) \in Letter
  BY DEF To, Letter, Who, LetterKind
<1>2. ASSUME NEW f \in Flow
      PROVE  /\ To("commit", f, Nobody) \in Letter /\ To("prepare", f, Nobody) \in Letter
             /\ To("rollback", f, Nobody) \in Letter
             /\ \A m \in Message : To("enqueue", f, m) \in Letter
  BY SMTT(45) DEF To, Letter, Who, LetterKind
<1>3. ASSUME NEW S \in SUBSET Who
      PROVE  To("exit", S, Nobody) \in Letter
  BY SMTT(45) DEF To, Letter
<1>4. To("restore", Nobody, Nobody) \in Letter /\ To("shutdown", Nobody, Nobody) \in Letter
  BY SMTT(45) DEF To, Letter
<1>5. QED
  BY <1>1, <1>2, <1>3, <1>4

(* Nothing is put behind an inbox, or one letter is.                       *)
LEMMA JoinsNone ==
  ASSUME NEW ib \in Seq(Letter), NEW cs
  PROVE  \E s \in Seq(Letter) : /\ ib = ib \o s /\ ToSet(s) = {} /\ Joins(s, ib)
                                /\ Spares(s, cs, cs)
<1>1. PICK s : s = <<>>
  OBVIOUS
<1>2. ib = ib \o s /\ DOMAIN s = {} /\ s \in Seq(Letter)
  BY <1>1
<1>3. ToSet(s) = {}
  BY <1>2 DEF ToSet
<1>4. Unique(s) /\ Ordered(s) /\ s \in Seq(Letter) /\ \A x : x \notin ToSet(s)
  BY <1>2, <1>3 DEF Unique, Ordered
<1>5. Joins(s, ib)
  BY <1>4 DEF Joins
<1>6. Spares(s, cs, cs)
  BY <1>3 DEF Spares
<1>7. QED
  BY <1>2, <1>3, <1>5, <1>6

(* One letter, that is not of a consumer who asks.                         *)
LEMMA JoinsOne ==
  ASSUME NEW ib \in Seq(Letter), NEW l \in Letter,
         l.kind \in LetterKind /\ l.who \in Flow \cup Message => l \notin ToSet(ib),
         \A y \in ToSet(ib) : ~ (l.kind = "enqueue" /\ y.kind = "rollback" /\ l.who = y.who),
         NEW cs, l.kind = "dequeue" => l.who \in Flow
  PROVE  \E s \in Seq(Letter) : /\ Append(ib, l) = ib \o s /\ ToSet(s) = {l} /\ Joins(s, ib)
                                /\ Spares(s, cs, cs)
<1>1. PICK s \in Seq(Letter) : s = <<l>>
  BY SingleIs
<1>2. Append(ib, l) = ib \o s /\ ToSet(s) = {l} /\ Unique(s) /\ Ordered(s)
  BY <1>1, SingleIs
<1>3. Joins(s, ib)
  BY <1>2 DEF Joins
<1>4. Spares(s, cs, cs)
  BY <1>2, QueueAssumption DEF Spares
<1>5. QED
  BY <1>2, <1>3, <1>4

(* A step that puts letters behind the inbox and leaves the dequeues alone *)
(* keeps the invariant if flows and messages are in order after it.        *)
LEMMA StepCorrect ==
  ASSUME Typed, Correct, NEW s, Joins(s, inbox), inbox' = inbox \o s, level' = level,
         Whos(group'.dequeues) = Whos(group.dequeues), Singly(group'.dequeues),
         Spares(s, consumer, consumer'),
         Sound(group', ToSet(inbox) \cup ToSet(s), Whos(group.dequeues), flow', level, noticed'),
         Outside'
  PROVE  Correct' /\ inbox' \in Seq(Letter)
<1>1. PICK ib, t, V, cs, ds : /\ ib = inbox /\ t = inbox' /\ V = Whos(group.dequeues)
                              /\ cs = consumer /\ ds = consumer'
  OBVIOUS
<1>2. ib \in Seq(Letter) /\ Unique(ib) /\ Ordered(ib) /\ Mourned(V, ib, cs)
  BY <1>1 DEF Typed, Correct
<1>3. Joins(s, ib) /\ t = ib \o s /\ Spares(s, cs, ds)
  BY <1>1
<1>4. t \in Seq(Letter) /\ Unique(t) /\ Ordered(t) /\ ToSet(t) = ToSet(ib) \cup ToSet(s)
  BY ONLY <1>2, <1>3, JoinedIs
<1>5. s \in Seq(Letter)
  BY <1>3 DEF Joins
<1>6. Mourned(V, t, ds)
  BY ONLY <1>2, <1>3, <1>5, JoinedMourned
<1>7. Sound(group', ToSet(inbox'), Whos(group'.dequeues), flow', level', noticed')
  BY <1>1, <1>4
<1>8. QED
  BY <1>1, <1>4, <1>6, <1>7 DEF Correct

(* One that is about no flow and no producer's message.                    *)
LEMMA AsideCorrect ==
  ASSUME Typed, Correct, NEW s, Joins(s, inbox), inbox' = inbox \o s, UNCHANGED <<group, level, flow>>,
         Spares(s, consumer, consumer'), Aside(ToSet(inbox), ToSet(inbox) \cup ToSet(s)),
         service'.asked = service.asked, noticed' # {} => run' = "dead",
         "tm" \in noticed => "tm" \in noticed'
  PROVE  Correct' /\ inbox' \in Seq(Letter)
<1>1. PICK w, I, J, V, fl, lv, nt, jt : /\ w = group /\ I = ToSet(inbox) /\ J = I \cup ToSet(s)
                                        /\ V = Whos(w.dequeues) /\ fl = flow /\ lv = level
                                        /\ nt = noticed /\ jt = noticed'
  OBVIOUS
<1>2. Sound(w, I, V, fl, lv, nt) /\ Singly(w.dequeues)
  BY <1>1 DEF Correct
<1>3. /\ Aside(I, J) /\ AsideSet(V, V) /\ AsideMail(w.mail, w.mail)
      /\ AsideMail(ToSet(w.held), ToSet(w.held)) /\ Onward(lv, nt, lv, jt)
  BY <1>1, AsideIs DEF Onward
<1>4. Sound(w, J, V, fl, lv, jt)
  BY <1>2, <1>3, AsideSound
<1>5. Outside'
  BY DEF Correct, Outside
<1>6. Sound(group', ToSet(inbox) \cup ToSet(s), Whos(group.dequeues), flow', level, noticed')
  BY <1>1, <1>4
<1>7. QED
  BY <1>1, <1>2, <1>5, <1>6, StepCorrect

(* A single letter of that kind.                                           *)
LEMMA AsideOne ==
  ASSUME Typed, Correct, NEW l \in Letter,
         l.kind \notin LetterKind \/ (l.who \notin Flow \cup Message /\ l.kind # "enqueue"),
         inbox' = Append(inbox, l), UNCHANGED <<group, level, flow>>,
         Spares(<<l>>, consumer, consumer'),
         service'.asked = service.asked, noticed' # {} => run' = "dead",
         "tm" \in noticed => "tm" \in noticed'
  PROVE  Correct' /\ inbox' \in Seq(Letter)
<1>1. PICK ib, t : ib = inbox /\ t = inbox'
  OBVIOUS
<1>2. ib \in Seq(Letter) /\ Unique(ib) /\ Ordered(ib) /\ t = Append(ib, l)
  BY <1>1 DEF Typed, Correct
<1>3. ToSet(t) = ToSet(ib) \cup {l} /\ Aside(ToSet(ib), ToSet(t))
  BY <1>2, JoinsAside
<1>4. PICK s : s = <<l>>
  OBVIOUS
<1>5. t = ib \o s /\ ToSet(s) = {l} /\ s \in Seq(Letter) /\ Unique(s) /\ Ordered(s)
  BY <1>2, <1>4, SingleIs
<1>6. Joins(s, ib)
  BY <1>5 DEF Joins, LetterKind
<1>7. Aside(ToSet(inbox), ToSet(inbox) \cup ToSet(s))
  BY <1>1, <1>3, <1>5
<1>8. QED
  BY <1>1, <1>4, <1>5, <1>6, <1>7, AsideCorrect

(* No letter.                                                              *)
LEMMA AsideNone ==
  ASSUME Typed, Correct, UNCHANGED <<inbox, group, level, flow>>, Spares(<<>>, consumer, consumer'),
         service'.asked = service.asked, noticed' # {} => run' = "dead",
         "tm" \in noticed => "tm" \in noticed'
  PROVE  Correct' /\ inbox' \in Seq(Letter)
<1>1. PICK s : s = <<>>
  OBVIOUS
<1>2. PICK ib, I : ib = inbox /\ I = ToSet(inbox)
  OBVIOUS
<1>3. ib \in Seq(Letter)
  BY <1>2 DEF Typed
<1>4. ib = ib \o s /\ DOMAIN s = {} /\ s \in Seq(Letter)
  BY <1>1, <1>3
<1>5. ToSet(s) = {} /\ Unique(s) /\ Ordered(s)
  BY <1>4 DEF ToSet, Unique, Ordered
<1>6. Joins(s, ib)
  BY <1>4, <1>5 DEF Joins
<1>7. Aside(I, I)
  BY AsideIs
<1>8. I \cup ToSet(s) = I
  BY <1>5
<1>9. QED
  BY <1>1, <1>2, <1>4, <1>6, <1>7, <1>8, AsideCorrect
-----------------------------------------------------------------------------
(* Consumers, producers and the administrator.                             *)
LEMMA ConsumerCorrect ==
  ASSUME IInv, NEW c \in Consumer, UNCHANGED forwardVars,
         Consume(c) \/ ConsumerGets(c) \/ ConsumerLeaves(c) \/ ConsumerDies(c)
  PROVE  IInv'
<1>1. /\ flow' = flow /\ noticed' = noticed /\ service' = service /\ run' = run
      /\ UNCHANGED <<group, level>> /\ (noticed # {} => run = "dead")
  BY DEF forwardVars, Consume, ConsumerGets, ConsumerLeaves, ConsumerDies, Asks, groupVars, IInv,
         Correct, Outside
<1>2. PICK x : x # "noticed" /\ consumer' = [consumer EXCEPT ![c] = x]
               /\ x \in {"new", "waiting", "late", "leaving", "served", "told", "dead", "noticed"}
  BY DEF Consume, ConsumerGets, ConsumerLeaves, ConsumerDies
<1>3. /\ consumer' \in [Consumer -> {"new", "waiting", "late", "leaving", "served", "told", "dead", "noticed"}]
      /\ \A d \in Consumer : consumer'[d] = "noticed" => consumer[d] = "noticed"
      /\ consumer'[c] # "noticed"
  BY <1>2 DEF IInv, Typed
<1>4. c \notin Flow \cup Message
  BY QueueAssumption
<1>5. \/ UNCHANGED inbox
      \/ \E k \in {"dequeue", "forget"} : inbox' = Append(inbox, To(k, c, Nobody))
  BY DEF Consume, ConsumerGets, ConsumerLeaves, ConsumerDies, Asks, groupVars
<1>6. CASE UNCHANGED inbox
  <2>1. Spares(<<>>, consumer, consumer')
    BY <1>3 DEF Spares, ToSet
  <2>2. Correct' /\ inbox' \in Seq(Letter)
    BY <1>1, <1>6, <2>1, AsideNone DEF IInv
  <2>3. QED
    BY <1>1, <1>3, <2>2 DEF IInv, Typed
<1>7. ASSUME NEW k \in {"dequeue", "forget"}, inbox' = Append(inbox, To(k, c, Nobody))
      PROVE  IInv'
  <2>1. PICK l \in Letter : l = To(k, c, Nobody) /\ l.kind = k /\ l.who = c
    BY LettersAre, ToIs
  <2>2. ToSet(<<l>>) = {l}
    BY SingleIs DEF IInv, Typed
  <2>3. Spares(<<l>>, consumer, consumer')
    BY <1>3, <2>1, <2>2 DEF Spares
  <2>4. Correct' /\ inbox' \in Seq(Letter)
    BY <1>1, <1>4, <1>7, <2>1, <2>3, AsideOne DEF IInv
  <2>5. QED
    BY <1>1, <1>3, <2>4 DEF IInv, Typed
<1>8. QED
  BY <1>5, <1>6, <1>7

(* A letter of a kind that is about no flow.                               *)
LEMMA AskCorrect ==
  ASSUME IInv, NEW l \in Letter, l.kind \in {"exit", "restore", "shutdown"},
         Asks(l), UNCHANGED <<flow, consumer, service>>, noticed' # {} => run' = "dead",
         "tm" \in noticed => "tm" \in noticed'
  PROVE  IInv'
<1>1. l.kind \notin LetterKind /\ l.kind # "dequeue"
  BY DEF LetterKind
<1>2. ToSet(<<l>>) = {l}
  BY SingleIs DEF IInv, Typed
<1>3. Spares(<<l>>, consumer, consumer')
  BY <1>1, <1>2 DEF Spares
<1>4. Correct' /\ inbox' \in Seq(Letter)
  BY <1>1, <1>3, AsideOne DEF IInv, Asks
<1>5. QED
  BY <1>4 DEF IInv, Typed, Asks

(* The death of a consumer is told behind its dequeue.                     *)
LEMMA ConsumerExitCorrect ==
  ASSUME IInv, NEW c \in Consumer, UNCHANGED forwardVars, ConsumerExit(c)
  PROVE  IInv'
<1>1. PICK l \in Letter : l = Exit(c)
  BY DEF Exit, To, Letter, Who
<1>2. l.kind = "exit" /\ l.kind \notin LetterKind
  BY <1>1, ToIs DEF Exit, LetterKind
<1>3. /\ inbox' = Append(inbox, l) /\ consumer' = [consumer EXCEPT ![c] = "noticed"]
      /\ UNCHANGED <<group, level, flow, noticed, service, run>>
  BY <1>1 DEF ConsumerExit, Asks, Exit, forwardVars
<1>4. PICK ib, t, cs, ds, V : /\ ib = inbox /\ t = inbox' /\ cs = consumer /\ ds = consumer'
                              /\ V = Whos(group.dequeues)
  OBVIOUS
<1>5. ib \in Seq(Letter) /\ Unique(ib) /\ Ordered(ib) /\ Mourned(V, ib, cs) /\ t = Append(ib, l)
  BY <1>3, <1>4 DEF IInv, Typed, Correct
<1>6. /\ t \in Seq(Letter) /\ Unique(t) /\ Ordered(t) /\ ToSet(t) = ToSet(ib) \cup {l}
      /\ Aside(ToSet(ib), ToSet(t))
  BY <1>2, <1>5, JoinsAside
<1>7. /\ \A d \in Consumer : d # c => ds[d] = cs[d]
      /\ ds \in [Consumer -> {"new", "waiting", "late", "leaving", "served", "told", "dead", "noticed"}]
  BY <1>3, <1>4 DEF IInv, Typed
<1>8. Mourned(V, t, ds)
  <2>1. /\ DOMAIN t = 1 .. Len(ib) + 1 /\ t[Len(ib) + 1] = l /\ Len(ib) \in Nat
        /\ \A n \in DOMAIN ib : n \in 1 .. Len(ib) /\ t[n] = ib[n]
        /\ DOMAIN ib = 1 .. Len(ib)
    BY <1>5, AppendSet
  <2>2. \A n \in DOMAIN t : (n \in DOMAIN ib /\ n < Len(ib) + 1) \/ t[n] = l
    BY <2>1
  <2>3. Len(ib) + 1 \in DOMAIN t
    BY <2>1
  <2>4. ASSUME NEW n \in DOMAIN t, t[n].kind = "dequeue", t[n].who = c
        PROVE  \E k \in DOMAIN t : n < k /\ t[k] = Exit(c)
    <3>1. n < Len(ib) + 1
      BY <1>2, <2>2, <2>4
    <3>2. QED
      BY <1>1, <2>1, <2>3, <3>1
  <2>5. ASSUME NEW d \in Consumer, d # c, ds[d] = "noticed", NEW n \in DOMAIN t,
               t[n].kind = "dequeue", t[n].who = d
        PROVE  \E k \in DOMAIN t : n < k /\ t[k] = Exit(d)
    <3>1. n \in DOMAIN ib /\ ib[n] = t[n]
      BY <1>2, <2>1, <2>2, <2>5
    <3>2. PICK k \in DOMAIN ib : n < k /\ ib[k] = Exit(d)
      BY <1>5, <1>7, <2>5, <3>1 DEF Mourned
    <3>3. k \in DOMAIN t /\ t[k] = ib[k]
      BY <2>1
    <3>4. QED
      BY <3>2, <3>3
  <2>6. ASSUME NEW d \in Consumer, ds[d] = "noticed", d \in V
        PROVE  Exit(d) \in ToSet(t)
    BY <1>1, <1>5, <1>6, <1>7, <2>6 DEF Mourned
  <2>7. QED
    BY <2>4, <2>5, <2>6 DEF Mourned
<1>9. PICK w, I, J, fl, lv, nt : /\ w = group /\ I = ToSet(ib) /\ J = ToSet(t) /\ fl = flow
                                 /\ lv = level /\ nt = noticed
  OBVIOUS
<1>10. Sound(w, I, V, fl, lv, nt)
  BY <1>4, <1>9 DEF IInv, Correct
<1>11. Sound(w, J, V, fl, lv, nt)
  <2>1. /\ Aside(I, J) /\ AsideSet(V, V) /\ AsideMail(w.mail, w.mail)
        /\ AsideMail(ToSet(w.held), ToSet(w.held)) /\ Onward(lv, nt, lv, nt)
    BY <1>6, <1>9, AsideIs DEF Onward
  <2>2. QED
    BY <1>10, <2>1, AsideSound
<1>12. Outside'
  BY <1>3 DEF IInv, Correct, Outside
<1>13. Sound(group', ToSet(inbox'), Whos(group'.dequeues), flow', level', noticed')
  BY <1>3, <1>4, <1>9, <1>11
<1>14. Mourned(Whos(group'.dequeues), inbox', consumer') /\ Singly(group'.dequeues)
  BY <1>3, <1>4, <1>8 DEF IInv, Correct
<1>15. Correct'
  BY <1>4, <1>6, <1>12, <1>13, <1>14 DEF Correct
<1>16. Typed'
  BY <1>3, <1>4, <1>6, <1>7 DEF IInv, Typed
<1>17. QED
  BY <1>15, <1>16 DEF IInv

(* A producer sends a message that is nowhere yet.                         *)
LEMMA ProduceCorrect ==
  ASSUME IInv, NEW m \in Message, UNCHANGED forwardVars, Produce(m)
  PROVE  IInv'
<1>1. PICK l \in Letter : l = To("enqueue", m, m)
  BY DEF To, Letter, Who, LetterKind
<1>2. l.kind = "enqueue" /\ l.who = m /\ l.msg = m
  BY <1>1, ToIs
<1>3. /\ inbox' = Append(inbox, l)
      /\ UNCHANGED <<group, level, flow, noticed, service, run, consumer>>
  BY <1>1 DEF Produce, Asks, forwardVars, clientVars
<1>4. PICK w, ib, I, J, V, fl, lv, nt : /\ w = group /\ ib = inbox /\ I = ToSet(ib)
                                        /\ V = Whos(w.dequeues) /\ fl = flow /\ lv = level
                                        /\ nt = noticed /\ J = I \cup {l}
  OBVIOUS
<1>5. w \in Group /\ ib \in Seq(Letter) /\ Sound(w, I, V, fl, lv, nt)
  BY <1>4 DEF IInv, Typed, Correct
<1>6. /\ ~ Has(w.db, m) /\ (\A r \in w.mail : r.msg # m) /\ (\A x \in I : x.msg # m)
  BY <1>4 DEF Produce, Has, ToSet
<1>7. m \notin Flow /\ m # Nobody
  BY QueueAssumption
<1>8. l \notin I /\ \A y \in I : ~ (y.kind = "rollback" /\ y.who = m)
  <2>1. \A y \in I : y \in Letter
    BY <1>4, <1>5 DEF ToSet
  <2>2. QED
    BY <1>2, <1>6, <1>7, <2>1 DEF Letter
<1>9. Beside({}, w, I, V, fl, w, J, V, fl)
  <2>1. \A x \in Flow : \A k, n : To(k, x, n) # l
    BY <1>1, <1>7, ToIs
  <2>2. \A x \in Flow, k \in LetterKind, n \in Carried : To(k, x, n) \in I <=> To(k, x, n) \in J
    BY <1>4, <2>1
  <2>3. QED
    BY <2>2 DEF Beside
<1>10. ASSUME NEW n \in Message
       PROVE  Unmoved(w, I, w, J, n) \/ Known(w, J, n)
  <2>1. CASE n # m
    <3>1. To("enqueue", n, n) # l
      BY <1>1, <2>1, ToIs
    <3>2. To("enqueue", n, n) \in J => To("enqueue", n, n) \in I
      BY <1>4, <3>1
    <3>3. QED
      BY <3>2 DEF Unmoved
  <2>2. CASE n = m
    <3>1. Given(w.mail, m) = {}
      BY <1>6, ReplyIs DEF Given
    <3>2. Known(w, I, m)
      BY <1>5 DEF Sound
    <3>3. QED
      BY <1>6, <2>2, <3>1, <3>2 DEF Known
  <2>3. QED
    BY <2>1, <2>2
<1>11. Sound(w, J, V, fl, lv, nt)
  <2>1. Tidy(w.db) /\ Durable(w) /\ Onward(lv, nt, lv, nt)
    BY <1>5 DEF Sound, Onward
  <2>2. QED
    BY <1>5, <1>9, <1>10, <2>1, SoundSame
<1>12. PICK s \in Seq(Letter) : /\ Append(ib, l) = ib \o s /\ ToSet(s) = {l} /\ Joins(s, ib)
                                /\ Spares(s, consumer, consumer)
  <2>1. l.kind \in LetterKind /\ l.who \in Flow \cup Message => l \notin ToSet(ib)
    BY <1>4, <1>8
  <2>2. \A y \in ToSet(ib) : ~ (l.kind = "enqueue" /\ y.kind = "rollback" /\ l.who = y.who)
    BY <1>2, <1>4, <1>8
  <2>3. PICK cs : cs = consumer
    OBVIOUS
  <2>4. l.kind # "dequeue"
    BY <1>2
  <2>5. \E s \in Seq(Letter) : /\ Append(ib, l) = ib \o s /\ ToSet(s) = {l} /\ Joins(s, ib)
                               /\ Spares(s, cs, cs)
    BY <1>5, <2>1, <2>2, <2>4, JoinsOne
  <2>6. QED
    BY <2>3, <2>5
<1>13. Outside'
  BY <1>3 DEF IInv, Correct, Outside
<1>14. Sound(group', ToSet(inbox) \cup ToSet(s), Whos(group.dequeues), flow', level, noticed')
  BY <1>3, <1>4, <1>11, <1>12
<1>15. Correct' /\ inbox' \in Seq(Letter)
  <2>1. /\ Whos(group'.dequeues) = Whos(group.dequeues) /\ Singly(group'.dequeues)
        /\ Spares(s, consumer, consumer') /\ level' = level /\ inbox' = inbox \o s
        /\ Joins(s, inbox)
    BY <1>3, <1>4, <1>12 DEF IInv, Correct
  <2>2. QED
    BY <1>13, <1>14, <2>1, StepCorrect DEF IInv
<1>16. QED
  BY <1>3, <1>15 DEF IInv, Typed

(* The exit of a producer, and restore.                                    *)
LEMMA ProducerExitCorrect ==
  ASSUME IInv, NEW m \in Message, UNCHANGED forwardVars, ProducerExit(m)
  PROVE  IInv'
<1>1. PICK l \in Letter : l = To("exit", {m}, Nobody) /\ l.kind = "exit"
  BY LettersAre, ToIs DEF Who
<1>2. Asks(l) /\ UNCHANGED <<flow, consumer, service, noticed, run>>
  BY <1>1 DEF ProducerExit, clientVars, forwardVars
<1>3. QED
  BY <1>1, <1>2, AskCorrect DEF IInv, Correct, Outside

(* The administrator restores.                                             *)
LEMMA RestoreCorrect ==
  ASSUME IInv, UNCHANGED forwardVars, Restore
  PROVE  IInv'
<1>1. PICK l \in Letter : l = To("restore", Nobody, Nobody) /\ l.kind = "restore"
  BY LettersAre, ToIs DEF Who
<1>2. Asks(l) /\ UNCHANGED <<flow, consumer, service, noticed, run>>
  BY <1>1 DEF Restore, forwardVars
<1>3. QED
  BY <1>1, <1>2, AskCorrect DEF IInv, Correct, Outside
-----------------------------------------------------------------------------
(* Letters of this kind of these flows can be added: none is there yet.    *)
LettersTo(k, S) == {To(k, f, Nobody) : f \in S}
Unsent(k, S, ib) == k \in LetterKind => \A f \in S : To(k, f, Nobody) \notin ToSet(ib)

(* A letter for each of several flows.                                     *)
LEMMA LettersOf ==
  ASSUME NEW k \in {"dequeue", "forget", "rollback"}, NEW S \in SUBSET Flow,
         NEW T, T = LettersTo(k, S), NEW s, s = SetToSeq(T), NEW ib \in Seq(Letter),
         Unsent(k, S, ib), NEW cs
  PROVE  s \in Seq(Letter) /\ ToSet(s) = T /\ Joins(s, ib) /\ Spares(s, cs, cs)
<1>0. T = {To(k, f, Nobody) : f \in S}
  BY DEF LettersTo
<1>1. \A f \in S : To(k, f, Nobody) \in Letter
  BY LettersAre
<1>2. IsFiniteSet(T)
  <2>1. IsFiniteSet(S)
    BY FS_Subset, QueueAssumption
  <2>2. PICK g : g = [f \in S |-> To(k, f, Nobody)]
    OBVIOUS
  <2>3. g \in Surjection(S, T)
    BY <1>0, <2>2 DEF Surjection
  <2>4. QED
    BY <2>1, <2>3, FS_Surjection
<1>3. T \in SUBSET Letter
  BY <1>0, <1>1
<1>4. /\ s \in Seq(Letter) /\ ToSet(s) = T
      /\ \A n, j \in DOMAIN s : s[n] = s[j] => n = j
  BY <1>2, <1>3, SeqOfSet
<1>5. \A x \in T : /\ x.kind = k /\ x.who \in Flow /\ x.who \notin Consumer
                   /\ k \in LetterKind => x \notin ToSet(ib)
  BY <1>0, ToIs, QueueAssumption DEF Unsent
<1>6. \A n \in DOMAIN s : s[n] \in T
  BY <1>4 DEF ToSet
<1>7. Unique(s) /\ Ordered(s)
  BY <1>4, <1>5, <1>6 DEF Unique, Ordered
<1>8. Joins(s, ib)
  <2>1. \A x \in ToSet(s) : x.kind \in LetterKind /\ x.who \in Flow \cup Message => x \notin ToSet(ib)
    BY <1>4, <1>5
  <2>2. \A x \in ToSet(s) : x.kind # "enqueue"
    BY <1>4, <1>5
  <2>3. QED
    BY <1>4, <1>7, <2>1, <2>2 DEF Joins
<1>9. Spares(s, cs, cs)
  BY <1>4, <1>5 DEF Spares
<1>10. QED
  BY <1>4, <1>8, <1>9
-----------------------------------------------------------------------------
(* Configuration: what is cancelled is of the forward only.                *)
LEMMA CompliesCorrect ==
  ASSUME IInv, NEW fw, Complies(fw), UNCHANGED <<consumer, noticed>>, noticed # {} => run' = "dead"
  PROVE  IInv'
<1>1. /\ UNCHANGED <<group, level, flow>> /\ service'.asked = service.asked
      /\ service' \in [asked : SUBSET Flow, discards : SUBSET Flow]
  BY DEF Complies, IInv, Typed
<1>2. PICK ib, cs : ib = inbox /\ cs = consumer
  OBVIOUS
<1>3. ib \in Seq(Letter)
  BY <1>2 DEF IInv, Typed
<1>4. \E s : /\ inbox' = ib \o s /\ Joins(s, ib) /\ Spares(s, cs, cs)
             /\ Aside(ToSet(ib), ToSet(ib) \cup ToSet(s))
  <2>1. CASE inbox' = inbox
    <3>1. PICK s \in Seq(Letter) : ib = ib \o s /\ ToSet(s) = {} /\ Joins(s, ib) /\ Spares(s, cs, cs)
      BY <1>3, JoinsNone
    <3>2. Aside(ToSet(ib), ToSet(ib)) /\ ToSet(ib) \cup ToSet(s) = ToSet(ib)
      BY <3>1, AsideIs
    <3>3. QED
      BY <1>2, <2>1, <3>1, <3>2
  <2>2. CASE inbox' = inbox \o SetToSeq({To("forget", f, Nobody) :
                                           f \in {x \in Flow : flow[x].stage = "dequeue"}})
    <3>1. PICK S, T, s : /\ S = {x \in Flow : flow[x].stage = "dequeue"}
                         /\ T = LettersTo("forget", S) /\ s = SetToSeq(T)
      OBVIOUS
    <3>2. inbox' = ib \o s
      BY <1>2, <2>2, <3>1 DEF LettersTo
    <3>3. S \in SUBSET Flow /\ "forget" \notin LetterKind
      BY <3>1 DEF LetterKind
    <3>4. ToSet(s) = T /\ Joins(s, ib) /\ Spares(s, cs, cs)
      <4>1. Unsent("forget", S, ib)
        BY <3>3 DEF Unsent
      <4>2. QED
        BY <1>3, <3>1, <3>3, <4>1, LettersOf
    <3>5. \A x \in T : x.kind = "forget"
      BY <3>1, ToIs DEF LettersTo
    <3>6. Aside(ToSet(ib), ToSet(ib) \cup ToSet(s))
      BY <3>4, <3>5, ToIs DEF Aside, LetterKind
    <3>7. QED
      BY <3>2, <3>4, <3>6
  <2>3. QED
    BY <2>1, <2>2, Zenon DEF Complies
<1>5. Correct' /\ inbox' \in Seq(Letter)
  BY <1>1, <1>2, <1>4, AsideCorrect DEF IInv
<1>6. QED
  BY <1>1, <1>5 DEF IInv, Typed

(* Nothing of what the invariant is about changes.                         *)
LEMMA StutterCorrect ==
  ASSUME IInv, UNCHANGED <<group, inbox, level, consumer, flow, service, noticed>>,
         noticed # {} => run' = "dead"
  PROVE  IInv'
<1>1. PICK ib, cs : ib = inbox /\ cs = consumer
  OBVIOUS
<1>2. PICK s \in Seq(Letter) : ib = ib \o s /\ ToSet(s) = {} /\ Joins(s, ib) /\ Spares(s, cs, cs)
  BY <1>1, JoinsNone DEF IInv, Typed
<1>3. Aside(ToSet(ib), ToSet(ib)) /\ ToSet(ib) \cup ToSet(s) = ToSet(ib)
  BY <1>2, AsideIs
<1>4. Correct' /\ inbox' \in Seq(Letter)
  BY <1>1, <1>2, <1>3, AsideCorrect DEF IInv
<1>5. QED
  BY <1>4 DEF IInv, Typed

(* The steps of the forward that are about no flow.                        *)
LEMMA ForwardCorrect ==
  ASSUME IInv, ForwardShutdown \/ ForwardDone \/ Shutdown \/ Dies \/ GroupNotices
               \/ (\E F \in Forward, n \in Sizes : Update(F, n))
  PROVE  IInv'
<1>1. noticed # {} => run = "dead"
  BY DEF IInv, Correct, Outside
<1>2. CASE ForwardShutdown
  <2>1. PICK fw : Complies(fw)
    BY <1>2, Zenon DEF ForwardShutdown
  <2>2. UNCHANGED <<consumer, noticed>> /\ run = "asked"
    BY <1>2 DEF ForwardShutdown, clientVars
  <2>3. QED
    BY <1>1, <2>1, <2>2, CompliesCorrect
<1>3. CASE \E F \in Forward, n \in Sizes : Update(F, n)
  <2>1. PICK F \in Forward, n \in Sizes : Update(F, n)
    BY <1>3
  <2>2. PICK fw : Complies(fw)
    BY <2>1, Zenon DEF Update
  <2>3. UNCHANGED <<consumer, noticed>> /\ run = "running"
    BY <2>1 DEF Update, clientVars
  <2>4. QED
    BY <1>1, <2>2, <2>3, CompliesCorrect
<1>4. CASE ForwardDone
  BY <1>1, <1>4, StutterCorrect DEF ForwardDone, groupVars, clientVars
<1>5. CASE Dies
  BY <1>1, <1>5, StutterCorrect DEF Dies, groupVars, clientVars
<1>6. CASE Shutdown
  <2>1. PICK l \in Letter : l = To("shutdown", Nobody, Nobody) /\ l.kind = "shutdown"
    BY LettersAre, ToIs
  <2>2. /\ Asks(l) /\ UNCHANGED <<flow, consumer, service, noticed>> /\ run = "running"
    BY <1>6, <2>1 DEF Shutdown, clientVars
  <2>3. QED
    BY <1>1, <2>1, <2>2, AskCorrect
<1>7. CASE GroupNotices
  <2>1. PICK l \in Letter : l = To("exit", Flow, Nobody) /\ l.kind = "exit"
    BY LettersAre, ToIs DEF Who
  <2>2. /\ Asks(l) /\ UNCHANGED <<flow, consumer, service, run>> /\ run = "dead"
        /\ noticed' = noticed \cup {"group"}
    BY <1>7, <2>1 DEF GroupNotices, clientVars
  <2>3. QED
    BY <2>1, <2>2, AskCorrect
<1>8. QED
  BY <1>2, <1>3, <1>4, <1>5, <1>6, <1>7
-----------------------------------------------------------------------------
(* The forward, or the transaction manager, receives a reply about a flow: *)
(* what the group knows of the others does not change.                     *)
Entry == [stage : Stage, msg : Carried]
Lookups == [asked : SUBSET Flow, discards : SUBSET Flow]
Hears(w, u, f) ==
  /\ u \in Group /\ u.db = w.db /\ u.disk = w.disk /\ u.held = w.held
  /\ u.dequeues = w.dequeues /\ u.involved = w.involved
  /\ OwnSet(w.registered, u.registered, f) /\ OwnMail(w.mail, u.mail, f)
  /\ Reply("xa", f, Nobody) \in u.mail => Reply("xa", f, Nobody) \in w.mail

(* A step of one flow outside of the group.                                *)
LEMMA TurnCorrect ==
  ASSUME IInv, NEW f \in Flow, Hears(group, group', f), NEW s, Joins(s, inbox),
         inbox' = inbox \o s, OwnLetters(ToSet(inbox), ToSet(inbox) \cup ToSet(s), f),
         \A c \in Consumer : ~ \E x \in ToSet(s) : x.kind = "dequeue" /\ x.who = c,
         UNCHANGED <<level, consumer, noticed>>,
         NEW e \in Entry, flow' = [flow EXCEPT ![f] = e],
         FlowFits(group', ToSet(inbox) \cup ToSet(s), Whos(group.dequeues), f, e, level, noticed),
         service' \in Lookups, Outside'
  PROVE  IInv'
<1>1. PICK w, u, I, J, V, fl, gl, lv, nt :
        /\ w = group /\ u = group' /\ I = ToSet(inbox) /\ J = I \cup ToSet(s)
        /\ V = Whos(w.dequeues) /\ fl = flow /\ gl = flow' /\ lv = level /\ nt = noticed
  OBVIOUS
<1>2. Sound(w, I, V, fl, lv, nt) /\ Singly(w.dequeues)
  BY <1>1 DEF IInv, Correct
<1>3. gl[f] = e /\ gl \in [Flow -> Entry] /\ \A x \in Flow \ {f} : gl[x] = fl[x]
  BY <1>1 DEF IInv, Typed, Entry
<1>4. Hears(w, u, f)
  BY <1>1
<1>5. Own(f, w, I, V, fl, u, J, V, gl)
  <2>1. OwnLetters(I, J, f) /\ OwnMail(w.mail, u.mail, f) /\ OwnSet(w.registered, u.registered, f)
    BY <1>1, <1>4 DEF Hears
  <2>2. /\ OwnMail(ToSet(w.held), ToSet(u.held), f) /\ OwnRows(u.db, w.db, f) /\ OwnSet(V, V, f)
        /\ OwnSet(w.involved, u.involved, f)
    BY <1>4, OwnIs DEF Hears
  <2>3. QED
    BY <1>3, <2>1, <2>2 DEF Own
<1>6. Sound(u, J, V, gl, lv, nt)
  <2>1. FlowFits(u, J, V, f, gl[f], lv, nt)
    BY <1>1, <1>3
  <2>2. Tidy(u.db) /\ u.disk = w.disk
    BY <1>2, <1>4 DEF Sound, Hears
  <2>3. Reply("xa", f, Nobody) \in u.mail => Reply("xa", f, Nobody) \in w.mail
    BY <1>4 DEF Hears
  <2>4. QED
    BY <1>2, <1>5, <2>1, <2>2, <2>3, OneFlow
<1>7. u.dequeues = w.dequeues /\ u \in Group
  BY <1>4 DEF Hears
<1>8. Spares(s, consumer, consumer')
  BY DEF Spares
<1>9. Sound(group', ToSet(inbox) \cup ToSet(s), Whos(group.dequeues), flow', level, noticed')
  BY <1>1, <1>6
<1>10. Correct' /\ inbox' \in Seq(Letter)
  <2>1. Typed /\ Correct /\ level' = level
    BY DEF IInv
  <2>2. Whos(group'.dequeues) = Whos(group.dequeues) /\ Singly(group'.dequeues)
    BY <1>1, <1>2, <1>7
  <2>3. QED
    BY <1>8, <1>9, <2>1, <2>2, StepCorrect
<1>11. QED
  BY <1>1, <1>3, <1>7, <1>10 DEF IInv, Typed, Entry, Lookups

(* The flow asks for something: a letter is put behind the inbox.          *)
Behind(t, ib, l) == \E s \in Seq(Letter) : t = ib \o s /\ ToSet(s) = {l} /\ Joins(s, ib)

(* A letter of a flow that is not in the inbox yet, and no enqueue behind  *)
(* the flow's rollback.                                                    *)
LEMMA JoinsFlow ==
  ASSUME NEW ib \in Seq(Letter), NEW I, I = ToSet(ib), NEW M, NEW V, NEW H, NEW f \in Flow, NEW P,
         P = Places(I, M, V, H, f), NEW k \in LetterKind, NEW n \in Carried,
         NEW l \in Letter, l = To(k, f, n), <<k, n>> \notin P,
         k # "enqueue" \/ <<"rollback", Nobody>> \notin P, NEW t, t = Append(ib, l)
  PROVE  Behind(t, ib, l)
<1>1. l \notin I
  BY PlaceIs
<1>2. l.kind = k /\ l.who = f
  BY ToIs
<1>3. k = "enqueue" => To("rollback", f, Nobody) \notin I
  <2>1. "rollback" \in LetterKind /\ Nobody \in Carried
    BY DEF LetterKind, Carried
  <2>2. QED
    BY <2>1, PlaceIs
<1>4. ASSUME NEW y \in ToSet(ib), l.kind = "enqueue", y.kind = "rollback", l.who = y.who
      PROVE  FALSE
  <2>1. y \in Letter
    BY DEF ToSet
  <2>2. y.msg = Nobody
    BY <1>4, <2>1 DEF Letter
  <2>3. y = To(y.kind, y.who, y.msg)
    BY <2>1, LetterIs
  <2>4. y = To("rollback", f, Nobody)
    BY <1>2, <1>4, <2>2, <2>3
  <2>5. QED
    BY <1>2, <1>3, <1>4, <2>4
<1>5. l.kind \in LetterKind /\ l.who \in Flow \cup Message => l \notin ToSet(ib)
  BY <1>1
<1>6. \A y \in ToSet(ib) : ~ (l.kind = "enqueue" /\ y.kind = "rollback" /\ l.who = y.who)
  BY <1>4
<1>7. PICK cs : cs = consumer
  OBVIOUS
<1>8. l.kind = "dequeue" => l.who \in Flow
  BY <1>2
<1>9. \E s \in Seq(Letter) : /\ Append(ib, l) = ib \o s /\ ToSet(s) = {l} /\ Joins(s, ib)
                             /\ Spares(s, cs, cs)
  BY <1>5, <1>6, <1>8, JoinsOne
<1>10. QED
  BY <1>9 DEF Behind

(* What a flow is told is taken out of the mail.                           *)
Rid(w, r) == [w EXCEPT !.mail = @ \ {r}]

(* A flow hears when a reply about it is taken from the mail.              *)
LEMMA HearsIs ==
  ASSUME NEW w \in Group, NEW f \in Flow, NEW k \in MailKind, NEW m \in Carried,
         NEW u, u = Rid(w, Reply(k, f, m)), NEW I, NEW V, NEW P,
         P = Places(I, w.mail, V, ToSet(w.held), f)
  PROVE  /\ Hears(w, u, f) /\ u.registered = w.registered
         /\ Places(I, u.mail, V, ToSet(w.held), f) = P \ {<<k, m>>}
<1>1. PICK M, N, H : M = w.mail /\ N = M \ {Reply(k, f, m)} /\ H = ToSet(w.held)
  OBVIOUS
<1>2. /\ u \in Group /\ u.mail = N /\ u.db = w.db /\ u.disk = w.disk /\ u.held = w.held
      /\ u.dequeues = w.dequeues /\ u.involved = w.involved /\ u.registered = w.registered
  BY <1>1 DEF Group, Rid
<1>3. OwnMail(M, N, f)
  BY <1>1, OwnIs
<1>4. OwnSet(w.registered, u.registered, f)
  BY <1>2, OwnIs
<1>5. Places(I, N, V, H, f) = Places(I, M, V, H, f) \ {<<k, m>>}
  BY <1>1, MailOut
<1>6. QED
  BY <1>1, <1>2, <1>3, <1>4, <1>5 DEF Hears

(* It hears nothing when the group is as it was.                           *)
LEMMA HearsSame ==
  ASSUME NEW w \in Group, NEW f \in Flow
  PROVE  Hears(w, w, f)
BY OwnIs DEF Hears

(* A step of a flow that asks for something, and one that does not.        *)
Where(f) == Places(ToSet(inbox), group.mail, Whos(group.dequeues), ToSet(group.held), f)
Heard(f, w) == Places(ToSet(inbox), w.mail, Whos(group.dequeues), ToSet(group.held), f)

(* A step of a flow that hears something, or nothing, and asks the group.  *)
LEMMA AskedCorrect ==
  ASSUME IInv, NEW f \in Flow, Hears(group, group', f), NEW Q, Q = Heard(f, group'),
         NEW k \in LetterKind, k # "dequeue", NEW n \in Carried, To(k, f, n) \in Letter,
         <<k, n>> \notin Where(f), k = "enqueue" => <<"rollback", Nobody>> \notin Where(f),
         inbox' = Append(inbox, To(k, f, n)), UNCHANGED <<level, consumer, noticed>>,
         NEW e \in Entry, flow' = [flow EXCEPT ![f] = e],
         Fits(f, Q \cup {<<k, n>>}, Takes(group.db, f), Adds(group.db, f), e, group.involved,
              group'.registered, level, noticed),
         service' \in Lookups, Outside'
  PROVE  IInv'
<1>1. PICK l \in Letter : l = To(k, f, n)
  OBVIOUS
<1>2. PICK ib, I, M, V, H, P, N :
        /\ ib = inbox /\ I = ToSet(ib) /\ M = group.mail /\ V = Whos(group.dequeues)
        /\ H = ToSet(group.held) /\ P = Where(f) /\ N = group'.mail
  OBVIOUS
<1>3. ib \in Seq(Letter) /\ P = Places(I, M, V, H, f) /\ Q = Places(I, N, V, H, f)
  BY <1>2 DEF IInv, Typed, Where, Heard
<1>4. PICK s \in Seq(Letter) : Append(ib, l) = ib \o s /\ ToSet(s) = {l} /\ Joins(s, ib)
  <2>0. PICK t : t = Append(ib, l)
    OBVIOUS
  <2>1. /\ ib \in Seq(Letter) /\ I = ToSet(ib) /\ P = Places(I, M, V, H, f)
        /\ k \in LetterKind /\ n \in Carried /\ f \in Flow /\ l \in Letter /\ l = To(k, f, n)
        /\ <<k, n>> \notin P
    BY <1>1, <1>2, <1>3
  <2>2. k # "enqueue" \/ <<"rollback", Nobody>> \notin P
    BY <1>2
  <2>3. Behind(t, ib, l)
    BY ONLY <2>0, <2>1, <2>2, JoinsFlow
  <2>4. QED
    BY <2>0, <2>3 DEF Behind
<1>5. PICK J : J = I \cup {l}
  OBVIOUS
<1>6. OwnLetters(I, J, f)
  BY <1>1, <1>5, OwnIs
<1>7. Places(J, N, V, H, f) = Q \cup {<<k, n>>}
  <2>1. Places(I \cup {To(k, f, n)}, N, V, H, f) = Places(I, N, V, H, f) \cup {<<k, n>>}
    BY LetterIn
  <2>2. QED
    BY <1>1, <1>3, <1>5, <2>1
<1>8. PICK u : u = group'
  OBVIOUS
<1>9. Hears(group, u, f) /\ u.mail = N /\ ToSet(u.held) = H
  BY <1>2, <1>8 DEF Hears
<1>10. FlowFits(u, J, V, f, e, level, noticed)
  BY <1>7, <1>8, <1>9 DEF FlowFits, Hears
<1>11. \A c \in Consumer : ~ \E x \in ToSet(s) : x.kind = "dequeue" /\ x.who = c
  BY <1>1, <1>4, ToIs
<1>12. QED
  BY <1>1, <1>2, <1>4, <1>5, <1>6, <1>8, <1>9, <1>10, <1>11, TurnCorrect

(* A step of a flow that asks for nothing.                                 *)
LEMMA QuietCorrect ==
  ASSUME IInv, NEW f \in Flow, Hears(group, group', f), NEW Q, Q = Heard(f, group'),
         UNCHANGED <<inbox, level, consumer, noticed>>,
         NEW e \in Entry, flow' = [flow EXCEPT ![f] = e],
         Fits(f, Q, Takes(group.db, f), Adds(group.db, f), e, group.involved,
              group'.registered, level, noticed),
         service' \in Lookups, Outside'
  PROVE  IInv'
<1>1. PICK ib, I, V, H, N, cs :
        /\ ib = inbox /\ I = ToSet(ib) /\ V = Whos(group.dequeues) /\ cs = consumer
        /\ H = ToSet(group.held) /\ N = group'.mail
  OBVIOUS
<1>2. ib \in Seq(Letter) /\ Q = Places(I, N, V, H, f)
  BY <1>1 DEF IInv, Typed, Heard
<1>3. PICK s \in Seq(Letter) : ib = ib \o s /\ ToSet(s) = {} /\ Joins(s, ib) /\ Spares(s, cs, cs)
  BY <1>2, JoinsNone
<1>4. PICK u : u = group'
  OBVIOUS
<1>5. Hears(group, u, f) /\ u.mail = N /\ ToSet(u.held) = H
  BY <1>1, <1>4 DEF Hears
<1>6. FlowFits(u, I, V, f, e, level, noticed)
  BY <1>2, <1>4, <1>5 DEF FlowFits, Hears
<1>7. OwnLetters(I, I, f) /\ I \cup ToSet(s) = I
  BY <1>3, OwnIs
<1>8. \A c \in Consumer : ~ \E x \in ToSet(s) : x.kind = "dequeue" /\ x.who = c
  BY <1>3
<1>9. QED
  BY <1>1, <1>3, <1>4, <1>5, <1>6, <1>7, <1>8, TurnCorrect
-----------------------------------------------------------------------------
(* What becomes of a flow when it is told, or goes on by itself, while its *)
(* forward is alive (the transaction manager has not heard of a death).    *)
LEMMA FitsTold ==
  ASSUME NEW f, NEW P, NEW T, NEW A, NEW s, NEW inv, NEW reg, NEW lv, NEW nt,
         Fits(f, P, T, A, s, inv, reg, lv, nt), "tm" \notin nt, NEW m \in Message,
         <<"dequeued", m>> \in P, NEW Q, Q = P \ {<<"dequeued", m>>}
  PROVE  /\ s.stage = "dequeue" /\ <<"rollback", Nobody>> \notin P /\ <<"enqueue", m>> \notin P
         /\ Fits(f, Q, T, A, In("lookup", m), inv, reg, lv, nt)
         /\ Fits(f, Q \cup {<<"enqueue", m>>}, T, A, In("enqueue", m), inv, reg, lv, nt)
         /\ Fits(f, Q \cup {<<"rollback", Nobody>>}, T, A, In("rollback", Nobody), inv, reg, lv, nt)
<1>1. /\ s.stage = "dequeue" /\ P = {<<"dequeued", m>>} /\ T = {m} /\ A = {} /\ f \in inv /\ f \in reg
  BY DEF Fits, Resting, Moving, Closed, Orphan
<1>2. Q = {}
  BY <1>1
<1>3. /\ In("lookup", m).stage = "lookup" /\ In("lookup", m).msg = m
      /\ In("enqueue", m).stage = "enqueue" /\ In("rollback", Nobody).stage = "rollback"
  BY DEF In
<1>4. Moving(f, Q, T, A, In("lookup", m), inv, reg, m)
  BY <1>1, <1>2, <1>3 DEF Moving
<1>5. Moving(f, Q \cup {<<"enqueue", m>>}, T, A, In("enqueue", m), inv, reg, m)
  BY <1>1, <1>2, <1>3 DEF Moving
<1>6. Moving(f, Q \cup {<<"rollback", Nobody>>}, T, A, In("rollback", Nobody), inv, reg, m)
  BY <1>1, <1>2, <1>3 DEF Moving
<1>7. <<"rollback", Nobody>> \notin P /\ <<"enqueue", m>> \notin P
  BY <1>1
<1>8. QED
  BY <1>1, <1>4, <1>5, <1>6, <1>7 DEF Fits

(* It is told that its message has been added, and commits.                *)
LEMMA FitsAdded ==
  ASSUME NEW f, NEW P, NEW T, NEW A, NEW s, NEW inv, NEW reg, NEW lv, NEW nt,
         Fits(f, P, T, A, s, inv, reg, lv, nt), "tm" \notin nt, NEW m \in Message,
         <<"enqueued", m>> \in P, NEW Q, Q = P \ {<<"enqueued", m>>}, NEW k \in {"commit", "prepare"}
  PROVE  /\ s.stage = "enqueue" /\ <<k, Nobody>> \notin P
         /\ Fits(f, Q \cup {<<k, Nobody>>}, T, A, In("commit", Nobody), inv, reg, lv, nt)
<1>1. /\ s.stage = "enqueue" /\ P = {<<"enqueued", m>>} /\ T = {m} /\ A = {m} /\ f \in inv /\ f \in reg
  BY DEF Fits, Resting, Moving, Closed, Orphan
<1>2. Q = {} /\ <<k, Nobody>> \notin P
  BY <1>1
<1>3. In("commit", Nobody).stage = "commit"
  BY DEF In
<1>4. Moving(f, Q \cup {<<k, Nobody>>}, T, A, In("commit", Nobody), inv, reg, m)
  BY <1>1, <1>2, <1>3 DEF Moving
<1>5. QED
  BY <1>1, <1>2, <1>4 DEF Fits

(* It is told that its dequeue was forgotten.                              *)
LEMMA FitsForgotten ==
  ASSUME NEW f, NEW P, NEW T, NEW A, NEW s, NEW inv, NEW reg, NEW lv, NEW nt,
         Fits(f, P, T, A, s, inv, reg, lv, nt), <<"forgotten", Nobody>> \in P,
         NEW Q, Q = P \ {<<"forgotten", Nobody>>}
  PROVE  /\ s.stage \in {"idle", "dequeue"} /\ Fits(f, Q, T, A, s, inv, reg, lv, nt)
         /\ Fits(f, Q, T, A, In("idle", Nobody), inv, reg, lv, nt)
<1>1. /\ s.stage \in {"idle", "dequeue"} /\ P = {<<"forgotten", Nobody>>} /\ T = {} /\ A = {}
      /\ f \notin inv /\ f \notin reg
  BY DEF Fits, Resting, Moving, Closed, Orphan, Ignored
<1>2. Q = {} /\ In("idle", Nobody).stage = "idle"
  BY <1>1 DEF In
<1>3. QED
  BY <1>1, <1>2 DEF Fits, Resting

(* The service is found and called, or the message is enqueued, or the     *)
(* flow gives up.                                                          *)
LEMMA FitsLooks ==
  ASSUME NEW f, NEW P, NEW T, NEW A, NEW s, NEW inv, NEW reg, NEW lv, NEW nt,
         Fits(f, P, T, A, s, inv, reg, lv, nt), "tm" \notin nt, s.stage \in {"lookup", "call"}
  PROVE  /\ P = {} /\ s.msg \in Message
         /\ Fits(f, P, T, A, In("call", s.msg), inv, reg, lv, nt)
         /\ Fits(f, P \cup {<<"enqueue", s.msg>>}, T, A, In("enqueue", s.msg), inv, reg, lv, nt)
         /\ Fits(f, P \cup {<<"rollback", Nobody>>}, T, A, In("rollback", Nobody), inv, reg, lv, nt)
<1>1. PICK m \in Message : P = {} /\ s.msg = m /\ T = {m} /\ A = {} /\ f \in inv /\ f \in reg
  BY DEF Fits, Resting, Moving, Closed, Orphan
<1>2. /\ In("call", m).stage = "call" /\ In("call", m).msg = m
      /\ In("enqueue", m).stage = "enqueue" /\ In("rollback", Nobody).stage = "rollback"
  BY DEF In
<1>3. Moving(f, P, T, A, In("call", m), inv, reg, m)
  BY <1>1, <1>2 DEF Moving
<1>4. Moving(f, P \cup {<<"enqueue", m>>}, T, A, In("enqueue", m), inv, reg, m)
  BY <1>1, <1>2 DEF Moving
<1>5. Moving(f, P \cup {<<"rollback", Nobody>>}, T, A, In("rollback", Nobody), inv, reg, m)
  BY <1>1, <1>2 DEF Moving
<1>6. QED
  BY <1>1, <1>3, <1>4, <1>5 DEF Fits

(* It is told that its transaction has ended.                              *)
LEMMA FitsEnded ==
  ASSUME NEW f, NEW P, NEW T, NEW A, NEW s, NEW inv, NEW reg, NEW lv, NEW nt,
         Fits(f, P, T, A, s, inv, reg, lv, nt), "tm" \notin nt, <<"ended", Nobody>> \in P,
         NEW Q, Q = P \ {<<"ended", Nobody>>}
  PROVE  /\ s.stage \in {"commit", "rollback"}
         /\ Fits(f, Q, T, A, In("idle", Nobody), inv, reg, lv, nt)
<1>1. /\ s.stage \in {"commit", "rollback"} /\ P = {<<"ended", Nobody>>} /\ T = {} /\ A = {}
      /\ f \notin inv /\ f \notin reg
  BY DEF Fits, Resting, Moving, Closed, Orphan
<1>2. Q = {} /\ In("idle", Nobody).stage = "idle"
  BY <1>1 DEF In
<1>3. QED
  BY <1>1, <1>2 DEF Fits, Resting

(* The transaction manager decides, and forgets the transaction.           *)
LEMMA FitsDecides ==
  ASSUME NEW f, NEW P, NEW T, NEW A, NEW s, NEW inv, NEW reg, NEW lv, NEW nt,
         Fits(f, P, T, A, s, inv, reg, lv, nt), <<"prepared", Nobody>> \in P,
         NEW Q, Q = P \ {<<"prepared", Nobody>>}, NEW k \in {"commit", "rollback"}
  PROVE  /\ <<k, Nobody>> \notin P
         /\ Fits(f, Q \cup {<<k, Nobody>>}, T, A, s, inv, reg, lv, nt)
<1>1. PICK m \in Message : /\ P = {<<"prepared", Nobody>>} /\ T = {m} /\ A = {m} /\ f \in inv
                           /\ f \in reg /\ s.stage = "commit"
  BY DEF Fits, Resting, Moving, Closed, Orphan, Ignored
<1>2. Q = {} /\ <<k, Nobody>> \notin P
  BY <1>1
<1>3. Moving(f, Q \cup {<<k, Nobody>>}, T, A, s, inv, reg, m)
  BY <1>1, <1>2 DEF Moving
<1>4. QED
  BY <1>2, <1>3 DEF Fits

(* The transaction manager hears that the group has ended it.              *)
LEMMA FitsEnds ==
  ASSUME NEW f, NEW P, NEW T, NEW A, NEW s, NEW inv, NEW reg, NEW lv, NEW nt,
         Fits(f, P, T, A, s, inv, reg, lv, nt), <<"xa", Nobody>> \in P, NEW jr, jr = reg \ {f}
  PROVE  Fits(f, (P \ {<<"xa", Nobody>>}) \cup {<<"ended", Nobody>>}, T, A, s, inv, jr, lv, nt)
BY DEF Fits, Resting, Moving, Closed, Orphan, Ignored

(* Where a flow is, by the invariant.                                      *)
LEMMA WhereIs ==
  ASSUME IInv, NEW f \in Flow
  PROVE  /\ Fits(f, Where(f), Takes(group.db, f), Adds(group.db, f), flow[f], group.involved,
                 group.registered, level, noticed)
         /\ \A k \in MailKind, m \in Carried : <<k, m>> \in Where(f) <=> Reply(k, f, m) \in group.mail
         /\ flow[f] \in Entry
<1>1. Fits(f, Where(f), Takes(group.db, f), Adds(group.db, f), flow[f], group.involved,
           group.registered, level, noticed)
  BY DEF IInv, Correct, Sound, FlowFits, Where
<1>2. PICK I, M, V, H : /\ I = ToSet(inbox) /\ M = group.mail /\ V = Whos(group.dequeues)
                        /\ H = ToSet(group.held)
  OBVIOUS
<1>3. \A k \in MailKind, m \in Carried : <<k, m>> \in Places(I, M, V, H, f) <=> Reply(k, f, m) \in M
  BY PlaceIs
<1>4. QED
  BY <1>1, <1>2, <1>3 DEF Where, IInv, Typed, Entry
-----------------------------------------------------------------------------
(* The steps of a flow.                                                    *)
LEMMA AliveIs ==
  ASSUME IInv, Alive
  PROVE  noticed = {} /\ "tm" \notin noticed
BY DEF IInv, Correct, Outside, Alive

(* Nobody has died, and who has asked the service manager still looks up.  *)
LEMMA OutsideIs ==
  ASSUME IInv, UNCHANGED <<run, noticed, level>>, group'.dequeues = group.dequeues,
         group'.held = group.held, group'.involved = group.involved,
         NEW f \in Flow, NEW e, flow' = [flow EXCEPT ![f] = e],
         \A x \in service'.asked : x # f \/ e.stage = "lookup",
         service'.asked \subseteq service.asked \cup {f}
  PROVE  Outside'
<1>1. flow \in [Flow -> Entry] /\ service.asked \subseteq Flow
  BY DEF IInv, Typed, Entry
<1>2. Outside
  BY DEF IInv, Correct
<1>3. \A x \in service'.asked : flow'[x].stage = "lookup"
  BY <1>1, <1>2 DEF Outside
<1>4. QED
  BY <1>2, <1>3 DEF Outside

(* What is taken out of the mail, in a step.                               *)
LEMMA HeardIs ==
  ASSUME IInv, NEW f \in Flow, NEW k \in MailKind, NEW m \in Carried,
         group' = [group EXCEPT !.mail = @ \ {Reply(k, f, m)}]
  PROVE  /\ Hears(group, group', f) /\ group'.registered = group.registered
         /\ Heard(f, group') = Where(f) \ {<<k, m>>}
<1>1. PICK w, u, I, V, P : /\ w = group /\ u = group' /\ I = ToSet(inbox)
                           /\ V = Whos(group.dequeues) /\ P = Where(f)
  OBVIOUS
<1>2. /\ w \in Group /\ P = Places(I, w.mail, V, ToSet(w.held), f)
      /\ u = Rid(w, Reply(k, f, m))
  BY <1>1 DEF IInv, Typed, Where, Rid
<1>3. /\ Hears(w, u, f) /\ u.registered = w.registered
      /\ Places(I, u.mail, V, ToSet(w.held), f) = P \ {<<k, m>>}
  BY <1>2, HearsIs
<1>4. QED
  BY <1>1, <1>3 DEF Heard

(* The forward receives a message: it looks up, enqueues or rolls back.    *)
LEMMA DequeueReplyCorrect ==
  ASSUME IInv, NEW f \in Flow, NEW m \in Message, DequeueReply(f, m)
  PROVE  IInv'
<1>1. /\ UNCHANGED <<level, consumer, noticed, run>> /\ Alive
      /\ Reply("dequeued", f, m) \in group.mail
      /\ group' = [group EXCEPT !.mail = @ \ {Reply("dequeued", f, m)}]
  BY DEF DequeueReply, Posted, Received, clientVars, Rollbacks, Enqueues, Transacts
<1>2. PICK Q : Q = Where(f) \ {<<"dequeued", m>>}
  OBVIOUS
<1>3. "dequeued" \in MailKind /\ m \in Carried /\ Nobody \in Carried /\ m # Nobody
  BY QueueAssumption DEF MailKind, Carried
<1>4. Hears(group, group', f) /\ group'.registered = group.registered /\ Heard(f, group') = Q
  BY <1>1, <1>2, <1>3, HeardIs
<1>5. PICK P, T, A, s, inv, reg, lv, nt :
        /\ P = Where(f) /\ T = Takes(group.db, f) /\ A = Adds(group.db, f) /\ s = flow[f]
        /\ inv = group.involved /\ reg = group.registered /\ lv = level /\ nt = noticed
  OBVIOUS
<1>6. Fits(f, P, T, A, s, inv, reg, lv, nt) /\ <<"dequeued", m>> \in P /\ "tm" \notin nt
  BY <1>1, <1>3, <1>5, WhereIs, AliveIs
<1>7. /\ s.stage = "dequeue" /\ <<"rollback", Nobody>> \notin P /\ <<"enqueue", m>> \notin P
      /\ Fits(f, Q, T, A, In("lookup", m), inv, reg, lv, nt)
      /\ Fits(f, Q \cup {<<"enqueue", m>>}, T, A, In("enqueue", m), inv, reg, lv, nt)
      /\ Fits(f, Q \cup {<<"rollback", Nobody>>}, T, A, In("rollback", Nobody), inv, reg, lv, nt)
  BY <1>2, <1>5, <1>6, FitsTold, SMTT(45)
<1>8. /\ In("lookup", m) \in Entry /\ In("enqueue", m) \in Entry /\ In("rollback", Nobody) \in Entry
      /\ In("lookup", m).stage = "lookup"
  BY <1>3 DEF In, Entry, Stage
<1>9. service \in Lookups /\ f \notin service.asked
  BY <1>5, <1>7 DEF IInv, Typed, Correct, Outside, Lookups
<1>10. group'.dequeues = group.dequeues /\ group'.held = group.held /\ group'.involved = group.involved
  BY <1>4 DEF Hears
<1>11. CASE Rollbacks(Received(Reply("dequeued", f, m)), f) /\ UNCHANGED service
  <2>1. /\ inbox' = Append(inbox, To("rollback", f, Nobody))
        /\ flow' = [flow EXCEPT ![f] = In("rollback", Nobody)]
    BY <1>11 DEF Rollbacks, Transacts
  <2>2. Outside'
    BY <1>1, <1>9, <1>10, <1>11, <2>1, OutsideIs
  <2>3. "rollback" \in LetterKind /\ To("rollback", f, Nobody) \in Letter
    BY LettersAre DEF LetterKind
  <2>4. QED
    BY <1>1, <1>3, <1>4, <1>5, <1>7, <1>8, <1>9, <1>11, <2>1, <2>2, <2>3, AskedCorrect
<1>12. CASE Enqueues(Received(Reply("dequeued", f, m)), f, m) /\ UNCHANGED service
  <2>1. inbox' = Append(inbox, To("enqueue", f, m)) /\ flow' = [flow EXCEPT ![f] = In("enqueue", m)]
    BY <1>12 DEF Enqueues
  <2>2. Outside'
    BY <1>1, <1>9, <1>10, <1>12, <2>1, OutsideIs
  <2>3. "enqueue" \in LetterKind /\ To("enqueue", f, m) \in Letter
    BY LettersAre DEF LetterKind
  <2>4. QED
    BY <1>1, <1>3, <1>4, <1>5, <1>7, <1>8, <1>9, <1>12, <2>1, <2>2, <2>3, AskedCorrect
<1>13. CASE /\ flow' = [flow EXCEPT ![f] = In("lookup", m)] /\ UNCHANGED inbox
            /\ service' = [service EXCEPT !.asked = @ \cup {f}, !.discards = @ \ {f}]
  <2>1. service' \in Lookups /\ service'.asked = service.asked \cup {f}
    BY <1>9, <1>13 DEF Lookups
  <2>2. Outside'
    BY <1>1, <1>8, <1>10, <1>13, <2>1, OutsideIs
  <2>3. QED
    BY <1>1, <1>4, <1>5, <1>7, <1>8, <1>13, <2>1, <2>2, QuietCorrect
<1>14. QED
  BY <1>11, <1>12, <1>13, Zenon DEF DequeueReply

(* The forward hears that the message was enqueued: it commits.            *)
LEMMA EnqueueReplyCorrect ==
  ASSUME IInv, NEW f \in Flow, NEW m \in Message, EnqueueReply(f, m)
  PROVE  IInv'
<1>1. /\ UNCHANGED <<level, consumer, noticed, run, service>> /\ Alive
      /\ Reply("enqueued", f, m) \in group.mail
      /\ group' = [group EXCEPT !.mail = @ \ {Reply("enqueued", f, m)}]
      /\ flow' = [flow EXCEPT ![f] = In("commit", Nobody)]
  BY DEF EnqueueReply, Posted, Received, clientVars, Commits, Transacts
<1>2. PICK k \in {"commit", "prepare"} : inbox' = Append(inbox, To(k, f, Nobody))
  BY DEF EnqueueReply, Commits, Transacts
<1>3. "enqueued" \in MailKind /\ m \in Carried /\ Nobody \in Carried
  BY DEF MailKind, Carried
<1>4. PICK Q : Q = Where(f) \ {<<"enqueued", m>>}
  OBVIOUS
<1>5. Hears(group, group', f) /\ group'.registered = group.registered /\ Heard(f, group') = Q
  BY <1>1, <1>3, <1>4, HeardIs
<1>6. PICK P, T, A, s, inv, reg, lv, nt :
        /\ P = Where(f) /\ T = Takes(group.db, f) /\ A = Adds(group.db, f) /\ s = flow[f]
        /\ inv = group.involved /\ reg = group.registered /\ lv = level /\ nt = noticed
  OBVIOUS
<1>7. Fits(f, P, T, A, s, inv, reg, lv, nt) /\ <<"enqueued", m>> \in P /\ "tm" \notin nt
  BY <1>1, <1>3, <1>6, WhereIs, AliveIs
<1>8. /\ s.stage = "enqueue" /\ <<k, Nobody>> \notin P
      /\ Fits(f, Q \cup {<<k, Nobody>>}, T, A, In("commit", Nobody), inv, reg, lv, nt)
  BY <1>4, <1>6, <1>7, FitsAdded
<1>9. In("commit", Nobody) \in Entry
  BY <1>3 DEF In, Entry, Stage
<1>10. service \in Lookups /\ f \notin service.asked
  BY <1>6, <1>8 DEF IInv, Typed, Correct, Outside, Lookups
<1>11. group'.dequeues = group.dequeues /\ group'.held = group.held /\ group'.involved = group.involved
  BY <1>5 DEF Hears
<1>12. Outside'
  BY <1>1, <1>10, <1>11, OutsideIs
<1>13. k \in LetterKind /\ To(k, f, Nobody) \in Letter /\ k # "enqueue" /\ k # "dequeue"
  BY LettersAre DEF LetterKind
<1>14. QED
  BY <1>1, <1>2, <1>3, <1>5, <1>6, <1>8, <1>9, <1>10, <1>12, <1>13, AskedCorrect

(* The forward hears that its dequeue was forgotten.                       *)
LEMMA ForgottenCorrect ==
  ASSUME IInv, NEW f \in Flow, Forgotten(f)
  PROVE  IInv'
<1>1. /\ UNCHANGED <<inbox, level, consumer, noticed, run, service>>
      /\ Reply("forgotten", f, Nobody) \in group.mail
      /\ group' = [group EXCEPT !.mail = @ \ {Reply("forgotten", f, Nobody)}]
  BY DEF Forgotten, Posted, Received, clientVars
<1>2. "forgotten" \in MailKind /\ Nobody \in Carried
  BY DEF MailKind, Carried
<1>3. PICK Q : Q = Where(f) \ {<<"forgotten", Nobody>>}
  OBVIOUS
<1>4. Hears(group, group', f) /\ group'.registered = group.registered /\ Heard(f, group') = Q
  BY <1>1, <1>2, <1>3, HeardIs
<1>5. PICK P, T, A, s, inv, reg, lv, nt :
        /\ P = Where(f) /\ T = Takes(group.db, f) /\ A = Adds(group.db, f) /\ s = flow[f]
        /\ inv = group.involved /\ reg = group.registered /\ lv = level /\ nt = noticed
  OBVIOUS
<1>6. Fits(f, P, T, A, s, inv, reg, lv, nt) /\ <<"forgotten", Nobody>> \in P /\ s \in Entry
  BY <1>1, <1>2, <1>5, WhereIs
<1>7. /\ s.stage \in {"idle", "dequeue"} /\ Fits(f, Q, T, A, s, inv, reg, lv, nt)
      /\ Fits(f, Q, T, A, In("idle", Nobody), inv, reg, lv, nt)
  BY <1>3, <1>5, <1>6, FitsForgotten
<1>8. In("idle", Nobody) \in Entry
  BY <1>2 DEF In, Entry, Stage
<1>9. service \in Lookups /\ f \notin service.asked
  BY <1>5, <1>7 DEF IInv, Typed, Correct, Outside, Lookups
<1>10. group'.dequeues = group.dequeues /\ group'.held = group.held /\ group'.involved = group.involved
  BY <1>4 DEF Hears
<1>11. PICK e \in Entry : /\ flow' = [flow EXCEPT ![f] = e]
                          /\ Fits(f, Q, T, A, e, inv, reg, lv, nt)
  <2>1. CASE flow' = [flow EXCEPT ![f] = In("idle", Nobody)]
    BY <1>7, <1>8, <2>1
  <2>2. CASE flow' = flow
    <3>1. flow' = [flow EXCEPT ![f] = s]
      BY <1>5, <2>2 DEF IInv, Typed
    <3>2. QED
      BY <1>6, <1>7, <3>1
  <2>3. QED
    BY <2>1, <2>2 DEF Forgotten
<1>12. Outside'
  BY <1>1, <1>9, <1>10, <1>11, OutsideIs
<1>13. QED
  BY <1>1, <1>4, <1>5, <1>9, <1>11, <1>12, QuietCorrect

(* The service manager, and the server, have answered.                     *)
LEMMA LooksCorrect ==
  ASSUME IInv, NEW f \in Flow, Alive, flow[f].stage \in {"lookup", "call"},
         UNCHANGED <<level, consumer, noticed, run>>, service' \in Lookups,
         service'.asked \subseteq service.asked \ {f},
         \/ UNCHANGED <<group, inbox>> /\ flow' = [flow EXCEPT ![f] = In("call", flow[f].msg)]
         \/ Enqueues(group, f, flow[f].msg) \/ Rollbacks(group, f)
  PROVE  IInv'
<1>1. UNCHANGED group
  BY DEF Enqueues, Rollbacks, Transacts
<1>2. Hears(group, group', f) /\ Heard(f, group') = Where(f)
  BY <1>1, HearsSame DEF IInv, Typed, Heard, Where
<1>3. PICK P, T, A, s, inv, reg, lv, nt :
        /\ P = Where(f) /\ T = Takes(group.db, f) /\ A = Adds(group.db, f) /\ s = flow[f]
        /\ inv = group.involved /\ reg = group.registered /\ lv = level /\ nt = noticed
  OBVIOUS
<1>4. Fits(f, P, T, A, s, inv, reg, lv, nt) /\ "tm" \notin nt
  BY <1>3, WhereIs, AliveIs
<1>5. PICK m \in Message : m = s.msg
  BY <1>3, <1>4, FitsLooks
<1>6. /\ P = {}
      /\ Fits(f, P, T, A, In("call", m), inv, reg, lv, nt)
      /\ Fits(f, P \cup {<<"enqueue", m>>}, T, A, In("enqueue", m), inv, reg, lv, nt)
      /\ Fits(f, P \cup {<<"rollback", Nobody>>}, T, A, In("rollback", Nobody), inv, reg, lv, nt)
  BY <1>3, <1>4, <1>5, FitsLooks
<1>7. m \in Carried /\ Nobody \in Carried
  BY DEF Carried
<1>8. In("call", m) \in Entry /\ In("enqueue", m) \in Entry /\ In("rollback", Nobody) \in Entry
  BY <1>7 DEF In, Entry, Stage
<1>9. ASSUME NEW e, flow' = [flow EXCEPT ![f] = e]
      PROVE  Outside'
  BY <1>1, <1>9, OutsideIs
<1>10. CASE UNCHANGED inbox /\ flow' = [flow EXCEPT ![f] = In("call", m)]
  BY <1>1, <1>2, <1>3, <1>6, <1>8, <1>9, <1>10, QuietCorrect
<1>11. CASE Enqueues(group, f, m)
  <2>1. inbox' = Append(inbox, To("enqueue", f, m)) /\ flow' = [flow EXCEPT ![f] = In("enqueue", m)]
    BY <1>11 DEF Enqueues
  <2>2. "enqueue" \in LetterKind /\ To("enqueue", f, m) \in Letter /\ <<"enqueue", m>> \notin P
        /\ <<"rollback", Nobody>> \notin P
    BY <1>6, LettersAre DEF LetterKind
  <2>3. Outside'
    BY <1>9, <2>1
  <2>4. QED
    BY <1>1, <1>2, <1>3, <1>6, <1>7, <1>8, <2>1, <2>2, <2>3, AskedCorrect
<1>12. CASE Rollbacks(group, f)
  <2>1. /\ inbox' = Append(inbox, To("rollback", f, Nobody))
        /\ flow' = [flow EXCEPT ![f] = In("rollback", Nobody)]
    BY <1>12 DEF Rollbacks, Transacts
  <2>2. "rollback" \in LetterKind /\ To("rollback", f, Nobody) \in Letter
        /\ <<"rollback", Nobody>> \notin P
    BY <1>6, LettersAre DEF LetterKind
  <2>3. Outside'
    BY <1>9, <2>1
  <2>4. QED
    BY <1>1, <1>2, <1>3, <1>6, <1>7, <1>8, <2>1, <2>2, <2>3, AskedCorrect
<1>13. QED
  BY <1>3, <1>5, <1>10, <1>11, <1>12

(* The service manager and the service answer.                             *)
LEMMA ServiceCorrect ==
  ASSUME IInv, NEW f \in Flow, ServiceReply(f) \/ ServiceDiscard(f) \/ CallReply(f)
  PROVE  IInv'
<1>1. /\ UNCHANGED <<level, consumer, noticed, run>> /\ Alive
      /\ noticed # {} => run = "dead"
  BY DEF ServiceReply, ServiceDiscard, CallReply, clientVars, IInv, Correct, Outside
<1>2. /\ \A x \in service.asked : flow[x].stage = "lookup"
      /\ service \in [asked : SUBSET Flow, discards : SUBSET Flow]
      /\ flow[f] \in [stage : Stage, msg : Carried] /\ flow \in [Flow -> Entry]
  BY DEF IInv, Typed, Correct, Outside, Entry
<1>3. CASE ServiceReply(f)
  <2>1. service' = [service EXCEPT !.asked = @ \ {f}] /\ f \in service.asked
    BY <1>3 DEF ServiceReply
  <2>2. service' \in Lookups /\ service'.asked \subseteq service.asked \ {f}
    BY <1>2, <2>1 DEF Lookups
  <2>3. \/ UNCHANGED <<group, inbox>> /\ flow' = [flow EXCEPT ![f] = In("call", flow[f].msg)]
        \/ Rollbacks(group, f)
    <3>1. [flow EXCEPT ![f].stage = "call"] = [flow EXCEPT ![f] = In("call", flow[f].msg)]
      <4>1. [flow[f] EXCEPT !.stage = "call"] = In("call", flow[f].msg)
        BY <1>2 DEF In
      <4>2. QED
        BY <4>1
    <3>2. QED
      BY <1>3, <3>1 DEF ServiceReply
  <2>4. QED
    BY <1>1, <1>2, <2>1, <2>2, <2>3, LooksCorrect
<1>4. CASE CallReply(f)
  <2>1. flow[f].stage = "call" /\ service' = service
    BY <1>4 DEF CallReply
  <2>2. service' \in Lookups /\ service'.asked \subseteq service.asked \ {f}
    BY <1>2, <2>1 DEF Lookups
  <2>3. Enqueues(group, f, flow[f].msg) \/ Rollbacks(group, f)
    BY <1>4 DEF CallReply
  <2>4. QED
    BY <1>1, <2>1, <2>2, <2>3, LooksCorrect
<1>5. CASE ServiceDiscard(f)
  <2>1. service' = [service EXCEPT !.asked = @ \ {f}, !.discards = @ \ {f}]
    BY <1>5 DEF ServiceDiscard
  <2>2. service' \in Lookups /\ service'.asked \subseteq service.asked \ {f}
    BY <1>2, <2>1 DEF Lookups
  <2>3. CASE f \in service.asked /\ Rollbacks(group, f)
    BY <1>1, <1>2, <2>2, <2>3, LooksCorrect
  <2>4. CASE f \notin service.asked /\ UNCHANGED <<group, inbox, flow>>
    <3>1. service'.asked = service.asked
      BY <1>2, <2>1, <2>4
    <3>2. PICK ib, cs : ib = inbox /\ cs = consumer
      OBVIOUS
    <3>3. PICK s \in Seq(Letter) : ib = ib \o s /\ ToSet(s) = {} /\ Joins(s, ib) /\ Spares(s, cs, cs)
      BY <3>2, JoinsNone DEF IInv, Typed
    <3>4. Aside(ToSet(ib), ToSet(ib)) /\ ToSet(ib) \cup ToSet(s) = ToSet(ib)
      BY <3>3, AsideIs
    <3>5. Correct' /\ inbox' \in Seq(Letter)
      BY <1>1, <2>4, <3>1, <3>2, <3>3, <3>4, AsideCorrect DEF IInv
    <3>6. QED
      BY <1>1, <2>2, <2>4, <3>5 DEF IInv, Typed, Lookups
  <2>5. QED
    BY <1>5, <2>3, <2>4 DEF ServiceDiscard
<1>6. QED
  BY <1>3, <1>4, <1>5
-----------------------------------------------------------------------------
(* The transaction manager.                                                *)
LEMMA TmDecidesCorrect ==
  ASSUME IInv, NEW f \in Flow, TmDecides(f)
  PROVE  IInv'
<1>1. /\ UNCHANGED <<level, consumer, noticed, run, service, flow>>
      /\ Reply("prepared", f, Nobody) \in group.mail
      /\ group' = [group EXCEPT !.mail = @ \ {Reply("prepared", f, Nobody)}]
  BY DEF TmDecides, Posted, Received, clientVars, forwardVars
<1>2. PICK k \in {"commit", "rollback"} : inbox' = Append(inbox, To(k, f, Nobody))
  BY DEF TmDecides
<1>3. "prepared" \in MailKind /\ Nobody \in Carried
  BY DEF MailKind, Carried
<1>4. PICK Q : Q = Where(f) \ {<<"prepared", Nobody>>}
  OBVIOUS
<1>5. Hears(group, group', f) /\ group'.registered = group.registered /\ Heard(f, group') = Q
  BY <1>1, <1>3, <1>4, HeardIs
<1>6. PICK P, T, A, s, inv, reg, lv, nt :
        /\ P = Where(f) /\ T = Takes(group.db, f) /\ A = Adds(group.db, f) /\ s = flow[f]
        /\ inv = group.involved /\ reg = group.registered /\ lv = level /\ nt = noticed
  OBVIOUS
<1>7. Fits(f, P, T, A, s, inv, reg, lv, nt) /\ <<"prepared", Nobody>> \in P /\ s \in Entry
  BY <1>1, <1>3, <1>6, WhereIs
<1>8. <<k, Nobody>> \notin P /\ Fits(f, Q \cup {<<k, Nobody>>}, T, A, s, inv, reg, lv, nt)
  BY <1>4, <1>6, <1>7, FitsDecides
<1>9. service \in Lookups /\ flow' = [flow EXCEPT ![f] = s]
  BY <1>1, <1>6 DEF IInv, Typed, Lookups
<1>10. group'.dequeues = group.dequeues /\ group'.held = group.held /\ group'.involved = group.involved
  BY <1>5 DEF Hears
<1>11. Outside'
  BY <1>1, <1>10 DEF IInv, Correct, Outside
<1>12. k \in LetterKind /\ To(k, f, Nobody) \in Letter /\ k # "enqueue" /\ k # "dequeue"
  BY LettersAre DEF LetterKind
<1>13. QED
  BY <1>1, <1>2, <1>3, <1>5, <1>6, <1>7, <1>8, <1>9, <1>11, <1>12, AskedCorrect

(* The transaction has ended, and the forward is told.                     *)
LEMMA TmEndsCorrect ==
  ASSUME IInv, NEW f \in Flow, TmEnds(f)
  PROVE  IInv'
<1>1. /\ UNCHANGED <<inbox, level, consumer, noticed, run, service, flow>>
      /\ Reply("xa", f, Nobody) \in group.mail
      /\ group' = Sent([Received(Reply("xa", f, Nobody)) EXCEPT !.registered = @ \ {f}],
                       Reply("ended", f, Nobody))
  BY DEF TmEnds, Posted, clientVars, forwardVars
<1>2. "xa" \in MailKind /\ "ended" \in MailKind /\ Nobody \in Carried
  BY DEF MailKind, Carried
<1>3. PICK w, u, r, q, M, N, O, I, V, H :
        /\ w = group /\ u = group' /\ r = Reply("xa", f, Nobody) /\ q = Reply("ended", f, Nobody)
        /\ M = w.mail /\ N = M \ {r} /\ O = N \cup {q} /\ I = ToSet(inbox)
        /\ V = Whos(w.dequeues) /\ H = ToSet(w.held)
  OBVIOUS
<1>4. w \in Group /\ q \in Mail
  BY <1>3 DEF IInv, Typed, Reply, Mail, MailKind, Who
<1>5. /\ u \in Group /\ u.db = w.db /\ u.disk = w.disk /\ u.held = w.held /\ u.mail = O
      /\ u.dequeues = w.dequeues /\ u.involved = w.involved
      /\ u.registered = w.registered \ {f}
  BY <1>1, <1>3, <1>4 DEF Group, Sent, Received
<1>6. Hears(w, u, f)
  <2>1. OwnMail(M, N, f) /\ OwnMail(N, O, f)
    BY <1>3, OwnIs
  <2>2. OwnMail(M, O, f)
    BY <2>1 DEF OwnMail
  <2>3. OwnSet(w.registered, u.registered, f)
    BY <1>5, OwnIs
  <2>4. r \notin O
    BY <1>3, ReplyIs
  <2>5. QED
    BY <1>3, <1>5, <2>2, <2>3, <2>4 DEF Hears
<1>7. PICK P, T, A, s, inv, reg, jr, lv, nt :
        /\ P = Where(f) /\ T = Takes(group.db, f) /\ A = Adds(group.db, f) /\ s = flow[f]
        /\ inv = group.involved /\ reg = group.registered /\ jr = u.registered
        /\ lv = level /\ nt = noticed
  OBVIOUS
<1>8. Fits(f, P, T, A, s, inv, reg, lv, nt) /\ <<"xa", Nobody>> \in P /\ s \in Entry
  BY <1>1, <1>2, <1>7, WhereIs
<1>9. PICK Q : Q = (P \ {<<"xa", Nobody>>}) \cup {<<"ended", Nobody>>}
  OBVIOUS
<1>10. Fits(f, Q, T, A, s, inv, jr, lv, nt)
  BY <1>3, <1>5, <1>7, <1>8, <1>9, FitsEnds
<1>11. Heard(f, group') = Q
  <2>1. P = Places(I, M, V, H, f)
    BY <1>3, <1>7 DEF Where
  <2>2. Places(I, N, V, H, f) = Places(I, M, V, H, f) \ {<<"xa", Nobody>>}
    BY <1>2, <1>3, MailOut
  <2>3. Places(I, O, V, H, f) = Places(I, N, V, H, f) \cup {<<"ended", Nobody>>}
    BY <1>2, <1>3, MailIn
  <2>4. QED
    BY <1>3, <1>5, <1>9, <2>1, <2>2, <2>3 DEF Heard
<1>12. service \in Lookups /\ flow' = [flow EXCEPT ![f] = s]
  BY <1>1, <1>7 DEF IInv, Typed, Lookups
<1>13. Outside'
  BY <1>1, <1>3, <1>5 DEF IInv, Correct, Outside
<1>14. QED
  BY <1>1, <1>3, <1>6, <1>7, <1>8, <1>10, <1>11, <1>12, <1>13, QuietCorrect
-----------------------------------------------------------------------------
(* A letter for each flow in S.                                            *)
Sends(I, k, S) == I \cup {To(k, f, Nobody) : f \in S}

(* Each flow of the set has its letter on the way.                         *)
LEMMA SendsPlaces ==
  ASSUME NEW I, NEW M, NEW V, NEW H, NEW f \in Flow, NEW k \in LetterKind, NEW S, f \in S,
         NEW J, J = Sends(I, k, S)
  PROVE  Places(J, M, V, H, f) = Places(I, M, V, H, f) \cup {<<k, Nobody>>}
<1>1. PICK K : K = I \cup {To(k, f, Nobody)}
  OBVIOUS
<1>2. Nobody \in Carried
  BY DEF Carried
<1>3. Places(K, M, V, H, f) = Places(I, M, V, H, f) \cup {<<k, Nobody>>}
  <2>1. Places(I \cup {To(k, f, Nobody)}, M, V, H, f) = Places(I, M, V, H, f) \cup {<<k, Nobody>>}
    BY <1>2, LetterIn
  <2>2. QED
    BY <1>1, <2>1
<1>4. \A j \in LetterKind, n \in Carried : To(j, f, n) \in J <=> To(j, f, n) \in K
  BY <1>1, ToIs DEF Sends
<1>5. Places(J, M, V, H, f) = Places(K, M, V, H, f)
  BY <1>4, PlacesSame
<1>6. QED
  BY <1>3, <1>5

(* The letters of other flows leave a flow where it is.                    *)
LEMMA SparesPlaces ==
  ASSUME NEW I, NEW M, NEW V, NEW H, NEW f \in Flow, NEW k \in LetterKind, NEW S, f \notin S,
         NEW J, J = Sends(I, k, S)
  PROVE  Places(J, M, V, H, f) = Places(I, M, V, H, f)
<1>1. \A j \in LetterKind, n \in Carried : To(j, f, n) \in J <=> To(j, f, n) \in I
  BY ToIs DEF Sends
<1>2. QED
  BY <1>1, PlacesSame

(* Letters of flows tell nothing of a producer's message.                  *)
LEMMA ManySound ==
  ASSUME NEW w, NEW I, NEW V, NEW fl, NEW lv, NEW nt, Sound(w, I, V, fl, lv, nt),
         NEW k \in LetterKind, k # "enqueue", NEW S \in SUBSET Flow, NEW J, J = Sends(I, k, S),
         NEW gl, NEW jt, \A f \in Flow : FlowFits(w, J, V, f, gl[f], lv, jt)
  PROVE  Sound(w, J, V, gl, lv, jt)
<1>1. ASSUME NEW m \in Message
      PROVE  Known(w, J, m)
  <2>1. Known(w, I, m)
    BY DEF Sound
  <2>2. To("enqueue", m, m) \in J => To("enqueue", m, m) \in I
    BY ToIs DEF Sends
  <2>3. QED
    BY <2>1, <2>2 DEF Known
<1>2. QED
  BY <1>1 DEF Sound

(* Flows that are idle begin: their dequeues are sent.                     *)
LEMMA BegunSound ==
  ASSUME NEW w, NEW I, NEW V, NEW fl, NEW lv, NEW nt, Sound(w, I, V, fl, lv, nt),
         NEW S \in SUBSET Flow, \A f \in S : fl[f].stage = "idle", S = {} \/ lv # "gone",
         NEW J, J = Sends(I, "dequeue", S), NEW gl, gl = Begun(fl, S)
  PROVE  Sound(w, J, V, gl, lv, nt) /\ \A f \in S : To("dequeue", f, Nobody) \notin I
<1>0. PICK M, H : M = w.mail /\ H = ToSet(w.held)
  OBVIOUS
<1>1. PICK k \in LetterKind : k = "dequeue"
  BY DEF LetterKind
<1>2. ASSUME NEW f \in Flow, f \in S
      PROVE  FlowFits(w, J, V, f, gl[f], lv, nt) /\ To("dequeue", f, Nobody) \notin I
  <2>1. PICK P, T, A, s : /\ At(f, w, I, V, fl, P, T, A, s)
                          /\ Fits(f, P, T, A, s, w.involved, w.registered, lv, nt)
    BY AtIs
  <2>2. s.stage = "idle" /\ lv # "gone" /\ P = Places(I, M, V, H, f)
    BY <1>0, <1>1, <1>2, <2>1 DEF At
  <2>3. P = {} /\ T = {} /\ A = {} /\ f \notin w.involved /\ f \notin w.registered
    BY <2>1, <2>2 DEF Fits, Resting, Moving, Closed, Orphan
  <2>4. J = Sends(I, k, S)
    BY <1>0, <1>1
  <2>5. Places(J, M, V, H, f) = P \cup {<<k, Nobody>>}
    BY <1>2, <2>2, <2>4, SendsPlaces
  <2>6. gl[f] = In("dequeue", Nobody) /\ In("dequeue", Nobody).stage = "dequeue"
    BY <1>2 DEF Begun, In
  <2>7. PICK K : K = Places(J, M, V, H, f)
    OBVIOUS
  <2>8. K = {<<"dequeue", Nobody>>}
    BY <1>0, <1>1, <2>3, <2>5, <2>7
  <2>9. Fits(f, K, T, A, gl[f], w.involved, w.registered, lv, nt)
    BY <2>3, <2>6, <2>8 DEF Fits, Resting
  <2>10. FlowFits(w, J, V, f, gl[f], lv, nt)
    BY <1>0, <1>1, <2>1, <2>7, <2>9 DEF FlowFits, At
  <2>11. Nobody \in Carried
    BY DEF Carried
  <2>12. <<k, Nobody>> \in Places(I, M, V, H, f) <=> To(k, f, Nobody) \in I
    BY <2>11, PlaceIs
  <2>13. QED
    BY <1>0, <1>1, <2>2, <2>3, <2>10, <2>12
<1>3. ASSUME NEW f \in Flow, f \notin S
      PROVE  FlowFits(w, J, V, f, gl[f], lv, nt)
  <2>1. J = Sends(I, k, S)
    BY <1>0, <1>1
  <2>2. Places(J, M, V, H, f) = Places(I, M, V, H, f)
    BY <1>3, <2>1, SparesPlaces
  <2>3. gl[f] = fl[f]
    BY <1>3 DEF Begun
  <2>4. FlowFits(w, I, V, f, fl[f], lv, nt)
    BY DEF Sound
  <2>5. QED
    BY <1>0, <1>1, <2>2, <2>3, <2>4 DEF FlowFits
<1>4. Sound(w, J, V, gl, lv, nt)
  <2>1. \A f \in Flow : FlowFits(w, J, V, f, gl[f], lv, nt)
    BY <1>2, <1>3
  <2>2. J = Sends(I, k, S) /\ k # "enqueue"
    BY <1>0, <1>1
  <2>3. QED
    BY <2>1, <2>2, ManySound
<1>5. QED
  BY <1>2, <1>4

(* The group has ended: its dequeues are lost.                             *)
LEMMA LostSound ==
  ASSUME NEW w, NEW I, NEW V, V = {}, NEW fl, NEW nt, "tm" \notin nt, NEW lv, lv = "gone",
         Sound(w, I, V, fl, lv, nt), w.involved = {},
         NEW gl, gl = [f \in Flow |-> IF fl[f].stage = "dequeue" THEN In("idle", Nobody) ELSE fl[f]]
  PROVE  Sound(w, I, V, gl, lv, nt)
<1>1. ASSUME NEW f \in Flow
      PROVE  FlowFits(w, I, V, f, gl[f], lv, nt)
  <2>1. PICK P, T, A, s : /\ At(f, w, I, V, fl, P, T, A, s)
                          /\ Fits(f, P, T, A, s, w.involved, w.registered, lv, nt)
    BY AtIs
  <2>2. gl[f] = IF s.stage = "dequeue" THEN In("idle", Nobody) ELSE s
    BY <2>1 DEF At
  <2>3. CASE s.stage = "dequeue"
    <3>1. <<"waits", Nobody>> \notin P
      <4>1. PICK M, H : M = w.mail /\ H = ToSet(w.held)
        OBVIOUS
      <4>2. P = Places(I, M, V, H, f) /\ Nobody \in Carried
        BY <2>1, <4>1 DEF At, Carried
      <4>3. <<"waits", Nobody>> \in Places(I, M, V, H, f) <=> f \in V
        BY <4>2, PlaceIs
      <4>4. QED
        BY <4>2, <4>3
    <3>2. gl[f].stage = "idle"
      BY <2>2, <2>3 DEF In
    <3>3. Resting(f, P, T, A, s, w.involved, w.registered, lv)
      BY <2>1, <2>3 DEF Fits, Moving, Closed, Orphan
    <3>4. Resting(f, P, T, A, gl[f], w.involved, w.registered, lv)
      BY <2>3, <3>1, <3>2, <3>3 DEF Resting
    <3>5. QED
      BY <2>1, <3>4 DEF Fits, FlowFits, At
  <2>4. CASE s.stage # "dequeue"
    BY <2>1, <2>2, <2>4 DEF FlowFits, At
  <2>5. QED
    BY <2>3, <2>4
<1>2. QED
  BY <1>1 DEF Sound

(* The transaction manager rolls back what the forward owned.              *)
LEMMA OrphanedSound ==
  ASSUME NEW w, NEW I, NEW V, NEW fl, NEW lv, NEW nt, "tm" \notin nt, Sound(w, I, V, fl, lv, nt),
         NEW S, S = {f \in w.registered : fl[f].stage \notin {"commit", "rollback"}},
         w.registered \subseteq Flow, NEW J, J = Sends(I, "rollback", S),
         NEW jt, jt = nt \cup {"tm"}
  PROVE  Sound(w, J, V, fl, lv, jt) /\ \A f \in S : To("rollback", f, Nobody) \notin I
<1>0. PICK M, H : M = w.mail /\ H = ToSet(w.held)
  OBVIOUS
<1>1. PICK k \in LetterKind : k = "rollback"
  BY DEF LetterKind
<1>2. J = Sends(I, k, S) /\ S \in SUBSET Flow
  BY <1>0, <1>1
<1>3. ASSUME NEW f \in Flow, f \in S
      PROVE  FlowFits(w, J, V, f, fl[f], lv, jt) /\ To("rollback", f, Nobody) \notin I
  <2>1. PICK P, T, A, s : /\ At(f, w, I, V, fl, P, T, A, s)
                          /\ Fits(f, P, T, A, s, w.involved, w.registered, lv, nt)
    BY AtIs
  <2>2. s.stage \notin {"commit", "rollback"} /\ f \in w.registered /\ P = Places(I, M, V, H, f)
    BY <1>0, <1>1, <1>3, <2>1 DEF At
  <2>3. PICK m \in Message : Moving(f, P, T, A, s, w.involved, w.registered, m)
    BY <2>1, <2>2 DEF Fits, Resting, Closed, Orphan
  <2>4. /\ T = {m} /\ f \in w.involved /\ s.stage \in {"dequeue", "lookup", "call", "enqueue"}
        /\ \/ A = {} /\ (P = {<<"dequeued", m>>} \/ P = {} \/ P = {<<"enqueue", m>>})
           \/ A = {m} /\ P = {<<"enqueued", m>>}
    BY <2>2, <2>3 DEF Moving
  <2>5. <<"rollback", Nobody>> \notin P
    BY <2>4
  <2>6. PICK K : K = Places(J, M, V, H, f)
    OBVIOUS
  <2>7. K = P \cup {<<"rollback", Nobody>>}
    <3>1. J = Sends(I, k, S) /\ f \in S /\ f \in Flow /\ k \in LetterKind
      BY <1>2, <1>3
    <3>2. PICK B : B = Places(I, M, V, H, f)
      OBVIOUS
    <3>4. Places(J, M, V, H, f) = B \cup {<<k, Nobody>>}
      BY ONLY <3>1, <3>2, SendsPlaces
    <3>3. QED
      BY <1>0, <1>1, <2>2, <2>6, <3>2, <3>4
  <2>8. \/ A = {} /\ K = {<<"rollback", Nobody>>, <<"enqueue", m>>}
        \/ (A = {} \/ A = {m}) /\ Ignored(<<"rollback", Nobody>>, K, m)
    BY <2>4, <2>7 DEF Ignored
  <2>9. Orphan(f, K, T, A, s, w.involved, jt, m)
    BY <2>4, <2>8 DEF Orphan
  <2>10. FlowFits(w, J, V, f, fl[f], lv, jt)
    BY <1>0, <1>1, <2>1, <2>6, <2>9 DEF FlowFits, At, Fits
  <2>11. Nobody \in Carried
    BY DEF Carried
  <2>12. <<k, Nobody>> \in Places(I, M, V, H, f) <=> To(k, f, Nobody) \in I
    BY <2>11, PlaceIs
  <2>13. QED
    BY <1>0, <1>1, <2>2, <2>5, <2>10, <2>12
<1>4. ASSUME NEW f \in Flow, f \notin S
      PROVE  FlowFits(w, J, V, f, fl[f], lv, jt)
  <2>1. PICK P, T, A, s : /\ At(f, w, I, V, fl, P, T, A, s)
                          /\ Fits(f, P, T, A, s, w.involved, w.registered, lv, nt)
    BY AtIs
  <2>2. Places(J, M, V, H, f) = P
    <3>1. Places(J, M, V, H, f) = Places(I, M, V, H, f)
      BY <1>2, <1>4, SparesPlaces
    <3>2. QED
      BY <1>0, <1>1, <2>1, <3>1 DEF At
  <2>3. PICK inv, reg : inv = w.involved /\ reg = w.registered
    OBVIOUS
  <2>4. "tm" \in nt => "tm" \in jt
    OBVIOUS
  <2>5. Fits(f, P, T, A, s, inv, reg, lv, jt)
    BY <2>1, <2>3, <2>4, FitsSame
  <2>6. QED
    BY <1>0, <1>1, <2>1, <2>2, <2>3, <2>5 DEF FlowFits, At
<1>5. Sound(w, J, V, fl, lv, jt)
  <2>1. \A f \in Flow : FlowFits(w, J, V, f, fl[f], lv, jt)
    BY <1>3, <1>4
  <2>2. k # "enqueue"
    BY <1>0, <1>1
  <2>3. QED
    BY <1>2, <2>1, <2>2, ManySound
<1>6. QED
  BY <1>2, <1>3, <1>5
-----------------------------------------------------------------------------
(* The steps of many flows.                                                *)
LEMMA SourceDeadCorrect ==
  ASSUME IInv, SourceDead
  PROVE  IInv'
<1>1. /\ UNCHANGED <<inbox, group, level, consumer, noticed, run, service>> /\ level = "gone"
      /\ Alive
      /\ flow' = [f \in Flow |-> IF f \in {x \in Flow : flow[x].stage = "dequeue"}
                                 THEN In("idle", Nobody) ELSE flow[f]]
  BY DEF SourceDead, clientVars, groupVars
<1>2. PICK w, I, V, fl, gl, lv, nt : /\ w = group /\ I = ToSet(inbox) /\ V = Whos(group.dequeues)
                                     /\ fl = flow /\ gl = flow' /\ lv = level /\ nt = noticed
  OBVIOUS
<1>3. gl = [f \in Flow |-> IF fl[f].stage = "dequeue" THEN In("idle", Nobody) ELSE fl[f]]
  BY <1>1, <1>2
<1>4. Sound(w, I, V, fl, lv, nt) /\ w.dequeues = <<>> /\ w.involved = {} /\ lv = "gone"
  BY <1>1, <1>2 DEF IInv, Correct, Outside
<1>5. V = {} /\ "tm" \notin nt
  <2>1. DOMAIN <<>> = {}
    OBVIOUS
  <2>2. QED
    BY <1>1, <1>2, <1>4, <2>1, AliveIs DEF Whos
<1>6. Sound(w, I, V, gl, lv, nt)
  BY <1>3, <1>4, <1>5, LostSound
<1>7. Outside'
  BY <1>1 DEF IInv, Typed, Correct, Outside
<1>8. Correct'
  BY <1>1, <1>2, <1>6, <1>7 DEF IInv, Correct
<1>9. In("idle", Nobody) \in Entry /\ fl \in [Flow -> Entry]
  BY <1>2 DEF In, Entry, Stage, Carried, IInv, Typed
<1>10. gl \in [Flow -> Entry]
  BY <1>3, <1>9
<1>11. Typed'
  BY <1>1, <1>2, <1>10 DEF IInv, Typed, Entry
<1>12. QED
  BY <1>8, <1>11 DEF IInv

(* A step that puts several letters of flows behind the inbox.             *)
LEMMA ManyCorrect ==
  ASSUME IInv, NEW k \in {"dequeue", "rollback"}, NEW S \in SUBSET Flow,
         \A f \in S : To(k, f, Nobody) \notin ToSet(inbox),
         inbox' = inbox \o SetToSeq({To(k, f, Nobody) : f \in S}),
         group' \in Group, group'.dequeues = group.dequeues, UNCHANGED <<level, consumer>>,
         flow' \in [Flow -> Entry], service' \in Lookups,
         Sound(group', Sends(ToSet(inbox), k, S), Whos(group.dequeues), flow', level, noticed'),
         Outside'
  PROVE  IInv'
<1>1. PICK ib, cs, T, s : /\ ib = inbox /\ cs = consumer /\ T = {To(k, f, Nobody) : f \in S}
                          /\ s = SetToSeq(T)
  OBVIOUS
<1>2. ib \in Seq(Letter) /\ k \in {"dequeue", "forget", "rollback"}
  BY <1>1 DEF IInv, Typed
<1>3. Unsent(k, S, ib)
  BY <1>1 DEF Unsent
<1>4. ToSet(s) = T /\ Joins(s, ib) /\ Spares(s, cs, cs)
  <2>1. T = LettersTo(k, S) /\ s = SetToSeq(T)
    BY <1>1 DEF LettersTo
  <2>2. QED
    BY ONLY <1>2, <1>3, <2>1, LettersOf
<1>5. ToSet(ib) \cup ToSet(s) = Sends(ToSet(ib), k, S)
  BY <1>1, <1>4 DEF Sends
<1>6. Sound(group', ToSet(inbox) \cup ToSet(s), Whos(group.dequeues), flow', level, noticed')
  BY <1>1, <1>5
<1>7. Singly(group'.dequeues) /\ Whos(group'.dequeues) = Whos(group.dequeues)
  BY DEF IInv, Correct
<1>8. /\ Typed /\ Correct /\ Joins(s, inbox) /\ inbox' = inbox \o s
      /\ Spares(s, consumer, consumer')
  BY <1>1, <1>4 DEF IInv
<1>9. Correct' /\ inbox' \in Seq(Letter)
  BY <1>6, <1>7, <1>8, StepCorrect
<1>10. QED
  BY <1>9 DEF IInv, Typed, Entry, Lookups

(* The transaction manager hears that the forward has died.                *)
LEMMA TmNoticesCorrect ==
  ASSUME IInv, TmNotices
  PROVE  IInv'
<1>1. PICK S : S = {f \in group.registered : flow[f].stage \notin {"commit", "rollback"}}
  OBVIOUS
<1>2. /\ UNCHANGED <<group, level, consumer, flow, run, service>> /\ run = "dead"
      /\ "tm" \notin noticed /\ noticed' = noticed \cup {"tm"}
      /\ inbox' = inbox \o SetToSeq({To("rollback", f, Nobody) : f \in S})
  BY <1>1 DEF TmNotices, clientVars
<1>3. PICK w, I, J, V, fl, lv, nt, jt :
        /\ w = group /\ I = ToSet(inbox) /\ J = Sends(I, "rollback", S) /\ V = Whos(group.dequeues)
        /\ fl = flow /\ lv = level /\ nt = noticed /\ jt = noticed'
  OBVIOUS
<1>4. Sound(w, I, V, fl, lv, nt) /\ w.registered \subseteq Flow /\ jt = nt \cup {"tm"} /\ "tm" \notin nt
  BY <1>2, <1>3 DEF IInv, Typed, Correct, Group
<1>5. S = {f \in w.registered : fl[f].stage \notin {"commit", "rollback"}} /\ S \in SUBSET Flow
  BY <1>1, <1>3, <1>4
<1>6. Sound(w, J, V, fl, lv, jt) /\ \A f \in S : To("rollback", f, Nobody) \notin I
  BY <1>3, <1>4, <1>5, OrphanedSound
<1>7. Outside'
  BY <1>2 DEF IInv, Correct, Outside
<1>8. flow' \in [Flow -> Entry] /\ service' \in Lookups /\ group' \in Group
  BY <1>2 DEF IInv, Typed, Entry, Lookups
<1>9. PICK k \in {"dequeue", "rollback"} : k = "rollback"
  OBVIOUS
<1>10. Sound(group', Sends(ToSet(inbox), k, S), Whos(group.dequeues), flow', level, noticed')
  BY <1>2, <1>3, <1>6, <1>9
<1>11. /\ \A f \in S : To(k, f, Nobody) \notin ToSet(inbox)
       /\ inbox' = inbox \o SetToSeq({To(k, f, Nobody) : f \in S})
  BY <1>2, <1>3, <1>6, <1>9
<1>12. QED
  BY <1>2, <1>5, <1>7, <1>8, <1>10, <1>11, ManyCorrect

(* The flows that begin are idle, and the group can be reached.            *)
LEMMA BeginsIs ==
  ASSUME NEW fl, NEW fw, NEW F, NEW S \in Begins(fl, fw, F)
  PROVE  S \in SUBSET Flow /\ (\A f \in S : fl[f].stage = "idle") /\ (S = {} \/ level # "gone")
BY DEF Begins, Idling, FlowsOf

(* The forward learns where a queue is, and may begin.                     *)
LEMMA LookupReplyCorrect ==
  ASSUME IInv, NEW F \in Forward, NEW q \in Looked, LookupReply(F, q)
  PROVE  IInv'
<1>1. UNCHANGED <<group, level, consumer, run, service, noticed>>
  BY DEF LookupReply, clientVars
<1>2. \/ UNCHANGED <<flow, inbox>>
      \/ \E fw, S : /\ S \in Begins(flow, fw, F) \/ S = {}
                    /\ flow' = Begun(flow, S) /\ inbox' = inbox \o DequeuesOf(S)
  <2>1. PICK fw : \/ UNCHANGED <<flow, inbox>>
                  \/ \E S \in IF fw[F].known = Looked THEN Begins(flow, fw, F) ELSE {{}} :
                       flow' = Begun(flow, S) /\ inbox' = inbox \o DequeuesOf(S)
    BY Zenon DEF LookupReply
  <2>2. QED
    BY <2>1
<1>3. CASE UNCHANGED <<flow, inbox>>
  BY <1>1, <1>3, StutterCorrect DEF IInv, Correct, Outside
<1>4. ASSUME NEW fw, NEW S, S \in Begins(flow, fw, F) \/ S = {},
             flow' = Begun(flow, S), inbox' = inbox \o DequeuesOf(S)
      PROVE  IInv'
  <2>1. S \in SUBSET Flow /\ (\A f \in S : flow[f].stage = "idle") /\ (S = {} \/ level # "gone")
    BY <1>4, BeginsIs
  <2>2. PICK w, I, J, V, fl, gl, lv, nt :
          /\ w = group /\ I = ToSet(inbox) /\ J = Sends(I, "dequeue", S) /\ V = Whos(group.dequeues)
          /\ fl = flow /\ gl = flow' /\ lv = level /\ nt = noticed
    OBVIOUS
  <2>3. Sound(w, I, V, fl, lv, nt)
    BY <2>2 DEF IInv, Correct
  <2>4. Sound(w, J, V, gl, lv, nt) /\ \A f \in S : To("dequeue", f, Nobody) \notin I
    BY <1>4, <2>1, <2>2, <2>3, BegunSound
  <2>5. gl \in [Flow -> Entry]
    <3>1. fl \in [Flow -> Entry] /\ In("dequeue", Nobody) \in Entry
      BY <2>2 DEF IInv, Typed, Entry, In, Stage, Carried
    <3>2. QED
      BY <1>4, <2>2, <3>1 DEF Begun
  <2>6. Outside'
    <3>1. \A x \in service.asked : x \in Flow /\ flow[x].stage = "lookup" /\ x \notin S
      BY <2>1 DEF IInv, Typed, Correct, Outside
    <3>2. \A x \in service.asked : flow'[x].stage = "lookup"
      BY <1>4, <3>1 DEF Begun
    <3>3. QED
      BY <1>1, <3>2 DEF IInv, Correct, Outside
  <2>7. PICK k \in {"dequeue", "rollback"} : k = "dequeue"
    OBVIOUS
  <2>8. /\ \A f \in S : To(k, f, Nobody) \notin ToSet(inbox)
        /\ inbox' = inbox \o SetToSeq({To(k, f, Nobody) : f \in S})
        /\ Sound(group', Sends(ToSet(inbox), k, S), Whos(group.dequeues), flow', level, noticed')
    BY <1>1, <1>4, <2>2, <2>4, <2>7 DEF DequeuesOf
  <2>9. flow' \in [Flow -> Entry] /\ service' \in Lookups /\ group' \in Group
    BY <1>1, <2>2, <2>5 DEF IInv, Typed, Lookups
  <2>10. QED
    BY <1>1, <2>1, <2>6, <2>8, <2>9, ManyCorrect
<1>5. QED
  BY <1>2, <1>3, <1>4
-----------------------------------------------------------------------------
(* What a flow hears, and what it does about it, leaves the rest as it is. *)
LEMMA HeardSound ==
  ASSUME NEW f \in Flow, NEW w, NEW u, Hears(w, u, f), NEW I, NEW V, NEW fl, NEW lv, NEW nt,
         Sound(w, I, V, fl, lv, nt), NEW gl, \A x \in Flow \ {f} : gl[x] = fl[x],
         FlowFits(u, I, V, f, gl[f], lv, nt)
  PROVE  Sound(u, I, V, gl, lv, nt)
<1>1. Own(f, w, I, V, fl, u, I, V, gl)
  <2>1. OwnLetters(I, I, f) /\ OwnMail(w.mail, u.mail, f) /\ OwnSet(w.registered, u.registered, f)
    BY OwnIs DEF Hears
  <2>2. /\ OwnMail(ToSet(w.held), ToSet(u.held), f) /\ OwnRows(u.db, w.db, f) /\ OwnSet(V, V, f)
        /\ OwnSet(w.involved, u.involved, f)
    BY OwnIs DEF Hears
  <2>3. QED
    BY <2>1, <2>2 DEF Own
<1>2. Tidy(u.db) /\ u.disk = w.disk
  BY DEF Sound, Hears
<1>3. Reply("xa", f, Nobody) \in u.mail => Reply("xa", f, Nobody) \in w.mail
  BY DEF Hears
<1>4. QED
  BY <1>1, <1>2, <1>3, OneFlow

(* A flow is told that its transaction has ended, and starts over with     *)
(* others of its forward that are idle.                                    *)
LEMMA EndedCorrect ==
  ASSUME IInv, NEW f \in Flow, Ended(f)
  PROVE  IInv'
<1>1. PICK g : g = [flow EXCEPT ![f] = In("idle", Nobody)]
  OBVIOUS
<1>2. PICK F, fw, S : /\ S \in Begins(g, fw, F)
                      /\ flow' = Begun(g, S) /\ inbox' = inbox \o DequeuesOf(S)
  <2>1. \E S \in Begins(g, Dropped(g, forward, ForwardOf[f]), ForwardOf[f]) :
           flow' = Begun(g, S) /\ inbox' = inbox \o DequeuesOf(S)
    BY <1>1, Zenon DEF Ended
  <2>2. QED
    BY <2>1
<1>3. /\ UNCHANGED <<level, consumer, noticed, run, service>> /\ Alive
      /\ Reply("ended", f, Nobody) \in group.mail
      /\ group' = [group EXCEPT !.mail = @ \ {Reply("ended", f, Nobody)}]
  BY DEF Ended, Posted, Received, clientVars
<1>4. "ended" \in MailKind /\ Nobody \in Carried
  BY DEF MailKind, Carried
<1>5. PICK Q : Q = Where(f) \ {<<"ended", Nobody>>}
  OBVIOUS
<1>6. Hears(group, group', f) /\ group'.registered = group.registered /\ Heard(f, group') = Q
  BY <1>3, <1>4, <1>5, HeardIs
<1>7. PICK P, T, A, s, inv, reg, lv, nt :
        /\ P = Where(f) /\ T = Takes(group.db, f) /\ A = Adds(group.db, f) /\ s = flow[f]
        /\ inv = group.involved /\ reg = group.registered /\ lv = level /\ nt = noticed
  OBVIOUS
<1>8. Fits(f, P, T, A, s, inv, reg, lv, nt) /\ <<"ended", Nobody>> \in P /\ "tm" \notin nt
  BY <1>3, <1>4, <1>7, WhereIs, AliveIs
<1>9. /\ s.stage \in {"commit", "rollback"}
      /\ Fits(f, Q, T, A, In("idle", Nobody), inv, reg, lv, nt)
  BY <1>5, <1>7, <1>8, FitsEnded
<1>10. PICK w, u, I, V, fl, gl : /\ w = group /\ u = group' /\ I = ToSet(inbox) /\ fl = flow
                                 /\ V = Whos(group.dequeues) /\ gl = flow'
  OBVIOUS
<1>11. In("idle", Nobody) \in Entry /\ In("dequeue", Nobody) \in Entry
  BY <1>4 DEF In, Entry, Stage
<1>12. /\ g \in [Flow -> Entry] /\ g[f] = In("idle", Nobody)
       /\ \A x \in Flow \ {f} : g[x] = flow[x]
  BY <1>1, <1>11 DEF IInv, Typed, Entry
<1>13. Sound(u, I, V, g, lv, nt)
  <2>1. Sound(w, I, V, fl, lv, nt) /\ Hears(w, u, f) /\ \A x \in Flow \ {f} : g[x] = fl[x]
    BY <1>6, <1>7, <1>10, <1>12 DEF IInv, Correct
  <2>2. FlowFits(u, I, V, f, In("idle", Nobody), lv, nt)
    BY <1>6, <1>7, <1>9, <1>10 DEF FlowFits, Heard, Hears
  <2>3. FlowFits(u, I, V, f, g[f], lv, nt)
    BY <1>12, <2>2
  <2>4. QED
    BY <2>1, <2>3, HeardSound
<1>14. S \in SUBSET Flow /\ (\A x \in S : g[x].stage = "idle") /\ (S = {} \/ level # "gone")
  BY <1>2, BeginsIs
<1>15. PICK J : J = Sends(I, "dequeue", S)
  OBVIOUS
<1>16. Sound(u, J, V, gl, lv, nt) /\ \A x \in S : To("dequeue", x, Nobody) \notin I
  <2>1. S = {} \/ lv # "gone"
    BY <1>7, <1>14
  <2>2. gl = Begun(g, S)
    BY <1>2, <1>10
  <2>3. QED
    BY <1>13, <1>14, <1>15, <2>1, <2>2, BegunSound
<1>17. gl \in [Flow -> Entry]
  BY <1>2, <1>10, <1>11, <1>12 DEF Begun
<1>18. Outside'
  <2>1. \A x \in service.asked : x \in Flow /\ flow[x].stage = "lookup" /\ x # f /\ g[x] = flow[x]
    BY <1>7, <1>9, <1>12 DEF IInv, Typed, Correct, Outside
  <2>2. \A x \in service.asked : flow'[x].stage = "lookup"
    BY <1>2, <1>14, <2>1 DEF Begun
  <2>3. QED
    BY <1>3, <1>6, <2>2 DEF IInv, Correct, Outside, Hears
<1>19. PICK k \in {"dequeue", "rollback"} : k = "dequeue"
  OBVIOUS
<1>20. /\ \A x \in S : To(k, x, Nobody) \notin ToSet(inbox)
       /\ inbox' = inbox \o SetToSeq({To(k, x, Nobody) : x \in S})
       /\ Sound(group', Sends(ToSet(inbox), k, S), Whos(group.dequeues), flow', level, noticed')
  BY <1>2, <1>3, <1>7, <1>10, <1>15, <1>16, <1>19 DEF DequeuesOf
<1>21. flow' \in [Flow -> Entry] /\ service' \in Lookups /\ group' \in Group /\ group'.dequeues = group.dequeues
  BY <1>3, <1>6, <1>10, <1>17 DEF IInv, Typed, Lookups, Hears
<1>22. QED
  BY <1>3, <1>14, <1>18, <1>20, <1>21, ManyCorrect
-----------------------------------------------------------------------------
(* At the start nothing is anywhere.                                       *)
LEMMA InitCorrect == Init => IInv
<1> SUFFICES ASSUME Init
             PROVE  IInv
  OBVIOUS
<1>1. /\ group.db = <<>> /\ group.disk = <<>> /\ group.involved = {} /\ group.registered = {}
      /\ group.dequeues = <<>> /\ group.held = <<>> /\ group.mail = {} /\ inbox = <<>>
      /\ group.count = [q \in Queue |-> 0] /\ group.timer = FALSE
  BY DEF Init, GroupInit
<1>2. DOMAIN <<>> = {}
  OBVIOUS
<1>3. PICK w, I, V : w = group /\ I = ToSet(inbox) /\ V = Whos(group.dequeues)
  OBVIOUS
<1>4. I = {} /\ V = {} /\ w.mail = {} /\ ToSet(w.held) = {} /\ w.db = <<>> /\ w.disk = <<>>
      /\ w.involved = {} /\ w.registered = {}
  BY <1>1, <1>2, <1>3 DEF ToSet, Whos
<1>5. \A f \in Flow : flow[f].stage = "idle"
  BY DEF Init, In
<1>6. Typed
  <2>1. group \in Group
    BY <1>1 DEF Init, GroupInit, Group
  <2>2. flow \in [Flow -> [stage : Stage, msg : Carried]]
    BY DEF Init, In, Stage, Carried
  <2>3. inbox \in Seq(Letter) /\ service \in [asked : SUBSET Flow, discards : SUBSET Flow]
        /\ consumer \in [Consumer -> {"new", "waiting", "late", "leaving", "served", "told", "dead", "noticed"}]
    BY DEF Init, GroupInit
  <2>4. QED
    BY <2>1, <2>2, <2>3 DEF Typed
<1>7. ASSUME NEW f \in Flow
      PROVE  FlowFits(w, I, V, f, flow[f], level, noticed)
  <2>1. Takes(w.db, f) = {} /\ Adds(w.db, f) = {}
    BY <1>2, <1>4 DEF Takes, Adds
  <2>2. PICK P : P = Places(I, w.mail, V, ToSet(w.held), f)
    OBVIOUS
  <2>3. P = {}
    BY <1>4, <2>2 DEF Places, Letters, Mails
  <2>4. QED
    BY <1>4, <1>5, <2>1, <2>2, <2>3 DEF FlowFits, Fits, Resting
<1>8. ASSUME NEW m \in Message
      PROVE  Known(w, I, m)
  <2>1. Given(w.mail, m) = {}
    BY <1>4 DEF Given
  <2>2. QED
    BY <1>4, <2>1 DEF Known
<1>9. Tidy(w.db) /\ Durable(w)
  BY <1>2, <1>4 DEF Tidy, Durable
<1>10. Sound(w, I, V, flow, level, noticed)
  BY <1>7, <1>8, <1>9 DEF Sound
<1>11. Unique(inbox) /\ Ordered(inbox) /\ Singly(group.dequeues)
  BY <1>1, <1>2 DEF Unique, Ordered, Singly
<1>12. Mourned(Whos(group.dequeues), inbox, consumer) /\ Outside
  BY DEF Init, GroupInit, Mourned, Outside
<1>13. QED
  BY <1>3, <1>6, <1>10, <1>11, <1>12 DEF IInv, Correct

(* Every step keeps the invariant.                                         *)
LEMMA NextCorrect == IInv /\ [Next]_vars => IInv'
<1> SUFFICES ASSUME IInv, [Next]_vars
             PROVE  IInv'
  OBVIOUS
<1>1. CASE GroupNext /\ UNCHANGED forwardVars
  <2>1. CASE Handle /\ UNCHANGED clientVars
    BY <1>1, <2>1, HandleCorrect
  <2>2. CASE Idle /\ UNCHANGED clientVars
    BY <1>1, <2>2, IdleCorrect
  <2>3. CASE Clock /\ UNCHANGED clientVars
    BY <1>1, <2>3, ClockCorrect
  <2>4. CASE \E m \in Message : Produce(m) \/ ProducerExit(m)
    BY <1>1, <2>4, ProduceCorrect, ProducerExitCorrect
  <2>5. ASSUME NEW c \in Consumer,
               Consume(c) \/ ConsumerGets(c) \/ ConsumerLeaves(c) \/ ConsumerDies(c)
        PROVE  IInv'
    BY <1>1, <2>5, ConsumerCorrect
  <2>6. ASSUME NEW c \in Consumer, ConsumerExit(c)
        PROVE  IInv'
    BY <1>1, <2>6, ConsumerExitCorrect
  <2>7. CASE Restore
    BY <1>1, <2>7, RestoreCorrect
  <2>8. QED
    BY <1>1, <2>1, <2>2, <2>3, <2>4, <2>5, <2>6, <2>7, Zenon DEF GroupNext
<1>2. ASSUME NEW f \in Flow, FlowNext(f)
      PROVE  IInv'
  <2>1. ASSUME NEW m \in Message, DequeueReply(f, m)
        PROVE  IInv'
    BY <2>1, DequeueReplyCorrect
  <2>2. ASSUME NEW m \in Message, EnqueueReply(f, m)
        PROVE  IInv'
    BY <2>2, EnqueueReplyCorrect
  <2>3. CASE Forgotten(f)
    BY <2>3, ForgottenCorrect
  <2>4. CASE ServiceReply(f) \/ ServiceDiscard(f) \/ CallReply(f)
    BY <2>4, ServiceCorrect
  <2>5. CASE Ended(f)
    BY <2>5, EndedCorrect
  <2>6. CASE TmDecides(f)
    BY <2>6, TmDecidesCorrect
  <2>7. CASE TmEnds(f)
    BY <2>7, TmEndsCorrect
  <2>8. QED
    BY <1>2, <2>1, <2>2, <2>3, <2>4, <2>5, <2>6, <2>7, Zenon DEF FlowNext
<1>3. CASE ForwardNext
  <2>1. ASSUME NEW F \in Forward, NEW q \in Looked, LookupReply(F, q)
        PROVE  IInv'
    BY <2>1, LookupReplyCorrect
  <2>2. CASE ForwardShutdown \/ ForwardDone
    BY <2>2, ForwardCorrect
  <2>3. CASE SourceDead
    BY <2>3, SourceDeadCorrect
  <2>4. QED
    BY <1>3, <2>1, <2>2, <2>3, Zenon DEF ForwardNext
<1>4. CASE \/ Shutdown \/ Dies \/ GroupNotices
           \/ \E F \in Forward, n \in Sizes : Update(F, n)
  BY <1>4, ForwardCorrect
<1>5. CASE TmNotices
  BY <1>5, TmNoticesCorrect
<1>6. CASE UNCHANGED vars
  <2>1. UNCHANGED <<group, inbox, level, consumer, flow, service, noticed, run>>
    BY <1>6 DEF vars, groupVars, clientVars, forwardVars
  <2>2. noticed # {} => run' = "dead"
    BY <2>1 DEF IInv, Correct, Outside
  <2>3. QED
    BY <2>1, <2>2, StutterCorrect
<1>7. QED
  BY <1>1, <1>2, <1>3, <1>4, <1>5, <1>6, Zenon DEF Next

(* The invariant holds.                                                    *)
THEOREM QueueInvariant == Spec => []IInv
BY InitCorrect, NextCorrect, PTL DEF Spec
-----------------------------------------------------------------------------
(* A message the producer was told of is in a row that shows, and then in  *)
(* one, or with a consumer, and then with one.                             *)
LEMMA MovedIs == IInv => MovedOnce
<1> SUFFICES ASSUME IInv, NEW m \in Message, Acked(m)
             PROVE  Rows(group.db, LAMBDA r : r.msg = m /\ Visible(r)) + Cardinality(Delivered(m)) = 1
  BY DEF MovedOnce
<1>1. PICK w, db, G, N : /\ w = group /\ db = group.db /\ G = Given(w.mail, m)
                         /\ N = {n \in DOMAIN db : db[n].msg = m /\ Visible(db[n])}
  OBVIOUS
<1>2. Delivered(m) = G
  BY <1>1 DEF Delivered, Posted, Given
<1>3. Rows(group.db, LAMBDA r : r.msg = m /\ Visible(r)) = Cardinality(N)
  BY <1>1 DEF Rows
<1>4. Known(w, ToSet(inbox), m) /\ Tidy(db)
  BY <1>1 DEF IInv, Correct, Sound
<1>5. Reply("enqueued", m, m) \in w.mail
  BY <1>1 DEF Acked, Posted
<1>6. /\ Shows(db, m) \/ G # {}
      /\ G # {} => ~ Has(db, m)
      /\ \A c, d \in G : c = d
  BY <1>1, <1>4, <1>5 DEF Known
<1>7. CASE G = {}
  <2>1. PICK n \in DOMAIN db : db[n].msg = m /\ Visible(db[n])
    BY <1>6, <1>7 DEF Shows
  <2>2. N = {n}
    BY <1>1, <1>4, <2>1 DEF Tidy
  <2>3. Cardinality(N) = 1 /\ Cardinality(G) = 0
    BY <1>7, <2>2, FS_Singleton, FS_EmptySet
  <2>4. QED
    BY <1>2, <1>3, <2>3
<1>8. CASE G # {}
  <2>1. PICK c : c \in G
    BY <1>8
  <2>2. G = {c} /\ N = {}
    BY <1>1, <1>6, <1>8, <2>1 DEF Has
  <2>3. Cardinality(G) = 1 /\ Cardinality(N) = 0
    BY <2>2, FS_Singleton, FS_EmptySet
  <2>4. QED
    BY <1>2, <1>3, <2>3
<1>9. QED
  BY <1>7, <1>8

(* What has been told is on disk, in terms of the rows.                    *)
LEMMA DurableIs == IInv => RepliedIsDurable
<1> SUFFICES ASSUME IInv
             PROVE  RepliedIsDurable
  OBVIOUS
<1>1. Durable(group) /\ group \in Group
  BY DEF IInv, Typed, Correct, Sound
<1>2. ASSUME NEW m \in Message, Acked(m), \E r \in ToSet(group.db) : r.msg = m
      PROVE  \E r \in ToSet(group.disk) : r.msg = m
  <2>1. Has(group.db, m)
    BY <1>2 DEF Has, ToSet
  <2>2. Has(group.disk, m)
    BY <1>1, <1>2, <2>1 DEF Durable, Acked, Posted
  <2>3. QED
    BY <2>2 DEF Has, ToSet
<1>3. ASSUME NEW f \in Flow, NEW r \in ToSet(group.disk), Posted(Reply("xa", f, Nobody)), r.gtrid = f
      PROVE  r.state = "enqueued"
  <2>1. Takes(group.disk, f) = {} /\ Adds(group.disk, f) = {}
    BY <1>1, <1>3 DEF Durable, Posted
  <2>2. PICK d : d = group.disk
    OBVIOUS
  <2>3. PICK n \in DOMAIN d : r = d[n]
    BY <1>3, <2>2 DEF ToSet
  <2>4. r \in Row
    BY <1>1, <2>2, <2>3 DEF Group
  <2>5. r.msg \notin Takes(d, f) /\ r.msg \notin Adds(d, f) /\ r.msg \in Message
    BY <2>1, <2>2, <2>4 DEF Row
  <2>6. r.state # "dequeued" /\ r.state # "added"
    BY <1>3, <2>3, <2>5 DEF Takes, Adds
  <2>7. QED
    BY <2>4, <2>6 DEF Row
<1>4. QED
  BY <1>2, <1>3 DEF RepliedIsDurable

(* Queues move a message once: the producer who was told of it finds it in *)
(* one row, or one consumer has got it, whoever rolls back or dies.        *)
THEOREM MovesOnce == Spec => []MovedOnce
BY QueueInvariant, MovedIs, PTL

(* The group replies when what it tells of is on disk (State::persist).    *)
THEOREM RepliesAreDurable == Spec => []RepliedIsDurable
BY QueueInvariant, DurableIs, PTL
-----------------------------------------------------------------------------
(* Nobody new is given a message.                                          *)
Withholds(c) ==
  \A m \in Message : Reply("dequeued", c, m) \in group'.mail => Reply("dequeued", c, m) \in group.mail

(* Steps outside of the group give nothing to a consumer.                  *)
LEMMA OthersWithhold ==
  ASSUME NEW c \in Consumer,
         \/ GroupNext /\ ~ Handle /\ ~ Idle
         \/ \E f \in Flow : FlowNext(f)
         \/ ForwardNext \/ Shutdown \/ Dies \/ GroupNotices \/ TmNotices
         \/ \E F \in Forward, n \in Sizes : Update(F, n)
  PROVE  Withholds(c)
<1>1. CASE GroupNext /\ ~ Handle /\ ~ Idle
  <2>1. CASE Clock
    BY <2>1 DEF Clock, Withholds
  <2>2. CASE \/ Restore
             \/ \E m \in Message : Produce(m) \/ ProducerExit(m)
    BY <2>2 DEF Restore, Produce, ProducerExit, Asks, Withholds
  <2>3. CASE \E d \in Consumer : \/ Consume(d) \/ ConsumerGets(d) \/ ConsumerLeaves(d)
                                 \/ ConsumerDies(d) \/ ConsumerExit(d)
    <3>1. group' = group
      BY <2>3 DEF Consume, ConsumerGets, ConsumerLeaves, ConsumerDies, ConsumerExit, Asks, groupVars
    <3>2. QED
      BY <3>1 DEF Withholds
  <2>4. QED
    BY <1>1, <2>1, <2>2, <2>3, Zenon DEF GroupNext
<1>2. ASSUME NEW f \in Flow, FlowNext(f)
      PROVE  Withholds(c)
  <2>1. CASE \/ group'.mail \subseteq group.mail
             \/ group'.mail \subseteq group.mail \cup {Reply("ended", f, Nobody)}
    BY <2>1, ReplyIs DEF Withholds
  <2>2. ASSUME NEW r, group' = Received(r)
        PROVE  group'.mail \subseteq group.mail
    BY <2>2 DEF Received
  <2>3. CASE \E m \in Message : DequeueReply(f, m) \/ EnqueueReply(f, m)
    <3>1. PICK r : group' = Received(r)
      BY <2>3 DEF DequeueReply, EnqueueReply, Rollbacks, Enqueues, Commits, Transacts
    <3>2. QED
      BY <2>1, <2>2, <3>1
  <2>4. CASE Forgotten(f)
    BY <2>1, <2>2, <2>4 DEF Forgotten
  <2>5. CASE ServiceReply(f) \/ ServiceDiscard(f) \/ CallReply(f)
    <3>1. group' = group
      BY <2>5 DEF ServiceReply, ServiceDiscard, CallReply, Rollbacks, Enqueues, Transacts
    <3>2. QED
      BY <2>1, <3>1
  <2>6. CASE Ended(f)
    BY <2>1, <2>2, <2>6 DEF Ended
  <2>7. CASE TmDecides(f)
    BY <2>1, <2>2, <2>7 DEF TmDecides
  <2>8. CASE TmEnds(f)
    BY <2>1, <2>8 DEF TmEnds, Sent, Received
  <2>9. QED
    BY <1>2, <2>3, <2>4, <2>5, <2>6, <2>7, <2>8, Zenon DEF FlowNext
<1>3. CASE \/ ForwardNext \/ Shutdown \/ Dies \/ GroupNotices \/ TmNotices
           \/ \E F \in Forward, n \in Sizes : Update(F, n)
  <2>1. group' = group
    <3>1. CASE ForwardNext
      BY <3>1 DEF ForwardNext, LookupReply, ForwardShutdown, ForwardDone, SourceDead, Complies, groupVars
    <3>2. CASE Shutdown \/ Dies \/ GroupNotices \/ TmNotices
      BY <3>2 DEF Shutdown, Dies, GroupNotices, TmNotices, Asks, groupVars
    <3>3. CASE \E F \in Forward, n \in Sizes : Update(F, n)
      BY <3>3 DEF Update, Complies, groupVars
    <3>4. QED
      BY <1>3, <3>1, <3>2, <3>3, SMTT(45)
  <2>2. QED
    BY <2>1 DEF Withholds
<1>4. QED
  BY <1>1, <1>2, <1>3

(* The group gives to who waits or asks, and what a process that has died  *)
(* asked for is before the exit the group is told of.                      *)
LEMMA BuriedWithhold ==
  ASSUME IInv, Handle \/ Idle, NEW c \in Consumer, Buried(c)
  PROVE  Withholds(c)
<1>1. PICK w, ib, u, V : w = group /\ ib = inbox /\ u = group' /\ V = Whos(w.dequeues)
  OBVIOUS
<1>2. w \in Group /\ ib \in Seq(Letter) /\ Mourned(V, ib, consumer)
  BY <1>1 DEF IInv, Typed, Correct
<1>3. consumer[c] = "noticed" /\ Exit(c) \notin ToSet(ib)
  BY <1>1 DEF Buried, Exit
<1>4. c \notin V /\ \A n \in DOMAIN ib : ~ (ib[n].kind = "dequeue" /\ ib[n].who = c)
  BY <1>2, <1>3 DEF Mourned, ToSet
<1>5. CASE Handle
  <2>1. PICK l : l = Head(ib)
    OBVIOUS
  <2>2. ib # <<>> /\ u = Handled(w, l)
    BY <1>1, <1>5, <2>1 DEF Handle, Becomes
  <2>3. l \in Letter /\ l = ib[1] /\ 1 \in DOMAIN ib
    BY <1>2, <2>1, <2>2
  <2>4. Only(w, u, Asker(l)) /\ c \notin Asker(l)
    BY <1>2, <1>4, <2>2, <2>3, HandledOnly DEF Asker
  <2>5. QED
    BY <1>1, <1>4, <2>4 DEF Only, Withholds
<1>6. CASE Idle
  <2>1. u = Persisted(w)
    BY <1>1, <1>6 DEF Idle, Becomes
  <2>2. Only(w, u, {})
    BY <1>2, <2>1, PersistOnly
  <2>3. QED
    BY <1>1, <1>4, <2>2 DEF Only, Withholds
<1>7. QED
  BY <1>5, <1>6

(* No step gives a message to a process that has died and whose death the  *)
(* group has taken in.                                                     *)
LEMMA DeadStep ==
  IInv /\ [Next]_vars =>
    [\A c \in Consumer, m \in Message :
       Buried(c) /\ Reply("dequeued", c, m) \in group'.mail => Posted(Reply("dequeued", c, m))]_vars
<1> SUFFICES ASSUME IInv, Next, NEW c \in Consumer, NEW m \in Message, Buried(c),
                    Reply("dequeued", c, m) \in group'.mail
             PROVE  Posted(Reply("dequeued", c, m))
  OBVIOUS
<1>1. Withholds(c)
  BY BuriedWithhold, OthersWithhold, Zenon DEF Next
<1>2. QED
  BY <1>1 DEF Withholds, Posted

(* Nothing is given to a process that has died, once the group was told of *)
(* its death (Pending::remove in dead::Process).                           *)
THEOREM DeadGetNothing == Spec => DeadTakesNothing
BY QueueInvariant, DeadStep, PTL DEF Spec, DeadTakesNothing
-----------------------------------------------------------------------------
(* The counts and the dequeues that wait, through every step.              *)
LEMMA HandledMinds ==
  ASSUME NEW w \in Group, Neat(w), NEW l \in Letter, NEW u, u = Handled(w, l)
  PROVE  Minds(w, l, u)
<1>1. CASE l.kind = "enqueue" /\ u = OnEnqueue(w, l)
  BY <1>1, EnqueueMinds
<1>2. CASE l.kind = "dequeue" /\ u = Dequeued(w, Dequeue(l.who))
  BY <1>2, DequeueMinds
<1>3. CASE l.kind = "forget" /\ u = OnForget(w, l)
  BY <1>3, ForgetMinds
<1>4. CASE \/ l.kind = "commit" /\ u = OnCommit(w, l)
           \/ l.kind = "rollback" /\ u = OnRollback(w, l)
  BY <1>4, EndMinds
<1>5. CASE l.kind = "prepare" /\ u = OnPrepare(w, l)
  BY <1>5, PrepareMinds
<1>6. CASE l.kind = "restore" /\ u = OnRestore(w)
  BY <1>6, RestoreMinds
<1>7. CASE l.kind = "timeout" /\ u = OnTimeout(w)
  BY <1>7, TimeoutMinds
<1>8. CASE l.kind = "exit" /\ u = OnExit(w, l)
  BY <1>8, ExitMinds
<1>9. CASE l.kind = "shutdown" /\ u = OnShutdown(w)
  BY <1>9, ShutdownMinds
<1>10. QED
  BY <1>1, <1>2, <1>3, <1>4, <1>5, <1>6, <1>7, <1>8, <1>9, KindIs

(* Time counts no row, and without an alarm it makes none available that a *)
(* dequeue waits for.                                                      *)
LEMMA NowNeat ==
  ASSUME NEW w \in Group, Neat(w), NEW s,
         NEW u, u = [w EXCEPT !.db = Now(@, s), !.disk = Now(@, s), !.timer = FALSE]
  PROVE  Neat(u) /\ (Watched(w) /\ ~ w.timer => Watched(u))
<1>1. PICK db \in Seq(Row) : db = w.db
  BY DEF Group
<1>2. PICK d : d = Now(db, s)
  OBVIOUS
<1>3. /\ u.db = d /\ u.count = w.count /\ u.dequeues = w.dequeues /\ u.held = w.held
      /\ u.involved = w.involved
  BY <1>1, <1>2 DEF Group
<1>4. /\ DOMAIN d = DOMAIN db
      /\ \A n \in DOMAIN db : /\ d[n].queue = db[n].queue /\ d[n].state = db[n].state
                              /\ d[n].later => db[n].later
  <2>1. ASSUME NEW n \in DOMAIN db, NEW r \in Row, r = db[n]
        PROVE  d[n].queue = r.queue /\ d[n].state = r.state /\ (d[n].later => r.later)
    <3>1. d[n] = IF r.msg \in s THEN [r EXCEPT !.later = FALSE] ELSE r
      BY <1>2, <2>1 DEF Now
    <3>2. QED
      BY <3>1 DEF Row
  <2>2. QED
    BY <1>2, <2>1, RowOf DEF Now
<1>5. \A q : Seen(d, q) = Seen(db, q)
  BY <1>4 DEF Seen, Visible
<1>6. Booked(u)
  <2>1. Exact(db, w.count) /\ Placed(db)
    BY <1>1 DEF Neat, Booked
  <2>2. Exact(d, w.count)
    BY <1>5, <2>1 DEF Exact
  <2>3. Placed(d)
    BY <1>4, <2>1 DEF Placed
  <2>4. QED
    BY <1>3, <2>2, <2>3 DEF Booked
<1>7. Neat(u)
  BY <1>3, <1>6 DEF Neat
<1>8. \A q : Avail(db, q) = {} /\ ~ Delayed(db, q) => Avail(d, q) = {} /\ ~ Delayed(d, q)
  BY <1>4 DEF Avail, Delayed
<1>9. Watched(w) /\ ~ w.timer => Watched(u)
  BY <1>1, <1>3, <1>8 DEF Watched
<1>10. QED
  BY <1>7, <1>9

(* Other steps change nothing of this, and put letters behind the inbox.   *)
Leaves(w, u) ==
  /\ u.db = w.db /\ u.count = w.count /\ u.dequeues = w.dequeues /\ u.held = w.held
  /\ u.involved = w.involved /\ u.timer = w.timer
Grows(ib, t) == \E s \in Seq(Letter) : t = ib \o s /\ \A l \in ToSet(s) : Harmless(l)

(* None.                                                                   *)
LEMMA GrowsNone == ASSUME NEW ib \in Seq(Letter) PROVE Grows(ib, ib)
<1>1. PICK s \in Seq(Letter) : ib = ib \o s /\ ToSet(s) = {}
  BY JoinsNone
<1>2. QED
  BY <1>1 DEF Grows

(* One.                                                                    *)
LEMMA GrowsOne ==
  ASSUME NEW ib \in Seq(Letter), NEW l \in Letter, Harmless(l)
  PROVE  Grows(ib, Append(ib, l))
<1>1. PICK s \in Seq(Letter) : Append(ib, l) = ib \o s /\ ToSet(s) = {l}
  BY SingleIs
<1>2. QED
  BY <1>1 DEF Grows

(* One for each of several flows.                                          *)
LEMMA GrowsMany ==
  ASSUME NEW ib \in Seq(Letter), NEW k \in {"dequeue", "forget", "rollback"}, NEW S \in SUBSET Flow
  PROVE  Grows(ib, ib \o SetToSeq({To(k, f, Nobody) : f \in S}))
<1>1. PICK T, s : T = LettersTo(k, S) /\ s = SetToSeq(T)
  OBVIOUS
<1>2. PICK e : e = <<>>
  OBVIOUS
<1>3. e \in Seq(Letter) /\ Unsent(k, S, e)
  <2>1. DOMAIN e = {}
    BY <1>2
  <2>2. QED
    BY <1>2, <2>1 DEF ToSet, Unsent
<1>4. s \in Seq(Letter) /\ ToSet(s) = T
  <2>1. PICK cs : cs = consumer
    OBVIOUS
  <2>2. s \in Seq(Letter) /\ ToSet(s) = T /\ Joins(s, e) /\ Spares(s, cs, cs)
    BY <1>1, <1>3, LettersOf
  <2>3. QED
    BY <2>2
<1>5. \A l \in T : Harmless(l)
  BY <1>1, ToIs DEF LettersTo, Harmless
<1>6. QED
  BY <1>1, <1>4, <1>5 DEF Grows, LettersTo

(* A letter about a flow.                                                  *)
LEMMA GrowsFlow ==
  ASSUME NEW ib \in Seq(Letter), NEW f \in Flow, NEW k, NEW m,
         \/ k \in {"commit", "prepare", "rollback"} /\ m = Nobody
         \/ k = "enqueue" /\ m \in Message
  PROVE  Grows(ib, Append(ib, To(k, f, m)))
<1>1. PICK l \in Letter : l = To(k, f, m)
  BY LettersAre
<1>2. l.kind # "exit"
  BY <1>1, ToIs
<1>3. Harmless(l)
  BY <1>2 DEF Harmless
<1>4. QED
  BY <1>1, <1>3, GrowsOne

(* No producer dies before it has its reply.                               *)
Patient == Mortal \cap Message = {}

(* The steps of consumers, producers and the administrator.                *)
LEMMA ClientsLeave ==
  ASSUME IInv,
         \/ Restore
         \/ \E m \in Message : Produce(m) \/ ProducerExit(m)
         \/ \E c \in Consumer : \/ Consume(c) \/ ConsumerGets(c) \/ ConsumerLeaves(c)
                                \/ ConsumerDies(c) \/ ConsumerExit(c)
  PROVE  Leaves(group, group') /\ (Patient => Grows(inbox, inbox'))
<1>1. inbox \in Seq(Letter)
  BY DEF IInv, Typed
<1>2. group' = group
  BY DEF Restore, Produce, ProducerExit, Consume, ConsumerGets, ConsumerLeaves, ConsumerDies,
         ConsumerExit, Asks, groupVars
<1>3. CASE Restore
  <2>1. PICK l \in Letter : l = To("restore", Nobody, Nobody)
    BY LettersAre
  <2>2. Harmless(l)
    BY <2>1, ToIs DEF Harmless
  <2>3. QED
    BY <1>1, <1>2, <1>3, <2>1, <2>2, GrowsOne DEF Restore, Asks, Leaves
<1>4. ASSUME NEW m \in Message, Produce(m)
      PROVE  Grows(inbox, inbox')
  <2>1. PICK l \in Letter : l = To("enqueue", m, m)
    BY DEF To, Letter, Who, LetterKind
  <2>2. Harmless(l)
    BY <2>1, ToIs DEF Harmless
  <2>3. QED
    BY <1>1, <1>4, <2>1, <2>2, GrowsOne DEF Produce, Asks
<1>5. ASSUME NEW m \in Message, ProducerExit(m), Patient
      PROVE  Grows(inbox, inbox')
  BY <1>5 DEF ProducerExit, Patient
<1>6. ASSUME NEW c \in Consumer,
             Consume(c) \/ ConsumerGets(c) \/ ConsumerLeaves(c) \/ ConsumerDies(c)
      PROVE  Grows(inbox, inbox')
  <2>1. \/ inbox' = inbox
        \/ \E k \in {"dequeue", "forget"} : inbox' = Append(inbox, To(k, c, Nobody))
    BY <1>6 DEF Consume, ConsumerGets, ConsumerLeaves, ConsumerDies, Asks, groupVars
  <2>2. ASSUME NEW k \in {"dequeue", "forget"}, inbox' = Append(inbox, To(k, c, Nobody))
        PROVE  Grows(inbox, inbox')
    <3>1. PICK l \in Letter : l = To(k, c, Nobody)
      BY LettersAre
    <3>2. Harmless(l)
      BY <3>1, ToIs DEF Harmless
    <3>3. QED
      BY <1>1, <2>2, <3>1, <3>2, GrowsOne
  <2>3. QED
    BY <1>1, <2>1, <2>2, GrowsNone
<1>7. ASSUME NEW c \in Consumer, ConsumerExit(c)
      PROVE  Grows(inbox, inbox')
  <2>1. PICK l \in Letter : l = To("exit", {c}, Nobody)
    BY LettersAre DEF Who
  <2>2. l.who = {c} /\ c \notin Message
    BY <2>1, ToIs, QueueAssumption
  <2>3. Harmless(l)
    BY <2>2 DEF Harmless
  <2>4. QED
    BY <1>1, <1>7, <2>1, <2>3, GrowsOne DEF ConsumerExit, Asks
<1>8. QED
  BY <1>2, <1>3, <1>4, <1>5, <1>6, <1>7 DEF Leaves

(* What is taken out of the mail is no row, no dequeue and no transaction. *)
LEMMA HearLeaves ==
  ASSUME IInv, NEW r, group' = Received(r)
  PROVE  Leaves(group, group')
BY DEF Received, Leaves, IInv, Typed, Group

(* The steps of a flow.                                                    *)
LEMMA FlowLeaves ==
  ASSUME IInv, NEW f \in Flow, FlowNext(f)
  PROVE  Leaves(group, group') /\ Grows(inbox, inbox')
<1>1. inbox \in Seq(Letter) /\ Leaves(group, group) /\ Grows(inbox, inbox)
  BY GrowsNone DEF IInv, Typed, Leaves
<1>2. ASSUME NEW k \in {"commit", "prepare", "rollback"}, inbox' = Append(inbox, To(k, f, Nobody))
      PROVE  Grows(inbox, inbox')
  BY <1>1, <1>2, GrowsFlow
<1>3. ASSUME NEW m \in Message, inbox' = Append(inbox, To("enqueue", f, m))
      PROVE  Grows(inbox, inbox')
  BY <1>1, <1>3, GrowsFlow
<1>4. ASSUME NEW w, Rollbacks(w, f) \/ Commits(w, f)
      PROVE  group' = w /\ Grows(inbox, inbox')
  BY <1>2, <1>4 DEF Rollbacks, Commits, Transacts
<1>5. ASSUME NEW w, NEW m \in Message, Enqueues(w, f, m)
      PROVE  group' = w /\ Grows(inbox, inbox')
  BY <1>3, <1>5 DEF Enqueues
<1>6. ASSUME NEW m \in Message, DequeueReply(f, m)
      PROVE  Leaves(group, group') /\ Grows(inbox, inbox')
  <2>1. PICK w : w = Received(Reply("dequeued", f, m))
    OBVIOUS
  <2>2. \/ Rollbacks(w, f)
        \/ group' = w /\ UNCHANGED inbox
        \/ Enqueues(w, f, m)
    BY <1>6, <2>1, Zenon DEF DequeueReply
  <2>3. group' = w /\ Grows(inbox, inbox')
    BY <1>1, <1>4, <1>5, <2>2
  <2>4. QED
    BY <2>1, <2>3, HearLeaves
<1>7. ASSUME NEW m \in Message, EnqueueReply(f, m)
      PROVE  Leaves(group, group') /\ Grows(inbox, inbox')
  <2>1. PICK w : w = Received(Reply("enqueued", f, m)) /\ Commits(w, f)
    BY <1>7 DEF EnqueueReply
  <2>2. QED
    BY <1>4, <2>1, HearLeaves
<1>8. CASE Forgotten(f)
  <2>1. group' = Received(Reply("forgotten", f, Nobody)) /\ UNCHANGED inbox
    BY <1>8 DEF Forgotten
  <2>2. QED
    BY <1>1, <2>1, HearLeaves
<1>9. CASE ServiceReply(f) \/ ServiceDiscard(f)
  <2>1. UNCHANGED <<group, inbox>> \/ Rollbacks(group, f)
    BY <1>9 DEF ServiceReply, ServiceDiscard
  <2>2. QED
    BY <1>1, <1>4, <2>1
<1>10. CASE CallReply(f)
  <2>1. flow[f].stage = "call" /\ Alive /\ (Enqueues(group, f, flow[f].msg) \/ Rollbacks(group, f))
    BY <1>10 DEF CallReply
  <2>2. flow[f].msg \in Message
    BY <2>1, WhereIs, AliveIs DEF Fits, Resting, Moving, Closed, Orphan
  <2>3. QED
    BY <1>1, <1>4, <1>5, <2>1, <2>2
<1>11. CASE Ended(f)
  <2>1. PICK g, fw, F, S : S \in Begins(g, fw, F) /\ inbox' = inbox \o DequeuesOf(S)
    <3>1. PICK g, F : g = [flow EXCEPT ![f] = In("idle", Nobody)] /\ F = ForwardOf[f]
      OBVIOUS
    <3>2. \E S \in Begins(g, Dropped(g, forward, F), F) : inbox' = inbox \o DequeuesOf(S)
      BY <1>11, <3>1, Zenon DEF Ended
    <3>3. QED
      BY <3>2
  <2>2. PICK k \in {"dequeue", "forget", "rollback"} : k = "dequeue"
    OBVIOUS
  <2>3. S \in SUBSET Flow /\ inbox' = inbox \o SetToSeq({To(k, x, Nobody) : x \in S})
    BY <2>1, <2>2, BeginsIs DEF DequeuesOf
  <2>4. group' = Received(Reply("ended", f, Nobody))
    BY <1>11 DEF Ended
  <2>5. QED
    BY <1>1, <2>3, <2>4, GrowsMany, HearLeaves
<1>12. CASE TmDecides(f)
  <2>1. /\ group' = Received(Reply("prepared", f, Nobody))
        /\ \E k \in {"commit", "prepare", "rollback"} : inbox' = Append(inbox, To(k, f, Nobody))
    BY <1>12 DEF TmDecides
  <2>2. QED
    BY <1>2, <2>1, HearLeaves
<1>13. CASE TmEnds(f)
  <2>1. PICK w : w = Received(Reply("xa", f, Nobody))
    OBVIOUS
  <2>2. Leaves(group, w) /\ w \in [db : Seq(Row), disk : Seq(Row), count : [Queue -> Int],
          involved : SUBSET Flow, registered : SUBSET Flow, dequeues : Seq(Wait),
          held : Seq(Ack), timer : BOOLEAN, mail : SUBSET Mail]
    BY <2>1 DEF Received, Leaves, IInv, Typed, Group
  <2>3. PICK v : v = [w EXCEPT !.registered = @ \ {f}]
    OBVIOUS
  <2>4. group' = [v EXCEPT !.mail = @ \cup {Reply("ended", f, Nobody)}] /\ UNCHANGED inbox
    BY <1>13, <2>1, <2>3 DEF TmEnds, Sent
  <2>5. Leaves(group, group')
    BY <2>2, <2>3, <2>4 DEF Leaves
  <2>6. QED
    BY <1>1, <2>4, <2>5
<1>14. QED
  BY <1>6, <1>7, <1>8, <1>9, <1>10, <1>11, <1>12, <1>13, Zenon DEF FlowNext

(* The steps of the forward that are about no flow, and of the managers.   *)
LEMMA ForwardLeaves ==
  ASSUME IInv,
         \/ ForwardNext \/ Shutdown \/ Dies \/ GroupNotices \/ TmNotices
         \/ \E F \in Forward, n \in Sizes : Update(F, n)
         \/ UNCHANGED vars
  PROVE  Leaves(group, group') /\ Grows(inbox, inbox')
<1>1. inbox \in Seq(Letter) /\ Grows(inbox, inbox)
  BY GrowsNone DEF IInv, Typed
<1>2. group' = group
  <2>1. CASE ForwardNext
    <3>1. CASE ForwardDone \/ SourceDead
      BY <3>1 DEF ForwardDone, SourceDead, groupVars
    <3>2. ASSUME NEW F \in Forward, NEW q \in Looked, LookupReply(F, q)
          PROVE  group' = group
      BY <3>2, Zenon DEF LookupReply
    <3>3. CASE ForwardShutdown
      BY <3>3, Zenon DEF ForwardShutdown, Complies
    <3>4. QED
      BY <2>1, <3>1, <3>2, <3>3, Zenon DEF ForwardNext
  <2>2. CASE Shutdown \/ Dies \/ GroupNotices \/ TmNotices
    BY <2>2 DEF Shutdown, Dies, GroupNotices, TmNotices, Asks, groupVars
  <2>3. CASE \E F \in Forward, n \in Sizes : Update(F, n)
    BY <2>3 DEF Update, Complies
  <2>4. CASE UNCHANGED vars
    BY <2>4 DEF vars, groupVars
  <2>5. QED
    BY <2>1, <2>2, <2>3, <2>4, Zenon
<1>3. ASSUME NEW k \in {"dequeue", "forget", "rollback"}, NEW S \in SUBSET Flow,
             inbox' = inbox \o SetToSeq({To(k, f, Nobody) : f \in S})
      PROVE  Grows(inbox, inbox')
  BY <1>1, <1>3, GrowsMany
<1>4. ASSUME NEW fw, Complies(fw)
      PROVE  Grows(inbox, inbox')
  <2>1. PICK k \in {"dequeue", "forget", "rollback"}, S \in SUBSET Flow :
          k = "forget" /\ S = {x \in Flow : flow[x].stage = "dequeue"}
    OBVIOUS
  <2>2. inbox' = inbox \/ inbox' = inbox \o SetToSeq({To(k, f, Nobody) : f \in S})
    BY <1>4, <2>1, Zenon DEF Complies
  <2>3. QED
    BY <1>1, <1>3, <2>2
<1>5. ASSUME NEW F \in Forward, NEW q \in Looked, LookupReply(F, q)
      PROVE  Grows(inbox, inbox')
  <2>1. \/ inbox' = inbox
        \/ \E fw, S : /\ S \in Begins(flow, fw, F) \/ S = {}
                      /\ inbox' = inbox \o DequeuesOf(S)
    <3>1. PICK fw : \/ inbox' = inbox
                    \/ \E S \in IF fw[F].known = Looked THEN Begins(flow, fw, F) ELSE {{}} :
                         inbox' = inbox \o DequeuesOf(S)
      BY <1>5, Zenon DEF LookupReply
    <3>2. QED
      BY <3>1
  <2>2. ASSUME NEW fw, NEW S, S \in Begins(flow, fw, F) \/ S = {}, inbox' = inbox \o DequeuesOf(S)
        PROVE  Grows(inbox, inbox')
    <3>1. S \in SUBSET Flow
      BY <2>2, BeginsIs
    <3>2. PICK k \in {"dequeue", "forget", "rollback"} : k = "dequeue"
      OBVIOUS
    <3>3. QED
      BY <1>3, <2>2, <3>1, <3>2 DEF DequeuesOf
  <2>3. QED
    BY <1>1, <2>1, <2>2
<1>6. CASE ForwardNext
  <2>1. CASE ForwardShutdown
    <3>1. PICK fw : Complies(fw)
      BY <2>1, Zenon DEF ForwardShutdown
    <3>2. QED
      BY <1>2, <1>4, <3>1 DEF Leaves
  <2>2. CASE ForwardDone \/ SourceDead
    BY <1>1, <1>2, <2>2 DEF ForwardDone, SourceDead, groupVars, Leaves
  <2>3. QED
    BY <1>2, <1>5, <1>6, <2>1, <2>2 DEF ForwardNext, Leaves
<1>7. CASE \E F \in Forward, n \in Sizes : Update(F, n)
  <2>1. PICK fw : Complies(fw)
    BY <1>7, Zenon DEF Update
  <2>2. QED
    BY <1>2, <1>4, <2>1 DEF Leaves
<1>8. CASE Shutdown
  <2>1. PICK l \in Letter : l = To("shutdown", Nobody, Nobody)
    BY LettersAre
  <2>2. Harmless(l) /\ inbox' = Append(inbox, l)
    BY <1>8, <2>1, ToIs DEF Harmless, Shutdown, Asks
  <2>3. QED
    BY <1>1, <1>2, <2>2, GrowsOne DEF Leaves
<1>9. CASE GroupNotices
  <2>1. PICK l \in Letter : l = To("exit", Flow, Nobody)
    BY LettersAre DEF Who
  <2>2. Harmless(l) /\ inbox' = Append(inbox, l)
    BY <1>9, <2>1, ToIs, QueueAssumption DEF Harmless, GroupNotices, Asks
  <2>3. QED
    BY <1>1, <1>2, <2>2, GrowsOne DEF Leaves
<1>10. CASE TmNotices
  <2>1. PICK k \in {"dequeue", "forget", "rollback"} : k = "rollback"
    OBVIOUS
  <2>2. PICK S : S = {f \in group.registered : flow[f].stage \notin {"commit", "rollback"}}
    OBVIOUS
  <2>3. S \in SUBSET Flow
    BY <2>2 DEF IInv, Typed, Group
  <2>4. inbox' = inbox \o SetToSeq({To(k, f, Nobody) : f \in S})
    BY <1>10, <2>1, <2>2 DEF TmNotices
  <2>5. QED
    BY <1>2, <1>3, <2>3, <2>4 DEF Leaves
<1>11. CASE Dies \/ UNCHANGED vars
  BY <1>1, <1>2, <1>11 DEF Dies, vars, groupVars, Leaves
<1>12. QED
  BY <1>6, <1>7, <1>8, <1>9, <1>10, <1>11
-----------------------------------------------------------------------------
(* The counts are those of the rows, and a dequeue that waits is one that  *)
(* was asked for.                                                          *)
Kept == Neat(group)

(* The books are kept, at every step.                                      *)
LEMMA KeptStep ==
  ASSUME IInv, Kept, [Next]_vars
  PROVE  Kept'
<1>1. group \in Group /\ inbox \in Seq(Letter) /\ Neat(group)
  BY DEF IInv, Typed, Kept
<1>2. CASE Handle
  <2>1. PICK l : l = Head(inbox)
    OBVIOUS
  <2>2. l \in Letter /\ group' = Handled(group, l)
    BY <1>1, <1>2, <2>1, TailSet DEF Handle, Becomes
  <2>3. QED
    BY <1>1, <2>2, HandledMinds DEF Minds, Kept
<1>3. CASE Idle
  <2>1. group' = Persisted(group)
    BY <1>3 DEF Idle, Becomes
  <2>2. QED
    BY <1>1, <2>1, PersistedNeat DEF Kept
<1>4. CASE Clock
  <2>1. PICK s : group' = [group EXCEPT !.db = Now(@, s), !.disk = Now(@, s), !.timer = FALSE]
    BY <1>4, Zenon DEF Clock, Now
  <2>2. QED
    BY <1>1, <2>1, NowNeat DEF Kept
<1>5. CASE Leaves(group, group')
  <2>1. ToSet(group'.dequeues) \subseteq ToSet(group.dequeues)
    BY <1>5 DEF Leaves
  <2>2. QED
    BY <1>1, <1>5, <2>1, SameNeat DEF Leaves, Kept
<1>6. Leaves(group, group') \/ Handle \/ Idle \/ Clock
  BY ClientsLeave, FlowLeaves, ForwardLeaves, Zenon DEF Next, GroupNext
<1>7. QED
  BY <1>2, <1>3, <1>4, <1>5, <1>6

(* Who waits is watched, unless the alarm has gone off; and no letter      *)
(* takes the reply to a producer with it.                                  *)
Alarm == To("timeout", Nobody, Nobody)
Awake ==
  /\ \A l \in ToSet(inbox) : Harmless(l)
  /\ Alarm \in ToSet(inbox) \/ Watched(group)

(* Every step keeps it that way.                                           *)
LEMMA AwakeStep ==
  ASSUME IInv, Kept, Awake, Patient, Punctual, [Next]_vars
  PROVE  Awake'
<1>1. /\ group \in Group /\ inbox \in Seq(Letter) /\ Neat(group) /\ Patient /\ Punctual
      /\ \A l \in ToSet(inbox) : Harmless(l)
      /\ Alarm \in ToSet(inbox) \/ Watched(group)
  BY DEF IInv, Typed, Kept, Awake
<1>2. CASE Handle
  <2>1. PICK l : l = Head(inbox)
    OBVIOUS
  <2>2. l \in Letter /\ group' = Handled(group, l) /\ inbox' = Tail(inbox)
    BY <1>1, <1>2, <2>1, TailSet DEF Handle, Becomes
  <2>3. ToSet(inbox) = ToSet(inbox') \cup {l}
    BY <1>1, <1>2, <2>1, <2>2, TailSet DEF Handle
  <2>4. Minds(group, l, group')
    BY <1>1, <2>2, HandledMinds
  <2>5. Alarm \notin ToSet(inbox') => l.kind = "timeout" \/ Watched(group)
    BY <1>1, <2>3, ToIs DEF Alarm
  <2>6. QED
    BY <1>1, <2>3, <2>4, <2>5 DEF Minds, Awake
<1>3. CASE Idle
  <2>1. group' = Persisted(group) /\ group.held # <<>> /\ inbox' = inbox
    BY <1>3 DEF Idle, Becomes
  <2>2. Watched(group')
    BY <1>1, <2>1, PersistedNeat
  <2>3. QED
    BY <1>1, <2>1, <2>2 DEF Awake
<1>4. CASE Clock
  <2>1. PICK s : group' = [group EXCEPT !.db = Now(@, s), !.disk = Now(@, s), !.timer = FALSE]
    BY <1>4, Zenon DEF Clock, Now
  <2>2. Watched(group) /\ ~ group.timer => Watched(group')
    BY <1>1, <2>1, NowNeat
  <2>3. CASE group.timer
    <3>1. PICK l : l = Alarm
      OBVIOUS
    <3>2. l \in Letter /\ Harmless(l)
      BY <3>1, ToIs DEF Alarm, To, Letter, LetterKind, Harmless
    <3>3. inbox' = Append(inbox, l)
      BY <1>4, <2>3, <3>1 DEF Clock, Alarm
    <3>4. ToSet(inbox') = ToSet(inbox) \cup {l}
      BY <1>1, <3>2, <3>3, AppendSet
    <3>5. QED
      BY <1>1, <3>1, <3>2, <3>4 DEF Awake
  <2>4. CASE ~ group.timer
    <3>1. inbox' = inbox
      BY <1>4, <2>4 DEF Clock
    <3>2. QED
      BY <1>1, <2>2, <2>4, <3>1 DEF Awake
  <2>5. QED
    BY <2>3, <2>4
<1>5. CASE Leaves(group, group') /\ Grows(inbox, inbox')
  <2>1. PICK s \in Seq(Letter) : inbox' = inbox \o s /\ \A l \in ToSet(s) : Harmless(l)
    BY <1>5 DEF Grows
  <2>2. ToSet(inbox') = ToSet(inbox) \cup ToSet(s)
    BY <1>1, <2>1, ConcatSet
  <2>3. ToSet(group'.dequeues) \subseteq ToSet(group.dequeues)
    BY <1>5 DEF Leaves
  <2>4. Watched(group) => Watched(group')
    BY <1>1, <1>5, <2>3, SameNeat DEF Leaves
  <2>5. QED
    BY <1>1, <2>1, <2>2, <2>4 DEF Awake
<1>6. (Leaves(group, group') /\ Grows(inbox, inbox')) \/ Handle \/ Idle \/ Clock
  BY <1>1, ClientsLeave, FlowLeaves, ForwardLeaves, Zenon DEF Next, GroupNext
<1>7. QED
  BY <1>2, <1>3, <1>4, <1>5, <1>6

(* At the start there are no rows, and nobody waits.                       *)
LEMMA InitAwake == Init => Kept /\ Awake
<1> SUFFICES ASSUME Init
             PROVE  Kept /\ Awake
  OBVIOUS
<1>1. /\ group.db = <<>> /\ group.dequeues = <<>> /\ inbox = <<>>
      /\ group.count = [q \in Queue |-> 0]
  BY DEF Init, GroupInit
<1>2. DOMAIN <<>> = {}
  OBVIOUS
<1>3. ToSet(group.dequeues) = {} /\ ToSet(inbox) = {}
  BY <1>1, <1>2 DEF ToSet
<1>4. Exact(group.db, group.count)
  <2>1. ASSUME NEW q \in Queue
        PROVE  group.count[q] = Cardinality(Seen(group.db, q))
    <3>1. Seen(group.db, q) = {}
      BY <1>1, <1>2 DEF Seen
    <3>2. QED
      BY <1>1, <3>1, FS_EmptySet
  <2>2. QED
    BY <2>1 DEF Exact
<1>5. Placed(group.db)
  BY <1>1, <1>2 DEF Placed
<1>6. QED
  BY <1>3, <1>4, <1>5 DEF Kept, Awake, Neat, Booked, Asking, Watched

(* A dequeue that waits beside a message of its queue, with an empty       *)
(* inbox, has the alarm set, or a write or a transaction to wait for.      *)
LEMMA AwakeIs == IInv /\ Awake => NoLostDequeue
<1> SUFFICES ASSUME IInv, Awake, inbox = <<>>, group.held = <<>>, group.involved = {}, ~ group.timer,
                    NEW d \in ToSet(group.dequeues), NEW r \in ToSet(group.db),
                    r.queue = d.queue, r.state = "enqueued"
             PROVE  FALSE
  BY DEF NoLostDequeue
<1>1. Watched(group)
  <2>1. DOMAIN <<>> = {}
    OBVIOUS
  <2>2. ToSet(inbox) = {}
    BY <2>1 DEF ToSet
  <2>3. QED
    BY <2>2 DEF Awake
<1>2. Avail(group.db, d.queue) = {} /\ ~ Delayed(group.db, d.queue)
  BY <1>1 DEF Watched
<1>3. PICK n \in DOMAIN group.db : r = group.db[n]
  BY DEF ToSet
<1>4. n \notin Avail(group.db, d.queue)
  BY <1>2
<1>5. QED
  BY <1>2, <1>3, <1>4 DEF Avail, Delayed
-----------------------------------------------------------------------------
(* The rest of the types: what a forward knows, and the two runlevels.     *)
Config == [configured : Nat, known : SUBSET Looked, lookups : [Looked -> Nat]]
Shaped ==
  /\ level \in {"running", "shutdown", "gone"}
  /\ run \in {"running", "asked", "shutdown", "done", "dead"}
  /\ forward \in [Forward -> Config]

(* A forward without instances forgets its queues.                         *)
LEMMA DroppedConfig ==
  ASSUME NEW fl, NEW fw \in [Forward -> Config], NEW F \in Forward
  PROVE  Dropped(fl, fw, F) \in [Forward -> Config]
<1>1. [fw[F] EXCEPT !.known = {}] \in Config
  BY DEF Config
<1>2. QED
  BY <1>1 DEF Dropped

(* A configuration that is complied with.                                  *)
LEMMA CompliedConfig ==
  ASSUME NEW fw \in [Forward -> Config], Complies(fw)
  PROVE  forward' \in [Forward -> Config] /\ level' = level
<1>1. PICK kept \in [Forward -> [Looked -> 0 .. MaxUpdates]] :
        forward' = [F \in Forward |-> [fw[F] EXCEPT !.lookups =
                      [q \in Looked |-> kept[F][q] + IF fw[F].configured > 0 THEN 1 ELSE 0]]]
  BY Zenon DEF Complies
<1>2. ASSUME NEW F \in Forward
      PROVE  forward'[F] \in Config
  <2>1. PICK c : c = fw[F]
    OBVIOUS
  <2>2. PICK s : s = [q \in Looked |-> kept[F][q] + IF c.configured > 0 THEN 1 ELSE 0]
    OBVIOUS
  <2>3. s \in [Looked -> Nat]
    <3>1. \A q \in Looked : kept[F][q] \in Nat
      BY ForwardAssumption
    <3>2. QED
      BY <2>2, <3>1
  <2>4. c \in Config /\ forward'[F] = [c EXCEPT !.lookups = s]
    BY <1>1, <2>1, <2>2
  <2>5. QED
    BY <2>3, <2>4 DEF Config
<1>3. forward' = [F \in Forward |-> forward'[F]]
  BY <1>1
<1>4. forward' \in [Forward -> Config]
  BY <1>2, <1>3
<1>5. QED
  BY <1>4 DEF Complies

(* The steps of the group and of its clients leave the forward alone.      *)
LEMMA GroupShaped ==
  ASSUME Shaped, GroupNext, UNCHANGED forwardVars
  PROVE  Shaped'
<1>1. level' \in {"running", "shutdown", "gone"}
  <2>1. CASE Handle \/ Idle \/ Clock
    BY <2>1 DEF Handle, Idle, Clock, Becomes, Shaped
  <2>2. CASE Restore \/ \E m \in Message : Produce(m) \/ ProducerExit(m)
    BY <2>2 DEF Restore, Produce, ProducerExit, Asks, Shaped
  <2>3. ASSUME NEW c \in Consumer,
               Consume(c) \/ ConsumerGets(c) \/ ConsumerLeaves(c) \/ ConsumerDies(c) \/ ConsumerExit(c)
        PROVE  level' = level
    BY <2>3 DEF Consume, ConsumerGets, ConsumerLeaves, ConsumerDies, ConsumerExit, Asks, groupVars
  <2>4. QED
    BY <2>1, <2>2, <2>3, Zenon DEF GroupNext, Shaped
<1>2. QED
  BY <1>1 DEF Shaped, forwardVars

(* Those of a flow: one that has ended may be the last.                    *)
LEMMA FlowShaped ==
  ASSUME Shaped, NEW f \in Flow, FlowNext(f)
  PROVE  Shaped'
<1>1. ForwardOf[f] \in Forward
  BY ForwardAssumption
<1>2. level' = level /\ run' = run
  BY DEF FlowNext, DequeueReply, EnqueueReply, Forgotten, ServiceReply, ServiceDiscard, CallReply,
         Ended, TmDecides, TmEnds, forwardVars
<1>3. forward' = forward \/ \E fl : forward' = Dropped(fl, forward, ForwardOf[f])
  <2>1. CASE \E m \in Message : DequeueReply(f, m) \/ EnqueueReply(f, m)
    BY <2>1 DEF DequeueReply, EnqueueReply
  <2>2. CASE Forgotten(f)
    BY <2>2 DEF Forgotten
  <2>3. CASE ServiceReply(f) \/ ServiceDiscard(f) \/ CallReply(f)
    BY <2>3 DEF ServiceReply, ServiceDiscard, CallReply
  <2>4. CASE Ended(f)
    BY <2>4, Zenon DEF Ended
  <2>5. CASE TmDecides(f) \/ TmEnds(f)
    BY <2>5 DEF TmDecides, TmEnds, forwardVars
  <2>6. QED
    BY <2>1, <2>2, <2>3, <2>4, <2>5, Zenon DEF FlowNext
<1>4. forward' \in [Forward -> Config]
  BY <1>1, <1>3, DroppedConfig DEF Shaped
<1>5. QED
  BY <1>2, <1>4 DEF Shaped

(* Those of the forward and of the managers.                               *)
LEMMA ForwardShaped ==
  ASSUME Shaped,
         \/ ForwardNext \/ Shutdown \/ Dies \/ GroupNotices \/ TmNotices
         \/ \E F \in Forward, n \in Sizes : Update(F, n)
  PROVE  Shaped'
<1>1. ASSUME NEW F \in Forward, NEW q \in Looked, LookupReply(F, q)
      PROVE  Shaped'
  <2>1. PICK a : a = [forward EXCEPT ![F].lookups[q] = @ - 1]
    OBVIOUS
  <2>2. PICK b : b = [a EXCEPT ![F].known = @ \cup {q}]
    OBVIOUS
  <2>3. forward[F].lookups[q] > 0 /\ (forward' = a \/ forward' = b) /\ UNCHANGED <<level, run>>
    BY <1>1, <2>1, <2>2, Zenon DEF LookupReply
  <2>4. a \in [Forward -> Config]
    <3>1. PICK c : c = forward[F]
      OBVIOUS
    <3>2. c \in Config /\ c.lookups[q] > 0
      BY <2>3, <3>1 DEF Shaped
    <3>3. [c EXCEPT !.lookups[q] = @ - 1] \in Config
      BY <3>2 DEF Config
    <3>4. a = [forward EXCEPT ![F] = [c EXCEPT !.lookups[q] = @ - 1]]
      BY <2>1, <3>1
    <3>5. QED
      BY <3>3, <3>4 DEF Shaped
  <2>5. b \in [Forward -> Config]
    <3>1. PICK c : c = a[F]
      OBVIOUS
    <3>2. [c EXCEPT !.known = @ \cup {q}] \in Config
      BY <2>4, <3>1 DEF Config
    <3>3. b = [a EXCEPT ![F] = [c EXCEPT !.known = @ \cup {q}]]
      BY <2>2, <3>1
    <3>4. QED
      BY <2>4, <3>2, <3>3
  <2>6. QED
    BY <2>3, <2>4, <2>5 DEF Shaped
<1>2. CASE ForwardShutdown
  <2>1. PICK fw : fw = [F \in Forward |-> [forward[F] EXCEPT !.configured = 0]]
    OBVIOUS
  <2>2. fw \in [Forward -> Config]
    BY <2>1 DEF Shaped, Config
  <2>3. Complies(fw) /\ run' = "shutdown"
    BY <1>2, <2>1, Zenon DEF ForwardShutdown
  <2>4. QED
    BY <2>2, <2>3, CompliedConfig DEF Shaped
<1>3. CASE ForwardDone \/ Dies
  BY <1>3 DEF ForwardDone, Dies, groupVars, Shaped
<1>4. CASE SourceDead
  <2>1. PICK fl : forward' = [F \in Forward |-> Dropped(fl, forward, F)[F]]
    BY <1>4, Zenon DEF SourceDead
  <2>2. \A F \in Forward : Dropped(fl, forward, F)[F] \in Config
    BY DroppedConfig DEF Shaped
  <2>3. level' = level /\ run' = run
    BY <1>4 DEF SourceDead, groupVars
  <2>4. QED
    BY <2>1, <2>2, <2>3 DEF Shaped
<1>5. CASE Shutdown \/ GroupNotices \/ TmNotices
  BY <1>5 DEF Shutdown, GroupNotices, TmNotices, Asks, Shaped
<1>6. ASSUME NEW F \in Forward, NEW n \in Sizes, Update(F, n)
      PROVE  Shaped'
  <2>1. PICK fw : fw = [forward EXCEPT ![F].configured = n]
    OBVIOUS
  <2>2. fw \in [Forward -> Config]
    BY <2>1, ForwardAssumption DEF Shaped, Config
  <2>3. Complies(fw) /\ run' = run
    BY <1>6, <2>1, Zenon DEF Update
  <2>4. QED
    BY <2>2, <2>3, CompliedConfig DEF Shaped
<1>7. QED
  BY <1>1, <1>2, <1>3, <1>4, <1>5, <1>6, Zenon DEF ForwardNext

(* Every step keeps them.                                                  *)
LEMMA ShapedStep == Shaped /\ [Next]_vars => Shaped'
<1> SUFFICES ASSUME Shaped, [Next]_vars
             PROVE  Shaped'
  OBVIOUS
<1>1. CASE UNCHANGED vars
  BY <1>1 DEF vars, groupVars, forwardVars, Shaped
<1>2. QED
  BY <1>1, GroupShaped, FlowShaped, ForwardShaped, Zenon DEF Next

(* They hold at the start.                                                 *)
LEMMA InitShaped == Init => Shaped
<1> SUFFICES ASSUME Init
             PROVE  Shaped
  OBVIOUS
<1>1. PICK c : c = [configured |-> 0, known |-> {}, lookups |-> [q \in Looked |-> 0]]
  OBVIOUS
<1>2. c \in Config /\ forward = [F \in Forward |-> c]
  BY <1>1 DEF Config, Init
<1>3. QED
  BY <1>2 DEF Init, GroupInit, Shaped

(* The counts are those of rows, of which there are finitely many.         *)
LEMMA TypesAre == IInv /\ Kept /\ Shaped => TypeOK
<1> SUFFICES ASSUME IInv, Kept, Shaped
             PROVE  TypeOK
  OBVIOUS
<1>1. group \in Group
  BY DEF IInv, Typed
<1>2. group.count \in [Queue -> Nat]
  <2>1. PICK db, count : db = group.db /\ count = group.count
    OBVIOUS
  <2>2. db \in Seq(Row) /\ count \in [Queue -> Int] /\ Exact(db, count)
    BY <1>1, <2>1 DEF Group, Kept, Neat, Booked
  <2>3. ASSUME NEW q \in Queue
        PROVE  count[q] \in Nat
    <3>1. PICK S \in SUBSET DOMAIN db : S = Seen(db, q)
      BY DEF Seen
    <3>2. Cardinality(S) \in Nat
      BY <2>2, SeenIs
    <3>3. QED
      BY <2>2, <3>1, <3>2 DEF Exact
  <2>4. QED
    BY <2>1, <2>2, <2>3
<1>3. \A F \in Forward : forward[F].known \subseteq Looked
  BY DEF Shaped, Config
<1>4. Wait = [who : Flow \cup Consumer, queue : Queue]
  BY DEF Wait
<1>5. QED
  BY <1>1, <1>2, <1>3, <1>4 DEF IInv, Typed, Group, Shaped, Carried, TypeOK

(* The types of the group and of its forwards; above all, that the counts  *)
(* the triggers of the database keep never fall below zero, whoever        *)
(* commits, rolls back or restores.                                        *)
THEOREM QueueTypes == Spec => []TypeOK
<1>1. Init => Kept
  BY InitAwake
<1>2. IInv /\ Kept /\ [Next]_vars => Kept'
  BY KeptStep
<1>3. QED
  BY QueueInvariant, InitShaped, ShapedStep, TypesAre, <1>1, <1>2, PTL DEF Spec

(* A dequeue that waits beside a message of its queue will be woken: by    *)
(* the next write, by the end of a transaction or by the alarm             *)
(* (pending::dequeues).  Not if a producer dies whose reply is held, which *)
(* takes the write with it; nor if a consumer outside of a transaction may *)
(* take what is available and leave another dequeue with delayed messages: *)
(* the loop unsets the alarm that it has just set for that one.            *)
THEOREM WaitersAreWoken ==
  ASSUME Patient, Punctual
  PROVE  Spec => []NoLostDequeue
<1>1. Init => Kept /\ Awake
  BY InitAwake
<1>2. IInv /\ Kept /\ [Next]_vars => Kept'
  BY KeptStep
<1>3. IInv /\ Kept /\ Awake /\ [Next]_vars => Awake'
  BY AwakeStep
<1>4. IInv /\ Awake => NoLostDequeue
  BY AwakeIs
<1>5. QED
  BY QueueInvariant, <1>1, <1>2, <1>3, <1>4, PTL DEF Spec
=============================================================================
