----------------------------- MODULE QueueProofs -----------------------------
(***************************************************************************)
(* What the handlers of a queue group do to its state, each by itself: to  *)
(* the rows of the database, to the dequeues that wait and to the replies  *)
(* that are held or sent; that they keep the counts of the queues (Booked) *)
(* and leave no dequeue beside what it waits for (Watched).                *)
(* QueueFlowProofs follows the flows through them.                         *)
(***************************************************************************)
EXTENDS QueueForward, LoopProofs, FiniteSetTheorems
-----------------------------------------------------------------------------
(* The types: letters to the group, letters from it, dequeues that wait.   *)
Who == Flow \cup Consumer \cup Message
LetterKind == {"dequeue", "enqueue", "commit", "rollback", "prepare"}
MailKind == {"dequeued", "enqueued", "forgotten", "prepared", "xa", "ended"}

Letter ==
  {l \in [kind : LetterKind \cup {"forget", "restore", "timeout", "exit", "shutdown"},
          who : Who \cup {Nobody} \cup SUBSET Who, msg : Message \cup {Nobody}] :
     /\ l.kind = "enqueue" => \/ l.who \in Flow /\ l.msg \in Message
                              \/ l.who \in Message /\ l.msg = l.who
     /\ l.kind \in {"dequeue", "forget"} => l.who \in Flow \cup Consumer /\ l.msg = Nobody
     /\ l.kind \in {"commit", "rollback", "prepare"} => l.who \in Flow /\ l.msg = Nobody
     /\ l.kind = "exit" => l.who \in SUBSET Who}

Mail ==
  {r \in [kind : MailKind, to : Who, msg : Message \cup {Nobody}] :
     /\ r.kind = "dequeued" => r.to \in Flow \cup Consumer /\ r.msg \in Message
     /\ r.kind = "enqueued" => \/ r.to \in Flow /\ r.msg \in Message
                               \/ r.to \in Message /\ r.msg = r.to
     /\ r.kind = "forgotten" => r.to \in Flow \cup Consumer /\ r.msg = Nobody
     /\ r.kind \in {"prepared", "xa", "ended"} => r.to \in Flow /\ r.msg = Nobody}

Ack == {r \in Mail : r.kind = "xa" \/ (r.kind = "enqueued" /\ r.to \in Message)}

Wait == [who : Flow \cup Consumer, queue : Queue]

Group ==
  [db : Seq(Row), disk : Seq(Row), count : [Queue -> Int], involved : SUBSET Flow,
   registered : SUBSET Flow, dequeues : Seq(Wait), held : Seq(Ack), timer : BOOLEAN,
   mail : SUBSET Mail]
-----------------------------------------------------------------------------
(* The database.  What a transaction has taken and what it has added; the  *)
(* messages that are there at all, and those that a dequeue could find or  *)
(* has found.                                                              *)
Takes(db, f) ==
  {m \in Message : \E n \in DOMAIN db :
     db[n].msg = m /\ db[n].gtrid = f /\ db[n].state = "dequeued"}
Adds(db, f) ==
  {m \in Message : \E n \in DOMAIN db :
     db[n].msg = m /\ db[n].gtrid = f /\ db[n].state = "added"}
Has(db, m) == \E n \in DOMAIN db : db[n].msg = m
Shows(db, m) == \E n \in DOMAIN db : db[n].msg = m /\ Visible(db[n])

(* No message is there twice, but for the row that a transaction adds.     *)
Tidy(db) ==
  /\ \A n \in DOMAIN db : db[n].state # "enqueued" => db[n].gtrid \in Flow
  /\ \A n, k \in DOMAIN db :
       db[n].msg = db[k].msg /\ (Visible(db[n]) <=> Visible(db[k])) => n = k

(* Two databases that cannot be told apart by what has been defined.       *)
Alike(d, db) ==
  /\ \A f \in Flow : Takes(d, f) = Takes(db, f) /\ Adds(d, f) = Adds(db, f)
  /\ \A m \in Message : (Has(d, m) <=> Has(db, m)) /\ (Shows(d, m) <=> Shows(db, m))

(* All rows can be told from each other by their position.                 *)
LEMMA RowOf ==
  ASSUME NEW db \in Seq(Row), NEW n \in DOMAIN db
  PROVE  /\ db[n] \in Row /\ db[n].msg \in Message /\ db[n].gtrid \in Flow \cup {Nobody}
         /\ db[n].state \in {"added", "enqueued", "dequeued"}
         /\ DOMAIN db = 1 .. Len(db) /\ Len(db) \in Nat
<1>1. db[n] \in Row /\ DOMAIN db = 1 .. Len(db) /\ Len(db) \in Nat
  OBVIOUS
<1>2. QED
  BY <1>1 DEF Row

(* A row that can be appended, and what it adds to a transaction.          *)
Fresh(r, db) ==
  /\ r.state = "enqueued" \/ (r.state = "added" /\ r.gtrid \in Flow)
  /\ \A n \in DOMAIN db : db[n].msg = r.msg => (Visible(db[n]) <=> ~ Visible(r))
AddedBy(r, f) == IF r.state = "added" /\ r.gtrid = f THEN {r.msg} ELSE {}

(* d tells of the rows of db, and of r.                                    *)
Grown(d, db, r) ==
  /\ \A f \in Flow : Takes(d, f) = Takes(db, f) /\ Adds(d, f) = Adds(db, f) \cup AddedBy(r, f)
  /\ \A m \in Message : /\ Has(d, m) <=> Has(db, m) \/ m = r.msg
                        /\ Shows(d, m) <=> Shows(db, m) \/ (m = r.msg /\ Visible(r))

(* What enqueue appends.                                                   *)
LEMMA AppendRow ==
  ASSUME NEW db \in Seq(Row), Tidy(db), NEW r \in Row, NEW d, d = Append(db, r), Fresh(r, db)
  PROVE  d \in Seq(Row) /\ Tidy(d) /\ Grown(d, db, r)
<1>1. PICK l \in Nat : l = Len(db) /\ DOMAIN db = 1 .. l
  OBVIOUS
<1>2. /\ d \in Seq(Row) /\ DOMAIN d = 1 .. l + 1 /\ d[l + 1] = r
      /\ \A n \in 1 .. l : d[n] = db[n] /\ n \in 1 .. l + 1 /\ n # l + 1
      /\ \A n \in 1 .. l + 1 : n = l + 1 \/ n \in 1 .. l
      /\ l + 1 \in 1 .. l + 1
  BY <1>1
<1>3. Tidy(d)
  BY <1>1, <1>2 DEF Tidy, Visible, Fresh
<1>4. r.msg \in Message
  BY DEF Row
<1>5. \A f \in Flow : Takes(d, f) = Takes(db, f)
  BY <1>1, <1>2 DEF Takes, Fresh
<1>6. \A f \in Flow : Adds(d, f) = Adds(db, f) \cup AddedBy(r, f)
  BY <1>1, <1>2, <1>4 DEF Adds, AddedBy
<1>7. \A m \in Message : /\ Has(d, m) <=> Has(db, m) \/ m = r.msg
                         /\ Shows(d, m) <=> Shows(db, m) \/ (m = r.msg /\ Visible(r))
  BY <1>1, <1>2 DEF Has, Shows
<1>8. QED
  BY <1>2, <1>3, <1>5, <1>6, <1>7 DEF Grown

(* A change that keeps messages, states and transactions is none.          *)
AsRows(d, db) ==
  /\ DOMAIN d = DOMAIN db
  /\ \A n \in DOMAIN db :
       d[n].msg = db[n].msg /\ d[n].state = db[n].state /\ d[n].gtrid = db[n].gtrid

(* Such a database cannot be told from the other.                          *)
LEMMA SameRows ==
  ASSUME NEW db, NEW d, AsRows(d, db)
  PROVE  Alike(d, db) /\ (Tidy(db) => Tidy(d))
<1>1. \A f \in Flow : Takes(d, f) = Takes(db, f)
  BY DEF Takes, AsRows
<1>2. \A f \in Flow : Adds(d, f) = Adds(db, f)
  BY DEF Adds, AsRows
<1>3. \A m \in Message : (Has(d, m) <=> Has(db, m)) /\ (Shows(d, m) <=> Shows(db, m))
  BY DEF Has, Shows, Visible, AsRows
<1>4. Tidy(db) => Tidy(d)
  BY DEF Tidy, Visible, AsRows
<1>5. QED
  BY <1>1, <1>2, <1>3, <1>4 DEF Alike

(* d tells of the rows of db at the positions in S, and of no others.      *)
Tells(d, db, S) ==
  /\ \A f \in Flow, m \in Message :
       /\ m \in Takes(d, f) <=> \E n \in S : db[n].msg = m /\ db[n].gtrid = f
                                             /\ db[n].state = "dequeued"
       /\ m \in Adds(d, f) <=> \E n \in S : db[n].msg = m /\ db[n].gtrid = f
                                            /\ db[n].state = "added"
  /\ \A m \in Message : /\ Has(d, m) <=> \E n \in S : db[n].msg = m
                        /\ Shows(d, m) <=> \E n \in S : db[n].msg = m /\ Visible(db[n])

(* A database that is left with the rows at some positions of another.     *)
LEMMA KeptRows ==
  ASSUME NEW db \in Seq(Row), NEW d \in Seq(Row), NEW S \in SUBSET DOMAIN db, NEW h,
         Keeps(h, d, db, S)
  PROVE  (Tidy(db) => Tidy(d)) /\ Tells(d, db, S)
<1>1. ASSUME Tidy(db) PROVE Tidy(d)
  <2>1. \A n \in DOMAIN d : d[n].state # "enqueued" => d[n].gtrid \in Flow
    BY <1>1 DEF Tidy, Keeps
  <2>2. \A n, k \in DOMAIN d :
          d[n].msg = d[k].msg /\ (Visible(d[n]) <=> Visible(d[k])) => n = k
    BY <1>1 DEF Tidy, Keeps
  <2>3. QED
    BY <2>1, <2>2 DEF Tidy
<1>2. ASSUME NEW f \in Flow, NEW m \in Message
      PROVE  /\ m \in Takes(d, f) <=> \E n \in S : db[n].msg = m /\ db[n].gtrid = f
                                                   /\ db[n].state = "dequeued"
             /\ m \in Adds(d, f) <=> \E n \in S : db[n].msg = m /\ db[n].gtrid = f
                                                  /\ db[n].state = "added"
  BY DEF Takes, Adds, Keeps
<1>3. ASSUME NEW m \in Message
      PROVE  /\ Has(d, m) <=> \E n \in S : db[n].msg = m
             /\ Shows(d, m) <=> \E n \in S : db[n].msg = m /\ Visible(db[n])
  BY DEF Has, Shows, Keeps
<1>4. QED
  BY <1>1, <1>2, <1>3 DEF Tells

(* A visible row is the only one of its message, unless it is being moved. *)
LEMMA OneRow ==
  ASSUME NEW db \in Seq(Row), Tidy(db), NEW n \in DOMAIN db, Visible(db[n]),
         \A f \in Flow : db[n].msg \notin Adds(db, f)
  PROVE  \A k \in DOMAIN db : db[k].msg = db[n].msg => k = n
<1> SUFFICES ASSUME NEW k \in DOMAIN db, db[k].msg = db[n].msg, k # n PROVE FALSE
  OBVIOUS
<1>1. ~ Visible(db[k])
  BY DEF Tidy
<1>2. db[k].state = "added" /\ db[k].gtrid \in Flow /\ db[k].msg \in Message
  BY <1>1, RowOf DEF Visible, Tidy
<1>3. QED
  BY <1>2 DEF Adds

(* A dequeue outside of a transaction takes the row away.                  *)
LEMMA RemoveRow ==
  ASSUME NEW db \in Seq(Row), Tidy(db), NEW n \in DOMAIN db, db[n].state = "enqueued",
         \A f \in Flow : db[n].msg \notin Adds(db, f), NEW d, d = RemoveAt(db, n)
  PROVE  /\ d \in Seq(Row) /\ Tidy(d)
         /\ \A f \in Flow : Takes(d, f) = Takes(db, f) /\ Adds(d, f) = Adds(db, f)
         /\ \A m \in Message : /\ Has(d, m) <=> Has(db, m) /\ m # db[n].msg
                               /\ Shows(d, m) <=> Shows(db, m) /\ m # db[n].msg
<1>1. PICK S \in SUBSET DOMAIN db : S = DOMAIN db \ {n}
  OBVIOUS
<1>2. d \in Seq(Row) /\ \E h : Keeps(h, d, db, S)
  BY <1>1, RemoveAtIs
<1>3. Tidy(d) /\ Tells(d, db, S)
  BY <1>1, <1>2, KeptRows
<1>4. \A k \in DOMAIN db : db[k].msg = db[n].msg => k = n
  BY OneRow DEF Visible
<1>5. ASSUME NEW f \in Flow PROVE Takes(d, f) = Takes(db, f) /\ Adds(d, f) = Adds(db, f)
  <2>1. \A m \in Message : m \in Takes(d, f) <=> m \in Takes(db, f)
    BY <1>1, <1>3 DEF Takes, Tells
  <2>2. \A m \in Message : m \in Adds(d, f) <=> m \in Adds(db, f)
    BY <1>1, <1>3 DEF Adds, Tells
  <2>3. QED
    BY <2>1, <2>2 DEF Takes, Adds
<1>6. \A m \in Message : /\ Has(d, m) <=> Has(db, m) /\ m # db[n].msg
                         /\ Shows(d, m) <=> Shows(db, m) /\ m # db[n].msg
  BY <1>1, <1>3, <1>4 DEF Has, Shows, Tells
<1>7. QED
  BY <1>2, <1>3, <1>5, <1>6

(* A dequeue in a transaction marks it.                                    *)
Marked(db, n, f) == [db EXCEPT ![n].state = "dequeued", ![n].gtrid = f]

(* Taking a row for a transaction leaves the database tidy: the            *)
(* transaction has taken its message, and nothing else changes.            *)
LEMMA MarkRow ==
  ASSUME NEW db \in Seq(Row), Tidy(db), NEW n \in DOMAIN db, db[n].state = "enqueued",
         NEW f \in Flow, NEW d, d = Marked(db, n, f)
  PROVE  /\ d \in Seq(Row) /\ Tidy(d)
         /\ \A x \in Flow : /\ Takes(d, x) = Takes(db, x) \cup (IF x = f THEN {db[n].msg} ELSE {})
                            /\ Adds(d, x) = Adds(db, x)
         /\ \A m \in Message : (Has(d, m) <=> Has(db, m)) /\ (Shows(d, m) <=> Shows(db, m))
<1>1. PICK r : r = [db[n] EXCEPT !.state = "dequeued", !.gtrid = f]
  OBVIOUS
<1>2. r \in Row /\ r.msg = db[n].msg /\ r.state = "dequeued" /\ r.gtrid = f
  <2>1. db[n] \in Row
    BY RowOf
  <2>2. QED
    BY <1>1, <2>1 DEF Row
<1>3. d = [db EXCEPT ![n] = r]
  BY <1>1 DEF Marked
<1>4. /\ d \in Seq(Row) /\ DOMAIN d = DOMAIN db /\ d[n] = r
      /\ \A k \in DOMAIN db : k # n => d[k] = db[k]
  <2>1. n \in 1 .. Len(db) /\ DOMAIN db = 1 .. Len(db)
    OBVIOUS
  <2>2. PICK x : x = [db EXCEPT ![n] = r]
    OBVIOUS
  <2>3. /\ x \in Seq(Row) /\ Len(x) = Len(db)
        /\ \A k \in 1 .. Len(db) : x[k] = IF k = n THEN r ELSE db[k]
    BY <1>2, <2>1, <2>2, ExceptSeq
  <2>4. DOMAIN x = 1 .. Len(x)
    BY <2>3
  <2>5. QED
    BY <1>3, <2>1, <2>2, <2>3, <2>4
<1>5. Tidy(d)
  BY <1>2, <1>4 DEF Tidy, Visible
<1>6. \A x \in Flow : Takes(d, x) = Takes(db, x) \cup (IF x = f THEN {db[n].msg} ELSE {})
  BY <1>2, <1>4, RowOf DEF Takes
<1>7. \A x \in Flow : Adds(d, x) = Adds(db, x)
  BY <1>2, <1>4 DEF Adds
<1>8. \A m \in Message : (Has(d, m) <=> Has(db, m)) /\ (Shows(d, m) <=> Shows(db, m))
  BY <1>2, <1>4 DEF Has, Shows, Visible
<1>9. QED
  BY <1>4, <1>5, <1>6, <1>7, <1>8
Others(db, f, state) == {n \in DOMAIN db : ~ (db[n].gtrid = f /\ db[n].state = state)}

(* What a database keeps of another when rows of a kind are taken out.     *)
LEMMA WithoutRows ==
  ASSUME NEW db \in Seq(Row), NEW d, NEW f \in Flow, NEW state,
         d = Without(db, RowsOf(db, f, state))
  PROVE  d \in Seq(Row) /\ \E h : Keeps(h, d, db, Others(db, f, state))
<1>1. PICK S : S = RowsOf(db, f, state)
  OBVIOUS
<1>2. d \in Seq(Row) /\ \E h : Keeps(h, d, db, {n \in DOMAIN db : db[n] \notin S})
  BY <1>1, WithoutIs
<1>3. \A n \in DOMAIN db : db[n] \in S <=> db[n].gtrid = f /\ db[n].state = state
  BY <1>1 DEF RowsOf, ToSet
<1>4. {n \in DOMAIN db : db[n] \notin S} = Others(db, f, state)
  BY <1>3 DEF Others
<1>5. QED
  BY <1>2, <1>4

(* The database after a commit of f, and after a rollback but for queues.  *)
Shown(db, f) ==
  [n \in DOMAIN db |-> IF db[n].gtrid = f /\ db[n].state = "added"
                       THEN [db[n] EXCEPT !.state = "enqueued"] ELSE db[n]]

(* d tells of the rows of db but for the transaction f, which has ended.   *)
Cleared(d, db, f) ==
  /\ \A x \in Flow : /\ Takes(d, x) = IF x = f THEN {} ELSE Takes(db, x)
                     /\ Adds(d, x) = IF x = f THEN {} ELSE Adds(db, x)
  /\ \A m \in Message : (Has(d, m) <=> Has(db, m)) /\ (Shows(d, m) <=> Shows(db, m))

(* A commit leaves what was added and takes away what was taken.           *)
LEMMA CommitRows ==
  ASSUME NEW db \in Seq(Row), Tidy(db), NEW f \in Flow, Takes(db, f) = Adds(db, f), NEW d,
         d = Without(Shown(db, f), RowsOf(Shown(db, f), f, "dequeued"))
  PROVE  d \in Seq(Row) /\ Tidy(d) /\ Cleared(d, db, f)
<1>1. PICK s : s = Shown(db, f)
  OBVIOUS
<1>2. /\ s \in Seq(Row) /\ DOMAIN s = DOMAIN db
      /\ \A n \in DOMAIN db :
           /\ s[n].msg = db[n].msg /\ s[n].gtrid = db[n].gtrid
           /\ s[n].state = IF db[n].gtrid = f /\ db[n].state = "added" THEN "enqueued"
                           ELSE db[n].state
  <2>1. \A n \in DOMAIN db :
          /\ s[n] \in Row /\ s[n].msg = db[n].msg /\ s[n].gtrid = db[n].gtrid
          /\ s[n].state = IF db[n].gtrid = f /\ db[n].state = "added" THEN "enqueued"
                          ELSE db[n].state
    BY <1>1, RowOf, ZenonT(60) DEF Shown, Row
  <2>2. DOMAIN s = DOMAIN db /\ DOMAIN db = 1 .. Len(db) /\ Len(db) \in Nat
    BY <1>1 DEF Shown
  <2>3. s = [n \in 1 .. Len(db) |-> s[n]]
    BY <1>1, <2>2 DEF Shown
  <2>4. s \in Seq(Row)
    BY <2>1, <2>2, <2>3
  <2>5. QED
    BY <2>1, <2>2, <2>4
<1>3. PICK S \in SUBSET DOMAIN db :
        S = {n \in DOMAIN db : ~ (db[n].gtrid = f /\ db[n].state = "dequeued")}
  OBVIOUS
<1>4. d \in Seq(Row) /\ \E h : Keeps(h, d, s, S)
  <2>1. S = {n \in DOMAIN s : ~ (s[n].gtrid = f /\ s[n].state = "dequeued")}
    BY <1>2, <1>3
  <2>2. d = Without(s, RowsOf(s, f, "dequeued"))
    BY <1>1
  <2>3. d \in Seq(Row) /\ \E h : Keeps(h, d, s, Others(s, f, "dequeued"))
    BY <1>2, <2>2, WithoutRows
  <2>4. QED
    BY <2>1, <2>3 DEF Others
<1>5. PICK h : Keeps(h, d, s, S)
  BY <1>4
<1>6. ASSUME NEW m \in Adds(db, f)
      PROVE  \E n \in DOMAIN db : db[n].msg = m /\ db[n].gtrid = f /\ db[n].state = "dequeued"
  BY DEF Takes
<1>7. \A n \in S, k \in DOMAIN db :
        s[n].state = "enqueued" /\ db[n].state = "added" /\ Visible(db[k])
          /\ db[k].msg = db[n].msg => db[k].state = "dequeued" /\ db[k].gtrid = f
  <2> SUFFICES ASSUME NEW n \in S, NEW k \in DOMAIN db, s[n].state = "enqueued",
                      db[n].state = "added", Visible(db[k]), db[k].msg = db[n].msg
               PROVE  db[k].state = "dequeued" /\ db[k].gtrid = f
    OBVIOUS
  <2>1. n \in DOMAIN db /\ db[n].gtrid = f /\ db[n].msg \in Message
    BY <1>2, <1>3, RowOf
  <2>2. db[n].msg \in Adds(db, f)
    BY <2>1 DEF Adds
  <2>3. PICK j \in DOMAIN db : db[j].msg = db[n].msg /\ db[j].gtrid = f /\ db[j].state = "dequeued"
    BY <1>6, <2>2
  <2>4. j = k
    BY <2>3 DEF Tidy, Visible
  <2>5. QED
    BY <2>3, <2>4
<1>8. \A n, k \in S : s[n].msg = s[k].msg /\ (Visible(s[n]) <=> Visible(s[k])) => n = k
  <2> SUFFICES ASSUME NEW n \in S, NEW k \in S, s[n].msg = s[k].msg,
                      Visible(s[n]) <=> Visible(s[k]), n # k
               PROVE  FALSE
    OBVIOUS
  <2>1. n \in DOMAIN db /\ k \in DOMAIN db /\ db[n].msg = db[k].msg
    BY <1>2, <1>3
  <2>2. ~ (Visible(db[n]) <=> Visible(db[k]))
    BY <2>1 DEF Tidy
  <2>3. CASE Visible(db[k])
    <3>1. db[n].state = "added" /\ s[n].state = "enqueued"
      BY <1>2, <2>1, <2>2, <2>3, RowOf DEF Visible
    <3>2. QED
      BY <1>3, <1>7, <2>1, <2>3, <3>1
  <2>4. CASE Visible(db[n])
    <3>1. db[k].state = "added" /\ s[k].state = "enqueued"
      BY <1>2, <2>1, <2>2, <2>4, RowOf DEF Visible
    <3>2. QED
      BY <1>3, <1>7, <2>1, <2>4, <3>1
  <2>5. QED
    BY <2>2, <2>3, <2>4
<1>9. Tidy(d)
  <2>1. \A n \in DOMAIN d : d[n].state # "enqueued" => d[n].gtrid \in Flow
    <3>1. \A n \in DOMAIN db : s[n].state # "enqueued" => s[n].gtrid \in Flow
      BY <1>2 DEF Tidy
    <3>2. QED
      BY <1>5, <3>1 DEF Keeps
  <2>2. \A n, k \in DOMAIN d :
          d[n].msg = d[k].msg /\ (Visible(d[n]) <=> Visible(d[k])) => n = k
    BY <1>5, <1>8 DEF Keeps
  <2>3. QED
    BY <2>1, <2>2 DEF Tidy
<1>10. ASSUME NEW x \in Flow
       PROVE  /\ Takes(d, x) = IF x = f THEN {} ELSE Takes(db, x)
              /\ Adds(d, x) = IF x = f THEN {} ELSE Adds(db, x)
  <2>1. \A m \in Message : m \in Takes(d, x) <=> x # f /\ m \in Takes(db, x)
    <3> SUFFICES ASSUME NEW m \in Message PROVE m \in Takes(d, x) <=> x # f /\ m \in Takes(db, x)
      OBVIOUS
    <3>1. m \in Takes(d, x) <=> \E n \in S : s[n].msg = m /\ s[n].gtrid = x /\ s[n].state = "dequeued"
      BY <1>5 DEF Keeps, Takes
    <3>2. QED
      BY <1>2, <1>3, <3>1 DEF Takes
  <2>2. \A m \in Message : m \in Adds(d, x) <=> x # f /\ m \in Adds(db, x)
    <3> SUFFICES ASSUME NEW m \in Message PROVE m \in Adds(d, x) <=> x # f /\ m \in Adds(db, x)
      OBVIOUS
    <3>1. m \in Adds(d, x) <=> \E n \in S : s[n].msg = m /\ s[n].gtrid = x /\ s[n].state = "added"
      BY <1>5 DEF Keeps, Adds
    <3>2. QED
      BY <1>2, <1>3, <3>1 DEF Adds
  <2>3. QED
    BY <2>1, <2>2 DEF Takes, Adds
<1>11. ASSUME NEW m \in Message
       PROVE  (Has(d, m) <=> Has(db, m)) /\ (Shows(d, m) <=> Shows(db, m))
  <2>1. /\ Has(d, m) <=> \E n \in S : s[n].msg = m
        /\ Shows(d, m) <=> \E n \in S : s[n].msg = m /\ Visible(s[n])
    BY <1>5 DEF Keeps, Has, Shows
  <2>2. m \in Takes(db, f) => \E n \in S : s[n].msg = m /\ Visible(s[n])
    BY <1>2, <1>3 DEF Adds, Visible
  <2>3. m \in Takes(db, f) => Has(db, m) /\ Shows(db, m)
    BY DEF Takes, Has, Shows, Visible
  <2>4. \A n \in DOMAIN db : db[n].msg = m /\ m \notin Takes(db, f) =>
          /\ n \in S /\ s[n].msg = m
          /\ Visible(s[n]) <=> Visible(db[n])
    BY <1>2, <1>3, RowOf DEF Takes, Adds, Visible
  <2>5. CASE m \in Takes(db, f)
    BY <2>1, <2>2, <2>3, <2>5
  <2>6. CASE m \notin Takes(db, f)
    <3>1. Has(d, m) <=> Has(db, m)
      BY <1>2, <1>3, <2>1, <2>4, <2>6 DEF Has
    <3>2. Shows(d, m) <=> Shows(db, m)
      BY <1>2, <1>3, <2>1, <2>4, <2>6 DEF Shows
    <3>3. QED
      BY <3>1, <3>2
  <2>7. QED
    BY <2>5, <2>6
<1>12. QED
  BY <1>4, <1>9, <1>10, <1>11 DEF Cleared

(* The rows that are left are given back.                                  *)
Reverted(d, e, f) ==
  /\ DOMAIN d = DOMAIN e
  /\ \A n \in DOMAIN e :
       /\ d[n].msg = e[n].msg /\ d[n].gtrid = e[n].gtrid
       /\ d[n].state = IF e[n].gtrid = f /\ e[n].state = "dequeued" THEN "enqueued"
                       ELSE e[n].state

(* A rollback takes away what was added and gives back what was taken.     *)
LEMMA RollbackRows ==
  ASSUME NEW db \in Seq(Row), Tidy(db), NEW f \in Flow, Adds(db, f) \subseteq Takes(db, f),
         NEW e \in Seq(Row), e = Without(db, RowsOf(db, f, "added")),
         NEW d \in Seq(Row), Reverted(d, e, f)
  PROVE  Tidy(d) /\ Cleared(d, db, f)
<1> USE DEF Reverted
<1>1. PICK S \in SUBSET DOMAIN db : S = Others(db, f, "added")
  BY DEF Others
<1>2. \A n \in DOMAIN db : n \in S <=> ~ (db[n].gtrid = f /\ db[n].state = "added")
  BY <1>1 DEF Others
<1>3. PICK h : Keeps(h, e, db, S)
  BY <1>1, WithoutRows
<1>4. Tidy(e) /\ Tells(e, db, S)
  BY <1>1, <1>3, KeptRows
<1>5. \A n \in DOMAIN e : Visible(d[n]) <=> Visible(e[n])
  BY DEF Visible
<1>6. Tidy(d)
  BY <1>4, <1>5 DEF Tidy
<1>7. ASSUME NEW x \in Flow
      PROVE  /\ Takes(d, x) = IF x = f THEN {} ELSE Takes(db, x)
             /\ Adds(d, x) = IF x = f THEN {} ELSE Adds(db, x)
  <2>1. \A m \in Message : m \in Takes(d, x) <=> x # f /\ m \in Takes(e, x)
    BY DEF Takes
  <2>2. \A m \in Message : m \in Adds(d, x) <=> m \in Adds(e, x)
    BY DEF Adds
  <2>3. \A m \in Message : x # f => (m \in Takes(e, x) <=> m \in Takes(db, x))
    BY <1>1, <1>2, <1>4 DEF Takes, Tells
  <2>4. \A m \in Message : m \in Adds(e, x) <=> x # f /\ m \in Adds(db, x)
    BY <1>1, <1>2, <1>4 DEF Adds, Tells
  <2>5. \A D : Takes(D, x) \subseteq Message /\ Adds(D, x) \subseteq Message
    BY DEF Takes, Adds
  <2>6. QED
    BY <2>1, <2>2, <2>3, <2>4, <2>5
<1>8. ASSUME NEW m \in Message
      PROVE  (Has(d, m) <=> Has(db, m)) /\ (Shows(d, m) <=> Shows(db, m))
  <2>1. (Has(d, m) <=> Has(e, m)) /\ (Shows(d, m) <=> Shows(e, m))
    BY <1>5 DEF Has, Shows
  <2>2. \A n \in DOMAIN db : Visible(db[n]) => n \in S
    BY <1>2 DEF Visible
  <2>3. ASSUME NEW n \in DOMAIN db, n \notin S, db[n].msg = m
        PROVE  \E k \in S : db[k].msg = m /\ Visible(db[k])
    <3>1. m \in Adds(db, f)
      BY <1>2, <2>3 DEF Adds
    <3>2. m \in Takes(db, f)
      BY <3>1
    <3>3. QED
      BY <1>2, <3>2 DEF Takes, Visible
  <2>4. (Has(e, m) <=> Has(db, m)) /\ (Shows(e, m) <=> Shows(db, m))
    BY <1>1, <1>4, <2>2, <2>3 DEF Tells, Has, Shows
  <2>5. QED
    BY <2>1, <2>4
<1>9. QED
  BY <1>6, <1>7, <1>8 DEF Cleared

(* A transaction cannot take what another has taken.                       *)
LEMMA Apart ==
  ASSUME NEW db \in Seq(Row), Tidy(db), NEW f \in Flow, NEW g \in Flow, NEW m \in Takes(db, f),
         m \in Takes(db, g)
  PROVE  f = g
BY DEF Takes, Tidy, Visible
-----------------------------------------------------------------------------
(* The group.  Each handler makes a group of a group.                      *)

(* What a handler leaves alone when it changes the database only.          *)
Rest(w) == <<w.disk, w.involved, w.registered, w.dequeues, w.held, w.mail>>

(* Rows can be counted.                                                    *)
LEMMA RowsCount ==
  ASSUME NEW db \in Seq(Row), NEW S \in SUBSET DOMAIN db
  PROVE  Cardinality(S) \in Nat
<1>1. DOMAIN db = 1 .. Len(db) /\ Len(db) \in Nat
  OBVIOUS
<1>2. IsFiniteSet(1 .. Len(db))
  BY <1>1, FS_Interval
<1>3. QED
  BY <1>1, <1>2, FS_Subset, FS_CardinalityType

(* A group with another database and other counts.                         *)
Counting(w, db, count) == [w EXCEPT !.db = db, !.count = count]

(* A write to the database leaves the rest of the group as it is.          *)
LEMMA WithDb ==
  ASSUME NEW w \in Group, NEW db \in Seq(Row), NEW count \in [Queue -> Int]
  PROVE  /\ Counting(w, db, count) \in Group /\ Counting(w, db, count).db = db
         /\ Rest(Counting(w, db, count)) = Rest(w) /\ Counting(w, db, count).timer = w.timer
BY DEF Group, Rest, Counting

(* enqueue. *)
LEMMA EnqueuedIs ==
  ASSUME NEW w \in Group, NEW m \in Message, NEW q \in Queue, NEW t \in Flow \cup {Nobody},
         NEW u, u = Enqueued(w, m, q, t)
  PROVE  /\ u \in Group /\ Rest(u) = Rest(w)
         /\ \E r \in Row : /\ u.db = Append(w.db, r) /\ r.msg = m /\ r.gtrid = t
                           /\ r.state = IF t = Nobody THEN "enqueued" ELSE "added"
<1>1. PICK r : r = [msg |-> m, queue |-> q, gtrid |-> t, redelivered |-> 0, later |-> FALSE,
                    state |-> IF t = Nobody THEN "enqueued" ELSE "added"]
  OBVIOUS
<1>2. r \in Row
  BY <1>1 DEF Row
<1>3. w.db \in Seq(Row) /\ w.count \in [Queue -> Int] /\ Append(w.db, r) \in Seq(Row)
  BY <1>2 DEF Group
<1>4. PICK d, c : /\ d = Append(w.db, r)
                  /\ c = IF t = Nobody THEN [w.count EXCEPT ![q] = (@ + 1) - 0] ELSE w.count
  OBVIOUS
<1>5. d \in Seq(Row) /\ c \in [Queue -> Int]
  BY <1>3, <1>4
<1>6. u = Counting(w, d, c)
  BY <1>1, <1>3, <1>4 DEF Enqueued, Counted, Group, Counting
<1>7. u \in Group /\ u.db = d /\ Rest(u) = Rest(w)
  BY <1>5, <1>6, WithDb
<1>8. /\ r.msg = m /\ r.gtrid = t
      /\ r.state = IF t = Nobody THEN "enqueued" ELSE "added"
  BY <1>1
<1>9. QED
  BY <1>2, <1>4, <1>7, <1>8

(* The row that a dequeue finds is available. *)
LEMMA ReadyIs ==
  ASSUME NEW w \in Group, NEW q \in Queue, NEW n, n = Ready(w, q), n # 0
  PROVE  n \in DOMAIN w.db /\ w.db[n].state = "enqueued" /\ w.db[n].queue = q
<1>1. w.db \in Seq(Row) /\ Len(w.db) \in Nat /\ DOMAIN w.db = 1 .. Len(w.db)
  BY DEF Group
<1>2. PICK I : I = {i \in 1 .. Len(w.db) :
                      w.db[i].queue = q /\ w.db[i].state = "enqueued" /\ ~ w.db[i].later}
  OBVIOUS
<1>3. I # {} /\ n = Min(I)
  BY <1>2 DEF Ready, SelectInSeq
<1>4. \E i \in I : \A j \in I : i <= j
  <2>1. I \in SUBSET Nat
    BY <1>1, <1>2
  <2>2. QED
    BY <1>3, <2>1, NatMin
<1>5. n \in I
  BY <1>3, <1>4 DEF Min
<1>6. QED
  BY <1>1, <1>2, <1>5

(* A dequeue takes it. *)
LEMMA TakenIs ==
  ASSUME NEW w \in Group, NEW q \in Queue, NEW n, n = Ready(w, q), n # 0,
         NEW t \in Flow \cup {Nobody}, NEW u, u = Taken(w, q, t)
  PROVE  /\ u \in Group /\ Rest(u) = Rest(w) /\ u.timer = w.timer
         /\ t = Nobody => u.db = RemoveAt(w.db, n)
         /\ t # Nobody => u.db = Marked(w.db, n, t)
<1>1. /\ w.db \in Seq(Row) /\ w.count \in [Queue -> Int] /\ n \in DOMAIN w.db
      /\ DOMAIN w.db = 1 .. Len(w.db) /\ w.db[n] \in Row
  <2>1. w.db \in Seq(Row) /\ w.count \in [Queue -> Int] /\ DOMAIN w.db = 1 .. Len(w.db)
    BY DEF Group
  <2>2. n \in DOMAIN w.db
    BY ReadyIs
  <2>3. w.db[n] \in Row
    BY <2>1, <2>2, RowOf
  <2>4. QED
    BY <2>1, <2>2, <2>3
<1>2. CASE t = Nobody
  <2>1. PICK d, c : d = RemoveAt(w.db, n) /\ c = [w.count EXCEPT ![q] = (@ + 0) - 1]
    OBVIOUS
  <2>2. d \in Seq(Row)
    BY <1>1, <2>1, RemoveAtIs
  <2>3. c \in [Queue -> Int]
    BY <1>1, <2>1
  <2>4. u = Counting(w, d, c)
    BY <1>1, <1>2, <2>1 DEF Taken, Counted, Group, Counting
  <2>5. QED
    BY <1>2, <2>1, <2>2, <2>3, <2>4, WithDb
<1>3. CASE t # Nobody
  <2>1. PICK r : r = [w.db[n] EXCEPT !.state = "dequeued", !.gtrid = t]
    OBVIOUS
  <2>2. r \in Row
    BY <1>1, <1>3, <2>1 DEF Row
  <2>3. PICK d : d = Marked(w.db, n, t)
    OBVIOUS
  <2>4. d = [w.db EXCEPT ![n] = r]
    BY <2>1, <2>3 DEF Marked
  <2>5. d \in Seq(Row)
    BY <1>1, <2>2, <2>4, ExceptSeq
  <2>6. u = [w EXCEPT !.db = d]
    BY <1>3, <2>3 DEF Taken, Marked
  <2>7. u = Counting(w, d, w.count)
    BY <2>6 DEF Group, Counting
  <2>8. QED
    BY <1>1, <1>3, <2>3, <2>5, <2>7, WithDb
<1>4. QED
  BY <1>2, <1>3

(* commit. *)
LEMMA CommittedIs ==
  ASSUME NEW w \in Group, NEW f \in Flow, NEW u, u = Committed(w, f)
  PROVE  /\ u \in Group /\ Rest(u) = Rest(w) /\ u.timer = w.timer
         /\ u.db = Without(Shown(w.db, f), RowsOf(Shown(w.db, f), f, "dequeued"))
<1>1. w.db \in Seq(Row) /\ w.count \in [Queue -> Int]
  BY DEF Group
<1>2. PICK s : s = Shown(w.db, f)
  OBVIOUS
<1>3. s \in Seq(Row)
  <2>1. DOMAIN w.db = 1 .. Len(w.db) /\ Len(w.db) \in Nat
    BY <1>1
  <2>2. ASSUME NEW n \in DOMAIN w.db PROVE s[n] \in Row
    <3>1. w.db[n] \in Row
      BY <1>1, RowOf
    <3>2. QED
      BY <1>2, <3>1 DEF Shown, Row
  <2>3. s = [n \in 1 .. Len(w.db) |-> s[n]]
    BY <1>2, <2>1 DEF Shown
  <2>4. QED
    BY <2>1, <2>2, <2>3
<1>4. PICK d : d = Without(s, RowsOf(s, f, "dequeued"))
  OBVIOUS
<1>5. d \in Seq(Row)
  BY <1>3, <1>4, WithoutRows
<1>6. PICK c : c = [q \in Queue |->
          (w.count[q] + Cardinality({n \in DOMAIN w.db : w.db[n].queue = q /\ w.db[n].gtrid = f
                                                          /\ w.db[n].state = "added"}))
          - Cardinality({n \in DOMAIN w.db : w.db[n].queue = q /\ w.db[n].gtrid = f
                                               /\ w.db[n].state = "dequeued"})]
  OBVIOUS
<1>7. c \in [Queue -> Int]
  <2>1. ASSUME NEW q \in Queue
        PROVE  /\ Cardinality({n \in DOMAIN w.db : w.db[n].queue = q /\ w.db[n].gtrid = f
                                                    /\ w.db[n].state = "added"}) \in Nat
               /\ Cardinality({n \in DOMAIN w.db : w.db[n].queue = q /\ w.db[n].gtrid = f
                                                    /\ w.db[n].state = "dequeued"}) \in Nat
    BY <1>1, RowsCount
  <2>2. \A q \in Queue : c[q] \in Int
    BY <1>1, <1>6, <2>1
  <2>3. QED
    BY <1>6, <2>2
<1>8. u = Counting(w, d, c)
  <2>1. u = Counting(w, Without(Shown(w.db, f), RowsOf(Shown(w.db, f), f, "dequeued")), c)
    BY <1>6 DEF Committed, Rows, Shown, Group, Counting
  <2>2. QED
    BY <1>2, <1>4, <2>1
<1>9. QED
  BY <1>2, <1>4, <1>5, <1>7, <1>8, WithDb

(* What a rollback does to a row that is left, and where the row goes.     *)
Back(r, f) ==
  IF r.gtrid = f /\ r.state = "dequeued"
  THEN [r EXCEPT !.state = "enqueued", !.redelivered = @ + 1, !.later = RetryDelay] ELSE r
Spent(r, f) == r.gtrid = f /\ r.queue = "source" /\ r.redelivered > RetryCount
Moved(r, f) == IF Spent(r, f) THEN [r EXCEPT !.redelivered = 0, !.queue = "error"] ELSE r
GivenBack(db, f) == [n \in DOMAIN db |-> Back(db[n], f)]
MovedOver(w, f, db) ==
  LET k == Cardinality({n \in DOMAIN db : Spent(db[n], f)})
  IN [w EXCEPT !.db = [n \in DOMAIN db |-> Moved(db[n], f)],
               !.count["source"] = @ - k, !.count["error"] = @ + k]

(* rollback. *)
LEMMA RolledBackIs ==
  ASSUME NEW w \in Group, NEW f \in Flow, NEW u, u = RolledBack(w, f),
         NEW e, e = Without(w.db, RowsOf(w.db, f, "added"))
  PROVE  /\ u \in Group /\ Rest(u) = Rest(w) /\ u.timer = w.timer
         /\ e \in Seq(Row) /\ Reverted(u.db, e, f)
<1>1. w.db \in Seq(Row) /\ w.count \in [Queue -> Int] /\ RetryDelay \in BOOLEAN
  BY QueueAssumption DEF Group
<1>2. e \in Seq(Row)
  BY <1>1, WithoutRows
<1>3. PICK b : b = GivenBack(e, f)
  OBVIOUS
<1>4. PICK d : d = [n \in DOMAIN b |-> Moved(b[n], f)]
  OBVIOUS
<1>5. ASSUME NEW n \in DOMAIN e
      PROVE  /\ b[n] \in Row /\ d[n] \in Row
             /\ d[n].msg = e[n].msg /\ d[n].gtrid = e[n].gtrid
             /\ d[n].state = IF e[n].gtrid = f /\ e[n].state = "dequeued" THEN "enqueued"
                             ELSE e[n].state
  <2>1. PICK r \in Row : r = e[n]
    BY <1>2, RowOf
  <2>2. PICK x : x = Back(r, f)
    OBVIOUS
  <2>3. /\ x \in Row /\ x.msg = r.msg /\ x.gtrid = r.gtrid
        /\ x.state = IF r.gtrid = f /\ r.state = "dequeued" THEN "enqueued" ELSE r.state
    <3>1. CASE r.gtrid = f /\ r.state = "dequeued"
      <4>1. PICK k \in Nat, l \in BOOLEAN : k = r.redelivered + 1 /\ l = RetryDelay
        BY <1>1 DEF Row
      <4>2. x = [r EXCEPT !.state = "enqueued", !.redelivered = k, !.later = l]
        BY <2>2, <3>1, <4>1 DEF Back
      <4>3. QED
        BY <3>1, <4>2 DEF Row
    <3>2. CASE ~ (r.gtrid = f /\ r.state = "dequeued")
      BY <2>2, <3>2 DEF Back
    <3>3. QED
      BY <3>1, <3>2
  <2>4. PICK y : y = Moved(x, f)
    OBVIOUS
  <2>5. y \in Row /\ y.msg = x.msg /\ y.gtrid = x.gtrid /\ y.state = x.state
    BY <2>3, <2>4 DEF Moved, Row, Queue
  <2>6. b[n] = x /\ d[n] = y
    BY <1>3, <1>4, <2>1, <2>2, <2>4 DEF GivenBack
  <2>7. QED
    BY <2>1, <2>3, <2>5, <2>6
<1>6. DOMAIN e = 1 .. Len(e) /\ Len(e) \in Nat
  BY <1>2
<1>7. b \in Seq(Row) /\ d \in Seq(Row) /\ DOMAIN b = DOMAIN e /\ DOMAIN d = DOMAIN e
  <2>1. b = [n \in 1 .. Len(e) |-> b[n]] /\ d = [n \in 1 .. Len(e) |-> d[n]]
    BY <1>3, <1>4, <1>6 DEF GivenBack
  <2>2. QED
    BY <1>3, <1>4, <1>5, <1>6, <2>1 DEF GivenBack
<1>8. PICK k : k = Cardinality({n \in DOMAIN b : Spent(b[n], f)})
  OBVIOUS
<1>9. k \in Nat
  BY <1>7, <1>8, RowsCount
<1>10. PICK c : c = [w.count EXCEPT !["source"] = @ - k, !["error"] = @ + k]
  OBVIOUS
<1>11. c \in [Queue -> Int]
  BY <1>1, <1>9, <1>10, SMTT(45) DEF Queue
<1>12. u = MovedOver(w, f, GivenBack(Without(w.db, RowsOf(w.db, f, "added")), f))
  BY DEF RolledBack, MovedOver, GivenBack, Back, Moved, Spent, Rows
<1>13. u = Counting(w, d, c)
  <2>1. u = MovedOver(w, f, b)
    BY <1>3, <1>12
  <2>2. u = [w EXCEPT !.db = d, !.count["source"] = @ - k, !.count["error"] = @ + k]
    BY <1>4, <1>8, <2>1 DEF MovedOver
  <2>3. QED
    BY <1>10, <2>2 DEF Counting, Group
<1>14. u \in Group /\ u.db = d /\ Rest(u) = Rest(w) /\ u.timer = w.timer
  BY <1>7, <1>11, <1>13, WithDb
<1>15. QED
  BY <1>2, <1>5, <1>7, <1>14 DEF Reverted

(* restore. *)
LEMMA RestoredIs ==
  ASSUME NEW w \in Group, NEW u, u = Restored(w)
  PROVE  u \in Group /\ Rest(u) = Rest(w) /\ u.timer = w.timer /\ AsRows(u.db, w.db)
<1>1. w.db \in Seq(Row) /\ w.count \in [Queue -> Int]
  BY DEF Group
<1>2. PICK d : d = [n \in DOMAIN w.db |->
                      IF w.db[n].queue = "error" /\ w.db[n].state = "enqueued"
                      THEN [w.db[n] EXCEPT !.queue = "source"] ELSE w.db[n]]
  OBVIOUS
<1>3. ASSUME NEW n \in DOMAIN w.db
      PROVE  /\ d[n] \in Row /\ d[n].msg = w.db[n].msg /\ d[n].gtrid = w.db[n].gtrid
             /\ d[n].state = w.db[n].state
  <2>1. PICK r \in Row : r = w.db[n]
    BY <1>1, RowOf
  <2>2. QED
    BY <1>2, <2>1 DEF Row, Queue
<1>4. d \in Seq(Row) /\ DOMAIN d = DOMAIN w.db
  <2>1. DOMAIN w.db = 1 .. Len(w.db) /\ Len(w.db) \in Nat
    BY <1>1
  <2>2. d = [n \in 1 .. Len(w.db) |-> d[n]]
    BY <1>2, <2>1
  <2>3. QED
    BY <1>2, <1>3, <2>1, <2>2
<1>5. PICK k : k = Cardinality({n \in DOMAIN w.db : w.db[n].queue = "error"
                                                     /\ w.db[n].state = "enqueued"})
  OBVIOUS
<1>6. k \in Nat
  BY <1>1, <1>5, RowsCount
<1>7. PICK c : c = [w.count EXCEPT !["error"] = @ - k, !["source"] = @ + k]
  OBVIOUS
<1>8. c \in [Queue -> Int]
  BY <1>1, <1>6, <1>7 DEF Queue
<1>9. u = Counting(w, d, c)
  <2>1. u = [w EXCEPT !.db = d, !.count["error"] = @ - k, !.count["source"] = @ + k]
    BY <1>2, <1>5 DEF Restored, Rows
  <2>2. QED
    BY <1>7, <2>1 DEF Counting, Group
<1>10. u \in Group /\ u.db = d /\ Rest(u) = Rest(w) /\ u.timer = w.timer
  BY <1>4, <1>8, <1>9, WithDb
<1>11. QED
  BY <1>3, <1>4, <1>10 DEF AsRows

(* A reply that is sent, and a transaction that the group is involved in.  *)
LEMMA SentIs ==
  ASSUME NEW w \in Group, NEW r \in Mail, NEW u, u = Sent(w, r)
  PROVE  /\ u \in Group /\ u.mail = w.mail \cup {r}
         /\ u.db = w.db /\ u.disk = w.disk /\ u.count = w.count /\ u.involved = w.involved
         /\ u.registered = w.registered /\ u.dequeues = w.dequeues /\ u.held = w.held
         /\ u.timer = w.timer
BY DEF Sent, Group

(* The group tells the transaction manager of a transaction once.          *)
LEMMA InvolvedIs ==
  ASSUME NEW w \in Group, NEW f \in Flow, NEW u, u = Involved(w, f)
  PROVE  /\ u \in Group /\ u.involved = w.involved \cup {f}
         /\ u.registered = w.registered \cup ({f} \ w.involved)
         /\ u.mail = w.mail
         /\ u.db = w.db /\ u.disk = w.disk /\ u.count = w.count
         /\ u.dequeues = w.dequeues /\ u.held = w.held /\ u.timer = w.timer
<1>1. CASE f \in w.involved
  BY <1>1 DEF Involved, Group
<1>2. CASE f \notin w.involved
  BY <1>2 DEF Involved, Group
<1>3. QED
  BY <1>1, <1>2

(* The reply to a dequeue that has found row n.                            *)
Found(w, u, d, n) ==
  /\ n \in DOMAIN w.db /\ w.db[n].state = "enqueued"
  /\ u.dequeues = w.dequeues
  /\ u.mail = w.mail \cup {Reply("dequeued", d.who, w.db[n].msg)}
  /\ Reply("dequeued", d.who, w.db[n].msg) \in Mail
  /\ d.who \in Flow => /\ u.db = Marked(w.db, n, d.who)
                       /\ u.involved = w.involved \cup {d.who}
                       /\ u.registered = w.registered \cup ({d.who} \ w.involved)
  /\ d.who \in Consumer => /\ u.db = RemoveAt(w.db, n)
                           /\ u.involved = w.involved /\ u.registered = w.registered

(* The dequeue that waits.                                                 *)
Waited(w, u, d) ==
  /\ u.dequeues = Append(w.dequeues, d) /\ u.mail = w.mail
  /\ u.db = w.db /\ u.involved = w.involved /\ u.registered = w.registered

(* A dequeue finds a message or waits. *)
LEMMA DequeuedIs ==
  ASSUME NEW w \in Group, NEW d \in Wait, NEW u, u = Dequeued(w, d)
  PROVE  /\ u \in Group /\ u.disk = w.disk /\ u.held = w.held
         /\ Waited(w, u, d) \/ \E n \in DOMAIN w.db : Found(w, u, d, n)
<1> USE QueueAssumption
<1>1. PICK n : n = Ready(w, d.queue)
  OBVIOUS
<1>2. d.who \in Flow \cup Consumer /\ d.queue \in Queue
  BY DEF Wait
<1>3. CASE n = 0
  <2>1. PICK t \in BOOLEAN :
          t = (w.timer \/ \E k \in DOMAIN w.db : w.db[k].queue = d.queue /\ w.db[k].state = "enqueued")
    OBVIOUS
  <2>2. u = [w EXCEPT !.dequeues = Append(@, d), !.timer = t]
    BY <1>1, <1>3, <2>1 DEF Dequeued
  <2>3. Append(w.dequeues, d) \in Seq(Wait)
    BY DEF Group
  <2>4. QED
    BY <2>2, <2>3 DEF Waited, Group
<1>4. CASE n # 0
  <2>1. n \in DOMAIN w.db /\ w.db[n].state = "enqueued" /\ w.db[n].msg \in Message
    <3>1. w.db \in Seq(Row)
      BY DEF Group
    <3>2. n \in DOMAIN w.db /\ w.db[n].state = "enqueued"
      BY <1>1, <1>2, <1>4, ReadyIs
    <3>3. QED
      BY <3>1, <3>2, RowOf
  <2>2. PICK t : t = Trid(d.who)
    OBVIOUS
  <2>3. /\ t \in Flow \cup {Nobody} /\ (d.who \in Flow => t = d.who /\ t # Nobody)
        /\ (d.who \in Consumer => t = Nobody)
    BY <1>2, <2>2 DEF Trid
  <2>4. PICK v : v = Taken(w, d.queue, t)
    OBVIOUS
  <2>5. /\ v \in Group /\ Rest(v) = Rest(w)
        /\ t = Nobody => v.db = RemoveAt(w.db, n)
        /\ t # Nobody => v.db = Marked(w.db, n, t)
    BY <1>1, <1>2, <1>4, <2>3, <2>4, TakenIs
  <2>6. PICK r : r = Reply("dequeued", d.who, w.db[n].msg)
    OBVIOUS
  <2>7. r \in Mail
    BY <1>2, <2>1, <2>6 DEF Reply, Mail, MailKind, Who
  <2>8. PICK g : g = Sent(v, r)
    OBVIOUS
  <2>9. /\ g \in Group /\ g.mail = v.mail \cup {r}
        /\ g.db = v.db /\ g.disk = v.disk /\ g.involved = v.involved
        /\ g.registered = v.registered /\ g.dequeues = v.dequeues /\ g.held = v.held
    BY <2>5, <2>7, <2>8, SentIs
  <2>10. u = IF d.who \in Flow THEN Involved(g, d.who) ELSE g
    BY <1>1, <1>4, <2>2, <2>4, <2>6, <2>8 DEF Dequeued
  <2>11. CASE d.who \in Flow
    <3>1. /\ u \in Group /\ u.involved = g.involved \cup {d.who}
          /\ u.registered = g.registered \cup ({d.who} \ g.involved)
          /\ u.mail = g.mail
          /\ u.db = g.db /\ u.disk = g.disk /\ u.dequeues = g.dequeues /\ u.held = g.held
      BY <2>9, <2>10, <2>11, InvolvedIs
    <3>2. Found(w, u, d, n)
      BY <2>1, <2>3, <2>5, <2>6, <2>7, <2>9, <2>11, <3>1 DEF Found, Rest
    <3>3. QED
      BY <2>1, <2>5, <2>9, <3>1, <3>2 DEF Rest
  <2>12. CASE d.who \notin Flow
    <3>1. u = g /\ d.who \in Consumer
      BY <1>2, <2>10, <2>12
    <3>2. Found(w, u, d, n)
      BY <2>1, <2>3, <2>5, <2>6, <2>7, <2>9, <2>12, <3>1 DEF Found, Rest
    <3>3. QED
      BY <2>1, <2>5, <2>9, <3>1, <3>2 DEF Rest
  <2>13. QED
    BY <2>11, <2>12
<1>5. QED
  BY <1>3, <1>4

(* The loop of pending::dequeues: a group, what each queue still counts,   *)
(* and the dequeues that go back.                                          *)
Acc == [w : Group, left : [Queue -> Int], back : Seq(Wait)]

(* Each turn makes a dequeue again or puts it back. *)
LEMMA AgainIs ==
  ASSUME NEW acc \in Acc, NEW d \in Wait, NEW next, next = Again(acc, d)
  PROVE  /\ next \in Acc
         /\ \/ next.w = acc.w /\ next.back = Append(acc.back, d)
            \/ next.w = Dequeued(acc.w, d) /\ next.back = acc.back
<1>1. acc.w \in Group /\ acc.left \in [Queue -> Int] /\ acc.back \in Seq(Wait) /\ d.queue \in Queue
  BY DEF Acc, Wait
<1>2. PICK u : u = Dequeued(acc.w, d)
  OBVIOUS
<1>3. u \in Group
  BY <1>1, <1>2, DequeuedIs
<1>4. CASE acc.left[d.queue] < 1
  <2>1. next = [acc EXCEPT !.back = Append(@, d)]
    BY <1>4 DEF Again
  <2>2. Append(acc.back, d) \in Seq(Wait)
    BY <1>1
  <2>3. QED
    BY <2>1, <2>2 DEF Acc
<1>5. CASE ~ acc.left[d.queue] < 1
  <2>1. CASE Len(u.dequeues) > Len(acc.w.dequeues)
    <3>1. next = [acc EXCEPT !.w = u]
      BY <1>2, <1>5, <2>1 DEF Again
    <3>2. QED
      BY <1>2, <1>3, <3>1 DEF Acc
  <2>2. CASE ~ Len(u.dequeues) > Len(acc.w.dequeues)
    <3>1. PICK l : l = [acc.left EXCEPT ![d.queue] = @ - 1]
      OBVIOUS
    <3>2. l \in [Queue -> Int]
      BY <1>1, <3>1
    <3>3. next = [acc EXCEPT !.w = u, !.left = l]
      BY <1>2, <1>5, <2>2, <3>1 DEF Again
    <3>4. QED
      BY <1>2, <1>3, <3>2, <3>3 DEF Acc
  <2>3. QED
    BY <2>1, <2>2
<1>6. QED
  BY <1>4, <1>5

(* The dequeues that are made again, and the others.                       *)
AgainOf(w) == Without(w.dequeues, {d \in ToSet(w.dequeues) : ~ Passed(w, d.queue)})
RestOf(w) == Without(w.dequeues, {d \in ToSet(w.dequeues) : Passed(w, d.queue)})
Passes(w) == {n \in DOMAIN w.dequeues : Passed(w, w.dequeues[n].queue)}

(* The dequeues that are tried again, and those that wait on, are the ones *)
(* that were waiting, in their order.                                      *)
LEMMA AgainRest ==
  ASSUME NEW w \in Group
  PROVE  /\ AgainOf(w) \in Seq(Wait) /\ RestOf(w) \in Seq(Wait)
         /\ \E g : Keeps(g, AgainOf(w), w.dequeues, Passes(w))
         /\ \E h : Keeps(h, RestOf(w), w.dequeues, DOMAIN w.dequeues \ Passes(w))
<1>1. PICK s \in Seq(Wait) : s = w.dequeues
  BY DEF Group
<1>2. PICK S, T : /\ S = {d \in ToSet(w.dequeues) : ~ Passed(w, d.queue)}
                  /\ T = {d \in ToSet(w.dequeues) : Passed(w, d.queue)}
  OBVIOUS
<1>3. /\ Without(s, S) \in Seq(Wait)
      /\ \E g : Keeps(g, Without(s, S), s, {n \in DOMAIN s : s[n] \notin S})
  BY WithoutIs
<1>4. /\ Without(s, T) \in Seq(Wait)
      /\ \E h : Keeps(h, Without(s, T), s, {n \in DOMAIN s : s[n] \notin T})
  BY WithoutIs
<1>5. {n \in DOMAIN s : s[n] \notin S} = Passes(w)
  BY <1>1, <1>2 DEF Passes, ToSet
<1>6. {n \in DOMAIN s : s[n] \notin T} = DOMAIN w.dequeues \ Passes(w)
  BY <1>1, <1>2 DEF Passes, ToSet
<1>7. AgainOf(w) = Without(s, S) /\ RestOf(w) = Without(s, T)
  BY <1>1, <1>2 DEF AgainOf, RestOf
<1>8. QED
  BY <1>1, <1>3, <1>4, <1>5, <1>6, <1>7

(* Where the loop starts, and what becomes of the group that it ends with. *)
Start(w) == [w |-> [w EXCEPT !.dequeues = RestOf(w)], left |-> w.count, back |-> <<>>]
Finish(acc, t) == [acc.w EXCEPT !.dequeues = @ \o acc.back, !.timer = t]
Coming(w) == {d \in ToSet(w.dequeues) : ~ Passed(w, d.queue) /\ w.count[d.queue] > 0}

(* What holds at the start and is kept by each turn holds at the end.      *)
LEMMA WokenIs ==
  ASSUME NEW w \in Group, w.dequeues # <<>>, NEW S, <<0, Start(w)>> \in S,
         \A n \in 1 .. Len(AgainOf(w)), acc \in Acc :
           <<n - 1, acc>> \in S => <<n, Again(acc, AgainOf(w)[n])>> \in S
  PROVE  /\ Start(w) \in Acc
         /\ \E done \in Acc, t \in BOOLEAN :
              /\ <<Len(AgainOf(w)), done>> \in S /\ Woken(w) = Finish(done, t)
              /\ t = (Coming(w) # {})
<1>1. PICK again \in Seq(Wait) : again = AgainOf(w)
  BY AgainRest
<1>2. PICK len \in Nat : len = Len(again)
  OBVIOUS
<1>3. PICK start : start = Start(w)
  OBVIOUS
<1>4. start \in Acc
  <2>1. RestOf(w) \in Seq(Wait) /\ w.count \in [Queue -> Int] /\ <<>> \in Seq(Wait)
    <3>1. w.count \in [Queue -> Int] /\ <<>> \in Seq(Wait)
      BY DEF Group
    <3>2. QED
      BY <3>1, AgainRest
  <2>2. [w EXCEPT !.dequeues = RestOf(w)] \in Group
    BY <2>1 DEF Group
  <2>3. QED
    BY <1>3, <2>1, <2>2 DEF Start, Acc
<1> DEFINE Def(g) == [n \in 0 .. Len(again) |-> IF n = 0 THEN start ELSE Again(g[n - 1], again[n])]
           tried == CHOOSE g : g = Def(g)
<1>5. \A n \in 1 .. len : again[n] \in Wait
  BY <1>2
<1>6. tried = Def(tried)
  <2> DEFINE G == [p \in (1 .. len) \X Acc |-> Again(p[2], again[p[1]])]
  <2>1. G \in [(1 .. len) \X Acc -> Acc]
    <3>1. \A n \in 1 .. len, acc \in Acc : Again(acc, again[n]) \in Acc
      BY <1>5, AgainIs
    <3>2. QED
      BY <3>1
  <2>2. PICK f : Solves(f, len, start, G, Acc)
    <3> HIDE DEF G
    <3>1. PICK A : A = Acc
      OBVIOUS
    <3>2. QED
      BY <1>4, <2>1, <3>1, Recursion
  <2>3. \A i \in 1 .. len : f[i] = Again(f[i - 1], again[i])
    <3>1. \A i \in 1 .. len : f[i - 1] \in Acc /\ f[i] = G[<<i, f[i - 1]>>]
      <4> HIDE DEF G
      <4>1. \A i \in 1 .. len : i - 1 \in 0 .. len
        OBVIOUS
      <4>2. QED
        BY <2>2, <4>1 DEF Solves
    <3>2. \A i \in 1 .. len, x \in Acc : G[<<i, x>>] = Again(x, again[i])
      OBVIOUS
    <3> HIDE DEF G
    <3>3. QED
      BY <3>1, <3>2
  <2>4. f = Def(f)
    <3> HIDE DEF G
    <3>1. f \in [0 .. len -> Acc] /\ f[0] = start
      BY <2>2 DEF Solves
    <3>2. \A i \in 0 .. len : f[i] = IF i = 0 THEN start ELSE Again(f[i - 1], again[i])
      BY <2>3, <3>1
    <3>3. QED
      BY <1>2, <3>1, <3>2
  <2> HIDE DEF Def
  <2>5. QED
    BY <2>4
<1>7. PICK t \in BOOLEAN : t = (Coming(w) # {})
  OBVIOUS
<1>8. Woken(w) = Finish(tried[len], t)
  BY <1>1, <1>2, <1>3, <1>7 DEF Woken, AgainOf, RestOf, Start, Finish, Coming
<1>9. tried[0] = start /\ \A n \in 1 .. len : tried[n] = Again(tried[n - 1], again[n])
  <2> HIDE DEF tried
  <2>1. QED
    BY <1>2, <1>6
<1> HIDE DEF tried, Def
<1> DEFINE T == {n \in Nat : n <= len => tried[n] \in Acc /\ <<n, tried[n]>> \in S}
<1>10. 0 \in T
  BY <1>3, <1>4, <1>9
<1>11. ASSUME NEW n \in Nat, n \in T PROVE n + 1 \in T
  <2> SUFFICES ASSUME n + 1 <= len PROVE tried[n + 1] \in Acc /\ <<n + 1, tried[n + 1]>> \in S
    OBVIOUS
  <2>1. PICK acc \in Acc : acc = tried[n] /\ <<n, acc>> \in S
    BY <1>11
  <2>2. n + 1 \in 1 .. len /\ (n + 1) - 1 = n /\ again[n + 1] \in Wait
    BY <1>5
  <2>3. tried[n + 1] = Again(acc, again[n + 1])
    BY <1>9, <2>1, <2>2
  <2>4. <<n + 1, Again(acc, again[n + 1])>> \in S
    BY <1>1, <1>2, <2>1, <2>2
  <2>5. QED
    BY <2>2, <2>3, <2>4, AgainIs
<1>12. Nat \subseteq T
  <2> HIDE DEF T
  <2> QED BY <1>10, <1>11, NatSet
<1>13. tried[len] \in Acc /\ <<len, tried[len]>> \in S
  BY <1>12
<1>14. QED
  BY <1>1, <1>2, <1>3, <1>4, <1>7, <1>8, <1>13
-----------------------------------------------------------------------------
(* Sequences: who waits in one, and what appending and taking the head do  *)
(* to the set of its elements.                                             *)
Whos(s) == {s[n].who : n \in DOMAIN s}

(* What is in a sequence that has grown by one.                            *)
LEMMA AppendSet ==
  ASSUME NEW E, NEW s \in Seq(E), NEW e \in E
  PROVE  /\ Append(s, e) \in Seq(E) /\ ToSet(Append(s, e)) = ToSet(s) \cup {e}
         /\ Whos(Append(s, e)) = Whos(s) \cup {e.who}
         /\ DOMAIN Append(s, e) = 1 .. Len(s) + 1 /\ Append(s, e)[Len(s) + 1] = e
         /\ \A n \in DOMAIN s : n \in 1 .. Len(s) /\ Append(s, e)[n] = s[n]
<1>1. PICK l \in Nat : l = Len(s) /\ DOMAIN s = 1 .. l
  OBVIOUS
<1>2. PICK t : t = Append(s, e)
  OBVIOUS
<1>3. /\ t \in Seq(E) /\ DOMAIN t = 1 .. l + 1 /\ t[l + 1] = e
      /\ \A n \in 1 .. l : t[n] = s[n]
  BY <1>1, <1>2
<1>4. \A n \in 1 .. l + 1 : n = l + 1 \/ n \in 1 .. l
  BY <1>1
<1>5. \A n \in 1 .. l : n \in 1 .. l + 1
  BY <1>1
<1>6. l + 1 \in 1 .. l + 1
  BY <1>1
<1>7. ToSet(t) = ToSet(s) \cup {e}
  BY <1>1, <1>3, <1>4, <1>5, <1>6 DEF ToSet
<1>8. Whos(t) = Whos(s) \cup {e.who}
  BY <1>1, <1>3, <1>4, <1>5, <1>6 DEF Whos
<1>9. QED
  BY <1>1, <1>2, <1>3, <1>7, <1>8

(* What is in a sequence whose first value has been taken.                 *)
LEMMA TailSet ==
  ASSUME NEW E, NEW s \in Seq(E), s # <<>>
  PROVE  /\ Tail(s) \in Seq(E) /\ Head(s) \in E /\ Head(s) = s[1] /\ 1 \in DOMAIN s
         /\ \A n \in DOMAIN Tail(s) : /\ n \in Nat /\ n + 1 \in DOMAIN s /\ n + 1 # 1
                                      /\ Tail(s)[n] = s[n + 1]
         /\ \A n \in DOMAIN s : n # 1 => /\ n \in Int /\ 1 < n /\ n - 1 \in DOMAIN Tail(s)
                                         /\ Tail(s)[n - 1] = s[n]
         /\ ToSet(s) = ToSet(Tail(s)) \cup {Head(s)}
<1>1. PICK l \in Nat : l = Len(s) /\ DOMAIN s = 1 .. l
  OBVIOUS
<1>2. l # 0
  BY <1>1, EmptySeq
<1>3. PICK t : t = Tail(s)
  OBVIOUS
<1>4. /\ t \in Seq(E) /\ DOMAIN t = 1 .. l - 1 /\ Head(s) = s[1] /\ s[1] \in E
      /\ \A n \in 1 .. l - 1 : t[n] = s[n + 1]
  BY <1>1, <1>2, <1>3
<1>5. 1 \in 1 .. l
  BY <1>1, <1>2
<1>6. \A n \in 1 .. l - 1 : n \in Nat /\ n + 1 \in 1 .. l /\ n + 1 # 1
  BY <1>1, <1>2
<1>7. \A n \in 1 .. l : n # 1 => /\ n \in Int /\ 1 < n /\ n - 1 \in 1 .. l - 1
                                 /\ (n - 1) + 1 = n
  BY <1>1, <1>2
<1>8. \A n \in 1 .. l : n # 1 => t[n - 1] = s[n]
  BY <1>4, <1>7
<1>9. ToSet(s) = ToSet(t) \cup {Head(s)}
  <2>1. \A x : x \in ToSet(s) => x \in ToSet(t) \/ x = Head(s)
    BY <1>1, <1>4, <1>7, <1>8 DEF ToSet
  <2>2. \A x : x \in ToSet(t) => x \in ToSet(s)
    BY <1>1, <1>4, <1>6 DEF ToSet
  <2>3. Head(s) \in ToSet(s)
    BY <1>1, <1>4, <1>5 DEF ToSet
  <2>4. QED
    BY <2>1, <2>2, <2>3
<1>10. QED
  BY <1>1, <1>3, <1>4, <1>5, <1>6, <1>7, <1>8, <1>9

(* The elements of a sequence that keeps those of another at positions S.  *)
LEMMA KeepsSet ==
  ASSUME NEW t, NEW s, NEW S, NEW h, Keeps(h, t, s, S)
  PROVE  ToSet(t) = {s[n] : n \in S} /\ Whos(t) = {s[n].who : n \in S}
<1>1. \A x : x \in ToSet(t) <=> \E n \in S : x = s[n]
  BY DEF Keeps, ToSet
<1>2. \A x : x \in Whos(t) <=> \E n \in S : x = s[n].who
  BY DEF Keeps, Whos
<1>3. QED
  BY <1>1, <1>2

(* What is in two sequences, one behind the other.                         *)
LEMMA ConcatSet ==
  ASSUME NEW E, NEW s \in Seq(E), NEW t \in Seq(E)
  PROVE  /\ s \o t \in Seq(E) /\ ToSet(s \o t) = ToSet(s) \cup ToSet(t)
         /\ Whos(s \o t) = Whos(s) \cup Whos(t)
         /\ \A n \in DOMAIN (s \o t) :
              \/ n \in DOMAIN s /\ (s \o t)[n] = s[n]
              \/ /\ n \in Int /\ n > Len(s) /\ n - Len(s) \in DOMAIN t
                 /\ (s \o t)[n] = t[n - Len(s)]
         /\ \A n \in DOMAIN s : n \in DOMAIN (s \o t) /\ n \in Int /\ n <= Len(s)
         /\ Len(s) \in Nat
<1>1. PICK l \in Nat, k \in Nat :
        l = Len(s) /\ k = Len(t) /\ DOMAIN s = 1 .. l /\ DOMAIN t = 1 .. k
  OBVIOUS
<1>2. PICK u : u = s \o t
  OBVIOUS
<1>3. /\ u \in Seq(E) /\ Len(u) = l + k
      /\ \A i \in 1 .. l + k : u[i] = IF i <= l THEN s[i] ELSE t[i - l]
  BY <1>1, <1>2, ConcatProperties
<1>4. DOMAIN u = 1 .. l + k
  BY <1>3
<1>5. \A n \in 1 .. l + k : \/ n \in 1 .. l /\ u[n] = s[n]
                            \/ n \in Int /\ n > l /\ n - l \in 1 .. k /\ u[n] = t[n - l]
  BY <1>1, <1>3
<1>6. \A n \in 1 .. l : n \in 1 .. l + k /\ n \in Int /\ n <= l /\ u[n] = s[n]
  BY <1>1, <1>3
<1>7. ASSUME NEW n \in 1 .. k PROVE n + l \in 1 .. l + k /\ u[n + l] = t[n]
  <2>1. n + l \in 1 .. l + k /\ ~ n + l <= l /\ (n + l) - l = n
    BY <1>1
  <2>2. QED
    BY <1>3, <2>1
<1>8. ToSet(u) = ToSet(s) \cup ToSet(t)
  <2>1. \A x : x \in ToSet(u) => x \in ToSet(s) \/ x \in ToSet(t)
    BY <1>1, <1>4, <1>5, ZenonT(60) DEF ToSet
  <2>2. \A x : x \in ToSet(s) => x \in ToSet(u)
    BY <1>1, <1>4, <1>6 DEF ToSet
  <2>3. \A x : x \in ToSet(t) => x \in ToSet(u)
    BY <1>1, <1>4, <1>7 DEF ToSet
  <2>4. QED
    BY <2>1, <2>2, <2>3
<1>9. Whos(u) = Whos(s) \cup Whos(t)
  <2>1. \A x : x \in Whos(u) => x \in Whos(s) \/ x \in Whos(t)
    BY <1>1, <1>4, <1>5 DEF Whos
  <2>2. \A x : x \in Whos(s) => x \in Whos(u)
    BY <1>1, <1>4, <1>6 DEF Whos
  <2>3. \A x : x \in Whos(t) => x \in Whos(u)
    BY <1>1, <1>4, <1>7 DEF Whos
  <2>4. QED
    BY <2>1, <2>2, <2>3
<1>10. QED
  BY <1>1, <1>2, <1>3, <1>4, <1>5, <1>6, <1>8, <1>9

-----------------------------------------------------------------------------
(* What each handler does to a group: it makes a group of it, and only     *)
(* those who waited, or whose dequeue it is (W), wait or are given a       *)
(* message.                                                                *)
Only(w, u, W) ==
  /\ Whos(u.dequeues) \subseteq Whos(w.dequeues) \cup W
  /\ \A c \in Consumer, m \in Message :
       Reply("dequeued", c, m) \in u.mail =>
         Reply("dequeued", c, m) \in w.mail \/ c \in Whos(w.dequeues) \cup W

(* After a step, a step that gives nothing to others.                      *)
LEMMA OnlyThen ==
  ASSUME NEW w, NEW u, NEW v, NEW W, Only(w, u, W), Only(u, v, {})
  PROVE  Only(w, v, W)
BY DEF Only

(* Equal replies are to the same process about the same message. *)
LEMMA ReplyIs ==
  ASSUME NEW k, NEW t, NEW m, NEW j, NEW s, NEW n
  PROVE  /\ Reply(k, t, m).kind = k /\ Reply(k, t, m).to = t /\ Reply(k, t, m).msg = m
         /\ Reply(k, t, m) = Reply(j, s, n) => k = j /\ t = s /\ m = n
<1>1. Reply(k, t, m).kind = k /\ Reply(k, t, m).to = t /\ Reply(k, t, m).msg = m
  BY DEF Reply
<1>2. Reply(j, s, n).kind = j /\ Reply(j, s, n).to = s /\ Reply(j, s, n).msg = n
  BY DEF Reply
<1>3. QED
  BY <1>1, <1>2

(* A dequeue gives a message to its caller, or lets it wait.               *)
LEMMA DequeuedOnly ==
  ASSUME NEW w \in Group, NEW d \in Wait, NEW u, u = Dequeued(w, d)
  PROVE  Only(w, u, {d.who})
<1>1. \/ Waited(w, u, d)
      \/ \E n \in DOMAIN w.db : Found(w, u, d, n)
  BY DequeuedIs
<1>2. w.dequeues \in Seq(Wait)
  BY DEF Group
<1>3. CASE Waited(w, u, d)
  <2>1. u.dequeues = Append(w.dequeues, d) /\ u.mail = w.mail
    BY <1>3 DEF Waited
  <2>2. Whos(u.dequeues) = Whos(w.dequeues) \cup {d.who}
    BY <1>2, <2>1, AppendSet
  <2>3. QED
    BY <2>1, <2>2 DEF Only
<1>4. ASSUME NEW n \in DOMAIN w.db, Found(w, u, d, n) PROVE Only(w, u, {d.who})
  <2>1. /\ u.dequeues = w.dequeues
        /\ u.mail = w.mail \cup {Reply("dequeued", d.who, w.db[n].msg)}
    BY <1>4 DEF Found
  <2>2. \A c \in Consumer, m \in Message :
          Reply("dequeued", c, m) = Reply("dequeued", d.who, w.db[n].msg) => c = d.who
    BY ReplyIs
  <2>3. QED
    BY <2>1, <2>2 DEF Only
<1>5. QED
  BY <1>1, <1>3, <1>4

(* What is put behind the dequeues at the end of the loop. *)
LEMMA FinishIs ==
  ASSUME NEW acc \in Acc, NEW t \in BOOLEAN, NEW u, u = Finish(acc, t)
  PROVE  /\ u \in Group /\ u.dequeues = acc.w.dequeues \o acc.back
         /\ u.db = acc.w.db /\ u.disk = acc.w.disk /\ u.involved = acc.w.involved
         /\ u.registered = acc.w.registered /\ u.held = acc.w.held /\ u.mail = acc.w.mail
<1>1. acc.w \in Group /\ acc.back \in Seq(Wait) /\ acc.w.dequeues \in Seq(Wait)
  BY DEF Acc, Group
<1>2. PICK s \in Seq(Wait) : s = acc.w.dequeues \o acc.back
  BY <1>1, ConcatSet
<1>3. u = [acc.w EXCEPT !.dequeues = s, !.timer = t]
  BY <1>2 DEF Finish
<1>4. QED
  BY <1>1, <1>2, <1>3 DEF Group

(* What the group is when it begins to try again who waits.                *)
LEMMA StartIs ==
  ASSUME NEW w \in Group
  PROVE  /\ Start(w) \in Acc /\ Start(w).back = <<>> /\ Start(w).w \in Group
         /\ Start(w).w.dequeues = RestOf(w) /\ Start(w).w.db = w.db /\ Start(w).w.disk = w.disk
         /\ Start(w).w.involved = w.involved /\ Start(w).w.registered = w.registered
         /\ Start(w).w.held = w.held /\ Start(w).w.mail = w.mail
         /\ Start(w).w.count = w.count /\ Start(w).left = w.count
<1>1. w.count \in [Queue -> Int] /\ <<>> \in Seq(Wait)
  BY DEF Group
<1>2. PICK s \in Seq(Wait) : s = RestOf(w)
  BY AgainRest
<1>3. PICK u : u = [w EXCEPT !.dequeues = s]
  OBVIOUS
<1>4. /\ u \in Group /\ u.dequeues = s /\ u.db = w.db /\ u.disk = w.disk
      /\ u.involved = w.involved /\ u.registered = w.registered
      /\ u.held = w.held /\ u.mail = w.mail /\ u.count = w.count
  BY <1>3 DEF Group
<1>5. Start(w) = [w |-> u, left |-> w.count, back |-> <<>>]
  BY <1>2, <1>3 DEF Start
<1>6. QED
  BY <1>1, <1>2, <1>4, <1>5 DEF Acc

(* To try again gives messages to those that wait, and nobody joins them.  *)
LEMMA WokenOnly ==
  ASSUME NEW w \in Group, NEW u, u = Woken(w)
  PROVE  u \in Group /\ Only(w, u, {})
<1>1. CASE w.dequeues = <<>>
  <2>1. u = w
    BY <1>1 DEF Woken
  <2>2. QED
    BY <2>1 DEF Only
<1>2. CASE w.dequeues # <<>>
  <2> DEFINE Kept(acc) == Only(w, acc.w, {}) /\ Whos(acc.back) \subseteq Whos(w.dequeues)
             S == {p \in Nat \X Acc : Kept(p[2])}
  <2>1. PICK again \in Seq(Wait) : again = AgainOf(w)
    BY AgainRest
  <2>2. Whos(again) \subseteq Whos(w.dequeues) /\ Whos(RestOf(w)) \subseteq Whos(w.dequeues)
    <3>1. PICK g : Keeps(g, again, w.dequeues, Passes(w))
      BY <2>1, AgainRest
    <3>2. PICK h : Keeps(h, RestOf(w), w.dequeues, DOMAIN w.dequeues \ Passes(w))
      BY AgainRest
    <3>3. Whos(again) = {w.dequeues[n].who : n \in Passes(w)}
      BY <3>1, KeepsSet
    <3>4. Whos(RestOf(w)) = {w.dequeues[n].who : n \in DOMAIN w.dequeues \ Passes(w)}
      BY <3>2, KeepsSet
    <3>5. QED
      BY <3>3, <3>4 DEF Whos, Passes
  <2>3. Kept(Start(w)) /\ Start(w) \in Acc
    <3>1. Whos(<<>>) = {}
      BY DEF Whos
    <3>2. QED
      BY <2>2, <3>1, StartIs DEF Only
  <2>4. ASSUME NEW n \in 1 .. Len(again), NEW acc \in Acc, Kept(acc)
        PROVE  Kept(Again(acc, again[n])) /\ Again(acc, again[n]) \in Acc
    <3>1. PICK d \in Wait : d = again[n] /\ d.who \in Whos(w.dequeues)
      <4>1. again[n] \in Wait /\ n \in DOMAIN again
        BY <2>1
      <4>2. again[n].who \in Whos(again)
        BY <4>1 DEF Whos
      <4>3. QED
        BY <2>2, <4>1, <4>2
    <3>2. PICK next : next = Again(acc, d)
      OBVIOUS
    <3>3. /\ next \in Acc
          /\ \/ next.w = acc.w /\ next.back = Append(acc.back, d)
             \/ next.w = Dequeued(acc.w, d) /\ next.back = acc.back
      BY <3>2, AgainIs
    <3>4. acc.w \in Group /\ acc.back \in Seq(Wait)
      BY DEF Acc
    <3>5. CASE next.w = acc.w /\ next.back = Append(acc.back, d)
      <4>1. Whos(next.back) = Whos(acc.back) \cup {d.who}
        BY <3>4, <3>5, AppendSet
      <4>2. QED
        BY <2>4, <3>1, <3>2, <3>3, <3>5, <4>1
    <3>6. CASE next.w = Dequeued(acc.w, d) /\ next.back = acc.back
      <4>1. Only(acc.w, next.w, {d.who})
        BY <3>4, <3>6, DequeuedOnly
      <4>2. Only(w, next.w, {})
        BY <2>4, <3>1, <4>1 DEF Only
      <4>3. QED
        BY <2>4, <3>1, <3>2, <3>3, <3>6, <4>2
    <3>7. QED
      BY <3>3, <3>5, <3>6
  <2>5. <<0, Start(w)>> \in S
    BY <2>3
  <2>6. \A n \in 1 .. Len(AgainOf(w)), acc \in Acc :
          <<n - 1, acc>> \in S => <<n, Again(acc, AgainOf(w)[n])>> \in S
    BY <2>1, <2>4
  <2>7. PICK done \in Acc, t \in BOOLEAN :
          <<Len(AgainOf(w)), done>> \in S /\ Woken(w) = Finish(done, t)
    <3> HIDE DEF S
    <3> QED BY <1>2, <2>5, <2>6, WokenIs
  <2>8. Kept(done) /\ done.w \in Group /\ done.back \in Seq(Wait)
    BY <2>7 DEF Acc
  <2>9. u \in Group /\ u.dequeues = done.w.dequeues \o done.back /\ u.mail = done.w.mail
    BY <2>7, FinishIs
  <2>10. Whos(u.dequeues) = Whos(done.w.dequeues) \cup Whos(done.back)
    <3>1. done.w.dequeues \in Seq(Wait)
      BY <2>8 DEF Group
    <3>2. QED
      BY <2>8, <2>9, <3>1, ConcatSet
  <2>11. QED
    BY <2>8, <2>9, <2>10 DEF Only
<1>3. QED
  BY <1>1, <1>2

(* persist: the database is written, and then the replies are sent.        *)
Written(w) == [w EXCEPT !.disk = w.db, !.mail = @ \cup ToSet(w.held), !.held = <<>>]
Queued(w, r) == [w EXCEPT !.held = Append(@, r)]

(* After a write everything is on disk and every reply has been sent.      *)
LEMMA WrittenIs ==
  ASSUME NEW w \in Group, NEW u, u = Written(w)
  PROVE  /\ u \in Group /\ u.db = w.db /\ u.disk = w.db /\ u.held = <<>>
         /\ u.mail = w.mail \cup ToSet(w.held)
         /\ u.dequeues = w.dequeues /\ u.involved = w.involved /\ u.registered = w.registered
<1>1. w.held \in Seq(Ack) /\ <<>> \in Seq(Ack) /\ w.mail \in SUBSET Mail /\ w.db \in Seq(Row)
  BY DEF Group
<1>2. ToSet(w.held) \subseteq Mail
  BY <1>1 DEF ToSet, Ack
<1>3. PICK mail \in SUBSET Mail : mail = w.mail \cup ToSet(w.held)
  BY <1>1, <1>2
<1>4. u = [w EXCEPT !.disk = w.db, !.mail = mail, !.held = <<>>]
  BY <1>3 DEF Written
<1>5. QED
  BY <1>1, <1>3, <1>4 DEF Group

(* The group u is w with one more reply that is held.                      *)
Queues(u, w, r) ==
  /\ u.db = w.db /\ u.disk = w.disk /\ u.mail = w.mail
  /\ u.held = Append(w.held, r) /\ ToSet(u.held) = ToSet(w.held) \cup {r}
  /\ u.dequeues = w.dequeues /\ u.involved = w.involved /\ u.registered = w.registered

(* A reply that is held waits for the disk.                                *)
LEMMA QueuedIs ==
  ASSUME NEW w \in Group, NEW r \in Ack, NEW u, u = Queued(w, r)
  PROVE  u \in Group /\ Queues(u, w, r)
<1>1. w.held \in Seq(Ack)
  BY DEF Group
<1>2. PICK s \in Seq(Ack) : s = Append(w.held, r)
  BY <1>1, AppendSet
<1>3. ToSet(s) = ToSet(w.held) \cup {r}
  BY <1>1, <1>2, AppendSet
<1>4. u = [w EXCEPT !.held = s]
  BY <1>2 DEF Queued
<1>5. QED
  BY <1>2, <1>3, <1>4 DEF Group, Queues

(* To persist does nothing, or writes and tries again who waits.           *)
LEMMA PersistedIs ==
  ASSUME NEW w \in Group, NEW u, u = Persisted(w)
  PROVE  u = w \/ u = Woken(Written(w))
BY DEF Persisted, Written

(* A reply is held, or the batch is full and everything is written.        *)
LEMMA HeldIs ==
  ASSUME NEW w \in Group, NEW r \in Ack, NEW u, u = Held(w, r)
  PROVE  u = Queued(w, r) \/ u = Persisted(Queued(w, r))
BY DEF Held, Queued

(* A write gives messages to those that wait, and to nobody else.          *)
LEMMA PersistOnly ==
  ASSUME NEW w \in Group, NEW u, u = Persisted(w)
  PROVE  u \in Group /\ Only(w, u, {})
<1>1. CASE u = w
  BY <1>1 DEF Only
<1>2. CASE u = Woken(Written(w))
  <2>1. PICK v : v = Written(w)
    OBVIOUS
  <2>2. v \in Group /\ v.dequeues = w.dequeues /\ v.mail = w.mail \cup ToSet(w.held)
    BY <2>1, WrittenIs
  <2>3. ASSUME NEW c \in Consumer, NEW m \in Message
        PROVE  Reply("dequeued", c, m) \notin ToSet(w.held)
    <3>1. w.held \in Seq(Ack)
      BY DEF Group
    <3>2. \A r \in ToSet(w.held) : r.kind \in {"xa", "enqueued"}
      BY <3>1 DEF ToSet, Ack
    <3>3. QED
      BY <3>2, ReplyIs
  <2>4. Only(w, v, {})
    BY <2>2, <2>3 DEF Only
  <2>5. u \in Group /\ Only(v, u, {})
    BY <1>2, <2>1, <2>2, WokenOnly
  <2>6. QED
    BY <2>4, <2>5, OnlyThen
<1>3. QED
  BY <1>1, <1>2, PersistedIs

(* So does a reply that is held, if it fills the batch.                    *)
LEMMA HeldOnly ==
  ASSUME NEW w \in Group, NEW r \in Ack, NEW u, u = Held(w, r)
  PROVE  u \in Group /\ Only(w, u, {})
<1>1. PICK v : v = Queued(w, r)
  OBVIOUS
<1>2. v \in Group /\ v.dequeues = w.dequeues /\ v.mail = w.mail
  BY <1>1, QueuedIs DEF Queues
<1>3. Only(w, v, {})
  BY <1>2 DEF Only
<1>4. CASE u = v
  BY <1>2, <1>3, <1>4
<1>5. CASE u = Persisted(v)
  <2>1. u \in Group /\ Only(v, u, {})
    BY <1>2, <1>5, PersistOnly
  <2>2. QED
    BY <1>3, <2>1, OnlyThen
<1>6. QED
  BY <1>1, <1>4, <1>5, HeldIs

(* A flow is in the sequence once.                                         *)
Singly(s) ==
  \A n, k \in DOMAIN s : s[n].who \in Flow /\ s[n].who = s[k].who => n = k

(* Some dequeues of a list where each waits once still do.                 *)
LEMMA KeepsSingly ==
  ASSUME NEW t, NEW s, NEW S \in SUBSET DOMAIN s, NEW h, Keeps(h, t, s, S), Singly(s)
  PROVE  Singly(t)
BY DEF Keeps, Singly

(* What taking elements out of a sequence leaves. *)
LEMMA WithoutSet ==
  ASSUME NEW E, NEW s \in Seq(E), NEW S, NEW t, t = Without(s, S)
  PROVE  /\ t \in Seq(E) /\ ToSet(t) = ToSet(s) \ S
         /\ Whos(t) = {d.who : d \in ToSet(s) \ S}
         /\ Singly(s) => Singly(t)
<1>1. PICK P : P = {n \in DOMAIN s : s[n] \notin S}
  OBVIOUS
<1>2. t \in Seq(E) /\ \E h : Keeps(h, t, s, P)
  BY <1>1, WithoutIs
<1>3. PICK h : Keeps(h, t, s, P)
  BY <1>2
<1>4. ToSet(t) = {s[n] : n \in P} /\ Whos(t) = {s[n].who : n \in P}
  BY <1>3, KeepsSet
<1>5. \A x : x \in ToSet(s) \ S <=> \E n \in P : x = s[n]
  BY <1>1 DEF ToSet
<1>6. ToSet(t) = ToSet(s) \ S
  BY <1>4, <1>5
<1>7. Whos(t) = {d.who : d \in ToSet(s) \ S}
  BY <1>4, <1>5
<1>8. Singly(s) => Singly(t)
  BY <1>1, <1>3, KeepsSingly
<1>9. QED
  BY <1>2, <1>6, <1>7, <1>8

(* The handlers. *)
LEMMA FlowEnqueueIs ==
  ASSUME NEW w \in Group, NEW l \in Letter, l.kind = "enqueue", l.who \in Flow,
         NEW u, u = OnEnqueue(w, l)
  PROVE  /\ u \in Group /\ l.msg \in Message
         /\ \E r \in Row : /\ u.db = Append(w.db, r) /\ r.msg = l.msg /\ r.gtrid = l.who
                           /\ r.state = "added"
         /\ Reply("enqueued", l.who, l.msg) \in Mail
         /\ u.mail = w.mail \cup {Reply("enqueued", l.who, l.msg)}
         /\ u.involved = w.involved \cup {l.who}
         /\ u.registered = w.registered \cup ({l.who} \ w.involved)
         /\ u.disk = w.disk /\ u.dequeues = w.dequeues /\ u.held = w.held
<1> USE QueueAssumption
<1>1. l.msg \in Message /\ l.who # Nobody
  BY DEF Letter
<1>2. PICK v : v = Enqueued(w, l.msg, "target", l.who)
  OBVIOUS
<1>3. /\ v \in Group /\ Rest(v) = Rest(w)
      /\ \E r \in Row : /\ v.db = Append(w.db, r) /\ r.msg = l.msg /\ r.gtrid = l.who
                        /\ r.state = "added"
  <2>1. "target" \in Queue /\ l.who \in Flow \cup {Nobody}
    BY DEF Queue
  <2>2. PICK t : t = l.who
    OBVIOUS
  <2>3. QED
    BY <1>1, <1>2, <2>1, <2>2, EnqueuedIs
<1>4. PICK x : x = Involved(v, l.who)
  OBVIOUS
<1>5. PICK r : r = Reply("enqueued", l.who, l.msg)
  OBVIOUS
<1>6. r \in Mail
  BY <1>1, <1>5 DEF Reply, Mail, MailKind, Who
<1>7. u = Sent(x, r)
  BY <1>2, <1>4, <1>5 DEF OnEnqueue
<1>8. /\ x \in Group /\ x.involved = v.involved \cup {l.who}
      /\ x.registered = v.registered \cup ({l.who} \ v.involved)
      /\ x.mail = v.mail /\ x.db = v.db /\ x.disk = v.disk /\ x.dequeues = v.dequeues
      /\ x.held = v.held
  BY <1>3, <1>4, InvolvedIs
<1>9. /\ u \in Group /\ u.mail = x.mail \cup {r}
      /\ u.db = x.db /\ u.disk = x.disk /\ u.involved = x.involved
      /\ u.registered = x.registered /\ u.dequeues = x.dequeues /\ u.held = x.held
  BY <1>6, <1>7, <1>8, SentIs
<1>10. QED
  BY <1>1, <1>3, <1>5, <1>6, <1>8, <1>9 DEF Rest

(* The enqueue of a producer adds a row that shows, and holds its reply.   *)
LEMMA ProducerEnqueueIs ==
  ASSUME NEW w \in Group, NEW l \in Letter, l.kind = "enqueue", l.who \notin Flow,
         NEW u, u = OnEnqueue(w, l)
  PROVE  /\ l.who \in Message /\ l.msg = l.who /\ Reply("enqueued", l.who, l.who) \in Ack
         /\ \E v \in Group :
              /\ u = Held(v, Reply("enqueued", l.who, l.who)) /\ Rest(v) = Rest(w)
              /\ \E r \in Row : /\ v.db = Append(w.db, r) /\ r.msg = l.who
                                /\ r.state = "enqueued" /\ r.gtrid = Nobody
<1>1. l.who \in Message /\ l.msg = l.who
  BY DEF Letter
<1>2. PICK v : v = Enqueued(w, l.msg, "source", Nobody)
  OBVIOUS
<1>3. /\ v \in Group /\ Rest(v) = Rest(w)
      /\ \E r \in Row : /\ v.db = Append(w.db, r) /\ r.msg = l.msg /\ r.gtrid = Nobody
                        /\ r.state = "enqueued"
  <2>1. "source" \in Queue
    BY DEF Queue
  <2>2. PICK t \in Flow \cup {Nobody} : t = Nobody
    OBVIOUS
  <2>3. QED
    BY <1>1, <1>2, <2>1, <2>2, EnqueuedIs
<1>4. Reply("enqueued", l.who, l.who) \in Ack
  BY <1>1 DEF Reply, Ack, Mail, MailKind, Who
<1>5. u = Held(v, Reply("enqueued", l.who, l.who))
  BY <1>1, <1>2 DEF OnEnqueue
<1>6. QED
  BY <1>1, <1>3, <1>4, <1>5

(* A dequeue that is forgotten is told of it. *)
LEMMA ForgetIs ==
  ASSUME NEW w \in Group, NEW l \in Letter, l.kind = "forget", NEW u, u = OnForget(w, l)
  PROVE  /\ u \in Group /\ l.who \in Flow \cup Consumer
         /\ u.db = w.db /\ u.disk = w.disk /\ u.involved = w.involved
         /\ u.registered = w.registered /\ u.held = w.held
         /\ \/ u = w /\ l.who \in Flow /\ l.who \notin Whos(w.dequeues)
            \/ /\ l.who \in Consumer \/ l.who \in Whos(w.dequeues)
               /\ Reply("forgotten", l.who, Nobody) \in Mail
               /\ u.mail = w.mail \cup {Reply("forgotten", l.who, Nobody)}
               /\ Whos(u.dequeues) = Whos(w.dequeues) \ {l.who}
               /\ Singly(w.dequeues) => Singly(u.dequeues)
<1>1. l.who \in Flow \cup Consumer
  BY DEF Letter
<1>2. PICK S : S = WaitsOf(w, {l.who})
  OBVIOUS
<1>3. PICK s \in Seq(Wait) : s = w.dequeues
  BY DEF Group
<1>4. S = {d \in ToSet(s) : d.who = l.who}
  BY <1>2, <1>3 DEF WaitsOf
<1>5. S # {} <=> l.who \in Whos(w.dequeues)
  BY <1>3, <1>4 DEF Whos, ToSet
<1>6. CASE l.who \in Consumer \/ S # {}
  <2>1. PICK t : t = Without(s, S)
    OBVIOUS
  <2>2. /\ t \in Seq(Wait) /\ Whos(t) = {d.who : d \in ToSet(s) \ S}
        /\ Singly(s) => Singly(t)
    BY <2>1, WithoutSet
  <2>3. Whos(t) = Whos(s) \ {l.who}
    BY <1>4, <2>2, ZenonT(60) DEF Whos, ToSet
  <2>5. PICK r : r = Reply("forgotten", l.who, Nobody)
    OBVIOUS
  <2>6. r \in Mail
    BY <1>1, <2>5 DEF Reply, Mail, MailKind, Who
  <2>7. PICK v : v = [w EXCEPT !.dequeues = t]
    OBVIOUS
  <2>8. /\ v \in Group /\ v.dequeues = t /\ v.db = w.db /\ v.disk = w.disk
        /\ v.involved = w.involved /\ v.registered = w.registered /\ v.held = w.held
        /\ v.mail = w.mail
    BY <2>2, <2>7 DEF Group
  <2>9. u = Sent(v, r)
    BY <1>2, <1>3, <1>6, <2>1, <2>5, <2>7 DEF OnForget
  <2>10. /\ u \in Group /\ u.mail = v.mail \cup {r}
         /\ u.db = v.db /\ u.disk = v.disk /\ u.involved = v.involved
         /\ u.registered = v.registered /\ u.dequeues = v.dequeues /\ u.held = v.held
    BY <2>6, <2>8, <2>9, SentIs
  <2>11. QED
    BY <1>1, <1>3, <1>5, <1>6, <2>2, <2>3, <2>5, <2>6, <2>8, <2>10
<1>7. CASE ~ (l.who \in Consumer \/ S # {})
  <2>1. u = w
    BY <1>2, <1>7 DEF OnForget
  <2>2. QED
    BY <1>1, <1>5, <1>7, <2>1
<1>8. QED
  BY <1>6, <1>7

(* commit and rollback change the database, and their reply waits for it.  *)
Uninvolved(w, f) == [w EXCEPT !.involved = @ \ {f}]

(* A transaction that ends is forgotten, and nothing else changes.         *)
LEMMA UninvolvedIs ==
  ASSUME NEW w \in Group, NEW f \in Flow, NEW u, u = Uninvolved(w, f)
  PROVE  /\ u \in Group /\ u.involved = w.involved \ {f} /\ u.db = w.db /\ u.disk = w.disk
         /\ u.registered = w.registered /\ u.dequeues = w.dequeues /\ u.held = w.held
         /\ u.mail = w.mail
BY DEF Uninvolved, Group

(* A commit shows what was added, deletes what was taken and holds its     *)
(* reply.                                                                  *)
LEMMA CommitIs ==
  ASSUME NEW w \in Group, NEW l \in Letter, l.kind = "commit", NEW u, u = OnCommit(w, l)
  PROVE  /\ l.who \in Flow /\ Reply("xa", l.who, Nobody) \in Ack
         /\ \E v \in Group :
              /\ u = Held(v, Reply("xa", l.who, Nobody))
              /\ v.db = Without(Shown(w.db, l.who), RowsOf(Shown(w.db, l.who), l.who, "dequeued"))
              /\ v.involved = w.involved \ {l.who} /\ v.disk = w.disk
              /\ v.registered = w.registered /\ v.dequeues = w.dequeues /\ v.held = w.held
              /\ v.mail = w.mail
<1>1. l.who \in Flow
  BY DEF Letter
<1>2. Reply("xa", l.who, Nobody) \in Ack
  BY <1>1 DEF Reply, Ack, Mail, MailKind, Who
<1>3. PICK x : x = Uninvolved(w, l.who)
  OBVIOUS
<1>4. PICK v : v = Committed(x, l.who)
  OBVIOUS
<1>5. /\ x \in Group /\ x.involved = w.involved \ {l.who} /\ x.db = w.db /\ x.disk = w.disk
      /\ x.registered = w.registered /\ x.dequeues = w.dequeues /\ x.held = w.held
      /\ x.mail = w.mail
  BY <1>1, <1>3, UninvolvedIs
<1>6. /\ v \in Group /\ Rest(v) = Rest(x)
      /\ v.db = Without(Shown(x.db, l.who), RowsOf(Shown(x.db, l.who), l.who, "dequeued"))
  BY <1>1, <1>4, <1>5, CommittedIs
<1>7. u = Held(v, Reply("xa", l.who, Nobody))
  BY <1>3, <1>4 DEF OnCommit, Uninvolved
<1>8. QED
  BY <1>1, <1>2, <1>5, <1>6, <1>7 DEF Rest

(* A rollback deletes what was added, gives back what was taken and holds  *)
(* its reply.                                                              *)
LEMMA RollbackIs ==
  ASSUME NEW w \in Group, NEW l \in Letter, l.kind = "rollback", NEW u, u = OnRollback(w, l)
  PROVE  /\ l.who \in Flow /\ Reply("xa", l.who, Nobody) \in Ack
         /\ \E v \in Group, e \in Seq(Row) :
              /\ u = Held(v, Reply("xa", l.who, Nobody))
              /\ e = Without(w.db, RowsOf(w.db, l.who, "added")) /\ Reverted(v.db, e, l.who)
              /\ v.involved = w.involved \ {l.who} /\ v.disk = w.disk
              /\ v.registered = w.registered /\ v.dequeues = w.dequeues /\ v.held = w.held
              /\ v.mail = w.mail
<1>1. l.who \in Flow
  BY DEF Letter
<1>2. Reply("xa", l.who, Nobody) \in Ack
  BY <1>1 DEF Reply, Ack, Mail, MailKind, Who
<1>3. PICK x : x = Uninvolved(w, l.who)
  OBVIOUS
<1>4. PICK v : v = RolledBack(x, l.who)
  OBVIOUS
<1>5. /\ x \in Group /\ x.involved = w.involved \ {l.who} /\ x.db = w.db /\ x.disk = w.disk
      /\ x.registered = w.registered /\ x.dequeues = w.dequeues /\ x.held = w.held
      /\ x.mail = w.mail
  BY <1>1, <1>3, UninvolvedIs
<1>6. PICK e : e = Without(x.db, RowsOf(x.db, l.who, "added"))
  OBVIOUS
<1>7. PICK f \in Flow : f = l.who
  BY <1>1
<1>8. v \in Group /\ Rest(v) = Rest(x) /\ e \in Seq(Row) /\ Reverted(v.db, e, f)
  BY <1>4, <1>5, <1>6, <1>7, RolledBackIs
<1>9. u = Held(v, Reply("xa", l.who, Nobody))
  BY <1>3, <1>4 DEF OnRollback, Uninvolved
<1>10. QED
  BY <1>1, <1>2, <1>5, <1>6, <1>7, <1>8, <1>9 DEF Rest

(* restore writes the database at once. *)
LEMMA RestoreIs ==
  ASSUME NEW w \in Group, NEW u, u = OnRestore(w)
  PROVE  \E v \in Group :
           /\ u = Woken(v) /\ v.disk = v.db /\ AsRows(v.db, w.db)
           /\ v.involved = w.involved /\ v.registered = w.registered
           /\ v.dequeues = w.dequeues /\ v.held = w.held /\ v.mail = w.mail
<1>1. PICK r : r = Restored(w)
  OBVIOUS
<1>2. r \in Group /\ Rest(r) = Rest(w) /\ AsRows(r.db, w.db)
  BY <1>1, RestoredIs
<1>3. PICK v : v = [r EXCEPT !.disk = r.db]
  OBVIOUS
<1>4. /\ v \in Group /\ v.disk = r.db /\ v.db = r.db /\ v.involved = r.involved
      /\ v.registered = r.registered /\ v.dequeues = r.dequeues /\ v.held = r.held
      /\ v.mail = r.mail
  BY <1>2, <1>3 DEF Group
<1>5. u = Woken(v)
  BY <1>1, <1>3 DEF OnRestore
<1>6. QED
  BY <1>2, <1>4, <1>5 DEF Rest

(* exit removes the dequeues and the held replies of a process. *)
LEMMA ExitIs ==
  ASSUME NEW w \in Group, NEW l \in Letter, l.kind = "exit", NEW u, u = OnExit(w, l)
  PROVE  /\ u \in Group /\ l.who \in SUBSET Who
         /\ u.db = w.db /\ u.disk = w.disk /\ u.involved = w.involved
         /\ u.registered = w.registered /\ u.mail = w.mail
         /\ Whos(u.dequeues) = Whos(w.dequeues) \ l.who
         /\ Singly(w.dequeues) => Singly(u.dequeues)
         /\ ToSet(u.held) = {r \in ToSet(w.held) : ~ (r.kind = "enqueued" /\ r.to \in l.who)}
<1>1. l.who \in SUBSET Who
  BY DEF Letter
<1>2. PICK S, T : S = WaitsOf(w, l.who) /\ T = AcksOf(w, l.who)
  OBVIOUS
<1>3. PICK s \in Seq(Wait) : s = w.dequeues
  BY DEF Group
<1>4. PICK h \in Seq(Ack) : h = w.held
  BY DEF Group
<1>5. PICK t, k : t = Without(s, S) /\ k = Without(h, T)
  OBVIOUS
<1>6. /\ t \in Seq(Wait) /\ Whos(t) = {d.who : d \in ToSet(s) \ S}
      /\ Singly(s) => Singly(t)
  BY <1>5, WithoutSet
<1>7. k \in Seq(Ack) /\ ToSet(k) = ToSet(h) \ T
  BY <1>5, WithoutSet
<1>8. Whos(t) = Whos(s) \ l.who
  <2>1. S = {d \in ToSet(s) : d.who \in l.who}
    BY <1>2, <1>3 DEF WaitsOf
  <2>2. QED
    BY <1>6, <2>1 DEF Whos, ToSet
<1>9. ToSet(k) = {r \in ToSet(h) : ~ (r.kind = "enqueued" /\ r.to \in l.who)}
  BY <1>2, <1>4, <1>7 DEF AcksOf
<1>10. u = [w EXCEPT !.dequeues = t, !.held = k]
  BY <1>2, <1>3, <1>4, <1>5 DEF OnExit
<1>11. QED
  BY <1>1, <1>3, <1>4, <1>6, <1>7, <1>8, <1>9, <1>10 DEF Group

(* shutdown tells the dequeues that wait. *)
Farewells(p) == {Reply("forgotten", d.who, Nobody) : d \in ToSet(p.dequeues)}

(* A shutdown writes and tells those that wait to forget.                  *)
LEMMA ShutdownIs ==
  ASSUME NEW w \in Group, NEW p \in Group, p = Persisted(w), NEW u, u = OnShutdown(w)
  PROVE  /\ u \in Group /\ u.dequeues = <<>>
         /\ u.db = p.db /\ u.disk = p.disk /\ u.involved = p.involved
         /\ u.registered = p.registered /\ u.held = p.held
         /\ u.mail = p.mail \cup Farewells(p) /\ Farewells(p) \in SUBSET Mail
<1>1. p.dequeues \in Seq(Wait)
  BY DEF Group
<1>2. ASSUME NEW d \in ToSet(p.dequeues) PROVE Reply("forgotten", d.who, Nobody) \in Mail
  <2>1. d \in Wait
    BY <1>1 DEF ToSet
  <2>2. QED
    BY <2>1 DEF Wait, Reply, Mail, MailKind, Who
<1>3. Farewells(p) \in SUBSET Mail
  BY <1>2 DEF Farewells
<1>4. PICK mail : mail = p.mail \cup Farewells(p)
  OBVIOUS
<1>5. mail \in SUBSET Mail /\ <<>> \in Seq(Wait)
  BY <1>3, <1>4 DEF Group
<1>6. u = [p EXCEPT !.dequeues = <<>>, !.mail = mail]
  BY <1>4 DEF OnShutdown, Farewells
<1>7. QED
  BY <1>3, <1>4, <1>5, <1>6 DEF Group
-----------------------------------------------------------------------------
(* The counts.  What a queue counts are its rows that a dequeue could find *)
(* or has found; only flows hold rows, and only of source, and only what   *)
(* has been given back is for later.                                       *)
Seen(db, q) == {n \in DOMAIN db : db[n].queue = q /\ Visible(db[n])}
Exact(db, count) == \A q \in Queue : count[q] = Cardinality(Seen(db, q))
Placed(db) ==
  \A n \in DOMAIN db : /\ db[n].state = "dequeued" => db[n].queue = "source"
                       /\ db[n].later => RetryDelay /\ db[n].queue # "target"
Booked(w) == Exact(w.db, w.count) /\ Placed(w.db)

(* There are finitely many rows.                                           *)
LEMMA SeenIs ==
  ASSUME NEW db \in Seq(Row), NEW S \in SUBSET DOMAIN db
  PROVE  IsFiniteSet(S) /\ Cardinality(S) \in Nat
<1>1. DOMAIN db = 1 .. Len(db) /\ Len(db) \in Nat
  OBVIOUS
<1>2. IsFiniteSet(1 .. Len(db))
  BY <1>1, FS_Interval
<1>3. QED
  BY <1>1, <1>2, FS_Subset, FS_CardinalityType

(* Elements that are kept are as many as they were.                        *)
LEMMA KeepsCount ==
  ASSUME NEW h, NEW t, NEW s, NEW S, Keeps(h, t, s, S), NEW T \in SUBSET DOMAIN t,
         NEW U \in SUBSET S, IsFiniteSet(T), \A k \in DOMAIN t : k \in T <=> h[k] \in U
  PROVE  Cardinality(T) = Cardinality(U)
<1>1. PICK g : g = [k \in T |-> h[k]]
  OBVIOUS
<1>2. g \in [T -> U]
  BY <1>1
<1>3. \A k, j \in T : g[k] = g[j] => k = j
  BY <1>1 DEF Keeps
<1>4. \A u \in U : \E k \in T : g[k] = u
  BY <1>1 DEF Keeps
<1>5. g \in Bijection(T, U)
  BY <1>2, <1>3, <1>4, Zenon DEF Bijection, Injection, Surjection, IsInjective
<1>6. ExistsBijection(T, U)
  BY <1>5 DEF ExistsBijection
<1>7. QED
  BY <1>6, FS_Bijection

(* The rows that are left of a database and can be seen.                   *)
LEMMA SeenKept ==
  ASSUME NEW db \in Seq(Row), NEW e \in Seq(Row), NEW S \in SUBSET DOMAIN db, NEW h,
         Keeps(h, e, db, S), NEW q
  PROVE  Cardinality(Seen(e, q)) = Cardinality(Seen(db, q) \cap S)
<1>1. PICK T \in SUBSET DOMAIN e : T = Seen(e, q)
  BY DEF Seen
<1>2. PICK U \in SUBSET S : U = Seen(db, q) \cap S
  OBVIOUS
<1>3. \A k \in DOMAIN e : k \in T <=> h[k] \in U
  BY <1>1, <1>2 DEF Seen, Keeps
<1>4. IsFiniteSet(T)
  BY SeenIs
<1>5. QED
  BY <1>1, <1>2, <1>3, <1>4, KeepsCount

(* So is where they are and for when.                                      *)
LEMMA PlacedKept ==
  ASSUME NEW db, NEW e, NEW S \in SUBSET DOMAIN db, NEW h, Keeps(h, e, db, S), Placed(db)
  PROVE  Placed(e)
BY DEF Placed, Keeps

(* enqueue.                                                                *)
LEMMA EnqueuedBooked ==
  ASSUME NEW w \in Group, Booked(w), NEW m \in Message, NEW q \in Queue,
         NEW t \in Flow \cup {Nobody}, NEW u, u = Enqueued(w, m, q, t)
  PROVE  Booked(u)
<1>1. PICK r : r = [msg |-> m, queue |-> q, gtrid |-> t, redelivered |-> 0, later |-> FALSE,
                    state |-> IF t = Nobody THEN "enqueued" ELSE "added"]
  OBVIOUS
<1>2. r \in Row
  BY <1>1 DEF Row
<1>3. PICK db \in Seq(Row), count \in [Queue -> Int] : db = w.db /\ count = w.count
  BY DEF Group
<1>4. PICK d, c : /\ d = Append(db, r)
                  /\ c = IF t = Nobody THEN [count EXCEPT ![q] = (@ + 1) - 0] ELSE count
  OBVIOUS
<1>5. u.db = d /\ u.count = c
  BY <1>1, <1>3, <1>4 DEF Enqueued, Counted, Group
<1>6. PICK l \in Nat : l = Len(db) /\ DOMAIN db = 1 .. l
  OBVIOUS
<1>7. /\ DOMAIN d = 1 .. l + 1 /\ d[l + 1] = r
      /\ \A n \in 1 .. l : d[n] = db[n] /\ n \in 1 .. l + 1 /\ n # l + 1
      /\ \A n \in 1 .. l + 1 : n = l + 1 \/ n \in 1 .. l
      /\ l + 1 \in 1 .. l + 1 /\ l + 1 \notin 1 .. l
  BY <1>2, <1>4, <1>6
<1>8. Placed(d)
  BY <1>1, <1>3, <1>6, <1>7 DEF Placed, Booked
<1>9. ASSUME NEW p \in Queue PROVE c[p] = Cardinality(Seen(d, p))
  <2>1. PICK S : S = Seen(db, p)
    OBVIOUS
  <2>2. IsFiniteSet(S) /\ Cardinality(S) \in Nat /\ S \subseteq 1 .. l /\ count[p] = Cardinality(S)
    BY <1>3, <1>6, <2>1, SeenIs DEF Seen, Booked, Exact
  <2>3. CASE p = q /\ t = Nobody
    <3>1. Seen(d, p) = S \cup {l + 1}
      BY <1>1, <1>6, <1>7, <2>1, <2>3 DEF Seen, Visible
    <3>2. Cardinality(S \cup {l + 1}) = Cardinality(S) + 1
      BY <1>7, <2>2, FS_AddElement
    <3>3. c[p] = count[p] + 1
      BY <1>4, <2>3
    <3>4. QED
      BY <2>2, <3>1, <3>2, <3>3
  <2>4. CASE ~ (p = q /\ t = Nobody)
    <3>1. Seen(d, p) = S
      BY <1>1, <1>6, <1>7, <2>1, <2>4 DEF Seen, Visible
    <3>2. c[p] = count[p]
      BY <1>4, <2>4
    <3>3. QED
      BY <2>2, <3>1, <3>2
  <2>5. QED
    BY <2>3, <2>4
<1>10. QED
  BY <1>5, <1>8, <1>9 DEF Booked, Exact

(* A dequeue takes the row, or holds it for a flow.                        *)
LEMMA TakenBooked ==
  ASSUME NEW w \in Group, Booked(w), NEW q \in Queue, NEW n, n = Ready(w, q), n # 0,
         NEW t \in Flow \cup {Nobody}, t # Nobody => q = "source", NEW u, u = Taken(w, q, t)
  PROVE  Booked(u)
<1>1. PICK db \in Seq(Row), count \in [Queue -> Int] : db = w.db /\ count = w.count
  BY DEF Group
<1>2. n \in DOMAIN db /\ db[n].state = "enqueued" /\ db[n].queue = q
  BY <1>1, ReadyIs
<1>3. Placed(db) /\ Exact(db, count)
  BY <1>1 DEF Booked
<1>4. CASE t = Nobody
  <2>1. PICK d, c : d = RemoveAt(db, n) /\ c = [count EXCEPT ![q] = (@ + 0) - 1]
    OBVIOUS
  <2>2. u.db = d /\ u.count = c
    BY <1>1, <1>4, <2>1 DEF Taken, Counted, Group
  <2>3. PICK h : d \in Seq(Row) /\ Keeps(h, d, db, DOMAIN db \ {n})
    BY <1>2, <2>1, RemoveAtIs
  <2>4. Placed(d)
    BY <1>3, <2>3, PlacedKept
  <2>5. ASSUME NEW p \in Queue PROVE c[p] = Cardinality(Seen(d, p))
    <3>1. PICK S \in SUBSET DOMAIN db : S = Seen(db, p)
      BY DEF Seen
    <3>2. IsFiniteSet(S) /\ Cardinality(S) \in Nat /\ count[p] = Cardinality(S)
      BY <1>3, <3>1, SeenIs DEF Exact
    <3>3. Cardinality(Seen(d, p)) = Cardinality(S \cap (DOMAIN db \ {n}))
      BY <2>3, <3>1, SeenKept
    <3>4. S \cap (DOMAIN db \ {n}) = S \ {n}
      OBVIOUS
    <3>5. n \in S <=> p = q
      BY <1>2, <3>1 DEF Seen, Visible
    <3>6. c[p] = IF p = q THEN count[p] - 1 ELSE count[p]
      BY <2>1
    <3>7. Cardinality(S \ {n}) = IF n \in S THEN Cardinality(S) - 1 ELSE Cardinality(S)
      BY <3>2, FS_RemoveElement
    <3>8. QED
      BY <3>2, <3>3, <3>4, <3>5, <3>6, <3>7
  <2>6. QED
    BY <2>2, <2>4, <2>5 DEF Booked, Exact
<1>5. CASE t # Nobody
  <2>1. PICK d : d = Marked(db, n, t)
    OBVIOUS
  <2>2. u.db = d /\ u.count = count
    BY <1>1, <1>5, <2>1 DEF Taken, Marked, Group
  <2>3. db[n] \in Row
    BY <1>2, RowOf
  <2>4. /\ DOMAIN d = DOMAIN db
        /\ \A k \in DOMAIN db : /\ d[k].queue = db[k].queue /\ d[k].later = db[k].later
                                /\ d[k].state = IF k = n THEN "dequeued" ELSE db[k].state
    BY <1>2, <2>1, <2>3 DEF Marked, Row
  <2>5. Placed(d)
    BY <1>2, <1>3, <1>5, <2>4 DEF Placed
  <2>6. \A p : Seen(d, p) = Seen(db, p)
    BY <1>2, <2>4 DEF Seen, Visible
  <2>7. QED
    BY <1>3, <2>2, <2>5, <2>6 DEF Booked, Exact
<1>6. QED
  BY <1>4, <1>5
(* Rows of two kinds are counted one kind after the other.                 *)
LEMMA CountBoth ==
  ASSUME NEW S, NEW T, IsFiniteSet(S), IsFiniteSet(T), S \cap T = {}
  PROVE  /\ IsFiniteSet(S \cup T) /\ Cardinality(S \cup T) = Cardinality(S) + Cardinality(T)
         /\ Cardinality(S) \in Nat /\ Cardinality(T) \in Nat
<1>1. Cardinality(S) \in Nat /\ Cardinality(T) \in Nat /\ Cardinality(S \cap T) = 0
  BY FS_CardinalityType, FS_EmptySet
<1>2. /\ IsFiniteSet(S \cup T)
      /\ Cardinality(S \cup T) = Cardinality(S) + Cardinality(T) - Cardinality(S \cap T)
  BY FS_Union
<1>3. QED
  BY <1>1, <1>2

(* commit: what was added can be seen, and what was taken is gone.         *)
LEMMA CommittedBooked ==
  ASSUME NEW w \in Group, Booked(w), NEW f \in Flow, NEW u, u = Committed(w, f)
  PROVE  Booked(u)
<1> DEFINE Of(db, q, state) ==
             {n \in DOMAIN db : db[n].queue = q /\ db[n].gtrid = f /\ db[n].state = state}
<1>1. PICK db \in Seq(Row), count \in [Queue -> Int] : db = w.db /\ count = w.count
  BY DEF Group
<1>2. Placed(db) /\ Exact(db, count)
  BY <1>1 DEF Booked
<1>3. PICK s : s = Shown(db, f)
  OBVIOUS
<1>4. PICK d : d = Without(s, RowsOf(s, f, "dequeued"))
  OBVIOUS
<1>5. PICK c : c = [q \in Queue |-> (count[q] + Cardinality(Of(db, q, "added")))
                                     - Cardinality(Of(db, q, "dequeued"))]
  OBVIOUS
<1>6. u = Counting(w, d, c)
  <2>1. u = Counting(w, Without(Shown(w.db, f), RowsOf(Shown(w.db, f), f, "dequeued")), c)
    BY <1>1, <1>5 DEF Committed, Rows, Shown, Group, Counting
  <2>2. QED
    BY <1>1, <1>3, <1>4, <2>1
<1>7. u.db = d /\ u.count = c
  BY <1>6 DEF Counting, Group
<1>8. /\ s \in Seq(Row) /\ DOMAIN s = DOMAIN db
      /\ \A n \in DOMAIN db :
           /\ s[n].queue = db[n].queue /\ s[n].gtrid = db[n].gtrid /\ s[n].later = db[n].later
           /\ s[n].state = IF db[n].gtrid = f /\ db[n].state = "added" THEN "enqueued"
                           ELSE db[n].state
  <2>1. \A n \in DOMAIN db :
          /\ s[n] \in Row /\ s[n].queue = db[n].queue /\ s[n].gtrid = db[n].gtrid
          /\ s[n].later = db[n].later
          /\ s[n].state = IF db[n].gtrid = f /\ db[n].state = "added" THEN "enqueued"
                          ELSE db[n].state
    <3>1. ASSUME NEW n \in DOMAIN db, NEW r \in Row, r = db[n]
          PROVE  /\ s[n] \in Row /\ s[n].queue = r.queue /\ s[n].gtrid = r.gtrid
                 /\ s[n].later = r.later
                 /\ s[n].state = IF r.gtrid = f /\ r.state = "added" THEN "enqueued" ELSE r.state
      <4>1. s[n] = IF r.gtrid = f /\ r.state = "added" THEN [r EXCEPT !.state = "enqueued"] ELSE r
        BY <1>3, <3>1 DEF Shown
      <4>2. QED
        BY <4>1, SMTT(45) DEF Row
    <3>2. QED
      BY <3>1, RowOf
  <2>2. DOMAIN s = DOMAIN db /\ DOMAIN db = 1 .. Len(db) /\ Len(db) \in Nat
    BY <1>3 DEF Shown
  <2>3. s = [n \in 1 .. Len(db) |-> s[n]]
    BY <1>3, <2>2 DEF Shown
  <2>4. s \in Seq(Row)
    BY <2>1, <2>2, <2>3
  <2>5. QED
    BY <2>1, <2>2, <2>4
<1>9. PICK S \in SUBSET DOMAIN s : S = Others(s, f, "dequeued")
  BY DEF Others
<1>10. PICK h : d \in Seq(Row) /\ Keeps(h, d, s, S)
  BY <1>4, <1>8, <1>9, WithoutRows
<1>11. Placed(d)
  <2>1. Placed(s)
    BY <1>2, <1>8 DEF Placed
  <2>2. QED
    BY <1>10, <2>1, PlacedKept
<1>12. ASSUME NEW q \in Queue PROVE c[q] = Cardinality(Seen(d, q))
  <2>1. PICK V, A, T, X : /\ V = Seen(db, q) /\ A = Of(db, q, "added") /\ T = Of(db, q, "dequeued")
                          /\ X = Seen(d, q)
    OBVIOUS
  <2>2. /\ V \in SUBSET DOMAIN db /\ A \in SUBSET DOMAIN db /\ T \in SUBSET V
        /\ V \cap A = {}
    BY <2>1 DEF Seen, Visible
  <2>3. PICK Y \in SUBSET DOMAIN db : Y = Seen(s, q) \cap S
    BY <1>8 DEF Seen
  <2>4. Y \cup T = V \cup A /\ Y \cap T = {}
    BY <1>8, <1>9, <2>1, <2>3 DEF Seen, Visible, Others
  <2>5. /\ IsFiniteSet(V) /\ IsFiniteSet(A) /\ IsFiniteSet(T) /\ IsFiniteSet(Y)
    BY <2>2, SeenIs
  <2>6. /\ Cardinality(Y \cup T) = Cardinality(Y) + Cardinality(T)
        /\ Cardinality(Y) \in Nat /\ Cardinality(T) \in Nat
    BY <2>4, <2>5, CountBoth
  <2>7. /\ Cardinality(V \cup A) = Cardinality(V) + Cardinality(A)
        /\ Cardinality(V) \in Nat /\ Cardinality(A) \in Nat
    BY <2>2, <2>5, CountBoth
  <2>8. Cardinality(X) = Cardinality(Y)
    BY <1>8, <1>10, <2>1, <2>3, SeenKept
  <2>9. count[q] = Cardinality(V)
    BY <1>2, <2>1 DEF Exact
  <2>10. c[q] = (count[q] + Cardinality(A)) - Cardinality(T)
    BY <1>5, <2>1
  <2>11. Cardinality(Y) + Cardinality(T) = Cardinality(V) + Cardinality(A)
    BY <2>4, <2>6, <2>7
  <2>12. QED
    BY <2>1, <2>6, <2>7, <2>8, <2>9, <2>10, <2>11
<1>13. QED
  BY <1>7, <1>11, <1>12 DEF Booked, Exact

(* rollback: what was taken can be seen again, in source or in error.      *)
LEMMA RolledBackBooked ==
  ASSUME NEW w \in Group, Booked(w), NEW f \in Flow, NEW u, u = RolledBack(w, f)
  PROVE  Booked(u)
<1>1. PICK db \in Seq(Row), count \in [Queue -> Int] : db = w.db /\ count = w.count
  BY DEF Group
<1>2. Placed(db) /\ Exact(db, count) /\ RetryDelay \in BOOLEAN
  BY <1>1, QueueAssumption DEF Booked
<1>3. PICK e : e = Without(db, RowsOf(db, f, "added"))
  OBVIOUS
<1>4. PICK S \in SUBSET DOMAIN db : S = Others(db, f, "added")
  BY DEF Others
<1>5. PICK g : e \in Seq(Row) /\ Keeps(g, e, db, S)
  BY <1>3, <1>4, WithoutRows
<1>6. PICK b : b = GivenBack(e, f)
  OBVIOUS
<1>7. PICK d : d = [n \in DOMAIN b |-> Moved(b[n], f)]
  OBVIOUS
<1>8. PICK M : M = {n \in DOMAIN b : Spent(b[n], f)}
  OBVIOUS
<1>9. PICK k : k = Cardinality(M)
  OBVIOUS
<1>10. u.db = d /\ u.count = [count EXCEPT !["source"] = @ - k, !["error"] = @ + k]
  <2>1. u = MovedOver(w, f, GivenBack(Without(w.db, RowsOf(w.db, f, "added")), f))
    BY DEF RolledBack, MovedOver, GivenBack, Back, Moved, Spent, Rows
  <2>2. u = MovedOver(w, f, b)
    BY <1>1, <1>3, <1>6, <2>1
  <2>3. u = [w EXCEPT !.db = d, !.count["source"] = @ - k, !.count["error"] = @ + k]
    BY <1>7, <1>8, <1>9, <2>2 DEF MovedOver
  <2>4. QED
    BY <1>1, <2>3 DEF Group
<1>11. Placed(e) /\ \A n \in DOMAIN e : ~ (e[n].gtrid = f /\ e[n].state = "added")
  <2>1. Placed(e)
    BY <1>2, <1>5, PlacedKept
  <2>2. QED
    BY <1>4, <1>5, <2>1 DEF Keeps, Others
<1>12. ASSUME NEW n \in DOMAIN e
       PROVE  /\ b[n].queue = e[n].queue /\ b[n].gtrid = e[n].gtrid
              /\ Visible(b[n]) <=> Visible(e[n])
              /\ b[n].gtrid = f => b[n].state = "enqueued"
              /\ b[n].gtrid # f => b[n].state = e[n].state
              /\ b[n].later => RetryDelay /\ b[n].queue # "target"
              /\ d[n].queue = IF n \in M THEN "error" ELSE b[n].queue
              /\ d[n].state = b[n].state /\ d[n].later = b[n].later
              /\ n \in M => b[n].queue = "source" /\ b[n].gtrid = f
  <2>1. PICK r \in Row : r = e[n]
    BY <1>5, RowOf
  <2>2. PICK x : x = Back(r, f)
    OBVIOUS
  <2>3. ~ (r.gtrid = f /\ r.state = "added") /\ r.state \in {"added", "enqueued", "dequeued"}
    BY <1>11, <2>1 DEF Row
  <2>4. /\ r.state = "dequeued" => r.queue = "source"
        /\ r.later => RetryDelay /\ r.queue # "target"
    BY <1>11, <2>1 DEF Placed
  <2>5. /\ x \in Row /\ x.queue = r.queue /\ x.gtrid = r.gtrid
        /\ x.state = IF r.gtrid = f THEN "enqueued" ELSE r.state
        /\ x.later => RetryDelay /\ x.queue # "target"
    <3>1. CASE r.gtrid = f /\ r.state = "dequeued"
      <4>1. PICK i \in Nat, l \in BOOLEAN : i = r.redelivered + 1 /\ l = RetryDelay
        BY <1>2 DEF Row
      <4>2. x = [r EXCEPT !.state = "enqueued", !.redelivered = i, !.later = l]
        BY <2>2, <3>1, <4>1 DEF Back
      <4>3. QED
        BY <2>4, <3>1, <4>1, <4>2 DEF Row
    <3>2. CASE ~ (r.gtrid = f /\ r.state = "dequeued")
      BY <2>2, <2>3, <2>4, <3>2 DEF Back
    <3>3. QED
      BY <3>1, <3>2
  <2>6. PICK y : y = Moved(x, f)
    OBVIOUS
  <2>7. /\ y.queue = IF Spent(x, f) THEN "error" ELSE x.queue
        /\ y.state = x.state /\ y.later = x.later
        /\ Spent(x, f) => x.queue = "source" /\ x.gtrid = f
    BY <2>5, <2>6 DEF Moved, Spent, Row
  <2>8. b[n] = x /\ d[n] = y /\ (n \in M <=> Spent(x, f))
    BY <1>6, <1>7, <1>8, <2>1, <2>2, <2>6 DEF GivenBack
  <2>9. QED
    BY <2>1, <2>3, <2>5, <2>7, <2>8 DEF Visible
<1>13. DOMAIN b = DOMAIN e /\ DOMAIN d = DOMAIN e /\ M \in SUBSET DOMAIN e
  BY <1>6, <1>7, <1>8 DEF GivenBack
<1>14. Placed(d)
  BY <1>11, <1>12, <1>13 DEF Placed
<1>15. ASSUME NEW q \in Queue
       PROVE  /\ IsFiniteSet(Seen(e, q)) /\ Cardinality(Seen(e, q)) = count[q]
              /\ Seen(b, q) = Seen(e, q)
  <2>1. Seen(db, q) \cap S = Seen(db, q)
    BY <1>4 DEF Seen, Visible, Others
  <2>2. Cardinality(Seen(e, q)) = Cardinality(Seen(db, q))
    BY <1>5, <2>1, SeenKept
  <2>3. Seen(e, q) \in SUBSET DOMAIN e
    BY DEF Seen
  <2>4. IsFiniteSet(Seen(e, q))
    BY <1>5, <2>3, SeenIs
  <2>5. Seen(b, q) = Seen(e, q)
    BY <1>12, <1>13 DEF Seen
  <2>6. QED
    BY <1>2, <2>2, <2>4, <2>5 DEF Exact
<1>16. IsFiniteSet(M) /\ M \subseteq Seen(b, "source")
  <2>1. IsFiniteSet(M)
    BY <1>5, <1>13, SeenIs
  <2>2. QED
    BY <1>12, <1>13, <2>1 DEF Seen, Visible
<1>17. PICK V, E : V = Seen(b, "source") /\ E = Seen(b, "error")
  OBVIOUS
<1>18. /\ IsFiniteSet(V) /\ IsFiniteSet(E) /\ M \subseteq V /\ M \cap E = {}
       /\ Cardinality(V) = count["source"] /\ Cardinality(E) = count["error"]
  BY <1>15, <1>16, <1>17 DEF Queue, Seen
<1>19. /\ Seen(d, "source") = V \ M /\ Seen(d, "error") = E \cup M
       /\ Seen(d, "target") = Seen(b, "target")
  BY <1>12, <1>13, <1>17 DEF Seen, Visible
<1>20. /\ k \in Nat /\ Cardinality(E \cup M) = Cardinality(E) + k /\ Cardinality(E) \in Nat
  BY <1>9, <1>16, <1>18, CountBoth
<1>21. Cardinality(V \ M) = Cardinality(V) - k
  <2>1. IsFiniteSet(V \ M)
    BY <1>18, FS_Subset
  <2>2. (V \ M) \cup M = V /\ (V \ M) \cap M = {}
    BY <1>18
  <2>3. /\ Cardinality(V) = Cardinality(V \ M) + Cardinality(M)
        /\ Cardinality(V \ M) \in Nat /\ Cardinality(M) \in Nat
    BY <1>16, <2>1, <2>2, CountBoth
  <2>4. QED
    BY <1>9, <2>3
<1>22. PICK c : c = [count EXCEPT !["source"] = @ - k, !["error"] = @ + k]
  OBVIOUS
<1>23. c["source"] = count["source"] - k /\ c["error"] = count["error"] + k
       /\ c["target"] = count["target"]
  BY <1>22 DEF Queue
<1>24. Exact(d, c)
  BY <1>15, <1>18, <1>19, <1>20, <1>21, <1>23 DEF Exact, Queue
<1>25. QED
  BY <1>10, <1>14, <1>22, <1>24 DEF Booked

(* restore: what is in error can be seen in source.                        *)
LEMMA RestoredBooked ==
  ASSUME NEW w \in Group, Booked(w), NEW u, u = Restored(w)
  PROVE  Booked(u)
<1>1. PICK db \in Seq(Row), count \in [Queue -> Int] : db = w.db /\ count = w.count
  BY DEF Group
<1>2. Placed(db) /\ Exact(db, count)
  BY <1>1 DEF Booked
<1>3. PICK M \in SUBSET DOMAIN db : M = {n \in DOMAIN db : db[n].queue = "error"
                                                          /\ db[n].state = "enqueued"}
  OBVIOUS
<1>4. PICK k : k = Cardinality(M)
  OBVIOUS
<1>5. PICK d : d = [n \in DOMAIN db |-> IF db[n].queue = "error" /\ db[n].state = "enqueued"
                                        THEN [db[n] EXCEPT !.queue = "source"] ELSE db[n]]
  OBVIOUS
<1>6. u.db = d /\ u.count = [count EXCEPT !["error"] = @ - k, !["source"] = @ + k]
  <2>1. u = [w EXCEPT !.db = d, !.count["error"] = @ - k, !.count["source"] = @ + k]
    BY <1>1, <1>3, <1>4, <1>5 DEF Restored, Rows
  <2>2. QED
    BY <1>1, <2>1 DEF Group
<1>7. /\ DOMAIN d = DOMAIN db
      /\ \A n \in DOMAIN db : /\ d[n].queue = IF n \in M THEN "source" ELSE db[n].queue
                              /\ d[n].state = db[n].state /\ d[n].later = db[n].later
  <2>1. ASSUME NEW n \in DOMAIN db, NEW r \in Row, r = db[n]
        PROVE  /\ d[n].queue = IF n \in M THEN "source" ELSE r.queue
               /\ d[n].state = r.state /\ d[n].later = r.later
    BY <1>3, <1>5, <2>1 DEF Row
  <2>2. QED
    BY <1>5, <2>1, RowOf
<1>8. Placed(d)
  BY <1>2, <1>3, <1>7 DEF Placed
<1>9. PICK V, E : V = Seen(db, "source") /\ E = Seen(db, "error")
  OBVIOUS
<1>10. /\ Seen(d, "source") = V \cup M /\ Seen(d, "error") = E \ M
       /\ Seen(d, "target") = Seen(db, "target") /\ V \cap M = {} /\ M \subseteq E
  BY <1>3, <1>7, <1>9 DEF Seen, Visible
<1>11. IsFiniteSet(V) /\ IsFiniteSet(E) /\ IsFiniteSet(M) /\ IsFiniteSet(E \ M)
  <2>1. V \in SUBSET DOMAIN db /\ E \in SUBSET DOMAIN db
    BY <1>9 DEF Seen
  <2>2. QED
    BY <2>1, SeenIs
<1>12. /\ k \in Nat /\ Cardinality(V \cup M) = Cardinality(V) + k /\ Cardinality(V) \in Nat
  BY <1>4, <1>10, <1>11, CountBoth
<1>13. Cardinality(E \ M) = Cardinality(E) - k
  <2>1. (E \ M) \cup M = E /\ (E \ M) \cap M = {}
    BY <1>10
  <2>2. /\ Cardinality(E) = Cardinality(E \ M) + Cardinality(M)
        /\ Cardinality(E \ M) \in Nat /\ Cardinality(M) \in Nat
    BY <1>11, <2>1, CountBoth
  <2>3. QED
    BY <1>4, <2>2
<1>14. PICK c : c = [count EXCEPT !["error"] = @ - k, !["source"] = @ + k]
  OBVIOUS
<1>15. c["source"] = count["source"] + k /\ c["error"] = count["error"] - k
       /\ c["target"] = count["target"]
  BY <1>14 DEF Queue
<1>16. /\ count["source"] = Cardinality(V) /\ count["error"] = Cardinality(E)
       /\ count["target"] = Cardinality(Seen(db, "target"))
  BY <1>2, <1>9 DEF Exact, Queue
<1>17. Exact(d, c)
  BY <1>10, <1>12, <1>13, <1>15, <1>16 DEF Exact, Queue
<1>18. QED
  BY <1>6, <1>8, <1>14, <1>17 DEF Booked
-----------------------------------------------------------------------------
(* A dequeue asks for the queue of who asks, and never for error.          *)
Asking(s) == \A d \in ToSet(s) : d = Dequeue(d.who)
Neat(w) == Booked(w) /\ Asking(w.dequeues)

(* The rows that are there for a dequeue, and those that will be.          *)
Avail(db, q) == {n \in DOMAIN db : db[n].queue = q /\ db[n].state = "enqueued" /\ ~ db[n].later}
Delayed(db, q) == \E n \in DOMAIN db : db[n].queue = q /\ db[n].state = "enqueued" /\ db[n].later

(* A dequeue finds nothing if there is nothing for it.                     *)
LEMMA ReadyAvail ==
  ASSUME NEW w \in Group, NEW q \in Queue, NEW n, n = Ready(w, q)
  PROVE  /\ n = 0 => Avail(w.db, q) = {}
         /\ n # 0 => n \in Avail(w.db, q)
<1>1. w.db \in Seq(Row) /\ Len(w.db) \in Nat /\ DOMAIN w.db = 1 .. Len(w.db)
  BY DEF Group
<1>2. PICK I : I = {i \in 1 .. Len(w.db) :
                      w.db[i].queue = q /\ w.db[i].state = "enqueued" /\ ~ w.db[i].later}
  OBVIOUS
<1>3. n = IF I # {} THEN Min(I) ELSE 0
  BY <1>2 DEF Ready, SelectInSeq
<1>4. I = Avail(w.db, q) /\ I \in SUBSET Nat /\ 0 \notin I
  BY <1>1, <1>2 DEF Avail
<1>5. CASE I = {}
  BY <1>3, <1>4, <1>5
<1>6. CASE I # {}
  <2>1. \E i \in I : \A j \in I : i <= j
    BY <1>4, <1>6, NatMin
  <2>2. n \in I
    BY <1>3, <1>6, <2>1 DEF Min
  <2>3. QED
    BY <1>4, <2>2
<1>7. QED
  BY <1>5, <1>6

(* Those that are kept.                                                    *)
LEMMA AvailKept ==
  ASSUME NEW db \in Seq(Row), NEW e \in Seq(Row), NEW S \in SUBSET DOMAIN db, NEW h,
         Keeps(h, e, db, S), NEW q
  PROVE  /\ Cardinality(Avail(e, q)) = Cardinality(Avail(db, q) \cap S)
         /\ Delayed(e, q) => Delayed(db, q)
<1>1. PICK T \in SUBSET DOMAIN e : T = Avail(e, q)
  BY DEF Avail
<1>2. PICK U \in SUBSET S : U = Avail(db, q) \cap S
  OBVIOUS
<1>3. \A k \in DOMAIN e : k \in T <=> h[k] \in U
  BY <1>1, <1>2 DEF Avail, Keeps
<1>4. IsFiniteSet(T)
  BY SeenIs
<1>5. Delayed(e, q) => Delayed(db, q)
  BY DEF Delayed, Keeps
<1>6. QED
  BY <1>1, <1>2, <1>3, <1>4, <1>5, KeepsCount

(* How many there are.                                                     *)
LEMMA AvailIs ==
  ASSUME NEW db \in Seq(Row), NEW q
  PROVE  /\ Cardinality(Avail(db, q)) \in Nat /\ IsFiniteSet(Avail(db, q))
         /\ Cardinality(Avail(db, q)) = 0 <=> Avail(db, q) = {}
         /\ Cardinality(Avail(db, q)) <= Cardinality(Seen(db, q))
<1>1. PICK A \in SUBSET DOMAIN db : A = Avail(db, q)
  BY DEF Avail
<1>2. PICK S \in SUBSET DOMAIN db : S = Seen(db, q)
  BY DEF Seen
<1>3. IsFiniteSet(A) /\ Cardinality(A) \in Nat /\ IsFiniteSet(S)
  BY SeenIs
<1>4. A \in SUBSET S
  BY <1>1, <1>2 DEF Avail, Seen, Visible
<1>5. Cardinality(A) <= Cardinality(S)
  BY <1>3, <1>4, FS_Subset
<1>6. Cardinality(A) = 0 <=> A = {}
  BY <1>3, FS_EmptySet
<1>7. QED
  BY <1>1, <1>2, <1>3, <1>5, <1>6

(* The dequeue d of w has found a message, and u is left.                  *)
Served(w, u, d) ==
  /\ u.dequeues = w.dequeues /\ Avail(w.db, d.queue) # {}
  /\ \A q \in Queue :
       /\ Cardinality(Avail(u.db, q)) = IF q = d.queue THEN Cardinality(Avail(w.db, q)) - 1
                                        ELSE Cardinality(Avail(w.db, q))
       /\ Delayed(u.db, q) => Delayed(w.db, q)
  /\ u.involved = IF d.who \in Flow THEN w.involved \cup {d.who} ELSE w.involved
  /\ u.timer = w.timer

(* It waits: there is nothing, and the alarm is set for what will be there. *)
Parked(w, u, d) ==
  /\ u.dequeues = Append(w.dequeues, d) /\ Avail(w.db, d.queue) = {}
  /\ u.db = w.db /\ u.involved = w.involved
  /\ w.timer \/ Delayed(w.db, d.queue) => u.timer

(* A dequeue keeps the books, and is served or waits.                      *)
LEMMA DequeuedNeat ==
  ASSUME NEW w \in Group, Booked(w), NEW d \in Wait, d = Dequeue(d.who), NEW u, u = Dequeued(w, d)
  PROVE  u \in Group /\ Booked(u) /\ u.held = w.held /\ (Served(w, u, d) \/ Parked(w, u, d))
<1> USE QueueAssumption
<1>1. PICK n : n = Ready(w, d.queue)
  OBVIOUS
<1>2. d.who \in Flow \cup Consumer /\ d.queue \in Queue
  BY DEF Wait
<1>3. u \in Group /\ u.held = w.held
  BY DequeuedIs
<1>4. CASE n = 0
  <2>1. PICK t \in BOOLEAN :
          t = (w.timer \/ \E k \in DOMAIN w.db : w.db[k].queue = d.queue /\ w.db[k].state = "enqueued")
    OBVIOUS
  <2>2. u = [w EXCEPT !.dequeues = Append(@, d), !.timer = t]
    BY <1>1, <1>4, <2>1 DEF Dequeued
  <2>3. /\ u.dequeues = Append(w.dequeues, d) /\ u.timer = t /\ u.db = w.db /\ u.count = w.count
        /\ u.involved = w.involved
    BY <2>2 DEF Group
  <2>4. w.timer \/ Delayed(w.db, d.queue) => t
    BY <2>1 DEF Delayed
  <2>5. Avail(w.db, d.queue) = {}
    BY <1>1, <1>2, <1>4, ReadyAvail
  <2>6. Parked(w, u, d)
    BY <2>3, <2>4, <2>5 DEF Parked
  <2>7. QED
    BY <1>3, <2>3, <2>6 DEF Booked
<1>5. CASE n # 0
  <2>1. PICK t : t = Trid(d.who)
    OBVIOUS
  <2>2. /\ t \in Flow \cup {Nobody} /\ (d.who \in Flow => t = d.who /\ t # Nobody)
        /\ (d.who \notin Flow => t = Nobody)
        /\ t # Nobody => d.queue = "source"
    BY <1>2, <2>1 DEF Trid, Dequeue
  <2>3. PICK v : v = Taken(w, d.queue, t)
    OBVIOUS
  <2>4. /\ v \in Group /\ v.dequeues = w.dequeues /\ v.involved = w.involved /\ v.timer = w.timer
        /\ t = Nobody => v.db = RemoveAt(w.db, n)
        /\ t # Nobody => v.db = Marked(w.db, n, t)
    <3>1. /\ v \in Group /\ Rest(v) = Rest(w) /\ v.timer = w.timer
          /\ t = Nobody => v.db = RemoveAt(w.db, n)
          /\ t # Nobody => v.db = Marked(w.db, n, t)
      BY <1>1, <1>2, <1>5, <2>2, <2>3, TakenIs
    <3>2. QED
      BY <3>1 DEF Rest
  <2>5. Booked(v)
    BY <1>1, <1>2, <1>5, <2>2, <2>3, TakenBooked
  <2>6. n \in Avail(w.db, d.queue)
    BY <1>1, <1>2, <1>5, ReadyAvail
  <2>7. PICK r : r = Reply("dequeued", d.who, w.db[n].msg)
    OBVIOUS
  <2>8. r \in Mail
    <3>1. w.db \in Seq(Row) /\ n \in DOMAIN w.db
      BY <2>6 DEF Group, Avail
    <3>2. w.db[n].msg \in Message
      BY <3>1, RowOf
    <3>3. QED
      BY <1>2, <2>7, <3>2 DEF Reply, Mail, MailKind, Who
  <2>9. PICK g : g = Sent(v, r)
    OBVIOUS
  <2>10. /\ g \in Group /\ g.db = v.db /\ g.count = v.count /\ g.involved = v.involved
         /\ g.dequeues = v.dequeues /\ g.timer = v.timer
    BY <2>4, <2>8, <2>9, SentIs
  <2>11. u = IF d.who \in Flow THEN Involved(g, d.who) ELSE g
    BY <1>1, <1>5, <2>1, <2>3, <2>7, <2>9 DEF Dequeued
  <2>12. /\ u.db = v.db /\ u.count = v.count /\ u.dequeues = v.dequeues /\ u.timer = v.timer
         /\ u.involved = IF d.who \in Flow THEN v.involved \cup {d.who} ELSE v.involved
    <3>1. CASE d.who \in Flow
      <4>1. /\ u.involved = g.involved \cup {d.who} /\ u.db = g.db /\ u.count = g.count
            /\ u.dequeues = g.dequeues /\ u.timer = g.timer
        BY <2>10, <2>11, <3>1, InvolvedIs
      <4>2. QED
        BY <2>10, <3>1, <4>1
    <3>2. CASE d.who \notin Flow
      BY <2>10, <2>11, <3>2
    <3>3. QED
      BY <3>1, <3>2
  <2>13. PICK db \in Seq(Row) : db = w.db
    BY DEF Group
  <2>19. PICK S \in SUBSET DOMAIN db : S = DOMAIN db \ {n}
    OBVIOUS
  <2>14. PICK e : e = v.db
    OBVIOUS
  <2>15. \A q \in Queue : /\ Cardinality(Avail(e, q)) = Cardinality(Avail(db, q) \cap S)
                          /\ Delayed(e, q) => Delayed(db, q)
    <3>1. CASE t = Nobody
      <4>1. e = RemoveAt(db, n) /\ n \in DOMAIN db
        BY <2>4, <2>6, <2>13, <2>14, <3>1 DEF Avail
      <4>2. PICK h : e \in Seq(Row) /\ Keeps(h, e, db, S)
        BY <2>19, <4>1, RemoveAtIs
      <4>3. ASSUME NEW q \in Queue
            PROVE  /\ Cardinality(Avail(e, q)) = Cardinality(Avail(db, q) \cap S)
                   /\ Delayed(e, q) => Delayed(db, q)
        BY <4>2, AvailKept
      <4>4. QED
        BY <4>3
    <3>2. CASE t # Nobody
      <4>1. e = Marked(db, n, t) /\ n \in DOMAIN db
        BY <2>4, <2>6, <2>13, <2>14, <3>2 DEF Avail
      <4>2. db[n] \in Row
        BY <4>1, RowOf
      <4>3. /\ DOMAIN e = DOMAIN db
            /\ \A k \in DOMAIN db : /\ e[k].queue = db[k].queue /\ e[k].later = db[k].later
                                    /\ e[k].state = IF k = n THEN "dequeued" ELSE db[k].state
        BY <4>1, <4>2 DEF Marked, Row
      <4>4. \A q : Avail(e, q) = Avail(db, q) \cap S
        BY <2>19, <4>3 DEF Avail
      <4>5. \A q : Delayed(e, q) => Delayed(db, q)
        BY <4>3 DEF Delayed
      <4>6. QED
        BY <4>4, <4>5
    <3>3. QED
      BY <3>1, <3>2
  <2>16. ASSUME NEW q \in Queue
         PROVE  Cardinality(Avail(db, q) \cap S) = IF q = d.queue THEN Cardinality(Avail(db, q)) - 1
                                                   ELSE Cardinality(Avail(db, q))
    <3>1. PICK A \in SUBSET DOMAIN db : A = Avail(db, q)
      BY DEF Avail
    <3>2. IsFiniteSet(A)
      BY SeenIs
    <3>3. n \in A <=> q = d.queue
      BY <2>6, <2>13, <3>1 DEF Avail
    <3>4. A \cap S = A \ {n}
      BY <2>19
    <3>5. Cardinality(A \ {n}) = IF n \in A THEN Cardinality(A) - 1 ELSE Cardinality(A)
      BY <3>2, FS_RemoveElement
    <3>6. QED
      BY <3>1, <3>3, <3>4, <3>5
  <2>17. Served(w, u, d)
    <3>1. e = u.db /\ db = w.db
      BY <2>12, <2>13, <2>14
    <3>2. \A q \in Queue :
            /\ Cardinality(Avail(e, q)) = IF q = d.queue THEN Cardinality(Avail(db, q)) - 1
                                          ELSE Cardinality(Avail(db, q))
            /\ Delayed(e, q) => Delayed(db, q)
      BY <2>15, <2>16
    <3>3. u.dequeues = w.dequeues /\ u.timer = w.timer /\ Avail(w.db, d.queue) # {}
      BY <2>4, <2>6, <2>12
    <3>4. u.involved = IF d.who \in Flow THEN w.involved \cup {d.who} ELSE w.involved
      BY <2>4, <2>12
    <3>5. QED
      BY <3>1, <3>2, <3>3, <3>4, Zenon DEF Served
  <2>18. QED
    BY <1>3, <2>5, <2>12, <2>17 DEF Booked
<1>6. QED
  BY <1>4, <1>5
(* A turn of the loop, with what the queue of the dequeue still counts.    *)
LEMMA AgainLeft ==
  ASSUME NEW acc \in Acc, NEW d \in Wait, NEW next, next = Again(acc, d)
  PROVE  /\ next \in Acc
         /\ \/ /\ acc.left[d.queue] < 1
               /\ next.w = acc.w /\ next.left = acc.left /\ next.back = Append(acc.back, d)
            \/ /\ next.w = Dequeued(acc.w, d) /\ next.back = acc.back
               /\ next.left = IF Len(next.w.dequeues) > Len(acc.w.dequeues) THEN acc.left
                              ELSE [acc.left EXCEPT ![d.queue] = @ - 1]
<1>1. next \in Acc
  BY AgainIs
<1>2. CASE acc.left[d.queue] < 1
  <2>1. next = [acc EXCEPT !.back = Append(@, d)]
    BY <1>2 DEF Again
  <2>2. QED
    BY <1>1, <1>2, <2>1 DEF Acc
<1>3. CASE ~ acc.left[d.queue] < 1
  <2>1. PICK u : u = Dequeued(acc.w, d)
    OBVIOUS
  <2>2. CASE Len(u.dequeues) > Len(acc.w.dequeues)
    <3>1. next = [acc EXCEPT !.w = u]
      BY <1>3, <2>1, <2>2 DEF Again
    <3>2. QED
      BY <1>1, <2>1, <2>2, <3>1 DEF Acc
  <2>3. CASE ~ Len(u.dequeues) > Len(acc.w.dequeues)
    <3>1. PICK l : l = [acc.left EXCEPT ![d.queue] = @ - 1]
      OBVIOUS
    <3>2. next = [acc EXCEPT !.w = u, !.left = l]
      BY <1>3, <2>1, <2>3, <3>1 DEF Again
    <3>3. QED
      BY <1>1, <2>1, <2>3, <3>1, <3>2 DEF Acc
  <2>4. QED
    BY <2>2, <2>3
<1>4. QED
  BY <1>2, <1>3

(* A dequeue that waits makes the list longer, and one that does not, not. *)
LEMMA AppendLonger ==
  ASSUME NEW s \in Seq(Wait), NEW d \in Wait
  PROVE  Len(Append(s, d)) > Len(s) /\ ~ Len(s) > Len(s)
<1>1. PICK n \in Nat : n = Len(s)
  OBVIOUS
<1>2. Len(Append(s, d)) = n + 1
  BY <1>1
<1>3. QED
  BY <1>1, <1>2

(* What is in a sequence is what it is a sequence of.                      *)
LEMMA InSeq ==
  ASSUME NEW E, NEW s \in Seq(E), NEW x \in ToSet(s)
  PROVE  x \in E
BY DEF ToSet

(* No consumer waits for messages that may be delayed.                     *)
Punctual == RetryDelay => \A c \in Consumer : QueueOf[c] # "source"

(* What the loop keeps, for the group w that it began with: the books; no  *)
(* dequeue waits that did not; no queue has more messages than it still    *)
(* counts; none is there for a dequeue that waits or is put back; and a    *)
(* flow that took one is in a transaction.                                 *)
Tried(w, acc) ==
  /\ Booked(acc.w)
  /\ ToSet(acc.w.dequeues) \subseteq ToSet(w.dequeues)
  /\ ToSet(acc.back) \subseteq ToSet(w.dequeues)
  /\ \A q \in Queue : /\ Cardinality(Avail(acc.w.db, q)) <= acc.left[q]
                      /\ Delayed(acc.w.db, q) => Delayed(w.db, q)
  /\ \A d \in ToSet(acc.w.dequeues) \cup ToSet(acc.back) : Avail(acc.w.db, d.queue) = {}
  /\ RetryDelay /\ Punctual /\ acc.w.involved = {} /\ Avail(w.db, "source") # {} =>
       Avail(acc.w.db, "source") # {}

(* Each turn keeps it.                                                     *)
LEMMA AgainTried ==
  ASSUME NEW w \in Group, Asking(w.dequeues), NEW acc \in Acc, Tried(w, acc),
         NEW d \in ToSet(w.dequeues), NEW next, next = Again(acc, d)
  PROVE  next \in Acc /\ Tried(w, next)
<1> USE QueueAssumption
<1>1. d \in Wait /\ d = Dequeue(d.who) /\ d.queue \in Queue
  <2>1. w.dequeues \in Seq(Wait)
    BY DEF Group
  <2>2. d \in Wait
    BY <2>1, InSeq
  <2>3. QED
    BY <2>2 DEF Asking, Wait
<1>2. PICK v : v = acc.w
  OBVIOUS
<1>3. /\ v \in Group /\ v.dequeues \in Seq(Wait) /\ v.db \in Seq(Row)
      /\ acc.left \in [Queue -> Int] /\ acc.back \in Seq(Wait)
  BY <1>2 DEF Acc, Group
<1>4. /\ Booked(v) /\ ToSet(v.dequeues) \subseteq ToSet(w.dequeues)
      /\ ToSet(acc.back) \subseteq ToSet(w.dequeues)
      /\ \A q \in Queue : /\ Cardinality(Avail(v.db, q)) <= acc.left[q]
                          /\ Delayed(v.db, q) => Delayed(w.db, q)
      /\ \A x \in ToSet(v.dequeues) \cup ToSet(acc.back) : Avail(v.db, x.queue) = {}
      /\ RetryDelay /\ Punctual /\ v.involved = {} /\ Avail(w.db, "source") # {} =>
           Avail(v.db, "source") # {}
  BY <1>2 DEF Tried
<1>5. /\ next \in Acc
      /\ \/ /\ acc.left[d.queue] < 1
            /\ next.w = v /\ next.left = acc.left /\ next.back = Append(acc.back, d)
         \/ /\ next.w = Dequeued(v, d) /\ next.back = acc.back
            /\ next.left = IF Len(next.w.dequeues) > Len(v.dequeues) THEN acc.left
                           ELSE [acc.left EXCEPT ![d.queue] = @ - 1]
  BY <1>1, <1>2, AgainLeft
<1>6. \A q \in Queue : /\ Cardinality(Avail(v.db, q)) \in Nat
                       /\ Cardinality(Avail(v.db, q)) = 0 <=> Avail(v.db, q) = {}
  BY <1>3, AvailIs
<1>7. CASE /\ acc.left[d.queue] < 1
           /\ next.w = v /\ next.left = acc.left /\ next.back = Append(acc.back, d)
  <2>1. ToSet(next.back) = ToSet(acc.back) \cup {d}
    BY <1>1, <1>3, <1>7, AppendSet
  <2>2. Avail(v.db, d.queue) = {}
    <3>1. Cardinality(Avail(v.db, d.queue)) <= acc.left[d.queue] /\ acc.left[d.queue] \in Int
      BY <1>1, <1>3, <1>4
    <3>2. QED
      BY <1>1, <1>6, <1>7, <3>1
  <2>3. QED
    BY <1>4, <1>5, <1>7, <2>1, <2>2 DEF Tried
<1>8. CASE /\ next.w = Dequeued(v, d) /\ next.back = acc.back
           /\ next.left = IF Len(next.w.dequeues) > Len(v.dequeues) THEN acc.left
                          ELSE [acc.left EXCEPT ![d.queue] = @ - 1]
  <2>1. PICK u : u = next.w
    OBVIOUS
  <2>2. u \in Group /\ Booked(u) /\ u.held = v.held /\ (Served(v, u, d) \/ Parked(v, u, d))
    BY <1>1, <1>3, <1>4, <1>8, <2>1, DequeuedNeat
  <2>3. CASE Parked(v, u, d)
    <3>1. /\ u.dequeues = Append(v.dequeues, d) /\ Avail(v.db, d.queue) = {}
          /\ u.db = v.db /\ u.involved = v.involved
      BY <2>3 DEF Parked
    <3>2. ToSet(u.dequeues) = ToSet(v.dequeues) \cup {d}
      BY <1>1, <1>3, <3>1, AppendSet
    <3>3. next.left = acc.left
      BY <1>1, <1>3, <1>8, <2>1, <3>1, AppendLonger
    <3>4. QED
      BY <1>4, <1>5, <1>8, <2>1, <2>2, <3>1, <3>2, <3>3 DEF Tried
  <2>4. CASE Served(v, u, d)
    <3>1. /\ u.dequeues = v.dequeues /\ Avail(v.db, d.queue) # {}
          /\ \A q \in Queue :
               /\ Cardinality(Avail(u.db, q)) = IF q = d.queue THEN Cardinality(Avail(v.db, q)) - 1
                                                ELSE Cardinality(Avail(v.db, q))
               /\ Delayed(u.db, q) => Delayed(v.db, q)
          /\ u.involved = IF d.who \in Flow THEN v.involved \cup {d.who} ELSE v.involved
      BY <2>4 DEF Served
    <3>2. next.left = [acc.left EXCEPT ![d.queue] = @ - 1]
      BY <1>1, <1>3, <1>8, <2>1, <3>1, AppendLonger
    <3>3. ASSUME NEW q \in Queue
          PROVE  /\ Cardinality(Avail(u.db, q)) <= next.left[q]
                 /\ Delayed(u.db, q) => Delayed(w.db, q)
                 /\ Avail(v.db, q) = {} => Avail(u.db, q) = {}
                 /\ q # d.queue /\ Avail(v.db, q) # {} => Avail(u.db, q) # {}
      <4>1. PICK a, b : a = Cardinality(Avail(v.db, q)) /\ b = Cardinality(Avail(u.db, q))
        OBVIOUS
      <4>2. /\ a \in Nat /\ (a = 0 <=> Avail(v.db, q) = {})
            /\ b \in Nat /\ (b = 0 <=> Avail(u.db, q) = {})
        <5>1. u.db \in Seq(Row)
          BY <2>2 DEF Group
        <5>2. b \in Nat /\ (b = 0 <=> Avail(u.db, q) = {})
          BY <4>1, <5>1, AvailIs
        <5>3. QED
          BY <1>6, <4>1, <5>2
      <4>3. /\ b = IF q = d.queue THEN a - 1 ELSE a
            /\ Delayed(u.db, q) => Delayed(v.db, q)
        BY <3>1, <4>1
      <4>4. PICK l \in Int : l = acc.left[q] /\ a <= l /\ (Delayed(v.db, q) => Delayed(w.db, q))
        BY <1>3, <1>4, <4>1
      <4>5. next.left[q] = IF q = d.queue THEN l - 1 ELSE l
        BY <1>1, <1>3, <3>2, <4>4
      <4>6. b <= next.left[q]
        BY <4>2, <4>3, <4>4, <4>5
      <4>7. /\ Avail(v.db, q) = {} => Avail(u.db, q) = {}
            /\ q # d.queue /\ Avail(v.db, q) # {} => Avail(u.db, q) # {}
        BY <4>2, <4>3
      <4>8. QED
        BY <4>1, <4>3, <4>4, <4>6, <4>7
    <3>4. \A x \in ToSet(u.dequeues) \cup ToSet(acc.back) : Avail(u.db, x.queue) = {}
      <4>1. \A x \in ToSet(v.dequeues) \cup ToSet(acc.back) : x.queue \in Queue
        <5>1. \A x \in ToSet(v.dequeues) \cup ToSet(acc.back) : x \in Wait
          BY <1>3, InSeq
        <5>2. QED
          BY <5>1 DEF Wait
      <4>2. QED
        BY <1>4, <3>1, <3>3, <4>1
    <3>5. ASSUME RetryDelay, Punctual, u.involved = {}, Avail(w.db, "source") # {}
          PROVE  Avail(u.db, "source") # {}
      <4>1. d.who \notin Flow /\ v.involved = {}
        BY <3>1, <3>5
      <4>2. d.who \in Consumer
        BY <1>1, <4>1 DEF Wait
      <4>3. d.queue # "source"
        BY <1>1, <3>5, <4>1, <4>2 DEF Dequeue, Punctual
      <4>4. Avail(v.db, "source") # {} /\ "source" \in Queue
        BY <1>4, <3>5, <4>1 DEF Queue
      <4>5. QED
        BY <3>3, <4>3, <4>4
    <3>6. QED
      BY <1>4, <1>5, <1>8, <2>1, <2>2, <3>1, <3>3, <3>4, <3>5 DEF Tried
  <2>5. QED
    BY <2>2, <2>3, <2>4
<1>9. QED
  BY <1>5, <1>7, <1>8

(* Who is not tried again would find nothing.                              *)
LEMMA PassedIs ==
  ASSUME NEW w \in Group, Booked(w), NEW q \in Queue
  PROVE  /\ ~ Passed(w, q) => /\ Avail(w.db, q) = {}
                              /\ Delayed(w.db, q) => w.count[q] > 0
         /\ Passed(w, q) /\ Delayed(w.db, q) => Avail(w.db, q) # {}
<1>1. PICK db \in Seq(Row), count \in [Queue -> Int] : db = w.db /\ count = w.count
  BY DEF Group
<1>2. PICK E : E = {r \in ToSet(db) : r.queue = q /\ r.state = "enqueued"}
  OBVIOUS
<1>3. Passed(w, q) <=> count[q] > 0 /\ (E # {} => \E r \in E : ~ r.later)
  BY <1>1, <1>2 DEF Passed
<1>4. /\ Avail(db, q) # {} <=> \E r \in E : ~ r.later
      /\ Delayed(db, q) <=> \E r \in E : r.later
  BY <1>2 DEF Avail, Delayed, ToSet
<1>5. PICK S \in SUBSET DOMAIN db : S = Seen(db, q)
  BY DEF Seen
<1>6. IsFiniteSet(S) /\ Cardinality(S) \in Nat /\ count[q] = Cardinality(S)
  BY <1>1, <1>5, SeenIs DEF Booked, Exact
<1>7. E # {} => S # {}
  BY <1>2, <1>5 DEF Seen, Visible, ToSet
<1>8. S # {} => count[q] > 0
  BY <1>6, FS_EmptySet
<1>9. QED
  BY <1>1, <1>3, <1>4, <1>7, <1>8

(* Unless a reply is held or a transaction goes on, a dequeue that waits   *)
(* finds nothing, and the alarm is set for what it may find later.         *)
Watched(w) ==
  w.held = <<>> /\ w.involved = {} =>
    \A d \in ToSet(w.dequeues) : /\ Avail(w.db, d.queue) = {}
                                 /\ Delayed(w.db, d.queue) => w.timer

(* The loop begins so.                                                     *)
LEMMA StartTried ==
  ASSUME NEW w \in Group, Neat(w)
  PROVE  Tried(w, Start(w))
<1>1. PICK s \in Seq(Wait) : s = w.dequeues
  BY DEF Group
<1>2. PICK P : P = {d \in ToSet(s) : Passed(w, d.queue)}
  OBVIOUS
<1>3. ToSet(RestOf(w)) = ToSet(s) \ P
  BY <1>1, <1>2, WithoutSet DEF RestOf
<1>4. PICK acc \in Acc : acc = Start(w)
  BY StartIs
<1>5. /\ acc.w.dequeues = RestOf(w) /\ acc.w.db = w.db /\ acc.w.involved = w.involved
      /\ acc.w.count = w.count /\ acc.left = w.count /\ acc.back = <<>>
  BY <1>4, StartIs
<1>6. ToSet(acc.back) = {} /\ ToSet(acc.w.dequeues) \subseteq ToSet(w.dequeues)
  BY <1>1, <1>3, <1>5 DEF ToSet
<1>7. Booked(acc.w)
  BY <1>5 DEF Neat, Booked
<1>8. \A q \in Queue : Cardinality(Avail(acc.w.db, q)) <= acc.left[q]
  <2>1. w.db \in Seq(Row) /\ Exact(w.db, w.count)
    BY DEF Group, Neat, Booked
  <2>2. QED
    BY <1>5, <2>1, AvailIs DEF Exact
<1>9. ASSUME NEW d \in ToSet(acc.w.dequeues) PROVE Avail(acc.w.db, d.queue) = {}
  <2>1. d \in Wait /\ ~ Passed(w, d.queue)
    BY <1>1, <1>2, <1>3, <1>5, InSeq
  <2>2. d.queue \in Queue /\ Booked(w)
    BY <2>1 DEF Wait, Neat
  <2>3. QED
    BY <1>5, <2>1, <2>2, PassedIs
<1>10. QED
  BY <1>4, <1>5, <1>6, <1>7, <1>8, <1>9 DEF Tried

(* To try again keeps the books, and those who wait on are watched.        *)
LEMMA WokenNeat ==
  ASSUME NEW w \in Group, Neat(w), NEW u, u = Woken(w)
  PROVE  u \in Group /\ Neat(u) /\ (Punctual => Watched(u))
<1> USE QueueAssumption
<1>1. CASE w.dequeues = <<>>
  <2>1. u = w
    BY <1>1 DEF Woken
  <2>2. ToSet(w.dequeues) = {}
    BY <1>1 DEF ToSet
  <2>3. QED
    BY <2>1, <2>2 DEF Watched
<1>2. CASE w.dequeues # <<>>
  <2> DEFINE S == {p \in Nat \X Acc : Tried(w, p[2])}
  <2>1. PICK s \in Seq(Wait) : s = w.dequeues
    BY DEF Group
  <2>2. PICK again \in Seq(Wait) : again = AgainOf(w)
    BY AgainRest
  <2>3. ToSet(again) \subseteq ToSet(s)
    BY <2>1, <2>2, WithoutSet DEF AgainOf
  <2>4. ASSUME NEW n \in 1 .. Len(again), NEW acc \in Acc, Tried(w, acc)
        PROVE  Again(acc, again[n]) \in Acc /\ Tried(w, Again(acc, again[n]))
    <3>1. PICK d : d = again[n]
      OBVIOUS
    <3>2. d \in ToSet(again)
      BY <2>2, <3>1 DEF ToSet
    <3>3. d \in ToSet(w.dequeues) /\ Asking(w.dequeues)
      BY <2>1, <2>3, <3>2 DEF Neat
    <3>4. QED
      BY <2>4, <3>1, <3>3, AgainTried
  <2>5. <<0, Start(w)>> \in S
    BY StartIs, StartTried
  <2>6. \A n \in 1 .. Len(AgainOf(w)), acc \in Acc :
          <<n - 1, acc>> \in S => <<n, Again(acc, AgainOf(w)[n])>> \in S
    BY <2>2, <2>4
  <2>7. PICK done \in Acc, t \in BOOLEAN :
          /\ <<Len(AgainOf(w)), done>> \in S /\ Woken(w) = Finish(done, t)
          /\ t = (Coming(w) # {})
    <3> HIDE DEF S
    <3> QED BY <1>2, <2>5, <2>6, WokenIs
  <2>8. Tried(w, done) /\ done.w.dequeues \in Seq(Wait) /\ done.back \in Seq(Wait)
    BY <2>7 DEF Acc, Group
  <2>9. /\ u \in Group /\ u.dequeues = done.w.dequeues \o done.back
        /\ u.db = done.w.db /\ u.involved = done.w.involved
    BY <2>7, FinishIs
  <2>10. u.count = done.w.count /\ u.timer = t
    <3>1. u = [done.w EXCEPT !.dequeues = @ \o done.back, !.timer = t] /\ done.w \in Group
      BY <2>7 DEF Finish, Acc
    <3>2. QED
      BY <3>1 DEF Group
  <2>11. ToSet(u.dequeues) = ToSet(done.w.dequeues) \cup ToSet(done.back)
    BY <2>8, <2>9, ConcatSet
  <2>12. Neat(u)
    <3>1. Booked(u)
      BY <2>8, <2>9, <2>10 DEF Tried, Booked
    <3>2. Asking(u.dequeues)
      BY <2>8, <2>11 DEF Tried, Asking, Neat
    <3>3. QED
      BY <3>1, <3>2 DEF Neat
  <2>13. ASSUME Punctual, u.involved = {}, NEW d \in ToSet(u.dequeues), Delayed(u.db, d.queue)
         PROVE  t
    <3>1. d \in ToSet(w.dequeues) /\ d \in Wait /\ d = Dequeue(d.who)
      <4>1. d \in ToSet(w.dequeues)
        BY <2>8, <2>11 DEF Tried
      <4>2. QED
        BY <2>1, <4>1, InSeq DEF Neat, Asking
    <3>2. PICK q \in Queue : q = d.queue
      BY <3>1 DEF Wait
    <3>3. Delayed(w.db, q)
      BY <2>8, <2>9, <2>13, <3>2 DEF Tried
    <3>4. Avail(done.w.db, q) = {}
      BY <2>8, <2>11, <3>2 DEF Tried
    <3>5. Booked(w)
      BY DEF Neat
    <3>6. CASE ~ Passed(w, q)
      <4>1. w.count[q] > 0
        BY <3>3, <3>5, <3>6, PassedIs
      <4>2. QED
        BY <2>7, <3>1, <3>2, <3>6, <4>1 DEF Coming
    <3>7. CASE Passed(w, q)
      <4>1. Avail(w.db, q) # {}
        BY <3>3, <3>5, <3>7, PassedIs
      <4>2. RetryDelay /\ q # "target"
        BY <3>3, <3>5 DEF Delayed, Booked, Placed
      <4>3. q = "source"
        BY <3>1, <3>2, <4>2 DEF Dequeue, Wait
      <4>4. Avail(done.w.db, "source") # {}
        BY <2>8, <2>9, <2>13, <4>1, <4>2, <4>3 DEF Tried
      <4>5. QED
        BY <3>4, <4>3, <4>4
    <3>8. QED
      BY <3>6, <3>7
  <2>14. Punctual => Watched(u)
    <3>1. \A d \in ToSet(u.dequeues) : Avail(u.db, d.queue) = {}
      BY <2>8, <2>9, <2>11 DEF Tried
    <3>2. QED
      BY <2>10, <2>13, <3>1 DEF Watched
  <2>15. QED
    BY <2>9, <2>12, <2>14
<1>3. QED
  BY <1>1, <1>2

(* Neither the books nor who waits depends on more than this.              *)
LEMMA SameNeat ==
  ASSUME NEW w, NEW u, u.db = w.db, u.count = w.count, ToSet(u.dequeues) \subseteq ToSet(w.dequeues),
         Neat(w)
  PROVE  /\ Neat(u)
         /\ Watched(w) /\ u.held = w.held /\ u.involved = w.involved /\ u.timer = w.timer => Watched(u)
BY DEF Neat, Booked, Asking, Watched

(* A write keeps the books, and then those who wait are watched.           *)
LEMMA PersistedNeat ==
  ASSUME NEW w \in Group, Neat(w), NEW u, u = Persisted(w)
  PROVE  /\ u \in Group /\ Neat(u) /\ (w.held = <<>> => u = w)
         /\ w.held # <<>> /\ Punctual => Watched(u)
<1>1. CASE w.held = <<>>
  BY <1>1 DEF Persisted
<1>2. CASE w.held # <<>>
  <2>1. PICK v : v = Written(w)
    OBVIOUS
  <2>2. v \in Group
    BY <2>1, WrittenIs
  <2>3. v.db = w.db /\ v.count = w.count /\ v.dequeues = w.dequeues
    BY <2>1 DEF Written, Group
  <2>4. Neat(v)
    BY <2>3, SameNeat
  <2>5. u = Woken(v)
    BY <1>2, <2>1 DEF Persisted, Written
  <2>6. QED
    BY <1>2, <2>2, <2>4, <2>5, WokenNeat
<1>3. QED
  BY <1>1, <1>2

(* A reply that is held will be written, or has been.                      *)
LEMMA HeldNeat ==
  ASSUME NEW w \in Group, Neat(w), NEW r \in Ack, NEW u, u = Held(w, r)
  PROVE  u \in Group /\ Neat(u) /\ (Punctual => Watched(u))
<1>1. PICK v : v = Queued(w, r)
  OBVIOUS
<1>2. v \in Group /\ v.held # <<>>
  <2>1. v \in Group /\ ToSet(v.held) = ToSet(w.held) \cup {r}
    BY <1>1, QueuedIs DEF Queues
  <2>2. ToSet(<<>>) = {}
    BY DEF ToSet
  <2>3. QED
    BY <2>1, <2>2
<1>3. v.db = w.db /\ v.count = w.count /\ v.dequeues = w.dequeues
  BY <1>1 DEF Queued, Group
<1>4. Neat(v)
  BY <1>3, SameNeat
<1>5. CASE u = v
  BY <1>2, <1>4, <1>5 DEF Watched
<1>6. CASE u = Persisted(v)
  BY <1>2, <1>4, <1>6, PersistedNeat
<1>7. QED
  BY <1>1, <1>5, <1>6, HeldIs

(* A handler does so: the exit of a producer is left out, for it may take  *)
(* the reply that the next write waits for.                                *)
Harmless(l) == l.kind = "exit" => l.who \cap Message = {}
Minds(w, l, u) ==
  /\ u \in Group /\ Neat(u)
  /\ Punctual /\ Harmless(l) /\ (l.kind = "timeout" \/ Watched(w)) => Watched(u)

(* enqueue, of a flow in its transaction and of a producer.                *)
LEMMA EnqueueMinds ==
  ASSUME NEW w \in Group, Neat(w), NEW l \in Letter, l.kind = "enqueue", NEW u, u = OnEnqueue(w, l)
  PROVE  Minds(w, l, u)
<1> USE QueueAssumption
<1>1. Booked(w) /\ Asking(w.dequeues)
  BY DEF Neat
<1>2. CASE l.who \in Flow
  <2>1. l.msg \in Message /\ l.who # Nobody /\ "target" \in Queue /\ l.who \in Flow \cup {Nobody}
    BY <1>2 DEF Letter, Queue
  <2>2. PICK v : v = Enqueued(w, l.msg, "target", l.who)
    OBVIOUS
  <2>3. v \in Group /\ v.dequeues = w.dequeues
    <3>1. v \in Group /\ Rest(v) = Rest(w)
      BY <2>1, <2>2, EnqueuedIs
    <3>2. QED
      BY <3>1 DEF Rest
  <2>4. Booked(v)
    BY <1>1, <2>1, <2>2, EnqueuedBooked
  <2>5. PICK x : x = Involved(v, l.who)
    OBVIOUS
  <2>6. /\ x \in Group /\ x.involved = v.involved \cup {l.who} /\ x.db = v.db /\ x.count = v.count
        /\ x.dequeues = v.dequeues
    BY <1>2, <2>3, <2>5, InvolvedIs
  <2>7. PICK r : r = Reply("enqueued", l.who, l.msg)
    OBVIOUS
  <2>8. r \in Mail
    BY <1>2, <2>1, <2>7 DEF Reply, Mail, MailKind, Who
  <2>9. u = Sent(x, r)
    BY <1>2, <2>2, <2>5, <2>7 DEF OnEnqueue
  <2>10. /\ u \in Group /\ u.involved = x.involved /\ u.db = x.db /\ u.count = x.count
         /\ u.dequeues = x.dequeues
    BY <2>6, <2>8, <2>9, SentIs
  <2>11. Neat(u)
    BY <1>1, <2>3, <2>4, <2>6, <2>10 DEF Neat, Booked
  <2>12. QED
    BY <2>6, <2>10, <2>11 DEF Minds, Watched
<1>3. CASE l.who \notin Flow
  <2>1. l.who \in Message /\ l.msg = l.who /\ "source" \in Queue /\ Nobody \in Flow \cup {Nobody}
    BY <1>3 DEF Letter, Queue
  <2>2. PICK v : v = Enqueued(w, l.msg, "source", Nobody)
    OBVIOUS
  <2>3. v \in Group /\ v.dequeues = w.dequeues
    <3>1. v \in Group /\ Rest(v) = Rest(w)
      BY <2>1, <2>2, EnqueuedIs
    <3>2. QED
      BY <3>1 DEF Rest
  <2>4. Booked(v)
    BY <1>1, <2>1, <2>2, EnqueuedBooked
  <2>5. PICK r : r = Reply("enqueued", l.who, l.msg)
    OBVIOUS
  <2>6. r \in Ack
    BY <2>1, <2>5 DEF Reply, Ack, Mail, MailKind, Who
  <2>7. u = Held(v, r)
    BY <1>3, <2>2, <2>5 DEF OnEnqueue
  <2>8. Neat(v)
    BY <1>1, <2>3, <2>4 DEF Neat
  <2>9. QED
    BY <2>3, <2>6, <2>7, <2>8, HeldNeat DEF Minds
<1>4. QED
  BY <1>2, <1>3

(* dequeue: who is served makes nothing wait, and who waits sets the       *)
(* alarm.                                                                  *)
LEMMA DequeueMinds ==
  ASSUME NEW w \in Group, Neat(w), NEW l \in Letter, l.kind = "dequeue",
         NEW u, u = Dequeued(w, Dequeue(l.who))
  PROVE  Minds(w, l, u)
<1> USE QueueAssumption
<1>1. Booked(w) /\ Asking(w.dequeues) /\ w.dequeues \in Seq(Wait) /\ w.db \in Seq(Row)
  BY DEF Neat, Group
<1>2. PICK d : d = Dequeue(l.who)
  OBVIOUS
<1>3. d \in Wait /\ d = Dequeue(d.who)
  BY <1>2 DEF Dequeue, Letter, Wait, Queue
<1>4. u \in Group /\ Booked(u) /\ u.held = w.held /\ (Served(w, u, d) \/ Parked(w, u, d))
  BY <1>1, <1>2, <1>3, DequeuedNeat
<1>5. CASE Parked(w, u, d)
  <2>1. /\ u.dequeues = Append(w.dequeues, d) /\ Avail(w.db, d.queue) = {}
        /\ u.db = w.db /\ u.involved = w.involved
        /\ w.timer \/ Delayed(w.db, d.queue) => u.timer
    BY <1>5 DEF Parked
  <2>2. ToSet(u.dequeues) = ToSet(w.dequeues) \cup {d}
    BY <1>1, <1>3, <2>1, AppendSet
  <2>3. Neat(u)
    BY <1>1, <1>3, <1>4, <2>2 DEF Neat, Asking
  <2>4. Watched(w) => Watched(u)
    BY <1>4, <2>1, <2>2 DEF Watched
  <2>5. QED
    BY <1>4, <2>3, <2>4 DEF Minds
<1>6. CASE Served(w, u, d)
  <2>1. /\ u.dequeues = w.dequeues
        /\ \A q \in Queue :
             /\ Cardinality(Avail(u.db, q)) = IF q = d.queue THEN Cardinality(Avail(w.db, q)) - 1
                                              ELSE Cardinality(Avail(w.db, q))
             /\ Delayed(u.db, q) => Delayed(w.db, q)
        /\ Avail(w.db, d.queue) # {}
        /\ u.involved = {} => w.involved = {}
        /\ u.timer = w.timer
    BY <1>6 DEF Served
  <2>2. ASSUME NEW q \in Queue, Avail(w.db, q) = {} PROVE Avail(u.db, q) = {}
    <3>1. Cardinality(Avail(u.db, q)) = Cardinality(Avail(w.db, q))
      BY <2>1, <2>2
    <3>2. u.db \in Seq(Row)
      BY <1>4 DEF Group
    <3>3. QED
      BY <1>1, <2>2, <3>1, <3>2, AvailIs
  <2>3. \A x \in ToSet(w.dequeues) : x.queue \in Queue
    <3>1. \A x \in ToSet(w.dequeues) : x \in Wait
      BY <1>1, InSeq
    <3>2. QED
      BY <3>1 DEF Wait
  <2>4. Neat(u)
    BY <1>1, <1>4, <2>1 DEF Neat
  <2>5. Watched(w) => Watched(u)
    BY <1>4, <2>1, <2>2, <2>3 DEF Watched
  <2>6. QED
    BY <1>4, <2>4, <2>5 DEF Minds
<1>7. QED
  BY <1>4, <1>5, <1>6

(* forget, exit and shutdown: fewer wait.                                  *)
LEMMA ForgetMinds ==
  ASSUME NEW w \in Group, Neat(w), NEW l \in Letter, l.kind = "forget", NEW u, u = OnForget(w, l)
  PROVE  Minds(w, l, u)
<1>1. u \in Group
  BY ForgetIs
<1>2. CASE u = w
  BY <1>2 DEF Minds
<1>3. CASE u # w
  <2>1. PICK S : S = WaitsOf(w, {l.who})
    OBVIOUS
  <2>2. PICK s \in Seq(Wait) : s = w.dequeues
    BY DEF Group
  <2>3. PICK t : t = Without(s, S)
    OBVIOUS
  <2>4. t \in Seq(Wait) /\ ToSet(t) \subseteq ToSet(s)
    BY <2>3, WithoutSet
  <2>5. u = Sent([w EXCEPT !.dequeues = t], Reply("forgotten", l.who, Nobody))
    BY <1>3, <2>1, <2>2, <2>3 DEF OnForget
  <2>6. /\ u.dequeues = t /\ u.db = w.db /\ u.count = w.count /\ u.held = w.held
        /\ u.involved = w.involved /\ u.timer = w.timer
    BY <2>5 DEF Sent, Group
  <2>7. QED
    BY <1>1, <2>2, <2>4, <2>6, SameNeat DEF Minds
<1>4. QED
  BY <1>2, <1>3

(* The replies that an exit takes are those of producers.                  *)
LEMMA ExitMinds ==
  ASSUME NEW w \in Group, Neat(w), NEW l \in Letter, l.kind = "exit", NEW u, u = OnExit(w, l)
  PROVE  Minds(w, l, u)
<1>1. u \in Group
  BY ExitIs
<1>2. PICK S, T : S = WaitsOf(w, l.who) /\ T = AcksOf(w, l.who)
  OBVIOUS
<1>3. PICK s \in Seq(Wait) : s = w.dequeues
  BY DEF Group
<1>4. PICK h \in Seq(Ack) : h = w.held
  BY DEF Group
<1>5. PICK t, k : t = Without(s, S) /\ k = Without(h, T)
  OBVIOUS
<1>6. ToSet(t) \subseteq ToSet(s)
  BY <1>5, WithoutSet
<1>7. u = [w EXCEPT !.dequeues = t, !.held = k]
  BY <1>2, <1>3, <1>4, <1>5 DEF OnExit
<1>8. /\ u.dequeues = t /\ u.db = w.db /\ u.count = w.count /\ u.held = k
      /\ u.involved = w.involved /\ u.timer = w.timer
  BY <1>7 DEF Group
<1>9. ASSUME Harmless(l), k = <<>> PROVE h = <<>>
  <2>1. k \in Seq(Ack) /\ ToSet(k) = ToSet(h) \ T /\ ToSet(k) = {}
    <3>1. ToSet(k) = {}
      BY <1>9 DEF ToSet
    <3>2. QED
      BY <1>5, <3>1, WithoutSet
  <2>2. \A r \in ToSet(h) : r \in Ack
    BY InSeq
  <2>3. T = {}
    BY <1>2, <1>4, <1>9, <2>2 DEF AcksOf, Harmless, Ack
  <2>4. ToSet(h) = {}
    BY <2>1, <2>3
  <2>5. DOMAIN h = {}
    BY <2>4 DEF ToSet
  <2>6. QED
    BY <2>5
<1>10. Neat(u)
  BY <1>3, <1>6, <1>8, SameNeat
<1>11. Harmless(l) /\ Watched(w) => Watched(u)
  BY <1>3, <1>4, <1>6, <1>8, <1>9 DEF Watched
<1>12. QED
  BY <1>1, <1>10, <1>11 DEF Minds

(* shutdown leaves nobody to wait.                                         *)
LEMMA ShutdownMinds ==
  ASSUME NEW w \in Group, Neat(w), NEW l \in Letter, l.kind = "shutdown", NEW u, u = OnShutdown(w)
  PROVE  Minds(w, l, u)
<1>1. PICK p : p = Persisted(w)
  OBVIOUS
<1>2. p \in Group /\ Neat(p)
  BY <1>1, PersistedNeat
<1>3. u \in Group
  BY <1>1, <1>2, ShutdownIs
<1>4. u.db = p.db /\ u.count = p.count /\ u.dequeues = <<>>
  BY <1>1, <1>2 DEF OnShutdown, Group
<1>5. ToSet(u.dequeues) = {}
  BY <1>4 DEF ToSet
<1>6. QED
  BY <1>2, <1>3, <1>4, <1>5, SameNeat DEF Minds, Watched

(* commit and rollback, once their reply is held.                          *)
LEMMA EndMinds ==
  ASSUME NEW w \in Group, Neat(w), NEW l \in Letter, NEW u,
         \/ l.kind = "commit" /\ u = OnCommit(w, l)
         \/ l.kind = "rollback" /\ u = OnRollback(w, l)
  PROVE  Minds(w, l, u)
<1>1. PICK f \in Flow : f = l.who
  BY DEF Letter
<1>2. PICK r \in Ack : r = Reply("xa", f, Nobody)
  BY DEF Reply, Ack, Mail, MailKind, Who
<1>3. PICK x : x = Uninvolved(w, f)
  OBVIOUS
<1>4. x \in Group /\ x.dequeues = w.dequeues /\ x.db = w.db
  BY <1>3, UninvolvedIs
<1>5. x.count = w.count
  BY <1>3 DEF Uninvolved, Group
<1>6. Neat(x)
  BY <1>4, <1>5, SameNeat
<1>7. PICK v : /\ v = Committed(x, f) \/ v = RolledBack(x, f)
               /\ u = Held(v, r)
  BY <1>1, <1>2, <1>3 DEF OnCommit, OnRollback, Uninvolved
<1>8. v \in Group /\ v.dequeues = x.dequeues
  <2>1. v \in Group /\ Rest(v) = Rest(x)
    BY <1>4, <1>7, CommittedIs, RolledBackIs
  <2>2. QED
    BY <2>1 DEF Rest
<1>9. Booked(v)
  <2>1. Booked(x)
    BY <1>6 DEF Neat
  <2>2. QED
    BY <1>4, <1>7, <2>1, CommittedBooked, RolledBackBooked
<1>10. Neat(v)
  BY <1>6, <1>8, <1>9 DEF Neat
<1>11. QED
  BY <1>7, <1>8, <1>10, HeldNeat DEF Minds

(* prepare only answers.                                                   *)
LEMMA PrepareMinds ==
  ASSUME NEW w \in Group, Neat(w), NEW l \in Letter, l.kind = "prepare", NEW u, u = OnPrepare(w, l)
  PROVE  Minds(w, l, u)
<1>1. PICK f \in Flow : f = l.who
  BY DEF Letter
<1>2. PICK r \in Mail : r = Reply("prepared", f, Nobody)
  BY DEF Reply, Mail, MailKind, Who
<1>3. /\ u \in Group /\ u.db = w.db /\ u.count = w.count /\ u.involved = w.involved
      /\ u.dequeues = w.dequeues /\ u.held = w.held /\ u.timer = w.timer
  BY <1>1, <1>2, SentIs DEF OnPrepare
<1>4. QED
  BY <1>3, SameNeat DEF Minds

(* restore tries again at once.                                            *)
LEMMA RestoreMinds ==
  ASSUME NEW w \in Group, Neat(w), NEW l \in Letter, l.kind = "restore", NEW u, u = OnRestore(w)
  PROVE  Minds(w, l, u)
<1>1. PICK r : r = Restored(w)
  OBVIOUS
<1>2. r \in Group /\ r.dequeues = w.dequeues
  <2>1. r \in Group /\ Rest(r) = Rest(w)
    BY <1>1, RestoredIs
  <2>2. QED
    BY <2>1 DEF Rest
<1>3. Booked(r)
  BY <1>1, RestoredBooked DEF Neat
<1>4. PICK v : v = [r EXCEPT !.disk = r.db]
  OBVIOUS
<1>5. v \in Group /\ v.db = r.db /\ v.count = r.count /\ v.dequeues = r.dequeues
  BY <1>2, <1>4 DEF Group
<1>6. Neat(v)
  BY <1>2, <1>3, <1>5 DEF Neat, Booked
<1>7. u = Woken(v)
  BY <1>1, <1>4 DEF OnRestore
<1>8. QED
  BY <1>5, <1>6, <1>7, WokenNeat DEF Minds

(* The alarm: with replies that are held the next write will do.           *)
LEMMA TimeoutMinds ==
  ASSUME NEW w \in Group, Neat(w), NEW l \in Letter, l.kind = "timeout", NEW u, u = OnTimeout(w)
  PROVE  Minds(w, l, u)
<1>1. CASE w.held = <<>>
  <2>1. u = Woken(w)
    BY <1>1 DEF OnTimeout
  <2>2. QED
    BY <2>1, WokenNeat DEF Minds
<1>2. CASE w.held # <<>>
  BY <1>2 DEF OnTimeout, Minds, Watched
<1>3. QED
  BY <1>1, <1>2
=============================================================================
