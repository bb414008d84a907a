------------------------------ MODULE LoopProofs ------------------------------
(***************************************************************************)
(* Induction and recursion on the natural numbers, and what the helpers on *)
(* sequences do: Without, RemoveAt and the search for the first of a kind. *)
(***************************************************************************)
EXTENDS Loops, SequencesExt, TLAPS, WellFoundedInduction, SequenceTheorems, FiniteSetTheorems
-----------------------------------------------------------------------------
(* The loops of the models are recursive functions over the positions of a *)
(* sequence: induction and recursion on the natural numbers, stated for    *)
(* sets and functions.                                                     *)

(* Induction on the natural numbers, over a set. *)
LEMMA NatSet ==
  ASSUME NEW S, 0 \in S, \A n \in Nat : n \in S => n + 1 \in S
  PROVE  Nat \subseteq S
<1> DEFINE R == {ss \in Nat \X Nat : ss[1] < ss[2]}
           T == Nat \ S
<1>1. IsWellFoundedOn(R, Nat)
  BY NatLessThanWellFounded, Zenon DEF OpToRel
<1>2. SUFFICES ASSUME T # {} PROVE FALSE
  OBVIOUS
<1>3. PICK n \in T : \A m \in T : ~ (<<m, n>> \in R)
  <2> HIDE DEF R, T
  <2>1. T \subseteq Nat
    BY DEF T
  <2>2. QED BY <1>1, <1>2, <2>1, WFMin
<1>4. n # 0 /\ n \in Nat /\ n - 1 \in Nat /\ n - 1 < n
  OBVIOUS
<1>5. n - 1 \notin T
  <2>1. <<n - 1, n>> \in R
    BY <1>4
  <2>2. QED
    BY <1>3, <2>1
<1>6. QED
  BY <1>4, <1>5

(* A set of natural numbers has a least one. *)
LEMMA NatMin ==
  ASSUME NEW T \in SUBSET Nat, T # {}
  PROVE  \E n \in T : \A m \in T : n <= m
<1> DEFINE R == {ss \in Nat \X Nat : ss[1] < ss[2]}
<1>1. IsWellFoundedOn(R, Nat)
  BY NatLessThanWellFounded, Zenon DEF OpToRel
<1>2. PICK n \in T : \A m \in T : ~ (<<m, n>> \in R)
  <2> HIDE DEF R
  <2> QED BY <1>1, WFMin
<1>3. \A m \in T : ~ (m < n) /\ m \in Nat /\ n \in Nat
  BY <1>2
<1>4. QED
  BY <1>3

(* f solves the first k steps of the recursion of G from a.                *)
Solves(f, k, a, G, A) ==
  /\ f \in [0 .. k -> A] /\ f[0] = a
  /\ \A i \in 1 .. k : f[i] = G[<<i, f[i - 1]>>]

(* A recursion over 1 .. n has a solution when each step stays in A. *)
LEMMA Recursion ==
  ASSUME NEW A, NEW a \in A, NEW n \in Nat, NEW G \in [(1 .. n) \X A -> A]
  PROVE  \E f : Solves(f, n, a, G, A)
<1> DEFINE S == {k \in Nat : k <= n => \E f : Solves(f, k, a, G, A)}
<1>1. 0 \in S
  <2>1. PICK f : f = [i \in 0 .. 0 |-> a]
    OBVIOUS
  <2>2. Solves(f, 0, a, G, A)
    BY <2>1 DEF Solves
  <2>3. QED
    BY <2>2
<1>2. ASSUME NEW k \in Nat, k \in S PROVE k + 1 \in S
  <2> SUFFICES ASSUME k + 1 <= n PROVE \E f : Solves(f, k + 1, a, G, A)
    OBVIOUS
  <2>1. PICK f : Solves(f, k, a, G, A)
    BY <1>2
  <2>2. f[k] \in A /\ k + 1 \in 1 .. n /\ G[<<k + 1, f[k]>>] \in A
    BY <2>1 DEF Solves
  <2>3. PICK b \in A : b = G[<<k + 1, f[k]>>]
    BY <2>2
  <2>4. PICK g : g = [i \in 0 .. k + 1 |-> IF i <= k THEN f[i] ELSE b]
    OBVIOUS
  <2>5. g \in [0 .. k + 1 -> A] /\ g[0] = a /\ g[k + 1] = b
        /\ \A i \in 0 .. k : g[i] = f[i]
    BY <2>1, <2>4 DEF Solves
  <2>6. \A i \in 1 .. k + 1 : g[i] = G[<<i, g[i - 1]>>]
    <3>1. \A i \in 1 .. k : g[i] = f[i] /\ g[i - 1] = f[i - 1]
      BY <2>5
    <3>2. g[k] = f[k] /\ g[k + 1] = G[<<k + 1, g[k]>>]
      BY <2>3, <2>5
    <3>3. \A i \in 1 .. k + 1 : i = k + 1 \/ i \in 1 .. k
      OBVIOUS
    <3>4. (k + 1) - 1 = k
      OBVIOUS
    <3>5. QED
      BY <2>1, <3>1, <3>2, <3>3, <3>4 DEF Solves
  <2>7. QED
    BY <2>5, <2>6 DEF Solves
<1>3. Nat \subseteq S
  <2> HIDE DEF S
  <2> QED BY <1>1, <1>2, NatSet
<1>4. QED
  BY <1>3
-----------------------------------------------------------------------------
(* Sequences that are left when some elements go. *)

(* t has the elements of s at the positions in S, and h says where.        *)
Keeps(h, t, s, S) ==
  /\ \A k \in DOMAIN t : h[k] \in S /\ t[k] = s[h[k]]
  /\ \A k, j \in DOMAIN t : k # j => h[k] # h[j]
  /\ \A n \in S : \E k \in DOMAIN t : h[k] = n

(* The same while the first n elements of s have been looked at.           *)
Picks(h, t, s, S, n) ==
  /\ h \in [1 .. Len(t) -> 1 .. n]
  /\ \A i, j \in 1 .. Len(t) : i # j => h[i] # h[j]
  /\ \A i \in 1 .. Len(t) : t[i] = s[h[i]] /\ s[h[i]] \notin S
  /\ \A k \in 1 .. n : s[k] \notin S => \E i \in 1 .. Len(t) : h[i] = k

(* Without keeps the elements that are not in the set, in their order.     *)
LEMMA WithoutIs ==
  ASSUME NEW E, NEW s \in Seq(E), NEW S
  PROVE  /\ Without(s, S) \in Seq(E)
         /\ \E h : Keeps(h, Without(s, S), s, {n \in DOMAIN s : s[n] \notin S})
<1> DEFINE Step(x, i) == IF s[i] \in S THEN x ELSE Append(x, s[i])
           Def(g) == [i \in 0 .. Len(s) |-> IF i = 0 THEN <<>> ELSE Step(g[i - 1], i)]
           kept == CHOOSE g : g = Def(g)
<1>1. kept = Def(kept)
  <2> DEFINE G == [p \in (1 .. Len(s)) \X Seq(E) |-> Step(p[2], p[1])]
  <2>1. G \in [(1 .. Len(s)) \X Seq(E) -> Seq(E)] /\ Len(s) \in Nat /\ <<>> \in Seq(E)
    OBVIOUS
  <2>2. PICK f : Solves(f, Len(s), <<>>, G, Seq(E))
    <3> HIDE DEF G
    <3>1. PICK n \in Nat : n = Len(s)
      BY <2>1
    <3>2. PICK A, a : A = Seq(E) /\ a = <<>>
      OBVIOUS
    <3> QED BY <2>1, <3>1, <3>2, Recursion
  <2>3. \A i \in 1 .. Len(s) : f[i - 1] \in Seq(E) /\ f[i] = Step(f[i - 1], i)
    <3>1. \A i \in 1 .. Len(s) : f[i - 1] \in Seq(E) /\ f[i] = G[<<i, f[i - 1]>>]
      <4> HIDE DEF G
      <4>1. \A i \in 1 .. Len(s) : i - 1 \in 0 .. Len(s)
        BY <2>1
      <4> QED BY <2>2, <4>1 DEF Solves
    <3>2. \A i \in 1 .. Len(s), x \in Seq(E) : G[<<i, x>>] = Step(x, i)
      OBVIOUS
    <3> HIDE DEF G, Step
    <3>3. QED
      BY <3>1, <3>2
  <2>4. f = Def(f)
    <3> HIDE DEF G, Step
    <3>1. f \in [0 .. Len(s) -> Seq(E)] /\ f[0] = <<>>
      BY <2>2 DEF Solves
    <3>2. \A i \in 0 .. Len(s) : f[i] = IF i = 0 THEN <<>> ELSE Step(f[i - 1], i)
      BY <2>1, <2>3, <3>1
    <3>3. QED
      BY <3>1, <3>2
  <2> HIDE DEF Def
  <2>5. QED
    BY <2>4
<1>2. Without(s, S) = kept[Len(s)]
  BY DEF Without
<1>3. kept[0] = <<>> /\ \A i \in 1 .. Len(s) : kept[i] = Step(kept[i - 1], i)
  <2> HIDE DEF Step, kept
  <2>1. QED BY <1>1
<1> DEFINE Good(t, n) == t \in Seq(E) /\ \E h : Picks(h, t, s, S, n)
           T == {n \in Nat : n <= Len(s) => Good(kept[n], n)}
<1> HIDE DEF kept
<1>4. 0 \in T
  <2>1. Picks(<<>>, <<>>, s, S, 0)
    BY DEF Picks
  <2>2. Good(<<>>, 0)
    BY <2>1
  <2>3. QED
    BY <1>3, <2>2
<1>5. ASSUME NEW n \in Nat, n \in T PROVE n + 1 \in T
  <2> SUFFICES ASSUME n + 1 <= Len(s) PROVE Good(kept[n + 1], n + 1)
    OBVIOUS
  <2>1. Good(kept[n], n) /\ kept[n + 1] = Step(kept[n], n + 1) /\ n + 1 \in 1 .. Len(s)
    BY <1>3, <1>5
  <2>2. PICK t, h : t = kept[n] /\ t \in Seq(E) /\ Picks(h, t, s, S, n)
    BY <2>1
  <2>3. PICK e \in E : e = s[n + 1]
    BY <2>1
  <2>4. CASE e \in S
    <3>1. Picks(h, t, s, S, n + 1)
      BY <2>2, <2>3, <2>4 DEF Picks
    <3>2. QED
      BY <2>1, <2>2, <2>3, <2>4, <3>1
  <2>5. CASE e \notin S
    <3>1. PICK l \in Nat : l = Len(t)
      BY <2>2
    <3>2. PICK u, g : u = Append(t, e) /\ g = [i \in 1 .. l + 1 |-> IF i <= l THEN h[i] ELSE n + 1]
      OBVIOUS
    <3>3. /\ u \in Seq(E) /\ Len(u) = l + 1 /\ u[l + 1] = e
          /\ \A i \in 1 .. l : u[i] = t[i]
      BY <2>2, <3>1, <3>2
    <3>4. /\ g \in [1 .. l + 1 -> 1 .. n + 1] /\ g[l + 1] = n + 1
          /\ \A i \in 1 .. l : g[i] = h[i] /\ h[i] \in 1 .. n
      <4>1. \A i \in 1 .. l : h[i] \in 1 .. n
        BY <2>2, <3>1 DEF Picks
      <4>2. QED
        BY <3>1, <3>2, <4>1
    <3>5. Picks(g, u, s, S, n + 1)
      <4>1. \A i \in 1 .. l + 1 : i = l + 1 \/ i \in 1 .. l
        BY <3>1
      <4>2. \A i, j \in 1 .. l + 1 : i # j => g[i] # g[j]
        <5>1. \A i, j \in 1 .. l : i # j => h[i] # h[j]
          BY <2>2, <3>1 DEF Picks
        <5>2. QED
          BY <3>4, <4>1, <5>1
      <4>3. \A i \in 1 .. l + 1 : u[i] = s[g[i]] /\ s[g[i]] \notin S
        <5>1. \A i \in 1 .. l : t[i] = s[h[i]] /\ s[h[i]] \notin S
          BY <2>2, <3>1 DEF Picks
        <5>2. QED
          BY <2>3, <2>5, <3>3, <3>4, <4>1, <5>1
      <4>4. \A k \in 1 .. n + 1 : s[k] \notin S => \E i \in 1 .. l + 1 : g[i] = k
        <5>1. \A k \in 1 .. n : s[k] \notin S => \E i \in 1 .. l : h[i] = k
          BY <2>2, <3>1 DEF Picks
        <5>2. \A k \in 1 .. n + 1 : k = n + 1 \/ k \in 1 .. n
          OBVIOUS
        <5>3. \A i \in 1 .. l : i \in 1 .. l + 1 /\ l + 1 \in 1 .. l + 1
          BY <3>1
        <5>4. l + 1 \in 1 .. l + 1
          BY <3>1
        <5>5. QED
          BY <3>4, <5>1, <5>2, <5>3, <5>4
      <4>5. QED
        BY <3>3, <3>4, <4>2, <4>3, <4>4 DEF Picks
    <3>6. kept[n + 1] = u
      BY <2>1, <2>2, <2>3, <2>5, <3>2
    <3>7. QED
      BY <3>3, <3>5, <3>6
  <2>6. QED
    BY <2>4, <2>5
<1>6. Good(kept[Len(s)], Len(s))
  <2>1. Nat \subseteq T
    <3> HIDE DEF T
    <3> QED BY <1>4, <1>5, NatSet
  <2>2. QED
    BY <2>1
<1>7. ASSUME NEW t \in Seq(E), NEW h, Picks(h, t, s, S, Len(s))
      PROVE  Keeps(h, t, s, {n \in DOMAIN s : s[n] \notin S})
  <2>1. PICK l \in Nat : l = Len(s) /\ DOMAIN s = 1 .. l /\ DOMAIN t = 1 .. Len(t)
    OBVIOUS
  <2>2. \A k \in DOMAIN t : /\ h[k] \in {n \in DOMAIN s : s[n] \notin S}
                             /\ t[k] = s[h[k]]
    BY <1>7, <2>1 DEF Picks
  <2>3. \A k, j \in DOMAIN t : k # j => h[k] # h[j]
    BY <1>7, <2>1 DEF Picks
  <2>4. \A i \in {n \in DOMAIN s : s[n] \notin S} : \E k \in DOMAIN t : h[k] = i
    BY <1>7, <2>1 DEF Picks
  <2>5. QED
    BY <2>2, <2>3, <2>4 DEF Keeps
<1>8. QED
  BY <1>2, <1>6, <1>7

(* Removing one element of a sequence keeps the others.                    *)
LEMMA RemoveAtIs ==
  ASSUME NEW E, NEW s \in Seq(E), NEW n \in DOMAIN s, NEW t, t = RemoveAt(s, n)
  PROVE  /\ t \in Seq(E)
         /\ \E h : Keeps(h, t, s, DOMAIN s \ {n})
<1>1. PICK l \in Nat : l = Len(s) /\ DOMAIN s = 1 .. l
  OBVIOUS
<1>2. n \in Int /\ 1 <= n /\ n <= l
  BY <1>1
<1>3. /\ t \in Seq(E) /\ DOMAIN t = 1 .. l - 1
      /\ \A k \in 1 .. l - 1 : t[k] = IF k < n THEN s[k] ELSE s[k + 1]
  <2>1. PICK a, b : a = SubSeq(s, 1, n - 1) /\ b = SubSeq(s, n + 1, l)
    OBVIOUS
  <2>2. a \in Seq(E) /\ Len(a) = n - 1 /\ \A i \in 1 .. n - 1 : a[i] = s[i]
    BY <1>1, <1>2, <2>1
  <2>3. b \in Seq(E) /\ Len(b) = l - n /\ \A i \in 1 .. l - n : b[i] = s[i + n]
    BY <1>1, <1>2, <2>1
  <2>4. t = a \o b
    BY <1>1, <2>1 DEF RemoveAt
  <2>5. /\ t \in Seq(E) /\ Len(t) = l - 1
        /\ \A k \in 1 .. l - 1 : t[k] = IF k <= n - 1 THEN a[k] ELSE b[k - (n - 1)]
    <3>1. (n - 1) + (l - n) = l - 1
      BY <1>1, <1>2
    <3>2. /\ a \o b \in Seq(E) /\ Len(a \o b) = Len(a) + Len(b)
          /\ \A i \in 1 .. Len(a) + Len(b) :
               (a \o b)[i] = IF i <= Len(a) THEN a[i] ELSE b[i - Len(a)]
      BY <2>2, <2>3, ConcatProperties
    <3>3. QED
      BY <2>2, <2>3, <2>4, <3>1, <3>2
  <2>6. ASSUME NEW k \in 1 .. l - 1 PROVE t[k] = IF k < n THEN s[k] ELSE s[k + 1]
    <3>1. CASE k < n
      BY <1>2, <2>2, <2>5, <3>1
    <3>2. CASE ~ k < n
      <4>1. k - (n - 1) \in 1 .. l - n /\ (k - (n - 1)) + n = k + 1 /\ ~ k <= n - 1
        BY <1>1, <1>2, <3>2
      <4>2. QED
        BY <2>3, <2>5, <3>2, <4>1
    <3>3. QED
      BY <3>1, <3>2
  <2>7. DOMAIN t = 1 .. l - 1
    BY <2>5, LenProperties
  <2>8. QED
    BY <2>5, <2>6, <2>7
<1>4. PICK h : h = [k \in 1 .. l - 1 |-> IF k < n THEN k ELSE k + 1]
  OBVIOUS
<1>5. \A k \in 1 .. l - 1 : h[k] \in DOMAIN s \ {n} /\ t[k] = s[h[k]]
  BY <1>1, <1>2, <1>3, <1>4
<1>6. \A k, j \in 1 .. l - 1 : k # j => h[k] # h[j]
  BY <1>2, <1>4
<1>7. ASSUME NEW i \in 1 .. l, i # n PROVE \E k \in 1 .. l - 1 : h[k] = i
  <2>1. CASE i < n
    <3>1. i \in 1 .. l - 1 /\ h[i] = i
      BY <1>2, <1>4, <2>1
    <3>2. QED
      BY <3>1
  <2>2. CASE i > n
    <3>1. i - 1 \in 1 .. l - 1 /\ h[i - 1] = i
      BY <1>2, <1>4, <2>2
    <3>2. QED
      BY <3>1
  <2>3. QED
    BY <1>2, <1>7, <2>1, <2>2
<1>8. Keeps(h, t, s, DOMAIN s \ {n})
  BY <1>1, <1>3, <1>5, <1>6, <1>7 DEF Keeps
<1>9. QED
  BY <1>3, <1>8

(* An element more. *)
LEMMA AppendIn ==
  ASSUME NEW E, NEW s \in Seq(E), NEW e \in E
  PROVE  Append(s, e) \in Seq(E) /\ ToSet(Append(s, e)) = ToSet(s) \cup {e}
<1>1. PICK l \in Nat : l = Len(s) /\ DOMAIN s = 1 .. l
  OBVIOUS
<1>2. PICK t : t = Append(s, e)
  OBVIOUS
<1>3. /\ t \in Seq(E) /\ DOMAIN t = 1 .. l + 1 /\ t[l + 1] = e
      /\ \A n \in 1 .. l : t[n] = s[n] /\ n \in 1 .. l + 1
      /\ \A n \in 1 .. l + 1 : n \in 1 .. l \/ n = l + 1
      /\ l + 1 \in 1 .. l + 1
  BY <1>1, <1>2
<1>4. \A x : x \in ToSet(t) <=> x \in ToSet(s) \cup {e}
  <2>1. \A x : x \in ToSet(t) <=> \E n \in 1 .. l + 1 : x = t[n]
    BY <1>3 DEF ToSet
  <2>2. \A x : x \in ToSet(s) <=> \E n \in 1 .. l : x = s[n]
    BY <1>1 DEF ToSet
  <2>3. QED
    BY <1>3, <2>1, <2>2
<1>5. QED
  BY <1>2, <1>3, <1>4

(* The head and the rest. *)
LEMMA TailIn ==
  ASSUME NEW E, NEW s \in Seq(E), s # <<>>
  PROVE  Tail(s) \in Seq(E) /\ Head(s) \in E /\ ToSet(s) = ToSet(Tail(s)) \cup {Head(s)}
<1>1. PICK l \in Nat : l = Len(s) /\ DOMAIN s = 1 .. l
  OBVIOUS
<1>2. PICK t : t = Tail(s)
  OBVIOUS
<1>3. l # 0
  BY <1>1
<1>4. /\ t \in Seq(E) /\ DOMAIN t = 1 .. l - 1 /\ Head(s) = s[1] /\ 1 \in 1 .. l
      /\ \A n \in 1 .. l - 1 : t[n] = s[n + 1] /\ n + 1 \in 1 .. l
      /\ \A n \in 1 .. l : n = 1 \/ (n - 1 \in 1 .. l - 1 /\ (n - 1) + 1 = n)
  BY <1>1, <1>2, <1>3
<1>5. \A x : x \in ToSet(s) <=> x \in ToSet(t) \cup {Head(s)}
  <2>1. \A x : x \in ToSet(t) <=> \E n \in 1 .. l - 1 : x = t[n]
    BY <1>4 DEF ToSet
  <2>2. \A x : x \in ToSet(s) <=> \E n \in 1 .. l : x = s[n]
    BY <1>1 DEF ToSet
  <2>3. ASSUME NEW n \in 1 .. l PROVE s[n] \in ToSet(t) \cup {Head(s)}
    <3>1. CASE n = 1
      BY <1>4, <3>1
    <3>2. CASE n - 1 \in 1 .. l - 1 /\ (n - 1) + 1 = n
      <4>1. s[n] = t[n - 1]
        BY <1>4, <3>2
      <4>2. QED
        BY <2>1, <3>2, <4>1
    <3>3. QED
      BY <1>4, <3>1, <3>2
  <2>4. ASSUME NEW n \in 1 .. l - 1 PROVE t[n] \in ToSet(s)
    <3>1. t[n] = s[n + 1] /\ n + 1 \in 1 .. l
      BY <1>4
    <3>2. QED
      BY <2>2, <3>1
  <2>5. Head(s) \in ToSet(s)
    BY <1>4, <2>2
  <2>6. QED
    BY <2>1, <2>2, <2>3, <2>4, <2>5
<1>6. s[1] \in E
  BY <1>1, <1>4
<1>7. QED
  BY <1>2, <1>4, <1>5, <1>6

(* What is kept is there. *)
LEMMA KeepsIn ==
  ASSUME NEW t, NEW s, NEW S, NEW h, Keeps(h, t, s, S)
  PROVE  ToSet(t) = {s[n] : n \in S}
<1>1. \A x : x \in ToSet(t) <=> \E n \in S : x = s[n]
  BY DEF Keeps, ToSet
<1>2. QED
  BY <1>1

(* What Without leaves. *)
LEMMA WithoutIn ==
  ASSUME NEW E, NEW s \in Seq(E), NEW S, NEW t, t = Without(s, S)
  PROVE  t \in Seq(E) /\ ToSet(t) = ToSet(s) \ S
<1>1. PICK P : P = {n \in DOMAIN s : s[n] \notin S}
  OBVIOUS
<1>2. t \in Seq(E) /\ \E h : Keeps(h, t, s, P)
  BY <1>1, WithoutIs
<1>3. ToSet(t) = {s[n] : n \in P}
  BY <1>2, KeepsIn
<1>4. {s[n] : n \in P} = ToSet(s) \ S
  BY <1>1 DEF ToSet
<1>5. QED
  BY <1>2, <1>3, <1>4

(* What RemoveAt leaves. *)
LEMMA RemoveIn ==
  ASSUME NEW E, NEW s \in Seq(E), NEW n \in DOMAIN s, NEW t, t = RemoveAt(s, n)
  PROVE  t \in Seq(E) /\ ToSet(s) = ToSet(t) \cup {s[n]} /\ s[n] \in E
<1>1. t \in Seq(E) /\ \E h : Keeps(h, t, s, DOMAIN s \ {n})
  BY RemoveAtIs
<1>2. ToSet(t) = {s[k] : k \in DOMAIN s \ {n}}
  BY <1>1, KeepsIn
<1>3. ToSet(s) = ToSet(t) \cup {s[n]}
  BY <1>2 DEF ToSet
<1>4. QED
  BY <1>1, <1>3

(* SelectInSeq finds the least position of those in I. *)
LEMMA FirstOf ==
  ASSUME NEW k \in Nat, NEW I \in SUBSET (1 .. k), NEW n, n = IF I # {} THEN Min(I) ELSE 0
  PROVE  IF I = {} THEN n = 0 ELSE n \in I /\ n # 0 /\ \A j \in I : n <= j
<1>1. CASE I = {}
  BY <1>1
<1>2. CASE I # {}
  <2>1. \E j \in I : \A i \in I : j <= i
    <3>1. I \in SUBSET Nat
      OBVIOUS
    <3>2. QED
      BY <1>2, <3>1, NatMin
  <2>2. n \in I /\ \A j \in I : n <= j
    BY <1>2, <2>1 DEF Min
  <2>3. n # 0
    BY <2>2
  <2>4. QED
    BY <1>2, <2>2, <2>3
<1>3. QED
  BY <1>1, <1>2

(* The sequence of a finite set has its elements, each once. *)
LEMMA SeqOfSet ==
  ASSUME NEW E, NEW S \in SUBSET E, IsFiniteSet(S)
  PROVE  /\ SetToSeq(S) \in Seq(E) /\ ToSet(SetToSeq(S)) = S
         /\ \A n, k \in DOMAIN SetToSeq(S) : SetToSeq(S)[n] = SetToSeq(S)[k] => n = k
<1>1. PICK n \in Nat : n = Cardinality(S)
  BY FS_CardinalityType
<1>2. \E f \in [1 .. n -> S] : IsInjective(f)
  <2>1. ExistsBijection(1 .. n, S)
    BY <1>1, FS_CardinalityType
  <2>2. QED
    BY <2>1 DEF ExistsBijection, Bijection, Injection
<1>3. PICK f : f = SetToSeq(S)
  OBVIOUS
<1>4. f \in [1 .. n -> S] /\ IsInjective(f)
  BY <1>1, <1>2, <1>3 DEF SetToSeq
<1>5. f \in Seq(E) /\ DOMAIN f = 1 .. n /\ \A i \in 1 .. n : f[i] \in E
  BY <1>4
<1>6. \A i, k \in DOMAIN f : f[i] = f[k] => i = k
  BY <1>4 DEF IsInjective
<1>7. PICK T : T = ToSet(f)
  OBVIOUS
<1>8. T \subseteq S /\ \A i \in 1 .. n : f[i] \in T
  BY <1>4, <1>5, <1>7 DEF ToSet
<1>9. ExistsBijection(1 .. n, T)
  <2>1. f \in [1 .. n -> T] /\ \A x \in T : \E i \in 1 .. n : f[i] = x
    BY <1>4, <1>5, <1>7, <1>8 DEF ToSet
  <2>2. f \in Bijection(1 .. n, T)
    BY <1>4, <2>1 DEF Bijection, Injection, Surjection
  <2>3. QED
    BY <2>2 DEF ExistsBijection
<1>10. Cardinality(T) = n
  BY <1>9, FS_CountingElements
<1>11. T = S
  BY <1>1, <1>8, <1>10, FS_Subset
<1>12. QED
  BY <1>3, <1>5, <1>6, <1>7, <1>11
=============================================================================
