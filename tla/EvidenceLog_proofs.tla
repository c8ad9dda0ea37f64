------------------------ MODULE EvidenceLog_proofs -------------------------
(***************************************************************************)
(* Theorems about EvidenceLog and the tree of Merkle below it, for logs of *)
(* any length and whatever their entries say: a package is accepted as it  *)
(* was written and in no other form, the proof for an entry tells its      *)
(* index, and a log is taken for an extension exactly of its beginnings.   *)
(*                                                                         *)
(* Most of it is about the tree.  Halving the position of a leaf gives the *)
(* way up from it; the siblings beside that way are the proof of inclusion *)
(* (BuildProof), and the way up from the right border of an older tree is  *)
(* what the splitting of Subproofs, which goes down from the root, comes   *)
(* to (SubproofIs).  From there both roots are rebuilt level by level.     *)
(***************************************************************************)
EXTENDS EvidenceLog, TLAPS, FiniteSetTheorems, SequenceTheorems, WellFoundedInduction

---------------------------------------------------------------------------
(* Induction and recursion over the naturals.                              *)

\* A set that has a natural number whenever it has all below it has every one.
LEMMA StrongInduction ==
  ASSUME NEW G, \A n \in Nat : (\A m \in 0..(n - 1) : m \in G) => n \in G
  PROVE  Nat \subseteq G
<1>1. SUFFICES ASSUME Nat \ G # {} PROVE FALSE
  OBVIOUS
<1>2. PICK n \in Nat \ G : \A m \in Nat \ G : ~ (<<m, n>> \in OpToRel(<, Nat))
  BY <1>1, NatLessThanWellFounded, WFMin
<1>3. ASSUME NEW m \in 0..(n - 1) PROVE m \in G
  <2>1. m \in Nat /\ m < n
    OBVIOUS
  <2>2. <<m, n>> \in OpToRel(<, Nat)
    BY <1>2, <2>1 DEF OpToRel
  <2> QED
    BY <1>2, <2>1, <2>2
<1> QED
  BY <1>2, <1>3

\* The same, one number at a time.
LEMMA Induction ==
  ASSUME NEW G, 0 \in G, \A n \in Nat : n \in G => n + 1 \in G
  PROVE  Nat \subseteq G
<1>1. ASSUME NEW n \in Nat, \A m \in 0..(n - 1) : m \in G PROVE n \in G
  <2>1. CASE n = 0
    BY <2>1
  <2>2. CASE n # 0
    <3>1. n - 1 \in Nat /\ n - 1 \in 0..(n - 1) /\ n = (n - 1) + 1
      BY <2>2
    <3> QED
      BY <1>1, <3>1
  <2> QED
    BY <2>1, <2>2
<1> QED
  BY <1>1, StrongInduction

\* A function given by what it is at 0 and by what comes next.
IsRun(f, S, e, next) ==
    /\ f \in [Nat -> S] /\ f[0] = e
    /\ \A n \in Nat : f[n + 1] = next[<<n, f[n]>>]

\* There is such a function.
LEMMA Recursion ==
  ASSUME NEW S, NEW e \in S, NEW next \in [Nat \X S -> S]
  PROVE  \E f : IsRun(f, S, e, next)
<1> DEFINE Runs(f, m) == /\ f \in [0..m -> S] /\ f[0] = e
                         /\ \A n \in 0..(m - 1) : f[n + 1] = next[<<n, f[n]>>]
<1>1. \A m \in Nat : \E f : Runs(f, m)
  <2> DEFINE G == { m \in Nat : \E f : Runs(f, m) }
  <2>1. 0 \in G
    <3>1. Runs([n \in 0..0 |-> e], 0)
      OBVIOUS
    <3> HIDE DEF Runs
    <3> QED
      BY <3>1
  <2>2. ASSUME NEW m \in Nat, m \in G PROVE m + 1 \in G
    <3>1. PICK f : Runs(f, m)
      BY <2>2
    <3>2. f[m] \in S /\ next[<<m, f[m]>>] \in S
      BY <3>1
    <3> DEFINE g == [n \in 0..(m + 1) |-> IF n = m + 1 THEN next[<<m, f[m]>>] ELSE f[n]]
    <3>3. g \in [0..(m + 1) -> S] /\ g[0] = e
      BY <3>1, <3>2
    <3>4. ASSUME NEW n \in 0..((m + 1) - 1) PROVE g[n + 1] = next[<<n, g[n]>>]
      <4>1. n \in 0..m /\ n + 1 \in 0..(m + 1) /\ n # m + 1 /\ (n # m => n \in 0..(m - 1))
        OBVIOUS
      <4>2. g[n] = f[n]
        BY <4>1
      <4>3. n # m => g[n + 1] = f[n + 1]
        BY <4>1
      <4>4. n = m => g[n + 1] = next[<<m, f[m]>>]
        BY <4>1
      <4> HIDE DEF g
      <4> QED
        BY <3>1, <4>1, <4>2, <4>3, <4>4
    <3>5. Runs(g, m + 1)
      BY <3>3, <3>4
    <3> HIDE DEF Runs, g
    <3> QED
      BY <3>5
  <2> HIDE DEF G
  <2>3. Nat \subseteq G
    BY <2>1, <2>2, Induction
  <2> QED
    BY <2>3 DEF G
<1>2. ASSUME NEW m \in Nat, NEW k \in Nat, NEW f, NEW g, Runs(f, m), Runs(g, k)
      PROVE  \A n \in Nat : n <= m /\ n <= k => f[n] = g[n]
  <2> DEFINE G == { n \in Nat : n <= m /\ n <= k => f[n] = g[n] }
  <2>1. 0 \in G
    BY <1>2
  <2>2. ASSUME NEW n \in Nat, n \in G PROVE n + 1 \in G
    <3>1. CASE n + 1 <= m /\ n + 1 <= k
      <4>1. n \in 0..(m - 1) /\ n \in 0..(k - 1) /\ n <= m /\ n <= k
        BY <3>1
      <4>2. f[n] = g[n]
        BY <2>2, <4>1
      <4>3. f[n + 1] = next[<<n, f[n]>>]
        BY <1>2, <4>1
      <4>4. g[n + 1] = next[<<n, g[n]>>]
        BY <1>2, <4>1
      <4> QED
        BY <4>2, <4>3, <4>4
    <3> QED
      BY <3>1
  <2> HIDE DEF G
  <2>3. Nat \subseteq G
    BY <2>1, <2>2, Induction
  <2> QED
    BY <2>3 DEF G
<1> DEFINE run(m) == CHOOSE f : Runs(f, m)
           h == [n \in Nat |-> run(n)[n]]
<1>3. \A m \in Nat : Runs(run(m), m)
  BY <1>1
<1> HIDE DEF run
<1>4. h \in [Nat -> S] /\ h[0] = e
  BY <1>3
<1>5. ASSUME NEW n \in Nat PROVE h[n + 1] = next[<<n, h[n]>>]
  <2>1. run(n + 1)[n + 1] = next[<<n, run(n + 1)[n]>>]
    BY <1>3
  <2>2. run(n + 1)[n] = run(n)[n]
    <3>1. Runs(run(n + 1), n + 1) /\ Runs(run(n), n)
      BY <1>3
    <3> HIDE DEF Runs
    <3> QED
      BY <1>2, <3>1
  <2> QED
    BY <2>1, <2>2
<1> QED
  BY <1>4, <1>5 DEF IsRun

---------------------------------------------------------------------------
(* Halving, sequences and the tree.                                        *)

\* Half the position, once a level.
LEMMA HalvedIs ==
  ASSUME NEW p \in Nat
  PROVE  /\ Halved(p) \in [Nat -> Nat]
         /\ Halved(p)[0] = p
         /\ \A n \in Nat : Halved(p)[n + 1] = Halved(p)[n] \div 2
<1> DEFINE Eq(f) == f = [n \in Nat |-> IF n = 0 THEN p ELSE f[n - 1] \div 2]
           next == [x \in Nat \X Nat |-> x[2] \div 2]
<1>1. next \in [Nat \X Nat -> Nat]
  <2>1. \A k \in Nat : k \div 2 \in Nat
    OBVIOUS
  <2> QED
    BY <2>1
<1>2. PICK f : IsRun(f, Nat, p, next)
  <2> HIDE DEF next
  <2> QED
    BY <1>1, Recursion
<1>3. Eq(f)
  <2>1. ASSUME NEW n \in Nat PROVE f[n] = IF n = 0 THEN p ELSE f[n - 1] \div 2
    <3>1. CASE n # 0
      <4>1. n - 1 \in Nat /\ (n - 1) + 1 = n
        BY <3>1
      <4> QED
        BY <1>2, <3>1, <4>1 DEF IsRun
    <3> QED
      BY <1>2, <3>1 DEF IsRun
  <2> QED
    BY <1>2, <2>1 DEF IsRun
<1>4. Halved(p) = CHOOSE g : Eq(g)
  BY DEF Halved
<1>5. Eq(Halved(p))
  BY <1>3, <1>4
<1> DEFINE h == Halved(p)
<1>6. h = [n \in Nat |-> IF n = 0 THEN p ELSE h[n - 1] \div 2]
  BY <1>5
<1> HIDE DEF h
<1>7. h[0] = p /\ \A n \in Nat : h[n + 1] = h[n] \div 2
  BY <1>6
<1>8. \A n \in Nat : h[n] \in Nat
  <2> DEFINE G == { n \in Nat : h[n] \in Nat }
  <2>1. 0 \in G /\ \A n \in Nat : n \in G => n + 1 \in G
    <3>1. \A k \in Nat : k \div 2 \in Nat
      OBVIOUS
    <3> QED
      BY <1>7, <3>1
  <2> QED
    BY <2>1, Induction
<1>9. h \in [Nat -> Nat]
  BY <1>6, <1>8
<1> QED
  BY <1>7, <1>9 DEF h

\* Sequences, whatever their elements are.
Elements(s) == { s[k] : k \in DOMAIN s }
IsSeq(s) == s \in Seq(Elements(s))

\* A sequence is given by its length and its elements, ...
LEMMA SeqIs ==
  ASSUME NEW s, IsSeq(s)
  PROVE  Len(s) \in Nat /\ DOMAIN s = 1..Len(s) /\ s = [k \in 1..Len(s) |-> s[k]]
BY DEF IsSeq

\* ... what is so given is a sequence, ...
LEMMA ListIs ==
  ASSUME NEW s, NEW n \in Nat, s = [k \in 1..n |-> s[k]]
  PROVE  IsSeq(s) /\ Len(s) = n
<1>1. \A k \in 1..n : s[k] \in Elements(s)
  <2>1. DOMAIN s = 1..n
    OBVIOUS
  <2> QED
    BY <2>1 DEF Elements
<1>2. s \in [1..n -> Elements(s)]
  BY <1>1
<1>3. s \in Seq(Elements(s))
  BY <1>2
<1>4. DOMAIN s = 1..n /\ DOMAIN s = 1..Len(s) /\ Len(s) \in Nat
  BY <1>3
<1> QED
  BY <1>3, <1>4 DEF IsSeq

\* ... and two with the same elements at the same positions are the same.
LEMMA SameSeq ==
  ASSUME NEW s, NEW t, IsSeq(s), IsSeq(t), Len(s) = Len(t), \A k \in 1..Len(s) : s[k] = t[k]
  PROVE  s = t
BY SeqIs

\* The sequences of no element and of one.
LEMMA EmptyIs == IsSeq(<<>>) /\ Len(<<>>) = 0
BY DEF IsSeq

LEMMA EmptyWhen ==
  ASSUME NEW s, IsSeq(s), Len(s) = 0
  PROVE  s = <<>>
BY EmptyIs, SameSeq

LEMMA OneIs ==
  ASSUME NEW x
  PROVE  IsSeq(<<x>>) /\ Len(<<x>>) = 1 /\ <<x>>[1] = x
<1>1. <<x>> \in Seq({x}) /\ Len(<<x>>) = 1 /\ <<x>>[1] = x
  OBVIOUS
<1>2. Elements(<<x>>) = {x}
  BY <1>1 DEF Elements
<1> QED
  BY <1>1, <1>2 DEF IsSeq

\* One sequence after another.
LEMMA ConcatIs ==
  ASSUME NEW s, NEW t, IsSeq(s), IsSeq(t)
  PROVE  /\ IsSeq(s \o t) /\ Len(s \o t) = Len(s) + Len(t)
         /\ \A k \in 1..(Len(s) + Len(t)) : (s \o t)[k] = IF k <= Len(s) THEN s[k] ELSE t[k - Len(s)]
<1> DEFINE S == Elements(s) \cup Elements(t)
<1>1. s \in Seq(S) /\ t \in Seq(S)
  <2>1. \A k \in 1..Len(s) : s[k] \in S
    BY SeqIs DEF Elements
  <2>2. \A k \in 1..Len(t) : t[k] \in S
    BY SeqIs DEF Elements
  <2> QED
    BY <2>1, <2>2, SeqIs
<1>2. s \o t \in Seq(S) /\ Len(s \o t) = Len(s) + Len(t)
  BY <1>1
<1>3. \A k \in 1..(Len(s) + Len(t)) : (s \o t)[k] = IF k <= Len(s) THEN s[k] ELSE t[k - Len(s)]
  BY <1>1
<1>4. IsSeq(s \o t)
  <2>1. Len(s \o t) \in Nat /\ DOMAIN (s \o t) = 1..Len(s \o t)
    BY <1>2
  <2>2. s \o t = [k \in 1..Len(s \o t) |-> (s \o t)[k]]
    <3> DEFINE u == s \o t
    <3>1. u \in Seq(S)
      BY <1>2
    <3> HIDE DEF u, S
    <3>2. u = [k \in 1..Len(u) |-> u[k]]
      BY <3>1
    <3> QED
      BY <3>2 DEF u
  <2> QED
    BY <2>1, <2>2, ListIs
<1> QED
  BY <1>2, <1>3, <1>4

LEMMA EmptyConcat ==
  ASSUME NEW s, IsSeq(s)
  PROVE  <<>> \o s = s /\ s \o <<>> = s
<1>1. s \in Seq(Elements(s))
  BY DEF IsSeq
<1> QED
  BY <1>1

LEMMA ConcatAssociates ==
  ASSUME NEW a, NEW b, NEW c, IsSeq(a), IsSeq(b), IsSeq(c)
  PROVE  (a \o b) \o c = a \o (b \o c)
<1>1. IsSeq(a \o b) /\ IsSeq(b \o c) /\ IsSeq((a \o b) \o c) /\ IsSeq(a \o (b \o c))
  BY ConcatIs
<1>2. /\ Len(a \o b) = Len(a) + Len(b) /\ Len(b \o c) = Len(b) + Len(c)
      /\ Len((a \o b) \o c) = Len(a) + Len(b) + Len(c) /\ Len(a \o (b \o c)) = Len(a) + Len(b) + Len(c)
      /\ Len(a) \in Nat /\ Len(b) \in Nat /\ Len(c) \in Nat
  <2>1. Len(a) \in Nat /\ Len(b) \in Nat /\ Len(c) \in Nat
    BY SeqIs
  <2>2. /\ Len(a \o b) = Len(a) + Len(b) /\ Len(b \o c) = Len(b) + Len(c)
        /\ Len((a \o b) \o c) = Len(a \o b) + Len(c) /\ Len(a \o (b \o c)) = Len(a) + Len(b \o c)
    BY <1>1, ConcatIs
  <2> QED
    BY <2>1, <2>2
<1>3. ASSUME NEW k \in 1..(Len(a) + Len(b) + Len(c))
      PROVE  ((a \o b) \o c)[k] = (a \o (b \o c))[k]
  <2>1. ((a \o b) \o c)[k] = IF k <= Len(a) + Len(b) THEN (a \o b)[k] ELSE c[k - (Len(a) + Len(b))]
    BY <1>1, <1>2, ConcatIs
  <2>2. (a \o (b \o c))[k] = IF k <= Len(a) THEN a[k] ELSE (b \o c)[k - Len(a)]
    BY <1>1, <1>2, ConcatIs
  <2>3. k <= Len(a) + Len(b) => (a \o b)[k] = IF k <= Len(a) THEN a[k] ELSE b[k - Len(a)]
    BY <1>2, ConcatIs
  <2>4. k > Len(a) => k - Len(a) \in 1..(Len(b) + Len(c))
    BY <1>2
  <2>5. k > Len(a) => (b \o c)[k - Len(a)] = IF k - Len(a) <= Len(b) THEN b[k - Len(a)] ELSE c[k - Len(a) - Len(b)]
    BY <2>4, ConcatIs
  <2> QED
    BY <1>2, <2>1, <2>2, <2>3, <2>5
<1> QED
  BY <1>1, <1>2, <1>3, SameSeq

\* To append is to put a sequence of one after.
LEMMA AppendIs ==
  ASSUME NEW s, NEW x, IsSeq(s)
  PROVE  Append(s, x) = s \o <<x>>
<1> DEFINE S == Elements(s) \cup {x}
<1>1. s \in Seq(S)
  <2>1. \A k \in 1..Len(s) : s[k] \in S
    BY SeqIs DEF Elements
  <2> QED
    BY <2>1, SeqIs
<1>2. x \in S
  OBVIOUS
<1> HIDE DEF S
<1> QED
  BY <1>1, <1>2

\* A stretch of a sequence.
LEMMA SubSeqIs ==
  ASSUME NEW s, IsSeq(s), NEW m \in 1..(Len(s) + 1), NEW n \in (m - 1)..Len(s)
  PROVE  /\ IsSeq(SubSeq(s, m, n)) /\ Len(SubSeq(s, m, n)) = n - m + 1
         /\ \A k \in 1..(n - m + 1) : SubSeq(s, m, n)[k] = s[m + k - 1]
<1>1. s \in Seq(Elements(s)) /\ Len(s) \in Nat
  BY SeqIs DEF IsSeq
<1>2. SubSeq(s, m, n) = [k \in 1..(n - m + 1) |-> s[m + k - 1]]
  BY <1>1
<1>3. n - m + 1 \in Nat
  BY <1>1
<1> QED
  BY <1>2, <1>3, ListIs

\* What is put in front is taken off again.
LEMMA ConsIs ==
  ASSUME NEW x, NEW s, IsSeq(s)
  PROVE  <<x>> \o s # <<>> /\ Head(<<x>> \o s) = x /\ Tail(<<x>> \o s) = s
<1> DEFINE S == Elements(s) \cup {x}
<1>1. s \in Seq(S)
  <2>1. \A k \in 1..Len(s) : s[k] \in S
    BY SeqIs DEF Elements
  <2> QED
    BY <2>1, SeqIs
<1>2. x \in S
  OBVIOUS
<1> HIDE DEF S
<1> QED
  BY <1>1, <1>2

\* What happens at some number happens at a first one.
LEMMA Least ==
  ASSUME NEW G, NEW n \in Nat, n \in G
  PROVE  \E m \in 0..n : m \in G /\ \A k \in 0..(m - 1) : k \notin G
<1>1. SUFFICES ASSUME \A m \in 0..n : m \in G => \E k \in 0..(m - 1) : k \in G PROVE FALSE
  OBVIOUS
<1> DEFINE F == { m \in Nat : m <= n => m \notin G }
<1>2. ASSUME NEW m \in Nat, \A k \in 0..(m - 1) : k \in F PROVE m \in F
  <2>1. CASE m <= n /\ m \in G
    <3>1. PICK k \in 0..(m - 1) : k \in G
      BY <1>1, <2>1
    <3> QED
      BY <1>2, <2>1, <3>1
  <2> QED
    BY <2>1
<1> HIDE DEF F
<1>3. Nat \subseteq F
  BY <1>2, StrongInduction
<1> QED
  BY <1>3 DEF F

\* Halving comes to zero, and goes on from half as it would have gone on, ...
LEMMA HalvedReaches ==
  ASSUME NEW p \in Nat
  PROVE  Halved(p)[p] = 0
<1> DEFINE h == Halved(p)
           G == { n \in Nat : h[n] + n <= p \/ h[n] = 0 }
<1>1. h[0] = p /\ \A n \in Nat : h[n] \in Nat /\ h[n + 1] = h[n] \div 2
  BY HalvedIs
<1> HIDE DEF h
<1>2. 0 \in G
  BY <1>1
<1>3. ASSUME NEW n \in Nat, n \in G PROVE n + 1 \in G
  <2>1. h[n] \in Nat /\ h[n + 1] = h[n] \div 2
    BY <1>1
  <2>2. h[n] # 0 => h[n + 1] + (n + 1) <= h[n] + n
    BY <2>1
  <2>3. h[n] = 0 => h[n + 1] = 0
    BY <2>1
  <2>4. h[n + 1] \in Nat
    BY <1>1
  <2> QED
    BY <1>3, <2>1, <2>2, <2>3, <2>4
<1> HIDE DEF G
<1>4. p \in G
  BY <1>2, <1>3, Induction
<1>5. h[p] \in Nat
  BY <1>1
<1>6. h[p] = 0
  BY <1>4, <1>5 DEF G
<1> QED
  BY <1>6 DEF h

LEMMA HalvedShift ==
  ASSUME NEW p \in Nat, NEW n \in Nat
  PROVE  Halved(p)[n + 1] = Halved(p \div 2)[n]
<1> DEFINE half == p \div 2
           a == Halved(p)
           b == Halved(half)
           G == { k \in Nat : a[k + 1] = b[k] }
<1>1. half \in Nat
  OBVIOUS
<1>2. /\ a[1] = half /\ b[0] = half
      /\ \A k \in Nat : a[(k + 1) + 1] = a[k + 1] \div 2 /\ b[k + 1] = b[k] \div 2
  <2>1. a[0] = p /\ a[0 + 1] = a[0] \div 2
    BY HalvedIs
  <2>2. \A k \in Nat : a[k + 1] = a[k] \div 2
    BY HalvedIs
  <2> HIDE DEF a
  <2>3. \A k \in Nat : a[(k + 1) + 1] = a[k + 1] \div 2
    BY <2>2
  <2> HIDE DEF half
  <2>4. b[0] = half /\ \A k \in Nat : b[k + 1] = b[k] \div 2
    BY <1>1, HalvedIs
  <2> QED
    BY <2>1, <2>3, <2>4 DEF half
<1> HIDE DEF a, b, half
<1>3. 0 \in G
  BY <1>2
<1>4. ASSUME NEW k \in Nat, k \in G PROVE k + 1 \in G
  BY <1>2, <1>4
<1> HIDE DEF G
<1>5. n \in G
  BY <1>3, <1>4, Induction
<1> QED
  BY <1>5 DEF G, a, b, half

\* ... keeps the order of positions, and stays at zero.
LEMMA HalvedMonotone ==
  ASSUME NEW p \in Nat, NEW q \in Nat, p <= q, NEW n \in Nat
  PROVE  Halved(p)[n] <= Halved(q)[n]
<1> DEFINE a == Halved(p)
           b == Halved(q)
           G == { k \in Nat : a[k] <= b[k] }
<1>1. /\ a[0] = p /\ b[0] = q
      /\ \A k \in Nat : a[k] \in Nat /\ b[k] \in Nat /\ a[k + 1] = a[k] \div 2 /\ b[k + 1] = b[k] \div 2
  BY HalvedIs
<1> HIDE DEF a, b
<1>2. 0 \in G
  BY <1>1
<1>3. ASSUME NEW k \in Nat, k \in G PROVE k + 1 \in G
  <2>1. a[k] <= b[k] /\ a[k] \in Nat /\ b[k] \in Nat /\ a[k + 1] = a[k] \div 2 /\ b[k + 1] = b[k] \div 2
    BY <1>1, <1>3
  <2> QED
    BY <2>1
<1> HIDE DEF G
<1>4. n \in G
  BY <1>2, <1>3, Induction
<1> QED
  BY <1>4 DEF G, a, b

LEMMA HalvedZero ==
  ASSUME NEW p \in Nat, NEW n \in Nat, Halved(p)[n] = 0, NEW m \in Nat, n <= m
  PROVE  Halved(p)[m] = 0
<1> DEFINE h == Halved(p)
           G == { k \in Nat : n <= k => h[k] = 0 }
<1>1. h[n] = 0 /\ \A k \in Nat : h[k + 1] = h[k] \div 2
  BY HalvedIs
<1> HIDE DEF h
<1>2. 0 \in G
  BY <1>1
<1>3. ASSUME NEW k \in Nat, k \in G PROVE k + 1 \in G
  <2>1. CASE n = k + 1
    BY <1>1, <2>1
  <2>2. CASE n <= k
    <3>1. h[k] = 0 /\ h[k + 1] = h[k] \div 2
      BY <1>1, <1>3, <2>2
    <3> QED
      BY <3>1
  <2> QED
    BY <2>1, <2>2
<1> HIDE DEF G
<1>4. m \in G
  BY <1>2, <1>3, Induction
<1> QED
  BY <1>4 DEF G, h

\* The height is where halving the last position first comes to zero, ...
LEMMA HeightIs ==
  ASSUME NEW size \in Nat \ {0}
  PROVE  /\ Height(size) \in 0..(size - 1)
         /\ Halved(size - 1)[Height(size)] = 0
         /\ \A k \in 0..(Height(size) - 1) : Halved(size - 1)[k] > 0
<1> DEFINE h == Halved(size - 1)
           Root(n) == n \in 0..size /\ h[n] = 0 /\ \A k \in 0..(n - 1) : h[k] > 0
           G == { n \in Nat : h[n] = 0 }
<1>1. size - 1 \in Nat /\ \A k \in Nat : h[k] \in Nat
  BY HalvedIs
<1>2. size - 1 \in G
  BY <1>1, HalvedReaches
<1>3. PICK n \in 0..(size - 1) : n \in G /\ \A k \in 0..(n - 1) : k \notin G
  <2> HIDE DEF G
  <2> QED
    BY <1>1, <1>2, Least
<1> HIDE DEF h
<1>4. Root(n)
  BY <1>1, <1>3
<1>5. Height(size) = CHOOSE k : Root(k)
  BY DEF Height, h
<1>6. Root(Height(size))
  BY <1>4, <1>5
<1>7. Height(size) <= size - 1
  <2>1. CASE Height(size) > size - 1
    <3>1. size - 1 \in 0..(Height(size) - 1)
      BY <1>1, <1>6, <2>1
    <3>2. h[size - 1] = 0
      BY <1>2
    <3> QED
      BY <1>6, <3>1, <3>2
  <2> QED
    BY <1>6, <2>1
<1> QED
  BY <1>6, <1>7 DEF h

\* ... one more than that of the level above.
LEMMA HeightStep ==
  ASSUME NEW size \in Nat, size > 1
  PROVE  Height(size) = Height((size + 1) \div 2) + 1
<1> DEFINE half == (size + 1) \div 2
           a == Height(size)
           b == Height(half)
<1>1. half \in Nat \ {0} /\ (size - 1) \div 2 = half - 1 /\ size \in Nat \ {0} /\ size - 1 \in Nat
  OBVIOUS
<1> HIDE DEF half
<1>2. a \in Nat /\ Halved(size - 1)[a] = 0 /\ \A k \in 0..(a - 1) : Halved(size - 1)[k] > 0
  BY <1>1, HeightIs
<1>3. b \in Nat /\ Halved(half - 1)[b] = 0 /\ \A k \in 0..(b - 1) : Halved(half - 1)[k] > 0
  BY <1>1, HeightIs
<1>4. \A k \in Nat : Halved(size - 1)[k + 1] = Halved(half - 1)[k]
  BY <1>1, HalvedShift
<1>5. Halved(size - 1)[0] = size - 1
  BY <1>1, HalvedIs
<1> HIDE DEF a, b
<1>6. a # 0
  BY <1>2, <1>5
<1>7. a - 1 \in Nat /\ Halved(half - 1)[a - 1] = 0
  <2>1. a - 1 \in Nat /\ (a - 1) + 1 = a
    BY <1>2, <1>6
  <2> QED
    BY <1>2, <1>4, <2>1
<1>8. ~ (a - 1 < b)
  BY <1>3, <1>7
<1>9. ~ (b + 1 < a)
  BY <1>2, <1>3, <1>4
<1>10. a = b + 1
  BY <1>2, <1>3, <1>7, <1>8, <1>9
<1> QED
  BY <1>10 DEF a, b, half

\* The border is where halving the last position first comes to an even one, ...
LEMMA BorderIs ==
  ASSUME NEW size \in Nat \ {0}
  PROVE  /\ Border(size) \in 0..Height(size)
         /\ Halved(size - 1)[Border(size)] % 2 = 0
         /\ \A k \in 0..(Border(size) - 1) : Halved(size - 1)[k] % 2 = 1
<1> DEFINE h == Halved(size - 1)
           Last(n) == n \in 0..size /\ h[n] % 2 = 0 /\ \A k \in 0..(n - 1) : h[k] % 2 = 1
           G == { n \in Nat : h[n] % 2 = 0 }
<1>1. size - 1 \in Nat /\ \A k \in Nat : h[k] \in Nat
  BY HalvedIs
<1>2. Height(size) \in 0..(size - 1) /\ Height(size) \in G
  BY HeightIs
<1>3. PICK n \in 0..Height(size) : n \in G /\ \A k \in 0..(n - 1) : k \notin G
  <2> HIDE DEF G
  <2> QED
    BY <1>1, <1>2, Least
<1> HIDE DEF h
<1>4. Last(n)
  BY <1>1, <1>2, <1>3
<1>5. Border(size) = CHOOSE k : Last(k)
  BY DEF Border, h
<1>6. Last(Border(size))
  BY <1>4, <1>5
<1>7. Border(size) <= Height(size)
  <2>1. CASE Border(size) > Height(size)
    <3>1. Height(size) \in 0..(Border(size) - 1)
      BY <1>2, <1>6, <2>1
    <3>2. h[Height(size)] % 2 = 0
      BY <1>2
    <3> QED
      BY <1>6, <3>1, <3>2
  <2> QED
    BY <1>2, <1>6, <2>1
<1> QED
  BY <1>2, <1>6, <1>7 DEF h

LEMMA BorderOfOdd ==
  ASSUME NEW size \in Nat, size % 2 = 1
  PROVE  Border(size) = 0
<1>1. size \in Nat \ {0} /\ size - 1 \in Nat /\ (size - 1) % 2 = 0
  OBVIOUS
<1>2. Halved(size - 1)[0] = size - 1
  BY <1>1, HalvedIs
<1>3. Height(size) \in Nat
  BY <1>1, HeightIs
<1> QED
  BY <1>1, <1>2, <1>3, BorderIs

\* ... and, of an even size, one more than that of half of it.
LEMMA BorderStep ==
  ASSUME NEW size \in Nat \ {0}, size % 2 = 0
  PROVE  Border(size) = Border(size \div 2) + 1
<1> DEFINE half == size \div 2
           a == Border(size)
           b == Border(half)
<1>1. half \in Nat \ {0} /\ (size - 1) \div 2 = half - 1 /\ size - 1 \in Nat /\ (size - 1) % 2 = 1
  OBVIOUS
<1> HIDE DEF half
<1>2. a \in Nat /\ Halved(size - 1)[a] % 2 = 0 /\ \A k \in 0..(a - 1) : Halved(size - 1)[k] % 2 = 1
  <2>1. Height(size) \in Nat
    BY HeightIs
  <2> QED
    BY <2>1, BorderIs
<1>3. b \in Nat /\ Halved(half - 1)[b] % 2 = 0 /\ \A k \in 0..(b - 1) : Halved(half - 1)[k] % 2 = 1
  <2>1. Height(half) \in Nat
    BY <1>1, HeightIs
  <2> QED
    BY <1>1, <2>1, BorderIs
<1>4. \A k \in Nat : Halved(size - 1)[k + 1] = Halved(half - 1)[k]
  BY <1>1, HalvedShift
<1>5. Halved(size - 1)[0] = size - 1
  BY <1>1, HalvedIs
<1> HIDE DEF a, b
<1>6. a # 0
  BY <1>1, <1>2, <1>5
<1>7. a - 1 \in Nat /\ Halved(half - 1)[a - 1] % 2 = 0
  <2>1. a - 1 \in Nat /\ (a - 1) + 1 = a
    BY <1>2, <1>6
  <2> QED
    BY <1>2, <1>4, <2>1
<1>8. ~ (a - 1 < b)
  BY <1>3, <1>7
<1>9. ~ (b + 1 < a)
  <2>1. b + 1 < a => Halved(size - 1)[b + 1] % 2 = 1
    BY <1>2, <1>3
  <2> QED
    BY <1>3, <1>4, <2>1
<1>10. a = b + 1
  BY <1>2, <1>3, <1>7, <1>8, <1>9
<1> QED
  BY <1>10 DEF a, b, half

\* The level above, and the levels one after another.
LEMMA AboveIs ==
  ASSUME NEW s, IsSeq(s)
  PROVE  /\ IsSeq(Above(s)) /\ Len(Above(s)) = (Len(s) + 1) \div 2
         /\ \A k \in 1..((Len(s) + 1) \div 2) :
               Above(s)[k] = IF 2 * k <= Len(s) THEN NodeHash(s[2 * k - 1], s[2 * k]) ELSE s[2 * k - 1]
<1> DEFINE n == (Len(s) + 1) \div 2
           a == Above(s)
<1>1. n \in Nat
  BY SeqIs
<1>2. a = [k \in 1..n |-> IF 2 * k <= Len(s) THEN NodeHash(s[2 * k - 1], s[2 * k]) ELSE s[2 * k - 1]]
  BY DEF Above
<1> HIDE DEF n, a
<1>3. a = [k \in 1..n |-> a[k]]
  BY <1>2
<1>4. IsSeq(a) /\ Len(a) = n
  BY <1>1, <1>3, ListIs
<1> QED
  BY <1>2, <1>4 DEF n, a

LEMMA LevelsIs ==
  ASSUME NEW s
  PROVE  Levels(s)[0] = s /\ \A n \in Nat : Levels(s)[n + 1] = Above(Levels(s)[n])
<1> DEFINE Run(f, m) == f = [n \in 0..m |-> IF n = 0 THEN s ELSE Above(f[n - 1])]
           Whole(f)  == f = [n \in Nat |-> IF n = 0 THEN s ELSE Above(f[n - 1])]
<1>1. \A m \in Nat : \E f : Run(f, m)
  <2> DEFINE G == { m \in Nat : \E f : Run(f, m) }
  <2>1. 0 \in G
    <3>1. Run([n \in 0..0 |-> s], 0)
      OBVIOUS
    <3> HIDE DEF Run
    <3> QED
      BY <3>1
  <2>2. ASSUME NEW m \in Nat, m \in G PROVE m + 1 \in G
    <3>1. PICK f : Run(f, m)
      BY <2>2
    <3> DEFINE g == [n \in 0..(m + 1) |-> IF n = m + 1 THEN Above(f[m]) ELSE f[n]]
    <3>2. ASSUME NEW n \in 0..(m + 1) PROVE g[n] = IF n = 0 THEN s ELSE Above(g[n - 1])
      <4>1. CASE n = 0
        BY <3>1, <4>1
      <4>2. CASE n \in 1..m
        <5>1. n \in 0..m /\ n # m + 1 /\ n # 0 /\ n - 1 \in 0..(m + 1) /\ n - 1 # m + 1
          BY <4>2
        <5>2. g[n] = f[n] /\ g[n - 1] = f[n - 1]
          BY <5>1
        <5>3. f[n] = Above(f[n - 1])
          BY <3>1, <5>1
        <5> QED
          BY <5>1, <5>2, <5>3
      <4>3. CASE n = m + 1
        <5>1. n # 0 /\ n - 1 = m /\ m \in 0..(m + 1) /\ m # m + 1
          BY <4>3
        <5>2. g[n] = Above(f[m]) /\ g[m] = f[m]
          BY <4>3, <5>1
        <5> QED
          BY <5>1, <5>2
      <4> QED
        BY <4>1, <4>2, <4>3
    <3>3. Run(g, m + 1)
      BY <3>2
    <3> HIDE DEF Run, g
    <3> QED
      BY <3>3
  <2> HIDE DEF G
  <2>3. Nat \subseteq G
    BY <2>1, <2>2, Induction
  <2> QED
    BY <2>3 DEF G
<1>2. ASSUME NEW m \in Nat, NEW k \in Nat, NEW f, NEW g, Run(f, m), Run(g, k)
      PROVE  \A n \in Nat : n <= m /\ n <= k => f[n] = g[n]
  <2> DEFINE G == { n \in Nat : n <= m /\ n <= k => f[n] = g[n] }
  <2>1. 0 \in G
    BY <1>2
  <2>2. ASSUME NEW n \in Nat, n \in G PROVE n + 1 \in G
    <3>1. CASE n + 1 <= m /\ n + 1 <= k
      <4>1. n + 1 \in 0..m /\ n + 1 \in 0..k /\ n + 1 # 0 /\ (n + 1) - 1 = n
        BY <3>1
      <4>2. f[n] = g[n]
        BY <2>2, <3>1
      <4>3. f[n + 1] = Above(f[(n + 1) - 1]) /\ g[n + 1] = Above(g[(n + 1) - 1])
        BY <1>2, <4>1
      <4> QED
        BY <4>1, <4>2, <4>3
    <3> QED
      BY <3>1
  <2> HIDE DEF G
  <2>3. Nat \subseteq G
    BY <2>1, <2>2, Induction
  <2> QED
    BY <2>3 DEF G
<1> DEFINE run(m) == CHOOSE f : Run(f, m)
           h == [n \in Nat |-> run(n)[n]]
<1>3. \A m \in Nat : Run(run(m), m)
  <2> HIDE DEF Run
  <2> QED
    BY <1>1
<1> HIDE DEF run
<1>4. Whole(h)
  <2>1. ASSUME NEW n \in Nat PROVE h[n] = IF n = 0 THEN s ELSE Above(h[n - 1])
    <3>1. CASE n = 0
      <4>1. run(0)[0] = s
        BY <1>3
      <4> QED
        BY <3>1, <4>1
    <3>2. CASE n # 0
      <4>1. n - 1 \in Nat /\ n \in 0..n /\ n - 1 <= n
        BY <3>2
      <4>2. run(n)[n] = Above(run(n)[n - 1])
        BY <1>3, <3>2, <4>1
      <4>3. run(n)[n - 1] = run(n - 1)[n - 1]
        <5>1. Run(run(n), n) /\ Run(run(n - 1), n - 1)
          BY <1>3, <4>1
        <5> HIDE DEF Run
        <5> QED
          BY <1>2, <4>1, <5>1
      <4>4. h[n] = run(n)[n] /\ h[n - 1] = run(n - 1)[n - 1]
        BY <4>1
      <4> QED
        BY <3>2, <4>2, <4>3, <4>4
    <3> QED
      BY <3>1, <3>2
  <2> QED
    BY <2>1
<1>5. Levels(s) = CHOOSE f : Whole(f)
  BY DEF Levels
<1>6. Whole(Levels(s))
  <2> HIDE DEF Whole, h
  <2> QED
    BY <1>4, <1>5
<1> DEFINE l == Levels(s)
<1>7. Whole(l)
  BY <1>6
<1> HIDE DEF l
<1>8. l[0] = s
  BY <1>7
<1>9. ASSUME NEW n \in Nat PROVE l[n + 1] = Above(l[n])
  <2>1. n + 1 \in Nat /\ n + 1 # 0 /\ (n + 1) - 1 = n
    OBVIOUS
  <2>2. l[n + 1] = IF n + 1 = 0 THEN s ELSE Above(l[(n + 1) - 1])
    BY <1>7, <2>1
  <2> QED
    BY <2>1, <2>2
<1> QED
  BY <1>8, <1>9 DEF l

\* The levels of a tree are those of the level above it, shifted by one.
LEMMA LevelsShift ==
  ASSUME NEW s, NEW n \in Nat
  PROVE  Levels(s)[n + 1] = Levels(Above(s))[n]
<1> DEFINE a == Levels(s)
           b == Levels(Above(s))
           G == { k \in Nat : a[k + 1] = b[k] }
<1>1. a[0] = s /\ b[0] = Above(s)
  BY LevelsIs
<1>2. \A k \in Nat : a[k + 1] = Above(a[k]) /\ b[k + 1] = Above(b[k])
  BY LevelsIs
<1> HIDE DEF a, b
<1>3. 0 \in G
  BY <1>1, <1>2
<1>4. ASSUME NEW k \in Nat, k \in G PROVE k + 1 \in G
  BY <1>2, <1>4
<1> HIDE DEF G
<1>5. n \in G
  BY <1>3, <1>4, Induction
<1> QED
  BY <1>5 DEF G, a, b

\* The last position of each level.
LEMMA LevelIs ==
  ASSUME NEW s, IsSeq(s), Len(s) # 0, NEW n \in Nat
  PROVE  IsSeq(Levels(s)[n]) /\ Len(Levels(s)[n]) = Halved(Len(s) - 1)[n] + 1
<1> DEFINE l == Levels(s)
           h == Halved(Len(s) - 1)
           G == { k \in Nat : IsSeq(l[k]) /\ Len(l[k]) = h[k] + 1 }
<1>1. Len(s) - 1 \in Nat
  BY SeqIs
<1>2. h[0] = Len(s) - 1 /\ \A k \in Nat : h[k] \in Nat /\ h[k + 1] = h[k] \div 2
  BY <1>1, HalvedIs
<1>3. l[0] = s /\ \A k \in Nat : l[k + 1] = Above(l[k])
  BY LevelsIs
<1>4. 0 \in G
  <2>1. IsSeq(l[0]) /\ Len(l[0]) = h[0] + 1
    <3>1. (Len(s) - 1) + 1 = Len(s)
      BY SeqIs
    <3> HIDE DEF l, h
    <3> QED
      BY <1>2, <1>3, <3>1
  <2> HIDE DEF l, h
  <2> QED
    BY <2>1
<1> HIDE DEF l, h
<1>5. ASSUME NEW k \in Nat, k \in G PROVE k + 1 \in G
  <2>1. IsSeq(l[k]) /\ Len(l[k]) = h[k] + 1
    BY <1>5
  <2>2. IsSeq(l[k + 1]) /\ Len(l[k + 1]) = (Len(l[k]) + 1) \div 2
    BY <1>3, <2>1, AboveIs
  <2>3. ((h[k] + 1) + 1) \div 2 = (h[k] \div 2) + 1
    <3>1. h[k] \in Nat
      BY <1>2
    <3> QED
      BY <3>1
  <2>4. IsSeq(l[k + 1]) /\ Len(l[k + 1]) = h[k + 1] + 1
    BY <1>2, <2>1, <2>2, <2>3
  <2> QED
    BY <2>4
<1> HIDE DEF G
<1>6. n \in G
  BY <1>4, <1>5, Induction
<1> QED
  BY <1>6 DEF G, l, h

\* A node of the level above is the hash of its two children, or the last one, promoted.
LEMMA NodeIs ==
  ASSUME NEW s, IsSeq(s), Len(s) # 0, NEW n \in Nat, NEW k \in Nat
  PROVE  LET last == Halved(Len(s) - 1)[n]
             node == Levels(s)[n]
         IN  /\ 2 * k + 1 <= last => Levels(s)[n + 1][k + 1] = NodeHash(node[2 * k + 1], node[2 * k + 2])
             /\ 2 * k = last      => Levels(s)[n + 1][k + 1] = node[2 * k + 1]
<1> DEFINE last == Halved(Len(s) - 1)[n]
           node == Levels(s)[n]
<1>1. IsSeq(node) /\ Len(node) = last + 1 /\ last \in Nat
  <2>1. Len(s) - 1 \in Nat
    BY SeqIs
  <2> QED
    BY <2>1, LevelIs, HalvedIs
<1>2. Levels(s)[n + 1] = Above(node)
  BY LevelsIs
<1> HIDE DEF last, node
<1>3. ASSUME 2 * k + 1 <= last PROVE Above(node)[k + 1] = NodeHash(node[2 * k + 1], node[2 * k + 2])
  <2>1. k + 1 \in 1..((Len(node) + 1) \div 2) /\ 2 * (k + 1) <= Len(node)
    BY <1>1, <1>3
  <2>2. 2 * (k + 1) - 1 = 2 * k + 1 /\ 2 * (k + 1) = 2 * k + 2
    OBVIOUS
  <2> QED
    BY <1>1, <2>1, <2>2, AboveIs
<1>4. ASSUME 2 * k = last PROVE Above(node)[k + 1] = node[2 * k + 1]
  <2>1. k + 1 \in 1..((Len(node) + 1) \div 2) /\ ~ (2 * (k + 1) <= Len(node))
    BY <1>1, <1>4
  <2>2. 2 * (k + 1) - 1 = 2 * k + 1
    OBVIOUS
  <2> QED
    BY <1>1, <2>1, <2>2, AboveIs
<1> QED
  BY <1>2, <1>3, <1>4 DEF last, node

\* The root, from its level on.
LEMMA RootIs ==
  ASSUME NEW s, IsSeq(s), Len(s) # 0, NEW n \in Nat, Halved(Len(s) - 1)[n] = 0
  PROVE  Levels(s)[n] = <<BuildRoot(s)>>
<1> DEFINE top == Height(Len(s))
           l   == Levels(s)
           h   == Halved(Len(s) - 1)
           G   == { k \in Nat : top <= k => l[k] = <<BuildRoot(s)>> }
<1>1. Len(s) \in Nat \ {0} /\ Len(s) - 1 \in Nat
  BY SeqIs
<1>2. top \in Nat /\ h[top] = 0 /\ \A k \in 0..(top - 1) : h[k] > 0
  BY <1>1, HeightIs
<1>3. s # <<>>
  BY EmptyIs
<1>4. BuildRoot(s) = l[top][1]
  BY <1>3 DEF BuildRoot
<1>5. \A k \in Nat : IsSeq(l[k]) /\ Len(l[k]) = h[k] + 1 /\ l[k + 1] = Above(l[k])
  BY LevelIs, LevelsIs
<1>6. \A k \in Nat : k >= top => h[k] = 0
  BY <1>1, <1>2, HalvedZero
<1>7. h[n] = 0
  OBVIOUS
<1> HIDE DEF top, l, h
<1>8. ASSUME NEW k \in Nat, h[k] = 0 PROVE l[k] = <<l[k][1]>>
  <2> DEFINE x == l[k]
  <2>1. IsSeq(x) /\ Len(x) = h[k] + 1
    BY <1>5
  <2>2. Len(x) = 1
    BY <1>8, <2>1
  <2> HIDE DEF x
  <2>3. IsSeq(<<x[1]>>) /\ Len(<<x[1]>>) = 1 /\ <<x[1]>>[1] = x[1]
    BY OneIs
  <2>4. \A j \in 1..1 : j = 1
    OBVIOUS
  <2>5. x = <<x[1]>>
    BY <2>1, <2>2, <2>3, <2>4, SameSeq
  <2> QED
    BY <2>5 DEF x
<1>9. 0 \in G
  BY <1>2, <1>4, <1>8
<1>10. ASSUME NEW k \in Nat, k \in G PROVE k + 1 \in G
  <2>1. CASE top = k + 1
    BY <1>2, <1>4, <1>8, <2>1
  <2>2. CASE top <= k
    <3>1. l[k] = <<BuildRoot(s)>> /\ h[k + 1] = 0 /\ l[k + 1] = Above(l[k])
      <4>1. l[k] = <<BuildRoot(s)>>
        BY <1>10, <2>2
      <4>2. h[k + 1] = 0
        BY <1>2, <1>6, <2>2
      <4>3. l[k + 1] = Above(l[k])
        BY <1>5
      <4> QED
        BY <4>1, <4>2, <4>3
    <3>2. Above(<<BuildRoot(s)>>)[1] = BuildRoot(s)
      <4> DEFINE x == BuildRoot(s)
      <4> HIDE DEF x
      <4>1. IsSeq(<<x>>) /\ Len(<<x>>) = 1 /\ <<x>>[1] = x
        BY OneIs
      <4>2. Above(<<x>>)[1] = <<x>>[2 * 1 - 1]
        <5> DEFINE y == <<x>>
        <5>1. IsSeq(y) /\ Len(y) = 1
          BY <4>1
        <5> HIDE DEF y
        <5>2. (1 + 1) \div 2 = 1 /\ 1 \in 1..1 /\ ~ (2 * 1 <= 1)
          OBVIOUS
        <5>3. Above(y)[1] = y[2 * 1 - 1]
          BY <5>1, <5>2, AboveIs
        <5> QED
          BY <5>3 DEF y
      <4> QED
        BY <4>1, <4>2 DEF x
    <3>3. l[k + 1] = <<l[k + 1][1]>>
      BY <1>8, <3>1
    <3> QED
      BY <3>1, <3>2, <3>3
  <2> QED
    BY <1>2, <2>1, <2>2
<1> HIDE DEF G
<1>11. n \in G
  BY <1>9, <1>10, Induction
<1>12. top <= n
  BY <1>2, <1>7
<1> QED
  BY <1>11, <1>12 DEF G, l

---------------------------------------------------------------------------
(* Inclusion.                                                            *)

\* The steps of a proof, and those of the level above.
LEMMA StepsAtIs ==
  ASSUME NEW level, NEW position
  PROVE  /\ IsSeq(StepsAt(level, position))
         /\ position >= Paired(Len(level)) => StepsAt(level, position) = <<>>
         /\ ~ (position >= Paired(Len(level))) =>
               StepsAt(level, position) =
                 <<[sibling |-> level[IF position % 2 = 0 THEN position + 2 ELSE position],
                    isRight |-> position % 2 = 0]>>
BY EmptyIs, OneIs DEF StepsAt

LEMMA StepsIs ==
  ASSUME NEW s, NEW k \in Nat
  PROVE  /\ Steps(s, k)[0] = <<>>
         /\ \A n \in Nat : /\ IsSeq(Steps(s, k)[n])
                           /\ Steps(s, k)[n + 1] = Steps(s, k)[n] \o StepsAt(Levels(s)[n], Halved(k)[n])
<1> DEFINE at == [n \in Nat |-> StepsAt(Levels(s)[n], Halved(k)[n])]
           R  == { at[n][1] : n \in Nat }
           S  == Seq(R)
           next == [x \in Nat \X S |-> x[2] \o at[x[1]]]
           Whole(f) == f = [n \in Nat |-> IF n = 0 THEN <<>>
                                          ELSE f[n - 1] \o StepsAt(Levels(s)[n - 1], Halved(k)[n - 1])]
<1>1. ASSUME NEW n \in Nat PROVE at[n] \in S /\ IsSeq(at[n])
  <2>1. IsSeq(at[n]) /\ (at[n] = <<>> \/ \E x : at[n] = <<x>>)
    BY StepsAtIs
  <2>2. at[n][1] \in R
    OBVIOUS
  <2> DEFINE y == at[n]
  <2>3. y = <<>> \/ \E x : y = <<x>>
    BY <2>1
  <2>4. y[1] \in R
    BY <2>2
  <2> HIDE DEF R, y
  <2>5. y \in Seq(R)
    <3>1. CASE y = <<>>
      BY <3>1
    <3>2. CASE \E x : y = <<x>>
      <4>1. PICK x : y = <<x>>
        BY <3>2
      <4>2. x \in R
        BY <2>4, <4>1
      <4> QED
        BY <4>1, <4>2
    <3> QED
      BY <2>3, <3>1, <3>2
  <2> QED
    BY <2>1, <2>5 DEF y
<1>2. \A n \in Nat : at[n] = StepsAt(Levels(s)[n], Halved(k)[n])
  OBVIOUS
<1> HIDE DEF at, R
<1>3. <<>> \in S /\ next \in [Nat \X S -> S]
  BY <1>1
<1>4. PICK f : IsRun(f, S, <<>>, next)
  <2> HIDE DEF next, S
  <2> QED
    BY <1>3, Recursion
<1>5. f \in [Nat -> S] /\ f[0] = <<>> /\ \A n \in Nat : f[n + 1] = f[n] \o at[n]
  BY <1>4 DEF IsRun
<1>6. Whole(f)
  <2>1. ASSUME NEW n \in Nat, n # 0 PROVE f[n] = f[n - 1] \o at[n - 1]
    <3>1. n - 1 \in Nat /\ (n - 1) + 1 = n
      BY <2>1
    <3> QED
      BY <1>5, <3>1
  <2>2. ASSUME NEW n \in Nat, n # 0 PROVE n - 1 \in Nat
    BY <2>2
  <2> QED
    BY <1>2, <1>5, <2>1, <2>2
<1>7. Steps(s, k) = CHOOSE g : Whole(g)
  BY DEF Steps
<1>8. Whole(Steps(s, k))
  <2> HIDE DEF Whole
  <2> QED
    BY <1>6, <1>7
<1> DEFINE t == Steps(s, k)
<1>9. t[0] = <<>> /\ \A n \in Nat : t[n + 1] = t[n] \o at[n]
  <2>1. Whole(t)
    BY <1>8
  <2> HIDE DEF t
  <2>2. t[0] = <<>>
    BY <2>1
  <2>3. ASSUME NEW n \in Nat PROVE t[n + 1] = t[n] \o at[n]
    <3>1. n + 1 \in Nat /\ n + 1 # 0 /\ (n + 1) - 1 = n
      OBVIOUS
    <3>2. t[n + 1] = t[(n + 1) - 1] \o StepsAt(Levels(s)[(n + 1) - 1], Halved(k)[(n + 1) - 1])
      BY <2>1, <3>1
    <3> QED
      BY <1>2, <3>1, <3>2
  <2> QED
    BY <2>2, <2>3
<1> HIDE DEF t
<1> DEFINE G == { n \in Nat : IsSeq(t[n]) }
<1>10. 0 \in G
  BY <1>9, EmptyIs
<1>11. ASSUME NEW n \in Nat, n \in G PROVE n + 1 \in G
  <2>1. IsSeq(t[n]) /\ IsSeq(at[n]) /\ t[n + 1] = t[n] \o at[n]
    BY <1>1, <1>9, <1>11
  <2>2. IsSeq(t[n] \o at[n])
    BY <2>1, ConcatIs
  <2>3. IsSeq(t[n + 1])
    BY <2>1, <2>2, Zenon
  <2> QED
    BY <2>3
<1> HIDE DEF G
<1>12. Nat \subseteq G
  BY <1>10, <1>11, Induction
<1> QED
  BY <1>2, <1>9, <1>12 DEF G, t

LEMMA StepsShift ==
  ASSUME NEW s, NEW k \in Nat, NEW n \in Nat
  PROVE  Steps(s, k)[n + 1] = StepsAt(s, k) \o Steps(Above(s), k \div 2)[n]
<1> DEFINE a  == Steps(s, k)
           b  == Steps(Above(s), k \div 2)
           at == [i \in Nat |-> StepsAt(Levels(s)[i], Halved(k)[i])]
           G  == { i \in Nat : a[i + 1] = StepsAt(s, k) \o b[i] }
<1>1. k \div 2 \in Nat
  OBVIOUS
<1>2. a[0] = <<>> /\ \A i \in Nat : a[i + 1] = a[i] \o at[i]
  BY StepsIs
<1>3. b[0] = <<>> /\ \A i \in Nat : IsSeq(b[i]) /\ b[i + 1] = b[i] \o at[i + 1]
  <2>1. \A i \in Nat : Levels(s)[i + 1] = Levels(Above(s))[i] /\ Halved(k)[i + 1] = Halved(k \div 2)[i]
    BY LevelsShift, HalvedShift
  <2>2. \A i \in Nat : at[i + 1] = StepsAt(Levels(Above(s))[i], Halved(k \div 2)[i])
    BY <2>1
  <2> DEFINE half == k \div 2
  <2>3. half \in Nat /\ \A i \in Nat : at[i + 1] = StepsAt(Levels(Above(s))[i], Halved(half)[i])
    BY <1>1, <2>2
  <2> HIDE DEF at, half
  <2>4. /\ Steps(Above(s), half)[0] = <<>>
        /\ \A i \in Nat : /\ IsSeq(Steps(Above(s), half)[i])
                          /\ Steps(Above(s), half)[i + 1] =
                                Steps(Above(s), half)[i] \o StepsAt(Levels(Above(s))[i], Halved(half)[i])
    BY <2>3, StepsIs
  <2>5. \A i \in Nat : Steps(Above(s), half)[i + 1] = Steps(Above(s), half)[i] \o at[i + 1]
    BY <2>3, <2>4
  <2> QED
    BY <2>4, <2>5 DEF half
<1>4. at[0] = StepsAt(s, k)
  BY LevelsIs, HalvedIs
<1>5. \A i \in Nat : IsSeq(at[i])
  BY StepsAtIs
<1> HIDE DEF a, b, at
<1>6. 0 \in G
  <2>1. a[0 + 1] = <<>> \o at[0] /\ IsSeq(at[0])
    BY <1>2, <1>5
  <2>2. a[0 + 1] = at[0] /\ at[0] \o <<>> = at[0]
    BY <2>1, EmptyConcat
  <2> QED
    BY <1>3, <1>4, <2>2
<1>7. ASSUME NEW i \in Nat, i \in G PROVE i + 1 \in G
  <2> DEFINE x == at[0]
             y == b[i]
             z == at[i + 1]
  <2>1. a[i + 1] = x \o y
    BY <1>4, <1>7
  <2>2. a[(i + 1) + 1] = a[i + 1] \o z
    <3>1. i + 1 \in Nat
      OBVIOUS
    <3> QED
      BY <1>2, <3>1
  <2>3. IsSeq(x)
    BY <1>5
  <2>4. IsSeq(y) /\ b[i + 1] = y \o z
    BY <1>3
  <2>5. IsSeq(z)
    BY <1>5
  <2> HIDE DEF x, y, z
  <2>6. (x \o y) \o z = x \o (y \o z)
    <3> IsSeq(x) /\ IsSeq(y) /\ IsSeq(z)
      BY <2>3, <2>4, <2>5
    <3> HIDE DEF G
    <3> QED
      BY ConcatAssociates
  <2>7. a[(i + 1) + 1] = x \o b[i + 1]
    BY <2>1, <2>2, <2>4, <2>6
  <2> QED
    BY <1>4, <2>7 DEF x
<1> HIDE DEF G
<1>8. n \in G
  BY <1>6, <1>7, Induction
<1> QED
  BY <1>8 DEF G, a, b

\* The proof for a leaf is its step and the proof for its parent.
LEMMA ProofIs ==
  ASSUME NEW s, IsSeq(s), Len(s) # 0, NEW k \in Nat
  PROVE  /\ IsSeq(BuildProof(s, k))
         /\ Len(s) = 1 => BuildProof(s, k) = <<>>
         /\ Len(s) > 1 => BuildProof(s, k) = StepsAt(s, k) \o BuildProof(Above(s), k \div 2)
<1>1. Len(s) \in Nat \ {0}
  BY SeqIs
<1>2. Height(Len(s)) \in Nat
  BY <1>1, HeightIs
<1>3. IsSeq(BuildProof(s, k))
  BY <1>2, StepsIs DEF BuildProof
<1>4. ASSUME Len(s) = 1 PROVE BuildProof(s, k) = <<>>
  <2>1. Height(1) \in 0..(1 - 1)
    BY <1>1, <1>4, HeightIs
  <2>2. Height(Len(s)) = 0
    BY <1>4, <2>1
  <2> QED
    BY <2>2, StepsIs DEF BuildProof
<1>5. ASSUME Len(s) > 1 PROVE BuildProof(s, k) = StepsAt(s, k) \o BuildProof(Above(s), k \div 2)
  <2>1. Height(Len(s)) = Height(Len(Above(s))) + 1
    BY <1>1, <1>5, HeightStep, AboveIs
  <2>2. Len(Above(s)) \in Nat \ {0}
    BY <1>1, AboveIs
  <2>3. Height(Len(Above(s))) \in Nat
    BY <2>2, HeightIs
  <2> QED
    BY <2>1, <2>3, StepsShift DEF BuildProof
<1> QED
  BY <1>3, <1>4, <1>5

\* What the verifier of an inclusion does, level by level.
LEMMA ClimbIs ==
  ASSUME NEW leaf, NEW index, NEW proof, NEW size \in Nat \ {0}
  PROVE  LET c == Climb(leaf, index, proof, size)
         IN  /\ c[0] = [running |-> leaf, steps |-> proof, fits |-> TRUE]
             /\ \A n \in 0..(Height(size) - 1) :
                   c[n + 1] = Climbed(c[n], Halved(index)[n], Halved(size - 1)[n] + 1)
<1> DEFINE e == [running |-> leaf, steps |-> proof, fits |-> TRUE]
           next(x, n) == Climbed(x, Halved(index)[n], Halved(size - 1)[n] + 1)
           Run(f, m) == f = [n \in 0..m |-> IF n = 0 THEN e ELSE next(f[n - 1], n - 1)]
           G == { m \in Nat : \E f : Run(f, m) }
           top == Height(size)
<1>1. top \in Nat
  BY HeightIs
<1>2. Climb(leaf, index, proof, size) = CHOOSE f : Run(f, top)
  BY DEF Climb
<1> HIDE DEF top, e, next
<1>3. 0 \in G
  <2>1. Run([n \in 0..0 |-> e], 0)
    OBVIOUS
  <2> HIDE DEF Run
  <2> QED
    BY <2>1
<1>4. ASSUME NEW m \in Nat, m \in G PROVE m + 1 \in G
  <2>1. PICK f : Run(f, m)
    BY <1>4
  <2> DEFINE g == [n \in 0..(m + 1) |-> IF n = m + 1 THEN next(f[m], m) ELSE f[n]]
  <2>2. ASSUME NEW n \in 0..(m + 1) PROVE g[n] = IF n = 0 THEN e ELSE next(g[n - 1], n - 1)
    <3>1. CASE n = 0
      BY <2>1, <3>1
    <3>2. CASE n \in 1..m
      <4>1. n \in 0..m /\ n # m + 1 /\ n # 0 /\ n - 1 \in 0..(m + 1) /\ n - 1 # m + 1
        BY <3>2
      <4>2. g[n] = f[n] /\ g[n - 1] = f[n - 1]
        BY <4>1
      <4>3. f[n] = next(f[n - 1], n - 1)
        BY <2>1, <4>1
      <4> QED
        BY <4>1, <4>2, <4>3
    <3>3. CASE n = m + 1
      <4>1. n # 0 /\ n - 1 = m /\ m \in 0..(m + 1) /\ m # m + 1
        BY <3>3
      <4>2. g[n] = next(f[m], m) /\ g[m] = f[m]
        BY <3>3, <4>1
      <4> QED
        BY <4>1, <4>2
    <3> QED
      BY <3>1, <3>2, <3>3
  <2>3. Run(g, m + 1)
    BY <2>2
  <2> HIDE DEF Run, g
  <2> QED
    BY <2>3
<1> HIDE DEF G
<1>5. top \in G
  BY <1>1, <1>3, <1>4, Induction
<1> DEFINE c == Climb(leaf, index, proof, size)
<1>6. Run(c, top)
  <2> HIDE DEF Run
  <2>1. \E f : Run(f, top)
    BY <1>5 DEF G
  <2> QED
    BY <1>2, <2>1
<1> HIDE DEF c
<1>7. c[0] = e
  BY <1>1, <1>6
<1>8. ASSUME NEW n \in 0..(top - 1) PROVE c[n + 1] = next(c[n], n)
  <2>1. n + 1 \in 0..top /\ n + 1 # 0 /\ (n + 1) - 1 = n
    BY <1>1
  <2>2. c[n + 1] = next(c[(n + 1) - 1], (n + 1) - 1)
    BY <1>6, <2>1
  <2> QED
    BY <2>1, <2>2
<1> QED
  BY <1>7, <1>8 DEF top, c, e, next

\* What is below the root: the level has more than one node, and the position is on it.
LEMMA BelowRoot ==
  ASSUME NEW s, IsSeq(s), Len(s) # 0, NEW k \in 0..(Len(s) - 1), NEW n \in 0..(Height(Len(s)) - 1)
  PROVE  LET level == Levels(s)[n]
             at    == Halved(k)[n]
         IN  /\ n \in Nat /\ at \in Nat /\ IsSeq(level) /\ Len(level) \in Nat /\ Len(level) > 1
             /\ Len(level) = Halved(Len(s) - 1)[n] + 1
             /\ at < Len(level) /\ Levels(s)[n + 1] = Above(level) /\ Halved(k)[n + 1] = at \div 2
<1>1. Len(s) \in Nat \ {0} /\ k \in Nat /\ Len(s) - 1 \in Nat /\ k <= Len(s) - 1
  BY SeqIs
<1>2. Height(Len(s)) \in Nat
  BY <1>1, HeightIs
<1>3. n \in Nat
  BY <1>2
<1>4. Halved(Len(s) - 1)[n] \in Nat /\ Halved(Len(s) - 1)[n] > 0
  BY <1>1, <1>3, HeightIs, HalvedIs
<1>5. Halved(k)[n] \in Nat /\ Halved(k)[n + 1] = Halved(k)[n] \div 2
  BY <1>1, <1>3, HalvedIs
<1>6. Halved(k)[n] <= Halved(Len(s) - 1)[n]
  BY <1>1, <1>3, HalvedMonotone
<1>7. IsSeq(Levels(s)[n]) /\ Len(Levels(s)[n]) = Halved(Len(s) - 1)[n] + 1
  BY <1>3, LevelIs
<1>8. Levels(s)[n + 1] = Above(Levels(s)[n])
  BY <1>3, LevelsIs
<1> QED
  BY <1>3, <1>4, <1>5, <1>6, <1>7, <1>8

\* The node that a level's node becomes part of.
LEMMA ParentIs ==
  ASSUME NEW level, IsSeq(level), NEW at \in Nat, at < Len(level)
  PROVE  /\ at >= Paired(Len(level)) => Above(level)[(at \div 2) + 1] = level[at + 1]
         /\ ~ (at >= Paired(Len(level))) =>
               Above(level)[(at \div 2) + 1] = IF at % 2 = 0 THEN NodeHash(level[at + 1], level[at + 2])
                                                             ELSE NodeHash(level[at], level[at + 1])
<1> DEFINE k == (at \div 2) + 1
<1>1. Len(level) \in Nat
  BY SeqIs
<1>2. k \in 1..((Len(level) + 1) \div 2)
  BY <1>1
<1>3. Above(level)[k] = IF 2 * k <= Len(level) THEN NodeHash(level[2 * k - 1], level[2 * k])
                                              ELSE level[2 * k - 1]
  <2> HIDE DEF k
  <2> QED
    BY <1>2, AboveIs
<1>4. ASSUME at >= Paired(Len(level)) PROVE ~ (2 * k <= Len(level)) /\ 2 * k - 1 = at + 1
  BY <1>1, <1>4 DEF Paired
<1>5. ASSUME ~ (at >= Paired(Len(level)))
      PROVE  2 * k <= Len(level) /\ IF at % 2 = 0 THEN 2 * k = at + 2 /\ 2 * k - 1 = at + 1
                                                 ELSE 2 * k = at + 1 /\ 2 * k - 1 = at
  BY <1>1, <1>5 DEF Paired
<1> HIDE DEF k
<1>6. ASSUME at >= Paired(Len(level)) PROVE Above(level)[k] = level[at + 1]
  BY <1>3, <1>4, <1>6
<1>7. ASSUME ~ (at >= Paired(Len(level))), at % 2 = 0
      PROVE  Above(level)[k] = NodeHash(level[at + 1], level[at + 2])
  BY <1>3, <1>5, <1>7
<1>8. ASSUME ~ (at >= Paired(Len(level))), at % 2 # 0
      PROVE  Above(level)[k] = NodeHash(level[at], level[at + 1])
  BY <1>3, <1>5, <1>8
<1> QED
  BY <1>6, <1>7, <1>8 DEF k

\* One level of the climb along the proof that was built.
LEMMA ClimbStep ==
  ASSUME NEW level, IsSeq(level), Len(level) > 1, NEW at \in Nat, at < Len(level)
  PROVE  Climbed([running |-> level[at + 1], steps |-> BuildProof(level, at), fits |-> TRUE], at, Len(level))
           = [running |-> Above(level)[(at \div 2) + 1], steps |-> BuildProof(Above(level), at \div 2),
              fits |-> TRUE]
<1> DEFINE rest == BuildProof(Above(level), at \div 2)
           onLeft == at % 2 = 0
           step == [sibling |-> level[IF onLeft THEN at + 2 ELSE at], isRight |-> onLeft]
<1>1. Len(level) \in Nat /\ Paired(Len(level)) \in Nat
  BY SeqIs DEF Paired
<1>2. IsSeq(rest)
  <2>1. IsSeq(Above(level)) /\ Len(Above(level)) # 0 /\ at \div 2 \in Nat
    BY <1>1, AboveIs
  <2> QED
    BY <2>1, ProofIs
<1>3. BuildProof(level, at) = StepsAt(level, at) \o rest
  BY <1>1, ProofIs
<1>4. CASE at >= Paired(Len(level))
  <2>1. BuildProof(level, at) = rest
    <3>1. StepsAt(level, at) = <<>>
      BY <1>4, StepsAtIs
    <3>2. <<>> \o rest = rest
      BY <1>2, EmptyConcat
    <3> HIDE DEF rest
    <3> QED
      BY <1>3, <3>1, <3>2, Zenon
  <2>2. Above(level)[(at \div 2) + 1] = level[at + 1]
    BY <1>4, ParentIs
  <2> HIDE DEF rest
  <2> QED
    BY <1>4, <2>1, <2>2 DEF Climbed, rest
<1>5. CASE ~ (at >= Paired(Len(level)))
  <2>1. BuildProof(level, at) = <<step>> \o rest
    <3>1. StepsAt(level, at) = <<step>>
      BY <1>5, StepsAtIs
    <3> HIDE DEF rest, step
    <3> QED
      BY <1>3, <3>1, Zenon
  <2> DEFINE proof == BuildProof(level, at)
             c == [running |-> level[at + 1], steps |-> proof, fits |-> TRUE]
  <2>2. proof # <<>> /\ Head(proof) = step /\ Tail(proof) = rest
    <3>1. <<step>> \o rest # <<>> /\ Head(<<step>> \o rest) = step /\ Tail(<<step>> \o rest) = rest
      <4> HIDE DEF step, rest
      <4> QED
        BY <1>2, ConsIs
    <3> HIDE DEF rest, step
    <3> QED
      BY <2>1, <3>1, Zenon
  <2>3. Above(level)[(at \div 2) + 1] = IF onLeft THEN NodeHash(level[at + 1], level[at + 2])
                                                 ELSE NodeHash(level[at], level[at + 1])
    BY <1>5, ParentIs
  <2>4. Climbed(c, at, Len(level)) =
          [running |-> IF onLeft THEN NodeHash(level[at + 1], Head(proof).sibling)
                                 ELSE NodeHash(Head(proof).sibling, level[at + 1]),
           steps   |-> Tail(proof),
           fits    |-> TRUE /\ Head(proof).isRight = onLeft]
    <3> HIDE DEF proof
    <3> QED
      BY <1>5, <2>2 DEF Climbed, Side
  <2>5. step.sibling = level[IF onLeft THEN at + 2 ELSE at] /\ step.isRight = onLeft
    OBVIOUS
  <2>6. (TRUE /\ Head(proof).isRight = onLeft) = TRUE
    BY <2>2, <2>5
  <2> HIDE DEF proof, step, rest
  <2> QED
    BY <2>2, <2>3, <2>4, <2>5, <2>6 DEF proof, rest
<1> QED
  BY <1>4, <1>5

\* The proof that is built for a leaf verifies at the leaf's index.
LEMMA OwnProofVerifies ==
  ASSUME NEW s, IsSeq(s), Len(s) # 0, NEW k \in 0..(Len(s) - 1)
  PROVE  VerifyProof(s[k + 1], k, BuildProof(s, k), BuildRoot(s), Len(s))
<1> DEFINE top == Height(Len(s))
           c == Climb(s[k + 1], k, BuildProof(s, k), Len(s))
           Here(n) == [running |-> Levels(s)[n][Halved(k)[n] + 1],
                       steps |-> BuildProof(Levels(s)[n], Halved(k)[n]), fits |-> TRUE]
           G == { n \in Nat : n <= top => c[n] = Here(n) }
<1>1. Len(s) \in Nat \ {0} /\ k \in Nat
  BY SeqIs
<1>2. top \in Nat /\ Halved(Len(s) - 1)[top] = 0
  BY <1>1, HeightIs
<1>3. /\ c[0] = [running |-> s[k + 1], steps |-> BuildProof(s, k), fits |-> TRUE]
      /\ \A n \in 0..(top - 1) : c[n + 1] = Climbed(c[n], Halved(k)[n], Halved(Len(s) - 1)[n] + 1)
  BY <1>1, ClimbIs
<1>4. 0 \in G
  <2>1. Levels(s)[0] = s /\ Halved(k)[0] = k
    BY <1>1, LevelsIs, HalvedIs
  <2> QED
    BY <1>3, <2>1
<1>5. ASSUME NEW n \in Nat, n \in G PROVE n + 1 \in G
  <2>1. CASE n + 1 <= top
    <3> DEFINE level == Levels(s)[n]
               at    == Halved(k)[n]
    <3>1. n \in 0..(top - 1)
      BY <1>2, <2>1
    <3>2. /\ IsSeq(level) /\ Len(level) > 1 /\ at \in Nat /\ at < Len(level)
          /\ Len(level) = Halved(Len(s) - 1)[n] + 1
          /\ Levels(s)[n + 1] = Above(level) /\ Halved(k)[n + 1] = at \div 2
      BY <3>1, BelowRoot
    <3>3. c[n] = [running |-> level[at + 1], steps |-> BuildProof(level, at), fits |-> TRUE]
      BY <1>5, <2>1, <1>2
    <3>4. c[n + 1] = Climbed(c[n], at, Len(level))
      <4> HIDE DEF c
      <4> QED
        BY <1>3, <3>1, <3>2
    <3> HIDE DEF level, at, c, top
    <3>5. c[n + 1] = Here(n + 1)
      BY <3>2, <3>3, <3>4, ClimbStep
    <3> QED
      BY <3>5
  <2> QED
    BY <2>1
<1> HIDE DEF G
<1>6. top \in G
  BY <1>2, <1>4, <1>5, Induction
<1>7. c[top] = Here(top)
  BY <1>2, <1>6 DEF G
<1>8. Here(top) = [running |-> BuildRoot(s), steps |-> <<>>, fits |-> TRUE]
  <2>1. Levels(s)[top] = <<BuildRoot(s)>>
    BY <1>2, RootIs
  <2>2. Halved(k)[top] = 0
    <3>1. Halved(k)[top] <= Halved(Len(s) - 1)[top] /\ Halved(k)[top] \in Nat
      <4>1. Len(s) - 1 \in Nat /\ k <= Len(s) - 1
        BY <1>1
      <4> QED
        BY <1>1, <1>2, <4>1, HalvedMonotone, HalvedIs
    <3> QED
      BY <1>2, <3>1
  <2> DEFINE x == BuildRoot(s)
  <2> HIDE DEF x
  <2>3. IsSeq(<<x>>) /\ Len(<<x>>) = 1 /\ <<x>>[1] = x
    BY OneIs
  <2>4. BuildProof(<<x>>, 0) = <<>>
    <3> DEFINE y == <<x>>
    <3>1. IsSeq(y) /\ Len(y) = 1 /\ Len(y) # 0 /\ 0 \in Nat
      BY <2>3
    <3> HIDE DEF y
    <3>2. \A k_1 \in Nat : BuildProof(y, k_1) = <<>>
      BY <3>1, ProofIs
    <3>3. BuildProof(y, 0) = <<>>
      BY <3>2
    <3> QED
      BY <3>3 DEF y
  <2>5. Levels(s)[top] = <<x>>
    BY <2>1 DEF x
  <2>6. Levels(s)[top][Halved(k)[top] + 1] = x /\ BuildProof(Levels(s)[top], Halved(k)[top]) = <<>>
    <3>1. Halved(k)[top] + 1 = 1
      BY <2>2
    <3>2. <<x>>[1] = x
      BY <2>3
    <3> HIDE DEF top
    <3> QED
      BY <2>2, <2>4, <2>5, <3>1, <3>2, Zenon
  <2> HIDE DEF top
  <2> QED
    BY <2>6 DEF x
<1> HIDE DEF Here
<1> QED
  BY <1>1, <1>7, <1>8 DEF VerifyProof

\* Whatever steps a climb takes, a leaf it takes to the root is the one at the index.
LEMMA ClimbComesFromLeaf ==
  ASSUME NEW s, IsSeq(s), Len(s) # 0, NEW k \in 0..(Len(s) - 1), NEW leaf, NEW proof,
         VerifyProof(leaf, k, proof, BuildRoot(s), Len(s))
  PROVE  leaf = s[k + 1]
<1> DEFINE top == Height(Len(s))
           c == Climb(leaf, k, proof, Len(s))
           node(n) == Levels(s)[n][Halved(k)[n] + 1]
           Shape(x) == /\ x = [running |-> x.running, steps |-> x.steps, fits |-> x.fits]
                       /\ x.fits \in BOOLEAN
           G == { n \in Nat : n <= top => Shape(c[n]) }
           D == { n \in Nat : n <= top => c[top - n].fits /\ c[top - n].running = node(top - n) }
<1>1. Len(s) \in Nat \ {0} /\ k \in Nat
  BY SeqIs
<1>2. top \in Nat /\ Halved(Len(s) - 1)[top] = 0
  BY <1>1, HeightIs
<1>3. /\ c[0] = [running |-> leaf, steps |-> proof, fits |-> TRUE]
      /\ \A n \in 0..(top - 1) : c[n + 1] = Climbed(c[n], Halved(k)[n], Halved(Len(s) - 1)[n] + 1)
  BY <1>1, ClimbIs
<1>4. c[top] = [running |-> BuildRoot(s), steps |-> <<>>, fits |-> TRUE]
  BY DEF VerifyProof
<1> HIDE DEF c, top
<1>5. ASSUME NEW x, NEW at, NEW size, Shape(x)
      PROVE  /\ Shape(Climbed(x, at, size))
             /\ Climbed(x, at, size).fits => x.fits
             /\ at >= Paired(size) => Climbed(x, at, size).running = x.running
             /\ ~ (at >= Paired(size)) /\ Climbed(x, at, size).fits =>
                   \E sibling : Climbed(x, at, size).running =
                                   IF at % 2 = 0 THEN NodeHash(x.running, sibling)
                                                 ELSE NodeHash(sibling, x.running)
  <2>1. CASE at >= Paired(size)
    BY <1>5, <2>1 DEF Climbed
  <2>2. CASE ~ (at >= Paired(size)) /\ x.steps = <<>>
    <3>1. Climbed(x, at, size) = [x EXCEPT !.fits = FALSE]
      BY <2>2 DEF Climbed
    <3> QED
      BY <1>5, <2>2, <3>1
  <2>3. CASE ~ (at >= Paired(size)) /\ x.steps # <<>>
    <3> DEFINE step == Head(x.steps)
               onLeft == at % 2 = 0
    <3>1. Climbed(x, at, size) =
            [running |-> IF onLeft THEN NodeHash(x.running, step.sibling) ELSE NodeHash(step.sibling, x.running),
             steps   |-> Tail(x.steps), fits |-> x.fits /\ step.isRight = onLeft]
      BY <2>3 DEF Climbed, Side
    <3> HIDE DEF step
    <3> DEFINE fits == x.fits /\ step.isRight = onLeft
               hash == IF onLeft THEN NodeHash(x.running, step.sibling) ELSE NodeHash(step.sibling, x.running)
               y    == Climbed(x, at, size)
    <3>2. fits \in BOOLEAN /\ (fits => x.fits)
      OBVIOUS
    <3>3. \E sibling : hash = IF onLeft THEN NodeHash(x.running, sibling) ELSE NodeHash(sibling, x.running)
      OBVIOUS
    <3>4. y = [running |-> hash, steps |-> Tail(x.steps), fits |-> fits]
      BY <3>1
    <3> HIDE DEF fits, hash, y
    <3>5. y.running = hash /\ y.fits = fits /\ Shape(y)
      BY <3>2, <3>4
    <3>6. y.fits => x.fits
      BY <3>2, <3>5
    <3>7. \E sibling : y.running = IF onLeft THEN NodeHash(x.running, sibling) ELSE NodeHash(sibling, x.running)
      BY <3>3, <3>5
    <3> HIDE DEF Shape
    <3> QED
      BY <2>3, <3>5, <3>6, <3>7 DEF y
  <2> QED
    BY <2>1, <2>2, <2>3
<1>6. 0 \in G
  <2>1. Shape(c[0])
    <3> DEFINE x == c[0]
    <3>1. x = [running |-> leaf, steps |-> proof, fits |-> TRUE]
      BY <1>3
    <3> HIDE DEF x
    <3>2. Shape(x)
      BY <3>1
    <3> QED
      BY <3>2 DEF x
  <2> HIDE DEF Shape
  <2> QED
    BY <2>1
<1>7. ASSUME NEW n \in Nat, n \in G PROVE n + 1 \in G
  <2>1. CASE n + 1 <= top
    <3>1. n \in 0..(top - 1) /\ Shape(c[n])
      BY <1>2, <1>7, <2>1
    <3>2. c[n + 1] = Climbed(c[n], Halved(k)[n], Halved(Len(s) - 1)[n] + 1)
      BY <1>3, <3>1
    <3> HIDE DEF Shape
    <3> QED
      BY <1>5, <3>1, <3>2
  <2> QED
    BY <2>1
<1> HIDE DEF G
<1>8. Nat \subseteq G
  BY <1>6, <1>7, Induction
<1>9. 0 \in D
  <2>1. Levels(s)[top] = <<BuildRoot(s)>>
    BY <1>2, RootIs
  <2>2. Halved(k)[top] = 0
    <3>1. Halved(k)[top] <= Halved(Len(s) - 1)[top] /\ Halved(k)[top] \in Nat
      <4>1. Len(s) - 1 \in Nat /\ k <= Len(s) - 1
        BY <1>1
      <4> QED
        BY <1>1, <1>2, <4>1, HalvedMonotone, HalvedIs
    <3> QED
      BY <1>2, <3>1
  <2>3. node(top) = BuildRoot(s)
    BY <2>1, <2>2
  <2>4. top - 0 = top
    BY <1>2
  <2> HIDE DEF node
  <2> QED
    BY <1>4, <2>3, <2>4
<1>10. ASSUME NEW n \in Nat, n \in D PROVE n + 1 \in D
  <2>1. CASE n + 1 <= top
    <3> DEFINE m == top - (n + 1)
               level == Levels(s)[m]
               at    == Halved(k)[m]
    <3>1. m \in 0..(top - 1) /\ m \in Nat /\ m <= top /\ top - n = m + 1
      BY <1>2, <2>1
    <3>2. c[m + 1].fits /\ c[m + 1].running = node(m + 1)
      <4> HIDE DEF node, m
      <4>1. c[top - n].fits /\ c[top - n].running = node(top - n)
        BY <1>2, <1>10, <2>1
      <4> QED
        BY <3>1, <4>1
    <3> HIDE DEF m
    <3>3. /\ IsSeq(level) /\ Len(level) > 1 /\ at \in Nat /\ at < Len(level)
          /\ Len(level) = Halved(Len(s) - 1)[m] + 1
          /\ Levels(s)[m + 1] = Above(level) /\ Halved(k)[m + 1] = at \div 2
      BY <3>1, BelowRoot DEF top
    <3>4. c[m + 1] = Climbed(c[m], at, Len(level))
      BY <1>3, <3>1, <3>3
    <3>5. Shape(c[m])
      BY <1>8, <3>1 DEF G
    <3>6. node(m + 1) = Above(level)[(at \div 2) + 1]
      BY <3>3
    <3>7. c[m].fits /\ c[m].running = level[at + 1]
      <4> DEFINE x == c[m]
      <4>1. /\ Climbed(x, at, Len(level)).fits => x.fits
            /\ at >= Paired(Len(level)) => Climbed(x, at, Len(level)).running = x.running
            /\ ~ (at >= Paired(Len(level))) /\ Climbed(x, at, Len(level)).fits =>
                 \E sibling : Climbed(x, at, Len(level)).running =
                                IF at % 2 = 0 THEN NodeHash(x.running, sibling)
                                              ELSE NodeHash(sibling, x.running)
        <5> HIDE DEF Shape, level, at, x
        <5> QED
          BY <1>5, <3>5 DEF x
      <4>2. x.fits
        BY <3>2, <3>4, <4>1
      <4> HIDE DEF x, level, at, node
      <4>3. CASE at >= Paired(Len(level))
        BY <3>2, <3>3, <3>4, <3>6, <4>1, <4>2, <4>3, ParentIs DEF x
      <4>4. CASE ~ (at >= Paired(Len(level)))
        <5>1. PICK sibling : Climbed(x, at, Len(level)).running =
                                IF at % 2 = 0 THEN NodeHash(x.running, sibling)
                                              ELSE NodeHash(sibling, x.running)
          BY <3>2, <3>4, <4>1, <4>4 DEF x
        <5>2. Above(level)[(at \div 2) + 1] = IF at % 2 = 0 THEN NodeHash(level[at + 1], level[at + 2])
                                                           ELSE NodeHash(level[at], level[at + 1])
          BY <3>3, <4>4, ParentIs
        <5>3. Climbed(x, at, Len(level)).running = Above(level)[(at \div 2) + 1]
          BY <3>2, <3>4, <3>6 DEF x
        <5>4. CASE at % 2 = 0
          <6>1. NodeHash(x.running, sibling) = NodeHash(level[at + 1], level[at + 2])
            BY <5>1, <5>2, <5>3, <5>4
          <6> QED
            BY <4>2, <6>1 DEF NodeHash, x
        <5>5. CASE at % 2 # 0
          <6>1. NodeHash(sibling, x.running) = NodeHash(level[at], level[at + 1])
            BY <5>1, <5>2, <5>3, <5>5
          <6> QED
            BY <4>2, <6>1 DEF NodeHash, x
        <5> QED
          BY <5>4, <5>5
      <4> QED
        BY <4>3, <4>4
    <3> QED
      BY <3>7 DEF m
  <2> QED
    BY <2>1
<1> HIDE DEF D
<1>11. top \in D
  BY <1>2, <1>9, <1>10, Induction
<1>12. c[0].running = node(0)
  <2>1. top <= top /\ top - top = 0
    BY <1>2
  <2> HIDE DEF node
  <2> QED
    BY <1>11, <2>1 DEF D
<1>13. node(0) = s[k + 1]
  BY <1>1, LevelsIs, HalvedIs
<1> QED
  BY <1>3, <1>12, <1>13

\* Where the leaves are told apart, the proof build_proof() gives for one verifies at its
\* index and at no other.
THEOREM IncludedOnlyThere ==
  ASSUME NEW s, IsSeq(s), NEW i \in 1..Len(s), NEW j \in 1..Len(s),
         \A a, b \in 1..Len(s) : s[a] = s[b] => a = b
  PROVE  VerifyProof(s[j], i - 1, BuildProof(s, j - 1), BuildRoot(s), Len(s)) <=> i = j
<1>1. Len(s) # 0 /\ i - 1 \in 0..(Len(s) - 1) /\ j - 1 \in 0..(Len(s) - 1)
      /\ (i - 1) + 1 = i /\ (j - 1) + 1 = j
  BY SeqIs
<1>2. VerifyProof(s[j], j - 1, BuildProof(s, j - 1), BuildRoot(s), Len(s))
  BY <1>1, OwnProofVerifies
<1>3. ASSUME VerifyProof(s[j], i - 1, BuildProof(s, j - 1), BuildRoot(s), Len(s)) PROVE i = j
  <2>1. s[j] = s[i]
    BY <1>1, <1>3, ClimbComesFromLeaf
  <2> QED
    BY <2>1
<1> QED
  BY <1>2, <1>3

---------------------------------------------------------------------------
(* Consistency.                                                          *)

\* A level is determined by its length and the level above it, ...
LEMMA AboveDetermines ==
  ASSUME NEW x, NEW y, IsSeq(x), IsSeq(y), Len(x) = Len(y), Above(x) = Above(y)
  PROVE  x = y
<1>1. Len(x) \in Nat
  BY SeqIs
<1>2. ASSUME NEW k \in 1..Len(x) PROVE x[k] = y[k]
  <2> DEFINE at == k - 1
  <2>1. at \in Nat /\ at < Len(x) /\ at < Len(y) /\ at + 1 = k
    BY <1>1
  <2> HIDE DEF at
  <2>2. CASE at >= Paired(Len(x))
    BY <2>1, <2>2, ParentIs
  <2>3. CASE ~ (at >= Paired(Len(x))) /\ at % 2 = 0
    <3>1. NodeHash(x[at + 1], x[at + 2]) = NodeHash(y[at + 1], y[at + 2])
      BY <2>1, <2>3, ParentIs
    <3> QED
      BY <2>1, <3>1 DEF NodeHash
  <2>4. CASE ~ (at >= Paired(Len(x))) /\ at % 2 # 0
    <3>1. NodeHash(x[at], x[at + 1]) = NodeHash(y[at], y[at + 1])
      BY <2>1, <2>4, ParentIs
    <3> QED
      BY <2>1, <3>1 DEF NodeHash
  <2> QED
    BY <2>2, <2>3, <2>4
<1> QED
  BY <1>2, SameSeq

\* Two trees of one size and one root are over the same leaves.
LEMMA RootDetermines ==
  ASSUME NEW s, NEW t, IsSeq(s), IsSeq(t), Len(s) = Len(t), Len(s) # 0, BuildRoot(s) = BuildRoot(t)
  PROVE  s = t
<1> DEFINE top == Height(Len(s))
           a == Levels(s)
           b == Levels(t)
           D == { n \in Nat : n <= top => a[top - n] = b[top - n] }
<1>1. Len(s) \in Nat \ {0}
  BY SeqIs
<1>2. top \in Nat /\ Halved(Len(s) - 1)[top] = 0
  BY <1>1, HeightIs
<1>3. a[top] = b[top]
  BY <1>2, RootIs
<1>4. a[0] = s /\ b[0] = t
  BY LevelsIs
<1>5. ASSUME NEW n \in Nat
      PROVE  /\ IsSeq(a[n]) /\ IsSeq(b[n]) /\ Len(a[n]) = Len(b[n])
             /\ a[n + 1] = Above(a[n]) /\ b[n + 1] = Above(b[n])
  <2>1. IsSeq(a[n]) /\ Len(a[n]) = Halved(Len(s) - 1)[n] + 1
    BY LevelIs
  <2>2. IsSeq(b[n]) /\ Len(b[n]) = Halved(Len(s) - 1)[n] + 1
    <3>1. Len(t) # 0
      OBVIOUS
    <3>2. Len(b[n]) = Halved(Len(t) - 1)[n] + 1
      BY <3>1, LevelIs
    <3> QED
      BY <3>1, <3>2, LevelIs
  <2>3. a[n + 1] = Above(a[n]) /\ b[n + 1] = Above(b[n])
    BY LevelsIs
  <2> HIDE DEF a, b
  <2> QED
    BY <2>1, <2>2, <2>3
<1> HIDE DEF a, b, top
<1>6. 0 \in D
  <2>1. top - 0 = top
    BY <1>2
  <2> QED
    BY <1>3, <2>1
<1>7. ASSUME NEW n \in Nat, n \in D PROVE n + 1 \in D
  <2>1. CASE n + 1 <= top
    <3> DEFINE m == top - (n + 1)
    <3>1. m \in Nat /\ top - n = m + 1 /\ n <= top
      BY <1>2, <2>1
    <3>2. a[m + 1] = b[m + 1]
      BY <1>7, <3>1
    <3> HIDE DEF m
    <3>3. a[m] = b[m]
      <4> DEFINE x == a[m]
                 y == b[m]
      <4>1. IsSeq(x) /\ IsSeq(y) /\ Len(x) = Len(y) /\ a[m + 1] = Above(x) /\ b[m + 1] = Above(y)
        BY <1>5, <3>1
      <4> HIDE DEF x, y
      <4>2. Above(x) = Above(y)
        BY <3>2, <4>1
      <4>3. x = y
        BY <4>1, <4>2, AboveDetermines
      <4> QED
        BY <4>3 DEF x, y
    <3> QED
      BY <3>3 DEF m
  <2> QED
    BY <2>1
<1> HIDE DEF D
<1>8. top \in D
  BY <1>2, <1>6, <1>7, Induction
<1>9. top - top = 0 /\ top <= top
  BY <1>2
<1> QED
  BY <1>4, <1>8, <1>9 DEF D

\* What a log's beginning and the log have in common: every node of the beginning but the
\* last of each level, ...
LEMMA SharedNodes ==
  ASSUME NEW s, IsSeq(s), NEW m \in 1..Len(s), NEW n \in Nat, NEW k \in Nat, k < Halved(m - 1)[n]
  PROVE  Levels(SubSeq(s, 1, m))[n][k + 1] = Levels(s)[n][k + 1]
<1> DEFINE p == SubSeq(s, 1, m)
           a == Levels(p)
           b == Levels(s)
           G == { i \in Nat : \A j \in Nat : j < Halved(m - 1)[i] => a[i][j + 1] = b[i][j + 1] }
<1>1. Len(s) \in Nat /\ m \in Nat /\ m - 1 \in Nat /\ Len(s) - 1 \in Nat /\ m - 1 <= Len(s) - 1
  BY SeqIs
<1>2. IsSeq(p) /\ Len(p) = m /\ \A j \in 1..m : p[j] = s[j]
  BY <1>1, SubSeqIs
<1>3. \A i \in Nat : Halved(m - 1)[i] \in Nat /\ Halved(Len(s) - 1)[i] \in Nat
                     /\ Halved(m - 1)[i] <= Halved(Len(s) - 1)[i]
                     /\ Halved(m - 1)[i + 1] = Halved(m - 1)[i] \div 2
  BY <1>1, HalvedIs, HalvedMonotone
<1>4. a[0] = p /\ b[0] = s /\ Halved(m - 1)[0] = m - 1
  BY <1>1, LevelsIs, HalvedIs
<1>5. 0 \in G
  <2>1. \A j \in Nat : j < m - 1 => j + 1 \in 1..m
    BY <1>1
  <2> HIDE DEF a, b
  <2> QED
    BY <1>2, <1>4, <2>1
<1>6. ASSUME NEW i \in Nat, i \in G PROVE i + 1 \in G
  <2>1. ASSUME NEW j \in Nat, j < Halved(m - 1)[i + 1] PROVE a[i + 1][j + 1] = b[i + 1][j + 1]
    <3>1. 2 * j + 1 < Halved(m - 1)[i] /\ 2 * j + 1 <= Halved(Len(s) - 1)[i]
      <4> DEFINE x == Halved(m - 1)[i]
                 y == Halved(Len(s) - 1)[i]
      <4>1. x \in Nat /\ y \in Nat /\ x <= y /\ j < x \div 2
        BY <1>3, <2>1
      <4> HIDE DEF x, y
      <4>2. 2 * j + 1 < x /\ 2 * j + 1 <= y
        BY <4>1
      <4> QED
        BY <4>2 DEF x, y
    <3>2. a[i + 1][j + 1] = NodeHash(a[i][2 * j + 1], a[i][2 * j + 2])
      <4> HIDE DEF p
      <4>1. Len(p) = m /\ Len(p) # 0
        BY <1>1, <1>2
      <4>2. Halved(m - 1)[i] \in Nat
        BY <1>3
      <4>3. 2 * j + 1 <= Halved(m - 1)[i]
        BY <3>1, <4>2
      <4>4. 2 * j + 1 <= Halved(Len(p) - 1)[i]
        BY <4>1, <4>3
      <4> QED
        BY <1>2, <4>1, <4>4, NodeIs
    <3>3. b[i + 1][j + 1] = NodeHash(b[i][2 * j + 1], b[i][2 * j + 2])
      <4>1. Len(s) # 0
        BY <1>1
      <4> QED
        BY <3>1, <4>1, NodeIs
    <3>4. a[i][2 * j + 1] = b[i][2 * j + 1] /\ a[i][2 * j + 2] = b[i][2 * j + 2]
      <4>1. 2 * j \in Nat /\ 2 * j + 1 \in Nat /\ (2 * j + 1) + 1 = 2 * j + 2
        OBVIOUS
      <4>2. 2 * j < Halved(m - 1)[i]
        <5>1. Halved(m - 1)[i] \in Nat
          BY <1>3
        <5> QED
          BY <3>1, <5>1
      <4> HIDE DEF a, b
      <4> QED
        BY <1>6, <3>1, <4>1, <4>2
    <3> QED
      BY <3>2, <3>3, <3>4
  <2> HIDE DEF a, b
  <2> QED
    BY <2>1
<1> HIDE DEF G
<1>7. n \in G
  BY <1>5, <1>6, Induction
<1> QED
  BY <1>7 DEF G, a, b, p

\* ... and, up to the border, that one too.
LEMMA SharedBorder ==
  ASSUME NEW s, IsSeq(s), NEW m \in 1..Len(s), NEW n \in 0..Border(m)
  PROVE  Levels(SubSeq(s, 1, m))[n][Halved(m - 1)[n] + 1] = Levels(s)[n][Halved(m - 1)[n] + 1]
<1> DEFINE p == SubSeq(s, 1, m)
           a == Levels(p)
           b == Levels(s)
           h == Halved(m - 1)
           G == { i \in Nat : i <= Border(m) => a[i][h[i] + 1] = b[i][h[i] + 1] }
<1>1. Len(s) \in Nat \ {0} /\ m \in Nat \ {0} /\ m - 1 \in Nat /\ Len(s) - 1 \in Nat /\ m - 1 <= Len(s) - 1
  BY SeqIs
<1>2. IsSeq(p) /\ Len(p) = m /\ \A j \in 1..m : p[j] = s[j]
  BY <1>1, SubSeqIs
<1>3. \A i \in Nat : h[i] \in Nat /\ Halved(Len(s) - 1)[i] \in Nat /\ h[i] <= Halved(Len(s) - 1)[i]
                     /\ h[i + 1] = h[i] \div 2
  BY <1>1, HalvedIs, HalvedMonotone
<1>4. a[0] = p /\ b[0] = s /\ h[0] = m - 1
  BY <1>1, LevelsIs, HalvedIs
<1>5. Border(m) \in Nat /\ \A i \in 0..(Border(m) - 1) : h[i] % 2 = 1
  <2>1. Height(m) \in Nat
    BY <1>1, HeightIs
  <2> QED
    BY <1>1, <2>1, BorderIs
<1>6. 0 \in G
  <2>1. (m - 1) + 1 \in 1..m
    BY <1>1
  <2> HIDE DEF a, b, h
  <2> QED
    BY <1>2, <1>4, <2>1
<1>7. ASSUME NEW i \in Nat, i \in G PROVE i + 1 \in G
  <2>1. CASE i + 1 <= Border(m)
    <3> DEFINE j == h[i + 1]
    <3>1. j \in Nat /\ h[i] = 2 * j + 1 /\ 2 * j + 1 <= Halved(Len(s) - 1)[i]
      <4> DEFINE x == h[i]
      <4>1. x \in Nat /\ j = x \div 2 /\ x % 2 = 1 /\ x <= Halved(Len(s) - 1)[i]
        <5>1. i \in 0..(Border(m) - 1)
          BY <1>5, <2>1
        <5>2. x % 2 = 1
          BY <1>5, <5>1
        <5>3. x \in Nat /\ j = x \div 2 /\ x <= Halved(Len(s) - 1)[i]
          BY <1>3
        <5> QED
          BY <5>2, <5>3
      <4> HIDE DEF x, j
      <4>2. j \in Nat /\ x = 2 * j + 1
        BY <4>1
      <4> QED
        BY <4>1, <4>2 DEF x
    <3>2. a[i + 1][j + 1] = NodeHash(a[i][2 * j + 1], a[i][2 * j + 2])
      <4> HIDE DEF p, j
      <4>1. Len(p) = m /\ Len(p) # 0
        BY <1>1, <1>2
      <4>2. 2 * j + 1 <= Halved(m - 1)[i]
        <5>1. h[i] = 2 * j + 1 /\ j \in Nat
          BY <3>1
        <5> QED
          BY <5>1
      <4>3. 2 * j + 1 <= Halved(Len(p) - 1)[i]
        BY <4>1, <4>2
      <4> QED
        BY <1>2, <3>1, <4>1, <4>3, NodeIs
    <3>3. b[i + 1][j + 1] = NodeHash(b[i][2 * j + 1], b[i][2 * j + 2])
      <4> HIDE DEF j
      <4>1. Len(s) # 0
        BY <1>1
      <4> QED
        BY <3>1, <4>1, NodeIs
    <3>4. a[i][2 * j + 1] = b[i][2 * j + 1]
      <4>1. 2 * j \in Nat /\ 2 * j < Halved(m - 1)[i]
        <5> HIDE DEF j
        <5> QED
          BY <3>1
      <4> HIDE DEF j
      <4> QED
        BY <4>1, SharedNodes
    <3>5. a[i][2 * j + 2] = b[i][2 * j + 2]
      <4>1. a[i][h[i] + 1] = b[i][h[i] + 1]
        BY <1>5, <1>7, <2>1
      <4>2. h[i] + 1 = 2 * j + 2
        <5> HIDE DEF j
        <5> QED
          BY <3>1
      <4> HIDE DEF a, b, h, j
      <4> QED
        BY <4>1, <4>2
    <3>6. a[i + 1][j + 1] = b[i + 1][j + 1]
      BY <3>2, <3>3, <3>4, <3>5
    <3> HIDE DEF a, b
    <3> QED
      BY <3>6
  <2> QED
    BY <2>1
<1> HIDE DEF G
<1>8. n \in G
  BY <1>5, <1>6, <1>7, Induction
<1>9. n <= Border(m)
  BY <1>5
<1> QED
  BY <1>8, <1>9 DEF G, a, b, p, h

\* The nodes beside the way from a position up, without the sides they are on.
Siblings(level, at) == [k \in 1..Len(BuildProof(level, at)) |-> BuildProof(level, at)[k].sibling]

\* They are the sibling of the position and those of its parent.
LEMMA SiblingsAre ==
  ASSUME NEW level, IsSeq(level), Len(level) # 0, NEW at \in Nat
  PROVE  /\ IsSeq(Siblings(level, at))
         /\ Len(level) = 1 => Siblings(level, at) = <<>>
         /\ Len(level) > 1 /\ at >= Paired(Len(level)) =>
               Siblings(level, at) = Siblings(Above(level), at \div 2)
         /\ Len(level) > 1 /\ ~ (at >= Paired(Len(level))) =>
               Siblings(level, at) = <<level[IF at % 2 = 0 THEN at + 2 ELSE at]>>
                                       \o Siblings(Above(level), at \div 2)
<1> DEFINE proof == BuildProof(level, at)
           rest  == BuildProof(Above(level), at \div 2)
           up    == Siblings(Above(level), at \div 2)
           x     == level[IF at % 2 = 0 THEN at + 2 ELSE at]
           step  == [sibling |-> x, isRight |-> at % 2 = 0]
<1>1. Len(level) \in Nat /\ IsSeq(Above(level)) /\ Len(Above(level)) # 0 /\ at \div 2 \in Nat
  BY SeqIs, AboveIs
<1>2. IsSeq(proof) /\ IsSeq(rest)
  BY <1>1, ProofIs
<1>3. IsSeq(Siblings(level, at)) /\ Len(Siblings(level, at)) = Len(proof)
  <2>1. Len(proof) \in Nat
    BY <1>2, SeqIs
  <2>2. Siblings(level, at) = [k \in 1..Len(proof) |-> Siblings(level, at)[k]]
    BY DEF Siblings
  <2> QED
    BY <2>1, <2>2, ListIs
<1>4. IsSeq(up) /\ Len(up) = Len(rest) /\ \A k \in 1..Len(rest) : up[k] = rest[k].sibling
  <2>1. Len(rest) \in Nat
    BY <1>2, SeqIs
  <2>2. up = [k \in 1..Len(rest) |-> up[k]] /\ \A k \in 1..Len(rest) : up[k] = rest[k].sibling
    BY DEF Siblings
  <2> HIDE DEF up, rest
  <2> QED
    BY <2>1, <2>2, ListIs
<1>5. ASSUME Len(level) = 1 PROVE Siblings(level, at) = <<>>
  <2>1. Len(proof) = 0
    BY <1>5, ProofIs, EmptyIs
  <2> QED
    BY <1>3, <2>1, EmptyWhen
<1>6. ASSUME Len(level) > 1, at >= Paired(Len(level)) PROVE Siblings(level, at) = up
  <2>1. proof = rest
    <3>1. proof = StepsAt(level, at) \o rest
      BY <1>6, ProofIs
    <3>2. StepsAt(level, at) = <<>>
      BY <1>6, StepsAtIs
    <3>3. <<>> \o rest = rest
      BY <1>2, EmptyConcat
    <3> HIDE DEF rest, proof
    <3> QED
      BY <3>1, <3>2, <3>3, Zenon
  <2> QED
    BY <2>1 DEF Siblings
<1>7. ASSUME Len(level) > 1, ~ (at >= Paired(Len(level))) PROVE Siblings(level, at) = <<x>> \o up
  <2>1. proof = <<step>> \o rest
    <3>1. proof = StepsAt(level, at) \o rest
      BY <1>7, ProofIs
    <3>2. StepsAt(level, at) = <<step>>
      BY <1>7, StepsAtIs
    <3> HIDE DEF rest, proof, step
    <3> QED
      BY <3>1, <3>2, Zenon
  <2>2. Len(<<step>> \o rest) = 1 + Len(rest)
        /\ \A k \in 1..(1 + Len(rest)) : (<<step>> \o rest)[k] = IF k <= 1 THEN <<step>>[k] ELSE rest[k - 1]
    <3> HIDE DEF rest, step
    <3>1. IsSeq(<<step>>) /\ Len(<<step>>) = 1
      BY OneIs
    <3> DEFINE one == <<step>>
    <3>2. IsSeq(one) /\ Len(one) = 1
      BY <3>1
    <3> HIDE DEF one
    <3>3. /\ Len(one \o rest) = 1 + Len(rest)
          /\ \A k \in 1..(1 + Len(rest)) : (one \o rest)[k] = IF k <= 1 THEN one[k] ELSE rest[k - 1]
      BY <1>2, <3>2, ConcatIs
    <3> QED
      BY <3>3 DEF one
  <2>3. /\ IsSeq(<<x>> \o up) /\ Len(<<x>> \o up) = 1 + Len(up)
        /\ \A k \in 1..(1 + Len(up)) : (<<x>> \o up)[k] = IF k <= 1 THEN <<x>>[k] ELSE up[k - 1]
    <3> HIDE DEF up, x
    <3> DEFINE one == <<x>>
    <3>1. IsSeq(one) /\ Len(one) = 1 /\ IsSeq(up)
      BY <1>4, OneIs
    <3> HIDE DEF one
    <3>2. /\ IsSeq(one \o up) /\ Len(one \o up) = 1 + Len(up)
          /\ \A k \in 1..(1 + Len(up)) : (one \o up)[k] = IF k <= 1 THEN one[k] ELSE up[k - 1]
      BY <3>1, ConcatIs
    <3> QED
      BY <3>2 DEF one
  <2>4. Len(rest) \in Nat
    BY <1>2, SeqIs
  <2>5. Len(proof) = 1 + Len(rest)
        /\ \A k \in 1..(1 + Len(rest)) : proof[k] = IF k <= 1 THEN <<step>>[k] ELSE rest[k - 1]
    <3> HIDE DEF proof, rest, step
    <3> QED
      BY <2>1, <2>2
  <2>6. step.sibling = x
    OBVIOUS
  <2>7. \A k \in 1..(1 + Len(rest)) : Siblings(level, at)[k] = proof[k].sibling
    BY <2>5 DEF Siblings
  <2>8. ASSUME NEW k \in 1..(1 + Len(rest)) PROVE Siblings(level, at)[k] = (<<x>> \o up)[k]
    <3> HIDE DEF step, rest, up, proof, x
    <3>1. CASE k = 1
      <4>1. proof[k] = step /\ (<<x>> \o up)[k] = x
        BY <1>4, <2>3, <2>5, <3>1
      <4> QED
        BY <2>6, <2>7, <4>1
    <3>2. CASE k # 1
      <4>1. k - 1 \in 1..Len(rest) /\ ~ (k <= 1)
        BY <2>4, <3>2
      <4>2. proof[k] = rest[k - 1] /\ (<<x>> \o up)[k] = up[k - 1]
        BY <1>4, <2>3, <2>5, <4>1
      <4> QED
        BY <1>4, <2>7, <4>1, <4>2
    <3> QED
      BY <3>1, <3>2
  <2> HIDE DEF up, x, rest, proof
  <2> DEFINE u == <<x>> \o up
             v == Siblings(level, at)
  <2>9. IsSeq(u) /\ IsSeq(v) /\ Len(v) = Len(u) /\ \A k \in 1..Len(v) : v[k] = u[k]
    BY <1>3, <1>4, <2>3, <2>5, <2>8
  <2> HIDE DEF u, v
  <2>10. v = u
    BY <2>9, SameSeq
  <2> QED
    BY <2>10 DEF u, v
<1> QED
  BY <1>3, <1>5, <1>6, <1>7

\* What the verifier of a consistency does, level by level from the border up.
LEMMA RebuildIs ==
  ASSUME NEW start, NEW oldSize \in Nat \ {0}, NEW newSize \in Nat \ {0}, oldSize <= newSize
  PROVE  LET r == Rebuild(start, oldSize, newSize)
         IN  /\ r[Border(oldSize)] = start
             /\ \A n \in Border(oldSize)..(Height(newSize) - 1) :
                   r[n + 1] = Rebuilt(r[n], Halved(oldSize - 1)[n], Halved(newSize - 1)[n])
             /\ Border(oldSize) \in 0..Height(newSize)
<1> DEFINE b == Border(oldSize)
           next(x, n) == Rebuilt(x, Halved(oldSize - 1)[n], Halved(newSize - 1)[n])
           Run(f, m) == f = [n \in 0..m |-> IF n <= b THEN start ELSE next(f[n - 1], n - 1)]
           G == { m \in Nat : \E f : Run(f, m) }
           top == Height(newSize)
<1>1. top \in Nat /\ b \in 0..top
  <2>1. oldSize - 1 \in Nat /\ newSize - 1 \in Nat /\ oldSize - 1 <= newSize - 1
    OBVIOUS
  <2>2. top \in Nat /\ Halved(newSize - 1)[top] = 0
    BY HeightIs
  <2>3. Halved(oldSize - 1)[top] = 0
    <3>1. Halved(oldSize - 1)[top] <= Halved(newSize - 1)[top] /\ Halved(oldSize - 1)[top] \in Nat
      BY <2>1, <2>2, HalvedMonotone, HalvedIs
    <3> QED
      BY <2>2, <3>1
  <2>4. Height(oldSize) \in Nat /\ \A k \in 0..(Height(oldSize) - 1) : Halved(oldSize - 1)[k] > 0
    BY HeightIs
  <2>5. b \in 0..Height(oldSize)
    BY BorderIs
  <2> HIDE DEF b, top
  <2>6. Height(oldSize) <= top
    BY <2>2, <2>3, <2>4
  <2> QED
    BY <2>2, <2>4, <2>5, <2>6
<1>2. Rebuild(start, oldSize, newSize) = CHOOSE f : Run(f, top)
  BY DEF Rebuild
<1> HIDE DEF top, next, b
<1>3. 0 \in G
  <2>1. Run([n \in 0..0 |-> start], 0)
    BY <1>1
  <2> HIDE DEF Run
  <2> QED
    BY <2>1
<1>4. ASSUME NEW m \in Nat, m \in G PROVE m + 1 \in G
  <2>1. PICK f : Run(f, m)
    BY <1>4
  <2> DEFINE last == IF m + 1 <= b THEN start ELSE next(f[m], m)
             g == [n \in 0..(m + 1) |-> IF n = m + 1 THEN last ELSE f[n]]
  <2>2. ASSUME NEW n \in 0..(m + 1) PROVE g[n] = IF n <= b THEN start ELSE next(g[n - 1], n - 1)
    <3>1. CASE n = 0
      BY <1>1, <2>1, <3>1
    <3>2. CASE n \in 1..m
      <4>1. n \in 0..m /\ n # m + 1 /\ n # 0 /\ n - 1 \in 0..(m + 1) /\ n - 1 # m + 1
        BY <3>2
      <4>2. g[n] = f[n] /\ g[n - 1] = f[n - 1]
        BY <4>1
      <4>3. f[n] = IF n <= b THEN start ELSE next(f[n - 1], n - 1)
        BY <2>1, <4>1
      <4> QED
        BY <4>1, <4>2, <4>3
    <3>3. CASE n = m + 1
      <4>1. n # 0 /\ n - 1 = m /\ m \in 0..(m + 1) /\ m # m + 1
        BY <3>3
      <4>2. g[n] = last /\ g[m] = f[m]
        BY <3>3, <4>1
      <4> HIDE DEF g
      <4> QED
        BY <3>3, <4>1, <4>2
    <3> QED
      BY <3>1, <3>2, <3>3
  <2>3. Run(g, m + 1)
    <3> HIDE DEF last
    <3> QED
      BY <2>2
  <2> HIDE DEF Run, g
  <2> QED
    BY <2>3
<1> HIDE DEF G
<1>5. top \in G
  BY <1>1, <1>3, <1>4, Induction
<1> DEFINE c == Rebuild(start, oldSize, newSize)
<1>6. Run(c, top)
  <2> HIDE DEF Run
  <2>1. \E f : Run(f, top)
    BY <1>5 DEF G
  <2> QED
    BY <1>2, <2>1
<1> HIDE DEF c
<1>7. c[b] = start
  BY <1>1, <1>6
<1>8. ASSUME NEW n \in b..(top - 1) PROVE c[n + 1] = next(c[n], n)
  <2>1. n + 1 \in 0..top /\ ~ (n + 1 <= b) /\ (n + 1) - 1 = n
    BY <1>1
  <2>2. c[n + 1] = next(c[(n + 1) - 1], (n + 1) - 1)
    BY <1>6, <2>1
  <2> QED
    BY <2>1, <2>2
<1> QED
  BY <1>1, <1>7, <1>8 DEF top, c, next, b

\* One level of the rebuilding, with the siblings that were built.
LEMMA RebuiltStep ==
  ASSUME NEW level, IsSeq(level), Len(level) > 1, NEW at \in Nat, at < Len(level), NEW o, NEW w
  PROVE  Rebuilt([old |-> o, new |-> w, fits |-> TRUE, nodes |-> Siblings(level, at)], at, Len(level) - 1)
           = [old   |-> IF at % 2 = 1 THEN NodeHash(level[at], o) ELSE o,
              new   |-> IF at >= Paired(Len(level)) THEN w
                        ELSE IF at % 2 = 1 THEN NodeHash(level[at], w) ELSE NodeHash(w, level[at + 2]),
              fits  |-> TRUE,
              nodes |-> Siblings(Above(level), at \div 2)]
<1> DEFINE nodes == Siblings(level, at)
           up    == Siblings(Above(level), at \div 2)
           x     == level[IF at % 2 = 0 THEN at + 2 ELSE at]
           c     == [old |-> o, new |-> w, fits |-> TRUE, nodes |-> nodes]
           done  == [old   |-> IF at % 2 = 1 THEN NodeHash(level[at], o) ELSE o,
                     new   |-> IF at >= Paired(Len(level)) THEN w
                               ELSE IF at % 2 = 1 THEN NodeHash(level[at], w) ELSE NodeHash(w, level[at + 2]),
                     fits  |-> TRUE,
                     nodes |-> up]
<1>1. Len(level) \in Nat /\ Len(level) # 0 /\ IsSeq(up)
  <2>1. Len(level) \in Nat /\ IsSeq(Above(level)) /\ Len(Above(level)) # 0 /\ at \div 2 \in Nat
    BY SeqIs, AboveIs
  <2> DEFINE y == Above(level)
             k == at \div 2
  <2>2. IsSeq(y) /\ Len(y) # 0 /\ k \in Nat
    BY <2>1
  <2> HIDE DEF y, k
  <2>3. IsSeq(Siblings(y, k))
    BY <2>2, SiblingsAre
  <2> QED
    BY <2>1, <2>3 DEF y, k
<1>2. at >= Paired(Len(level)) <=> at % 2 = 0 /\ at >= Len(level) - 1
  BY <1>1 DEF Paired
<1>3. at % 2 = 0 \/ at % 2 = 1
  OBVIOUS
<1>4. ASSUME at >= Paired(Len(level)) PROVE Rebuilt(c, at, Len(level) - 1) = done
  <2>1. nodes = up
    BY <1>1, <1>4, SiblingsAre
  <2> HIDE DEF nodes, up
  <2>2. Rebuilt(c, at, Len(level) - 1) = c
    BY <1>2, <1>4 DEF Rebuilt
  <2>3. at % 2 = 0 /\ ~ (at % 2 = 1)
    BY <1>2, <1>4
  <2>4. done = [old |-> o, new |-> w, fits |-> TRUE, nodes |-> up]
    BY <1>4, <2>3
  <2>5. c = [old |-> o, new |-> w, fits |-> TRUE, nodes |-> up]
    BY <2>1
  <2> HIDE DEF c, done
  <2> QED
    BY <2>2, <2>4, <2>5, Zenon
<1>5. ASSUME ~ (at >= Paired(Len(level))) PROVE Rebuilt(c, at, Len(level) - 1) = done
  <2>1. nodes = <<x>> \o up
    BY <1>1, <1>5, SiblingsAre
  <2>2. nodes # <<>> /\ Head(nodes) = x /\ Tail(nodes) = up
    <3>1. <<x>> \o up # <<>> /\ Head(<<x>> \o up) = x /\ Tail(<<x>> \o up) = up
      <4> HIDE DEF x, up
      <4> QED
        BY <1>1, ConsIs
    <3> HIDE DEF x, up, nodes
    <3> QED
      BY <2>1, <3>1, Zenon
  <2> HIDE DEF nodes, up
  <2>3. CASE at % 2 = 1
    <3>1. Rebuilt(c, at, Len(level) - 1) =
             [c EXCEPT !.old = NodeHash(Head(nodes), o), !.new = NodeHash(Head(nodes), w), !.nodes = Tail(nodes)]
      BY <1>2, <1>5, <2>2, <2>3 DEF Rebuilt
    <3>2. x = level[at]
      BY <2>3
    <3> HIDE DEF x
    <3> QED
      BY <1>5, <2>2, <2>3, <3>1, <3>2
  <2>4. CASE at % 2 = 0
    <3>1. Rebuilt(c, at, Len(level) - 1) = [c EXCEPT !.new = NodeHash(w, Head(nodes)), !.nodes = Tail(nodes)]
      BY <1>2, <1>5, <2>2, <2>4 DEF Rebuilt
    <3>2. x = level[at + 2] /\ ~ (at % 2 = 1)
      BY <2>4
    <3>3. done = [old |-> o, new |-> NodeHash(w, level[at + 2]), fits |-> TRUE, nodes |-> up]
      BY <1>5, <3>2
    <3> HIDE DEF x, done
    <3> QED
      BY <2>2, <3>1, <3>2, <3>3
  <2> QED
    BY <1>3, <2>3, <2>4
<1>6. Rebuilt(c, at, Len(level) - 1) = done
  BY <1>4, <1>5
<1> QED
  BY <1>6

\* The level of the root, seen from the beginning of the log.
LEMMA PrefixIs ==
  ASSUME NEW s, IsSeq(s), NEW m \in 1..(Len(s) - 1)
  PROVE  /\ Len(s) \in Nat \ {0} /\ m \in Nat \ {0} /\ m \in 1..Len(s) /\ m - 1 \in 0..(Len(s) - 1)
         /\ m - 1 \in Nat /\ m <= Len(s)
         /\ IsSeq(SubSeq(s, 1, m)) /\ Len(SubSeq(s, 1, m)) = m
         /\ Border(m) \in Nat /\ Height(Len(s)) \in Nat /\ Border(m) <= Height(Len(s))
         /\ Halved(m - 1)[Height(Len(s))] = 0
         /\ Levels(SubSeq(s, 1, m))[Height(Len(s))] = <<BuildRoot(SubSeq(s, 1, m))>>
         /\ Levels(s)[Height(Len(s))] = <<BuildRoot(s)>>
<1> DEFINE p == SubSeq(s, 1, m)
           top == Height(Len(s))
<1>1. /\ Len(s) \in Nat \ {0} /\ m \in Nat \ {0} /\ m \in 1..Len(s) /\ m - 1 \in 0..(Len(s) - 1)
      /\ m - 1 \in Nat /\ m <= Len(s) /\ Len(s) - 1 \in Nat /\ m - 1 <= Len(s) - 1
  BY SeqIs
<1>2. IsSeq(p) /\ Len(p) = m
  BY <1>1, SubSeqIs
<1>3. top \in Nat /\ Halved(Len(s) - 1)[top] = 0
  BY <1>1, HeightIs
<1>4. Halved(m - 1)[top] = 0
  <2>1. Halved(m - 1)[top] <= Halved(Len(s) - 1)[top] /\ Halved(m - 1)[top] \in Nat
    BY <1>1, <1>3, HalvedMonotone, HalvedIs
  <2> QED
    BY <1>3, <2>1
<1>5. Border(m) \in Nat /\ Border(m) <= top
  <2>1. Border(m) \in 0..top
    BY <1>1, RebuildIs
  <2> QED
    BY <1>3, <2>1
<1>6. Levels(s)[top] = <<BuildRoot(s)>>
  BY <1>1, <1>3, RootIs
<1>7. Levels(p)[top] = <<BuildRoot(p)>>
  <2>1. Len(p) # 0 /\ Halved(Len(p) - 1)[top] = 0
    BY <1>1, <1>2, <1>4
  <2> HIDE DEF p, top
  <2> QED
    BY <1>2, <1>3, <2>1, RootIs
<1> QED
  BY <1>1, <1>2, <1>3, <1>4, <1>5, <1>6, <1>7

\* One level of the rebuilding, from whatever stands for the two nodes of the level below.
LEMMA RebuiltAbove ==
  ASSUME NEW s, IsSeq(s), NEW m \in 1..(Len(s) - 1), NEW start,
         NEW n \in Border(m)..(Height(Len(s)) - 1), NEW o, NEW w,
         Rebuild(start, m, Len(s))[n] =
            [old |-> o, new |-> w, fits |-> TRUE, nodes |-> Siblings(Levels(s)[n], Halved(m - 1)[n])]
  PROVE  LET level == Levels(s)[n]
             at    == Halved(m - 1)[n]
         IN  Rebuild(start, m, Len(s))[n + 1] =
               [old   |-> IF at % 2 = 1 THEN NodeHash(level[at], o) ELSE o,
                new   |-> IF at >= Paired(Len(level)) THEN w
                          ELSE IF at % 2 = 1 THEN NodeHash(level[at], w) ELSE NodeHash(w, level[at + 2]),
                fits  |-> TRUE,
                nodes |-> Siblings(Levels(s)[n + 1], Halved(m - 1)[n + 1])]
<1> DEFINE level == Levels(s)[n]
           at    == Halved(m - 1)[n]
           r     == Rebuild(start, m, Len(s))
<1>1. /\ Len(s) \in Nat \ {0} /\ m \in Nat \ {0} /\ m <= Len(s) /\ m - 1 \in 0..(Len(s) - 1)
      /\ Border(m) \in Nat /\ Height(Len(s)) \in Nat
  BY PrefixIs
<1>2. n \in 0..(Height(Len(s)) - 1)
  BY <1>1
<1>3. /\ IsSeq(level) /\ Len(level) > 1 /\ Len(level) \in Nat /\ at \in Nat /\ at < Len(level)
      /\ Len(level) = Halved(Len(s) - 1)[n] + 1
      /\ Levels(s)[n + 1] = Above(level) /\ Halved(m - 1)[n + 1] = at \div 2
  BY <1>1, <1>2, BelowRoot
<1>4. r[n + 1] = Rebuilt(r[n], Halved(m - 1)[n], Halved(Len(s) - 1)[n])
  BY <1>1, RebuildIs
<1>5. Halved(Len(s) - 1)[n] = Len(level) - 1
  <2>1. Len(s) - 1 \in Nat /\ n \in Nat
    BY <1>1, <1>2
  <2>2. Halved(Len(s) - 1)[n] \in Nat
    BY <2>1, HalvedIs
  <2> QED
    BY <1>3, <2>2
<1>6. r[n + 1] = Rebuilt([old |-> o, new |-> w, fits |-> TRUE, nodes |-> Siblings(level, at)], at, Len(level) - 1)
  BY <1>4, <1>5
<1> HIDE DEF r, level, at
<1>7. r[n + 1] = [old   |-> IF at % 2 = 1 THEN NodeHash(level[at], o) ELSE o,
                  new   |-> IF at >= Paired(Len(level)) THEN w
                            ELSE IF at % 2 = 1 THEN NodeHash(level[at], w) ELSE NodeHash(w, level[at + 2]),
                  fits  |-> TRUE,
                  nodes |-> Siblings(Above(level), at \div 2)]
  BY <1>3, <1>6, RebuiltStep
<1>8. Siblings(Above(level), at \div 2) = Siblings(Levels(s)[n + 1], Halved(m - 1)[n + 1])
  BY <1>3
<1> QED
  BY <1>7, <1>8 DEF r, level, at

\* From the shared node at the border, both roots are rebuilt.
LEMMA RebuiltFromBorder ==
  ASSUME NEW s, IsSeq(s), NEW m \in 1..(Len(s) - 1), NEW start,
         start = LET b    == Border(m)
                     node == Levels(s)[b][Halved(m - 1)[b] + 1]
                 IN  [old |-> node, new |-> node, fits |-> TRUE,
                      nodes |-> Siblings(Levels(s)[b], Halved(m - 1)[b])]
  PROVE  Rebuild(start, m, Len(s))[Height(Len(s))] =
            [old |-> BuildRoot(SubSeq(s, 1, m)), new |-> BuildRoot(s), fits |-> TRUE, nodes |-> <<>>]
<1> DEFINE p == SubSeq(s, 1, m)
           top == Height(Len(s))
           b == Border(m)
           h == Halved(m - 1)
           a == Levels(p)
           l == Levels(s)
           r == Rebuild(start, m, Len(s))
           Here(n) == [old |-> a[n][h[n] + 1], new |-> l[n][h[n] + 1], fits |-> TRUE, nodes |-> Siblings(l[n], h[n])]
           G == { n \in Nat : b <= n /\ n <= top => r[n] = Here(n) }
<1>1. /\ Len(s) \in Nat \ {0} /\ m \in Nat \ {0} /\ m \in 1..Len(s) /\ m - 1 \in 0..(Len(s) - 1) /\ m - 1 \in Nat
      /\ m <= Len(s) /\ IsSeq(p) /\ Len(p) = m /\ b \in Nat /\ top \in Nat /\ b <= top /\ h[top] = 0
      /\ a[top] = <<BuildRoot(p)>> /\ l[top] = <<BuildRoot(s)>>
  BY PrefixIs
<1>2. r[b] = Here(b)
  <2>1. r[b] = start
    BY <1>1, RebuildIs
  <2>2. b \in 0..Border(m)
    BY <1>1
  <2>3. a[b][h[b] + 1] = l[b][h[b] + 1]
    BY <1>1, <2>2, SharedBorder
  <2> HIDE DEF r
  <2> QED
    BY <2>1, <2>3
<1>3. ASSUME NEW n \in b..(top - 1), r[n] = Here(n) PROVE r[n + 1] = Here(n + 1)
  <2> DEFINE level == l[n]
             at    == h[n]
             old   == a[n]
  <2>1. n \in Nat /\ n \in 0..(top - 1)
    BY <1>1
  <2>2. /\ IsSeq(level) /\ Len(level) > 1 /\ Len(level) \in Nat /\ at \in Nat /\ at < Len(level)
        /\ l[n + 1] = Above(level) /\ h[n + 1] = at \div 2
    BY <1>1, <2>1, BelowRoot
  <2>3. IsSeq(old) /\ Len(old) = at + 1 /\ a[n + 1] = Above(old)
    <3>1. Len(p) # 0 /\ Len(p) - 1 = m - 1
      BY <1>1
    <3> HIDE DEF p
    <3>2. IsSeq(old) /\ Len(old) = Halved(Len(p) - 1)[n] + 1
      BY <1>1, <2>1, <3>1, LevelIs
    <3>3. a[n + 1] = Above(old)
      BY <2>1, LevelsIs
    <3> QED
      BY <3>1, <3>2, <3>3
  <2>4. r[n + 1] = [old   |-> IF at % 2 = 1 THEN NodeHash(level[at], old[at + 1]) ELSE old[at + 1],
                    new   |-> IF at >= Paired(Len(level)) THEN level[at + 1]
                              ELSE IF at % 2 = 1 THEN NodeHash(level[at], level[at + 1])
                                                 ELSE NodeHash(level[at + 1], level[at + 2]),
                    fits  |-> TRUE,
                    nodes |-> Siblings(l[n + 1], h[n + 1])]
    <3> DEFINE o == old[at + 1]
               w == level[at + 1]
    <3>1. Rebuild(start, m, Len(s))[n] =
            [old |-> o, new |-> w, fits |-> TRUE, nodes |-> Siblings(Levels(s)[n], Halved(m - 1)[n])]
      BY <1>3
    <3> HIDE DEF o, w
    <3>2. LET lv == Levels(s)[n]
              i  == Halved(m - 1)[n]
          IN  Rebuild(start, m, Len(s))[n + 1] =
               [old   |-> IF i % 2 = 1 THEN NodeHash(lv[i], o) ELSE o,
                new   |-> IF i >= Paired(Len(lv)) THEN w
                          ELSE IF i % 2 = 1 THEN NodeHash(lv[i], w) ELSE NodeHash(w, lv[i + 2]),
                fits  |-> TRUE,
                nodes |-> Siblings(Levels(s)[n + 1], Halved(m - 1)[n + 1])]
      BY <3>1, RebuiltAbove
    <3> QED
      BY <3>2 DEF o, w
  <2>5. l[n + 1][h[n + 1] + 1] = IF at >= Paired(Len(level)) THEN level[at + 1]
                                 ELSE IF at % 2 = 1 THEN NodeHash(level[at], level[at + 1])
                                                    ELSE NodeHash(level[at + 1], level[at + 2])
    <3> HIDE DEF level, at, old
    <3>1. at % 2 = 0 \/ at % 2 = 1
      BY <2>2
    <3>2. Above(level)[(at \div 2) + 1] = IF at >= Paired(Len(level)) THEN level[at + 1]
                                 ELSE IF at % 2 = 1 THEN NodeHash(level[at], level[at + 1])
                                                    ELSE NodeHash(level[at + 1], level[at + 2])
      BY <2>2, <3>1, ParentIs
    <3> QED
      BY <2>2, <3>2
  <2>6. a[n + 1][h[n + 1] + 1] = IF at % 2 = 1 THEN NodeHash(level[at], old[at + 1]) ELSE old[at + 1]
    <3>1. at % 2 = 1 => old[at] = level[at]
      <4>1. ASSUME at % 2 = 1 PROVE at - 1 \in Nat /\ at - 1 < at /\ (at - 1) + 1 = at
        <5> HIDE DEF at
        <5> QED
          BY <2>2, <4>1
      <4>2. ASSUME at % 2 = 1 PROVE Levels(SubSeq(s, 1, m))[n][(at - 1) + 1] = Levels(s)[n][(at - 1) + 1]
        <5> DEFINE k == at - 1
        <5>1. k \in Nat /\ k < Halved(m - 1)[n]
          BY <4>1, <4>2
        <5> HIDE DEF k
        <5>2. Levels(SubSeq(s, 1, m))[n][k + 1] = Levels(s)[n][k + 1]
          BY <1>1, <2>1, <5>1, SharedNodes
        <5> QED
          BY <5>2 DEF k
      <4> QED
        BY <4>1, <4>2
    <3> HIDE DEF level, at, old
    <3>2. at % 2 = 1 <=> ~ (at >= Paired(Len(old)))
      <4>1. \A x \in Nat : x % 2 = 1 <=> ~ (x >= (x + 1) - ((x + 1) % 2))
        OBVIOUS
      <4>2. at % 2 = 1 <=> ~ (at >= (at + 1) - ((at + 1) % 2))
        BY <2>2, <4>1
      <4> QED
        BY <2>3, <4>2 DEF Paired
    <3>3. Above(old)[(at \div 2) + 1] = IF at % 2 = 1 THEN NodeHash(old[at], old[at + 1]) ELSE old[at + 1]
      <4>1. at < Len(old) /\ at \in Nat /\ IsSeq(old)
        BY <2>2, <2>3
      <4>2. ASSUME at % 2 = 1 PROVE Above(old)[(at \div 2) + 1] = NodeHash(old[at], old[at + 1])
        <5>1. ~ (at >= Paired(Len(old))) /\ ~ (at % 2 = 0)
          BY <3>2, <4>2
        <5>2. Above(old)[(at \div 2) + 1] = IF at % 2 = 0 THEN NodeHash(old[at + 1], old[at + 2])
                                                         ELSE NodeHash(old[at], old[at + 1])
          BY <4>1, <5>1, ParentIs
        <5> QED
          BY <5>1, <5>2
      <4>3. ~ (at % 2 = 1) => Above(old)[(at \div 2) + 1] = old[at + 1]
        BY <3>2, <4>1, ParentIs
      <4> QED
        BY <4>2, <4>3
    <3> QED
      BY <2>2, <2>3, <3>1, <3>3
  <2> HIDE DEF level, at, old, r, a, l, h
  <2> QED
    BY <2>4, <2>5, <2>6
<1> HIDE DEF r, Here, a, l, h
<1>4. 0 \in G
  BY <1>1, <1>2
<1>5. ASSUME NEW n \in Nat, n \in G PROVE n + 1 \in G
  <2>1. CASE b = n + 1
    BY <1>2, <2>1
  <2>2. CASE b <= n /\ n + 1 <= top
    <3>1. n \in b..(top - 1) /\ r[n] = Here(n)
      BY <1>1, <1>5, <2>2
    <3> QED
      BY <1>3, <3>1
  <2> QED
    BY <1>1, <2>1, <2>2
<1> HIDE DEF G
<1>6. top \in G
  BY <1>1, <1>4, <1>5, Induction
<1>7. r[top] = Here(top)
  BY <1>1, <1>6 DEF G
<1>8. Here(top) = [old |-> BuildRoot(p), new |-> BuildRoot(s), fits |-> TRUE, nodes |-> <<>>]
  <2>1. a[top][h[top] + 1] = BuildRoot(p) /\ l[top][h[top] + 1] = BuildRoot(s)
    BY <1>1
  <2>2. Siblings(l[top], h[top]) = <<>>
    <3> DEFINE y == l[top]
    <3>1. IsSeq(y) /\ Len(y) = 1 /\ Len(y) # 0
      BY <1>1, OneIs
    <3> HIDE DEF y
    <3>2. Siblings(y, 0) = <<>>
      <4>1. \A k \in Nat : Siblings(y, k) = <<>>
        BY <3>1, SiblingsAre
      <4> QED
        BY <4>1
    <3> QED
      BY <1>1, <3>2 DEF y
  <2> QED
    BY <2>1, <2>2 DEF Here
<1> QED
  BY <1>7, <1>8 DEF r

\* From a root that is claimed for a complete old tree, the new root is rebuilt exactly when
\* the claim is true.
LEMMA RebuiltFromClaim ==
  ASSUME NEW s, IsSeq(s), NEW m \in 1..(Len(s) - 1), Halved(m - 1)[Border(m)] = 0, NEW claim, NEW start,
         start = [old |-> claim, new |-> claim, fits |-> TRUE, nodes |-> Siblings(Levels(s)[Border(m)], 0)]
  PROVE  Rebuild(start, m, Len(s))[Height(Len(s))] =
            [old |-> claim, new |-> BuildRoot(s), fits |-> TRUE, nodes |-> <<>>]
         <=> claim = BuildRoot(SubSeq(s, 1, m))
<1> DEFINE p == SubSeq(s, 1, m)
           top == Height(Len(s))
           b == Border(m)
           h == Halved(m - 1)
           l == Levels(s)
           r == Rebuild(start, m, Len(s))
           Here(n, w) == [old |-> claim, new |-> w, fits |-> TRUE, nodes |-> Siblings(l[n], 0)]
           Good(n) == \E w : r[n] = Here(n, w) /\ (w = l[n][1] <=> claim = BuildRoot(p))
           G == { n \in Nat : b <= n /\ n <= top => Good(n) }
<1>1. /\ Len(s) \in Nat \ {0} /\ m \in Nat \ {0} /\ m \in 1..Len(s) /\ m - 1 \in 0..(Len(s) - 1) /\ m - 1 \in Nat
      /\ m <= Len(s) /\ IsSeq(p) /\ Len(p) = m /\ b \in Nat /\ top \in Nat /\ b <= top /\ l[top] = <<BuildRoot(s)>>
  BY PrefixIs
<1>2. \A n \in Nat : b <= n => h[n] = 0
  BY <1>1, HalvedZero
<1>3. l[b][1] = BuildRoot(p)
  <2>1. h[b] = 0 /\ b \in 0..Border(m)
    BY <1>1
  <2>2. Levels(p)[b][h[b] + 1] = l[b][h[b] + 1]
    BY <1>1, <2>1, SharedBorder
  <2>3. Levels(p)[b] = <<BuildRoot(p)>>
    <3>1. Len(p) # 0 /\ Halved(Len(p) - 1)[b] = 0
      BY <1>1, <2>1
    <3> HIDE DEF p
    <3> QED
      BY <1>1, <3>1, RootIs
  <2>4. h[b] + 1 = 1
    BY <2>1
  <2> HIDE DEF h, l
  <2> QED
    BY <2>2, <2>3, <2>4
<1>4. Good(b)
  <2>1. r[b] = start
    BY <1>1, RebuildIs
  <2>2. r[b] = Here(b, claim)
    BY <2>1
  <2> HIDE DEF r, Here
  <2> QED
    BY <1>3, <2>2
<1>5. ASSUME NEW n \in b..(top - 1), Good(n) PROVE Good(n + 1)
  <2>1. n \in Nat /\ n + 1 \in Nat /\ n \in 0..(top - 1) /\ h[n] = 0 /\ h[n + 1] = 0
    BY <1>1, <1>2
  <2> DEFINE level == l[n]
  <2>2. /\ IsSeq(level) /\ Len(level) > 1 /\ Len(level) \in Nat /\ l[n + 1] = Above(level)
    BY <1>1, <2>1, BelowRoot
  <2>3. PICK w : r[n] = Here(n, w) /\ (w = level[1] <=> claim = BuildRoot(p))
    BY <1>5
  <2>4. ~ (0 >= Paired(Len(level))) /\ 0 % 2 = 0 /\ ~ (0 % 2 = 1) /\ 0 \div 2 = 0
    <3> HIDE DEF level
    <3> QED
      BY <2>2 DEF Paired
  <2>5. r[n + 1] = Here(n + 1, NodeHash(w, level[2]))
    <3>1. Rebuild(start, m, Len(s))[n] =
            [old |-> claim, new |-> w, fits |-> TRUE, nodes |-> Siblings(Levels(s)[n], Halved(m - 1)[n])]
      BY <2>1, <2>3
    <3>2. LET lv == Levels(s)[n]
              i  == Halved(m - 1)[n]
          IN  Rebuild(start, m, Len(s))[n + 1] =
               [old   |-> IF i % 2 = 1 THEN NodeHash(lv[i], claim) ELSE claim,
                new   |-> IF i >= Paired(Len(lv)) THEN w
                          ELSE IF i % 2 = 1 THEN NodeHash(lv[i], w) ELSE NodeHash(w, lv[i + 2]),
                fits  |-> TRUE,
                nodes |-> Siblings(Levels(s)[n + 1], Halved(m - 1)[n + 1])]
      BY <3>1, RebuiltAbove
    <3>3. r[n + 1] =
               [old   |-> IF 0 % 2 = 1 THEN NodeHash(level[0], claim) ELSE claim,
                new   |-> IF 0 >= Paired(Len(level)) THEN w
                          ELSE IF 0 % 2 = 1 THEN NodeHash(level[0], w) ELSE NodeHash(w, level[0 + 2]),
                fits  |-> TRUE,
                nodes |-> Siblings(l[n + 1], 0)]
      BY <2>1, <3>2
    <3> HIDE DEF level, r, l
    <3>4. 0 + 2 = 2
      OBVIOUS
    <3> QED
      BY <2>4, <3>3, <3>4
  <2>6. l[n + 1][1] = NodeHash(level[1], level[2])
    <3> HIDE DEF level
    <3>1. Above(level)[(0 \div 2) + 1] = NodeHash(level[0 + 1], level[0 + 2])
      <4>1. 0 \in Nat /\ 0 < Len(level)
        BY <2>2
      <4>2. Above(level)[(0 \div 2) + 1] = IF 0 % 2 = 0 THEN NodeHash(level[0 + 1], level[0 + 2])
                                                       ELSE NodeHash(level[0], level[0 + 1])
        BY <2>2, <2>4, <4>1, ParentIs
      <4> QED
        BY <2>4, <4>2
    <3> QED
      BY <2>2, <2>4, <3>1
  <2>7. NodeHash(w, level[2]) = l[n + 1][1] <=> w = level[1]
    <3> HIDE DEF level, l
    <3> QED
      BY <2>6 DEF NodeHash
  <2>8. r[n + 1] = Here(n + 1, NodeHash(w, level[2]))
        /\ (NodeHash(w, level[2]) = l[n + 1][1] <=> claim = BuildRoot(p))
    BY <2>3, <2>5, <2>7
  <2> HIDE DEF Here, r, l
  <2> QED
    BY <2>8
<1> HIDE DEF r, Good, h
<1>6. 0 \in G
  BY <1>1, <1>4
<1>7. ASSUME NEW n \in Nat, n \in G PROVE n + 1 \in G
  <2>1. CASE b = n + 1
    BY <1>4, <2>1
  <2>2. CASE b <= n /\ n + 1 <= top
    <3>1. n \in b..(top - 1) /\ Good(n)
      BY <1>1, <1>7, <2>2
    <3> QED
      BY <1>5, <3>1
  <2> QED
    BY <1>1, <2>1, <2>2
<1> HIDE DEF G
<1>8. top \in G
  BY <1>1, <1>6, <1>7, Induction
<1>9. Good(top)
  BY <1>1, <1>8 DEF G
<1>10. PICK w : r[top] = Here(top, w) /\ (w = l[top][1] <=> claim = BuildRoot(p))
  BY <1>9 DEF Good
<1>11. l[top][1] = BuildRoot(s)
  BY <1>1
<1>12. Siblings(l[top], 0) = <<>>
  <2> DEFINE y == l[top]
  <2>1. IsSeq(y) /\ Len(y) = 1 /\ Len(y) # 0
    BY <1>1, OneIs
  <2> HIDE DEF y
  <2>2. \A k \in Nat : Siblings(y, k) = <<>>
    BY <2>1, SiblingsAre
  <2>3. Siblings(y, 0) = <<>>
    BY <2>2
  <2> QED
    BY <2>3 DEF y
<1>13. r[top] = [old |-> claim, new |-> w, fits |-> TRUE, nodes |-> <<>>]
  BY <1>10, <1>12
<1>14. r[top] = [old |-> claim, new |-> BuildRoot(s), fits |-> TRUE, nodes |-> <<>>] <=> w = BuildRoot(s)
  <2>1. ASSUME r[top] = [old |-> claim, new |-> BuildRoot(s), fits |-> TRUE, nodes |-> <<>>] PROVE w = BuildRoot(s)
    BY <1>13, <2>1
  <2> QED
    BY <1>13, <2>1
<1> QED
  BY <1>10, <1>11, <1>14 DEF r

---------------------------------------------------------------------------
(* The proof of consistency that is built.                               *)

IsPower(x) == \E k \in Nat : x = Power[k]

\* The powers of two, and those up to a bound.
LEMMA PowerIs ==
  /\ Power[0] = 1
  /\ \A k \in Nat : Power[k + 1] = 2 * Power[k] /\ Power[k] \in Nat /\ k < Power[k]
<1> DEFINE Whole(f) == f = [k \in Nat |-> IF k = 0 THEN 1 ELSE 2 * f[k - 1]]
           next == [x \in Nat \X Nat |-> 2 * x[2]]
<1>1. next \in [Nat \X Nat -> Nat]
  OBVIOUS
<1>2. PICK f : IsRun(f, Nat, 1, next)
  <2> HIDE DEF next
  <2> QED
    BY <1>1, Recursion
<1>3. f \in [Nat -> Nat] /\ f[0] = 1 /\ \A k \in Nat : f[k + 1] = 2 * f[k]
  BY <1>2 DEF IsRun
<1>4. Whole(f)
  <2>1. ASSUME NEW k \in Nat, k # 0 PROVE f[k] = 2 * f[k - 1]
    <3>1. k - 1 \in Nat /\ (k - 1) + 1 = k
      BY <2>1
    <3> QED
      BY <1>3, <3>1
  <2> QED
    BY <1>3, <2>1
<1>5. Power = CHOOSE g : Whole(g)
  BY DEF Power
<1>6. Whole(Power)
  <2> HIDE DEF Whole
  <2> QED
    BY <1>4, <1>5
<1>7. Power[0] = 1
  BY <1>6
<1>8. ASSUME NEW k \in Nat PROVE Power[k + 1] = 2 * Power[k]
  <2>1. k + 1 \in Nat /\ k + 1 # 0 /\ (k + 1) - 1 = k
    OBVIOUS
  <2>2. Power[k + 1] = 2 * Power[(k + 1) - 1]
    BY <1>6, <2>1
  <2> QED
    BY <2>1, <2>2
<1> DEFINE G == { k \in Nat : Power[k] \in Nat /\ k < Power[k] }
<1>9. 0 \in G
  BY <1>7
<1>10. ASSUME NEW k \in Nat, k \in G PROVE k + 1 \in G
  BY <1>8, <1>10
<1> HIDE DEF G
<1>11. Nat \subseteq G
  BY <1>9, <1>10, Induction
<1> QED
  BY <1>7, <1>8, <1>11 DEF G

LEMMA PowersToIs ==
  ASSUME NEW bound \in Nat
  PROVE  PowersTo(bound) = { p \in 1..bound : IsPower(p) }
<1>1. ASSUME NEW p \in 1..bound, IsPower(p) PROVE \E k \in 0..bound : p = Power[k]
  <2>1. PICK k \in Nat : p = Power[k]
    BY <1>1 DEF IsPower
  <2>2. k < Power[k]
    BY PowerIs
  <2> QED
    BY <2>1, <2>2
<1>2. ASSUME NEW p \in 1..bound, NEW k \in 0..bound, p = Power[k] PROVE IsPower(p)
  BY <1>2 DEF IsPower
<1> QED
  BY <1>1, <1>2 DEF PowersTo

\* Between a power of two and its double there is no other.
LEMMA PowerGap ==
  ASSUME NEW p, NEW q, IsPower(p), IsPower(q), p < q
  PROVE  2 * p <= q
<1>1. PICK i \in Nat : p = Power[i]
  BY DEF IsPower
<1>2. PICK j \in Nat : q = Power[j]
  BY DEF IsPower
<1>3. ASSUME NEW a \in Nat PROVE \A d \in Nat : 2 * Power[a] <= Power[(a + 1) + d]
  <2> DEFINE G == { d \in Nat : 2 * Power[a] <= Power[(a + 1) + d] }
  <2>1. 0 \in G
    <3>1. (a + 1) + 0 = a + 1 /\ Power[a] \in Nat /\ Power[a + 1] = 2 * Power[a]
      BY PowerIs
    <3> QED
      BY <3>1
  <2>2. ASSUME NEW d \in Nat, d \in G PROVE d + 1 \in G
    <3> DEFINE n == (a + 1) + d
    <3>1. n \in Nat /\ (a + 1) + (d + 1) = n + 1 /\ 2 * Power[a] <= Power[n]
      BY <2>2
    <3> HIDE DEF n
    <3>2. Power[n + 1] = 2 * Power[n] /\ Power[n] \in Nat /\ Power[a] \in Nat
      BY <3>1, PowerIs
    <3>3. 2 * Power[a] <= Power[n + 1]
      BY <3>1, <3>2
    <3> QED
      BY <3>1, <3>3
  <2> HIDE DEF G
  <2>3. Nat \subseteq G
    BY <2>1, <2>2, Induction
  <2> QED
    BY <2>3 DEF G
<1>4. CASE i < j
  <2>1. j - (i + 1) \in Nat /\ (i + 1) + (j - (i + 1)) = j
    BY <1>4
  <2> QED
    BY <1>1, <1>2, <1>3, <2>1
<1>5. CASE j < i
  <2>1. i - (j + 1) \in Nat /\ (j + 1) + (i - (j + 1)) = i
    BY <1>5
  <2>2. 2 * Power[j] <= Power[i] /\ Power[i] \in Nat /\ Power[j] \in Nat
    BY <1>3, <2>1, PowerIs
  <2> QED
    BY <1>1, <1>2, <2>2
<1>6. CASE i = j
  <2>1. Power[i] \in Nat
    BY PowerIs
  <2> QED
    BY <1>1, <1>2, <1>6, <2>1
<1> QED
  BY <1>4, <1>5, <1>6

\* Twice a power is one, and half of any but the first.
LEMMA PowerFacts ==
  /\ IsPower(1)
  /\ \A x : IsPower(x) => x \in Nat \ {0} /\ IsPower(2 * x)
  /\ \A x \in Nat : IsPower(2 * x) => IsPower(x)
  /\ \A x \in Nat : IsPower(x) /\ x % 2 = 1 => x = 1
<1>1. IsPower(1)
  BY PowerIs DEF IsPower
<1>2. ASSUME NEW x, IsPower(x) PROVE x \in Nat \ {0} /\ IsPower(2 * x)
  <2>1. PICK k \in Nat : x = Power[k]
    BY <1>2 DEF IsPower
  <2>2. Power[k + 1] = 2 * Power[k] /\ Power[k] \in Nat /\ k < Power[k] /\ k + 1 \in Nat
    BY PowerIs
  <2> QED
    BY <2>1, <2>2 DEF IsPower
<1>3. ASSUME NEW x \in Nat, NEW k \in Nat, x = Power[k], k # 0 PROVE x = 2 * Power[k - 1] /\ IsPower(Power[k - 1])
  <2>1. k - 1 \in Nat /\ (k - 1) + 1 = k
    BY <1>3
  <2>2. Power[(k - 1) + 1] = 2 * Power[k - 1]
    BY <2>1, PowerIs
  <2> QED
    BY <1>3, <2>1, <2>2 DEF IsPower
<1>4. ASSUME NEW x \in Nat, IsPower(2 * x) PROVE IsPower(x)
  <2>1. PICK k \in Nat : 2 * x = Power[k]
    BY <1>4 DEF IsPower
  <2>2. k # 0
    <3>1. 2 * x # 1
      OBVIOUS
    <3> QED
      BY <2>1, <3>1, PowerIs
  <2>3. 2 * x \in Nat
    OBVIOUS
  <2>4. 2 * x = 2 * Power[k - 1] /\ IsPower(Power[k - 1])
    BY <1>3, <2>1, <2>2, <2>3
  <2>5. Power[k - 1] \in Nat
    BY <1>2, <2>4
  <2>6. x = Power[k - 1]
    BY <2>4, <2>5
  <2> QED
    BY <2>4, <2>6
<1>5. ASSUME NEW x \in Nat, IsPower(x), x % 2 = 1 PROVE x = 1
  <2>1. PICK k \in Nat : x = Power[k]
    BY <1>5 DEF IsPower
  <2>2. CASE k = 0
    BY <2>1, <2>2, PowerIs
  <2>3. CASE k # 0
    <3>1. x = 2 * Power[k - 1] /\ Power[k - 1] \in Nat
      BY <1>2, <1>3, <2>1, <2>3
    <3>2. \A y \in Nat : (2 * y) % 2 = 0
      OBVIOUS
    <3> QED
      BY <1>5, <3>1, <3>2
  <2> QED
    BY <2>2, <2>3
<1> QED
  BY <1>1, <1>2, <1>4, <1>5

\* Where a part is split: at the one power below its width that is no less than half of it.
LEMMA SplitIs ==
  ASSUME NEW w \in Nat, w > 1
  PROVE  /\ IsPower(LargestPowerBelow(w)) /\ LargestPowerBelow(w) \in Nat \ {0}
         /\ LargestPowerBelow(w) < w /\ w <= 2 * LargestPowerBelow(w)
         /\ \A p : IsPower(p) /\ p < w /\ w <= 2 * p => p = LargestPowerBelow(w)
<1> DEFINE Fits(p, n) == IsPower(p) /\ p < n /\ n <= 2 * p
           G == { n \in Nat : n > 1 => \E p : Fits(p, n) }
<1>1. 0 \in G
  OBVIOUS
<1>2. ASSUME NEW n \in Nat, n \in G PROVE n + 1 \in G
  <2>1. CASE n = 1
    <3>1. Fits(1, n + 1)
      BY <2>1, PowerFacts
    <3> HIDE DEF Fits
    <3> QED
      BY <3>1
  <2>2. CASE n > 1
    <3>1. PICK p : Fits(p, n)
      BY <1>2, <2>2
    <3>2. p \in Nat /\ IsPower(2 * p)
      BY <3>1, PowerFacts
    <3>3. n = 2 * p \/ n + 1 <= 2 * p
      BY <3>1, <3>2
    <3>4. Fits(p, n + 1) \/ Fits(2 * p, n + 1)
      BY <3>1, <3>2, <3>3
    <3> HIDE DEF Fits
    <3> QED
      BY <3>4
  <2> QED
    BY <2>1, <2>2
<1> HIDE DEF G
<1>3. w \in G
  BY <1>1, <1>2, Induction
<1>4. PICK p : Fits(p, w)
  BY <1>3 DEF G
<1>5. p \in Nat \ {0}
  BY <1>4, PowerFacts
<1> DEFINE Largest(q) == q \in PowersTo(w - 1) /\ \A r \in PowersTo(w - 1) : r <= q
<1>6. PowersTo(w - 1) = { q \in 1..(w - 1) : IsPower(q) }
  BY PowersToIs
<1>7. Largest(p)
  <2>1. p \in PowersTo(w - 1)
    BY <1>4, <1>5, <1>6
  <2>2. ASSUME NEW r \in PowersTo(w - 1) PROVE r <= p
    <3>1. r \in Nat /\ r < w /\ IsPower(r)
      BY <1>6
    <3>2. p < r => 2 * p <= r
      BY <1>4, <3>1, PowerGap
    <3> QED
      BY <1>4, <1>5, <3>1, <3>2
  <2> QED
    BY <2>1, <2>2
<1>8. LargestPowerBelow(w) = CHOOSE q : Largest(q)
  BY DEF LargestPowerBelow
<1>9. Largest(LargestPowerBelow(w))
  <2> HIDE DEF Largest
  <2> QED
    BY <1>7, <1>8
<1>10. ASSUME NEW q, Fits(q, w) PROVE Largest(q)
  <2>1. q \in Nat \ {0}
    BY <1>10, PowerFacts
  <2>2. q \in PowersTo(w - 1)
    BY <1>6, <1>10, <2>1
  <2>3. ASSUME NEW r \in PowersTo(w - 1) PROVE r <= q
    <3>1. r \in Nat /\ r < w /\ IsPower(r)
      BY <1>6
    <3>2. q < r => 2 * q <= r
      BY <1>10, <3>1, PowerGap
    <3> QED
      BY <1>10, <2>1, <3>1, <3>2
  <2> QED
    BY <2>2, <2>3
<1>11. ASSUME NEW q, Largest(q) PROVE q = p
  <2>1. q \in Nat /\ q <= p /\ p <= q
    BY <1>6, <1>7, <1>11
  <2> QED
    BY <1>5, <2>1
<1>12. LargestPowerBelow(w) = p
  <2> HIDE DEF Largest
  <2> QED
    BY <1>9, <1>11
<1>13. ASSUME NEW q, Fits(q, w) PROVE q = p
  <2> HIDE DEF Largest, Fits
  <2> QED
    BY <1>10, <1>11, <1>13
<1> QED
  BY <1>4, <1>5, <1>12, <1>13

\* A wider part is split where its level above is.
LEMMA SplitStep ==
  /\ LargestPowerBelow(2) = 1
  /\ \A w \in Nat : w > 2 => LargestPowerBelow(w) = 2 * LargestPowerBelow((w + 1) \div 2)
<1>1. LargestPowerBelow(2) = 1
  BY SplitIs, PowerFacts
<1>2. ASSUME NEW w \in Nat, w > 2 PROVE LargestPowerBelow(w) = 2 * LargestPowerBelow((w + 1) \div 2)
  <2> DEFINE half == (w + 1) \div 2
             p == LargestPowerBelow(half)
  <2>1. half \in Nat /\ half > 1 /\ w <= 2 * half /\ 2 * half <= w + 1
    BY <1>2
  <2> HIDE DEF half
  <2>2. IsPower(p) /\ p \in Nat /\ p < half /\ half <= 2 * p
    BY <2>1, SplitIs
  <2> HIDE DEF p
  <2>3. IsPower(2 * p) /\ 2 * p < w /\ w <= 2 * (2 * p)
    <3>1. IsPower(2 * p)
      BY <2>2, PowerFacts
    <3>2. 2 * p < w /\ w <= 2 * (2 * p)
      BY <1>2, <2>1, <2>2
    <3> QED
      BY <3>1, <3>2
  <2>4. 2 * p = LargestPowerBelow(w)
    BY <1>2, <2>3, SplitIs
  <2> QED
    BY <2>4 DEF p, half
<1> QED
  BY <1>1, <1>2

\* A tree is complete exactly when the border's node is the only one of its level.
LEMMA CompleteIs ==
  ASSUME NEW m \in Nat \ {0}
  PROVE  IsPower(m) <=> Halved(m - 1)[Border(m)] = 0
<1> DEFINE Good(n) == IsPower(n) <=> Halved(n - 1)[Border(n)] = 0
           G == { n \in Nat : n # 0 => Good(n) }
<1>1. ASSUME NEW n \in Nat, \A k \in 0..(n - 1) : k \in G PROVE n \in G
  <2>1. CASE n % 2 = 1
    <3>1. Border(n) = 0 /\ n - 1 \in Nat
      BY <2>1, BorderOfOdd
    <3>2. Halved(n - 1)[Border(n)] = n - 1
      BY <3>1, HalvedIs
    <3>3. IsPower(n) <=> n = 1
      BY <2>1, PowerFacts
    <3> QED
      BY <3>2, <3>3
  <2>2. CASE n % 2 = 0 /\ n # 0
    <3> DEFINE half == n \div 2
    <3>1. half \in Nat \ {0} /\ half \in 0..(n - 1) /\ n = 2 * half /\ (n - 1) \div 2 = half - 1 /\ n - 1 \in Nat
      BY <2>2
    <3>2. Border(n) = Border(half) + 1
      BY <2>2, BorderStep
    <3> HIDE DEF half
    <3>3. Border(half) \in Nat
      <4>1. Height(half) \in Nat
        BY <3>1, HeightIs
      <4> QED
        BY <3>1, <4>1, BorderIs
    <3>4. Halved(n - 1)[Border(half) + 1] = Halved(half - 1)[Border(half)]
      <4> DEFINE last == n - 1
                 b    == Border(half)
      <4>1. last \in Nat /\ b \in Nat /\ last \div 2 = half - 1
        BY <3>1, <3>3
      <4> HIDE DEF last, b
      <4>2. Halved(last)[b + 1] = Halved(last \div 2)[b]
        BY <4>1, HalvedShift
      <4> QED
        BY <4>1, <4>2 DEF last, b
    <3>5. IsPower(n) <=> IsPower(half)
      BY <3>1, PowerFacts
    <3>6. Good(half)
      BY <1>1, <3>1
    <3> QED
      BY <3>2, <3>4, <3>5, <3>6
  <2>3. n % 2 = 0 \/ n % 2 = 1
    OBVIOUS
  <2> HIDE DEF Good
  <2> QED
    BY <2>1, <2>2, <2>3
<1> HIDE DEF G
<1>2. Nat \subseteq G
  BY <1>1, StrongInduction
<1> QED
  BY <1>2 DEF G

\* What the splitting gives a part, from what it gives the parts inside it.
Nodes(f, leaves, old, from, to) ==
    LET split == from + LargestPowerBelow(to - from)
    IN  IF old = to THEN IF <<from, to>> = <<0, Len(leaves)>> THEN <<>> ELSE <<PartRoot(leaves, from, to)>>
        ELSE IF old <= split
        THEN Append(f[<<from, split>>], PartRoot(leaves, split, to))
        ELSE Append(f[<<split, to>>], PartRoot(leaves, from, split))

\* The splitting does so for every part that the old log ends in.
LEMMA SubproofsIs ==
  ASSUME NEW s, IsSeq(s), NEW old \in Nat
  PROVE  \A from, to \in 0..Len(s) : from < old /\ old <= to =>
            Subproofs(s, old)[<<from, to>>] = Nodes(Subproofs(s, old), s, old, from, to)
<1> DEFINE P == Parts(Len(s), old)
           Body(f, part) ==
             LET from  == part[1]
                 to    == part[2]
                 split == from + LargestPowerBelow(to - from)
             IN  IF old = to THEN IF part = <<0, Len(s)>> THEN <<>> ELSE <<PartRoot(s, from, to)>>
                 ELSE IF old <= split
                 THEN Append(f[<<from, split>>], PartRoot(s, split, to))
                 ELSE Append(f[<<split, to>>], PartRoot(s, from, split))
           Whole(f) == f = [part \in P |-> Body(f, part)]
           width(part) == part[2] - part[1]
           UpTo(f, d) == f = [part \in P |-> f[part]] /\ \A part \in P : width(part) <= d => f[part] = Body(f, part)
           G == { d \in Nat : \E f : UpTo(f, d) }
<1>1. Len(s) \in Nat
  BY SeqIs
<1>2. ASSUME NEW part \in P
      PROVE  /\ part[1] \in Nat /\ part[2] \in 0..Len(s) /\ part[1] < old /\ old <= part[2]
             /\ part = <<part[1], part[2]>> /\ width(part) \in 1..Len(s)
  BY <1>1 DEF Parts
<1>3. ASSUME NEW from \in Nat, NEW to \in 0..Len(s), from < old, old <= to PROVE <<from, to>> \in P
  BY <1>1, <1>3 DEF Parts
<1>4. ASSUME NEW f, NEW g, NEW part \in P,
             \A other \in P : width(other) < width(part) => f[other] = g[other]
      PROVE  Body(f, part) = Body(g, part)
  <2> DEFINE from  == part[1]
             to    == part[2]
             k     == LargestPowerBelow(to - from)
             split == from + k
  <2>1. from \in Nat /\ to \in 0..Len(s) /\ to \in Nat /\ from < old /\ old <= to
    BY <1>1, <1>2
  <2>2. CASE old = to
    BY <2>2
  <2>3. CASE old # to
    <3>1. to - from \in Nat /\ to - from > 1
      BY <2>1, <2>3
    <3>2. k \in Nat \ {0} /\ k < to - from
      BY <3>1, SplitIs
    <3>3. split \in Nat /\ split \in 0..Len(s) /\ from < split /\ split < to
      <4> HIDE DEF k
      <4> QED
        BY <1>1, <2>1, <3>2
    <3> HIDE DEF k, split, from, to
    <3>4. CASE old <= split
      <4>1. <<from, split>> \in P
        BY <1>3, <2>1, <3>3, <3>4
      <4>2. <<from, split>>[2] - <<from, split>>[1] < width(part)
        BY <2>1, <3>3 DEF from, to
      <4>3. f[<<from, split>>] = g[<<from, split>>]
        BY <1>4, <4>1, <4>2
      <4> QED
        BY <2>3, <3>4, <4>3 DEF split, from, to, k
    <3>5. CASE ~ (old <= split)
      <4>1. <<split, to>> \in P
        <5>1. split < old /\ to \in 0..Len(s) /\ old <= to
          BY <2>1, <3>3, <3>5
        <5> QED
          BY <1>3, <3>3, <5>1
      <4>2. <<split, to>>[2] - <<split, to>>[1] < width(part)
        BY <2>1, <3>3 DEF from, to
      <4>3. f[<<split, to>>] = g[<<split, to>>]
        BY <1>4, <4>1, <4>2
      <4> QED
        BY <2>3, <3>5, <4>3 DEF split, from, to, k
    <3> QED
      BY <3>4, <3>5
  <2> QED
    BY <2>2, <2>3
<1> HIDE DEF P, Body
<1>5. 0 \in G
  <2> DEFINE f == [part \in P |-> 0]
  <2>1. \A part \in P : ~ (width(part) <= 0)
    BY <1>2
  <2>2. UpTo(f, 0)
    BY <2>1
  <2> HIDE DEF UpTo, f
  <2> QED
    BY <2>2
<1>6. ASSUME NEW d \in Nat, d \in G PROVE d + 1 \in G
  <2>1. PICK f : UpTo(f, d)
    BY <1>6
  <2> DEFINE g == [part \in P |-> IF width(part) = d + 1 THEN Body(f, part) ELSE f[part]]
  <2>2. ASSUME NEW part \in P, width(part) <= d + 1 PROVE g[part] = Body(g, part)
    <3>1. ASSUME NEW other \in P, width(other) < width(part) PROVE f[other] = g[other]
      <4>1. width(other) # d + 1
        <5>1. width(other) \in Nat /\ width(part) \in Nat
          BY <1>2
        <5> HIDE DEF width
        <5> QED
          BY <2>2, <3>1, <5>1
      <4> QED
        BY <4>1
    <3> HIDE DEF g
    <3>2. Body(f, part) = Body(g, part)
      BY <1>4, <3>1
    <3>3. CASE width(part) = d + 1
      BY <3>2, <3>3 DEF g
    <3>4. CASE width(part) # d + 1
      <4>1. width(part) <= d
        <5>1. width(part) \in Nat
          BY <1>2
        <5> HIDE DEF width
        <5> QED
          BY <2>2, <3>4, <5>1
      <4>2. f[part] = Body(f, part)
        BY <2>1, <4>1
      <4> QED
        BY <3>2, <3>4, <4>2 DEF g
    <3> QED
      BY <3>3, <3>4
  <2>3. g = [part \in P |-> g[part]]
    OBVIOUS
  <2> HIDE DEF g
  <2>4. UpTo(g, d + 1)
    BY <2>2, <2>3
  <2> HIDE DEF UpTo
  <2> QED
    BY <2>4
<1> HIDE DEF G
<1>7. Len(s) \in G
  BY <1>1, <1>5, <1>6, Induction
<1>8. PICK f : UpTo(f, Len(s))
  BY <1>7 DEF G
<1>9. Whole(f)
  <2>1. \A part \in P : width(part) <= Len(s)
    BY <1>1, <1>2
  <2>2. \A part \in P : f[part] = Body(f, part)
    BY <1>8, <2>1
  <2>3. f = [part \in P |-> f[part]]
    BY <1>8
  <2> QED
    BY <2>2, <2>3
<1>10. Subproofs(s, old) = CHOOSE g : Whole(g)
  BY DEF Subproofs, Body, P
<1>11. Whole(Subproofs(s, old))
  <2> HIDE DEF Whole
  <2> QED
    BY <1>9, <1>10
<1> DEFINE c == Subproofs(s, old)
<1>12. c = [part \in P |-> Body(c, part)]
  BY <1>11
<1> HIDE DEF c
<1>13. ASSUME NEW from \in 0..Len(s), NEW to \in 0..Len(s), from < old, old <= to
       PROVE  c[<<from, to>>] = Nodes(c, s, old, from, to)
  <2>1. <<from, to>> \in P
    BY <1>1, <1>3, <1>13
  <2> DEFINE part == <<from, to>>
  <2>2. c[part] = Body(c, part)
    BY <1>12, <2>1
  <2>3. part[1] = from /\ part[2] = to /\ part = <<from, to>>
    OBVIOUS
  <2> HIDE DEF part
  <2>4. Body(c, part) = Nodes(c, s, old, from, to)
    BY <2>3 DEF Body, Nodes
  <2> QED
    BY <2>2, <2>4 DEF part
<1> QED
  BY <1>13 DEF c

\* A part of the log, ...
LEMMA PartIs ==
  ASSUME NEW s, IsSeq(s), NEW from \in Nat, NEW to \in Nat, from < to, to <= Len(s)
  PROVE  /\ IsSeq(SubSeq(s, from + 1, to)) /\ Len(SubSeq(s, from + 1, to)) = to - from
         /\ \A k \in 1..(to - from) : SubSeq(s, from + 1, to)[k] = s[from + k]
<1>1. Len(s) \in Nat
  BY SeqIs
<1> DEFINE m == from + 1
<1>2. m \in 1..(Len(s) + 1) /\ to \in (m - 1)..Len(s) /\ to - m + 1 = to - from /\ \A k \in Nat : m + k - 1 = from + k
  BY <1>1
<1> HIDE DEF m
<1>3. /\ IsSeq(SubSeq(s, m, to)) /\ Len(SubSeq(s, m, to)) = to - m + 1
      /\ \A k \in 1..(to - m + 1) : SubSeq(s, m, to)[k] = s[m + k - 1]
  BY <1>2, SubSeqIs
<1>4. \A k \in 1..(to - from) : SubSeq(s, m, to)[k] = s[from + k]
  BY <1>2, <1>3
<1> QED
  BY <1>2, <1>3, <1>4 DEF m

\* A part that starts at an even position, and ends at one or with the log, has its pairs
\* where the log has them.
LEMMA AboveOfPart ==
  ASSUME NEW s, IsSeq(s), NEW from \in Nat, NEW to \in Nat, from < to, to <= Len(s),
         from % 2 = 0, to % 2 = 0 \/ to = Len(s)
  PROVE  Above(SubSeq(s, from + 1, to)) = SubSeq(Above(s), (from \div 2) + 1, (to + 1) \div 2)
<1> DEFINE p == SubSeq(s, from + 1, to)
           f == from \div 2
           t == (to + 1) \div 2
           q == SubSeq(Above(s), f + 1, t)
           N == Len(s)
<1>1. N \in Nat /\ f \in Nat /\ t \in Nat /\ f < t /\ from = 2 * f
  BY SeqIs
<1>2. IsSeq(p) /\ Len(p) = to - from /\ \A k \in 1..(to - from) : p[k] = s[from + k]
  BY PartIs
<1>3. /\ IsSeq(Above(s)) /\ Len(Above(s)) = (N + 1) \div 2
      /\ \A k \in 1..((N + 1) \div 2) :
            Above(s)[k] = IF 2 * k <= N THEN NodeHash(s[2 * k - 1], s[2 * k]) ELSE s[2 * k - 1]
  BY AboveIs
<1>4. t <= (N + 1) \div 2
  BY <1>1
<1>5. IsSeq(q) /\ Len(q) = t - f /\ \A k \in 1..(t - f) : q[k] = Above(s)[f + k]
  <2> HIDE DEF f, t, N
  <2> QED
    BY <1>1, <1>3, <1>4, PartIs
<1>6. IsSeq(Above(p)) /\ Len(Above(p)) = ((to - from) + 1) \div 2
      /\ \A k \in 1..(((to - from) + 1) \div 2) :
            Above(p)[k] = IF 2 * k <= to - from THEN NodeHash(p[2 * k - 1], p[2 * k]) ELSE p[2 * k - 1]
  <2> HIDE DEF p
  <2> QED
    BY <1>2, AboveIs
<1>7. ((to - from) + 1) \div 2 = t - f
  <2>1. from = 2 * f /\ f \in Nat
    BY <1>1
  <2> HIDE DEF f
  <2> QED
    BY <1>1, <2>1
<1>8. ASSUME NEW k \in 1..(t - f) PROVE Above(p)[k] = q[k]
  <2>1. /\ f + k \in 1..((N + 1) \div 2) /\ 2 * (f + k) = from + 2 * k /\ 2 * (f + k) - 1 = from + (2 * k - 1)
        /\ k \in Nat /\ 2 * k - 1 \in 1..(to - from)
    <3>1. k \in Nat /\ k >= 1 /\ k <= t - f
      BY <1>1
    <3>2. 2 * k - 1 <= to - from
      <4>1. 2 * t <= to + 1
        OBVIOUS
      <4> HIDE DEF t, f
      <4> QED
        BY <1>1, <3>1, <4>1
    <3> HIDE DEF t, f, N
    <3>3. f + k \in 1..((N + 1) \div 2)
      BY <1>1, <1>3, <1>4, <3>1
    <3> QED
      BY <1>1, <3>1, <3>2, <3>3
  <2>2. 2 * k <= to - from <=> 2 * (f + k) <= N
    <3>1. ASSUME 2 * k <= to - from PROVE from + 2 * k <= N
      BY <1>1, <2>1, <3>1
    <3>2. ASSUME from + 2 * k <= N, ~ (2 * k <= to - from) PROVE FALSE
      <4>1. to # N
        BY <1>1, <2>1, <3>2
      <4>2. to % 2 = 0
        BY <4>1
      <4>3. to + 1 = from + 2 * k
        <5>1. 2 * k - 1 \in 1..(to - from) /\ k \in Nat
          BY <2>1
        <5> QED
          BY <3>2, <5>1
      <4>4. to + 1 = 2 * (f + k) /\ f + k \in Nat
        BY <1>1, <2>1, <4>3
      <4>5. \A x \in Nat : \A y \in Nat : ~ (x + 1 = 2 * y /\ x % 2 = 0)
        OBVIOUS
      <4> HIDE DEF f
      <4> QED
        BY <4>2, <4>4, <4>5
    <3> HIDE DEF f
    <3> QED
      BY <2>1, <3>1, <3>2
  <2>3. q[k] = IF 2 * k <= to - from THEN NodeHash(s[from + (2 * k - 1)], s[from + 2 * k])
                                     ELSE s[from + (2 * k - 1)]
    <3> HIDE DEF p, q, f, t, N
    <3> QED
      BY <1>3, <1>5, <2>1, <2>2
  <2>4. p[2 * k - 1] = s[from + (2 * k - 1)]
    <3> HIDE DEF p
    <3> QED
      BY <1>2, <2>1
  <2>5. 2 * k <= to - from => p[2 * k] = s[from + 2 * k]
    <3>1. k \in Nat /\ k >= 1
      BY <2>1
    <3> HIDE DEF p, f, t
    <3> QED
      BY <1>2, <3>1
  <2>6. Above(p)[k] = IF 2 * k <= to - from THEN NodeHash(p[2 * k - 1], p[2 * k]) ELSE p[2 * k - 1]
    <3> HIDE DEF p, f, t
    <3> QED
      BY <1>6, <1>7
  <2> HIDE DEF p, q, f, t
  <2> QED
    BY <2>3, <2>4, <2>5, <2>6
<1> HIDE DEF p, q, f, t
<1>9. Above(p) = q
  <2> DEFINE a == Above(p)
  <2>1. IsSeq(a) /\ IsSeq(q) /\ Len(a) = Len(q) /\ Len(a) = t - f
    BY <1>5, <1>6, <1>7
  <2>2. \A k \in 1..Len(a) : a[k] = q[k]
    BY <1>8, <2>1
  <2> HIDE DEF a
  <2>3. a = q
    BY <2>1, <2>2, SameSeq
  <2> QED
    BY <2>3 DEF a
<1> QED
  BY <1>9 DEF p, q, f, t

\* A tree has the root of the level above it.
LEMMA RootOfAbove ==
  ASSUME NEW s, IsSeq(s), Len(s) # 0
  PROVE  BuildRoot(Above(s)) = BuildRoot(s)
<1> DEFINE up == Above(s)
           n  == Height(Len(up))
<1>1. Len(s) \in Nat \ {0} /\ Len(s) - 1 \in Nat
  BY SeqIs
<1>2. IsSeq(up) /\ Len(up) \in Nat \ {0} /\ Len(up) - 1 = (Len(s) - 1) \div 2
  <2>1. Len(up) = (Len(s) + 1) \div 2 /\ IsSeq(up)
    BY AboveIs
  <2> HIDE DEF up
  <2> QED
    BY <1>1, <2>1
<1> HIDE DEF up
<1>3. n \in Nat /\ Halved(Len(up) - 1)[n] = 0
  BY <1>2, HeightIs
<1> HIDE DEF n
<1>4. Levels(up)[n] = <<BuildRoot(up)>>
  BY <1>2, <1>3, RootIs
<1>5. Halved(Len(s) - 1)[n + 1] = 0
  <2> DEFINE last == Len(s) - 1
  <2>1. last \in Nat /\ last \div 2 = Len(up) - 1
    BY <1>1, <1>2
  <2> HIDE DEF last
  <2>2. Halved(last)[n + 1] = Halved(last \div 2)[n]
    BY <1>3, <2>1, HalvedShift
  <2> QED
    BY <1>3, <2>1, <2>2 DEF last
<1>6. Levels(s)[n + 1] = <<BuildRoot(s)>>
  <2>1. n + 1 \in Nat
    BY <1>3
  <2> QED
    BY <1>1, <1>5, <2>1, RootIs
<1>7. Levels(s)[n + 1] = Levels(up)[n]
  BY <1>3, LevelsShift DEF up
<1>8. <<BuildRoot(s)>> = <<BuildRoot(up)>>
  BY <1>4, <1>6, <1>7
<1> QED
  BY <1>8 DEF up

LEMMA RootOfOne ==
  ASSUME NEW s, IsSeq(s), Len(s) = 1
  PROVE  BuildRoot(s) = s[1]
<1>1. Halved(1 - 1)[0] = 0 /\ 0 \in Nat /\ Len(s) - 1 = 1 - 1 /\ Len(s) # 0
  BY HalvedIs
<1>2. Levels(s)[0] = <<BuildRoot(s)>>
  <2>1. Halved(Len(s) - 1)[0] = 0
    BY <1>1
  <2> QED
    BY <1>1, <2>1, RootIs
<1>3. Levels(s)[0] = s
  BY LevelsIs
<1>4. s = <<BuildRoot(s)>>
  BY <1>2, <1>3
<1> QED
  BY <1>4

\* The root of a part is that of the part above it.
LEMMA PartRootOfAbove ==
  ASSUME NEW s, IsSeq(s), NEW from \in Nat, NEW to \in Nat, from < to, to <= Len(s),
         from % 2 = 0, to % 2 = 0 \/ to = Len(s)
  PROVE  PartRoot(s, from, to) = PartRoot(Above(s), from \div 2, (to + 1) \div 2)
<1> DEFINE p == SubSeq(s, from + 1, to)
<1>1. IsSeq(p) /\ Len(p) # 0
  <2>1. IsSeq(p) /\ Len(p) = to - from
    BY PartIs
  <2> HIDE DEF p
  <2> QED
    BY <2>1
<1>2. BuildRoot(Above(p)) = BuildRoot(p)
  <2> HIDE DEF p
  <2> QED
    BY <1>1, RootOfAbove
<1>3. Above(p) = SubSeq(Above(s), (from \div 2) + 1, (to + 1) \div 2)
  BY AboveOfPart
<1> QED
  BY <1>2, <1>3 DEF PartRoot

\* Splitting where the beginning has even length is splitting the level above.
LEMMA SubproofOfEven ==
  ASSUME NEW s, IsSeq(s), NEW m \in 1..Len(s), m % 2 = 0
  PROVE  Subproof(s, m) = Subproof(Above(s), m \div 2)
<1> DEFINE N  == Len(s)
           up == Above(s)
           M  == Len(up)
           h  == m \div 2
           f  == Subproofs(s, m)
           g  == Subproofs(up, h)
           Same(from, to) == f[<<from, to>>] = g[<<from \div 2, (to + 1) \div 2>>]
           Apt(from, to) == from % 2 = 0 /\ (to % 2 = 0 \/ to = N) /\ from < m /\ m <= to
           G  == { d \in Nat : \A from, to \in 0..N : to - from <= d /\ Apt(from, to) => Same(from, to) }
<1>1. N \in Nat /\ m \in Nat /\ m = 2 * h /\ h \in Nat /\ h # 0 /\ m <= N
  BY SeqIs
<1>2. IsSeq(up) /\ M = (N + 1) \div 2 /\ M \in Nat
  BY <1>1, AboveIs
<1>3. \A from, to \in 0..N : from < m /\ m <= to => f[<<from, to>>] = Nodes(f, s, m, from, to)
  BY <1>1, SubproofsIs
<1>4. \A from, to \in 0..M : from < h /\ h <= to => g[<<from, to>>] = Nodes(g, up, h, from, to)
  <2> HIDE DEF up, h
  <2> QED
    BY <1>1, <1>2, SubproofsIs
<1> HIDE DEF N, up, M, h, f, g
<1>5. ASSUME NEW d \in Nat, d \in G PROVE d + 1 \in G
  <2>1. ASSUME NEW from \in 0..N, NEW to \in 0..N, to - from <= d + 1, Apt(from, to) PROVE Same(from, to)
    <3> DEFINE from2 == from \div 2
               to2   == (to + 1) \div 2
               w     == to - from
               k     == LargestPowerBelow(w)
               k2    == LargestPowerBelow(to2 - from2)
               split == from + k
               split2 == from2 + k2
    <3>1. /\ from \in Nat /\ to \in Nat /\ from < m /\ m <= to /\ from < to /\ to <= N
          /\ from % 2 = 0 /\ (to % 2 = 0 \/ to = N) /\ from = 2 * from2 /\ from2 \in Nat /\ to2 \in Nat
      BY <1>1, <2>1
    <3>2. to2 \in 0..M /\ from2 \in 0..M /\ from2 < h /\ h <= to2 /\ from2 < to2
      BY <1>1, <1>2, <3>1
    <3>3. f[<<from, to>>] = Nodes(f, s, m, from, to) /\ g[<<from2, to2>>] = Nodes(g, up, h, from2, to2)
      <4> HIDE DEF from2, to2
      <4> QED
        BY <1>3, <1>4, <3>1, <3>2
    <3>4. PartRoot(s, from, to) = PartRoot(up, from2, to2)
      BY <3>1, PartRootOfAbove DEF N, up
    <3>5. m = to <=> h = to2
      <4>1. m = to => h = to2
        BY <1>1, <3>1
      <4>2. m # to => h # to2
        BY <1>1, <3>1
      <4> QED
        BY <4>1, <4>2
    <3>6. CASE m = to
      <4>1. <<from, to>> = <<0, N>> <=> <<from2, to2>> = <<0, M>>
        <5>1. from = 0 <=> from2 = 0
          <6> HIDE DEF from2
          <6> QED
            BY <3>1
        <5>2. to = N <=> to2 = M
          <6>1. to = 2 * h /\ to2 = h /\ to <= N
            <7> HIDE DEF to2
            <7> QED
              BY <1>1, <3>1, <3>5, <3>6
          <6> HIDE DEF to2
          <6> QED
            BY <1>1, <1>2, <6>1
        <5> QED
          BY <5>1, <5>2
      <4> HIDE DEF from2, to2
      <4>2. Nodes(f, s, m, from, to) = IF <<from, to>> = <<0, N>> THEN <<>> ELSE <<PartRoot(s, from, to)>>
        BY <3>6 DEF Nodes, N
      <4>3. Nodes(g, up, h, from2, to2) = IF <<from2, to2>> = <<0, M>> THEN <<>> ELSE <<PartRoot(up, from2, to2)>>
        BY <3>5, <3>6 DEF Nodes, M
      <4>4. Nodes(f, s, m, from, to) = Nodes(g, up, h, from2, to2)
        BY <3>4, <4>1, <4>2, <4>3
      <4> QED
        BY <3>3, <4>4 DEF from2, to2
    <3>7. CASE m # to
      <4>1. w \in Nat /\ w > 2 /\ to2 - from2 = (w + 1) \div 2
        <5>1. m < to /\ m - from >= 2
          BY <1>1, <3>1, <3>7
        <5>2. to = w + 2 * from2
          BY <3>1
        <5>3. to2 - from2 = (w + 1) \div 2
          <6>1. w \in Nat
            BY <3>1
          <6>2. \A x, y \in Nat : ((x + 2 * y) + 1) \div 2 = (x + 1) \div 2 + y
            OBVIOUS
          <6> HIDE DEF from2, w
          <6>3. to2 = (w + 1) \div 2 + from2
            BY <3>1, <5>2, <6>1, <6>2
          <6> HIDE DEF to2
          <6> QED
            BY <3>1, <6>1, <6>3
        <5> QED
          BY <3>1, <5>1, <5>3
      <4> HIDE DEF w, from2, to2
      <4>2. k = 2 * k2
        BY <4>1, SplitStep
      <4>3. k2 \in Nat \ {0} /\ k < w
        <5>1. to2 - from2 \in Nat /\ to2 - from2 > 1
          BY <4>1
        <5>2. k2 \in Nat \ {0}
          BY <5>1, SplitIs
        <5>3. k < w
          BY <4>1, SplitIs
        <5> QED
          BY <5>2, <5>3
      <4> HIDE DEF k, k2
      <4>4. /\ split = 2 * split2 /\ split \in Nat /\ split2 \in Nat /\ from < split /\ split < to
            /\ split % 2 = 0 /\ split \div 2 = split2 /\ (split + 1) \div 2 = split2 /\ split \in 0..N
        <5>1. split = 2 * split2 /\ split2 \in Nat /\ from < split /\ split < to
          BY <3>1, <4>2, <4>3 DEF w
        <5> HIDE DEF split, split2
        <5> QED
          BY <1>1, <3>1, <5>1
      <4> HIDE DEF split, split2
      <4>5. m <= split <=> h <= split2
        BY <1>1, <4>4
      <4>6. CASE m <= split
        <5>1. Same(from, split)
          <6>1. split - from <= d /\ Apt(from, split)
            BY <2>1, <3>1, <4>4, <4>6
          <6> HIDE DEF Same, Apt
          <6> QED
            BY <1>5, <4>4, <6>1
        <5>2. f[<<from, split>>] = g[<<from2, split2>>]
          BY <4>4, <5>1 DEF from2
        <5>3. PartRoot(s, split, to) = PartRoot(up, split2, to2)
          <6>1. PartRoot(s, split, to) = PartRoot(Above(s), split \div 2, (to + 1) \div 2)
            BY <3>1, <4>4, PartRootOfAbove DEF N
          <6> QED
            BY <4>4, <6>1 DEF to2, up
        <5>4. Nodes(f, s, m, from, to) = Append(f[<<from, split>>], PartRoot(s, split, to))
          BY <3>7, <4>6 DEF Nodes, split, k, w
        <5>5. Nodes(g, up, h, from2, to2) = Append(g[<<from2, split2>>], PartRoot(up, split2, to2))
          BY <3>5, <3>7, <4>5, <4>6 DEF Nodes, split2, k2
        <5>6. f[<<from, to>>] = g[<<from2, to2>>]
          BY <3>3, <5>2, <5>3, <5>4, <5>5
        <5> QED
          BY <5>6 DEF from2, to2
      <4>7. CASE ~ (m <= split)
        <5>1. Same(split, to)
          <6>1. to - split <= d /\ Apt(split, to)
            BY <1>1, <2>1, <3>1, <4>4, <4>7
          <6> HIDE DEF Same, Apt
          <6> QED
            BY <1>5, <4>4, <6>1
        <5>2. f[<<split, to>>] = g[<<split2, to2>>]
          BY <4>4, <5>1 DEF to2
        <5>3. PartRoot(s, from, split) = PartRoot(up, from2, split2)
          <6>1. PartRoot(s, from, split) = PartRoot(Above(s), from \div 2, (split + 1) \div 2)
            <7>1. split <= N
              BY <3>1, <4>4
            <7> QED
              BY <3>1, <4>4, <7>1, PartRootOfAbove DEF N
          <6> QED
            BY <4>4, <6>1 DEF from2, up
        <5>4. Nodes(f, s, m, from, to) = Append(f[<<split, to>>], PartRoot(s, from, split))
          BY <3>7, <4>7 DEF Nodes, split, k, w
        <5>5. Nodes(g, up, h, from2, to2) = Append(g[<<split2, to2>>], PartRoot(up, from2, split2))
          BY <3>5, <3>7, <4>5, <4>7 DEF Nodes, split2, k2
        <5>6. f[<<from, to>>] = g[<<from2, to2>>]
          BY <3>3, <5>2, <5>3, <5>4, <5>5
        <5> QED
          BY <5>6 DEF from2, to2
      <4> QED
        BY <4>6, <4>7
    <3> QED
      BY <3>6, <3>7
  <2> HIDE DEF Same, Apt
  <2> QED
    BY <2>1
<1>6. 0 \in G
  BY <1>1
<1> HIDE DEF G
<1>7. N \in G
  BY <1>1, <1>5, <1>6, Induction
<1>8. Same(0, N)
  <2>1. 0 \in 0..N /\ N \in 0..N /\ N - 0 <= N /\ Apt(0, N)
    BY <1>1
  <2> HIDE DEF Same, Apt
  <2> QED
    BY <1>7, <2>1 DEF G
<1>9. f[<<0, N>>] = g[<<0, M>>]
  <2>1. 0 \div 2 = 0 /\ (N + 1) \div 2 = M
    BY <1>2
  <2> QED
    BY <1>8, <2>1
<1> QED
  BY <1>9 DEF Subproof, f, g, N, M, up, h

\* The sibling of a position, or nothing.
Beside(level, at) ==
    IF at >= Paired(Len(level)) THEN <<>> ELSE <<level[IF at % 2 = 0 THEN at + 2 ELSE at]>>

\* The way up from a position begins beside it.
LEMMA BesideIs ==
  ASSUME NEW level, IsSeq(level), NEW at \in Nat, at < Len(level)
  PROVE  /\ IsSeq(Beside(level, at)) /\ IsSeq(Siblings(Above(level), at \div 2))
         /\ Siblings(level, at) = Beside(level, at) \o Siblings(Above(level), at \div 2)
<1> DEFINE up == Siblings(Above(level), at \div 2)
           x  == level[IF at % 2 = 0 THEN at + 2 ELSE at]
<1>1. Len(level) \in Nat /\ Len(level) # 0
  BY SeqIs
<1>2. IsSeq(Above(level)) /\ Len(Above(level)) = (Len(level) + 1) \div 2 /\ at \div 2 \in Nat /\ Len(Above(level)) # 0
  BY <1>1, AboveIs
<1>3. IsSeq(up) /\ (Len(Above(level)) = 1 => up = <<>>)
  <2> DEFINE y == Above(level)
             k == at \div 2
  <2>1. IsSeq(y) /\ Len(y) # 0 /\ k \in Nat
    BY <1>2
  <2> HIDE DEF y, k
  <2>2. IsSeq(Siblings(y, k)) /\ (Len(y) = 1 => Siblings(y, k) = <<>>)
    BY <2>1, SiblingsAre
  <2> QED
    BY <2>2 DEF y, k
<1>4. IsSeq(Beside(level, at))
  BY EmptyIs, OneIs DEF Beside
<1>5. CASE Len(level) = 1
  <2>1. at >= Paired(Len(level))
    BY <1>5 DEF Paired
  <2>2. Beside(level, at) = <<>>
    BY <2>1 DEF Beside
  <2>3. up = <<>>
    BY <1>2, <1>3, <1>5
  <2>4. Siblings(level, at) = <<>>
    BY <1>1, <1>5, SiblingsAre
  <2>5. <<>> \o <<>> = <<>>
    BY EmptyIs, EmptyConcat
  <2> HIDE DEF up
  <2>6. Siblings(level, at) = Beside(level, at) \o up
    BY <2>2, <2>3, <2>4, <2>5, Zenon
  <2> QED
    BY <1>3, <1>4, <2>6 DEF up
<1>6. CASE Len(level) > 1 /\ at >= Paired(Len(level))
  <2>1. Siblings(level, at) = up
    BY <1>1, <1>6, SiblingsAre
  <2>2. Beside(level, at) = <<>>
    BY <1>6 DEF Beside
  <2>3. <<>> \o up = up
    BY <1>3, EmptyConcat
  <2> HIDE DEF up
  <2>4. Siblings(level, at) = Beside(level, at) \o up
    BY <2>1, <2>2, <2>3, Zenon
  <2> QED
    BY <1>3, <1>4, <2>4 DEF up
<1>7. CASE Len(level) > 1 /\ ~ (at >= Paired(Len(level)))
  <2>1. Siblings(level, at) = <<x>> \o up
    BY <1>1, <1>7, SiblingsAre
  <2>2. Beside(level, at) = <<x>>
    BY <1>7 DEF Beside
  <2> HIDE DEF up, x
  <2>3. Siblings(level, at) = Beside(level, at) \o up
    BY <2>1, <2>2, Zenon
  <2>4. IsSeq(up)
    BY <1>3
  <2>5. IsSeq(Beside(level, at)) /\ IsSeq(up) /\ Siblings(level, at) = Beside(level, at) \o up
    BY <1>4, <2>3, <2>4, Zenon
  <2> QED
    BY <2>5, Zenon DEF up
<1>8. Len(level) = 1 \/ (Len(level) > 1 /\ at >= Paired(Len(level))) \/ (Len(level) > 1 /\ ~ (at >= Paired(Len(level))))
  BY <1>1
<1> QED
  BY <1>5, <1>6, <1>7, <1>8, Zenon

\* The way up from a position passes through the root of the half it is in, beside the
\* root of the other.
LEMMA SiblingsOfSplit ==
  ASSUME NEW s, IsSeq(s), Len(s) > 1, NEW at \in 0..(Len(s) - 1)
  PROVE  LET k     == LargestPowerBelow(Len(s))
             left  == SubSeq(s, 1, k)
             right == SubSeq(s, k + 1, Len(s))
         IN  Siblings(s, at) = IF at < k THEN Siblings(left, at) \o <<BuildRoot(right)>>
                                         ELSE Siblings(right, at - k) \o <<BuildRoot(left)>>
<1> DEFINE Half(t) == LargestPowerBelow(Len(t))
           Left(t)  == SubSeq(t, 1, Half(t))
           Right(t) == SubSeq(t, Half(t) + 1, Len(t))
           Splits(t, i) == Siblings(t, i) = IF i < Half(t) THEN Siblings(Left(t), i) \o <<BuildRoot(Right(t))>>
                                            ELSE Siblings(Right(t), i - Half(t)) \o <<BuildRoot(Left(t))>>
           G == { n \in Nat : \A t : IsSeq(t) /\ Len(t) = n /\ n > 1 => \A i \in 0..(n - 1) : Splits(t, i) }
<1>1. ASSUME NEW n \in Nat, \A j \in 0..(n - 1) : j \in G PROVE n \in G
  <2>1. ASSUME NEW t, IsSeq(t), Len(t) = n, n > 1, NEW i \in 0..(n - 1) PROVE Splits(t, i)
    <3> DEFINE k  == Half(t)
               l  == Left(t)
               r  == Right(t)
               up == Above(t)
    <3>1. k \in Nat \ {0} /\ k < n /\ i \in Nat /\ i < n
      BY <2>1, SplitIs
    <3>2. /\ IsSeq(l) /\ Len(l) = k /\ \A j \in 1..k : l[j] = t[j]
          /\ IsSeq(r) /\ Len(r) = n - k /\ \A j \in 1..(n - k) : r[j] = t[k + j]
      <4>1. l = SubSeq(t, 0 + 1, k) /\ 0 \in Nat /\ 0 < k /\ k <= Len(t) /\ n <= Len(t) /\ k - 0 = k
        BY <2>1, <3>1
      <4>2. \A j \in 1..k : 0 + j = j
        BY <3>1
      <4>3. r = SubSeq(t, k + 1, n)
        BY <2>1
      <4> HIDE DEF k, l, r
      <4>4. IsSeq(l) /\ Len(l) = k /\ \A j \in 1..k : l[j] = t[0 + j]
        <5>1. /\ IsSeq(SubSeq(t, 0 + 1, k)) /\ Len(SubSeq(t, 0 + 1, k)) = k - 0
              /\ \A j \in 1..(k - 0) : SubSeq(t, 0 + 1, k)[j] = t[0 + j]
          BY <2>1, <3>1, <4>1, PartIs
        <5> QED
          BY <4>1, <5>1
      <4>5. IsSeq(r) /\ Len(r) = n - k /\ \A j \in 1..(n - k) : r[j] = t[k + j]
        BY <2>1, <3>1, <4>1, <4>3, PartIs
      <4> QED
        BY <4>2, <4>4, <4>5
    <3>3. CASE n = 2
      <4>1. k = 1
        BY <2>1, <3>3, SplitStep
      <4>2. Len(l) = 1 /\ Len(r) = 1 /\ l[1] = t[1] /\ r[1] = t[2]
        <5> HIDE DEF k, l, r
        <5> QED
          BY <3>2, <3>3, <4>1
      <4>3. BuildRoot(l) = t[1] /\ BuildRoot(r) = t[2] /\ Siblings(l, 0) = <<>> /\ Siblings(r, 0) = <<>>
        <5> HIDE DEF l, r, k
        <5>1. BuildRoot(l) = t[1] /\ BuildRoot(r) = t[2]
          BY <3>2, <4>2, RootOfOne
        <5>0. Len(l) # 0 /\ Len(r) # 0
          BY <4>2
        <5>2. \A j \in Nat : Siblings(l, j) = <<>> /\ Siblings(r, j) = <<>>
          BY <3>2, <4>2, <5>0, SiblingsAre
        <5> QED
          BY <5>1, <5>2
      <4>4. IsSeq(up) /\ Len(up) = 1
        <5>1. (2 + 1) \div 2 = 1
          OBVIOUS
        <5> QED
          BY <2>1, <3>3, <5>1, AboveIs
      <4>5. Siblings(up, i \div 2) = <<>>
        <5>1. i \div 2 \in Nat
          BY <3>1
        <5> DEFINE j == i \div 2
        <5> HIDE DEF up, j
        <5>2. j \in Nat /\ Len(up) # 0
          BY <4>4, <5>1 DEF j
        <5>3. Siblings(up, j) = <<>>
          BY <4>4, <5>2, SiblingsAre
        <5> QED
          BY <5>3 DEF j
      <4>6. Siblings(t, i) = Beside(t, i)
        <5>1. Siblings(t, i) = Beside(t, i) \o Siblings(up, i \div 2) /\ IsSeq(Beside(t, i))
          BY <2>1, <3>1, BesideIs
        <5>2. Beside(t, i) \o <<>> = Beside(t, i)
          BY <5>1, EmptyConcat
        <5> HIDE DEF up
        <5> QED
          BY <4>5, <5>1, <5>2, Zenon
      <4>7. Paired(Len(t)) = 2
        <5>1. 2 - (2 % 2) = 2
          OBVIOUS
        <5> QED
          BY <2>1, <3>3, <5>1 DEF Paired
      <4>8. i = 0 => Beside(t, i) = <<t[2]>>
        <5>1. 0 % 2 = 0 /\ 0 + 2 = 2 /\ ~ (0 >= 2)
          OBVIOUS
        <5> QED
          BY <4>7, <5>1 DEF Beside
      <4>9. i = 1 => Beside(t, i) = <<t[1]>>
        <5>1. 1 % 2 = 1 /\ ~ (1 >= 2)
          OBVIOUS
        <5> QED
          BY <4>7, <5>1 DEF Beside
      <4>10. \A x : <<>> \o <<x>> = <<x>>
        BY OneIs, EmptyConcat
      <4>11. i = 0 \/ i = 1
        BY <3>1, <3>3
      <4>12. i = 0 => Siblings(t, i) = Siblings(l, i) \o <<BuildRoot(r)>>
        <5> HIDE DEF l, r
        <5> QED
          BY <4>3, <4>6, <4>8, <4>10, Zenon
      <4>13. i = 1 => Siblings(t, i) = Siblings(r, i - k) \o <<BuildRoot(l)>>
        <5>1. 1 - k = 0
          BY <4>1
        <5> HIDE DEF l, r, k
        <5> QED
          BY <4>3, <4>6, <4>9, <4>10, <5>1, Zenon
      <4> HIDE DEF l, r, k
      <4>14. Siblings(t, i) = IF i < k THEN Siblings(l, i) \o <<BuildRoot(r)>>
                                       ELSE Siblings(r, i - k) \o <<BuildRoot(l)>>
        <5>1. CASE i = 0
          <6>1. i < k
            BY <4>1, <5>1
          <6> QED
            BY <4>12, <5>1, <6>1, Zenon
        <5>2. CASE i = 1
          <6>1. ~ (i < k)
            BY <4>1, <5>2
          <6> QED
            BY <4>13, <5>2, <6>1, Zenon
        <5> QED
          BY <4>11, <5>1, <5>2
      <4> QED
        BY <4>14 DEF l, r, k
    <3>4. CASE n > 2
      <4> DEFINE n2 == (n + 1) \div 2
                 k2 == Half(up)
                 l2 == Left(up)
                 r2 == Right(up)
                 i2 == i \div 2
      <4>1. IsSeq(up) /\ Len(up) = n2 /\ n2 \in Nat /\ n2 > 1 /\ n2 < n /\ i2 \in Nat /\ i2 < n2
        <5>1. IsSeq(up) /\ Len(up) = n2
          BY <2>1, AboveIs
        <5>2. n2 \in Nat /\ n2 > 1 /\ n2 < n /\ i2 \in Nat /\ i2 < n2
          BY <3>1, <3>4
        <5> QED
          BY <5>1, <5>2
      <4>2. k = 2 * k2 /\ k2 \in Nat \ {0} /\ k2 < n2
        <5> HIDE DEF up
        <5>1. k = 2 * k2
          BY <2>1, <3>4, <4>1, SplitStep
        <5>2. k2 \in Nat \ {0} /\ k2 < n2
          <6> HIDE DEF n2
          <6> QED
            BY <4>1, SplitIs
        <5> QED
          BY <5>1, <5>2
      <4>3. Above(l) = l2 /\ Above(r) = r2
        <5>1. k % 2 = 0 /\ k \div 2 = k2 /\ (k + 1) \div 2 = k2 /\ 0 \div 2 = 0 /\ 0 % 2 = 0
          <6> HIDE DEF k, k2
          <6> QED
            BY <4>2
        <5>2. Above(SubSeq(t, 0 + 1, k)) = SubSeq(up, (0 \div 2) + 1, (k + 1) \div 2)
          <6>1. 0 \in Nat /\ 0 < k /\ k <= Len(t) /\ k \in Nat
            BY <2>1, <3>1
          <6> HIDE DEF k
          <6> QED
            BY <2>1, <5>1, <6>1, AboveOfPart
        <5>3. Above(SubSeq(t, k + 1, n)) = SubSeq(up, (k \div 2) + 1, n2)
          <6>1. k \in Nat /\ k < n /\ n <= Len(t) /\ n = Len(t)
            BY <2>1, <3>1
          <6> HIDE DEF k
          <6> QED
            BY <2>1, <5>1, <6>1, AboveOfPart
        <5>4. 0 + 1 = 1
          OBVIOUS
        <5>5. Above(SubSeq(t, 1, k)) = SubSeq(up, 1, k2)
          <6> HIDE DEF k, k2, up
          <6> QED
            BY <5>1, <5>2, <5>4
        <5>6. Above(SubSeq(t, k + 1, n)) = SubSeq(up, k2 + 1, n2)
          <6> HIDE DEF k, k2, up, n2
          <6> QED
            BY <5>1, <5>3
        <5> QED
          BY <2>1, <4>1, <5>5, <5>6
      <4>4. BuildRoot(l2) = BuildRoot(l) /\ BuildRoot(r2) = BuildRoot(r)
        <5>1. Len(l) # 0 /\ Len(r) # 0
          <6> HIDE DEF l, r, k
          <6> QED
            BY <3>1, <3>2
        <5> HIDE DEF l, r, l2, r2
        <5> QED
          BY <3>2, <4>3, <5>1, RootOfAbove
      <4>5. Splits(up, i2)
        <5>1. n2 \in 0..(n - 1) /\ i2 \in 0..(n2 - 1)
          BY <3>1, <4>1
        <5>2. n2 \in G
          BY <1>1, <5>1
        <5> HIDE DEF Splits, up, n2, i2
        <5> QED
          BY <4>1, <5>1, <5>2
      <4>6. Siblings(up, i2) = IF i2 < k2 THEN Siblings(Above(l), i2) \o <<BuildRoot(r)>>
                                          ELSE Siblings(Above(r), i2 - k2) \o <<BuildRoot(l)>>
        <5>1. Siblings(up, i2) = IF i2 < k2 THEN Siblings(l2, i2) \o <<BuildRoot(r2)>>
                                          ELSE Siblings(r2, i2 - k2) \o <<BuildRoot(l2)>>
          BY <4>5
        <5> HIDE DEF l, r, l2, r2, up, i2, k2
        <5> QED
          BY <4>3, <4>4, <5>1
      <4>7. Siblings(t, i) = Beside(t, i) \o Siblings(up, i2)
        BY <2>1, <3>1, BesideIs
      <4>8. CASE i < k
        <5>1. i2 < k2
          <6> HIDE DEF k, k2
          <6> QED
            BY <3>1, <4>2, <4>8
        <5>2. /\ IsSeq(Beside(l, i)) /\ IsSeq(Siblings(Above(l), i2))
              /\ Siblings(l, i) = Beside(l, i) \o Siblings(Above(l), i2)
          <6>1. i < Len(l)
            BY <3>2, <4>8
          <6> HIDE DEF l
          <6> QED
            BY <3>1, <3>2, <6>1, BesideIs
        <5>3. Beside(t, i) = Beside(l, i)
          <6>1. i < Paired(n) /\ i < Paired(k)
            <7> HIDE DEF k, k2
            <7>1. Paired(k) = k
              BY <4>2 DEF Paired
            <7>2. Paired(n) >= n - 1
              BY DEF Paired
            <7>3. Paired(n) \in Nat /\ Paired(n) % 2 = 0
              BY DEF Paired
            <7> QED
              BY <3>1, <4>2, <4>8, <7>1, <7>2, <7>3
          <6>2. i % 2 = 0 => i + 2 \in 1..k
            <7> HIDE DEF k, k2
            <7> QED
              BY <3>1, <4>2, <4>8
          <6>3. i % 2 # 0 => i \in 1..k
            <7> HIDE DEF k, k2
            <7>1. i # 0 \/ i % 2 = 0
              OBVIOUS
            <7> QED
              BY <3>1, <4>8, <7>1
          <6> DEFINE j == IF i % 2 = 0 THEN i + 2 ELSE i
          <6>4. j \in 1..k
            BY <6>2, <6>3
          <6>5. l[j] = t[j]
            <7> HIDE DEF j, l, k
            <7> QED
              BY <3>2, <6>4
          <6>6. ~ (i >= Paired(Len(t))) /\ ~ (i >= Paired(Len(l)))
            <7>1. Paired(n) \in Nat /\ Paired(k) \in Nat
              BY <3>1 DEF Paired
            <7> HIDE DEF l, k
            <7> QED
              BY <2>1, <3>1, <3>2, <6>1, <7>1
          <6>7. Beside(t, i) = <<t[j]>> /\ Beside(l, i) = <<l[j]>>
            <7> HIDE DEF l
            <7> QED
              BY <6>6 DEF Beside
          <6> HIDE DEF l, j
          <6> QED
            BY <6>5, <6>7, Zenon
        <5> DEFINE x == Beside(l, i)
                   y == Siblings(Above(l), i2)
                   z == <<BuildRoot(r)>>
        <5>4. Siblings(up, i2) = y \o z
          <6> HIDE DEF l, r, up, i2, k2
          <6> QED
            BY <4>6, <5>1
        <5>5. IsSeq(x) /\ IsSeq(y) /\ IsSeq(z)
          <6>1. IsSeq(x) /\ IsSeq(y)
            BY <5>2
          <6>2. IsSeq(z)
            BY OneIs
          <6> HIDE DEF x, y, z
          <6> QED
            BY <6>1, <6>2
        <5>6. Siblings(t, i) = x \o (y \o z)
          <6> HIDE DEF x, y, z, up, i2
          <6>1. Beside(t, i) = x
            BY <5>3 DEF x
          <6> QED
            BY <4>7, <5>4, <6>1, Zenon
        <5>7. Siblings(l, i) = x \o y
          BY <5>2
        <5> HIDE DEF x, y, z
        <5>8. (x \o y) \o z = x \o (y \o z)
          <6> IsSeq(x) /\ IsSeq(y) /\ IsSeq(z)
            BY <5>5
          <6> HIDE DEF G, l, r, k, up, Splits, Half, Left, Right
          <6> QED
            BY ConcatAssociates, SMTT(60)
        <5> HIDE DEF l, r, k
        <5>9. Siblings(t, i) = Siblings(l, i) \o z
          BY <5>6, <5>7, <5>8, Zenon
        <5>10. Siblings(t, i) = Siblings(l, i) \o <<BuildRoot(r)>>
          BY <5>9 DEF z
        <5> QED
          BY <4>8, <5>10 DEF l, r, k
      <4>9. CASE ~ (i < k)
        <5> DEFINE d == i - k
        <5>1. ~ (i2 < k2) /\ i2 - k2 = d \div 2 /\ d \in Nat /\ d < n - k
          <6>1. d \in Nat /\ i = d + 2 * k2 /\ d < n - k
            <7> HIDE DEF k, k2
            <7> QED
              BY <3>1, <4>2, <4>9
          <6>2. \A x, y \in Nat : (x + 2 * y) \div 2 = (x \div 2) + y /\ x \div 2 \in Nat
            OBVIOUS
          <6>3. i2 = (d \div 2) + k2 /\ d \div 2 \in Nat
            <7> HIDE DEF d, k2
            <7> QED
              BY <4>2, <6>1, <6>2
          <6> HIDE DEF d, k2, i2, k
          <6> QED
            BY <4>2, <6>1, <6>3
        <5>2. /\ IsSeq(Beside(r, d)) /\ IsSeq(Siblings(Above(r), d \div 2))
              /\ Siblings(r, d) = Beside(r, d) \o Siblings(Above(r), d \div 2)
          <6>1. d < Len(r)
            BY <3>2, <5>1
          <6> HIDE DEF r, d
          <6> QED
            BY <3>2, <5>1, <6>1, BesideIs
        <5>3. Beside(t, i) = Beside(r, d)
          <6>1. i = d + k /\ k = 2 * k2 /\ k2 \in Nat /\ d \in Nat /\ k \in Nat
            <7> HIDE DEF k, k2
            <7> QED
              BY <3>1, <4>2, <4>9
          <6>2. i % 2 = d % 2
            <7>1. \A x, y \in Nat : (x + 2 * y) % 2 = x % 2
              OBVIOUS
            <7> HIDE DEF d, k, k2
            <7> QED
              BY <6>1, <7>1
          <6>3. i >= Paired(n) <=> d >= Paired(n - k)
            <7>1. (n - k) % 2 = n % 2
              <8>1. \A x, y \in Nat : (x + 2 * y) % 2 = x % 2
                OBVIOUS
              <8>2. n = (n - k) + 2 * k2 /\ n - k \in Nat
                <9> HIDE DEF d, k, k2
                <9> QED
                  BY <3>1, <6>1
              <8> HIDE DEF k, k2
              <8>3. ((n - k) + 2 * k2) % 2 = (n - k) % 2
                BY <6>1, <8>1, <8>2
              <8> QED
                BY <8>2, <8>3
            <7>2. n % 2 \in Nat
              OBVIOUS
            <7> HIDE DEF d, k, k2
            <7> QED
              BY <3>1, <6>1, <7>1, <7>2 DEF Paired
          <6>4. ASSUME ~ (i >= Paired(n)) PROVE Beside(t, i) = Beside(r, d)
            <7> DEFINE j  == IF d % 2 = 0 THEN d + 2 ELSE d
                       j2 == IF i % 2 = 0 THEN i + 2 ELSE i
            <7>1. j2 = k + j
              <8> HIDE DEF d, k, k2
              <8> QED
                BY <6>1, <6>2
            <7>2. j \in 1..(n - k)
              <8>1. n - k \in Nat /\ d < n - k /\ ~ (d >= Paired(n - k))
                <9> HIDE DEF d, k
                <9> QED
                  BY <3>1, <5>1, <6>3, <6>4
              <8>2. \A x, y \in Nat : y < x /\ ~ (y >= x - (x % 2)) =>
                       (y % 2 = 0 => y + 2 <= x) /\ (y % 2 # 0 => y >= 1)
                OBVIOUS
              <8>3. (d % 2 = 0 => d + 2 <= n - k) /\ (d % 2 # 0 => d >= 1)
                <9> HIDE DEF d, k
                <9> QED
                  BY <5>1, <8>1, <8>2 DEF Paired
              <8> HIDE DEF d, k
              <8> QED
                BY <5>1, <8>1, <8>3
            <7>3. r[j] = t[j2]
              <8> HIDE DEF j, j2, r, k
              <8> QED
                BY <3>2, <7>1, <7>2
            <7>4. Beside(t, i) = <<t[j2]>>
              BY <2>1, <6>4 DEF Beside
            <7>5. Beside(r, d) = <<r[j]>>
              <8>1. ~ (d >= Paired(Len(r)))
                BY <3>2, <6>3, <6>4
              <8> HIDE DEF r, d
              <8> QED
                BY <8>1 DEF Beside
            <7> HIDE DEF r, d, j, j2
            <7> QED
              BY <7>3, <7>4, <7>5, Zenon
          <6>5. ASSUME i >= Paired(n) PROVE Beside(t, i) = Beside(r, d)
            <7>1. Beside(t, i) = <<>>
              BY <2>1, <6>5 DEF Beside
            <7>2. Beside(r, d) = <<>>
              <8>1. d >= Paired(Len(r))
                BY <3>2, <6>3, <6>5
              <8> HIDE DEF r, d
              <8> QED
                BY <8>1 DEF Beside
            <7> QED
              BY <7>1, <7>2
          <6> QED
            BY <6>4, <6>5
        <5> DEFINE x == Beside(r, d)
                   y == Siblings(Above(r), d \div 2)
                   z == <<BuildRoot(l)>>
        <5>4. Siblings(up, i2) = y \o z
          <6> HIDE DEF l, r, up, i2, k2, d
          <6> QED
            BY <4>6, <5>1
        <5>5. IsSeq(x) /\ IsSeq(y) /\ IsSeq(z)
          <6>1. IsSeq(x) /\ IsSeq(y)
            BY <5>2
          <6>2. IsSeq(z)
            BY OneIs
          <6> HIDE DEF x, y, z
          <6> QED
            BY <6>1, <6>2
        <5>6. Siblings(t, i) = x \o (y \o z)
          <6> HIDE DEF x, y, z, up, i2
          <6>1. Beside(t, i) = x
            BY <5>3 DEF x
          <6> QED
            BY <4>7, <5>4, <6>1, Zenon
        <5>7. Siblings(r, d) = x \o y
          BY <5>2
        <5> HIDE DEF x, y, z
        <5>8. (x \o y) \o z = x \o (y \o z)
          <6> IsSeq(x) /\ IsSeq(y) /\ IsSeq(z)
            BY <5>5
          <6> HIDE DEF G, l, r, k, up, Splits, Half, Left, Right
          <6> QED
            BY ConcatAssociates, SMTT(60)
        <5> HIDE DEF l, r, k, d
        <5>9. Siblings(t, i) = Siblings(r, d) \o z
          BY <5>6, <5>7, <5>8, Zenon
        <5>10. Siblings(t, i) = Siblings(r, d) \o <<BuildRoot(l)>>
          BY <5>9 DEF z
        <5> QED
          BY <4>9, <5>10 DEF l, r, k, d
      <4> QED
        BY <4>8, <4>9
    <3> QED
      BY <2>1, <3>3, <3>4
  <2> HIDE DEF Splits
  <2> QED
    BY <2>1
<1> HIDE DEF G
<1>2. Nat \subseteq G
  BY <1>1, StrongInduction
<1>3. Len(s) \in G
  BY <1>2, SeqIs
<1>4. Splits(s, at)
  <2> HIDE DEF Splits
  <2> QED
    BY <1>3 DEF G
<1> QED
  BY <1>4

\* The whole as a part, and a part of a part.
LEMMA WholeIs ==
  ASSUME NEW s, IsSeq(s)
  PROVE  SubSeq(s, 1, Len(s)) = s
<1> DEFINE t == SubSeq(s, 1, Len(s))
<1>1. Len(s) \in Nat /\ 1 \in 1..(Len(s) + 1) /\ Len(s) \in (1 - 1)..Len(s)
  BY SeqIs
<1>2. IsSeq(t) /\ Len(t) = Len(s) - 1 + 1 /\ \A k \in 1..(Len(s) - 1 + 1) : t[k] = s[1 + k - 1]
  BY <1>1, SubSeqIs
<1>3. Len(s) - 1 + 1 = Len(s) /\ \A k \in 1..Len(s) : 1 + k - 1 = k
  BY <1>1
<1> HIDE DEF t
<1>4. Len(t) = Len(s) /\ \A k \in 1..Len(t) : t[k] = s[k]
  BY <1>2, <1>3
<1>5. t = s
  BY <1>2, <1>4, SameSeq
<1> QED
  BY <1>5 DEF t

LEMMA PartOfPart ==
  ASSUME NEW s, IsSeq(s), NEW from \in Nat, NEW to \in Nat, from < to, to <= Len(s),
         NEW a \in Nat, NEW b \in Nat, a < b, b <= to - from
  PROVE  SubSeq(SubSeq(s, from + 1, to), a + 1, b) = SubSeq(s, (from + a) + 1, from + b)
<1> DEFINE p == SubSeq(s, from + 1, to)
           q == SubSeq(p, a + 1, b)
           c == from + a
           d == from + b
           r == SubSeq(s, c + 1, d)
<1>1. IsSeq(p) /\ Len(p) = to - from /\ \A k \in 1..(to - from) : p[k] = s[from + k]
  BY PartIs
<1>2. IsSeq(q) /\ Len(q) = b - a /\ \A k \in 1..(b - a) : q[k] = p[a + k]
  <2> HIDE DEF p
  <2> QED
    BY <1>1, PartIs
<1>3. Len(s) \in Nat /\ c \in Nat /\ d \in Nat /\ c < d /\ d <= Len(s) /\ d - c = b - a
  BY SeqIs
<1>4. IsSeq(r) /\ Len(r) = d - c /\ \A k \in 1..(d - c) : r[k] = s[c + k]
  <2> HIDE DEF c, d
  <2> QED
    BY <1>3, PartIs
<1>5. ASSUME NEW k \in 1..Len(q) PROVE q[k] = r[k]
  <2>1. k \in 1..(b - a) /\ a + k \in 1..(to - from) /\ c + k = from + (a + k) /\ k \in 1..(d - c)
    <3> HIDE DEF q, r
    <3> QED
      BY <1>2, <1>3
  <2> HIDE DEF p, q, r, c, d
  <2> QED
    BY <1>1, <1>2, <1>4, <2>1
<1> HIDE DEF p, q, r, c, d
<1>6. q = r
  BY <1>2, <1>3, <1>4, <1>5, SameSeq
<1> QED
  BY <1>6 DEF p, q, r, c, d

\* When the old log ends at an odd size, the nodes are its last leaf and those beside the
\* way up from it.
LEMMA SubproofOfOdd ==
  ASSUME NEW s, IsSeq(s), NEW m \in 1..(Len(s) - 1), m % 2 = 1
  PROVE  Subproof(s, m) = <<s[m]>> \o Siblings(s, m - 1)
<1> DEFINE N == Len(s)
           f == Subproofs(s, m)
           Part(from, to) == SubSeq(s, from + 1, to)
           Claim(from, to) == f[<<from, to>>] = <<s[m]>> \o Siblings(Part(from, to), (m - 1) - from)
           Apt(from, to) == /\ from % 2 = 0 /\ from < m /\ m <= to
                            /\ to % 2 = 0 \/ to = N \/ (to = m /\ from = m - 1)
           G == { d \in Nat : \A from, to \in 0..N : to - from <= d /\ Apt(from, to) => Claim(from, to) }
<1>1. N \in Nat /\ m \in Nat /\ m # 0 /\ m < N /\ m - 1 \in Nat /\ IsSeq(s)
  BY SeqIs
<1>2. \A from, to \in 0..N : from < m /\ m <= to => f[<<from, to>>] = Nodes(f, s, m, from, to)
  BY <1>1, SubproofsIs
<1> HIDE DEF N, f
<1>3. ASSUME NEW d \in Nat, d \in G PROVE d + 1 \in G
  <2>1. ASSUME NEW from \in 0..N, NEW to \in 0..N, to - from <= d + 1, Apt(from, to) PROVE Claim(from, to)
    <3> DEFINE w     == to - from
               k     == LargestPowerBelow(w)
               split == from + k
               at    == (m - 1) - from
               p     == Part(from, to)
    <3>1. /\ from \in Nat /\ to \in Nat /\ from < m /\ m <= to /\ from < to /\ to <= N
          /\ from % 2 = 0 /\ w \in Nat /\ at \in Nat /\ at < w
      BY <1>1, <2>1
    <3>2. f[<<from, to>>] = Nodes(f, s, m, from, to)
      BY <1>2, <3>1
    <3>3. IsSeq(p) /\ Len(p) = w /\ \A j \in 1..w : p[j] = s[from + j]
      <4>1. to <= Len(s)
        BY <3>1 DEF N
      <4> QED
        BY <1>1, <3>1, <4>1, PartIs
    <3>4. CASE m = to
      <4>1. from = m - 1 /\ to # N
        BY <1>1, <2>1, <3>4
      <4>2. Nodes(f, s, m, from, to) = <<PartRoot(s, from, to)>>
        <5>1. <<from, to>> # <<0, N>>
          BY <4>1
        <5> QED
          BY <3>4, <5>1 DEF Nodes, N
      <4>3. w = 1 /\ from + 1 = m
        BY <1>1, <3>4, <4>1
      <4>4. BuildRoot(p) = s[m] /\ Siblings(p, at) = <<>>
        <5> HIDE DEF p, w, at
        <5>1. Len(p) = 1 /\ Len(p) # 0 /\ p[1] = s[m]
          BY <3>3, <4>3
        <5>2. BuildRoot(p) = s[m]
          BY <3>3, <5>1, RootOfOne
        <5>3. Siblings(p, at) = <<>>
          BY <3>1, <3>3, <5>1, SiblingsAre
        <5> QED
          BY <5>2, <5>3
      <4>5. f[<<from, to>>] = <<s[m]>>
        <5>1. PartRoot(s, from, to) = BuildRoot(p)
          BY DEF PartRoot
        <5> HIDE DEF p
        <5> QED
          BY <3>2, <4>2, <4>4, <5>1
      <4>6. <<s[m]>> \o <<>> = <<s[m]>>
        BY OneIs, EmptyConcat
      <4> HIDE DEF p, at
      <4>7. f[<<from, to>>] = <<s[m]>> \o Siblings(p, at)
        BY <4>4, <4>5, <4>6, Zenon
      <4> QED
        BY <4>7 DEF p, at
    <3>5. CASE m # to
      <4>1. w > 1 /\ m < to
        BY <1>1, <3>1, <3>5
      <4>2. k \in Nat \ {0} /\ k < w
        <5> HIDE DEF w
        <5> QED
          BY <3>1, <4>1, SplitIs
      <4>3. w = 2 => k = 1
        BY SplitStep
      <4>4. w > 2 => k % 2 = 0
        <5> DEFINE v == (w + 1) \div 2
        <5>1. w > 2 => v \in Nat /\ v > 1
          BY <3>1
        <5> HIDE DEF v, w
        <5>2. w > 2 => LargestPowerBelow(v) \in Nat
          BY <5>1, SplitIs
        <5>3. w > 2 => k = 2 * LargestPowerBelow(v)
          BY <3>1, SplitStep DEF v
        <5> HIDE DEF k
        <5> QED
          BY <5>2, <5>3
      <4> HIDE DEF k
      <4>5. /\ split \in 0..N /\ from < split /\ split < to /\ split \in Nat
            /\ split - from = k /\ to - split = w - k /\ to = from + w
        BY <1>1, <3>1, <4>2
      <4>6. PartRoot(s, from, split) = BuildRoot(SubSeq(p, 1, k)) /\ SubSeq(p, 1, k) = Part(from, split)
        <5>1. SubSeq(SubSeq(s, from + 1, to), 0 + 1, k) = SubSeq(s, (from + 0) + 1, from + k)
          <6>1. to <= Len(s) /\ 0 \in Nat /\ k \in Nat /\ 0 < k /\ k <= to - from
            BY <3>1, <4>2 DEF N
          <6> QED
            BY <1>1, <3>1, <6>1, PartOfPart
        <5>2. 0 + 1 = 1 /\ from + 0 = from
          BY <3>1
        <5>3. SubSeq(p, 1, k) = Part(from, split)
          <6> HIDE DEF k
          <6> QED
            BY <5>1, <5>2
        <5> QED
          BY <5>3 DEF PartRoot
      <4>7. PartRoot(s, split, to) = BuildRoot(SubSeq(p, k + 1, w)) /\ SubSeq(p, k + 1, w) = Part(split, to)
        <5>1. SubSeq(SubSeq(s, from + 1, to), k + 1, w) = SubSeq(s, (from + k) + 1, from + w)
          <6>1. to <= Len(s) /\ k \in Nat /\ w \in Nat /\ k < w /\ w <= to - from
            BY <3>1, <4>2 DEF N
          <6> HIDE DEF w
          <6> QED
            BY <1>1, <3>1, <6>1, PartOfPart
        <5>2. SubSeq(p, k + 1, w) = Part(split, to)
          <6>1. from + w = to
            BY <4>5
          <6> HIDE DEF w
          <6> QED
            BY <5>1, <6>1
        <5> QED
          BY <5>2 DEF PartRoot
      <4> DEFINE left  == Part(from, split)
                 right == Part(split, to)
      <4>8. Siblings(p, at) = IF at < k THEN Siblings(left, at) \o <<PartRoot(s, split, to)>>
                                        ELSE Siblings(right, at - k) \o <<PartRoot(s, from, split)>>
        <5> DEFINE l == SubSeq(p, 1, k)
                   r == SubSeq(p, k + 1, w)
        <5>1. Siblings(p, at) = IF at < k THEN Siblings(l, at) \o <<BuildRoot(r)>>
                                          ELSE Siblings(r, at - k) \o <<BuildRoot(l)>>
          <6>1. at \in 0..(Len(p) - 1) /\ Len(p) > 1 /\ Len(p) = w
            <7> HIDE DEF p, at, w
            <7> QED
              BY <3>1, <3>3, <4>1
          <6> HIDE DEF p, at, w
          <6>2. Siblings(p, at) = IF at < LargestPowerBelow(Len(p))
                   THEN Siblings(SubSeq(p, 1, LargestPowerBelow(Len(p))), at)
                          \o <<BuildRoot(SubSeq(p, LargestPowerBelow(Len(p)) + 1, Len(p)))>>
                   ELSE Siblings(SubSeq(p, LargestPowerBelow(Len(p)) + 1, Len(p)), at - LargestPowerBelow(Len(p)))
                          \o <<BuildRoot(SubSeq(p, 1, LargestPowerBelow(Len(p))))>>
            BY <3>3, <6>1, SiblingsOfSplit
          <6>3. LargestPowerBelow(Len(p)) = k
            BY <6>1 DEF k
          <6> QED
            BY <6>1, <6>2, <6>3
        <5>2. l = left /\ r = right /\ BuildRoot(l) = PartRoot(s, from, split) /\ BuildRoot(r) = PartRoot(s, split, to)
          BY <4>6, <4>7
        <5> HIDE DEF l, r, left, right, p, at
        <5> QED
          BY <5>1, <5>2
      <4>9. CASE m <= split
        <5>1. at < k
          BY <1>1, <3>1, <4>2, <4>9
        <5>2. Apt(from, split) /\ split - from <= d
          <6>1. split % 2 = 0 \/ (split = m /\ from = m - 1)
            <7>1. CASE w = 2
              <8>1. split = from + 1
                BY <4>3, <7>1
              <8> QED
                BY <1>1, <3>1, <4>9, <8>1
            <7>2. CASE w > 2
              BY <3>1, <4>2, <4>4, <7>2
            <7> QED
              BY <3>1, <4>1, <7>1, <7>2
          <6>2. split - from <= d
            BY <2>1, <3>1, <4>5
          <6> HIDE DEF split
          <6> QED
            BY <3>1, <4>9, <6>1, <6>2
        <5>3. Claim(from, split)
          <6> HIDE DEF Apt, Claim, split
          <6> QED
            BY <1>3, <4>5, <5>2
        <5>4. f[<<from, split>>] = <<s[m]>> \o Siblings(left, at)
          BY <5>3
        <5>5. Nodes(f, s, m, from, to) = Append(f[<<from, split>>], PartRoot(s, split, to))
          BY <3>5, <4>9 DEF Nodes, k
        <5> DEFINE x == <<s[m]>>
                   y == Siblings(left, at)
                   z == <<PartRoot(s, split, to)>>
        <5>6. IsSeq(x) /\ IsSeq(z)
          BY OneIs
        <5>7. IsSeq(y)
          <6>1. IsSeq(left) /\ Len(left) # 0 /\ at \in Nat
            <7>1. split <= Len(s) /\ from \in Nat /\ split \in Nat /\ from < split
              BY <3>1, <4>5 DEF N
            <7> HIDE DEF split
            <7>2. IsSeq(left) /\ Len(left) = split - from
              BY <1>1, <7>1, PartIs
            <7> QED
              BY <3>1, <7>1, <7>2
          <6> HIDE DEF left, at
          <6> QED
            BY <6>1, SiblingsAre
        <5>8. Siblings(p, at) = y \o z
          <6> HIDE DEF p, at, left, right, k
          <6> QED
            BY <4>8, <5>1
        <5>9. f[<<from, to>>] = Append(x \o y, PartRoot(s, split, to))
          <6> HIDE DEF at, left, split
          <6> QED
            BY <3>2, <5>4, <5>5, Zenon
        <5> HIDE DEF x, y
        <5>10. Append(x \o y, PartRoot(s, split, to)) = (x \o y) \o z
          <6>1. IsSeq(x \o y)
            BY <5>6, <5>7, ConcatIs
          <6> HIDE DEF split
          <6> QED
            BY <6>1, AppendIs
        <5> HIDE DEF z
        <5>11. (x \o y) \o z = x \o (y \o z)
          <6> IsSeq(x) /\ IsSeq(y) /\ IsSeq(z)
            BY <5>6, <5>7
          <6> HIDE DEF G, p, at, left, right, split, Claim, Apt, Part, w
          <6> QED
            BY ConcatAssociates, SMTT(60)
        <5> HIDE DEF p, at, left, right, split
        <5>12. f[<<from, to>>] = x \o Siblings(p, at)
          BY <5>8, <5>9, <5>10, <5>11, Zenon
        <5> QED
          BY <5>12 DEF x, p, at
      <4>10. CASE ~ (m <= split)
        <5>1. ~ (at < k) /\ at - k = (m - 1) - split
          BY <1>1, <3>1, <4>2, <4>10
        <5>2. Apt(split, to) /\ to - split <= d
          <6>1. split % 2 = 0
            <7>1. w > 2
              <8>1. w # 2
                <9>1. w = 2 => split = from + 1
                  BY <4>3
                <9> QED
                  BY <1>1, <3>1, <4>1, <4>10, <9>1
              <8> QED
                BY <3>1, <4>1, <8>1
            <7> QED
              BY <3>1, <4>2, <4>4, <7>1
          <6>2. to - split <= d
            BY <2>1, <3>1, <4>5
          <6>3. to % 2 = 0 \/ to = N
            BY <2>1, <3>5
          <6>4. split < m /\ m <= to
            BY <1>1, <3>1, <4>5, <4>10
          <6> HIDE DEF split
          <6> QED
            BY <6>1, <6>2, <6>3, <6>4
        <5>3. Claim(split, to)
          <6> HIDE DEF Apt, Claim, split
          <6> QED
            BY <1>3, <4>5, <5>2
        <5>4. f[<<split, to>>] = <<s[m]>> \o Siblings(right, at - k)
          <6>1. f[<<split, to>>] = <<s[m]>> \o Siblings(right, (m - 1) - split)
            BY <5>3
          <6> HIDE DEF at, right, split
          <6> QED
            BY <5>1, <6>1
        <5>5. Nodes(f, s, m, from, to) = Append(f[<<split, to>>], PartRoot(s, from, split))
          BY <3>5, <4>10 DEF Nodes, k
        <5> DEFINE x == <<s[m]>>
                   y == Siblings(right, at - k)
                   z == <<PartRoot(s, from, split)>>
        <5>6. IsSeq(x) /\ IsSeq(z)
          BY OneIs
        <5>7. IsSeq(y)
          <6> DEFINE e == at - k
          <6>1. IsSeq(right) /\ Len(right) # 0 /\ e \in Nat
            <7>1. to <= Len(s) /\ to \in Nat /\ split \in Nat /\ split < to
              BY <3>1, <4>5 DEF N
            <7>2. e \in Nat
              <8> HIDE DEF at
              <8> QED
                BY <3>1, <4>2, <5>1
            <7> HIDE DEF split, e
            <7>3. IsSeq(right) /\ Len(right) = to - split
              BY <1>1, <7>1, PartIs
            <7> QED
              BY <7>1, <7>2, <7>3
          <6> HIDE DEF right, e
          <6>2. IsSeq(Siblings(right, e))
            BY <6>1, SiblingsAre
          <6> QED
            BY <6>2 DEF e
        <5>8. Siblings(p, at) = y \o z
          <6> HIDE DEF p, at, left, right, k
          <6> QED
            BY <4>8, <5>1
        <5>9. f[<<from, to>>] = Append(x \o y, PartRoot(s, from, split))
          <6> HIDE DEF at, right, split
          <6> QED
            BY <3>2, <5>4, <5>5, Zenon
        <5> HIDE DEF x, y
        <5>10. Append(x \o y, PartRoot(s, from, split)) = (x \o y) \o z
          <6>1. IsSeq(x \o y)
            BY <5>6, <5>7, ConcatIs
          <6> HIDE DEF split
          <6> QED
            BY <6>1, AppendIs
        <5> HIDE DEF z
        <5>11. (x \o y) \o z = x \o (y \o z)
          <6> IsSeq(x) /\ IsSeq(y) /\ IsSeq(z)
            BY <5>6, <5>7
          <6> HIDE DEF G, p, at, left, right, split, Claim, Apt, Part, w
          <6> QED
            BY ConcatAssociates, SMTT(60)
        <5> HIDE DEF p, at, left, right, split
        <5>12. f[<<from, to>>] = x \o Siblings(p, at)
          BY <5>8, <5>9, <5>10, <5>11, Zenon
        <5> QED
          BY <5>12 DEF x, p, at
      <4> QED
        BY <4>9, <4>10
    <3> QED
      BY <3>4, <3>5
  <2> HIDE DEF Claim, Apt
  <2> QED
    BY <2>1
<1>4. 0 \in G
  BY <1>1
<1> HIDE DEF G
<1>5. N \in G
  BY <1>1, <1>3, <1>4, Induction
<1>6. Claim(0, N)
  <2>1. 0 \in 0..N /\ N \in 0..N /\ N - 0 <= N /\ Apt(0, N)
    BY <1>1
  <2> HIDE DEF Claim, Apt
  <2> QED
    BY <1>5, <2>1 DEF G
<1>7. SubSeq(s, 0 + 1, N) = s
  <2>1. 0 + 1 = 1 /\ N = Len(s)
    BY DEF N
  <2> QED
    BY <1>1, <2>1, WholeIs
<1>8. (m - 1) - 0 = m - 1
  BY <1>1
<1>9. f[<<0, N>>] = <<s[m]>> \o Siblings(s, m - 1)
  BY <1>6, <1>7, <1>8
<1> QED
  BY <1>9 DEF Subproof, f, N

\* Whatever the size the old log ends at, the nodes are the last one its right border
\* shares with the new tree, and those beside the way up from it.
LEMMA SubproofIs ==
  ASSUME NEW s, IsSeq(s), NEW m \in 1..(Len(s) - 1)
  PROVE  Subproof(s, m) = <<Levels(s)[Border(m)][Halved(m - 1)[Border(m)] + 1]>>
                          \o Siblings(Levels(s)[Border(m)], Halved(m - 1)[Border(m)])
<1> DEFINE Shape(level, at) == <<level[at + 1]>> \o Siblings(level, at)
           Claim(t, n) == Subproof(t, n) = Shape(Levels(t)[Border(n)], Halved(n - 1)[Border(n)])
           G == { n \in Nat : \A t : IsSeq(t) /\ n \in 1..(Len(t) - 1) => Claim(t, n) }
<1>1. ASSUME NEW n \in Nat, \A j \in 0..(n - 1) : j \in G PROVE n \in G
  <2>1. ASSUME NEW t, IsSeq(t), n \in 1..(Len(t) - 1) PROVE Claim(t, n)
    <3>1. Len(t) \in Nat /\ n # 0 /\ n < Len(t) /\ n - 1 \in Nat
      BY <2>1, SeqIs
    <3>2. CASE n % 2 = 1
      <4>1. Border(n) = 0 /\ Halved(n - 1)[0] = n - 1 /\ Levels(t)[0] = t
        BY <3>1, <3>2, BorderOfOdd, HalvedIs, LevelsIs
      <4>2. Subproof(t, n) = <<t[n]>> \o Siblings(t, n - 1)
        BY <2>1, <3>2, SubproofOfOdd
      <4>3. (n - 1) + 1 = n
        OBVIOUS
      <4>4. Subproof(t, n) = Shape(t, n - 1)
        BY <4>2, <4>3
      <4> HIDE DEF Shape
      <4> QED
        BY <4>1, <4>4
    <3>3. CASE n % 2 = 0
      <4> DEFINE h == n \div 2
                 up == Above(t)
                 b == Border(h)
      <4>1. h \in Nat /\ h # 0 /\ h \in 0..(n - 1) /\ n = 2 * h /\ (n - 1) \div 2 = h - 1
        BY <3>1, <3>3
      <4>2. IsSeq(up) /\ Len(up) = (Len(t) + 1) \div 2
        BY <2>1, AboveIs
      <4>3. h \in 1..(Len(up) - 1)
        <5> HIDE DEF h, up
        <5> QED
          BY <3>1, <4>1, <4>2
      <4>4. Claim(up, h)
        <5>1. h \in G
          BY <1>1, <4>1
        <5> HIDE DEF Claim, h, up
        <5> QED
          BY <4>2, <4>3, <5>1
      <4>5. Subproof(t, n) = Subproof(up, h)
        <5>1. n \in 1..Len(t)
          BY <3>1
        <5> QED
          BY <2>1, <3>3, <5>1, SubproofOfEven
      <4>6. Border(n) = b + 1 /\ b \in Nat
        <5>1. Border(n) = b + 1
          BY <3>1, <3>3, BorderStep
        <5>2. b \in 0..Height(h) /\ Height(h) \in 0..(h - 1)
          <6> HIDE DEF h
          <6> QED
            BY <4>1, BorderIs, HeightIs
        <5> HIDE DEF b, h
        <5>3. b \in Nat
          BY <5>2
        <5> QED
          BY <5>1, <5>3
      <4>7. Levels(t)[b + 1] = Levels(up)[b] /\ Halved(n - 1)[b + 1] = Halved(h - 1)[b]
        <5> HIDE DEF b, h
        <5>1. Levels(t)[b + 1] = Levels(up)[b]
          BY <4>6, LevelsShift
        <5>2. Halved(n - 1)[b + 1] = Halved((n - 1) \div 2)[b]
          BY <3>1, <4>6, HalvedShift
        <5> QED
          BY <4>1, <5>1, <5>2
      <4> HIDE DEF Shape, h, up, b
      <4>8. Subproof(up, h) = Shape(Levels(up)[b], Halved(h - 1)[b])
        BY <4>4 DEF b
      <4> QED
        BY <4>5, <4>6, <4>7, <4>8
    <3> QED
      BY <3>2, <3>3
  <2> HIDE DEF Claim
  <2> QED
    BY <2>1
<1> HIDE DEF G
<1>2. Nat \subseteq G
  BY <1>1, StrongInduction
<1>3. m \in Nat /\ m \in G
  BY <1>2, SeqIs
<1>4. Claim(s, m)
  <2> HIDE DEF Claim
  <2> QED
    BY <1>3 DEF G
<1> QED
  BY <1>4

\* A proof built for the first m leaves convinces of a root exactly when it is theirs.
THEOREM ConsistentOnlyWithPrefix ==
  ASSUME NEW s, IsSeq(s), NEW m \in 1..Len(s), NEW claim
  PROVE  VerifyConsistency([old |-> claim, new |-> BuildRoot(s)], m, Len(s), BuildConsistency(s, m))
         <=> claim = BuildRoot(SubSeq(s, 1, m))
<1> DEFINE N == Len(s)
           roots == [old |-> claim, new |-> BuildRoot(s)]
           nodes == Subproof(s, m)
           proof == BuildConsistency(s, m)
           prefix == BuildRoot(SubSeq(s, 1, m))
           whole == BuildRoot(s)
           Verified == VerifyConsistency(roots, m, N, proof)
<1>1. N \in Nat /\ m \in Nat /\ m # 0 /\ m > 0 /\ m <= N
  BY SeqIs
<1>2. roots.old = claim /\ roots.new = whole
  OBVIOUS
<1>3. m \in PowersTo(m) <=> IsPower(m)
  <2>1. PowersTo(m) = { p \in 1..m : IsPower(p) } /\ m \in 1..m
    BY <1>1, PowersToIs
  <2> QED
    BY <2>1
<1>4. CASE m = N
  <2>1. proof = nodes
    BY <1>1, <1>4 DEF BuildConsistency
  <2>2. nodes = <<>>
    <3>1. Subproofs(s, m)[<<0, N>>] = Nodes(Subproofs(s, m), s, m, 0, N)
      <4>1. 0 \in 0..N /\ N \in 0..N /\ 0 < m /\ m <= N
        BY <1>1
      <4> QED
        BY <1>1, <4>1, SubproofsIs
    <3>2. Nodes(Subproofs(s, m), s, m, 0, N) = <<>>
      BY <1>4 DEF Nodes
    <3> QED
      BY <3>1, <3>2 DEF Subproof
  <2>3. prefix = whole
    BY <1>4, WholeIs
  <2> HIDE DEF roots, proof, prefix, whole, N, nodes
  <2>4. Verified <=> roots.old = roots.new /\ proof = <<>>
    BY <1>1, <1>4 DEF VerifyConsistency
  <2>5. Verified <=> claim = prefix
    BY <1>2, <2>1, <2>2, <2>3, <2>4
  <2> QED
    BY <2>5 DEF Verified, roots, proof, prefix, whole, N
<1>5. CASE m # N
  <2> DEFINE b   == Border(m)
             at  == Halved(m - 1)[b]
             x   == Levels(s)[b][at + 1]
             sib == Siblings(Levels(s)[b], at)
             Top(start) == Rebuild(start, m, N)[Height(N)]
             Done(old) == [old |-> old, new |-> whole, fits |-> TRUE, nodes |-> <<>>]
  <2>1. m \in 1..(N - 1) /\ m < N /\ m <= N
    BY <1>1, <1>5
  <2>2. nodes = <<x>> \o sib
    BY <2>1, SubproofIs
  <2>3. at \in Nat /\ IsSeq(sib)
    <3> DEFINE l == Levels(s)[b]
    <3>1. b \in Nat /\ b <= Height(N) /\ m - 1 \in Nat
      BY <2>1, PrefixIs
    <3>2. at \in Nat
      BY <3>1, HalvedIs
    <3>3. IsSeq(l) /\ Len(l) # 0
      <4>1. IsSeq(l) /\ Len(l) = Halved(N - 1)[b] + 1 /\ N - 1 \in Nat
        <5>1. Len(s) # 0 /\ N - 1 \in Nat
          BY <1>1
        <5> HIDE DEF b
        <5> QED
          BY <3>1, <5>1, LevelIs
      <4>2. Halved(N - 1)[b] \in Nat
        BY <3>1, <4>1, HalvedIs
      <4> HIDE DEF l
      <4> QED
        BY <4>1, <4>2
    <3> HIDE DEF l, at
    <3>4. IsSeq(Siblings(l, at))
      BY <3>2, <3>3, SiblingsAre
    <3> QED
      BY <3>2, <3>4 DEF l
  <2> HIDE DEF x, sib
  <2>4. nodes # <<>> /\ Head(nodes) = x /\ Tail(nodes) = sib
    <3>1. <<x>> \o sib # <<>> /\ Head(<<x>> \o sib) = x /\ Tail(<<x>> \o sib) = sib
      BY <2>3, ConsIs
    <3> QED
      BY <2>2, <3>1
  <2>5. IsPower(m) <=> at = 0
    BY <1>1, CompleteIs
  <2>6. ASSUME NEW start, NEW carried, carried = (at > 0),
               start = [old |-> IF carried THEN Head(proof) ELSE claim,
                        new |-> IF carried THEN Head(proof) ELSE claim, fits |-> TRUE,
                        nodes |-> IF carried THEN Tail(proof) ELSE proof]
        PROVE  Verified <=> (carried => proof # <<>>) /\ Top(start) = Done(claim)
    <3> HIDE DEF proof, roots, whole, N
    <3> QED
      BY <1>1, <1>2, <1>5, <2>1, <2>6 DEF VerifyConsistency
  <2>7. CASE at = 0
    <3>1. x = prefix
      <4>1. Levels(SubSeq(s, 1, m))[b][at + 1] = Levels(s)[b][at + 1]
        <5>1. b \in 0..Border(m) /\ m \in 1..Len(s)
          BY <1>1, <2>1, PrefixIs
        <5> QED
          BY <5>1, SharedBorder
      <4>2. Levels(SubSeq(s, 1, m))[b] = <<prefix>>
        <5> DEFINE p == SubSeq(s, 1, m)
        <5>1. IsSeq(p) /\ Len(p) = m /\ b \in Nat
          BY <2>1, PrefixIs
        <5>2. Len(p) # 0 /\ Halved(Len(p) - 1)[b] = 0
          BY <1>1, <2>7, <5>1
        <5> HIDE DEF p
        <5>3. Levels(p)[b] = <<BuildRoot(p)>>
          BY <5>1, <5>2, RootIs
        <5> QED
          BY <5>3 DEF p
      <4>3. at + 1 = 1
        BY <2>7
      <4> HIDE DEF prefix, at
      <4> QED
        BY <4>1, <4>2, <4>3 DEF x
    <3>2. proof = sib
      <4>1. m \in PowersTo(m)
        BY <1>3, <2>5, <2>7
      <4>2. Head(nodes) = BuildRoot(SubSeq(s, 1, m))
        BY <2>4, <3>1
      <4>3. proof = Tail(nodes)
        <5> HIDE DEF nodes
        <5> QED
          BY <2>1, <2>4, <4>1, <4>2 DEF BuildConsistency, nodes
      <4> QED
        BY <2>4, <4>3
    <3> DEFINE start == [old |-> claim, new |-> claim, fits |-> TRUE, nodes |-> sib]
    <3>3. Verified <=> Top(start) = Done(claim)
      <4>1. FALSE = (at > 0)
        BY <2>7
      <4>2. start = [old |-> IF FALSE THEN Head(proof) ELSE claim,
                     new |-> IF FALSE THEN Head(proof) ELSE claim, fits |-> TRUE,
                     nodes |-> IF FALSE THEN Tail(proof) ELSE proof]
        BY <3>2
      <4> HIDE DEF Verified, Top, Done, start, at, proof
      <4>3. Verified <=> (FALSE => proof # <<>>) /\ Top(start) = Done(claim)
        BY <2>6, <4>1, <4>2
      <4> QED
        BY <4>3
    <3>4. start = [old |-> claim, new |-> claim, fits |-> TRUE, nodes |-> Siblings(Levels(s)[Border(m)], 0)]
      BY <2>7 DEF sib
    <3>5. Halved(m - 1)[Border(m)] = 0
      BY <2>7
    <3> HIDE DEF start
    <3>6. Top(start) = Done(claim) <=> claim = prefix
      BY <2>1, <3>4, <3>5, RebuiltFromClaim
    <3>7. Verified <=> claim = prefix
      BY <3>3, <3>6
    <3> QED
      BY <3>7
  <2>8. CASE at # 0
    <3>1. ~ IsPower(m) /\ m \notin PowersTo(m)
      BY <1>3, <2>5, <2>8
    <3>2. proof = nodes
      BY <3>1 DEF BuildConsistency
    <3> DEFINE start == [old |-> x, new |-> x, fits |-> TRUE, nodes |-> sib]
    <3>3. Verified <=> Top(start) = Done(claim)
      <4>1. TRUE = (at > 0) /\ proof # <<>> /\ Head(proof) = x /\ Tail(proof) = sib
        BY <2>3, <2>4, <2>8, <3>2
      <4> HIDE DEF proof
      <4>2. start = [old |-> IF TRUE THEN Head(proof) ELSE claim,
                     new |-> IF TRUE THEN Head(proof) ELSE claim, fits |-> TRUE,
                     nodes |-> IF TRUE THEN Tail(proof) ELSE proof]
        BY <4>1
      <4> HIDE DEF Verified, Top, Done, start, at
      <4>3. Verified <=> (TRUE => proof # <<>>) /\ Top(start) = Done(claim)
        BY <2>6, <4>1, <4>2
      <4> QED
        BY <4>1, <4>3
    <3>4. start = LET c    == Border(m)
                      node == Levels(s)[c][Halved(m - 1)[c] + 1]
                  IN  [old |-> node, new |-> node, fits |-> TRUE,
                       nodes |-> Siblings(Levels(s)[c], Halved(m - 1)[c])]
      BY DEF x, sib
    <3> HIDE DEF start
    <3>5. Top(start) = Done(prefix)
      BY <2>1, <3>4, RebuiltFromBorder
    <3>6. Done(prefix) = Done(claim) <=> claim = prefix
      <4> HIDE DEF prefix, whole
      <4>1. Done(prefix).old = prefix /\ Done(claim).old = claim
        OBVIOUS
      <4> QED
        BY <4>1
    <3> HIDE DEF Top, Done, Verified, prefix
    <3>7. Verified <=> claim = prefix
      BY <3>3, <3>5, <3>6
    <3> QED
      BY <3>7 DEF Verified, prefix
  <2> QED
    BY <2>7, <2>8
<1> QED
  BY <1>4, <1>5

---------------------------------------------------------------------------
(* The log.                                                              *)

\* The entry at the end of a log that is appended to is as the chain wants it.
LEMMA EntryIs ==
  ASSUME NEW index, NEW prev, NEW payload
  PROVE  WellFormed(Entry(index, prev, payload), index, prev) /\ Entry(index, prev, payload).payload = payload
<1> DEFINE blank == [version |-> Version, index |-> index, prev |-> prev, payload |-> payload,
                     payloadHash |-> PayloadHash(payload), at |-> "then", hash |-> Genesis]
           hash  == EntryHash(blank)
           entry == [blank EXCEPT !.hash = hash]
<1>1. Entry(index, prev, payload) = entry
  BY DEF Entry
<1> HIDE DEF hash
<1>2. entry = [version |-> Version, index |-> index, prev |-> prev, payload |-> payload,
               payloadHash |-> PayloadHash(payload), at |-> "then", hash |-> hash]
  OBVIOUS
<1>3. EntryHash(entry) = hash /\ entry.hash = hash
  BY <1>2 DEF EntryHash, hash
<1> HIDE DEF blank
<1>4. /\ entry.index = index /\ entry.version = Version /\ entry.prev = prev /\ entry.payload = payload
      /\ entry.payloadHash = PayloadHash(payload)
  BY <1>2
<1> HIDE DEF entry
<1> QED
  BY <1>1, <1>3, <1>4 DEF WellFormed

\* A chain that is appended to is a chain, ...
LEMMA AppendedIs ==
  ASSUME NEW entries, IsSeq(entries), ChainIntact(entries), NEW payload
  PROVE  LET more == Appended(entries, payload)
         IN  /\ IsSeq(more) /\ Len(more) = Len(entries) + 1 /\ ChainIntact(more)
             /\ \A k \in 1..Len(entries) : more[k] = entries[k]
             /\ more[Len(entries) + 1].payload = payload
<1> DEFINE n    == Len(entries)
           e    == Entry(n, LastHash(entries), payload)
           more == Appended(entries, payload)
<1>1. n \in Nat
  BY SeqIs
<1>2. more = entries \o <<e>>
  BY AppendIs DEF Appended
<1>3. WellFormed(e, n, LastHash(entries)) /\ e.payload = payload
  BY EntryIs
<1> HIDE DEF e
<1>4. /\ IsSeq(more) /\ Len(more) = n + 1
      /\ \A k \in 1..(n + 1) : more[k] = IF k <= n THEN entries[k] ELSE <<e>>[k - n]
  BY <1>2, OneIs, ConcatIs
<1>5. (\A k \in 1..n : more[k] = entries[k]) /\ more[n + 1] = e
  BY <1>1, <1>4
<1>6. \A k \in 1..(n + 1) : SubSeq(more, 1, k - 1) = SubSeq(entries, 1, k - 1)
  <2>1. ASSUME NEW k \in 1..(n + 1) PROVE SubSeq(more, 1, k - 1) = SubSeq(entries, 1, k - 1)
    <3> DEFINE m == k - 1
               a == SubSeq(more, 1, m)
               b == SubSeq(entries, 1, m)
    <3>1. m \in Nat /\ m <= n /\ 1 \in 1..(n + 1) /\ 1 \in 1..(n + 1 + 1) /\ m \in (1 - 1)..n /\ m \in (1 - 1)..(n + 1)
      BY <1>1
    <3> HIDE DEF more, m
    <3>2. IsSeq(a) /\ Len(a) = m - 1 + 1 /\ \A j \in 1..(m - 1 + 1) : a[j] = more[1 + j - 1]
      BY <1>4, <3>1, SubSeqIs
    <3>3. IsSeq(b) /\ Len(b) = m - 1 + 1 /\ \A j \in 1..(m - 1 + 1) : b[j] = entries[1 + j - 1]
      BY <3>1, SubSeqIs
    <3>4. m - 1 + 1 = m /\ \A j \in 1..m : 1 + j - 1 = j /\ j \in 1..n
      BY <1>1, <3>1
    <3> HIDE DEF a, b, n
    <3>5. Len(a) = Len(b) /\ \A j \in 1..Len(a) : a[j] = b[j]
      BY <1>5, <3>2, <3>3, <3>4
    <3>6. a = b
      BY <3>2, <3>3, <3>5, SameSeq
    <3> QED
      BY <3>6 DEF a, b, m
  <2> QED
    BY <2>1
<1>7. SubSeq(entries, 1, n) = entries
  BY WholeIs
<1>8. DOMAIN entries = 1..n /\ DOMAIN more = 1..(n + 1)
  BY <1>4, SeqIs
<1> HIDE DEF more
<1>9. ChainIntact(more)
  <2>1. ASSUME NEW k \in 1..(n + 1) PROVE WellFormed(more[k], k - 1, LastHash(SubSeq(more, 1, k - 1)))
    <3>1. CASE k <= n
      <4>1. k \in 1..n
        BY <3>1, <1>1
      <4>2. WellFormed(entries[k], k - 1, LastHash(SubSeq(entries, 1, k - 1)))
        BY <1>8, <4>1 DEF ChainIntact
      <4> QED
        BY <1>5, <1>6, <4>1, <4>2
    <3>2. CASE k = n + 1
      <4>1. k - 1 = n /\ more[k] = e
        BY <1>1, <1>5, <3>2
      <4>2. SubSeq(more, 1, k - 1) = entries
        BY <1>6, <1>7, <4>1
      <4> QED
        BY <1>3, <4>1, <4>2
    <3> QED
      BY <1>1, <3>1, <3>2
  <2> QED
    BY <1>8, <2>1 DEF ChainIntact
<1> QED
  BY <1>3, <1>4, <1>5, <1>9 DEF more

\* ... and so is one written from its genesis on.
LEMMA LogOfIs ==
  ASSUME NEW payloads, IsSeq(payloads)
  PROVE  /\ IsSeq(LogOf(payloads)) /\ Len(LogOf(payloads)) = Len(payloads) /\ ChainIntact(LogOf(payloads))
         /\ \A k \in 1..Len(payloads) : LogOf(payloads)[k].payload = payloads[k]
<1> DEFINE Run(f, m) == f = [k \in 0..m |-> IF k = 0 THEN <<>> ELSE Appended(f[k - 1], payloads[k])]
           G == { m \in Nat : \E f : Run(f, m) }
           top == Len(payloads)
<1>1. top \in Nat
  BY SeqIs
<1> DEFINE c == CHOOSE f : Run(f, top)
<1>2. LogOf(payloads) = c[top]
  BY DEF LogOf
<1> HIDE DEF top
<1>3. 0 \in G
  <2>1. Run([k \in 0..0 |-> <<>>], 0)
    OBVIOUS
  <2> HIDE DEF Run
  <2> QED
    BY <2>1
<1>4. ASSUME NEW m \in Nat, m \in G PROVE m + 1 \in G
  <2>1. PICK f : Run(f, m)
    BY <1>4
  <2> DEFINE g == [k \in 0..(m + 1) |-> IF k = m + 1 THEN Appended(f[m], payloads[m + 1]) ELSE f[k]]
  <2>2. ASSUME NEW k \in 0..(m + 1) PROVE g[k] = IF k = 0 THEN <<>> ELSE Appended(g[k - 1], payloads[k])
    <3>1. CASE k = 0
      BY <2>1, <3>1
    <3>2. CASE k \in 1..m
      <4>1. k \in 0..m /\ k # m + 1 /\ k # 0 /\ k - 1 \in 0..(m + 1) /\ k - 1 # m + 1
        BY <3>2
      <4>2. g[k] = f[k] /\ g[k - 1] = f[k - 1]
        BY <4>1
      <4>3. f[k] = Appended(f[k - 1], payloads[k])
        BY <2>1, <4>1
      <4> QED
        BY <4>1, <4>2, <4>3
    <3>3. CASE k = m + 1
      <4>1. k # 0 /\ k - 1 = m /\ m \in 0..(m + 1) /\ m # m + 1
        BY <3>3
      <4>2. g[k] = Appended(f[m], payloads[k]) /\ g[m] = f[m]
        BY <3>3, <4>1
      <4> QED
        BY <4>1, <4>2
    <3> QED
      BY <3>1, <3>2, <3>3
  <2>3. Run(g, m + 1)
    BY <2>2
  <2> HIDE DEF Run, g
  <2> QED
    BY <2>3
<1> HIDE DEF G
<1>5. top \in G
  BY <1>1, <1>3, <1>4, Induction
<1>6. Run(c, top)
  <2> HIDE DEF Run
  <2>1. \E f : Run(f, top)
    BY <1>5 DEF G
  <2> QED
    BY <2>1
<1> HIDE DEF c
<1> DEFINE Says(k) == /\ IsSeq(c[k]) /\ Len(c[k]) = k /\ ChainIntact(c[k])
                      /\ \A j \in 1..k : c[k][j].payload = payloads[j]
           H == { k \in Nat : k <= top => Says(k) }
<1>7. 0 \in H
  <2>1. c[0] = <<>>
    BY <1>1, <1>6
  <2>2. ChainIntact(<<>>) /\ IsSeq(<<>>) /\ Len(<<>>) = 0
    <3>1. DOMAIN <<>> = {}
      OBVIOUS
    <3> QED
      BY <3>1, EmptyIs DEF ChainIntact
  <2> QED
    BY <2>1, <2>2
<1>8. ASSUME NEW k \in Nat, k \in H PROVE k + 1 \in H
  <2>1. SUFFICES ASSUME k + 1 <= top PROVE Says(k + 1)
    OBVIOUS
  <2>2. Says(k)
    BY <1>1, <1>8, <2>1
  <2> DEFINE more == Appended(c[k], payloads[k + 1])
  <2>3. c[k + 1] = more
    <3>1. k + 1 \in 0..top /\ k + 1 # 0 /\ (k + 1) - 1 = k
      BY <1>1, <2>1
    <3>2. c[k + 1] = Appended(c[(k + 1) - 1], payloads[k + 1])
      BY <1>6, <3>1
    <3> QED
      BY <3>1, <3>2
  <2>4. /\ IsSeq(more) /\ Len(more) = k + 1 /\ ChainIntact(more)
        /\ \A j \in 1..k : more[j] = c[k][j]
        /\ more[k + 1].payload = payloads[k + 1]
    <3> DEFINE es == c[k]
               p  == payloads[k + 1]
    <3>1. IsSeq(es) /\ Len(es) = k /\ ChainIntact(es)
      BY <2>2
    <3> HIDE DEF es, p, Says
    <3>2. /\ IsSeq(Appended(es, p)) /\ Len(Appended(es, p)) = Len(es) + 1 /\ ChainIntact(Appended(es, p))
          /\ \A j \in 1..Len(es) : Appended(es, p)[j] = es[j]
          /\ Appended(es, p)[Len(es) + 1].payload = p
      BY <3>1, AppendedIs
    <3> QED
      BY <3>1, <3>2 DEF es, p
  <2> HIDE DEF more
  <2>5. \A j \in 1..(k + 1) : more[j].payload = payloads[j]
    <3>1. ASSUME NEW j \in 1..(k + 1) PROVE more[j].payload = payloads[j]
      <4>1. CASE j = k + 1
        BY <2>4, <4>1
      <4>2. CASE j # k + 1
        <5>1. j \in 1..k
          BY <4>2
        <5> QED
          BY <2>2, <2>4, <5>1
      <4> QED
        BY <4>1, <4>2
    <3> QED
      BY <3>1
  <2> QED
    BY <2>3, <2>4, <2>5
<1> HIDE DEF H
<1>9. top \in H
  BY <1>1, <1>7, <1>8, Induction
<1>10. Says(top)
  <2> HIDE DEF Says
  <2> QED
    BY <1>1, <1>9 DEF H
<1> QED
  BY <1>2, <1>10 DEF top

\* The leaves of a log.
LEMMA LeavesAre ==
  ASSUME NEW entries, IsSeq(entries)
  PROVE  /\ IsSeq(Leaves(entries)) /\ Len(Leaves(entries)) = Len(entries)
         /\ \A k \in 1..Len(entries) : Leaves(entries)[k] = LeafHash(entries[k])
<1> DEFINE leaves == Leaves(entries)
           n == Len(entries)
<1>1. n \in Nat /\ DOMAIN entries = 1..n
  BY SeqIs
<1>2. leaves = [k \in 1..n |-> LeafHash(entries[k])]
  BY <1>1 DEF Leaves
<1>3. leaves = [k \in 1..n |-> leaves[k]] /\ \A k \in 1..n : leaves[k] = LeafHash(entries[k])
  BY <1>2
<1> HIDE DEF leaves, n
<1>4. IsSeq(leaves) /\ Len(leaves) = n
  BY <1>1, <1>3, ListIs
<1> QED
  BY <1>3, <1>4 DEF leaves, n

\* A leaf's hash tells its entry.
LEMMA LeavesTell ==
  ASSUME NEW a, NEW b, IsSeq(a), IsSeq(b), Leaves(a) = Leaves(b)
  PROVE  a = b
<1>1. Len(a) = Len(b) /\ Len(a) \in Nat
  BY LeavesAre, SeqIs
<1>2. ASSUME NEW k \in 1..Len(a) PROVE a[k] = b[k]
  <2>1. LeafHash(a[k]) = LeafHash(b[k])
    <3>1. Leaves(a)[k] = LeafHash(a[k]) /\ Leaves(b)[k] = LeafHash(b[k])
      BY <1>1, LeavesAre
    <3> QED
      BY <3>1
  <2> QED
    BY <2>1 DEF LeafHash
<1> QED
  BY <1>1, <1>2, SameSeq

\* What an intact chain says of its last entry.
LEMMA LastIs ==
  ASSUME NEW entries, IsSeq(entries), ChainIntact(entries)
  PROVE  /\ Len(entries) = 0 => LastHash(entries) = Genesis
         /\ Len(entries) # 0 => LastHash(entries) = EntryHash(entries[Len(entries)])
         /\ \A k \in 1..Len(entries) : entries[k].index = k - 1 /\ EntryHash(entries[k]) = entries[k].hash
<1>1. Len(entries) \in Nat /\ DOMAIN entries = 1..Len(entries)
  BY SeqIs
<1>2. \A k \in 1..Len(entries) : entries[k].index = k - 1 /\ EntryHash(entries[k]) = entries[k].hash
  BY <1>1 DEF ChainIntact, WellFormed
<1>3. CASE Len(entries) = 0
  <2>1. entries = <<>>
    BY <1>3, EmptyWhen
  <2> QED
    BY <1>2, <1>3, <2>1 DEF LastHash
<1>4. CASE Len(entries) # 0
  <2>1. entries # <<>> /\ Len(entries) \in 1..Len(entries)
    BY <1>1, <1>4, EmptyIs
  <2> QED
    BY <1>2, <1>4, <2>1 DEF LastHash
<1> QED
  BY <1>3, <1>4

\* Two intact sequences of entries under one head and one root are the same: the head tells
\* how many they are, and the root over that many tells which.
LEMMA HeadAndRootDetermine ==
  ASSUME NEW a, NEW b, IsSeq(a), IsSeq(b), ChainIntact(a), ChainIntact(b),
         LastHash(a) = LastHash(b), BuildRoot(Leaves(a)) = BuildRoot(Leaves(b))
  PROVE  a = b
<1>1. Len(a) \in Nat /\ Len(b) \in Nat
  BY SeqIs
<1>2. \A e : EntryHash(e) # Genesis
  BY DEF EntryHash, Genesis
<1>3. Len(a) = Len(b)
  <2>1. CASE Len(a) = 0
    <3>1. LastHash(b) = Genesis
      BY <2>1, LastIs
    <3>2. Len(b) = 0
      <4>1. Len(b) # 0 => LastHash(b) = EntryHash(b[Len(b)])
        BY LastIs
      <4> QED
        BY <1>2, <3>1, <4>1
    <3> QED
      BY <2>1, <3>2
  <2>2. CASE Len(a) # 0
    <3> DEFINE x == a[Len(a)]
               y == b[Len(b)]
    <3>1. LastHash(b) = EntryHash(x)
      BY <2>2, LastIs
    <3>2. Len(b) # 0
      <4>1. Len(b) = 0 => LastHash(b) = Genesis
        BY LastIs
      <4> QED
        BY <1>2, <3>1, <4>1
    <3>3. EntryHash(x) = EntryHash(y)
      <4>1. LastHash(b) = EntryHash(y)
        BY <3>2, LastIs
      <4> QED
        BY <3>1, <4>1
    <3>4. x.index = y.index
      <4> HIDE DEF x, y
      <4> QED
        BY <3>3 DEF EntryHash
    <3>5. x.index = Len(a) - 1 /\ y.index = Len(b) - 1
      <4>1. Len(a) \in 1..Len(a) /\ Len(b) \in 1..Len(b)
        BY <1>1, <2>2, <3>2
      <4> QED
        BY <4>1, LastIs
    <3> HIDE DEF x, y
    <3>6. Len(a) - 1 = Len(b) - 1
      BY <3>4, <3>5
    <3> QED
      BY <1>1, <3>6
  <2> QED
    BY <2>1, <2>2
<1>4. CASE Len(a) = 0
  BY <1>3, <1>4, EmptyWhen
<1>5. CASE Len(a) # 0
  <2> DEFINE s == Leaves(a)
             t == Leaves(b)
  <2>1. IsSeq(s) /\ IsSeq(t) /\ Len(s) = Len(t) /\ Len(s) # 0
    BY <1>3, <1>5, LeavesAre
  <2>2. BuildRoot(s) = BuildRoot(t)
    OBVIOUS
  <2> HIDE DEF s, t
  <2>3. s = t
    BY <2>1, <2>2, RootDetermines
  <2> QED
    BY <2>3, LeavesTell DEF s, t
<1> QED
  BY <1>4, <1>5

\* An element replaced, left out, or repeated.
LEMMA ReplacedIs ==
  ASSUME NEW list, IsSeq(list), NEW at \in 1..Len(list), NEW item
  PROVE  LET t == [list EXCEPT ![at] = item]
         IN  /\ IsSeq(t) /\ Len(t) = Len(list) /\ t[at] = item
             /\ \A j \in 1..Len(list) : j # at => t[j] = list[j]
<1> DEFINE n == Len(list)
           t == [list EXCEPT ![at] = item]
<1>1. n \in Nat /\ DOMAIN list = 1..n /\ list = [j \in 1..n |-> list[j]]
  BY SeqIs
<1>2. t = [j \in 1..n |-> IF j = at THEN item ELSE list[j]]
  BY <1>1
<1>3. t = [j \in 1..n |-> t[j]] /\ t[at] = item /\ \A j \in 1..n : j # at => t[j] = list[j]
  BY <1>2
<1> HIDE DEF t, n
<1>4. IsSeq(t) /\ Len(t) = n
  BY <1>1, <1>3, ListIs
<1> QED
  BY <1>3, <1>4 DEF t, n

LEMMA WithoutIs ==
  ASSUME NEW s, IsSeq(s), NEW k \in 1..Len(s)
  PROVE  LET t == SubSeq(s, 1, k - 1) \o SubSeq(s, k + 1, Len(s))
         IN  /\ IsSeq(t) /\ Len(t) = Len(s) - 1
             /\ \A j \in 1..(Len(s) - 1) : t[j] = s[IF j < k THEN j ELSE j + 1]
<1> DEFINE n == Len(s)
           a == SubSeq(s, 1, k - 1)
           b == SubSeq(s, k + 1, n)
           t == a \o b
<1>1. /\ n \in Nat /\ k \in Nat /\ k # 0 /\ k <= n /\ 1 \in 1..(n + 1) /\ k - 1 \in (1 - 1)..n
      /\ k + 1 \in 1..(n + 1) /\ n \in ((k + 1) - 1)..n
  BY SeqIs
<1>2. IsSeq(a) /\ Len(a) = (k - 1) - 1 + 1 /\ \A j \in 1..((k - 1) - 1 + 1) : a[j] = s[1 + j - 1]
  BY <1>1, SubSeqIs
<1>3. IsSeq(b) /\ Len(b) = n - (k + 1) + 1 /\ \A j \in 1..(n - (k + 1) + 1) : b[j] = s[(k + 1) + j - 1]
  BY <1>1, SubSeqIs
<1> HIDE DEF a, b, n
<1>4. IsSeq(t) /\ Len(t) = Len(a) + Len(b)
      /\ \A j \in 1..(Len(a) + Len(b)) : t[j] = IF j <= Len(a) THEN a[j] ELSE b[j - Len(a)]
  BY <1>2, <1>3, ConcatIs
<1>5. Len(a) = k - 1 /\ Len(b) = n - k /\ Len(a) + Len(b) = n - 1
  BY <1>1, <1>2, <1>3
<1>6. ASSUME NEW j \in 1..(n - 1) PROVE t[j] = s[IF j < k THEN j ELSE j + 1]
  <2>1. CASE j < k
    <3>1. j <= k - 1 /\ j \in 1..((k - 1) - 1 + 1) /\ 1 + j - 1 = j
      BY <1>1, <2>1
    <3> QED
      BY <1>2, <1>4, <1>5, <2>1, <3>1
  <2>2. CASE ~ (j < k)
    <3>1. ~ (j <= k - 1) /\ j - (k - 1) \in 1..(n - (k + 1) + 1) /\ (k + 1) + (j - (k - 1)) - 1 = j + 1
      BY <1>1, <2>2
    <3>2. t[j] = b[j - (k - 1)]
      BY <1>4, <1>5, <3>1
    <3> QED
      BY <1>3, <2>2, <3>1, <3>2
  <2> QED
    BY <2>1, <2>2
<1> HIDE DEF t
<1>7. IsSeq(t) /\ Len(t) = n - 1 /\ \A j \in 1..(n - 1) : t[j] = s[IF j < k THEN j ELSE j + 1]
  BY <1>4, <1>5, <1>6
<1> QED
  BY <1>7 DEF t, a, b, n

LEMMA TwiceIs ==
  ASSUME NEW s, IsSeq(s), NEW k \in 1..Len(s)
  PROVE  LET t == SubSeq(s, 1, k) \o SubSeq(s, k, Len(s))
         IN  IsSeq(t) /\ Len(t) = Len(s) + 1
<1> DEFINE n == Len(s)
           a == SubSeq(s, 1, k)
           b == SubSeq(s, k, n)
<1>1. /\ n \in Nat /\ k \in Nat /\ k # 0 /\ k <= n /\ 1 \in 1..(n + 1) /\ k \in (1 - 1)..n
      /\ k \in 1..(n + 1) /\ n \in (k - 1)..n
  BY SeqIs
<1>2. IsSeq(a) /\ Len(a) = k - 1 + 1
  BY <1>1, SubSeqIs
<1>3. IsSeq(b) /\ Len(b) = n - k + 1
  BY <1>1, SubSeqIs
<1> HIDE DEF a, b, n
<1>4. IsSeq(a \o b) /\ Len(a \o b) = Len(a) + Len(b)
  BY <1>2, <1>3, ConcatIs
<1>5. Len(a) + Len(b) = n + 1
  BY <1>1, <1>2, <1>3
<1>6. IsSeq(a \o b) /\ Len(a \o b) = n + 1
  BY <1>4, <1>5
<1> QED
  BY <1>6 DEF a, b, n

\* What damage leaves is still a sequence, longer by one entry at most.
LEMMA DamagedIs ==
  ASSUME NEW entries, IsSeq(entries), NEW damaged \in Damaged(entries)
  PROVE  IsSeq(damaged) /\ Len(damaged) <= Len(entries) + 1
<1>1. Len(entries) \in Nat /\ DOMAIN entries = 1..Len(entries)
  BY SeqIs
<1>2. PICK k \in 1..Len(entries) :
         \/ damaged = SubSeq(entries, 1, k - 1) \o SubSeq(entries, k + 1, Len(entries))
         \/ damaged = SubSeq(entries, 1, k) \o SubSeq(entries, k, Len(entries))
         \/ \E e \in Altered(entries[k]) : damaged = [entries EXCEPT ![k] = e]
         \/ \E j \in 1..(k - 1) : damaged = [entries EXCEPT ![k] = entries[j], ![j] = entries[k]]
  <2> DEFINE Moved(k)   == { SubSeq(entries, 1, k - 1) \o SubSeq(entries, k + 1, Len(entries)),
                             SubSeq(entries, 1, k) \o SubSeq(entries, k, Len(entries)) }
             Changed(k) == { [entries EXCEPT ![k] = e] : e \in Altered(entries[k]) }
             Swapped(k) == { [entries EXCEPT ![k] = entries[j], ![j] = entries[k]] : j \in 1..(k - 1) }
  <2>1. Damaged(entries) = UNION { Moved(k) \cup Changed(k) \cup Swapped(k) : k \in DOMAIN entries }
    BY DEF Damaged
  <2> HIDE DEF Moved, Changed, Swapped
  <2>2. PICK k \in 1..Len(entries) : damaged \in Moved(k) \/ damaged \in Changed(k) \/ damaged \in Swapped(k)
    BY <1>1, <2>1
  <2>3. damaged \in Moved(k) =>
           \/ damaged = SubSeq(entries, 1, k - 1) \o SubSeq(entries, k + 1, Len(entries))
           \/ damaged = SubSeq(entries, 1, k) \o SubSeq(entries, k, Len(entries))
    BY DEF Moved
  <2>4. damaged \in Changed(k) => \E e \in Altered(entries[k]) : damaged = [entries EXCEPT ![k] = e]
    BY Zenon DEF Changed
  <2>5. damaged \in Swapped(k) =>
           \E j \in 1..(k - 1) : damaged = [entries EXCEPT ![k] = entries[j], ![j] = entries[k]]
    BY Zenon DEF Swapped
  <2> QED
    BY <2>2, <2>3, <2>4, <2>5, Zenon
<1>3. CASE damaged = SubSeq(entries, 1, k - 1) \o SubSeq(entries, k + 1, Len(entries))
  <2>1. IsSeq(damaged) /\ Len(damaged) = Len(entries) - 1
    BY <1>3, WithoutIs
  <2> QED
    BY <1>1, <2>1
<1>4. CASE damaged = SubSeq(entries, 1, k) \o SubSeq(entries, k, Len(entries))
  <2>1. IsSeq(damaged) /\ Len(damaged) = Len(entries) + 1
    BY <1>4, TwiceIs
  <2> QED
    BY <1>1, <2>1
<1>5. CASE \E e \in Altered(entries[k]) : damaged = [entries EXCEPT ![k] = e]
  <2>1. PICK e : damaged = [entries EXCEPT ![k] = e]
    BY <1>5
  <2>2. IsSeq(damaged) /\ Len(damaged) = Len(entries)
    BY <2>1, ReplacedIs
  <2> QED
    BY <1>1, <2>2
<1>6. CASE \E j \in 1..(k - 1) : damaged = [entries EXCEPT ![k] = entries[j], ![j] = entries[k]]
  <2>1. PICK j \in 1..(k - 1) : damaged = [entries EXCEPT ![k] = entries[j], ![j] = entries[k]]
    BY <1>6
  <2> DEFINE half == [entries EXCEPT ![k] = entries[j]]
             x    == entries[k]
  <2>2. damaged = [half EXCEPT ![j] = x]
    BY <2>1
  <2>3. IsSeq(half) /\ Len(half) = Len(entries)
    BY ReplacedIs
  <2>4. j \in 1..Len(half)
    BY <1>1, <2>3
  <2> HIDE DEF half, x
  <2>5. IsSeq(damaged) /\ Len(damaged) = Len(half)
    BY <2>2, <2>3, <2>4, ReplacedIs
  <2> QED
    BY <1>1, <2>3, <2>5
<1> QED
  BY <1>2, <1>3, <1>4, <1>5, <1>6

---------------------------------------------------------------------------
(* The inductive invariant.                                              *)

\* The entries that say what was revised.
RevisedOf(entries) == { k \in 1..Len(entries) : entries[k].payload = Revision }

\* The signer's log is a chain from its genesis on, however often it was rewritten.
LogIntact ==
    /\ IsSeq(log) /\ ChainIntact(log)
    /\ Len(log) <= MaxLength /\ Cardinality(RevisedOf(log)) <= MaxRevisions
    /\ \A k \in 1..Len(log) : log[k].payload \in Payloads \cup {Revision}

\* The manifest of the package is that of the log, whatever became of its entries.
PackageOfLog ==
    /\ package = [entries |-> package.entries, head |-> LastHash(log), root |-> BuildRoot(Leaves(log))]
    /\ IsSeq(package.entries) /\ Len(package.entries) <= MaxLength + 1

KeptAccepted == IsSeq(kept.entries) /\ Accepted(kept)

IInv == LogIntact /\ PackageOfLog /\ KeptAccepted

\* There are finitely many of them.
LEMMA RevisedIs ==
  ASSUME NEW entries, IsSeq(entries)
  PROVE  IsFiniteSet(RevisedOf(entries)) /\ Cardinality(RevisedOf(entries)) \in Nat
<1>1. Len(entries) \in Nat
  BY SeqIs
<1>2. IsFiniteSet(1..Len(entries))
  BY <1>1, FS_Interval
<1>3. RevisedOf(entries) \in SUBSET (1..Len(entries))
  BY DEF RevisedOf
<1>4. IsFiniteSet(RevisedOf(entries))
  BY <1>2, <1>3, FS_Subset
<1> QED
  BY <1>4, FS_CardinalityType

\* What is packed is accepted.
LEMMA PackIs ==
  ASSUME NEW entries, ChainIntact(entries)
  PROVE  /\ Pack(entries) = [entries |-> entries, head |-> LastHash(entries), root |-> BuildRoot(Leaves(entries))]
         /\ Pack(entries).entries = entries /\ Accepted(Pack(entries))
BY DEF Pack, Accepted

\* The invariant holds of the empty log, ...
LEMMA InitIntact ==
  ASSUME Init
  PROVE  IInv
<1>1. IsSeq(<<>>) /\ Len(<<>>) = 0 /\ DOMAIN <<>> = {}
  BY EmptyIs
<1>2. ChainIntact(<<>>)
  BY <1>1 DEF ChainIntact
<1>3. log = <<>> /\ package = Pack(<<>>) /\ kept = Pack(<<>>)
  BY DEF Init
<1>4. RevisedOf(<<>>) = {} /\ Cardinality({}) = 0
  BY <1>1, FS_EmptySet DEF RevisedOf
<1>5. LogIntact
  <2>1. IsSeq(log) /\ ChainIntact(log) /\ Len(log) = 0 /\ Cardinality(RevisedOf(log)) = 0
    BY <1>1, <1>2, <1>3, <1>4, Zenon
  <2>2. 0 <= MaxLength /\ 0 <= MaxRevisions /\ 1..0 = {}
    BY LogAssumption
  <2> QED
    BY <2>1, <2>2 DEF LogIntact
<1>6. /\ Pack(<<>>) = [entries |-> <<>>, head |-> LastHash(<<>>), root |-> BuildRoot(Leaves(<<>>))]
      /\ Pack(<<>>).entries = <<>> /\ Accepted(Pack(<<>>))
  BY <1>2, PackIs
<1>7. PackageOfLog
  BY <1>1, <1>3, <1>6, LogAssumption DEF PackageOfLog
<1>8. KeptAccepted
  BY <1>1, <1>3, <1>6 DEF KeptAccepted
<1> QED
  BY <1>5, <1>7, <1>8 DEF IInv

\* ... of a log that is written, if what is written is a chain within the bounds, ...
LEMMA WriteKeepsIntact ==
  ASSUME IInv, NEW entries, Write(entries), IsSeq(entries), ChainIntact(entries),
         Len(entries) <= MaxLength, Cardinality(RevisedOf(entries)) <= MaxRevisions,
         \A k \in 1..Len(entries) : entries[k].payload \in Payloads \cup {Revision}
  PROVE  IInv'
<1>1. log' = entries /\ package' = Pack(entries) /\ kept' = kept
  BY DEF Write
<1>2. RevisedOf(log)' = RevisedOf(entries)
  BY <1>1 DEF RevisedOf
<1>3. LogIntact'
  BY <1>1, <1>2 DEF LogIntact
<1>4. /\ Pack(entries) = [entries |-> entries, head |-> LastHash(entries), root |-> BuildRoot(Leaves(entries))]
      /\ Pack(entries).entries = entries
  BY PackIs
<1>5. Len(entries) <= MaxLength + 1
  <2>1. Len(entries) \in Nat
    BY SeqIs
  <2> QED
    BY <2>1, LogAssumption
<1>6. PackageOfLog'
  BY <1>1, <1>4, <1>5 DEF PackageOfLog
<1>7. KeptAccepted'
  BY <1>1 DEF IInv, KeptAccepted
<1> QED
  BY <1>3, <1>6, <1>7 DEF IInv

\* ... as after append(), ...
LEMMA AddKeepsIntact ==
  ASSUME IInv, NEW payload \in Payloads, Add(payload)
  PROVE  IInv'
<1> DEFINE more == Appended(log, payload)
           n    == Len(log)
<1>1. IsSeq(log) /\ ChainIntact(log) /\ Cardinality(RevisedOf(log)) <= MaxRevisions
      /\ \A k \in 1..n : log[k].payload \in Payloads \cup {Revision}
  BY DEF IInv, LogIntact
<1>2. n \in Nat /\ n < MaxLength /\ Write(more)
  BY <1>1, SeqIs DEF Add
<1>3. /\ IsSeq(more) /\ Len(more) = n + 1 /\ ChainIntact(more)
      /\ \A k \in 1..n : more[k] = log[k]
      /\ more[n + 1].payload = payload
  BY <1>1, AppendedIs
<1> HIDE DEF more, n
<1>4. \A k \in 1..(n + 1) : k \in 1..n \/ k = n + 1
  BY <1>2
<1>5. Len(more) <= MaxLength
  BY <1>2, <1>3, LogAssumption
<1>6. \A k \in 1..Len(more) : more[k].payload \in Payloads \cup {Revision}
  BY <1>1, <1>3, <1>4
<1>7. RevisedOf(more) = RevisedOf(log)
  <2>1. RevisedOf(more) = { k \in 1..(n + 1) : more[k].payload = Revision }
    BY <1>3 DEF RevisedOf
  <2>2. RevisedOf(log) = { k \in 1..n : log[k].payload = Revision }
    BY DEF RevisedOf, n
  <2>3. more[n + 1].payload # Revision
    BY <1>3, LogAssumption
  <2>4. \A k \in 1..n : k \in 1..(n + 1)
    BY <1>2
  <2> QED
    BY <1>3, <1>4, <2>1, <2>2, <2>3, <2>4
<1>8. Cardinality(RevisedOf(more)) <= MaxRevisions
  BY <1>1, <1>7
<1> QED
  BY <1>2, <1>3, <1>5, <1>6, <1>8, WriteKeepsIntact

\* What the entries say.
LEMMA SaidIs ==
  ASSUME IInv
  PROVE  /\ IsSeq(Said) /\ Len(Said) = Len(log)
         /\ \A k \in 1..Len(log) : Said[k] = log[k].payload /\ Said[k] \in Payloads \cup {Revision}
<1> DEFINE n == Len(log)
           said == Said
<1>1. IsSeq(log) /\ n \in Nat /\ DOMAIN log = 1..n /\ \A k \in 1..n : log[k].payload \in Payloads \cup {Revision}
  BY SeqIs DEF IInv, LogIntact
<1>2. said = [k \in 1..n |-> log[k].payload]
  BY <1>1 DEF Said
<1>3. said = [k \in 1..n |-> said[k]] /\ \A k \in 1..n : said[k] = log[k].payload
  BY <1>2
<1> HIDE DEF said, n
<1>4. IsSeq(said) /\ Len(said) = n
  BY <1>1, <1>3, ListIs
<1> QED
  BY <1>1, <1>3, <1>4 DEF said, n

\* A log that is written again from what its entries are to say.
LEMMA RewriteKeepsIntact ==
  ASSUME IInv, NEW payloads, IsSeq(payloads), Len(payloads) <= MaxLength, Write(LogOf(payloads)),
         \A k \in 1..Len(payloads) : payloads[k] \in Payloads \cup {Revision},
         Cardinality({ k \in 1..Len(payloads) : payloads[k] = Revision }) <= MaxRevisions
  PROVE  IInv'
<1> DEFINE entries == LogOf(payloads)
<1>1. /\ IsSeq(entries) /\ Len(entries) = Len(payloads) /\ ChainIntact(entries)
      /\ \A k \in 1..Len(payloads) : entries[k].payload = payloads[k]
  BY LogOfIs
<1>2. Write(entries)
  OBVIOUS
<1> HIDE DEF entries
<1>3. RevisedOf(entries) = { k \in 1..Len(payloads) : payloads[k] = Revision }
  BY <1>1 DEF RevisedOf
<1>4. \A k \in 1..Len(entries) : entries[k].payload \in Payloads \cup {Revision}
  BY <1>1
<1>5. Cardinality(RevisedOf(entries)) <= MaxRevisions /\ Len(entries) <= MaxLength
  BY <1>1, <1>3
<1> QED
  BY <1>1, <1>2, <1>4, <1>5, WriteKeepsIntact

\* One entry is made to say something else: one more is revised.
LEMMA ReviseKeepsIntact ==
  ASSUME IInv, NEW k \in 1..MaxLength, Revise(k)
  PROVE  IInv'
<1> DEFINE n == Len(log)
           payloads == [Said EXCEPT ![k] = Revision]
           before == RevisedOf(log)
<1>1. IsSeq(log) /\ n \in Nat /\ DOMAIN log = 1..n /\ n <= MaxLength
  BY SeqIs DEF IInv, LogIntact
<1>2. Revised = before
  BY <1>1 DEF Revised, RevisedOf
<1>3. k \in 1..n /\ Cardinality(before) < MaxRevisions /\ Write(LogOf(payloads))
  <2> HIDE DEF before
  <2> QED
    BY <1>1, <1>2 DEF Revise
<1>4. /\ IsSeq(Said) /\ Len(Said) = n
      /\ \A j \in 1..n : Said[j] = log[j].payload /\ Said[j] \in Payloads \cup {Revision}
  BY SaidIs
<1>5. /\ IsSeq(payloads) /\ Len(payloads) = n /\ payloads[k] = Revision
      /\ \A j \in 1..n : j # k => payloads[j] = Said[j]
  <2> DEFINE said == Said
  <2>1. IsSeq(said) /\ Len(said) = n /\ payloads = [said EXCEPT ![k] = Revision] /\ k \in 1..Len(said)
    BY <1>3, <1>4
  <2> HIDE DEF said, n
  <2> DEFINE t == [said EXCEPT ![k] = Revision]
  <2>2. IsSeq(t) /\ Len(t) = Len(said) /\ t[k] = Revision /\ \A j \in 1..Len(said) : j # k => t[j] = said[j]
    <3>1. IsSeq(said) /\ k \in 1..Len(said)
      BY <2>1
    <3>2. IsSeq(t) /\ Len(t) = Len(said)
      BY <3>1, ReplacedIs
    <3>3. t[k] = Revision
      BY <3>1, ReplacedIs
    <3>4. ASSUME NEW j \in 1..Len(said), j # k PROVE t[j] = said[j]
      BY <3>1, <3>4, ReplacedIs
    <3> QED
      BY <3>2, <3>3, <3>4, Zenon
  <2>3. payloads = t
    BY <2>1
  <2> HIDE DEF t, payloads
  <2> QED
    BY <2>1, <2>2, <2>3 DEF said
<1> HIDE DEF payloads, n
<1>6. \A j \in 1..n : payloads[j] \in Payloads \cup {Revision}
  BY <1>4, <1>5
<1>7. { j \in 1..n : payloads[j] = Revision } = before \cup {k}
  <2>1. before = { j \in 1..n : log[j].payload = Revision }
    BY DEF RevisedOf, n
  <2> HIDE DEF before
  <2> QED
    BY <1>3, <1>4, <1>5, <2>1
<1>8. Cardinality(before \cup {k}) <= MaxRevisions
  <2>1. IsFiniteSet(before) /\ Cardinality(before) \in Nat
    BY <1>1, RevisedIs
  <2> HIDE DEF before
  <2>2. Cardinality(before \cup {k}) = IF k \in before THEN Cardinality(before) ELSE Cardinality(before) + 1
    BY <2>1, FS_AddElement
  <2> QED
    BY <1>3, <2>1, <2>2, LogAssumption
<1>9. Len(payloads) <= MaxLength /\ Cardinality({ j \in 1..Len(payloads) : payloads[j] = Revision }) <= MaxRevisions
      /\ \A j \in 1..Len(payloads) : payloads[j] \in Payloads \cup {Revision}
  <2> HIDE DEF before
  <2> QED
    BY <1>1, <1>5, <1>6, <1>7, <1>8
<1> QED
  BY <1>3, <1>5, <1>9, RewriteKeepsIntact

\* One entry is left out: none more is revised, since those that are left were there.
LEMMA WithdrawKeepsIntact ==
  ASSUME IInv, NEW k \in 1..MaxLength, Withdraw(k)
  PROVE  IInv'
<1> DEFINE n == Len(log)
           said == Said
           payloads == SubSeq(said, 1, k - 1) \o SubSeq(said, k + 1, Len(said))
           before == RevisedOf(log)
           after == { j \in 1..(n - 1) : payloads[j] = Revision }
           Was(j) == IF j < k THEN j ELSE j + 1
<1>1. /\ IsSeq(log) /\ n \in Nat /\ DOMAIN log = 1..n /\ n <= MaxLength
      /\ Cardinality(before) <= MaxRevisions
  BY SeqIs DEF IInv, LogIntact
<1>2. /\ IsSeq(said) /\ Len(said) = n
      /\ \A j \in 1..n : said[j] = log[j].payload /\ said[j] \in Payloads \cup {Revision}
  BY SaidIs
<1>3. k \in 1..n /\ Write(LogOf(payloads))
  BY <1>1, <1>2 DEF Withdraw
<1> HIDE DEF said
<1>4. /\ IsSeq(payloads) /\ Len(payloads) = n - 1 /\ \A j \in 1..(n - 1) : payloads[j] = said[Was(j)]
  <2>1. k \in 1..Len(said)
    BY <1>2, <1>3
  <2> HIDE DEF n
  <2> QED
    BY <1>2, <2>1, WithoutIs
<1> HIDE DEF payloads
<1>5. \A j \in 1..(n - 1) : Was(j) \in 1..n /\ Was(j) # k
  BY <1>1, <1>3
<1>6. \A j \in 1..(n - 1) : payloads[j] \in Payloads \cup {Revision} /\ payloads[j] = log[Was(j)].payload
  BY <1>2, <1>4, <1>5
<1>7. Cardinality(after) <= Cardinality(before)
  <2> DEFINE f == [j \in after |-> Was(j)]
  <2>1. \A j \in after : Was(j) \in before
    <3>1. before = { j \in 1..n : log[j].payload = Revision }
      BY DEF RevisedOf
    <3> HIDE DEF before, n
    <3> QED
      BY <1>5, <1>6, <3>1
  <2>2. \A i, j \in after : Was(i) = Was(j) => i = j
    BY <1>1
  <2>3. f \in [after -> before] /\ \A i, j \in after : f[i] = f[j] => i = j
    <3> HIDE DEF after, before, Was
    <3> QED
      BY <2>1, <2>2
  <2>4. f \in Injection(after, before)
    <3> HIDE DEF f, after, before
    <3> QED
      BY <2>3 DEF Injection, IsInjective
  <2>5. IsFiniteSet(before)
    BY <1>1, RevisedIs
  <2> HIDE DEF f, after, before
  <2> QED
    BY <2>4, <2>5, FS_Injection
<1>8. Cardinality(after) <= MaxRevisions
  <2>1. IsFiniteSet(after)
    <3>1. 1 \in Int /\ n - 1 \in Int
      BY <1>1
    <3>2. after \in SUBSET (1..(n - 1))
      OBVIOUS
    <3> HIDE DEF after, n
    <3>3. IsFiniteSet(1..(n - 1))
      BY <3>1, FS_Interval
    <3> QED
      BY <3>2, <3>3, FS_Subset
  <2>2. Cardinality(after) \in Nat /\ Cardinality(before) \in Nat
    <3>1. Cardinality(before) \in Nat
      BY <1>1, RevisedIs
    <3> HIDE DEF after
    <3> QED
      BY <2>1, <3>1, FS_CardinalityType
  <2> HIDE DEF after, before
  <2> QED
    BY <1>1, <1>7, <2>2, LogAssumption
<1>9. /\ Len(payloads) <= MaxLength /\ Cardinality({ j \in 1..Len(payloads) : payloads[j] = Revision }) <= MaxRevisions
      /\ \A j \in 1..Len(payloads) : payloads[j] \in Payloads \cup {Revision}
  <2>1. n - 1 <= MaxLength
    BY <1>1, LogAssumption
  <2> QED
    BY <1>4, <1>6, <1>8, <2>1
<1> QED
  BY <1>3, <1>4, <1>9, RewriteKeepsIntact

\* The package that is kept is the one that was written.
LEMMA KeepKeepsIntact ==
  ASSUME IInv, Keep
  PROVE  IInv'
<1>1. log' = log /\ package' = package /\ kept' = package /\ package.entries = log
  BY DEF Keep
<1>2. /\ LogIntact /\ IsSeq(package.entries)
      /\ package = [entries |-> package.entries, head |-> LastHash(log), root |-> BuildRoot(Leaves(log))]
  BY DEF IInv, PackageOfLog
<1>3. package.head = LastHash(log) /\ package.root = BuildRoot(Leaves(log))
  BY <1>2
<1>4. Accepted(package)
  BY <1>1, <1>2, <1>3 DEF Accepted, LogIntact
<1>5. KeptAccepted'
  BY <1>1, <1>2, <1>4 DEF KeptAccepted
<1>6. LogIntact' /\ PackageOfLog'
  BY <1>1 DEF IInv, LogIntact, RevisedOf, PackageOfLog
<1> QED
  BY <1>5, <1>6 DEF IInv

\* Damage changes the entries of the package and not its manifest.
LEMMA DamageKeepsIntact ==
  ASSUME IInv, Damage
  PROVE  IInv'
<1>1. PICK entries \in Damaged(log) : package' = [package EXCEPT !.entries = entries]
  BY DEF Damage
<1>2. log' = log /\ kept' = kept
  BY DEF Damage
<1>3. /\ IsSeq(log) /\ Len(log) <= MaxLength
      /\ package = [entries |-> package.entries, head |-> LastHash(log), root |-> BuildRoot(Leaves(log))]
  BY DEF IInv, LogIntact, PackageOfLog
<1>4. IsSeq(entries) /\ Len(entries) <= Len(log) + 1
  BY <1>3, DamagedIs
<1>5. package' = [entries |-> entries, head |-> LastHash(log), root |-> BuildRoot(Leaves(log))]
  BY <1>1, <1>3
<1>6. package'.entries = entries
  BY <1>5
<1>7. Len(entries) <= MaxLength + 1
  <2>1. Len(entries) \in Nat /\ Len(log) \in Nat
    BY <1>3, <1>4, SeqIs
  <2> QED
    BY <1>3, <1>4, <2>1, LogAssumption
<1>8. PackageOfLog'
  <2>1. package' = [entries |-> package'.entries, head |-> LastHash(log'), root |-> BuildRoot(Leaves(log'))]
    BY <1>2, <1>5, <1>6
  <2>2. IsSeq(package'.entries) /\ Len(package'.entries) <= MaxLength + 1
    BY <1>4, <1>6, <1>7
  <2> QED
    BY <2>1, <2>2 DEF PackageOfLog
<1>9. LogIntact' /\ KeptAccepted'
  BY <1>2 DEF IInv, LogIntact, RevisedOf, KeptAccepted
<1> QED
  BY <1>8, <1>9 DEF IInv

\* Whatever is appended, revised, withdrawn, kept or damaged, the log is a chain, the
\* manifest is that of the log, and what the reader kept is what it would accept.
THEOREM LogStaysIntact == Spec => []IInv
<1>1. Init => IInv
  BY InitIntact
<1>2. IInv /\ [Next]_vars => IInv'
  <2>1. SUFFICES ASSUME IInv, [Next]_vars PROVE IInv'
    OBVIOUS
  <2>2. ASSUME NEW payload \in Payloads, Add(payload) PROVE IInv'
    BY <2>1, <2>2, AddKeepsIntact
  <2>3. ASSUME NEW k \in 1..MaxLength, Revise(k) PROVE IInv'
    BY <2>1, <2>3, ReviseKeepsIntact
  <2>4. ASSUME NEW k \in 1..MaxLength, Withdraw(k) PROVE IInv'
    BY <2>1, <2>4, WithdrawKeepsIntact
  <2>5. CASE Keep
    BY <2>1, <2>5, KeepKeepsIntact
  <2>6. CASE Damage
    BY <2>1, <2>6, DamageKeepsIntact
  <2>7. CASE UNCHANGED vars
    <3>1. log' = log /\ package' = package /\ kept' = kept
      BY <2>7 DEF vars
    <3> QED
      BY <2>1, <3>1 DEF IInv, LogIntact, RevisedOf, PackageOfLog, KeptAccepted
  <2> QED
    BY <2>1, <2>2, <2>3, <2>4, <2>5, <2>6, <2>7 DEF Next
<1> QED
  BY <1>1, <1>2, PTL DEF Spec

\* The signer's log is as append() leaves it and within its bounds, and what a reader
\* keeps is what it would accept.
THEOREM LogTypeCorrect == Spec => []TypeOK
<1>1. IInv => TypeOK
  <2>1. SUFFICES ASSUME IInv PROVE TypeOK
    OBVIOUS
  <2>2. IsSeq(log) /\ DOMAIN log = 1..Len(log) /\ ChainIntact(log)
    BY <2>1, SeqIs DEF IInv, LogIntact
  <2>3. Revised = RevisedOf(log)
    BY <2>2 DEF Revised, RevisedOf
  <2>4. \A k \in DOMAIN log : log[k].version = Version /\ log[k].index = k - 1
    BY <2>2 DEF ChainIntact, WellFormed
  <2> QED
    BY <2>1, <2>2, <2>3, <2>4 DEF IInv, LogIntact, PackageOfLog, KeptAccepted, TypeOK
<1> QED
  BY <1>1, LogStaysIntact, PTL

---------------------------------------------------------------------------
(* What a reader may conclude.                                           *)

\* verify_package() accepts the entries of a package exactly when they are the ones the
\* manifest was signed over: whatever field of whatever entry is changed, and wherever an
\* entry is lost, repeated or moved, the chain, the head or the root tells.
THEOREM PackagesAreAsWritten == Spec => []AcceptedIsAsWritten
<1>1. IInv => AcceptedIsAsWritten
  <2>1. SUFFICES ASSUME IInv PROVE AcceptedIsAsWritten
    OBVIOUS
  <2> DEFINE entries == package.entries
  <2>2. IsSeq(log) /\ ChainIntact(log) /\ IsSeq(entries)
    BY <2>1 DEF IInv, LogIntact, PackageOfLog
  <2>3. package.head = LastHash(log) /\ package.root = BuildRoot(Leaves(log))
    <3>1. package = [entries |-> package.entries, head |-> LastHash(log), root |-> BuildRoot(Leaves(log))]
      BY <2>1 DEF IInv, PackageOfLog
    <3> QED
      BY <3>1
  <2>4. ASSUME Accepted(package) PROVE entries = log
    <3>1. ChainIntact(entries) /\ LastHash(entries) = LastHash(log) /\ BuildRoot(Leaves(entries)) = BuildRoot(Leaves(log))
      BY <2>3, <2>4 DEF Accepted
    <3> HIDE DEF entries
    <3> QED
      BY <2>2, <3>1, HeadAndRootDetermine
  <2>5. ASSUME entries = log PROVE Accepted(package)
    BY <2>2, <2>3, <2>5 DEF Accepted
  <2> QED
    BY <2>4, <2>5 DEF AcceptedIsAsWritten
<1> QED
  BY <1>1, LogStaysIntact, PTL

\* The proof build_proof() gives for one entry of a log verifies for that entry at its
\* index, and at no other index of that log.
THEOREM ProofsTellTheIndex == Spec => []IncludedAtItsIndex
<1>1. IInv => IncludedAtItsIndex
  <2>1. SUFFICES ASSUME IInv PROVE IncludedAtItsIndex
    OBVIOUS
  <2> DEFINE s == Leaves(log)
             n == Len(log)
  <2>2. IsSeq(log) /\ ChainIntact(log) /\ DOMAIN log = 1..n
    BY <2>1, SeqIs DEF IInv, LogIntact
  <2>3. IsSeq(s) /\ Len(s) = n /\ \A k \in 1..n : s[k] = LeafHash(log[k])
    BY <2>2, LeavesAre
  <2>4. \A a, b \in 1..n : s[a] = s[b] => a = b
    <3>1. SUFFICES ASSUME NEW a \in 1..n, NEW b \in 1..n, s[a] = s[b] PROVE a = b
      BY Zenon
    <3>2. log[a] = log[b]
      BY <2>3, <3>1 DEF LeafHash
    <3>3. log[a].index = a - 1 /\ log[b].index = b - 1
      BY <2>2, LastIs
    <3>4. a - 1 = b - 1
      BY <3>2, <3>3
    <3> QED
      BY <3>4
  <2> HIDE DEF s, n
  <2>5. \A i, j \in 1..n : VerifyProof(s[j], i - 1, BuildProof(s, j - 1), BuildRoot(s), n) <=> i = j
    <3>1. SUFFICES ASSUME NEW i \in 1..n, NEW j \in 1..n
                   PROVE  VerifyProof(s[j], i - 1, BuildProof(s, j - 1), BuildRoot(s), n) <=> i = j
      BY Zenon
    <3>2. i \in 1..Len(s) /\ j \in 1..Len(s) /\ \A a, b \in 1..Len(s) : s[a] = s[b] => a = b
      BY <2>3, <2>4
    <3>3. VerifyProof(s[j], i - 1, BuildProof(s, j - 1), BuildRoot(s), Len(s)) <=> i = j
      BY <2>3, <3>2, IncludedOnlyThere
    <3> QED
      BY <2>3, <3>3
  <2> QED
    BY <2>2, <2>5 DEF IncludedAtItsIndex, s, n
<1> QED
  BY <1>1, LogStaysIntact, PTL

\* verify_extends() says yes exactly when the kept log is the beginning of the accepted
\* one, whatever the sizes of the two: appending is never refused, and a log that was
\* rewritten, however well it was chained again, is never taken for an extension.
THEOREM ExtensionsArePrefixes == Spec => []ExtendsIsPrefix
<1>1. IInv => ExtendsIsPrefix
  <2>1. SUFFICES ASSUME IInv, kept.entries # <<>>, Accepted(package)
                 PROVE  VerifyExtends(kept, package)
                          <=> /\ Len(kept.entries) <= Len(package.entries)
                              /\ SubSeq(package.entries, 1, Len(kept.entries)) = kept.entries
    BY DEF ExtendsIsPrefix
  <2> DEFINE old == kept.entries
             new == package.entries
             m   == Len(old)
             n   == Len(new)
             p   == Leaves(old)
             s   == Leaves(new)
  <2>2. IsSeq(old) /\ IsSeq(new) /\ Accepted(kept)
    BY <2>1 DEF IInv, PackageOfLog, KeptAccepted
  <2>3. m \in Nat /\ n \in Nat /\ m # 0
    BY <2>1, <2>2, SeqIs, EmptyWhen
  <2>4. /\ IsSeq(p) /\ Len(p) = m /\ IsSeq(s) /\ Len(s) = n
        /\ \A k \in 1..m : p[k] = LeafHash(old[k])
        /\ \A k \in 1..n : s[k] = LeafHash(new[k])
    <3> HIDE DEF old, new
    <3> QED
      BY <2>2, LeavesAre
  <2>5. VerifyExtends(kept, package)
          <=> m <= n /\ VerifyConsistency([old |-> BuildRoot(p), new |-> BuildRoot(s)], m, n, BuildConsistency(s, m))
    <3>1. n >= m <=> m <= n
      <4> HIDE DEF m, n
      <4> QED
        BY <2>3
    <3> QED
      BY <2>1, <2>2, <3>1 DEF VerifyExtends
  <2>6. ASSUME m <= n
        PROVE  VerifyConsistency([old |-> BuildRoot(p), new |-> BuildRoot(s)], m, n, BuildConsistency(s, m))
                 <=> SubSeq(new, 1, m) = old
    <3> DEFINE before == SubSeq(s, 1, m)
               front  == SubSeq(new, 1, m)
    <3> HIDE DEF old, new, m, n, p, s
    <3>1. m \in 1..Len(s) /\ 1 \in 1..(n + 1) /\ m \in (1 - 1)..n /\ m - 1 + 1 = m /\ \A k \in 1..m : 1 + k - 1 = k /\ k \in 1..n
      BY <2>3, <2>4, <2>6
    <3>2. VerifyConsistency([old |-> BuildRoot(p), new |-> BuildRoot(s)], m, n, BuildConsistency(s, m))
            <=> BuildRoot(p) = BuildRoot(before)
      <4> DEFINE claim == BuildRoot(p)
      <4> HIDE DEF claim
      <4>1. VerifyConsistency([old |-> claim, new |-> BuildRoot(s)], m, Len(s), BuildConsistency(s, m))
              <=> claim = BuildRoot(before)
        BY <2>4, <3>1, ConsistentOnlyWithPrefix
      <4> QED
        BY <2>4, <4>1 DEF claim
    <3>3. IsSeq(before) /\ Len(before) = m /\ \A k \in 1..m : before[k] = s[k]
      <4>1. IsSeq(before) /\ Len(before) = m - 1 + 1 /\ \A k \in 1..(m - 1 + 1) : before[k] = s[1 + k - 1]
        BY <2>4, <3>1, SubSeqIs
      <4> HIDE DEF before
      <4> QED
        BY <3>1, <4>1
    <3>4. IsSeq(front) /\ Len(front) = m /\ \A k \in 1..m : front[k] = new[k]
      <4>1. Len(new) = n
        BY DEF n
      <4>2. IsSeq(front) /\ Len(front) = m - 1 + 1 /\ \A k \in 1..(m - 1 + 1) : front[k] = new[1 + k - 1]
        BY <2>2, <3>1, <4>1, SubSeqIs
      <4> HIDE DEF front
      <4> QED
        BY <3>1, <4>2
    <3>5. Len(old) = m
      BY DEF m
    <3> HIDE DEF before, front
    <3>6. ASSUME front = old PROVE p = before
      <4>1. \A k \in 1..m : before[k] = p[k]
        BY <2>4, <3>1, <3>3, <3>4, <3>6
      <4>2. Len(before) = Len(p) /\ \A k \in 1..Len(before) : before[k] = p[k]
        BY <2>4, <3>3, <4>1
      <4>3. before = p
        BY <2>4, <3>3, <4>2, SameSeq
      <4> QED
        BY <4>3
    <3>7. ASSUME BuildRoot(p) = BuildRoot(before) PROVE front = old
      <4>1. p = before
        BY <2>3, <2>4, <3>3, <3>7, RootDetermines
      <4>2. \A k \in 1..m : front[k] = old[k]
        <5>1. ASSUME NEW k \in 1..m PROVE front[k] = old[k]
          <6>1. LeafHash(old[k]) = LeafHash(new[k])
            BY <2>4, <3>1, <3>3, <4>1
          <6> QED
            BY <3>4, <6>1 DEF LeafHash
        <5> QED
          BY <5>1
      <4>3. Len(front) = Len(old) /\ \A k \in 1..Len(front) : front[k] = old[k]
        BY <3>4, <3>5, <4>2
      <4> QED
        BY <2>2, <3>4, <4>3, SameSeq
    <3>8. VerifyConsistency([old |-> BuildRoot(p), new |-> BuildRoot(s)], m, n, BuildConsistency(s, m)) <=> front = old
      BY <3>2, <3>6, <3>7
    <3> QED
      BY <3>8 DEF front
  <2> QED
    BY <2>5, <2>6
<1> QED
  BY <1>1, LogStaysIntact, PTL
=============================================================================
