------------------------------- MODULE MuxProofs -------------------------------
(***************************************************************************)
(* Proofs about Mux: for any children, batches of any size, and workers of *)
(* any limits, each child is in one place and reads the results of its own *)
(* inputs, and Mux implements BatchService.                                *)
(***************************************************************************)
EXTENDS Mux, SequenceTheorems, FiniteSetTheorems, TLAPS

-----------------------------------------------------------------------------
(* Induction on natural numbers, in a form without an operator: a set of   *)
(* counterexamples that is not empty has a least one.                      *)
LEMMA LeastElement ==
  ASSUME NEW X \in SUBSET Nat, X # {}
  PROVE  \E n \in X : \A m \in X : n <= m
<1>. DEFINE R == {ss \in Nat \X Nat : ss[1] < ss[2]}
<1>1. IsWellFoundedOn(R, Nat)
  BY NatLessThanWellFounded DEF OpToRel
<1>2. PICK x \in X : \A y \in X : <<y, x>> \notin R
  <2>. HIDE DEF R
  <2>. QED BY <1>1, WFMin
<1>3. \A y \in X : ~(y < x)
  BY <1>2
<1>. QED BY <1>3

(* The running sum of the widths is defined for every queue.               *)
LEMMA EndsAdd ==
  ASSUME NEW cs \in Seq(Child)
  PROVE  /\ Ends(cs)[0] = 0
         /\ \A i \in 1..Len(cs) : Ends(cs)[i] = Ends(cs)[i - 1] + Width[cs[i]]
         /\ \A i \in 0..Len(cs) : Ends(cs)[i] \in Nat
<1>. DEFINE Def(f, n) == [i \in 0..n |-> IF i = 0 THEN 0 ELSE f[i - 1] + Width[cs[i]]]
            Bad == {n \in 0..Len(cs) : ~\E f : f = Def(f, n)}
            Wrong == {n \in 0..Len(cs) : Ends(cs)[n] \notin Nat}
<1>. Len(cs) \in Nat /\ \A i \in 1..Len(cs) : Width[cs[i]] \in Nat
  BY MuxAssumption, ElementOfSeq, LenProperties
<1>1. Bad = {}
  <2>1. SUFFICES ASSUME Bad # {} PROVE FALSE
    OBVIOUS
  <2>2. PICK n \in Bad : \A m \in Bad : n <= m
    <3>1. Bad \in SUBSET Nat
      OBVIOUS
    <3>. HIDE DEF Bad
    <3>. QED BY <2>1, <3>1, LeastElement
  <2>3. CASE n = 0
    <3>. DEFINE f == [i \in 0..0 |-> 0]
    <3>1. f = Def(f, 0)
      OBVIOUS
    <3>2. 0 \notin Bad
      <4>. HIDE DEF f, Def
      <4>. QED BY <3>1
    <3>. QED BY <3>2, <2>2, <2>3
  <2>4. CASE n # 0
    <3>. HIDE DEF Def
    <3>1. n \in 0..Len(cs)
      OBVIOUS
    <3>2. n - 1 \in 0..Len(cs)
      BY <3>1, <2>4
    <3>3. n - 1 \notin Bad
      <4>. HIDE DEF Bad
      <4>. QED BY <2>2, <3>1
    <3>4. PICK f : f = Def(f, n - 1)
      BY <3>2, <3>3
    <3>. DEFINE g == [i \in 0..n |-> IF i < n THEN f[i] ELSE f[n - 1] + Width[cs[n]]]
    <3>5. ASSUME NEW i \in 0..n
          PROVE  g[i] = IF i = 0 THEN 0 ELSE g[i - 1] + Width[cs[i]]
      <4>1. CASE i < n
        <5>1. i \in 0..(n - 1) /\ g[i] = f[i]
          BY <4>1, <3>1
        <5>2. f[i] = IF i = 0 THEN 0 ELSE f[i - 1] + Width[cs[i]]
          BY <3>4, <5>1 DEF Def
        <5>3. i # 0 => g[i - 1] = f[i - 1]
          BY <4>1, <3>1
        <5>. QED BY <5>1, <5>2, <5>3
      <4>2. CASE i = n
        BY <4>2, <3>1, <2>4
      <4>. QED BY <4>1, <4>2, <3>1
    <3>6. g = Def(g, n)
      <4>. DEFINE h == Def(g, n)
      <4>1. g = [i \in 0..n |-> g[i]]
        OBVIOUS
      <4>2. h = [i \in 0..n |-> IF i = 0 THEN 0 ELSE g[i - 1] + Width[cs[i]]]
        BY DEF Def
      <4>. HIDE DEF g, h
      <4>3. g = h
        BY <3>5, <4>1, <4>2
      <4>. QED BY <4>3 DEF h
    <3>. HIDE DEF g
    <3>. QED BY <3>6
  <2>. QED BY <2>3, <2>4
<1>2. \E f : f = Def(f, Len(cs))
  <2>. HIDE DEF Def
  <2>. QED BY <1>1
<1>3. Ends(cs) = Def(Ends(cs), Len(cs))
  BY <1>2 DEF Ends
<1>4. /\ Ends(cs)[0] = 0
      /\ \A i \in 1..Len(cs) : Ends(cs)[i] = Ends(cs)[i - 1] + Width[cs[i]]
  BY <1>3
<1>5. Wrong = {}
  <2>1. SUFFICES ASSUME Wrong # {} PROVE FALSE
    OBVIOUS
  <2>2. PICK n \in Wrong : \A m \in Wrong : n <= m
    <3>1. Wrong \in SUBSET Nat
      OBVIOUS
    <3>. HIDE DEF Wrong
    <3>. QED BY <2>1, <3>1, LeastElement
  <2>3. n # 0 /\ n \in 1..Len(cs)
    BY <1>4
  <2>4. n - 1 \notin Wrong
    <3>. HIDE DEF Wrong
    <3>. QED BY <2>2, <2>3
  <2>5. Ends(cs)[n - 1] \in Nat
    BY <2>3, <2>4
  <2>. QED BY <1>4, <2>3, <2>5
<1>. QED BY <1>4, <1>5

(* FlattenSeq appends one sequence after the other.                        *)
LEMMA FlattenAppends ==
  ASSUME NEW ss, Len(ss) \in Nat \ {0}
  PROVE  \E f : /\ f = [i \in 1..Len(ss) |-> IF i = 1 THEN ss[i] ELSE f[i - 1] \o ss[i]]
                /\ FlattenSeq(ss) = f[Len(ss)]
<1>. DEFINE Def(f, n) == [i \in 1..n |-> IF i = 1 THEN ss[i] ELSE f[i - 1] \o ss[i]]
            Bad == {n \in 1..Len(ss) : ~\E f : f = Def(f, n)}
<1>1. Bad = {}
  <2>1. SUFFICES ASSUME Bad # {} PROVE FALSE
    OBVIOUS
  <2>2. PICK n \in Bad : \A m \in Bad : n <= m
    <3>1. Bad \in SUBSET Nat
      <4>. HIDE DEF Def
      <4>. QED OBVIOUS
    <3>. HIDE DEF Bad
    <3>. QED BY <2>1, <3>1, LeastElement
  <2>3. n \in 1..Len(ss)
    OBVIOUS
  <2>4. \E f : n > 1 => f = Def(f, n - 1)
    <3>1. CASE n > 1
      <4>1. n - 1 \in 1..Len(ss) /\ n - 1 \notin Bad
        <5>. HIDE DEF Bad
        <5>. QED BY <2>2, <2>3, <3>1
      <4>. HIDE DEF Def
      <4>. QED BY <4>1
    <3>. QED BY <3>1
  <2>5. PICK f : n > 1 => f = Def(f, n - 1)
    BY <2>4
  <2>. DEFINE g == [i \in 1..n |-> IF i < n THEN f[i]
                                   ELSE IF n = 1 THEN ss[n] ELSE f[n - 1] \o ss[n]]
  <2>6. ASSUME NEW i \in 1..n
        PROVE  g[i] = IF i = 1 THEN ss[i] ELSE g[i - 1] \o ss[i]
    <3>1. CASE i < n
      <4>1. i \in 1..(n - 1) /\ g[i] = f[i] /\ n > 1
        BY <2>3, <3>1
      <4>2. f[i] = IF i = 1 THEN ss[i] ELSE f[i - 1] \o ss[i]
        BY <2>5, <4>1
      <4>3. i # 1 => g[i - 1] = f[i - 1]
        BY <2>3, <3>1
      <4>. HIDE DEF g
      <4>. QED BY <4>1, <4>2, <4>3
    <3>2. CASE i = n
      BY <2>3, <3>2
    <3>. QED BY <2>3, <3>1, <3>2
  <2>7. g = Def(g, n)
    <3>. DEFINE h == Def(g, n)
    <3>1. g = [i \in 1..n |-> g[i]]
      OBVIOUS
    <3>2. h = [i \in 1..n |-> IF i = 1 THEN ss[i] ELSE g[i - 1] \o ss[i]]
      OBVIOUS
    <3>. HIDE DEF g, h
    <3>3. g = h
      BY <2>6, <3>1, <3>2
    <3>. QED BY <3>3 DEF h
  <2>. HIDE DEF g, Def
  <2>. QED BY <2>3, <2>7
<1>2. \E f : f = Def(f, Len(ss))
  <2>. HIDE DEF Def
  <2>. QED BY <1>1, SMTT(30)
<1>. DEFINE F == CHOOSE f : f = Def(f, Len(ss))
<1>3. F = Def(F, Len(ss))
  <2>. HIDE DEF Def
  <2>. QED BY <1>2
<1>4. FlattenSeq(ss) = F[Len(ss)]
  BY DEF FlattenSeq
<1>. HIDE DEF F
<1>. QED BY <1>3, <1>4

(* The inputs of each child of a batch begin where the widths of those     *)
(* before it end: the offsets that are computed from the sizes are those   *)
(* at which the inputs were appended.                                      *)
LEMMA InputsAtTheirPlaces ==
  ASSUME NEW cs \in Seq(Child), cs # << >>
  PROVE  /\ Batch(cs) \in Seq(Child \X Nat)
         /\ \A i \in 1..Len(cs) :
              /\ PlaceOf(cs, i) \in Nat
              /\ \A k \in 1..Width[cs[i]] : Batch(cs)[PlaceOf(cs, i) + k] = <<cs[i], k>>
<1>. DEFINE ss == [i \in DOMAIN cs |-> Planes(cs[i])]
            E  == Ends(cs)
            N  == Len(cs)
<1>1. /\ N \in Nat \ {0} /\ DOMAIN cs = 1..N
      /\ \A i \in 1..N : cs[i] \in Child /\ Width[cs[i]] \in Nat \ {0}
  BY MuxAssumption, ElementOfSeq, LenProperties, EmptySeq
<1>2. Len(ss) = N
  BY <1>1
<1>3. PICK f : /\ f = [i \in 1..N |-> IF i = 1 THEN ss[i] ELSE f[i - 1] \o ss[i]]
               /\ Batch(cs) = f[N]
  <2>. HIDE DEF ss
  <2>1. PICK f : /\ f = [i \in 1..Len(ss) |-> IF i = 1 THEN ss[i] ELSE f[i - 1] \o ss[i]]
                 /\ FlattenSeq(ss) = f[Len(ss)]
    <3>. HIDE DEF N
    <3>. QED BY <1>1, <1>2, FlattenAppends
  <2>2. Batch(cs) = FlattenSeq(ss)
    BY DEF Batch, ss
  <2>. QED BY <1>2, <2>1, <2>2
<1>4. ASSUME NEW i \in 1..N
      PROVE  /\ ss[i] \in Seq(Child \X Nat) /\ Len(ss[i]) = Width[cs[i]]
             /\ \A k \in 1..Width[cs[i]] : ss[i][k] = <<cs[i], k>>
  <2>1. ss[i] = [k \in 1..Width[cs[i]] |-> <<cs[i], k>>]
    BY <1>1 DEF Planes
  <2>. HIDE DEF ss, N
  <2>2. \A k \in 1..Width[cs[i]] : <<cs[i], k>> \in Child \X Nat
    BY <1>1
  <2>3. ss[i] \in [1..Width[cs[i]] -> Child \X Nat]
    BY <2>1, <2>2
  <2>4. ss[i] \in Seq(Child \X Nat)
    BY <1>1, <2>3, SeqDef, SMTT(30)
  <2>5. Len(ss[i]) = Width[cs[i]]
    BY <1>1, <2>3, <2>4, LenProperties
  <2>. QED BY <2>1, <2>4, <2>5
<1>5. f[1] = ss[1] /\ \A n \in 1..N : n # 1 => f[n] = f[n - 1] \o ss[n]
  <2>. HIDE DEF ss, N
  <2>1. 1 \in 1..N
    BY <1>1
  <2>2. ASSUME NEW n \in 1..N
        PROVE  f[n] = IF n = 1 THEN ss[n] ELSE f[n - 1] \o ss[n]
    <3>. DEFINE g == [i \in 1..N |-> IF i = 1 THEN ss[i] ELSE f[i - 1] \o ss[i]]
    <3>1. g[n] = IF n = 1 THEN ss[n] ELSE f[n - 1] \o ss[n]
      BY Zenon
    <3>2. f = g
      BY <1>3
    <3>. HIDE DEF g
    <3>. QED BY <3>1, <3>2
  <2>. QED BY <2>1, <2>2
<1>6. /\ E[0] = 0 /\ \A i \in 1..N : E[i] = E[i - 1] + Width[cs[i]]
      /\ \A i \in 0..N : E[i] \in Nat
  BY EndsAdd
<1>. HIDE DEF ss, E, N
<1>. DEFINE Good(n) == /\ f[n] \in Seq(Child \X Nat) /\ Len(f[n]) = E[n]
                       /\ \A i \in 1..n : E[i] <= E[n]
                       /\ \A i \in 1..n : \A k \in 1..Width[cs[i]] :
                            f[n][E[i - 1] + k] = <<cs[i], k>>
            Bad == {n \in 1..N : ~Good(n)}
<1>7. Bad = {}
  <2>1. SUFFICES ASSUME Bad # {} PROVE FALSE
    OBVIOUS
  <2>2. PICK n \in Bad : \A m \in Bad : n <= m
    <3>1. Bad \in SUBSET Nat
      <4>. HIDE DEF Good
      <4>. QED BY <1>1
    <3>. HIDE DEF Bad
    <3>. QED BY <2>1, <3>1, LeastElement
  <2>3. n \in 1..N /\ ~Good(n)
    <3>. HIDE DEF Good
    <3>. QED OBVIOUS
  <2>. HIDE DEF Bad
  <2>4. CASE n = 1
    <3>1. f[1] = ss[1] /\ 1 \in 1..N /\ E[0] = 0
      BY <1>1, <1>5, <1>6
    <3>2. E[1] = Width[cs[1]] /\ Width[cs[1]] \in Nat
      BY <1>1, <1>6, <3>1
    <3>3. /\ ss[1] \in Seq(Child \X Nat) /\ Len(ss[1]) = Width[cs[1]]
          /\ \A k \in 1..Width[cs[1]] : ss[1][k] = <<cs[1], k>>
      BY <1>4, <3>1
    <3>4. Good(1)
      BY <3>1, <3>2, <3>3
    <3>. HIDE DEF Good
    <3>. QED BY <2>3, <2>4, <3>4
  <2>5. CASE n # 1
    <3>0. n \in 1..N
      BY <2>3
    <3>1. n - 1 \in 1..N /\ n - 1 \notin Bad
      BY <2>2, <3>0, <2>5, <1>1
    <3>2. Good(n - 1)
      <4>. HIDE DEF Good
      <4>. QED BY <3>1 DEF Bad
    <3>3. /\ f[n] = f[n - 1] \o ss[n] /\ E[n] = E[n - 1] + Width[cs[n]]
          /\ ss[n] \in Seq(Child \X Nat) /\ Len(ss[n]) = Width[cs[n]]
          /\ \A k \in 1..Width[cs[n]] : ss[n][k] = <<cs[n], k>>
          /\ Width[cs[n]] \in Nat \ {0} /\ E[n - 1] \in Nat /\ E[n] \in Nat
      <4>1. f[n] = f[n - 1] \o ss[n]
        BY <1>5, <3>0, <2>5
      <4>2. E[n] = E[n - 1] + Width[cs[n]]
        BY <1>6, <3>0
      <4>3. n \in 0..N /\ n - 1 \in 0..N
        BY <1>1, <3>0
      <4>4. E[n - 1] \in Nat /\ E[n] \in Nat
        BY <1>6, <4>3
      <4>. QED BY <1>1, <1>4, <3>0, <4>1, <4>2, <4>4
    <3>4. /\ f[n] \in Seq(Child \X Nat) /\ Len(f[n]) = E[n]
          /\ \A p \in 1..E[n] :
               f[n][p] = IF p <= E[n - 1] THEN f[n - 1][p] ELSE ss[n][p - E[n - 1]]
      <4>1. f[n - 1] \in Seq(Child \X Nat) /\ Len(f[n - 1]) = E[n - 1]
        BY <3>2
      <4>2. f[n] = f[n - 1] \o ss[n]
        BY <3>3
      <4>3. ss[n] \in Seq(Child \X Nat) /\ Len(ss[n]) = Width[cs[n]]
        BY <3>3
      <4>4. Len(f[n - 1]) + Len(ss[n]) = E[n]
        BY <3>3, <4>1
      <4>. DEFINE s == f[n - 1]
                  t == ss[n]
      <4>5. /\ s \o t \in Seq(Child \X Nat) /\ Len(s \o t) = Len(s) + Len(t)
            /\ \A p \in 1..(Len(s) + Len(t)) :
                 (s \o t)[p] = IF p <= Len(s) THEN s[p] ELSE t[p - Len(s)]
        <5>1. s \in Seq(Child \X Nat) /\ t \in Seq(Child \X Nat)
          BY <4>1, <4>3
        <5>. HIDE DEF s, t
        <5>. QED BY <5>1, ConcatProperties
      <4>6. f[n] = s \o t /\ Len(s) = E[n - 1] /\ Len(s) + Len(t) = E[n]
        BY <4>1, <4>2, <4>4
      <4>7. /\ f[n] \in Seq(Child \X Nat) /\ Len(f[n]) = E[n]
            /\ \A p \in 1..E[n] :
                 f[n][p] = IF p <= E[n - 1] THEN s[p] ELSE t[p - E[n - 1]]
        <5>. HIDE DEF s, t
        <5>. QED BY <4>5, <4>6
      <4>. QED BY <4>7
    <3>5. \A i \in 1..n : E[i] <= E[n]
      <4>. TAKE i \in 1..n
      <4>1. i # n => i \in 1..(n - 1) /\ E[i] \in Nat
        BY <2>3, <1>1, <1>6
      <4>. QED BY <4>1, <3>2, <3>3
    <3>6. ASSUME NEW i \in 1..n, NEW k \in 1..Width[cs[i]]
          PROVE  f[n][E[i - 1] + k] = <<cs[i], k>>
      <4>1. CASE i = n
        <5>0. /\ E[n] = E[n - 1] + Width[cs[n]] /\ Width[cs[n]] \in Nat
              /\ E[n - 1] \in Nat /\ k \in 1..Width[cs[n]] /\ E[n] \in Nat
          BY <3>3, <4>1
        <5>1. E[n - 1] + k \in 1..E[n] /\ ~(E[n - 1] + k <= E[n - 1])
          BY <5>0, SMTT(30)
        <5>2. E[n - 1] + k - E[n - 1] = k
          BY <5>0
        <5>. DEFINE p == E[n - 1] + k
        <5>3. f[n][p] = ss[n][p - E[n - 1]]
          <6>1. p \in 1..E[n] /\ ~(p <= E[n - 1])
            BY <5>1
          <6>. HIDE DEF p
          <6>. QED BY <3>4, <6>1
        <5>4. ss[n][k] = <<cs[n], k>>
          BY <3>3, <5>0
        <5>5. f[n][p] = <<cs[n], k>>
          <6>1. p - E[n - 1] = k
            BY <5>0
          <6>. HIDE DEF p
          <6>. QED BY <5>3, <5>4, <6>1
        <5>. QED BY <4>1, <5>5
      <4>2. CASE i # n
        <5>1. i \in 1..(n - 1) /\ i \in 1..N
          BY <2>3, <4>2, <1>1
        <5>2. /\ E[i] <= E[n - 1] /\ E[i] = E[i - 1] + Width[cs[i]]
              /\ E[i - 1] \in Nat /\ E[i] \in Nat /\ Width[cs[i]] \in Nat
          BY <1>1, <1>6, <3>2, <5>1
        <5>3. /\ E[n] = E[n - 1] + Width[cs[n]] /\ Width[cs[n]] \in Nat
              /\ E[n - 1] \in Nat /\ E[n] \in Nat
          BY <3>3
        <5>4. k \in Nat /\ 1 <= k /\ k <= Width[cs[i]]
          BY <5>2
        <5>. DEFINE a == E[i - 1]
                    b == E[i]
                    x == E[n - 1]
                    y == E[n]
                    u == Width[cs[i]]
                    v == Width[cs[n]]
        <5>5. a + k \in 1..y /\ a + k <= x
          <6>1. b <= x /\ b = a + u /\ y = x + v /\ k <= u
            BY <5>2, <5>3, <5>4
          <6>2. /\ a \in Nat /\ b \in Nat /\ x \in Nat /\ y \in Nat
                /\ u \in Nat /\ v \in Nat /\ k \in Nat \ {0}
            BY <5>2, <5>3, <5>4
          <6>. HIDE DEF a, b, x, y, u, v
          <6>. QED BY <6>1, <6>2
        <5>6. f[n][E[i - 1] + k] = f[n - 1][E[i - 1] + k]
          BY <3>4, <5>5
        <5>7. f[n - 1][E[i - 1] + k] = <<cs[i], k>>
          BY <3>2, <5>1
        <5>. QED BY <5>6, <5>7
      <4>. QED BY <4>1, <4>2
    <3>7. Good(n)
      BY <3>4, <3>5, <3>6
    <3>. QED BY <2>3, <3>7
  <2>. QED BY <2>4, <2>5
<1>8. Good(N)
  <2>. HIDE DEF Good
  <2>. QED BY <1>1, <1>7
<1>9. \A i \in 1..N : PlaceOf(cs, i) = E[i - 1] /\ E[i - 1] \in Nat
  BY <1>1, <1>6 DEF PlaceOf, E
<1>. QED BY <1>3, <1>8, <1>9 DEF N

-----------------------------------------------------------------------------
(* The inductive invariant.                                                *)
Untold(c)  == child[c] = "waiting" /\ ~served[c]
InLine(c)  == \E i \in 1..Len(line) : line[i] = c
Has(w, c)  == \E i \in 1..Len(children[w]) : children[w][i] = c
InHands(c) == \E w \in Worker : Has(w, c)

\* The children that have not been told are in the queue or in somebody's hands, once.
Places ==
  /\ \A i, j \in 1..Len(line) : line[i] = line[j] => i = j
  /\ \A v, w \in Worker : \A i \in 1..Len(children[v]), j \in 1..Len(children[w]) :
       children[v][i] = children[w][j] => v = w /\ i = j
  /\ \A w \in Worker : \A i \in 1..Len(children[w]), j \in 1..Len(line) :
       children[w][i] # line[j]
  /\ \A c \in Child : Untold(c) <=> InLine(c) \/ InHands(c)

\* A worker computes as long as the network below has its batch.
Workers ==
  /\ \A w \in Worker : worker[w] = "compute" <=> below[w] # "idle"
  /\ \A w \in Worker : below[w] = "idle" => children[w] = << >>
  /\ stopping <=> closer # "open"
  /\ WithinLimit

\* At its offset, the batch of a child holds the child's own inputs.
Found(c) == \A k \in 1..Width[c] : parent[c][offset[c] + k] = <<c, k>>

\* What is known of the results of a child that is away, in the queue, in a worker's
\* hands, or told.
Results ==
  \A c \in Child :
    /\ child[c] = "away" => ~served[c] /\ parent[c] = << >> /\ ~results[c]
    /\ child[c] = "done" => served[c]
    /\ InLine(c) => parent[c] = << >> /\ ~results[c]
    /\ \A w \in Worker : Has(w, c) => Found(c) /\ (below[w] = "answered" => results[c])
    /\ served[c] => \/ results[c] /\ Found(c)
                    \/ parent[c] = << >> /\ ~results[c] /\ stopping

IInv == MuxTypeOK /\ Places /\ Workers /\ Results /\ NoSleeperIsMissed

LEMMA InitIInv == MuxInit => IInv
<1>. SUFFICES ASSUME MuxInit PROVE IInv
  OBVIOUS
<1>1. MuxTypeOK
  BY EmptySeq DEF MuxInit, MuxTypeOK
<1>2. Len(line) = 0 /\ \A w \in Worker : Len(children[w]) = 0
  BY DEF MuxInit
<1>3. Places
  BY <1>2 DEF MuxInit, Places, Untold, InLine, InHands, Has
<1>4. Workers
  BY DEF MuxInit, Workers, WithinLimit
<1>5. Results
  BY <1>2 DEF MuxInit, Results, InLine, Has
<1>6. NoSleeperIsMissed
  <2>1. Sleepers = {}
    BY DEF MuxInit, Sleepers
  <2>. QED BY <2>1 DEF NoSleeperIsMissed
<1>. QED BY <1>1, <1>3, <1>4, <1>5, <1>6 DEF IInv

LEMMA Notified ==
  ASSUME MuxTypeOK, NotifyOne
  PROVE  /\ worker' \in [Worker -> {"look", "asleep", "compute", "gone"}]
         /\ \A w \in Worker : \/ worker'[w] = worker[w]
                              \/ worker[w] = "asleep" /\ worker'[w] = "look"
<1>. worker \in [Worker -> {"look", "asleep", "compute", "gone"}]
  BY DEF MuxTypeOK
<1>1. CASE Sleepers = {}
  <2>1. worker' = worker
    BY <1>1 DEF NotifyOne
  <2>. QED BY <2>1
<1>2. CASE Sleepers # {}
  <2>1. PICK w \in Sleepers : worker' = [worker EXCEPT ![w] = "look"]
    BY <1>2 DEF NotifyOne
  <2>2. w \in Worker /\ worker[w] = "asleep"
    BY DEF Sleepers
  <2>. QED BY <2>1, <2>2
<1>. QED BY <1>1, <1>2

Lookers == {w \in Worker : worker[w] = "look"}

LEMMA LookersAreCounted ==
  Cardinality(Lookers) \in Nat
  BY MuxAssumption, FS_Subset, FS_CardinalityType DEF Lookers

LEMMA OneMoreLooks ==
  ASSUME MuxTypeOK, NEW w \in Worker, worker[w] # "look",
         worker' = [worker EXCEPT ![w] = "look"]
  PROVE  Cardinality(Lookers') = Cardinality(Lookers) + 1
<1>1. Lookers' = Lookers \cup {w} /\ w \notin Lookers
  BY DEF Lookers, MuxTypeOK
<1>2. IsFiniteSet(Lookers)
  BY MuxAssumption, FS_Subset DEF Lookers
<1>. QED BY <1>1, <1>2, FS_AddElement

LEMMA OneLessLooks ==
  ASSUME MuxTypeOK, NEW w \in Worker, worker[w] = "look", NEW place, place # "look",
         worker' = [worker EXCEPT ![w] = place]
  PROVE  Cardinality(Lookers') = Cardinality(Lookers) - 1
<1>1. Lookers' = Lookers \ {w} /\ w \in Lookers
  BY DEF Lookers, MuxTypeOK
<1>2. IsFiniteSet(Lookers)
  BY MuxAssumption, FS_Subset DEF Lookers
<1>. QED BY <1>1, <1>2, FS_RemoveElement

LEMMA EnqueueKeeps ==
  ASSUME IInv, NEW c \in Child, Enqueue(c)
  PROVE  IInv'
<1>. DEFINE n == Len(line)
<1>1. /\ MuxTypeOK /\ Places /\ Workers /\ Results
      /\ child[c] = "away" /\ closer = "open" /\ NotifyOne
      /\ child' = [child EXCEPT ![c] = "waiting"] /\ line' = Append(line, c)
      /\ UNCHANGED <<served, parent, offset, results, children, below, closer, stopping>>
  BY DEF IInv, Enqueue
<1>2. /\ line' \in Seq(Child) /\ Len(line') = n + 1 /\ n \in Nat
      /\ \A i \in 1..n : line'[i] = line[i]
      /\ line'[n + 1] = c
  <2>1. line \in Seq(Child)
    BY <1>1 DEF MuxTypeOK
  <2>. QED BY <1>1, <2>1, AppendProperties, LenProperties
<1>3. ~served[c] /\ ~InLine(c) /\ ~InHands(c) /\ parent[c] = << >> /\ ~results[c]
  BY <1>1 DEF Results, Places, Untold
<1>. HIDE DEF n
<1>4. \A i : i \in 1..(n + 1) <=> i \in 1..n \/ i = n + 1
  BY <1>2
<1>5. MuxTypeOK'
  BY <1>1, <1>2, Notified DEF MuxTypeOK
<1>6. Places'
  <2>1. \A i \in 1..n : line[i] # c
    BY <1>3 DEF InLine, n
  <2>2. \A i, j \in 1..(n + 1) : line'[i] = line'[j] => i = j
    BY <1>1, <1>2, <1>4, <2>1 DEF Places, n
  <2>3. \A w \in Worker : \A i \in 1..Len(children[w]), j \in 1..(n + 1) :
          children[w][i] # line'[j]
    BY <1>1, <1>2, <1>3, <1>4 DEF Places, InHands, Has, n
  <2>4. \A d \in Child : InLine(d)' <=> InLine(d) \/ d = c
    BY <1>2, <1>4 DEF InLine, n
  <2>5. \A d \in Child : InHands(d)' <=> InHands(d)
    BY <1>1 DEF InHands, Has
  <2>6. \A d \in Child : Untold(d)' <=> Untold(d) \/ d = c
    BY <1>1, <1>3 DEF Untold, MuxTypeOK
  <2>. QED BY <1>1, <1>2, <2>2, <2>3, <2>4, <2>5, <2>6 DEF Places
<1>7. Workers'
  BY <1>1, Notified DEF Workers, WithinLimit, Total
<1>8. Results'
  <2>1. \A d \in Child : Found(d)' <=> Found(d)
    BY <1>1 DEF Found
  <2>2. \A d \in Child : InLine(d)' <=> InLine(d) \/ d = c
    BY <1>2, <1>4 DEF InLine, n
  <2>3. \A d \in Child, w \in Worker : Has(w, d)' <=> Has(w, d)
    BY <1>1 DEF Has
  <2>4. \A d \in Child : child'[d] = child[d] \/ (d = c /\ child'[d] = "waiting")
    BY <1>1 DEF MuxTypeOK
  <2>. QED BY <1>1, <1>3, <2>1, <2>2, <2>3, <2>4 DEF Results
<1>9. NoSleeperIsMissed'
  <2>1. CASE Sleepers = {}
    <3>1. Sleepers' = {}
      BY <1>1, <2>1 DEF NotifyOne, Sleepers
    <3>. QED BY <3>1 DEF NoSleeperIsMissed
  <2>2. CASE Sleepers # {}
    <3>1. PICK w \in Sleepers : worker' = [worker EXCEPT ![w] = "look"]
      BY <1>1, <2>2 DEF NotifyOne
    <3>2. w \in Worker /\ worker[w] # "look"
      BY DEF Sleepers
    <3>3. Cardinality(Lookers') = Cardinality(Lookers) + 1
      BY <1>1, <3>1, <3>2, OneMoreLooks
    <3>4. n <= Cardinality(Lookers)
      BY <1>1, <2>2 DEF IInv, NoSleeperIsMissed, Workers, Lookers, n
    <3>. QED BY <1>2, <3>3, <3>4, LookersAreCounted DEF NoSleeperIsMissed, Lookers
  <2>. QED BY <2>1, <2>2
<1>. QED BY <1>5, <1>6, <1>7, <1>8, <1>9 DEF IInv

LEMMA ReturnKeeps ==
  ASSUME IInv, NEW c \in Child, ReturnToCaller(c)
  PROVE  IInv'
<1>1. /\ MuxTypeOK /\ Places /\ Workers /\ Results
      /\ child[c] = "waiting" /\ served[c]
      /\ child' = [child EXCEPT ![c] = "done"]
      /\ UNCHANGED <<served, parent, offset, results, line, worker, children, below, closer,
                     stopping>>
  BY DEF IInv, ReturnToCaller
<1>2. MuxTypeOK'
  BY <1>1 DEF MuxTypeOK
<1>3. Places'
  <2>1. \A d \in Child : Untold(d)' <=> Untold(d)
    BY <1>1 DEF Untold, MuxTypeOK
  <2>2. \A d \in Child : /\ InLine(d)' <=> InLine(d)
                         /\ InHands(d)' <=> InHands(d)
    BY <1>1 DEF InLine, InHands, Has
  <2>. QED BY <1>1, <2>1, <2>2 DEF Places
<1>4. Workers'
  BY <1>1 DEF Workers, WithinLimit, Total
<1>5. Results'
  <2>1. \A d \in Child : Found(d)' <=> Found(d)
    BY <1>1 DEF Found
  <2>2. \A d \in Child : /\ InLine(d)' <=> InLine(d)
                         /\ \A w \in Worker : Has(w, d)' <=> Has(w, d)
    BY <1>1 DEF InLine, Has
  <2>3. \A d \in Child : child'[d] = child[d] \/ (d = c /\ child'[d] = "done")
    BY <1>1 DEF MuxTypeOK
  <2>. QED BY <1>1, <2>1, <2>2, <2>3 DEF Results
<1>6. NoSleeperIsMissed'
  BY <1>1 DEF IInv, NoSleeperIsMissed, Sleepers
<1>. QED BY <1>2, <1>3, <1>4, <1>5, <1>6 DEF IInv

LEMMA DestroyKeeps ==
  ASSUME IInv, NEW c \in Child, DestroyChild(c)
  PROVE  IInv'
<1>1. /\ MuxTypeOK /\ Places /\ Workers /\ Results
      /\ child[c] = "done"
      /\ child' = [child EXCEPT ![c] = "away"]
      /\ served' = [served EXCEPT ![c] = FALSE]
      /\ parent' = [parent EXCEPT ![c] = << >>] /\ offset' = [offset EXCEPT ![c] = 0]
      /\ results' = [results EXCEPT ![c] = FALSE]
      /\ UNCHANGED <<line, worker, children, below, closer, stopping>>
  BY DEF IInv, DestroyChild
<1>2. ~InLine(c) /\ ~InHands(c)
  BY <1>1 DEF Places, Untold
<1>4. MuxTypeOK'
  BY <1>1, EmptySeq DEF MuxTypeOK
<1>5. \A d \in Child \ {c} : /\ child'[d] = child[d] /\ served'[d] = served[d]
                             /\ parent'[d] = parent[d] /\ offset'[d] = offset[d]
                             /\ results'[d] = results[d]
  BY <1>1 DEF MuxTypeOK
<1>6. child'[c] = "away" /\ ~served'[c] /\ parent'[c] = << >> /\ ~results'[c]
  BY <1>1 DEF MuxTypeOK
<1>7. Places'
  <2>1. \A d \in Child : Untold(d)' <=> Untold(d)
    BY <1>1, <1>5, <1>6 DEF Untold
  <2>2. \A d \in Child : /\ InLine(d)' <=> InLine(d)
                         /\ InHands(d)' <=> InHands(d)
    BY <1>1 DEF InLine, InHands, Has
  <2>. QED BY <1>1, <2>1, <2>2 DEF Places
<1>8. Workers'
  BY <1>1 DEF Workers, WithinLimit, Total
<1>9. Results'
  <2>1. \A d \in Child \ {c} : Found(d)' <=> Found(d)
    BY <1>5 DEF Found
  <2>2. \A d \in Child : /\ InLine(d)' <=> InLine(d)
                         /\ \A w \in Worker : Has(w, d)' <=> Has(w, d)
    BY <1>1 DEF InLine, Has
  <2>3. \A w \in Worker : ~Has(w, c)
    BY <1>2 DEF InHands
  <2>. QED BY <1>1, <1>2, <1>5, <1>6, <2>1, <2>2, <2>3 DEF Results
<1>10. NoSleeperIsMissed'
  BY <1>1 DEF IInv, NoSleeperIsMissed, Sleepers
<1>. QED BY <1>4, <1>7, <1>8, <1>9, <1>10 DEF IInv

LEMMA TakeKeeps ==
  ASSUME IInv, NEW w \in Worker, TakeChildren(w)
  PROVE  IInv'
<1>1. /\ MuxTypeOK /\ Places /\ Workers /\ Results /\ NoSleeperIsMissed
      /\ worker[w] = "look" /\ ~stopping
      /\ worker' = [worker EXCEPT ![w] = "compute"]
      /\ below[w] = "idle" /\ below' = [below EXCEPT ![w] = "asked"]
      /\ UNCHANGED <<child, served, results, closer, stopping>>
  BY DEF IInv, TakeChildren, Below!Ask, Below!Turn
<1>2. PICK n \in DOMAIN line :
        LET cs == SubSeq(line, 1, n)
        IN /\ Fits(w, n) /\ line' = Rest(n)
           /\ children' = [children EXCEPT ![w] = cs]
           /\ parent' = [c \in Child |-> IF c \in ToSet(cs) THEN Batch(cs) ELSE parent[c]]
           /\ offset' = [c \in Child |-> IF c \in ToSet(cs)
                           THEN PlaceOf(cs, CHOOSE i \in DOMAIN cs : cs[i] = c)
                           ELSE offset[c]]
  BY DEF TakeChildren
<1>. DEFINE cs == SubSeq(line, 1, n)
            m  == Len(line) - n
<1>3. line \in Seq(Child) /\ n \in 1..Len(line) /\ Len(line) \in Nat
  BY <1>1 DEF MuxTypeOK
<1>4. \A i \in 1..Len(line) : line[i] \in Child
  BY <1>3, ElementOfSeq
<1>5. /\ cs \in Seq(Child) /\ Len(cs) = n /\ DOMAIN cs = 1..n
      /\ \A i \in 1..n : cs[i] = line[i]
  <2>1. \A i \in 1..n : line[i] \in Child
    BY <1>3, <1>4
  <2>. QED BY <1>3, <2>1, SubSeqProperties, LenProperties
<1>6. /\ line' \in Seq(Child) /\ Len(line') = m /\ m \in Nat
      /\ \A i \in 1..m : line'[i] = line[n + i]
  <2>1. \A i \in (n + 1)..Len(line) : line[i] \in Child
    BY <1>3, <1>4
  <2>2. line' = SubSeq(line, n + 1, Len(line))
    BY <1>2 DEF Rest
  <2>3. /\ SubSeq(line, n + 1, Len(line)) \in Seq(Child)
        /\ Len(SubSeq(line, n + 1, Len(line))) = m
        /\ \A i \in 1..m : SubSeq(line, n + 1, Len(line))[i] = line[n + i]
    BY <1>3, <2>1, SubSeqProperties
  <2>. QED BY <1>3, <2>2, <2>3
<1>7. \A c : c \in ToSet(cs) <=> \E i \in 1..n : line[i] = c
  BY <1>5 DEF ToSet
<1>8. /\ children' = [children EXCEPT ![w] = cs] /\ Fits(w, n)
      /\ \A c \in Child : c \in ToSet(cs) =>
           /\ parent'[c] = Batch(cs)
           /\ offset'[c] = PlaceOf(cs, CHOOSE i \in DOMAIN cs : cs[i] = c)
      /\ \A c \in Child : c \notin ToSet(cs) =>
           parent'[c] = parent[c] /\ offset'[c] = offset[c]
      /\ parent' \in [Child -> {parent'[c] : c \in Child}]
      /\ offset' \in [Child -> {offset'[c] : c \in Child}]
  BY <1>2
<1>9. /\ Batch(cs) \in Seq(Child \X Nat)
      /\ \A i \in 1..n : /\ PlaceOf(cs, i) \in Nat
                         /\ \A k \in 1..Width[cs[i]] :
                              Batch(cs)[PlaceOf(cs, i) + k] = <<cs[i], k>>
  <2>1. cs # << >>
    BY <1>3, <1>5
  <2>. HIDE DEF cs
  <2>. QED BY <1>5, <2>1, InputsAtTheirPlaces
<1>. HIDE DEF cs, m
<1>10. \A i : /\ i \in 1..n => i \in 1..Len(line)
              /\ i \in 1..m => n + i \in 1..Len(line) /\ n + i \notin 1..n
              /\ i \in 1..Len(line) /\ i \notin 1..n => i - n \in 1..m /\ n + (i - n) = i
  BY <1>3 DEF m
<1>11. ASSUME NEW c \in Child, c \in ToSet(cs)
       PROVE  offset'[c] \in Nat /\ Found(c)'
  <2>. DEFINE i == CHOOSE i \in DOMAIN cs : cs[i] = c
  <2>1. i \in 1..n /\ cs[i] = c
    BY <1>5, <1>7, <1>11
  <2>2. parent'[c] = Batch(cs) /\ offset'[c] = PlaceOf(cs, i)
    BY <1>8, <1>11
  <2>. HIDE DEF i
  <2>. QED BY <1>9, <2>1, <2>2 DEF Found
<1>12. MuxTypeOK'
  <2>1. parent' \in [Child -> Seq(Child \X Nat)]
    <3>1. \A c \in Child : parent'[c] \in Seq(Child \X Nat)
      BY <1>1, <1>8, <1>9 DEF MuxTypeOK
    <3>. QED BY <1>8, <3>1
  <2>2. offset' \in [Child -> Nat]
    <3>1. \A c \in Child : offset'[c] \in Nat
      BY <1>1, <1>8, <1>11 DEF MuxTypeOK
    <3>. QED BY <1>8, <3>1
  <2>3. children' \in [Worker -> Seq(Child)]
    BY <1>1, <1>5, <1>8 DEF MuxTypeOK
  <2>. QED BY <1>1, <1>6, <2>1, <2>2, <2>3 DEF MuxTypeOK
<1>13. /\ children'[w] = cs /\ \A v \in Worker \ {w} : children'[v] = children[v]
       /\ children[w] = << >>
       /\ below'[w] = "asked" /\ \A v \in Worker \ {w} : below'[v] = below[v]
  BY <1>1, <1>8 DEF MuxTypeOK, Workers
<1>14. Places'
  <2>1. ASSUME NEW i \in 1..m, NEW j \in 1..m, line'[i] = line'[j]
        PROVE  i = j
    <3>1. line[n + i] = line[n + j] /\ n + i \in 1..Len(line) /\ n + j \in 1..Len(line)
      BY <1>6, <1>10, <2>1
    <3>2. n + i = n + j
      BY <1>1, <3>1 DEF Places
    <3>. QED BY <1>3, <3>2
  <2>2. ASSUME NEW u \in Worker, NEW v \in Worker,
               NEW i \in 1..Len(children'[u]), NEW j \in 1..Len(children'[v]),
               children'[u][i] = children'[v][j]
        PROVE  u = v /\ i = j
    <3>1. CASE u = w /\ v = w
      BY <1>1, <1>5, <1>10, <1>13, <2>2, <3>1, SMTT(30) DEF Places
    <3>2. CASE u = w /\ v # w
      BY <1>1, <1>5, <1>10, <1>13, <2>2, <3>2, SMTT(30) DEF Places
    <3>3. CASE u # w /\ v = w
      BY <1>1, <1>5, <1>10, <1>13, <2>2, <3>3, SMTT(30) DEF Places
    <3>4. CASE u # w /\ v # w
      <4>1. children'[u] = children[u] /\ children'[v] = children[v]
        BY <1>13, <3>4
      <4>. QED BY <1>1, <2>2, <4>1, SMTT(30) DEF Places
    <3>. QED BY <3>1, <3>2, <3>3, <3>4
  <2>3. ASSUME NEW v \in Worker, NEW i \in 1..Len(children'[v]), NEW j \in 1..m
        PROVE  children'[v][i] # line'[j]
    <3>1. CASE v = w
      <4>1. i \in 1..n /\ children'[v][i] = line[i]
        BY <1>5, <1>13, <3>1
      <4>2. line'[j] = line[n + j] /\ n + j # i
        BY <1>3, <1>6, <1>10, <4>1
      <4>. QED BY <1>1, <1>10, <4>1, <4>2 DEF Places
    <3>2. CASE v # w
      <4>1. children'[v] = children[v]
        BY <1>13, <3>2
      <4>2. line'[j] = line[n + j] /\ n + j \in 1..Len(line)
        BY <1>6, <1>10
      <4>. QED BY <1>1, <4>1, <4>2 DEF Places
    <3>. QED BY <3>1, <3>2
  <2>4. \A c \in Child : Untold(c)' <=> Untold(c)
    BY <1>1 DEF Untold
  <2>5. ASSUME NEW c \in Child
        PROVE  InLine(c)' \/ InHands(c)' <=> InLine(c) \/ InHands(c)
    <3>1. ASSUME InLine(c) PROVE InLine(c)' \/ InHands(c)'
      <4>1. PICK i \in 1..Len(line) : line[i] = c
        BY <3>1 DEF InLine
      <4>2. CASE i \in 1..n
        BY <1>5, <1>13, <4>1, <4>2 DEF InHands, Has
      <4>3. CASE i \notin 1..n
        BY <1>6, <1>10, <4>1, <4>3 DEF InLine
      <4>. QED BY <4>2, <4>3
    <3>2. ASSUME InHands(c) PROVE InHands(c)'
      <4>1. PICK v \in Worker : \E i \in 1..Len(children[v]) : children[v][i] = c
        BY <3>2 DEF InHands, Has
      <4>2. v # w
        BY <1>13, <4>1
      <4>. QED BY <1>13, <4>1, <4>2 DEF InHands, Has
    <3>3. ASSUME InLine(c)' PROVE InLine(c)
      BY <1>6, <1>10, <3>3 DEF InLine
    <3>4. ASSUME InHands(c)' PROVE InLine(c) \/ InHands(c)
      <4>1. PICK v \in Worker : \E i \in 1..Len(children'[v]) : children'[v][i] = c
        BY <3>4 DEF InHands, Has
      <4>2. CASE v = w
        BY <1>5, <1>10, <1>13, <4>1, <4>2 DEF InLine
      <4>3. CASE v # w
        BY <1>13, <4>1, <4>3 DEF InHands, Has
      <4>. QED BY <4>2, <4>3
    <3>. QED BY <3>1, <3>2, <3>3, <3>4
  <2>6. \A i, j \in 1..Len(line') : line'[i] = line'[j] => i = j
    BY <1>6, <2>1
  <2>7. \A v \in Worker : \A i \in 1..Len(children'[v]), j \in 1..Len(line') :
          children'[v][i] # line'[j]
    BY <1>6, <2>3
  <2>8. \A c \in Child : Untold(c)' <=> InLine(c)' \/ InHands(c)'
    BY <1>1, <2>4, <2>5 DEF Places
  <2>. QED BY <2>2, <2>6, <2>7, <2>8 DEF Places
<1>15. Workers'
  <2>1. \A v \in Worker : worker'[v] = "compute" <=> below'[v] # "idle"
    BY <1>1, <1>13 DEF MuxTypeOK, Workers
  <2>2. \A v \in Worker : below'[v] = "idle" => children'[v] = << >>
    BY <1>1, <1>13 DEF Workers
  <2>3. ASSUME NEW v \in Worker, below'[v] = "asked"
        PROVE  Total(children'[v]) <= MaxBatch[v] \/ Len(children'[v]) = 1
    <3>1. CASE v = w
      BY <1>5, <1>8, <1>13, <3>1 DEF Fits, cs
    <3>2. CASE v # w
      BY <1>1, <1>13, <2>3, <3>2 DEF Workers, WithinLimit
    <3>. QED BY <3>1, <3>2
  <2>4. WithinLimit'
    BY <2>3 DEF WithinLimit, Total
  <2>. QED BY <1>1, <2>1, <2>2, <2>4 DEF Workers
<1>16. Results'
  <2>. SUFFICES ASSUME NEW c \in Child
                PROVE  /\ child'[c] = "away" =>
                            ~served'[c] /\ parent'[c] = << >> /\ ~results'[c]
                       /\ child'[c] = "done" => served'[c]
                       /\ InLine(c)' => parent'[c] = << >> /\ ~results'[c]
                       /\ \A v \in Worker : Has(v, c)' =>
                            Found(c)' /\ (below'[v] = "answered" => results'[c])
                       /\ served'[c] => \/ results'[c] /\ Found(c)'
                                        \/ parent'[c] = << >> /\ ~results'[c] /\ stopping'
    BY DEF Results
  <2>1. c \in ToSet(cs) => InLine(c)
    BY <1>7, <1>10 DEF InLine
  <2>2. InLine(c) => Untold(c)
    BY <1>1 DEF Places
  <2>3. CASE c \in ToSet(cs)
    <3>1. child[c] = "waiting" /\ ~served[c]
      BY <2>1, <2>2, <2>3 DEF Untold
    <3>2. ~InLine(c)'
      <4>1. PICK i \in 1..n : line[i] = c
        BY <1>7, <2>3
      <4>2. ASSUME NEW j \in 1..m PROVE line'[j] # c
        <5>1. line'[j] = line[n + j] /\ n + j \in 1..Len(line) /\ n + j # i
          BY <1>6, <1>10
        <5>. QED BY <1>1, <1>10, <4>1, <5>1 DEF Places
      <4>. QED BY <1>6, <4>2 DEF InLine
    <3>3. ASSUME NEW v \in Worker, Has(v, c)' PROVE v = w
      <4>1. ~InHands(c)
        BY <1>1, <2>1, <2>3 DEF Places, InLine, InHands, Has
      <4>2. v # w => Has(v, c)
        BY <1>13, <3>3 DEF Has
      <4>. QED BY <4>1, <4>2 DEF InHands
    <3>. QED BY <1>1, <1>11, <1>13, <2>3, <3>1, <3>2, <3>3
  <2>4. CASE c \notin ToSet(cs)
    <3>1. parent'[c] = parent[c] /\ offset'[c] = offset[c]
      BY <1>8, <2>4
    <3>2. Found(c)' <=> Found(c)
      BY <3>1 DEF Found
    <3>3. InLine(c)' => InLine(c)
      BY <1>6, <1>10 DEF InLine
    <3>4. ASSUME NEW v \in Worker, Has(v, c)' PROVE v # w /\ Has(v, c)
      <4>1. v # w
        BY <1>5, <1>7, <1>13, <2>4, <3>4 DEF Has
      <4>. QED BY <1>13, <3>4, <4>1 DEF Has
    <3>. QED BY <1>1, <1>13, <3>1, <3>2, <3>3, <3>4 DEF Results
  <2>. QED BY <2>3, <2>4
<1>17. NoSleeperIsMissed'
  <2>1. Cardinality(Lookers') = Cardinality(Lookers) - 1
    BY <1>1, OneLessLooks
  <2>2. Sleepers' = Sleepers
    BY <1>1 DEF Sleepers, MuxTypeOK
  <2>3. Sleepers # {} => Len(line) <= Cardinality(Lookers)
    BY <1>1 DEF NoSleeperIsMissed, Lookers
  <2>4. Len(line') <= Len(line) - 1
    BY <1>3, <1>6 DEF m
  <2>5. Sleepers' # {} => Len(line') <= Cardinality(Lookers')
    BY <1>3, <1>6, <2>1, <2>2, <2>3, <2>4, LookersAreCounted
  <2>. QED BY <2>5 DEF NoSleeperIsMissed, Lookers
<1>. QED BY <1>12, <1>14, <1>15, <1>16, <1>17 DEF IInv

(* Steps that leave the queue and the children alone.                      *)
LEMMA PlacesStay ==
  ASSUME Places, UNCHANGED <<child, served, line, children>>
  PROVE  Places'
<1>1. \A c \in Child : /\ Untold(c)' <=> Untold(c)
                       /\ InLine(c)' <=> InLine(c)
                       /\ InHands(c)' <=> InHands(c)
  BY DEF Untold, InLine, InHands, Has
<1>. QED BY <1>1, SMTT(30) DEF Places

LEMMA ResultsStay ==
  ASSUME Results, UNCHANGED <<child, served, parent, offset, results, line, children>>,
         \A w \in Worker : below'[w] = "answered" => below[w] = "answered",
         stopping => stopping'
  PROVE  Results'
<1>1. \A c \in Child : /\ Found(c)' <=> Found(c)
                       /\ InLine(c)' <=> InLine(c)
                       /\ \A w \in Worker : Has(w, c)' <=> Has(w, c)
  BY DEF Found, InLine, Has
<1>. QED BY <1>1 DEF Results

LEMMA SleepsKeeps ==
  ASSUME IInv, NEW w \in Worker, WorkerSleeps(w)
  PROVE  IInv'
<1>1. /\ MuxTypeOK /\ Places /\ Workers /\ Results
      /\ worker[w] = "look" /\ line = << >>
      /\ worker' = [worker EXCEPT ![w] = "asleep"]
      /\ UNCHANGED <<child, served, parent, offset, results, line, children, below, closer,
                     stopping>>
  BY DEF IInv, WorkerSleeps
<1>2. MuxTypeOK'
  BY <1>1 DEF MuxTypeOK
<1>3. Workers'
  BY <1>1 DEF Workers, WithinLimit, Total, MuxTypeOK
<1>4. NoSleeperIsMissed'
  <2>1. Cardinality(Lookers') \in Nat
    BY <1>1, OneLessLooks, LookersAreCounted, MuxAssumption, FS_Subset, FS_CardinalityType
       DEF Lookers
  <2>2. Len(line') = 0
    BY <1>1
  <2>. QED BY <2>1, <2>2 DEF NoSleeperIsMissed, Lookers
<1>. QED BY <1>1, <1>2, <1>3, <1>4, PlacesStay, ResultsStay DEF IInv

LEMMA ExitsKeeps ==
  ASSUME IInv, NEW w \in Worker, WorkerExits(w)
  PROVE  IInv'
<1>1. /\ MuxTypeOK /\ Places /\ Workers /\ Results
      /\ worker[w] = "look" /\ stopping
      /\ worker' = [worker EXCEPT ![w] = "gone"]
      /\ UNCHANGED <<child, served, parent, offset, results, line, children, below, closer,
                     stopping>>
  BY DEF IInv, WorkerExits
<1>2. MuxTypeOK'
  BY <1>1 DEF MuxTypeOK
<1>3. Workers'
  BY <1>1 DEF Workers, WithinLimit, Total, MuxTypeOK
<1>4. NoSleeperIsMissed'
  BY <1>1 DEF NoSleeperIsMissed
<1>. QED BY <1>1, <1>2, <1>3, <1>4, PlacesStay, ResultsStay DEF IInv

LEMMA ComputedKeeps ==
  ASSUME IInv, NEW w \in Worker, ComputedBelow(w)
  PROVE  IInv'
<1>1. /\ MuxTypeOK /\ Places /\ Workers /\ Results
      /\ results' = [c \in Child |-> results[c] \/ c \in ToSet(children[w])]
      /\ below[w] = "asked" /\ below' = [below EXCEPT ![w] = "answered"]
      /\ UNCHANGED <<child, served, parent, offset, line, worker, children, closer, stopping>>
  BY DEF IInv, ComputedBelow, Below!Answer, Below!Turn
<1>2. \A c \in Child : results'[c] <=> results[c] \/ Has(w, c)
  <2>1. children[w] \in Seq(Child) /\ DOMAIN children[w] = 1..Len(children[w])
    BY <1>1 DEF MuxTypeOK
  <2>2. \A c : c \in ToSet(children[w]) <=> Has(w, c)
    BY <2>1 DEF ToSet, Has
  <2>. QED BY <1>1, <2>2
<1>3. MuxTypeOK'
  <2>1. results' \in [Child -> BOOLEAN]
    BY <1>1
  <2>. QED BY <1>1, <2>1 DEF MuxTypeOK
<1>4. Workers'
  BY <1>1 DEF Workers, WithinLimit, Total, MuxTypeOK
<1>5. Results'
  <2>1. \A c \in Child : /\ Found(c)' <=> Found(c)
                         /\ InLine(c)' <=> InLine(c)
                         /\ \A v \in Worker : Has(v, c)' <=> Has(v, c)
    BY <1>1 DEF Found, InLine, Has
  <2>2. \A c \in Child : Has(w, c) => Untold(c) /\ ~InLine(c) /\ Found(c)
    <3>1. \A c \in Child : Has(w, c) => ~InLine(c)
      BY <1>1 DEF Places, InLine, Has
    <3>2. \A c \in Child : Has(w, c) => Untold(c)
      BY <1>1 DEF Places, InHands
    <3>. QED BY <1>1, <3>1, <3>2 DEF Results
  <2>3. \A v \in Worker : below'[v] = "answered" => v = w \/ below[v] = "answered"
    BY <1>1 DEF MuxTypeOK
  <2>4. ASSUME NEW c \in Child, Has(w, c)
        PROVE  /\ child'[c] = "waiting" /\ ~served'[c] /\ ~InLine(c)' /\ Found(c)'
               /\ results'[c]
    BY <1>1, <1>2, <2>1, <2>2, <2>4 DEF Untold
  <2>5. ASSUME NEW c \in Child, ~Has(w, c)
        PROVE  results'[c] <=> results[c]
    BY <1>2, <2>5
  <2>. SUFFICES ASSUME NEW c \in Child
                PROVE  /\ child'[c] = "away" =>
                            ~served'[c] /\ parent'[c] = << >> /\ ~results'[c]
                       /\ child'[c] = "done" => served'[c]
                       /\ InLine(c)' => parent'[c] = << >> /\ ~results'[c]
                       /\ \A v \in Worker : Has(v, c)' =>
                            Found(c)' /\ (below'[v] = "answered" => results'[c])
                       /\ served'[c] => \/ results'[c] /\ Found(c)'
                                        \/ parent'[c] = << >> /\ ~results'[c] /\ stopping'
    BY DEF Results
  <2>6. CASE Has(w, c)
    BY <2>4, <2>6
  <2>7. CASE ~Has(w, c)
    BY <1>1, <2>1, <2>3, <2>5, <2>7 DEF Results
  <2>. QED BY <2>6, <2>7
<1>6. NoSleeperIsMissed'
  BY <1>1 DEF IInv, NoSleeperIsMissed, Sleepers
<1>. QED BY <1>1, <1>3, <1>4, <1>5, <1>6, PlacesStay DEF IInv

LEMMA NextBatchKeeps ==
  ASSUME IInv, NEW w \in Worker, NextBatch(w)
  PROVE  IInv'
<1>1. /\ MuxTypeOK /\ Places /\ Workers /\ Results /\ NoSleeperIsMissed
      /\ below[w] = "answered" /\ children[w] = << >>
      /\ worker' = [worker EXCEPT ![w] = "look"] /\ below' = [below EXCEPT ![w] = "idle"]
      /\ UNCHANGED <<child, served, parent, offset, results, line, children, closer, stopping>>
  BY DEF IInv, NextBatch, Below!Leave, Below!Turn
<1>2. MuxTypeOK'
  BY <1>1 DEF MuxTypeOK
<1>3. Workers'
  BY <1>1 DEF Workers, WithinLimit, Total, MuxTypeOK
<1>4. \A v \in Worker : below'[v] = "answered" => below[v] = "answered"
  BY <1>1 DEF MuxTypeOK
<1>5. NoSleeperIsMissed'
  <2>1. worker[w] # "look" /\ worker[w] # "asleep"
    BY <1>1 DEF Workers
  <2>2. Cardinality(Lookers') = Cardinality(Lookers) + 1
    BY <1>1, <2>1, OneMoreLooks
  <2>3. Sleepers' = Sleepers
    BY <1>1, <2>1 DEF Sleepers, MuxTypeOK
  <2>4. Len(line) \in Nat
    BY <1>1 DEF MuxTypeOK
  <2>5. Sleepers # {} /\ ~stopping => Len(line) <= Cardinality(Lookers)
    BY <1>1 DEF NoSleeperIsMissed, Lookers
  <2>6. Sleepers' # {} /\ ~stopping' => Len(line') <= Cardinality(Lookers')
    BY <1>1, <2>2, <2>3, <2>4, <2>5, LookersAreCounted
  <2>. QED BY <2>6 DEF NoSleeperIsMissed, Lookers
<1>. QED BY <1>1, <1>2, <1>3, <1>4, <1>5, PlacesStay, ResultsStay DEF IInv

LEMMA CloserKeeps ==
  ASSUME IInv, Abort \/ NotifyAll \/ WaitForWorkers
  PROVE  IInv'
<1>1. /\ MuxTypeOK /\ Places /\ Workers /\ Results
      /\ UNCHANGED <<child, served, parent, offset, results, line, children, below>>
      /\ stopping' /\ closer' \in {"wake", "join", "unstick"}
      /\ \/ worker' = worker
         \/ worker' = [w \in Worker |-> IF worker[w] = "asleep" THEN "look" ELSE worker[w]]
  BY DEF IInv, Abort, NotifyAll, WaitForWorkers, Workers
<1>2. /\ worker' \in [Worker -> {"look", "asleep", "compute", "gone"}]
      /\ \A w \in Worker : worker'[w] = "compute" <=> worker[w] = "compute"
  BY <1>1 DEF MuxTypeOK
<1>3. MuxTypeOK'
  <2>1. stopping' \in BOOLEAN
    BY <1>1 DEF Abort, NotifyAll, WaitForWorkers, MuxTypeOK
  <2>. QED BY <1>1, <1>2, <2>1 DEF MuxTypeOK
<1>4. Workers'
  BY <1>1, <1>2 DEF Workers, WithinLimit, Total
<1>5. NoSleeperIsMissed'
  BY <1>1 DEF NoSleeperIsMissed
<1>. QED BY <1>1, <1>3, <1>4, <1>5, PlacesStay, ResultsStay DEF IInv

LEMMA NotifyChildKeeps ==
  ASSUME IInv, NEW w \in Worker, NotifyChild(w)
  PROVE  IInv'
<1>. DEFINE h == Head(children[w])
            n == Len(children[w])
<1>1. /\ MuxTypeOK /\ Places /\ Workers /\ Results
      /\ below[w] = "answered" /\ children[w] # << >>
      /\ served' = [served EXCEPT ![h] = TRUE]
      /\ children' = [children EXCEPT ![w] = Tail(@)]
      /\ UNCHANGED <<child, parent, offset, results, line, worker, below, closer, stopping>>
  BY DEF IInv, NotifyChild, MayNotify
<1>2. /\ children[w] \in Seq(Child) /\ n \in Nat \ {0} /\ h = children[w][1] /\ h \in Child
      /\ Tail(children[w]) \in Seq(Child) /\ Len(Tail(children[w])) = n - 1
      /\ \A i \in 1..(n - 1) : Tail(children[w])[i] = children[w][i + 1]
  <2>1. children[w] \in Seq(Child)
    BY <1>1 DEF MuxTypeOK
  <2>. QED BY <1>1, <2>1, HeadTailProperties, EmptySeq
<1>3. /\ Len(children'[w]) = n - 1
      /\ \A i \in 1..(n - 1) : /\ children'[w][i] = children[w][i + 1]
                               /\ i + 1 \in 1..n
      /\ \A v \in Worker \ {w} : children'[v] = children[v]
      /\ served'[h] /\ \A c \in Child \ {h} : served'[c] = served[c]
  <2>1. /\ children'[w] = Tail(children[w])
        /\ \A v \in Worker \ {w} : children'[v] = children[v]
    BY <1>1 DEF MuxTypeOK
  <2>2. served'[h] /\ \A c \in Child \ {h} : served'[c] = served[c]
    BY <1>1, <1>2 DEF MuxTypeOK
  <2>. HIDE DEF h, n
  <2>3. Len(children'[w]) = n - 1
    BY <1>2, <2>1
  <2>4. \A i \in 1..(n - 1) : /\ children'[w][i] = children[w][i + 1]
                              /\ i + 1 \in 1..n
    BY <1>2, <2>1
  <2>. QED BY <2>1, <2>2, <2>3, <2>4
<1>. HIDE DEF h, n
<1>4. Has(w, h)
  BY <1>2 DEF Has, n
<1>5. Untold(h) /\ ~InLine(h) /\ Found(h) /\ results[h]
  <2>1. InHands(h)
    BY <1>4 DEF InHands
  <2>2. ~InLine(h)
    BY <1>1, <1>4 DEF Places, InLine, Has
  <2>. QED BY <1>1, <1>2, <1>4, <2>1, <2>2 DEF Places, Results
<1>6. MuxTypeOK'
  BY <1>1, <1>2 DEF MuxTypeOK
<1>7. \A v \in Worker, c \in Child : Has(v, c)' <=> Has(v, c) /\ c # h
  <2>. SUFFICES ASSUME NEW v \in Worker, NEW c \in Child
                PROVE  Has(v, c)' <=> Has(v, c) /\ c # h
    OBVIOUS
  <2>1. CASE v # w
    <3>1. Has(v, c)' <=> Has(v, c)
      BY <1>3, <2>1 DEF Has
    <3>2. ~Has(v, h)
      BY <1>1, <1>4, <2>1 DEF Places, Has
    <3>. QED BY <3>1, <3>2
  <2>2. CASE v = w
    <3>1. ASSUME Has(w, c)' PROVE Has(w, c) /\ c # h
      <4>1. PICK i \in 1..(n - 1) : children[w][i + 1] = c
        BY <1>3, <3>1 DEF Has
      <4>2. i + 1 \in 1..n /\ 1 \in 1..n /\ i + 1 # 1
        BY <1>2
      <4>. QED BY <1>1, <1>2, <4>1, <4>2 DEF Places, Has, n
    <3>2. ASSUME Has(w, c), c # h PROVE Has(w, c)'
      <4>1. PICK i \in 1..n : children[w][i] = c
        BY <3>2 DEF Has, n
      <4>2. i # 1
        BY <1>2, <3>2, <4>1
      <4>3. i - 1 \in 1..(n - 1) /\ (i - 1) + 1 = i
        BY <1>2, <4>2
      <4>4. children'[w][i - 1] = c
        BY <1>3, <4>1, <4>3
      <4>. QED BY <1>3, <4>3, <4>4 DEF Has
    <3>. QED BY <2>2, <3>1, <3>2
  <2>. QED BY <2>1, <2>2
<1>8. \A c \in Child : /\ InLine(c)' <=> InLine(c)
                       /\ InHands(c)' <=> InHands(c) /\ c # h
                       /\ Untold(c)' <=> Untold(c) /\ c # h
                       /\ Found(c)' <=> Found(c)
  <2>1. \A c \in Child : InHands(c)' <=> InHands(c) /\ c # h
    BY <1>7 DEF InHands
  <2>. QED BY <1>1, <1>3, <2>1 DEF InLine, Untold, Found
<1>9. Places'
  <2>1. ASSUME NEW u \in Worker, NEW v \in Worker,
               NEW i \in 1..Len(children'[u]), NEW j \in 1..Len(children'[v]),
               children'[u][i] = children'[v][j]
        PROVE  u = v /\ i = j
    <3>. DEFINE a == IF u = w THEN i + 1 ELSE i
                b == IF v = w THEN j + 1 ELSE j
    <3>1. a \in 1..Len(children[u]) /\ children[u][a] = children'[u][i]
      BY <1>3 DEF n
    <3>2. b \in 1..Len(children[v]) /\ children[v][b] = children'[v][j]
      BY <1>3 DEF n
    <3>3. u = v /\ a = b
      <4>. HIDE DEF a, b
      <4>. QED BY <1>1, <2>1, <3>1, <3>2 DEF Places
    <3>. QED BY <3>3
  <2>2. ASSUME NEW v \in Worker, NEW i \in 1..Len(children'[v]), NEW j \in 1..Len(line)
        PROVE  children'[v][i] # line[j]
    <3>. DEFINE a == IF v = w THEN i + 1 ELSE i
    <3>1. a \in 1..Len(children[v]) /\ children[v][a] = children'[v][i]
      BY <1>3 DEF n
    <3>. HIDE DEF a
    <3>. QED BY <1>1, <3>1 DEF Places
  <2>3. \A c \in Child : Untold(c)' <=> InLine(c)' \/ InHands(c)'
    BY <1>1, <1>5, <1>8 DEF Places
  <2>4. \A i, j \in 1..Len(line) : line[i] = line[j] => i = j
    BY <1>1 DEF Places
  <2>. QED BY <1>1, <2>1, <2>2, <2>3, <2>4 DEF Places
<1>10. Workers'
  <2>1. \A v \in Worker : below'[v] = "asked" => v # w /\ children'[v] = children[v]
    BY <1>1, <1>3
  <2>2. \A v \in Worker : below'[v] = "idle" => v # w /\ children'[v] = children[v]
    BY <1>1, <1>3
  <2>. QED BY <1>1, <2>1, <2>2 DEF Workers, WithinLimit, Total
<1>11. Results'
  <2>1. child[h] = "waiting"
    BY <1>5 DEF Untold
  <2>. QED BY <1>1, <1>3, <1>5, <1>7, <1>8, <2>1 DEF Results
<1>12. NoSleeperIsMissed'
  BY <1>1 DEF IInv, NoSleeperIsMissed, Sleepers
<1>. QED BY <1>6, <1>9, <1>10, <1>11, <1>12 DEF IInv

LEMMA UnstickKeeps ==
  ASSUME IInv, Unstick
  PROVE  IInv'
<1>. DEFINE h == Head(line)
            n == Len(line)
<1>1. /\ MuxTypeOK /\ Places /\ Workers /\ Results
      /\ closer = "unstick" /\ stopping
      /\ UNCHANGED <<child, parent, offset, results, worker, children, below, stopping>>
  BY DEF IInv, Unstick, Workers
<1>2. NoSleeperIsMissed'
  BY <1>1 DEF NoSleeperIsMissed
<1>3. CASE line = << >>
  <2>1. closer' = "closed" /\ UNCHANGED <<served, line>>
    BY <1>3 DEF Unstick, MustUnstick
  <2>2. MuxTypeOK'
    BY <1>1, <2>1 DEF MuxTypeOK
  <2>3. Workers'
    BY <1>1, <2>1 DEF Workers, WithinLimit, Total
  <2>. QED BY <1>1, <1>2, <2>1, <2>2, <2>3, PlacesStay, ResultsStay DEF IInv
<1>4. CASE line # << >>
  <2>1. /\ served' = [served EXCEPT ![h] = TRUE] /\ line' = Tail(line)
        /\ closer' = closer
    BY <1>4 DEF Unstick, MustUnstick
  <2>2. /\ line \in Seq(Child) /\ n \in Nat \ {0} /\ h = line[1] /\ h \in Child
        /\ line' \in Seq(Child) /\ Len(line') = n - 1
        /\ \A i \in 1..(n - 1) : line'[i] = line[i + 1] /\ i + 1 \in 1..n
    <3>1. line \in Seq(Child)
      BY <1>1 DEF MuxTypeOK
    <3>. QED BY <1>4, <2>1, <3>1, HeadTailProperties, EmptySeq
  <2>3. served'[h] /\ \A c \in Child \ {h} : served'[c] = served[c]
    BY <1>1, <2>1, <2>2 DEF MuxTypeOK
  <2>. HIDE DEF h, n
  <2>4. InLine(h)
    BY <2>2 DEF InLine, n
  <2>5. Untold(h) /\ parent[h] = << >> /\ ~results[h]
    BY <1>1, <2>2, <2>4 DEF Places, Results
  <2>6. ~InHands(h)
    BY <1>1, <2>4 DEF Places, InLine, InHands, Has
  <2>7. MuxTypeOK'
    BY <1>1, <2>1, <2>2 DEF MuxTypeOK
  <2>8. \A c \in Child : InLine(c)' <=> InLine(c) /\ c # h
    <3>. SUFFICES ASSUME NEW c \in Child PROVE InLine(c)' <=> InLine(c) /\ c # h
      OBVIOUS
    <3>1. ASSUME InLine(c)' PROVE InLine(c) /\ c # h
      <4>1. PICK i \in 1..(n - 1) : line[i + 1] = c
        BY <2>2, <3>1 DEF InLine
      <4>2. i + 1 \in 1..n /\ 1 \in 1..n /\ i + 1 # 1
        BY <2>2
      <4>. QED BY <1>1, <2>2, <4>1, <4>2 DEF Places, InLine, n
    <3>2. ASSUME InLine(c), c # h PROVE InLine(c)'
      <4>1. PICK i \in 1..n : line[i] = c
        BY <3>2 DEF InLine, n
      <4>2. i # 1
        BY <2>2, <3>2, <4>1
      <4>3. i - 1 \in 1..(n - 1) /\ (i - 1) + 1 = i
        BY <2>2, <4>2
      <4>4. line'[i - 1] = c
        BY <2>2, <4>1, <4>3
      <4>. QED BY <2>2, <4>3, <4>4 DEF InLine
    <3>. QED BY <3>1, <3>2
  <2>9. \A c \in Child : /\ InHands(c)' <=> InHands(c)
                         /\ \A w \in Worker : Has(w, c)' <=> Has(w, c)
                         /\ Untold(c)' <=> Untold(c) /\ c # h
                         /\ Found(c)' <=> Found(c)
    BY <1>1, <2>3 DEF InHands, Has, Untold, Found
  <2>10. Places'
    <3>1. ASSUME NEW i \in 1..(n - 1), NEW j \in 1..(n - 1), line'[i] = line'[j]
          PROVE  i = j
      <4>1. line[i + 1] = line[j + 1] /\ i + 1 \in 1..n /\ j + 1 \in 1..n
        BY <2>2, <3>1
      <4>2. i + 1 = j + 1
        BY <1>1, <4>1 DEF Places, n
      <4>. QED BY <4>2
    <3>2. \A w \in Worker : \A i \in 1..Len(children[w]), j \in 1..(n - 1) :
            children[w][i] # line'[j]
      BY <1>1, <2>2 DEF Places, n
    <3>3. \A v, w \in Worker :
            \A i \in 1..Len(children'[v]), j \in 1..Len(children'[w]) :
              children'[v][i] = children'[w][j] => v = w /\ i = j
      BY <1>1 DEF Places
    <3>4. \A c \in Child : Untold(c)' <=> InLine(c)' \/ InHands(c)'
      BY <1>1, <2>6, <2>8, <2>9 DEF Places
    <3>. QED BY <1>1, <2>2, <3>1, <3>2, <3>3, <3>4 DEF Places
  <2>11. Workers'
    BY <1>1, <2>1 DEF Workers, WithinLimit, Total
  <2>12. Results'
    <3>1. child[h] = "waiting" /\ \A w \in Worker : ~Has(w, h)
      BY <2>5, <2>6 DEF Untold, InHands
    <3>. QED BY <1>1, <2>3, <2>5, <2>8, <2>9, <3>1 DEF Results
  <2>. QED BY <1>2, <2>7, <2>10, <2>11, <2>12 DEF IInv
<1>. QED BY <1>3, <1>4

-----------------------------------------------------------------------------
LEMMA Invariant == MuxSpec => []IInv
<1>1. IInv /\ [MuxNext]_muxVars => IInv'
  <2>. SUFFICES ASSUME IInv, [MuxNext]_muxVars PROVE IInv'
    OBVIOUS
  <2>1. ASSUME NEW c \in Child, Enqueue(c) \/ ChildStep(c) PROVE IInv'
    BY <2>1, EnqueueKeeps, ReturnKeeps, DestroyKeeps DEF ChildStep
  <2>2. ASSUME NEW w \in Worker, WorkerStep(w) PROVE IInv'
    BY <2>2, TakeKeeps, SleepsKeeps, ExitsKeeps, ComputedKeeps, NotifyChildKeeps,
       NextBatchKeeps DEF WorkerStep
  <2>3. CASE Abort \/ CloserStep
    BY <2>3, CloserKeeps, UnstickKeeps DEF CloserStep
  <2>4. CASE UNCHANGED muxVars
    <3>1. MuxTypeOK' /\ Workers' /\ NoSleeperIsMissed'
      BY <2>4 DEF muxVars, IInv, MuxTypeOK, Workers, WithinLimit, Total, NoSleeperIsMissed,
                  Sleepers
    <3>. QED BY <2>4, <3>1, PlacesStay, ResultsStay DEF IInv, muxVars
  <2>. QED BY <2>1, <2>2, <2>3, <2>4 DEF MuxNext
<1>. QED BY InitIInv, <1>1, PTL DEF MuxSpec
(* The network's state is consistent in every reachable state: each child  *)
(* is in the queue or with one worker exactly as long as it waits; it      *)
(* returns with its own results at its offset; no batch exceeds its        *)
(* network's limit; and nobody waits beside a sleeping worker.             *)
THEOREM Consistent == MuxSpec => []MuxInv
<1>1. ASSUME IInv PROVE MuxInv
  <2>1. MuxTypeOK /\ Places /\ Workers /\ Results /\ NoSleeperIsMissed
    BY <1>1 DEF IInv
  <2>2. EachChildInOnePlace
    <3>. SUFFICES ASSUME NEW c \in Child
                  PROVE  Cardinality({i \in DOMAIN line : line[i] = c})
                           + Cardinality({w \in Worker : c \in ToSet(children[w])})
                         = IF Untold(c) THEN 1 ELSE 0
      BY DEF EachChildInOnePlace, Untold
    <3>. DEFINE I == {i \in DOMAIN line : line[i] = c}
                H == {w \in Worker : c \in ToSet(children[w])}
    <3>1. DOMAIN line = 1..Len(line) /\ Len(line) \in Nat
      BY <2>1, LenProperties DEF MuxTypeOK
    <3>2. I = {i \in 1..Len(line) : line[i] = c}
      BY <3>1
    <3>3. \A w \in Worker : c \in ToSet(children[w]) <=> Has(w, c)
      <4>. TAKE w \in Worker
      <4>1. children[w] \in Seq(Child)
        BY <2>1 DEF MuxTypeOK
      <4>2. DOMAIN children[w] = 1..Len(children[w])
        BY <4>1, LenProperties
      <4>. QED BY <4>2 DEF ToSet, Has
    <3>4. H = {w \in Worker : Has(w, c)}
      BY <3>3
    <3>. HIDE DEF I, H
    <3>5. ASSUME NEW w \in Worker, Has(w, c) PROVE H = {w} /\ I = {} /\ Untold(c)
      <4>1. \A v \in Worker : Has(v, c) => v = w
        BY <2>1, <3>5 DEF Places, Has
      <4>2. ~InLine(c)
        BY <2>1, <3>5 DEF Places, Has, InLine
      <4>3. Untold(c)
        BY <2>1, <3>5 DEF Places, InHands
      <4>. QED BY <3>2, <3>4, <3>5, <4>1, <4>2, <4>3 DEF InLine
    <3>6. ASSUME NEW i \in 1..Len(line), line[i] = c PROVE I = {i} /\ H = {} /\ Untold(c)
      <4>1. \A j \in 1..Len(line) : line[j] = c => j = i
        BY <2>1, <3>6 DEF Places
      <4>2. \A w \in Worker : ~Has(w, c)
        BY <2>1, <3>6 DEF Places, Has
      <4>3. Untold(c)
        BY <2>1, <3>6 DEF Places, InLine
      <4>. QED BY <3>2, <3>4, <3>6, <4>1, <4>2, <4>3
    <3>7. ASSUME ~InLine(c), ~InHands(c) PROVE H = {} /\ I = {} /\ ~Untold(c)
      BY <2>1, <3>2, <3>4, <3>7 DEF InLine, InHands, Places
    <3>8. Cardinality({}) = 0 /\ \A x : Cardinality({x}) = 1
      BY FS_EmptySet, FS_Singleton
    <3>9. CASE InHands(c)
      <4>1. PICK w \in Worker : Has(w, c)
        BY <3>9 DEF InHands
      <4>2. Cardinality(H) = 1 /\ Cardinality(I) = 0 /\ Untold(c)
        BY <3>5, <3>8, <4>1
      <4>. QED BY <4>2 DEF H, I
    <3>10. CASE InLine(c)
      <4>1. PICK i \in 1..Len(line) : line[i] = c
        BY <3>10 DEF InLine
      <4>2. Cardinality(I) = 1 /\ Cardinality(H) = 0 /\ Untold(c)
        BY <3>6, <3>8, <4>1
      <4>. QED BY <4>2 DEF H, I
    <3>11. CASE ~InLine(c) /\ ~InHands(c)
      <4>1. Cardinality(I) = 0 /\ Cardinality(H) = 0 /\ ~Untold(c)
        BY <3>7, <3>8, <3>11
      <4>. QED BY <4>1 DEF H, I
    <3>. QED BY <3>9, <3>10, <3>11
  <2>3. OwnResults
    BY <2>1 DEF Results, Found, OwnResults
  <2>. QED BY <2>1, <2>2, <2>3 DEF MuxInv, Workers
<1>. QED BY Invariant, <1>1, PTL

-----------------------------------------------------------------------------
(* Refinement of BatchService.                                             *)
Phase == [c \in Child |-> ChildPhase(c)]

LEMMA NoPhaseMoves ==
  ASSUME \A c \in Child : ChildPhase(c)' = ChildPhase(c), stopping' = stopping
  PROVE  UNCHANGED <<Phase, ~stopping>>
  BY DEF Phase

LEMMA OnePhaseMoves ==
  ASSUME NEW c \in Child, NEW to, ChildPhase(c)' = to,
         \A d \in Child \ {c} : ChildPhase(d)' = ChildPhase(d)
  PROVE  Phase' = [Phase EXCEPT ![c] = to]
<1>1. Phase' = [d \in Child |-> ChildPhase(d)']
  BY DEF Phase
<1>2. [Phase EXCEPT ![c] = to] = [d \in Child |-> IF d = c THEN to ELSE ChildPhase(d)]
  BY DEF Phase
<1>3. \A d \in Child : ChildPhase(d)' = IF d = c THEN to ELSE ChildPhase(d)
  OBVIOUS
<1>. QED BY <1>1, <1>2, <1>3

LEMMA PhaseOf ==
  ASSUME NEW c \in Child
  PROVE  Phase[c] = ChildPhase(c)
  BY DEF Phase

(* A thread that computes a batch with the multiplexing network sees what  *)
(* any network promises: the call returns when the batch is computed, once,*)
(* and returns without results only when the network is being destroyed.   *)
THEOREM Refines == MuxSpec => MuxServes
<1>1. MuxInit => MuxService!Init
  BY DEF MuxInit, MuxService!Init, ChildPhase
<1>2. IInv /\ [MuxNext]_muxVars => [MuxService!Next]_<<Phase, ~stopping>>
  <2>. SUFFICES ASSUME IInv, [MuxNext]_muxVars
                PROVE  MuxService!Next \/ UNCHANGED <<Phase, ~stopping>>
    OBVIOUS
  <2>. DEFINE Move(c, from, to) ==
         Phase[c] = from /\ Phase' = [Phase EXCEPT ![c] = to] /\ stopping' = stopping
  <2>1. MuxTypeOK /\ Places /\ Workers /\ Results
    BY DEF IInv
  <2>2. ASSUME NEW c \in Child,
               \/ Move(c, "idle", "asked") /\ ~stopping
               \/ Move(c, "asked", "answered")
               \/ Move(c, "asked", "dropped") /\ stopping
               \/ Move(c, "answered", "idle")
               \/ Move(c, "dropped", "idle")
        PROVE  MuxService!Next
    <3>1. \/ MuxService!Ask(c) \/ MuxService!Answer(c) \/ MuxService!Drop(c)
          \/ MuxService!Leave(c)
      <4>1. CASE Move(c, "idle", "asked") /\ ~stopping
        BY <4>1 DEF MuxService!Ask, MuxService!Turn, Phase
      <4>2. CASE Move(c, "asked", "answered")
        BY <4>2 DEF MuxService!Answer, MuxService!Turn, Phase
      <4>3. CASE Move(c, "asked", "dropped") /\ stopping
        BY <4>3 DEF MuxService!Drop, MuxService!Turn, Phase
      <4>4. CASE Move(c, "answered", "idle") \/ Move(c, "dropped", "idle")
        BY <4>4 DEF MuxService!Leave, MuxService!Turn, Phase
      <4>. HIDE DEF Move
      <4>. QED BY <2>2, <4>1, <4>2, <4>3, <4>4
    <3>. QED BY <3>1 DEF MuxService!Next
  <2>. HIDE DEF Move
  <2>3. ASSUME NEW c \in Child, Enqueue(c) PROVE MuxService!Next
    <3>1. /\ child[c] = "away" /\ ~served[c] /\ ~stopping
          /\ child' = [child EXCEPT ![c] = "waiting"]
          /\ UNCHANGED <<served, results, stopping>>
      BY <2>1, <2>3 DEF Enqueue, Results, Workers
    <3>2. /\ ChildPhase(c) = "idle" /\ ChildPhase(c)' = "asked"
          /\ \A d \in Child \ {c} : ChildPhase(d)' = ChildPhase(d)
      BY <2>1, <3>1 DEF ChildPhase, MuxTypeOK
    <3>3. Move(c, "idle", "asked")
      BY <3>1, <3>2, OnePhaseMoves, PhaseOf DEF Move
    <3>. QED BY <2>2, <3>1, <3>3
  <2>4. ASSUME NEW c \in Child, ReturnToCaller(c) PROVE UNCHANGED <<Phase, ~stopping>>
    <3>1. \A d \in Child : ChildPhase(d)' = ChildPhase(d)
      BY <2>1, <2>4 DEF ReturnToCaller, ChildPhase, MuxTypeOK
    <3>. QED BY <2>4, <3>1, NoPhaseMoves DEF ReturnToCaller
  <2>5. ASSUME NEW c \in Child, DestroyChild(c) PROVE MuxService!Next
    <3>1. /\ child[c] = "done" /\ served[c]
          /\ child' = [child EXCEPT ![c] = "away"]
          /\ served' = [served EXCEPT ![c] = FALSE]
          /\ results' = [results EXCEPT ![c] = FALSE]
          /\ stopping' = stopping
      BY <2>1, <2>5 DEF DestroyChild, Results
    <3>2. /\ ChildPhase(c) \in {"answered", "dropped"} /\ ChildPhase(c)' = "idle"
          /\ \A d \in Child \ {c} : ChildPhase(d)' = ChildPhase(d)
      BY <2>1, <3>1 DEF ChildPhase, MuxTypeOK
    <3>3. Move(c, "answered", "idle") \/ Move(c, "dropped", "idle")
      BY <3>1, <3>2, OnePhaseMoves, PhaseOf DEF Move
    <3>. QED BY <2>2, <3>3
  <2>6. ASSUME NEW w \in Worker, NotifyChild(w) PROVE MuxService!Next
    <3>1. children[w] \in Seq(Child) /\ children[w] # << >>
      BY <2>1, <2>6 DEF MuxTypeOK, NotifyChild
    <3>2. PICK c \in Child : /\ c = Head(children[w]) /\ c = children[w][1]
                             /\ Len(children[w]) \in Nat \ {0}
      BY <3>1, HeadTailProperties, EmptySeq
    <3>3. served' = [served EXCEPT ![c] = TRUE] /\ UNCHANGED <<child, results, stopping>>
      BY <2>6, <3>2 DEF NotifyChild
    <3>4. Has(w, c)
      BY <3>2 DEF Has
    <3>5. Untold(c) /\ results[c]
      BY <2>1, <2>6, <3>2, <3>4 DEF Places, InHands, Results, NotifyChild, MayNotify
    <3>6. /\ ChildPhase(c) = "asked" /\ ChildPhase(c)' = "answered"
          /\ \A d \in Child \ {c} : ChildPhase(d)' = ChildPhase(d)
      BY <2>1, <3>2, <3>3, <3>5 DEF ChildPhase, MuxTypeOK, Untold
    <3>7. Move(c, "asked", "answered")
      BY <3>2, <3>3, <3>6, OnePhaseMoves, PhaseOf DEF Move
    <3>. QED BY <2>2, <3>2, <3>7
  <2>7. ASSUME NEW w \in Worker, ComputedBelow(w) PROVE UNCHANGED <<Phase, ~stopping>>
    <3>1. /\ results' = [c \in Child |-> results[c] \/ c \in ToSet(children[w])]
          /\ UNCHANGED <<child, served, stopping>>
      BY <2>7 DEF ComputedBelow
    <3>2. \A c \in Child : c \in ToSet(children[w]) => Untold(c)
      <4>1. children[w] \in Seq(Child)
        BY <2>1 DEF MuxTypeOK
      <4>2. DOMAIN children[w] = 1..Len(children[w])
        BY <4>1, LenProperties
      <4>3. \A c \in Child : c \in ToSet(children[w]) => InHands(c)
        BY <4>2 DEF ToSet, Has, InHands
      <4>. QED BY <2>1, <4>3 DEF Places
    <3>3. \A c \in Child : ~Untold(c) => results'[c] = results[c]
      <4>. TAKE c \in Child
      <4>1. c \notin ToSet(children[w]) => (results'[c] <=> results[c])
        BY <3>1
      <4>2. results[c] \in BOOLEAN /\ results'[c] \in BOOLEAN
        BY <2>1, <3>1 DEF MuxTypeOK
      <4>. QED BY <3>2, <4>1, <4>2
    <3>4. \A c \in Child : ChildPhase(c)' = ChildPhase(c)
      BY <2>1, <3>1, <3>3 DEF ChildPhase, Untold, MuxTypeOK
    <3>. QED BY <3>1, <3>4, NoPhaseMoves
  <2>8. CASE Unstick
    <3>1. CASE line = << >>
      <4>1. UNCHANGED <<child, served, results, stopping>>
        BY <2>8, <3>1 DEF Unstick, MustUnstick
      <4>2. \A c \in Child : ChildPhase(c)' = ChildPhase(c)
        BY <4>1 DEF ChildPhase
      <4>. QED BY <4>1, <4>2, NoPhaseMoves
    <3>2. CASE line # << >>
      <4>1. PICK c \in Child : c = Head(line) /\ c = line[1] /\ Len(line) \in Nat \ {0}
        BY <2>1, <3>2, HeadTailProperties, EmptySeq DEF MuxTypeOK
      <4>2. /\ served' = [served EXCEPT ![c] = TRUE] /\ UNCHANGED <<child, results, stopping>>
            /\ stopping
        BY <2>1, <2>8, <3>2, <4>1 DEF Unstick, MustUnstick, Workers
      <4>3. InLine(c)
        BY <4>1 DEF InLine
      <4>4. Untold(c) /\ ~results[c]
        BY <2>1, <4>1, <4>3 DEF Places, Results
      <4>5. /\ ChildPhase(c) = "asked" /\ ChildPhase(c)' = "dropped"
            /\ \A d \in Child \ {c} : ChildPhase(d)' = ChildPhase(d)
        BY <2>1, <4>1, <4>2, <4>4 DEF ChildPhase, MuxTypeOK, Untold
      <4>6. Move(c, "asked", "dropped")
        BY <4>1, <4>2, <4>5, OnePhaseMoves, PhaseOf DEF Move
      <4>. QED BY <2>2, <4>1, <4>2, <4>6
    <3>. QED BY <3>1, <3>2
  <2>9. CASE Abort
    <3>1. ~stopping /\ stopping' /\ UNCHANGED <<child, served, results>>
      BY <2>1, <2>9 DEF Abort, Workers
    <3>2. \A c \in Child : ChildPhase(c)' = ChildPhase(c)
      BY <3>1 DEF ChildPhase
    <3>3. Phase' = Phase
      BY <3>2 DEF Phase
    <3>. QED BY <3>1, <3>3 DEF MuxService!Next, MuxService!Close, Phase
  <2>10. ASSUME UNCHANGED <<child, served, results, stopping>>
         PROVE  UNCHANGED <<Phase, ~stopping>>
    <3>1. \A c \in Child : ChildPhase(c)' = ChildPhase(c)
      BY <2>10 DEF ChildPhase
    <3>. QED BY <2>10, <3>1, NoPhaseMoves
  <2>11. ASSUME NEW c \in Child, Enqueue(c) \/ ChildStep(c)
         PROVE  MuxService!Next \/ UNCHANGED <<Phase, ~stopping>>
    BY <2>3, <2>4, <2>5, <2>11 DEF ChildStep
  <2>12. ASSUME NEW w \in Worker, WorkerStep(w)
         PROVE  MuxService!Next \/ UNCHANGED <<Phase, ~stopping>>
    <3>1. CASE TakeChildren(w) \/ WorkerSleeps(w) \/ WorkerExits(w) \/ NextBatch(w)
      BY <2>10, <3>1 DEF TakeChildren, WorkerSleeps, WorkerExits, NextBatch
    <3>. QED BY <2>6, <2>7, <2>12, <3>1 DEF WorkerStep
  <2>13. CASE NotifyAll \/ WaitForWorkers
    BY <2>10, <2>13 DEF NotifyAll, WaitForWorkers
  <2>14. CASE UNCHANGED muxVars
    BY <2>10, <2>14 DEF muxVars
  <2>. QED BY <2>8, <2>9, <2>11, <2>12, <2>13, <2>14 DEF MuxNext, CloserStep
<1>. QED BY <1>1, <1>2, Invariant, PTL DEF MuxSpec, MuxServes, MuxService!SafetySpec, Phase
===============================================================================
