----------------------------- MODULE SearchTreeProofs -----------------------------
(***************************************************************************)
(* Proofs about SearchTree: for any finite game tree, any number of        *)
(* workers and any limits, the books of the tree balance, the bounds of    *)
(* its nodes are true of the game, and two-fold draws lie inside the       *)
(* search, as long as no tree with shared collisions is cleared.           *)
(*                                                                         *)
(* The inductive invariant speaks of bags.  Counted is what all workers    *)
(* hold at a node and Collisions what collides with it or is due at it;    *)
(* what is in flight at a node is the first at and below it and the second *)
(* below it (Flow).  Every action moves a little between the bags, which a *)
(* lemma on sums turns into a statement about all nodes of a path.  Beside *)
(* the flow, the invariant says where visits may be held (HeldRight), that *)
(* nobody is below a node without visits (Untouched), which edges exist    *)
(* (Shape), that the visits of two-fold draws are among those of the nodes *)
(* above, so that taking them back keeps all counts positive               *)
(* (DrawsCounted, StaleCounted), and who holds nodes_mutex_ and which bags *)
(* are empty then (Protocol, Picking).                                     *)
(***************************************************************************)
EXTENDS SearchTree, FiniteSetTheorems, WellFoundedInduction, TLAPS

-----------------------------------------------------------------------------
(* Sums over finite sets.                                                  *)

(* Induction on natural numbers, in a form without an operator: a set of   *)
(* counterexamples that is not empty has a least one.                      *)
LEMMA LeastElement ==
  ASSUME NEW X \in SUBSET Nat, X # {}
  PROVE  \E n \in X : \A m \in X : n <= m
<1>. DEFINE R == {ss \in Nat \X Nat : ss[1] < ss[2]}
<1>1. IsWellFoundedOn(R, Nat)
  BY NatLessThanWellFounded DEF OpToRel
<1>2. PICK x \in X : \A y \in X : <<y, x>> \notin R
  <2>. HIDE DEF R
  <2>. QED BY <1>1, WFMin
<1>3. \A y \in X : ~(y < x)
  BY <1>2
<1>. QED BY <1>3

(* Induction on finite sets, in the same form.                             *)
LEMMA SetInduction ==
  ASSUME NEW S, IsFiniteSet(S), NEW P \in SUBSET (SUBSET S), {} \in P,
         \A T \in P : \A x \in S \ T : T \cup {x} \in P
  PROVE  S \in P
<1>. DEFINE Size == {n \in Nat : \E T \in SUBSET S : T \notin P /\ Cardinality(T) = n}
<1>1. SUFFICES ASSUME S \notin P PROVE FALSE
  OBVIOUS
<1>2. \A T \in SUBSET S : IsFiniteSet(T) /\ Cardinality(T) \in Nat
  BY FS_Subset, FS_CardinalityType
<1>3. Size # {} /\ Size \in SUBSET Nat
  BY <1>1, <1>2
<1>4. PICK n \in Size : \A m \in Size : n <= m
  <2>. HIDE DEF Size
  <2>. QED BY <1>3, LeastElement
<1>5. PICK T \in SUBSET S : T \notin P /\ Cardinality(T) = n
  OBVIOUS
<1>6. PICK x : x \in T
  BY <1>5
<1>7. IsFiniteSet(T)
  BY <1>2
<1>8. Cardinality(T \ {x}) = n - 1
  BY <1>5, <1>6, <1>7, FS_RemoveElement
<1>9. T \ {x} \in P
  <2>1. CASE T \ {x} \notin P
    <3>1. T \ {x} \in SUBSET S /\ Cardinality(T \ {x}) \in Nat
      BY <1>2
    <3>2. n - 1 \in Size
      BY <2>1, <3>1, <1>8
    <3>. HIDE DEF Size
    <3>. QED BY <3>2, <1>3, <1>4
  <2>. QED BY <2>1
<1>10. (T \ {x}) \cup {x} = T
  BY <1>6
<1>. QED BY <1>5, <1>6, <1>9, <1>10

-----------------------------------------------------------------------------
Pick(s) == CHOOSE x \in s : TRUE

(* The recursion of SumOver, on the subsets of a set.                      *)
Adds(g, f, S) ==
  /\ g = [s \in SUBSET S |-> g[s]]
  /\ \A s \in SUBSET S : g[s] = IF s = {} THEN 0 ELSE f[Pick(s)] + g[s \ {Pick(s)}]

LEMMA PickIn == ASSUME NEW s, s # {} PROVE Pick(s) \in s
BY DEF Pick

(* Sums exist: the recursive function behind MapThenSumSet is defined.        *)
LEMMA SumExists ==
  ASSUME NEW S, IsFiniteSet(S), NEW f
  PROVE  \E g : Adds(g, f, S)
<1>. DEFINE Small(n) == {s \in SUBSET S : Cardinality(s) <= n}
            Def(g, n) == [s \in Small(n) |-> IF s = {} THEN 0
                                             ELSE f[Pick(s)] + g[s \ {Pick(s)}]]
            Bad == {n \in Nat : ~\E g : g = Def(g, n)}
<1>1. \A T \in SUBSET S : IsFiniteSet(T) /\ Cardinality(T) \in Nat
  BY FS_Subset, FS_CardinalityType
<1>2. Bad = {}
  <2>1. SUFFICES ASSUME Bad # {} PROVE FALSE
    OBVIOUS
  <2>2. PICK n \in Bad : \A m \in Bad : n <= m
    <3>1. Bad \in SUBSET Nat
      OBVIOUS
    <3>. HIDE DEF Bad
    <3>. QED BY <2>1, <3>1, LeastElement
  <2>3. n \in Nat
    OBVIOUS
  <2>4. \A s \in SUBSET S : s # {} => Cardinality(s \ {Pick(s)}) = Cardinality(s) - 1
    BY <1>1, PickIn, FS_RemoveElement
  <2>5. \E g : \A s \in Small(n) : s # {} => g[s \ {Pick(s)}] =
            (IF s \ {Pick(s)} = {} THEN 0
             ELSE f[Pick(s \ {Pick(s)})] + g[(s \ {Pick(s)}) \ {Pick(s \ {Pick(s)})}])
    <3>1. CASE n = 0
      <4>1. \A s \in Small(n) : s = {}
        BY <3>1, <1>1, FS_EmptySet
      <4>. QED BY <4>1
    <3>2. CASE n # 0
      <4>1. n - 1 \in Nat /\ n - 1 \notin Bad
        <5>. HIDE DEF Bad
        <5>. QED BY <2>2, <2>3, <3>2
      <4>2. PICK g : g = Def(g, n - 1)
        BY <4>1
      <4>3. \A s \in Small(n) : s # {} => s \ {Pick(s)} \in Small(n - 1)
        BY <2>3, <2>4, <1>1
      <4>4. \A t \in Small(n - 1) : g[t] = IF t = {} THEN 0 ELSE f[Pick(t)] + g[t \ {Pick(t)}]
        <5>. HIDE DEF Small
        <5>. QED BY <4>2
      <4>. HIDE DEF Small
      <4>. QED BY <4>3, <4>4
    <3>. QED BY <3>1, <3>2
  <2>6. PICK g : \A s \in Small(n) : s # {} => g[s \ {Pick(s)}] =
            (IF s \ {Pick(s)} = {} THEN 0
             ELSE f[Pick(s \ {Pick(s)})] + g[(s \ {Pick(s)}) \ {Pick(s \ {Pick(s)})}])
    BY <2>5
  <2>. DEFINE h == [s \in Small(n) |-> IF s = {} THEN 0 ELSE f[Pick(s)] + g[s \ {Pick(s)}]]
  <2>7. \A s \in Small(n) : s # {} => s \ {Pick(s)} \in Small(n)
    BY <2>4, <2>3, <1>1
  <2>8. \A s \in Small(n) : s # {} => h[s \ {Pick(s)}] = g[s \ {Pick(s)}]
    <3>. HIDE DEF Small
    <3>. QED BY <2>6, <2>7
  <2>9. h = Def(h, n)
    <3>. HIDE DEF Small
    <3>. QED BY <2>8
  <2>. QED
    <3>1. n \notin Bad
      <4>. HIDE DEF h, Def
      <4>. QED BY <2>9
    <3>. QED BY <3>1
<1>3. PICK g : g = Def(g, Cardinality(S))
  <2>. HIDE DEF Def
  <2>. QED BY <1>1, <1>2
<1>4. Small(Cardinality(S)) = SUBSET S
  <2>1. \A s \in SUBSET S : Cardinality(s) <= Cardinality(S)
    BY FS_Subset
  <2>. QED BY <2>1
<1>5. g = [s \in SUBSET S |-> IF s = {} THEN 0 ELSE f[Pick(s)] + g[s \ {Pick(s)}]]
  BY <1>3, <1>4
<1>. QED
  BY <1>5 DEF Adds

(* A sum is the value of that function.                                       *)
LEMMA SumUnfolds ==
  ASSUME NEW S, IsFiniteSet(S), NEW f
  PROVE  \E g : Adds(g, f, S) /\ SumOver(f, S) = g[S]
<1>. DEFINE Def(g) == [s \in SUBSET S |-> IF s = {} THEN 0
                        ELSE f[CHOOSE x \in s : TRUE] + g[s \ {CHOOSE x \in s : TRUE}]]
            g == CHOOSE gg : gg = Def(gg)
<1>1. PICK k : Adds(k, f, S)
  BY SumExists
<1>2. k = Def(k)
  BY <1>1 DEF Adds, Pick
<1>3. g = Def(g)
  <2>. HIDE DEF Def
  <2>. QED BY <1>2
<1>4. SumOver(f, S) = g[S]
  BY DEF SumOver, MapThenSumSet, MapThenFoldSet
<1>5. Adds(g, f, S)
  <2>. HIDE DEF g
  <2>. QED BY <1>3 DEF Adds, Pick
<1>. QED BY <1>4, <1>5

(* Which of two sets it is defined on makes no difference to the recursion. *)
LEMMA SumUnique ==
  ASSUME NEW S, IsFiniteSet(S), NEW T \in SUBSET S, NEW f, NEW g, NEW h,
         Adds(g, f, S), Adds(h, f, T)
  PROVE  h[T] = g[T]
<1>. DEFINE Size == {n \in Nat : \E s \in SUBSET T : h[s] # g[s] /\ Cardinality(s) = n}
<1>1. \A s \in SUBSET T : IsFiniteSet(s) /\ Cardinality(s) \in Nat
  BY FS_Subset, FS_CardinalityType
<1>2. SUFFICES ASSUME h[T] # g[T] PROVE FALSE
  OBVIOUS
<1>3. Size # {} /\ Size \in SUBSET Nat
  BY <1>1, <1>2
<1>4. PICK n \in Size : \A m \in Size : n <= m
  <2>. HIDE DEF Size
  <2>. QED BY <1>3, LeastElement
<1>5. PICK s \in SUBSET T : h[s] # g[s] /\ Cardinality(s) = n
  OBVIOUS
<1>6. s # {}
  BY <1>5 DEF Adds
<1>. DEFINE r == s \ {Pick(s)}
<1>7. r \in SUBSET T /\ Cardinality(r) = n - 1 /\ Cardinality(r) \in Nat
  BY <1>1, <1>5, <1>6, PickIn, FS_RemoveElement
<1>8. h[r] = g[r]
  <2>1. CASE h[r] # g[r]
    <3>1. n - 1 \in Size
      BY <1>7, <2>1
    <3>. HIDE DEF Size, r
    <3>. QED BY <3>1, <1>3, <1>4
  <2>. QED BY <2>1
<1>9. h[s] = f[Pick(s)] + h[r] /\ g[s] = f[Pick(s)] + g[r]
  BY <1>6 DEF Adds
<1>. QED BY <1>5, <1>8, <1>9

(* A sum is that of any picked element and the rest.                          *)
LEMMA SumPick ==
  ASSUME NEW S, IsFiniteSet(S), NEW f
  PROVE  /\ SumOver(f, {}) = 0
         /\ S # {} => SumOver(f, S) = f[Pick(S)] + SumOver(f, S \ {Pick(S)})
<1>1. SumOver(f, {}) = 0
  <2>1. IsFiniteSet({})
    BY FS_EmptySet
  <2>. QED BY <2>1, SumUnfolds DEF Adds
<1>2. ASSUME S # {}
      PROVE  SumOver(f, S) = f[Pick(S)] + SumOver(f, S \ {Pick(S)})
  <2>. DEFINE r == S \ {Pick(S)}
  <2>1. PICK g : Adds(g, f, S) /\ SumOver(f, S) = g[S]
    BY SumUnfolds
  <2>2. r \in SUBSET S /\ IsFiniteSet(r)
    BY FS_Subset
  <2>3. PICK h : Adds(h, f, r) /\ SumOver(f, r) = h[r]
    <3>. HIDE DEF r
    <3>. QED BY <2>2, SumUnfolds
  <2>4. h[r] = g[r]
    <3>. HIDE DEF r
    <3>. QED BY <2>1, <2>2, <2>3, SumUnique
  <2>5. g[S] = f[Pick(S)] + g[r]
    BY <2>1, <1>2 DEF Adds
  <2>. QED BY <2>1, <2>3, <2>4, <2>5
<1>. QED BY <1>1, <1>2

(* A sum of integers is one, and of natural numbers one.                   *)
LEMMA SumType ==
  ASSUME NEW S, IsFiniteSet(S), NEW f, \A x \in S : f[x] \in Int
  PROVE  /\ SumOver(f, S) \in Int
         /\ (\A x \in S : f[x] >= 0) => SumOver(f, S) >= 0
<1>. DEFINE Good(T) == /\ SumOver(f, T) \in Int
                       /\ (\A x \in T : f[x] >= 0) => SumOver(f, T) >= 0
            Size == {n \in Nat : \E T \in SUBSET S : ~Good(T) /\ Cardinality(T) = n}
<1>1. \A T \in SUBSET S : IsFiniteSet(T) /\ Cardinality(T) \in Nat
  BY FS_Subset, FS_CardinalityType
<1>2. SUFFICES ASSUME ~Good(S) PROVE FALSE
  OBVIOUS
<1>3. Size # {} /\ Size \in SUBSET Nat
  <2>. HIDE DEF Good
  <2>. QED BY <1>1, <1>2
<1>4. PICK n \in Size : \A m \in Size : n <= m
  <2>. HIDE DEF Size
  <2>. QED BY <1>3, LeastElement
<1>5. PICK T \in SUBSET S : ~Good(T) /\ Cardinality(T) = n
  OBVIOUS
<1>6. T # {}
  <2>1. IsFiniteSet({}) /\ SumOver(f, {}) = 0
    BY FS_EmptySet, SumPick
  <2>. QED BY <1>5, <2>1
<1>. DEFINE r == T \ {Pick(T)}
<1>7. r \in SUBSET S /\ Cardinality(r) = n - 1 /\ Cardinality(r) \in Nat
  BY <1>1, <1>5, <1>6, PickIn, FS_RemoveElement
<1>8. Good(r)
  <2>1. CASE ~Good(r)
    <3>1. n - 1 \in Size
      <4>. HIDE DEF Good
      <4>. QED BY <1>7, <2>1
    <3>. HIDE DEF Size, r
    <3>. QED BY <3>1, <1>3, <1>4
  <2>. QED BY <2>1
<1>9. SumOver(f, T) = f[Pick(T)] + SumOver(f, r)
  BY <1>1, <1>6, SumPick
<1>10. Pick(T) \in T /\ f[Pick(T)] \in Int
  BY <1>6, PickIn
<1>. HIDE DEF r
<1>11. (\A x \in T : f[x] >= 0) => (\A x \in r : f[x] >= 0)
  BY DEF r
<1>. QED BY <1>5, <1>8, <1>9, <1>10, <1>11

(* Any element of the set may be taken out of the sum first.               *)
LEMMA SumTake ==
  ASSUME NEW S, IsFiniteSet(S), NEW f, \A x \in S : f[x] \in Int, NEW x \in S
  PROVE  SumOver(f, S) = f[x] + SumOver(f, S \ {x})
<1>. DEFINE Good(T) == \A y \in T : SumOver(f, T) = f[y] + SumOver(f, T \ {y})
            Size == {n \in Nat : \E T \in SUBSET S : ~Good(T) /\ Cardinality(T) = n}
<1>1. \A T \in SUBSET S : IsFiniteSet(T) /\ Cardinality(T) \in Nat
  BY FS_Subset, FS_CardinalityType
<1>2. SUFFICES ASSUME ~Good(S) PROVE FALSE
  OBVIOUS
<1>3. Size # {} /\ Size \in SUBSET Nat
  <2>. HIDE DEF Good
  <2>. QED BY <1>1, <1>2
<1>4. PICK n \in Size : \A m \in Size : n <= m
  <2>. HIDE DEF Size
  <2>. QED BY <1>3, LeastElement
<1>5. PICK T \in SUBSET S : ~Good(T) /\ Cardinality(T) = n
  OBVIOUS
<1>6. PICK y \in T : SumOver(f, T) # f[y] + SumOver(f, T \ {y})
  BY <1>5
<1>. DEFINE c == Pick(T)
            r == T \ {c}
            q == T \ {y}
<1>7. c \in T
  BY <1>6, PickIn
<1>8. SumOver(f, T) = f[c] + SumOver(f, r)
  BY <1>1, <1>6, SumPick
<1>9. y # c
  BY <1>6, <1>8
<1>10. /\ r \in SUBSET S /\ Cardinality(r) = n - 1 /\ Cardinality(r) \in Nat
       /\ q \in SUBSET S /\ Cardinality(q) = n - 1 /\ Cardinality(q) \in Nat
  BY <1>1, <1>5, <1>6, <1>7, FS_RemoveElement
<1>. HIDE DEF c
<1>11. ASSUME NEW U \in SUBSET S, Cardinality(U) = n - 1, n - 1 \in Nat
       PROVE  Good(U)
  <2>1. CASE ~Good(U)
    <3>1. n - 1 \in Size
      <4>. HIDE DEF Good
      <4>. QED BY <1>11, <2>1
    <3>. HIDE DEF Size
    <3>. QED BY <3>1, <1>3, <1>4
  <2>. QED BY <2>1
<1>12. Good(r) /\ Good(q)
  <2>. HIDE DEF Good, r, q
  <2>. QED BY <1>10, <1>11
<1>13. SumOver(f, r) = f[y] + SumOver(f, r \ {y})
  BY <1>6, <1>9, <1>12
<1>14. SumOver(f, q) = f[c] + SumOver(f, q \ {c})
  BY <1>7, <1>9, <1>12
<1>15. r \ {y} = q \ {c}
  OBVIOUS
<1>16. SumOver(f, r \ {y}) \in Int
  BY <1>1, SumType
<1>17. f[c] \in Int /\ f[y] \in Int
  BY <1>6, <1>7
<1>18. SumOver(f, T) = f[y] + SumOver(f, q)
  <2>1. ASSUME NEW t, NEW i \in Int, NEW j \in Int, NEW k \in Int, NEW l, NEW m,
               t = i + l, l = j + k, m = i + k
        PROVE  t = j + m
    BY <2>1
  <2>2. SumOver(f, q) = f[c] + SumOver(f, r \ {y})
    BY <1>14, <1>15
  <2>. HIDE DEF r, q, Size, Good
  <2>. QED BY <1>8, <1>13, <1>16, <1>17, <2>1, <2>2
<1>. QED BY <1>6, <1>18

LEMMA SumPut ==
  ASSUME NEW S, IsFiniteSet(S), NEW f, NEW x, x \notin S, \A y \in S \cup {x} : f[y] \in Int
  PROVE  SumOver(f, S \cup {x}) = f[x] + SumOver(f, S)
<1>1. IsFiniteSet(S \cup {x}) /\ (S \cup {x}) \ {x} = S
  BY FS_AddElement
<1>. QED BY <1>1, SumTake

(* A sum depends on the values in the set only, and is linear in them.     *)
LEMMA SumLinear ==
  ASSUME NEW S, IsFiniteSet(S), NEW f, NEW g, NEW h,
         \A x \in S : f[x] \in Int /\ g[x] \in Int /\ h[x] = f[x] + g[x]
  PROVE  SumOver(h, S) = SumOver(f, S) + SumOver(g, S)
<1>. DEFINE P == {T \in SUBSET S : SumOver(h, T) = SumOver(f, T) + SumOver(g, T)}
<1>1. {} \in P
  <2>1. SumOver(h, {}) = 0 /\ SumOver(f, {}) = 0 /\ SumOver(g, {}) = 0
    BY SumPick
  <2>. QED BY <2>1
<1>2. ASSUME NEW T \in P, NEW x \in S \ T
      PROVE  T \cup {x} \in P
  <2>1. IsFiniteSet(T) /\ T \cup {x} \in SUBSET S
    BY FS_Subset
  <2>2. \A y \in T \cup {x} : f[y] \in Int /\ g[y] \in Int /\ h[y] \in Int
    OBVIOUS
  <2>3. /\ SumOver(f, T) \in Int /\ SumOver(g, T) \in Int
        /\ SumOver(f, T \cup {x}) = f[x] + SumOver(f, T)
        /\ SumOver(g, T \cup {x}) = g[x] + SumOver(g, T)
        /\ SumOver(h, T \cup {x}) = h[x] + SumOver(h, T)
    BY <2>1, <2>2, SumPut, SumType
  <2>4. f[x] \in Int /\ g[x] \in Int /\ h[x] = f[x] + g[x]
    OBVIOUS
  <2>5. SumOver(h, T) = SumOver(f, T) + SumOver(g, T)
    OBVIOUS
  <2>6. SumOver(h, T \cup {x}) = SumOver(f, T \cup {x}) + SumOver(g, T \cup {x})
    BY <2>3, <2>4, <2>5
  <2>. QED BY <2>1, <2>6
<1>3. S \in P
  <2>. HIDE DEF P
  <2>1. P \in SUBSET (SUBSET S)
    BY DEF P
  <2>. QED BY <1>1, <1>2, <2>1, SetInduction
<1>. QED BY <1>3

LEMMA SumZero ==
  ASSUME NEW S, IsFiniteSet(S), NEW f, \A x \in S : f[x] = 0
  PROVE  SumOver(f, S) = 0
<1>1. \A x \in S : f[x] \in Int /\ f[x] = f[x] + f[x]
  OBVIOUS
<1>2. SumOver(f, S) = SumOver(f, S) + SumOver(f, S)
  BY <1>1, SumLinear, Zenon
<1>3. SumOver(f, S) \in Int
  BY <1>1, SumType
<1>. DEFINE a == SumOver(f, S)
<1>4. a = a + a /\ a \in Int
  BY <1>2, <1>3
<1>5. a = 0
  <2>. HIDE DEF a
  <2>. QED BY <1>4
<1>. QED BY <1>5

LEMMA SumSame ==
  ASSUME NEW S, IsFiniteSet(S), NEW f, NEW g, \A x \in S : f[x] \in Int /\ g[x] = f[x]
  PROVE  SumOver(g, S) = SumOver(f, S)
<1>. DEFINE z == [x \in S |-> 0]
<1>1. \A x \in S : f[x] \in Int /\ z[x] \in Int /\ g[x] = f[x] + z[x]
  OBVIOUS
<1>2. SumOver(z, S) = 0
  <2>1. \A x \in S : z[x] = 0
    OBVIOUS
  <2>. HIDE DEF z
  <2>. QED BY <2>1, SumZero
<1>3. SumOver(f, S) \in Int
  BY SumType
<1>4. SumOver(g, S) = SumOver(f, S) + SumOver(z, S)
  <2>. HIDE DEF z
  <2>. QED BY <1>1, SumLinear
<1>. QED BY <1>2, <1>3, <1>4

(* One value changes.                                                      *)
LEMMA SumOne ==
  ASSUME NEW S, IsFiniteSet(S), NEW f, NEW g, NEW x \in S,
         \A y \in S : f[y] \in Int, g[x] \in Int,
         \A y \in S \ {x} : g[y] = f[y]
  PROVE  SumOver(g, S) = SumOver(f, S) + (g[x] - f[x])
<1>1. IsFiniteSet(S \ {x})
  BY FS_Subset
<1>2. SumOver(g, S \ {x}) = SumOver(f, S \ {x})
  BY <1>1, SumSame
<1>3. SumOver(g, S) = g[x] + SumOver(g, S \ {x}) /\ SumOver(f, S) = f[x] + SumOver(f, S \ {x})
  BY SumTake
<1>4. SumOver(f, S \ {x}) \in Int
  BY <1>1, SumType
<1>. QED BY <1>2, <1>3, <1>4

LEMMA SumChange ==
  ASSUME NEW S, IsFiniteSet(S), NEW f, NEW g, NEW x,
         \A y \in S : f[y] \in Int /\ g[y] \in Int,
         \A y \in S \ {x} : g[y] = f[y]
  PROVE  SumOver(g, S) = SumOver(f, S) + (IF x \in S THEN g[x] - f[x] ELSE 0)
<1>1. CASE x \in S
  <2>1. SumOver(g, S) = SumOver(f, S) + (g[x] - f[x])
    BY <1>1, SumOne
  <2>. QED BY <2>1, <1>1
<1>2. CASE x \notin S
  <2>1. SumOver(g, S) = SumOver(f, S)
    BY <1>2, SumSame
  <2>2. SumOver(f, S) \in Int
    BY SumType
  <2>. QED BY <2>1, <2>2, <1>2
<1>. QED BY <1>1, <1>2

(* Sums of natural numbers are at least as large as those of smaller ones, *)
(* than any part, and than any single value.                               *)
LEMMA SumLess ==
  ASSUME NEW S, IsFiniteSet(S), NEW f, NEW g,
         \A x \in S : f[x] \in Int /\ g[x] \in Int /\ f[x] <= g[x]
  PROVE  SumOver(f, S) <= SumOver(g, S)
<1>. DEFINE d == [x \in S |-> g[x] - f[x]]
<1>1. \A x \in S : f[x] \in Int /\ d[x] \in Int /\ g[x] = f[x] + d[x] /\ d[x] >= 0
  OBVIOUS
<1>. HIDE DEF d
<1>2. SumOver(g, S) = SumOver(f, S) + SumOver(d, S)
  BY <1>1, SumLinear
<1>3. SumOver(d, S) >= 0 /\ SumOver(d, S) \in Int /\ SumOver(f, S) \in Int
  BY <1>1, SumType
<1>. QED BY <1>2, <1>3

LEMMA SumAtLeast ==
  ASSUME NEW S, IsFiniteSet(S), NEW f, NEW x \in S, \A y \in S : f[y] \in Nat
  PROVE  f[x] <= SumOver(f, S)
<1>1. SumOver(f, S) = f[x] + SumOver(f, S \ {x})
  BY SumTake
<1>2. SumOver(f, S \ {x}) >= 0 /\ SumOver(f, S \ {x}) \in Int
  BY SumType, FS_Subset
<1>. QED BY <1>1, <1>2

(* Sums over disjoint sets add up.                                            *)
LEMMA SumUnion ==
  ASSUME NEW S, IsFiniteSet(S), NEW T, IsFiniteSet(T), S \cap T = {}, NEW f,
         \A x \in S \cup T : f[x] \in Int
  PROVE  SumOver(f, S \cup T) = SumOver(f, S) + SumOver(f, T)
<1>. DEFINE P == {U \in SUBSET T : SumOver(f, S \cup U) = SumOver(f, S) + SumOver(f, U)}
<1>1. {} \in P
  <2>1. SumOver(f, {}) = 0 /\ SumOver(f, S) \in Int
    BY SumPick, SumType
  <2>2. S \cup {} = S
    OBVIOUS
  <2>. QED BY <2>1, <2>2
<1>2. ASSUME NEW U \in P, NEW x \in T \ U
      PROVE  U \cup {x} \in P
  <2>1. IsFiniteSet(U) /\ U \cup {x} \in SUBSET T /\ IsFiniteSet(S \cup U)
    BY FS_Subset, FS_Union
  <2>2. (S \cup U) \cup {x} = S \cup (U \cup {x}) /\ x \notin S \cup U
    OBVIOUS
  <2>3. SumOver(f, U \cup {x}) = f[x] + SumOver(f, U)
    BY <2>1, SumPut
  <2>4. SumOver(f, (S \cup U) \cup {x}) = f[x] + SumOver(f, S \cup U)
    <3>1. \A y \in (S \cup U) \cup {x} : f[y] \in Int
      OBVIOUS
    <3>. QED BY <2>1, <2>2, <3>1, SumPut, Zenon
  <2>5. SumOver(f, S) \in Int /\ SumOver(f, U) \in Int /\ f[x] \in Int
    BY <2>1, SumType
  <2>6. SumOver(f, S \cup U) = SumOver(f, S) + SumOver(f, U)
    OBVIOUS
  <2>7. SumOver(f, S \cup (U \cup {x})) = SumOver(f, S) + SumOver(f, U \cup {x})
    <3>1. ASSUME NEW t, NEW i \in Int, NEW j \in Int, NEW k \in Int, NEW l, NEW m,
                 t = i + l, l = j + k, m = i + k
          PROVE  t = j + m
      BY <3>1
    <3>2. SumOver(f, S \cup (U \cup {x})) = f[x] + SumOver(f, S \cup U)
      BY <2>2, <2>4
    <3>. QED BY <2>3, <2>5, <2>6, <3>1, <3>2
  <2>. QED BY <2>1, <2>7
<1>3. T \in P
  <2>. HIDE DEF P
  <2>1. P \in SUBSET (SUBSET T)
    BY DEF P
  <2>. QED BY <1>1, <1>2, <2>1, SetInduction
<1>. QED BY <1>3

(* Two ways to sum up a table.                                             *)
LEMMA SumExchange ==
  ASSUME NEW S, IsFiniteSet(S), NEW T, IsFiniteSet(T), NEW f,
         \A x \in S : \A y \in T : f[x][y] \in Int
  PROVE  SumOver([x \in S |-> SumOver(f[x], T)], S)
           = SumOver([y \in T |-> SumOver([x \in S |-> f[x][y]], S)], T)
<1>. DEFINE rows == [x \in S |-> SumOver(f[x], T)]
            col(U) == [y \in T |-> SumOver([x \in S |-> f[x][y]], U)]
            P == {U \in SUBSET S : SumOver(rows, U) = SumOver(col(U), T)}
<1>0. ASSUME NEW U \in SUBSET S, NEW y \in T
      PROVE  SumOver([x \in S |-> f[x][y]], U) \in Int
  <2>. DEFINE g == [x \in S |-> f[x][y]]
  <2>1. \A x \in U : g[x] \in Int
    OBVIOUS
  <2>2. IsFiniteSet(U)
    BY FS_Subset
  <2>. HIDE DEF g
  <2>3. SumOver(g, U) \in Int
    BY <2>1, <2>2, SumType
  <2>. QED BY <2>3 DEF g
<1>1. {} \in P
  <2>1. SumOver(rows, {}) = 0
    BY SumPick
  <2>2. \A y \in T : col({})[y] = 0
    BY SumPick
  <2>3. SumOver(col({}), T) = 0
    <3>. HIDE DEF col
    <3>. QED BY <2>2, SumZero
  <2>. QED BY <2>1, <2>3
<1>2. ASSUME NEW U \in P, NEW z \in S \ U
      PROVE  U \cup {z} \in P
  <2>1. IsFiniteSet(U) /\ U \in SUBSET S /\ U \cup {z} \in SUBSET S
    BY FS_Subset
  <2>2. ASSUME NEW y \in T
        PROVE  col(U \cup {z})[y] = f[z][y] + col(U)[y] /\ col(U)[y] \in Int
    <3>. DEFINE g == [x \in S |-> f[x][y]]
    <3>1. \A x \in U \cup {z} : g[x] \in Int
      OBVIOUS
    <3>2. SumOver(g, U \cup {z}) = g[z] + SumOver(g, U)
      <4>. HIDE DEF g
      <4>. QED BY <2>1, <3>1, SumPut
    <3>3. g[z] = f[z][y]
      OBVIOUS
    <3>. QED BY <3>2, <3>3, <2>1, <1>0
  <2>3. SumOver(col(U \cup {z}), T) = SumOver(f[z], T) + SumOver(col(U), T)
    <3>1. \A y \in T : f[z][y] \in Int /\ col(U)[y] \in Int
                       /\ col(U \cup {z})[y] = f[z][y] + col(U)[y]
      <4>. HIDE DEF col
      <4>. QED BY <2>2
    <3>. HIDE DEF col
    <3>. QED BY <3>1, SumLinear
  <2>4. \A x \in U \cup {z} : rows[x] \in Int
    <3>1. \A x \in S : SumOver(f[x], T) \in Int
      BY SumType
    <3>. QED BY <3>1, <2>1
  <2>5. SumOver(rows, U \cup {z}) = rows[z] + SumOver(rows, U)
    <3>. HIDE DEF rows
    <3>. QED BY <2>1, <2>4, SumPut
  <2>6. SumOver(rows, U) = SumOver(col(U), T)
    OBVIOUS
  <2>7. rows[z] = SumOver(f[z], T)
    OBVIOUS
  <2>8. SumOver(rows, U \cup {z}) = SumOver(col(U \cup {z}), T)
    <3>. HIDE DEF rows, col
    <3>. QED BY <2>3, <2>5, <2>6, <2>7
  <2>. QED BY <2>1, <2>8
<1>3. S \in P
  <2>. HIDE DEF P
  <2>1. P \in SUBSET (SUBSET S)
    BY DEF P
  <2>. QED BY <1>1, <1>2, <2>1, SetInduction
<1>. QED BY <1>3

-----------------------------------------------------------------------------
(* The tree of positions.                                                  *)

(* Positions are numbered: induction from the root down, and from the leaves up. *)
LEMMA NodesBounded == \E k \in Nat : \A n \in Node : n <= k
<1>. DEFINE P == {T \in SUBSET Node : \E k \in Nat : \A n \in T : n <= k}
<1>1. {} \in P
  BY TreeAssumption
<1>2. ASSUME NEW T \in P, NEW x \in Node \ T
      PROVE  T \cup {x} \in P
  <2>1. PICK k \in Nat : \A n \in T : n <= k
    OBVIOUS
  <2>2. x \in Nat /\ T \subseteq Nat
    BY TreeAssumption
  <2>3. CASE x <= k
    BY <2>1, <2>2, <2>3
  <2>4. CASE k <= x
    <3>1. \A n \in T \cup {x} : n <= x
      BY <2>1, <2>2, <2>4
    <3>. QED BY <2>2, <3>1
  <2>. QED BY <2>2, <2>3, <2>4
<1>3. Node \in P
  <2>. HIDE DEF P
  <2>1. P \in SUBSET (SUBSET Node)
    BY DEF P
  <2>. QED BY <1>1, <1>2, <2>1, SetInduction, TreeAssumption
<1>. QED BY <1>3

LEMMA Numbered ==
  /\ \A n \in Node : n \in Nat
  /\ Top \in Node
  /\ \A n \in Node \ {Top} : Parent[n] \in Node /\ Parent[n] \in Nat /\ Parent[n] < n
BY TreeAssumption

LEMMA Counting ==
  ASSUME NEW P, 0 \in P, \A k \in Nat : k \in P => k + 1 \in P
  PROVE  Nat \subseteq P
<1>. DEFINE Bad == {n \in Nat : n \notin P}
<1>1. SUFFICES ASSUME Bad # {} PROVE FALSE
  OBVIOUS
<1>2. PICK n \in Bad : \A m \in Bad : n <= m
  <2>1. Bad \in SUBSET Nat
    OBVIOUS
  <2>. HIDE DEF Bad
  <2>. QED BY <1>1, <2>1, LeastElement
<1>3. n # 0 /\ n \in Nat
  OBVIOUS
<1>4. n - 1 \in Nat /\ n - 1 \notin Bad
  <2>. HIDE DEF Bad
  <2>. QED BY <1>2, <1>3
<1>5. (n - 1) + 1 = n
  BY <1>3
<1>. QED BY <1>4, <1>5

(* Induction from the root down, for sets of nodes,                           *)
LEMMA FromTheRoot ==
  ASSUME NEW P, \A n \in Node : (\A m \in Node : m < n => m \in P) => n \in P
  PROVE  Node \subseteq P
<1>. DEFINE Bad == {n \in Nat : n \in Node /\ n \notin P}
<1>1. SUFFICES ASSUME Bad # {} PROVE FALSE
  BY TreeAssumption
<1>2. PICK n \in Bad : \A m \in Bad : n <= m
  <2>1. Bad \in SUBSET Nat
    OBVIOUS
  <2>. HIDE DEF Bad
  <2>. QED BY <1>1, <2>1, LeastElement
<1>3. ASSUME NEW m \in Node, m < n PROVE m \in P
  BY <1>2, <1>3, TreeAssumption
<1>. QED BY <1>3

(* and from the leaves up.                                                    *)
LEMMA FromTheLeaves ==
  ASSUME NEW P, \A n \in Node : (\A m \in Node : n < m => m \in P) => n \in P
  PROVE  Node \subseteq P
<1>1. PICK k \in Nat : \A n \in Node : n <= k
  BY NodesBounded
<1>. DEFINE Bad == {j \in Nat : \E n \in Node : n \notin P /\ j = k - n}
<1>2. SUFFICES ASSUME NEW x \in Node, x \notin P PROVE FALSE
  OBVIOUS
<1>3. k - x \in Bad
  BY <1>1, <1>2, TreeAssumption
<1>4. PICK j \in Bad : \A i \in Bad : j <= i
  <2>1. Bad \in SUBSET Nat
    OBVIOUS
  <2>. HIDE DEF Bad
  <2>. QED BY <1>3, <2>1, LeastElement
<1>5. PICK n \in Node : n \notin P /\ j = k - n
  OBVIOUS
<1>6. ASSUME NEW m \in Node, n < m PROVE m \in P
  <2>1. SUFFICES ASSUME m \notin P PROVE FALSE
    OBVIOUS
  <2>2. n \in Nat /\ m \in Nat /\ m <= k
    BY <1>1, TreeAssumption
  <2>3. k - m \in Bad
    BY <2>1, <2>2
  <2>4. ~(j <= k - m)
    BY <1>5, <1>6, <2>2
  <2>. HIDE DEF Bad
  <2>. QED BY <2>3, <2>4, <1>4
<1>. QED BY <1>5, <1>6

-----------------------------------------------------------------------------
(* The ancestors of a node are its parent and the ancestors of its parent.  *)
LEMMA AboveUnfolds ==
  /\ Above = [n \in Node |-> Above[n]]
  /\ Above[Top] = {}
  /\ \A n \in Node \ {Top} : Above[n] = {Parent[n]} \cup Above[Parent[n]]
<1>. DEFINE Def(g, S) == [n \in S |-> IF n = Top THEN {} ELSE {Parent[n]} \cup g[Parent[n]]]
            Upto(k) == {n \in Node : n < k}
            P == {k \in Nat : \E g : g = Def(g, Upto(k))}
<1>1. 0 \in P
  <2>. DEFINE g == [n \in {} |-> {}]
  <2>1. Upto(0) = {}
    BY Numbered
  <2>2. g = Def(g, {})
    OBVIOUS
  <2>. HIDE DEF Def, Upto, g
  <2>3. g = Def(g, Upto(0))
    BY <2>1, <2>2
  <2>. QED BY <2>3
<1>2. ASSUME NEW k \in Nat, k \in P
      PROVE  k + 1 \in P
  <2>1. PICK g : g = Def(g, Upto(k))
    <3>. HIDE DEF Def
    <3>. QED BY <1>2
  <2>. DEFINE h == [n \in Upto(k + 1) |-> IF n = Top THEN {} ELSE {Parent[n]} \cup g[Parent[n]]]
  <2>2. ASSUME NEW n \in Upto(k + 1), n # Top
        PROVE  h[Parent[n]] = g[Parent[n]]
    <3>1. Parent[n] \in Upto(k) /\ Parent[n] \in Upto(k + 1)
      <4>1. n \in Node /\ n < k + 1 /\ n \in Nat /\ n \in Node \ {Top}
        BY <2>2, Numbered
      <4>2. Parent[n] \in Node /\ Parent[n] \in Nat /\ Parent[n] < n
        BY <4>1, Numbered
      <4>3. Parent[n] < k /\ Parent[n] < k + 1
        BY <4>1, <4>2
      <4>. QED BY <4>2, <4>3
    <3>2. g[Parent[n]] = IF Parent[n] = Top THEN {} ELSE {Parent[Parent[n]]} \cup g[Parent[Parent[n]]]
      <4>. HIDE DEF Upto
      <4>. QED BY <2>1, <3>1
    <3>. HIDE DEF Upto
    <3>. QED BY <3>1, <3>2
  <2>3. h = Def(h, Upto(k + 1))
    <3>. HIDE DEF Upto
    <3>. QED BY <2>2
  <2>. HIDE DEF h, Def, Upto
  <2>. QED BY <2>3
<1>3. Nat \subseteq P
  <2>. HIDE DEF P
  <2>. QED BY <1>1, <1>2, Counting
<1>4. PICK k \in Nat : \A n \in Node : n <= k
  BY NodesBounded
<1>5. \E g : g = Def(g, Upto(k + 1))
  <2>1. k + 1 \in P
    <3>. HIDE DEF P
    <3>. QED BY <1>3
  <2>. HIDE DEF Def, Upto
  <2>. QED BY <2>1
<1>6. Upto(k + 1) = Node
  BY <1>4, Numbered
<1>. DEFINE up == CHOOSE g : g = Def(g, Node)
<1>7. up = Def(up, Node)
  <2>. HIDE DEF Def, Upto
  <2>. QED BY <1>5, <1>6
<1>8. Above = [n \in Node |-> up[n]]
  BY DEF Above
<1>9. \A n \in Node : up[n] = IF n = Top THEN {} ELSE {Parent[n]} \cup up[Parent[n]]
  <2>. HIDE DEF up
  <2>. QED BY <1>7
<1>10. \A n \in Node : Above[n] = up[n]
  <2>. HIDE DEF up
  <2>. QED BY <1>8
<1>11. Above = [n \in Node |-> Above[n]]
  <2>. HIDE DEF up
  <2>. QED BY <1>8, <1>10
<1>. HIDE DEF up
<1>. QED BY <1>9, <1>10, <1>11, TreeAssumption

LEMMA AboveType ==
  ASSUME NEW n \in Node
  PROVE  /\ Above[n] \in SUBSET Node
         /\ \A x \in Above[n] : x < n
<1>. DEFINE P == {m \in Node : Above[m] \in SUBSET Node /\ \A x \in Above[m] : x < m}
<1>1. ASSUME NEW m \in Node, \A l \in Node : l < m => l \in P
      PROVE  m \in P
  <2>1. CASE m = Top
    BY <2>1, AboveUnfolds
  <2>2. CASE m # Top
    <3>. DEFINE p == Parent[m]
    <3>1. p \in Node /\ p < m
      BY <2>2, TreeAssumption
    <3>2. Above[m] = {p} \cup Above[p]
      BY <2>2, AboveUnfolds
    <3>3. Above[p] \in SUBSET Node /\ \A x \in Above[p] : x < p
      BY <3>1, <1>1
    <3>4. m \in Nat /\ p \in Nat /\ \A x \in Node : x \in Nat
      BY <3>1, TreeAssumption
    <3>. HIDE DEF p
    <3>5. Above[m] \in SUBSET Node
      BY <3>1, <3>2, <3>3
    <3>6. ASSUME NEW x \in Above[m]
          PROVE  x < m
      <4>1. x = p \/ (x < p /\ x \in Nat)
        BY <3>2, <3>3, <3>4
      <4>. QED BY <3>1, <3>4, <4>1
    <3>. QED BY <3>5, <3>6
  <2>. QED BY <2>1, <2>2
<1>2. Node \subseteq P
  <2>. HIDE DEF P
  <2>. QED BY <1>1, FromTheRoot
<1>. QED BY <1>2

(* What is above a node above n is above n,                                   *)
LEMMA AboveTransitive ==
  ASSUME NEW n \in Node, NEW y \in Above[n]
  PROVE  Above[y] \subseteq Above[n]
<1>. DEFINE P == {m \in Node : \A z \in Above[m] : Above[z] \subseteq Above[m]}
<1>1. ASSUME NEW m \in Node, \A l \in Node : l < m => l \in P
      PROVE  m \in P
  <2>1. CASE m = Top
    BY <2>1, AboveUnfolds
  <2>2. CASE m # Top
    <3>1. Parent[m] \in Node /\ Parent[m] < m
      BY <2>2, TreeAssumption
    <3>2. Above[m] = {Parent[m]} \cup Above[Parent[m]]
      BY <2>2, AboveUnfolds
    <3>3. \A z \in Above[Parent[m]] : Above[z] \subseteq Above[Parent[m]]
      BY <3>1, <1>1
    <3>. QED BY <3>2, <3>3
  <2>. QED BY <2>1, <2>2
<1>2. Node \subseteq P
  <2>. HIDE DEF P
  <2>. QED BY <1>1, FromTheRoot
<1>. QED BY <1>2

(* and two nodes above n are above one another.                               *)
LEMMA AboveChain ==
  ASSUME NEW n \in Node, NEW x \in Above[n], NEW y \in Above[n]
  PROVE  x = y \/ x \in Above[y] \/ y \in Above[x]
<1>. DEFINE P == {m \in Node : \A u, v \in Above[m] : u = v \/ u \in Above[v] \/ v \in Above[u]}
<1>1. ASSUME NEW m \in Node, \A l \in Node : l < m => l \in P
      PROVE  m \in P
  <2>1. CASE m = Top
    BY <2>1, AboveUnfolds
  <2>2. CASE m # Top
    <3>1. Parent[m] \in Node /\ Parent[m] < m
      BY <2>2, TreeAssumption
    <3>2. Above[m] = {Parent[m]} \cup Above[Parent[m]]
      BY <2>2, AboveUnfolds
    <3>3. \A u, v \in Above[Parent[m]] : u = v \/ u \in Above[v] \/ v \in Above[u]
      BY <3>1, <1>1
    <3>. QED BY <3>2, <3>3
  <2>. QED BY <2>1, <2>2
<1>2. Node \subseteq P
  <2>. HIDE DEF P
  <2>. QED BY <1>1, FromTheRoot
<1>. QED BY <1>2

(* The nodes of a search with root r, and those of them that a loop from n  *)
(* up to the root sees.                                                     *)
Sub(r)      == {r} \cup Below[r]
Trail(r, n) == {n} \cup (Above[n] \cap Sub(r))

LEMMA BelowType ==
  ASSUME NEW n \in Node
  PROVE  /\ Below[n] \in SUBSET Node /\ IsFiniteSet(Below[n])
         /\ n \notin Below[n]
         /\ IsFiniteSet({n} \cup Below[n])
         /\ \A x \in Node : x \in Below[n] <=> n \in Above[x]
         /\ \A x \in Below[n] : x # Top /\ n < x
         /\ Top \notin Below[n]
<1>1. Below[n] \in SUBSET Node /\ \A x \in Node : x \in Below[n] <=> n \in Above[x]
  BY DEF Below
<1>2. IsFiniteSet(Below[n]) /\ IsFiniteSet({n} \cup Below[n])
  BY <1>1, TreeAssumption, FS_Subset, FS_AddElement
<1>3. \A x \in Below[n] : n < x
  BY <1>1, AboveType
<1>4. n \notin Below[n]
  BY <1>3, Numbered
<1>5. Top \notin Below[n]
  BY <1>1, AboveUnfolds, Numbered
<1>. QED BY <1>1, <1>2, <1>3, <1>4, <1>5

LEMMA KidsType ==
  ASSUME NEW n \in Node
  PROVE  /\ Kids(n) \in SUBSET Node /\ IsFiniteSet(Kids(n)) /\ Kids(n) \subseteq Below[n]
         /\ \A c \in Kids(n) : /\ c # Top /\ Parent[c] = n /\ n < c
                               /\ Above[c] = {n} \cup Above[n]
                               /\ Below[c] \subseteq Below[n]
         /\ \A c \in Node : c # Top /\ Parent[c] = n => c \in Kids(n)
<1>1. Kids(n) \in SUBSET Node /\ IsFiniteSet(Kids(n))
  BY TreeAssumption, FS_Subset DEF Kids
<1>2. ASSUME NEW c \in Kids(n)
      PROVE  /\ c # Top /\ Parent[c] = n /\ n < c /\ Above[c] = {n} \cup Above[n]
             /\ c \in Below[n]
             /\ Below[c] \subseteq Below[n]
  <2>1. c \in Node \ {Top} /\ Parent[c] = n
    BY DEF Kids
  <2>2. Above[c] = {n} \cup Above[n] /\ n < c
    BY <2>1, AboveUnfolds, Numbered
  <2>3. c \in Below[n]
    BY <2>1, <2>2, BelowType
  <2>4. ASSUME NEW x \in Below[c] PROVE x \in Below[n]
    <3>1. x \in Node /\ c \in Above[x]
      BY <2>1, BelowType
    <3>2. n \in Above[x]
      BY <3>1, <2>2, AboveTransitive
    <3>. QED BY <3>1, <3>2, BelowType
  <2>. QED BY <2>1, <2>2, <2>3, <2>4
<1>3. \A c \in Node : c # Top /\ Parent[c] = n => c \in Kids(n)
  BY DEF Kids
<1>. QED BY <1>1, <1>2, <1>3

(* What is below a node is a child of it or below one, of one only.         *)
LEMMA BelowKids ==
  ASSUME NEW n \in Node
  PROVE  /\ \A x \in Below[n] : \E c \in Kids(n) : x \in {c} \cup Below[c]
         /\ \A c, d \in Kids(n) : c # d => ({c} \cup Below[c]) \cap ({d} \cup Below[d]) = {}
<1>. DEFINE P == {x \in Node : x \in Below[n] => \E c \in Kids(n) : x \in {c} \cup Below[c]}
<1>1. ASSUME NEW x \in Node, \A y \in Node : y < x => y \in P
      PROVE  x \in P
  <2>1. SUFFICES ASSUME x \in Below[n] PROVE \E c \in Kids(n) : x \in {c} \cup Below[c]
    OBVIOUS
  <2>2. n \in Above[x] /\ x # Top
    BY <2>1, BelowType
  <2>3. Above[x] = {Parent[x]} \cup Above[Parent[x]] /\ Parent[x] \in Node /\ Parent[x] < x
    BY <2>2, AboveUnfolds, Numbered
  <2>4. CASE Parent[x] = n
    BY <2>4, <2>2, KidsType
  <2>5. CASE Parent[x] # n
    <3>1. Parent[x] \in Below[n]
      BY <2>2, <2>3, <2>5, BelowType
    <3>2. PICK c \in Kids(n) : Parent[x] \in {c} \cup Below[c]
      BY <2>3, <3>1, <1>1
    <3>3. c \in Node
      BY KidsType
    <3>4. x \in Below[c]
      BY <2>3, <3>2, <3>3, BelowType
    <3>. QED BY <3>4
  <2>. QED BY <2>4, <2>5
<1>2. Node \subseteq P
  <2>. HIDE DEF P
  <2>. QED BY <1>1, FromTheRoot
<1>3. \A x \in Below[n] : \E c \in Kids(n) : x \in {c} \cup Below[c]
  BY <1>2, BelowType
<1>4. ASSUME NEW c \in Kids(n), NEW d \in Kids(n), c # d,
             NEW x \in {c} \cup Below[c], x \in {d} \cup Below[d]
      PROVE  FALSE
  <2>1. c \in Node /\ d \in Node /\ c \in Nat /\ d \in Nat /\ n \in Nat /\ n < c /\ n < d
    BY KidsType, Numbered
  <2>2. Above[c] = {n} \cup Above[n] /\ Above[d] = {n} \cup Above[n]
    BY KidsType
  <2>3. \A y \in Above[n] : y \in Nat /\ y < n
    BY AboveType, Numbered
  <2>4. c \notin Above[d] /\ d \notin Above[c]
    BY <2>1, <2>2, <2>3
  <2>5. c \notin Below[d] /\ d \notin Below[c]
    BY <2>1, <2>4, BelowType
  <2>6. x \in Below[c] /\ x \in Below[d]
    BY <1>4, <2>5
  <2>7. x \in Node /\ c \in Above[x] /\ d \in Above[x]
    BY <2>1, <2>6, BelowType
  <2>. QED BY <1>4, <2>4, <2>7, AboveChain
<1>. QED BY <1>3, <1>4

(* A node of the search is on the way up from x if x is at or below it.     *)
LEMMA TrailIs ==
  ASSUME NEW r \in Node, NEW x \in Sub(r)
  PROVE  /\ Sub(r) \in SUBSET Node /\ r \in Sub(r) /\ x \in Node
         /\ Trail(r, x) \in SUBSET Sub(r) /\ x \in Trail(r, x)
         /\ r \in Trail(r, x)
         /\ \A m \in Sub(r) : m \in Trail(r, x) <=> x \in {m} \cup Below[m]
         /\ \A m \in Sub(r) : {m} \cup Below[m] \subseteq Sub(r)
<1>1. Sub(r) \in SUBSET Node /\ x \in Node
  BY BelowType DEF Sub
<1>2. \A m \in Sub(r) : m \in Trail(r, x) <=> x \in {m} \cup Below[m]
  BY <1>1, BelowType DEF Trail
<1>3. r \in Trail(r, x)
  BY <1>1, BelowType DEF Trail, Sub
<1>4. ASSUME NEW m \in Sub(r), NEW y \in Below[m]
      PROVE  y \in Below[r]
  <2>1. m \in Node /\ y \in Node /\ m \in Above[y]
    BY <1>1, BelowType
  <2>2. CASE m = r
    BY <2>2
  <2>3. CASE m # r
    <3>1. r \in Above[m]
      BY <2>1, <2>3, BelowType DEF Sub
    <3>2. r \in Above[y]
      BY <2>1, <3>1, AboveTransitive
    <3>. QED BY <2>1, <3>2, BelowType
  <2>. QED BY <2>2, <2>3
<1>5. \A m \in Sub(r) : {m} \cup Below[m] \subseteq Sub(r)
  BY <1>4 DEF Sub
<1>. QED BY <1>1, <1>2, <1>3, <1>5 DEF Trail, Sub

LEMMA TrailGoesUp ==
  ASSUME NEW r \in Node, NEW x \in Sub(r), x # r
  PROVE  /\ x # Top /\ Parent[x] \in Sub(r) /\ x \in Kids(Parent[x])
         /\ Trail(r, x) = {x} \cup Trail(r, Parent[x])
         /\ Parent[x] # x /\ x \notin Trail(r, Parent[x])
<1>1. x \in Below[r] /\ x \in Node
  BY BelowType DEF Sub
<1>2. x # Top /\ r \in Above[x]
  BY <1>1, BelowType
<1>3. /\ Parent[x] \in Node /\ Parent[x] < x /\ x \in Nat /\ Parent[x] \in Nat
      /\ Above[x] = {Parent[x]} \cup Above[Parent[x]]
  BY <1>1, <1>2, AboveUnfolds, Numbered
<1>4. Parent[x] \in Sub(r)
  BY <1>2, <1>3, BelowType DEF Sub
<1>5. Trail(r, x) = {x} \cup Trail(r, Parent[x])
  BY <1>3, <1>4 DEF Trail
<1>6. x \in Kids(Parent[x])
  BY <1>1, <1>2, <1>3, KidsType
<1>7. Parent[x] # x /\ x \notin Above[Parent[x]]
  <2>1. x \in Above[Parent[x]] => x < Parent[x]
    BY <1>3, AboveType
  <2>. QED BY <1>3, <2>1
<1>. QED BY <1>2, <1>4, <1>5, <1>6, <1>7 DEF Trail

(* Of the children of a node of the search at most one is on the way up, and  *)
(* then the node is too.                                                      *)
LEMMA TrailKids ==
  ASSUME NEW r \in Node, NEW x \in Sub(r), NEW m \in Sub(r)
  PROVE  /\ \A c \in Kids(m) : c \in Trail(r, x) => m \in Trail(r, x)
         /\ m \in Trail(r, x) /\ m # x => \E c \in Kids(m) : c \in Trail(r, x)
         /\ \A c, d \in Kids(m) : c \in Trail(r, x) /\ d \in Trail(r, x) => c = d
         /\ Kids(m) \subseteq Sub(r)
         /\ \A c \in Kids(m) : c # r
<1>1. m \in Node /\ r \in Node /\ x \in Node
  BY BelowType DEF Sub
<1>2. Kids(m) \subseteq Sub(r)
  BY <1>1, KidsType, TrailIs
<1>3. \A c \in Kids(m) : c # r
  <2>1. r \notin Below[m]
    <3>1. r \in Below[m] => m < r
      BY <1>1, BelowType
    <3>2. m = r \/ r < m
      BY <1>1, BelowType DEF Sub
    <3>. QED BY <1>1, <3>1, <3>2, Numbered
  <2>. QED BY <2>1, <1>1, KidsType
<1>4. ASSUME NEW c \in Kids(m), c \in Trail(r, x) PROVE m \in Trail(r, x)
  <2>1. x \in {c} \cup Below[c]
    BY <1>2, <1>4, TrailIs
  <2>2. c \in Below[m] /\ Below[c] \subseteq Below[m]
    BY <1>1, KidsType
  <2>. QED BY <2>1, <2>2, TrailIs
<1>5. ASSUME m \in Trail(r, x), m # x
      PROVE  \E c \in Kids(m) : c \in Trail(r, x)
  <2>1. x \in Below[m]
    BY <1>5, TrailIs
  <2>2. PICK c \in Kids(m) : x \in {c} \cup Below[c]
    BY <1>1, <2>1, BelowKids
  <2>. QED BY <1>2, <2>2, TrailIs
<1>6. ASSUME NEW c \in Kids(m), NEW d \in Kids(m), c \in Trail(r, x), d \in Trail(r, x)
      PROVE  c = d
  <2>1. x \in {c} \cup Below[c] /\ x \in {d} \cup Below[d]
    BY <1>2, <1>6, TrailIs
  <2>. QED BY <1>1, <2>1, BelowKids
<1>. QED BY <1>2, <1>3, <1>4, <1>5, <1>6

(* A search from a child sees a part of the tree.                             *)
LEMMA SubOfKid ==
  ASSUME NEW r \in Node, NEW c \in Kids(r)
  PROVE  /\ c \in Node /\ c # r /\ c # Top /\ Sub(c) \subseteq Sub(r) \ {r}
         /\ c \in Sub(r) /\ r \notin Above[r] /\ c \notin Above[c]
         /\ \A x \in Sub(c) : x \notin Above[c]
<1>1. /\ c \in Node /\ c # Top /\ r < c /\ c \in Nat /\ r \in Nat
      /\ Below[c] \subseteq Below[r] /\ c \in Below[r]
  BY KidsType, Numbered
<1>2. r \notin Below[r] /\ r \notin Above[r] /\ c \notin Above[c]
  BY <1>1, BelowType
<1>3. ASSUME NEW x \in Sub(c) PROVE x \notin Above[c]
  <2>1. x \in Node /\ (x = c \/ c < x)
    BY <1>1, BelowType DEF Sub
  <2>2. x \in Above[c] => x < c
    BY <1>1, AboveType
  <2>. QED BY <1>1, <2>1, <2>2, Numbered
<1>. QED BY <1>1, <1>2, <1>3 DEF Sub

(* A sum over what is below a node, child by child.                           *)
LEMMA SumBelow ==
  ASSUME NEW n \in Node, NEW f, \A x \in Node : f[x] \in Int
  PROVE  SumOver(f, Below[n])
           = SumOver([c \in Kids(n) |-> SumOver(f, {c} \cup Below[c])], Kids(n))
<1>. DEFINE part == [c \in Kids(n) |-> SumOver(f, {c} \cup Below[c])]
            Join(K) == UNION {{c} \cup Below[c] : c \in K}
            P == {K \in SUBSET Kids(n) : SumOver(f, Join(K)) = SumOver(part, K)}
<1>1. {} \in P
  <2>1. Join({}) = {}
    OBVIOUS
  <2>2. SumOver(f, {}) = 0 /\ SumOver(part, {}) = 0
    BY SumPick, KidsType
  <2>. QED BY <2>1, <2>2
<1>2. ASSUME NEW K \in P, NEW d \in Kids(n) \ K
      PROVE  K \cup {d} \in P
  <2>1. IsFiniteSet(K) /\ K \cup {d} \in SUBSET Kids(n) /\ K \in SUBSET Kids(n)
    BY KidsType, FS_Subset
  <2>2. \A c \in Kids(n) : /\ c \in Node /\ IsFiniteSet({c} \cup Below[c])
                          /\ ({c} \cup Below[c]) \subseteq Node
    <3>1. ASSUME NEW c \in Kids(n) PROVE c \in Node
      BY KidsType
    <3>2. ASSUME NEW c \in Node
          PROVE  IsFiniteSet({c} \cup Below[c]) /\ Below[c] \in SUBSET Node
      BY BelowType
    <3>. QED BY <3>1, <3>2
  <2>3. Join(K) \in SUBSET Node /\ IsFiniteSet(Join(K))
    <3>1. Join(K) \in SUBSET Node
      BY <2>1, <2>2
    <3>. QED BY <3>1, TreeAssumption, FS_Subset
  <2>4. Join(K) \cap ({d} \cup Below[d]) = {}
    BY <2>1, BelowKids
  <2>5. Join(K \cup {d}) = Join(K) \cup ({d} \cup Below[d])
    OBVIOUS
  <2>6. SumOver(f, Join(K \cup {d})) = SumOver(f, Join(K)) + SumOver(f, {d} \cup Below[d])
    <3>. DEFINE A == Join(K)
                B == {d} \cup Below[d]
    <3>1. \A x \in A \cup B : f[x] \in Int
      BY <2>2, <2>3
    <3>2. IsFiniteSet(A) /\ IsFiniteSet(B) /\ A \cap B = {}
      BY <2>2, <2>3, <2>4
    <3>3. SumOver(f, A \cup B) = SumOver(f, A) + SumOver(f, B)
      <4>. HIDE DEF A, B
      <4>. QED BY <3>1, <3>2, SumUnion
    <3>. QED BY <3>3, <2>5
  <2>7. \A c \in K \cup {d} : part[c] \in Int
    <3>1. \A c \in Kids(n) : SumOver(f, {c} \cup Below[c]) \in Int
      BY <2>2, SumType
    <3>. QED BY <3>1, <2>1
  <2>8. part[d] = SumOver(f, {d} \cup Below[d])
    OBVIOUS
  <2>9. SumOver(part, K \cup {d}) = part[d] + SumOver(part, K)
    <3>. HIDE DEF part
    <3>. QED BY <2>1, <2>7, SumPut
  <2>10. SumOver(f, Join(K)) = SumOver(part, K) /\ SumOver(part, K) \in Int /\ part[d] \in Int
    <3>. HIDE DEF part
    <3>1. SumOver(part, K) \in Int
      BY <2>1, <2>7, SumType
    <3>. QED BY <2>7, <3>1
  <2>11. SumOver(f, Join(K \cup {d})) = SumOver(part, K \cup {d})
    <3>. HIDE DEF part, Join
    <3>. QED BY <2>6, <2>8, <2>9, <2>10
  <2>. QED BY <2>1, <2>11
<1>3. Kids(n) \in P
  <2>1. P \in SUBSET (SUBSET Kids(n))
    OBVIOUS
  <2>. HIDE DEF P
  <2>. QED BY <1>1, <1>2, <2>1, SetInduction, KidsType
<1>4. Join(Kids(n)) = Below[n]
  BY KidsType, BelowKids
<1>. QED BY <1>3, <1>4

-----------------------------------------------------------------------------
(* The results of the game.                                                *)

Outcome == BlackWon..WhiteWon

LEMMA MaxIs ==
  ASSUME NEW S \in SUBSET Outcome, S # {}
  PROVE  Max(S) \in S /\ Max(S) \in Outcome /\ \A y \in S : y <= Max(S)
<1>1. \A x \in S : x = -1 \/ x = 0 \/ x = 1
  BY DEF Outcome, BlackWon, WhiteWon
<1>2. \E x \in S : \A y \in S : x >= y
  <2>1. CASE 1 \in S
    BY <1>1, <2>1
  <2>2. CASE 1 \notin S /\ 0 \in S
    BY <1>1, <2>2
  <2>3. CASE 1 \notin S /\ 0 \notin S
    <3>1. -1 \in S
      BY <1>1, <2>3
    <3>. QED BY <1>1, <2>3, <3>1
  <2>. QED BY <2>1, <2>2, <2>3
<1>. DEFINE m == CHOOSE x \in S : \A y \in S : x >= y
<1>3. m \in S /\ \A y \in S : m >= y
  BY <1>2
<1>4. Max(S) = m
  BY DEF Max
<1>5. \A y \in S : y \in Int
  BY DEF Outcome, BlackWon, WhiteWon
<1>6. Max(S) \in S /\ \A y \in S : Max(S) >= y
  <2>. HIDE DEF m
  <2>. QED BY <1>3, <1>4
<1>. QED BY <1>5, <1>6

LEMMA MinIs ==
  ASSUME NEW S \in SUBSET Nat, S # {}
  PROVE  Min(S) \in S /\ \A y \in S : Min(S) <= y
BY LeastElement DEF Min

(* The result of a game is the best answer to the best move.                  *)
LEMMA TruthUnfolds ==
  \A n \in Node :
    Truth[n] = CASE Ending[n] = "mate" -> WhiteWon
                 [] Ending[n] \in {"stalemate", "rule"} -> Draw
                 [] OTHER -> -Max({Truth[c] : c \in Kids(n)})
<1>. DEFINE Def(g, S) == [n \in S |->
                            CASE Ending[n] = "mate" -> WhiteWon
                              [] Ending[n] \in {"stalemate", "rule"} -> Draw
                              [] OTHER -> -Max({g[c] : c \in Kids(n)})]
<1>1. PICK k \in Nat : \A n \in Node : n <= k
  BY NodesBounded
<1>. DEFINE From(j) == {n \in Node : n > k - j}
            P == {j \in Nat : \E g : g = Def(g, From(j))}
<1>2. 0 \in P
  <2>. DEFINE g == [n \in {} |-> 0]
  <2>1. From(0) = {}
    BY <1>1, Numbered
  <2>2. g = Def(g, {})
    OBVIOUS
  <2>. HIDE DEF Def, From, g
  <2>3. g = Def(g, From(0))
    BY <2>1, <2>2
  <2>. QED BY <2>3
<1>3. ASSUME NEW j \in Nat, j \in P
      PROVE  j + 1 \in P
  <2>1. PICK g : g = Def(g, From(j))
    <3>. HIDE DEF Def
    <3>. QED BY <1>3
  <2>. DEFINE h == Def(g, From(j + 1))
  <2>2. ASSUME NEW n \in From(j + 1), NEW c \in Kids(n)
        PROVE  h[c] = g[c]
    <3>1. n \in Node /\ n \in Nat /\ n > k - (j + 1) /\ c \in Node /\ c \in Nat /\ n < c
      BY KidsType, Numbered
    <3>2. c \in From(j) /\ c \in From(j + 1)
      BY <3>1
    <3>. HIDE DEF From
    <3>3. g[c] = CASE Ending[c] = "mate" -> WhiteWon
                   [] Ending[c] \in {"stalemate", "rule"} -> Draw
                   [] OTHER -> -Max({g[d] : d \in Kids(c)})
      BY <2>1, <3>2
    <3>. QED BY <3>2, <3>3
  <2>3. \A n \in From(j + 1) : {h[c] : c \in Kids(n)} = {g[c] : c \in Kids(n)}
    <3>. HIDE DEF From, h
    <3>. QED BY <2>2
  <2>4. h = Def(h, From(j + 1))
    <3>1. \A n \in From(j + 1) : h[n] = Def(h, From(j + 1))[n]
      <4>. HIDE DEF From
      <4>. QED BY <2>3
    <3>2. h = [n \in From(j + 1) |-> h[n]]
      <4>. HIDE DEF From
      <4>. QED OBVIOUS
    <3>3. Def(h, From(j + 1)) = [n \in From(j + 1) |-> Def(h, From(j + 1))[n]]
      <4>. HIDE DEF From, h
      <4>. QED OBVIOUS
    <3>. HIDE DEF From, Def, h
    <3>. QED BY <3>1, <3>2, <3>3
  <2>. HIDE DEF h, Def, From
  <2>. QED BY <2>4
<1>4. Nat \subseteq P
  <2>. HIDE DEF P
  <2>. QED BY <1>2, <1>3, Counting
<1>5. \E g : g = Def(g, From(k + 1))
  <2>1. k + 1 \in P
    <3>. HIDE DEF P
    <3>. QED BY <1>4
  <2>. HIDE DEF Def, From
  <2>. QED BY <2>1
<1>6. From(k + 1) = Node
  BY <1>1, Numbered
<1>. DEFINE result == CHOOSE g : g = Def(g, Node)
<1>7. result = Def(result, Node)
  <2>. HIDE DEF Def, From
  <2>. QED BY <1>5, <1>6
<1>8. Truth = [n \in Node |-> result[n]]
  BY DEF Truth
<1>9. \A n \in Node :
        result[n] = CASE Ending[n] = "mate" -> WhiteWon
                      [] Ending[n] \in {"stalemate", "rule"} -> Draw
                      [] OTHER -> -Max({result[c] : c \in Kids(n)})
  <2>. HIDE DEF result
  <2>. QED BY <1>7
<1>10. \A n \in Node : Truth[n] = result[n]
  <2>. HIDE DEF result
  <2>. QED BY <1>8
<1>11. \A n \in Node : {result[c] : c \in Kids(n)} = {Truth[c] : c \in Kids(n)}
  <2>. HIDE DEF result
  <2>. QED BY <1>10, KidsType
<1>. HIDE DEF result
<1>. QED BY <1>9, <1>10, <1>11

(* Results are won, drawn or lost.                                            *)
LEMMA TruthType == \A n \in Node : Truth[n] \in Outcome
<1>. DEFINE P == {n \in Node : Truth[n] \in Outcome}
<1>1. ASSUME NEW n \in Node, \A m \in Node : n < m => m \in P
      PROVE  n \in P
  <2>1. CASE Ending[n] = "mate"
    <3>1. Truth[n] = WhiteWon
      BY <2>1, TruthUnfolds
    <3>. QED BY <3>1 DEF Outcome, WhiteWon, BlackWon
  <2>2. CASE Ending[n] \in {"stalemate", "rule"}
    <3>1. Truth[n] = Draw
      BY <2>2, TruthUnfolds
    <3>. QED BY <3>1 DEF Outcome, WhiteWon, BlackWon, Draw
  <2>3. CASE Ending[n] \notin {"mate", "stalemate", "rule"}
    <3>. DEFINE S == {Truth[c] : c \in Kids(n)}
    <3>1. S \in SUBSET Outcome
      BY <1>1, KidsType
    <3>2. S # {}
      <4>1. Kids(n) # {}
        BY <2>3, TreeAssumption
      <4>. QED BY <4>1
    <3>3. Max(S) \in Outcome
      <4>. HIDE DEF S
      <4>. QED BY <3>1, <3>2, MaxIs
    <3>4. Truth[n] = -Max(S)
      BY <2>3, TruthUnfolds
    <3>. HIDE DEF S
    <3>. QED BY <3>3, <3>4 DEF Outcome, WhiteWon, BlackWon
  <2>. QED BY <2>1, <2>2, <2>3
<1>2. Node \subseteq P
  <2>. HIDE DEF P
  <2>. QED BY <1>1, FromTheLeaves
<1>. QED BY <1>2

-----------------------------------------------------------------------------
(* Bounds on their way up the tree.                                        *)

(* A path of the model is a trail that begins at the root.                    *)
LEMMA PathIs == Subtree = Sub(root) /\ \A n : Path(n) = Trail(root, n)
BY DEF Subtree, Path, Ancestors, Sub, Trail

(* The statuses that a visit leaves behind: what is true of the statuses and *)
(* is kept by every single update of a parent is true of them.               *)
NextUp(n, x) == CHOOSE c \in Path(n) \ {root} : Parent[c] = x
Arrived(g, n, x) == IF x # n THEN g[NextUp(n, x)]
                    ELSE [go |-> status[n].term # "no" /\ visits[n] = 0, st |-> status]
Climbed(g, n, x) ==
  IF x # Top /\ Arrived(g, n, x).go /\ Parent[x] # root
       /\ Arrived(g, n, x).st[Parent[x]].term = "no"
    THEN MaybeSetBounds(Arrived(g, n, x).st, Parent[x])
    ELSE [Arrived(g, n, x) EXCEPT !.go = FALSE]

(* The recursive function of Climb obeys its definition.                      *)
LEMMA ClimbUnfolds ==
  ASSUME root \in Node, NEW n \in Subtree
  PROVE  \E up : /\ \A x \in Path(n) : up[x] = Climbed(up, n, x)
                 /\ Climb(n) = up[root].st
<1>. DEFINE Def(g, S) == [x \in S |-> Climbed(g, n, x)]
            From(j) == {x \in Path(n) : x > n - j}
            P == {j \in Nat : \E g : g = Def(g, From(j))}
<1>1. Path(n) \subseteq Node /\ n \in Node /\ n \in Path(n)
  BY PathIs, TrailIs
<1>2. \A x \in Path(n) : x \in Nat /\ x <= n
  <2>1. \A x \in Path(n) : x = n \/ x \in Above[n]
    BY DEF Path, Ancestors
  <2>. QED BY <1>1, <2>1, AboveType, Numbered
<1>3. ASSUME NEW x \in Path(n), x # n
      PROVE  NextUp(n, x) \in Path(n) /\ x < NextUp(n, x)
  <2>1. x \in Subtree
    BY <1>1, PathIs, TrailIs
  <2>2. PICK c \in Kids(x) : c \in Trail(root, n) /\ c # root
    BY <1>3, <2>1, PathIs, TrailKids
  <2>3. c \in Path(n) \ {root} /\ Parent[c] = x
    BY <1>1, <2>2, PathIs, KidsType
  <2>4. NextUp(n, x) \in Path(n) \ {root} /\ Parent[NextUp(n, x)] = x
    BY <2>3 DEF NextUp
  <2>5. NextUp(n, x) # Top
    <3>1. Top \in Path(n) => Top = root
      <4>1. Top \notin Below[root]
        BY BelowType
      <4>. QED BY <4>1, PathIs, TrailIs DEF Sub
    <3>. QED BY <2>4, <3>1
  <2>. QED BY <1>1, <2>4, <2>5, Numbered
<1>4. 0 \in P
  <2>. DEFINE g == [x \in {} |-> 0]
  <2>1. From(0) = {}
    BY <1>1, <1>2, Numbered
  <2>2. g = Def(g, {})
    OBVIOUS
  <2>. HIDE DEF Def, From, g
  <2>3. g = Def(g, From(0))
    BY <2>1, <2>2
  <2>. QED BY <2>3
<1>5. ASSUME NEW j \in Nat, j \in P
      PROVE  j + 1 \in P
  <2>1. PICK g : g = Def(g, From(j))
    <3>. HIDE DEF Def
    <3>. QED BY <1>5
  <2>. DEFINE h == Def(g, From(j + 1))
  <2>2. ASSUME NEW x \in From(j + 1), x # n
        PROVE  h[NextUp(n, x)] = g[NextUp(n, x)]
    <3>. DEFINE y == NextUp(n, x)
    <3>1. x \in Path(n) /\ x \in Nat /\ n \in Nat /\ x > n - (j + 1) /\ y \in Path(n) /\ y \in Nat /\ x < y
      BY <2>2, <1>1, <1>2, <1>3
    <3>2. y \in From(j) /\ y \in From(j + 1)
      <4>. HIDE DEF y
      <4>. QED BY <3>1
    <3>. HIDE DEF y, From
    <3>3. g[y] = Climbed(g, n, y)
      BY <2>1, <3>2
    <3>. QED BY <3>2, <3>3 DEF y
  <2>3. \A x \in From(j + 1) : Arrived(h, n, x) = Arrived(g, n, x)
    <3>. HIDE DEF From, h
    <3>. QED BY <2>2 DEF Arrived
  <2>4. \A x \in From(j + 1) : Climbed(h, n, x) = Climbed(g, n, x)
    <3>. HIDE DEF From, h
    <3>. QED BY <2>3 DEF Climbed
  <2>5. h = Def(h, From(j + 1))
    <3>1. h = [x \in From(j + 1) |-> Climbed(g, n, x)]
      OBVIOUS
    <3>2. Def(h, From(j + 1)) = [x \in From(j + 1) |-> Climbed(h, n, x)]
      OBVIOUS
    <3>. HIDE DEF From, Def, h
    <3>. QED BY <2>4, <3>1, <3>2
  <2>. HIDE DEF h, Def, From
  <2>. QED BY <2>5
<1>6. Nat \subseteq P
  <2>. HIDE DEF P
  <2>. QED BY <1>4, <1>5, Counting
<1>7. \E g : g = Def(g, From(n + 1))
  <2>1. n + 1 \in P
    <3>1. n + 1 \in Nat
      BY <1>1, Numbered
    <3>. HIDE DEF P
    <3>. QED BY <1>6, <3>1
  <2>. HIDE DEF Def, From
  <2>. QED BY <2>1
<1>8. From(n + 1) = Path(n)
  BY <1>1, <1>2, Numbered
<1>. DEFINE up == CHOOSE g : g = Def(g, Path(n))
<1>9. up = Def(up, Path(n))
  <2>. HIDE DEF Def, From
  <2>. QED BY <1>7, <1>8
<1>10. Climb(n) = up[root].st
  BY DEF Climb, Climbed, Arrived, NextUp
<1>11. \A x \in Path(n) : up[x] = Climbed(up, n, x)
  <2>. HIDE DEF up
  <2>. QED BY <1>9
<1>. HIDE DEF up
<1>. QED BY <1>10, <1>11

(* Whatever every step of a climb keeps is kept by all of it.                 *)
LEMMA ClimbKeeps ==
  ASSUME root \in Node, NEW n \in Subtree, NEW G, status \in G,
         \A x \in Path(n) \ {Top} : \A st \in G :
            Parent[x] # root /\ st[Parent[x]].term = "no" /\ (x = root => n = root)
               => MaybeSetBounds(st, Parent[x]).st \in G
  PROVE  Climb(n) \in G
<1>1. PICK up : /\ \A x \in Path(n) : up[x] = Climbed(up, n, x)
                /\ Climb(n) = up[root].st
  BY ClimbUnfolds
<1>2. Path(n) \subseteq Node /\ n \in Node /\ n \in Path(n) /\ root \in Path(n)
  BY PathIs, TrailIs
<1>. DEFINE Fine(s) == s \in [go : BOOLEAN, st : G]
<1>3. ASSUME NEW x \in Path(n), x # n
      PROVE  NextUp(n, x) \in Path(n) /\ x < NextUp(n, x) /\ Parent[NextUp(n, x)] = x
             /\ NextUp(n, x) # root /\ NextUp(n, x) # Top
  <2>1. x \in Subtree
    BY <1>2, PathIs, TrailIs
  <2>2. PICK c \in Kids(x) : c \in Trail(root, n) /\ c # root
    BY <1>3, <2>1, PathIs, TrailKids
  <2>3. c \in Path(n) \ {root} /\ Parent[c] = x
    BY <1>2, <2>2, PathIs, KidsType
  <2>4. NextUp(n, x) \in Path(n) \ {root} /\ Parent[NextUp(n, x)] = x
    BY <2>3 DEF NextUp
  <2>5. NextUp(n, x) # Top
    <3>1. Top \in Path(n) => Top = root
      <4>1. Top \notin Below[root]
        BY BelowType
      <4>. QED BY <4>1, PathIs, TrailIs DEF Sub
    <3>. QED BY <2>4, <3>1
  <2>. QED BY <1>2, <2>4, <2>5, Numbered
<1>4. ASSUME NEW s, NEW p
      PROVE  \E go \in BOOLEAN : \E st : MaybeSetBounds(s, p) = [go |-> go, st |-> st]
  BY DEF MaybeSetBounds
<1>. DEFINE Q == {x \in Node : x \in Path(n) =>
                     /\ Fine(up[x])
                     /\ up[x].go => (x # root /\ Parent[x] # root) \/ n = root}
<1>5. ASSUME NEW x \in Node, \A y \in Node : x < y => y \in Q
      PROVE  x \in Q
  <2>1. SUFFICES ASSUME x \in Path(n)
                 PROVE  /\ Fine(up[x])
                        /\ up[x].go => (x # root /\ Parent[x] # root) \/ n = root
    OBVIOUS
  <2>. DEFINE s == Arrived(up, n, x)
  <2>2. Fine(s) /\ (s.go /\ x = root => n = root)
    <3>1. CASE x = n
      <4>1. s = [go |-> status[n].term # "no" /\ visits[n] = 0, st |-> status]
        BY <3>1 DEF Arrived
      <4>2. (status[n].term # "no" /\ visits[n] = 0) \in BOOLEAN
        OBVIOUS
      <4>. QED BY <3>1, <4>1, <4>2
    <3>2. CASE x # n
      <4>1. s = up[NextUp(n, x)]
        BY <3>2 DEF Arrived
      <4>2. NextUp(n, x) \in Q /\ NextUp(n, x) \in Path(n) /\ Parent[NextUp(n, x)] = x
        BY <2>1, <3>2, <1>2, <1>3, <1>5
      <4>3. Fine(up[NextUp(n, x)])
        <5>. HIDE DEF Fine
        <5>. QED BY <4>2
      <4>4. up[NextUp(n, x)].go /\ x = root => n = root
        <5>. HIDE DEF Fine
        <5>. QED BY <4>2
      <4>. HIDE DEF Fine, s
      <4>. QED BY <4>1, <4>3, <4>4
    <3>. QED BY <3>1, <3>2
  <2>3. s \in [go : BOOLEAN, st : G]
    BY <2>2
  <2>5. up[x] = Climbed(up, n, x)
    BY <1>1, <2>1
  <2>6. CASE x # Top /\ s.go /\ Parent[x] # root /\ s.st[Parent[x]].term = "no"
    <3>1. up[x] = MaybeSetBounds(s.st, Parent[x])
      <4>. HIDE DEF Fine
      <4>. QED BY <2>5, <2>6 DEF Climbed
    <3>2. x = root => n = root
      BY <2>2, <2>6
    <3>3. MaybeSetBounds(s.st, Parent[x]).st \in G
      <4>1. s.st \in G
        BY <2>3
      <4>. HIDE DEF Fine, s
      <4>. QED BY <2>1, <2>6, <3>2, <4>1
    <3>0. PICK gg \in BOOLEAN : \E tt : MaybeSetBounds(s.st, Parent[x]) = [go |-> gg, st |-> tt]
      BY <1>4
    <3>4. PICK tt : MaybeSetBounds(s.st, Parent[x]) = [go |-> gg, st |-> tt]
      BY <3>0
    <3>5. tt \in G
      BY <3>3, <3>4
    <3>6. up[x] = [go |-> gg, st |-> tt]
      BY <3>1, <3>4
    <3>7. up[x] \in [go : BOOLEAN, st : G]
      BY <3>5, <3>6
    <3>. QED BY <3>2, <3>7, <2>6
  <2>7. CASE ~(x # Top /\ s.go /\ Parent[x] # root /\ s.st[Parent[x]].term = "no")
    <3>1. up[x] = [s EXCEPT !.go = FALSE]
      <4>. HIDE DEF Fine
      <4>. QED BY <2>5, <2>7 DEF Climbed
    <3>2. up[x] \in [go : BOOLEAN, st : G] /\ ~up[x].go
      <4>. HIDE DEF s
      <4>. QED BY <2>3, <3>1
    <3>. QED BY <3>2
  <2>. QED BY <2>6, <2>7
<1>6. Node \subseteq Q
  <2>. HIDE DEF Q
  <2>. QED BY <1>5, FromTheLeaves
<1>7. Fine(up[root])
  BY <1>2, <1>6
<1>. QED BY <1>1, <1>7

-----------------------------------------------------------------------------
(* The invariant, and the bags it speaks of.                               *)

(* The inductive invariant.  It speaks of bags of nodes: the visits that all  *)
(* workers hold, and everything that collides or is about to be picked.       *)
HeldBy(w, x)   == picked[w][x] + ready[w][x] + batch[w][x]
CollidesOf(w, x) == fresh[w][x] + collided[w][x]
Counted    == [x \in Node |-> Sum([w \in Worker |-> HeldBy(w, x)])]
Collisions == [x \in Node |-> todo[x] + shared[x] + Sum([w \in Worker |-> CollidesOf(w, x)])]
TwoFold(n) == status[n].term = "twofold"
DrawVisits  == [x \in Node |-> IF TwoFold(x) THEN visits[x] ELSE 0]
StaleVisits == [x \in Node |-> Stale(x)]

(* What is in flight at a node: the visits held at it and below it, and the   *)
(* collisions below it.                                                       *)
Load(h, c, n) == SumOver(h, {n} \cup Below[n]) + SumOver(c, Below[n])
Flow ==
  \A n \in Subtree :
    inFlight[n] = Load(Counted, Collisions, n) + (IF Leaf(n) THEN 0 ELSE todo[n])

(* Who holds nodes_mutex_, and which bags are empty when.                     *)
OneHolder ==
  \A w \in Worker : lock = w <=> phase[w] \in {"pick", "outoforder", "backup"}
EmptiedBy(w) ==
  /\ phase[w] \notin {"pick", "process"} => picked[w] = Nothing /\ fresh[w] = Nothing
  /\ phase[w] \notin {"process", "outoforder"} => ready[w] = Nothing
  /\ phase[w] = "idle" => batch[w] = Nothing
  /\ phase[w] \in {"idle", "compute", "backup"} => collided[w] = Nothing
  /\ phase[w] = "gather" => limit[w] = 0
Emptied ==
  /\ \A w \in Worker : EmptiedBy(w)
  /\ (\A w \in Worker : phase[w] # "pick") => todo = Nothing
LimitOf(w) ==
  /\ Sum(fresh[w]) + (IF phase[w] = "pick" THEN Sum(todo) ELSE 0) <= limit[w]
  /\ limit[w] <= left[w]
Limits == \A w \in Worker : LimitOf(w)
Pool == playouts + Sum(Counted) + Sum(todo) <= MaxPlayouts
Protocol == OneHolder /\ Emptied /\ Limits /\ Pool

(* A pick goes down the tree and does not come back to a collision.           *)
Picking ==
  /\ Due \subseteq Subtree
  /\ \A w \in Worker : phase[w] = "pick" =>
       \A x \in Node : fresh[w][x] > 0 => Due \cap ({x} \cup Above[x]) = {}

(* Visits are held at leaves of the search, one of each new leaf.             *)
HeldRight ==
  \A n \in Node : Counted[n] > 0 =>
    /\ n \in Subtree /\ Leaf(n)
    /\ visits[n] = 0 => Counted[n] = 1
    /\ TwoFold(n) => Depth(n) >= Cycle[n]

(* Nobody is, or has been, below a node without visits or a two-fold draw.    *)
Untouched ==
  \A n \in Subtree : visits[n] = 0 \/ TwoFold(n) =>
    \A x \in Below[n] : visits[x] = 0 /\ inFlight[x] = 0
TwoFoldHeld == \A n \in Subtree : TwoFold(n) /\ visits[n] = 0 => Counted[n] > 0

(* The edges of the tree: all or none, and all that lead to what was seen.    *)
Shape ==
  /\ ~TwoFold(root)
  /\ \A n \in Subtree : edges[n] \in {{}, Kids(n)}
  /\ \A n \in Subtree \ {root} : visits[n] > 0 \/ inFlight[n] > 0 => n \in edges[Parent[n]]
  /\ \A n \in Subtree \ {root} : Ending[n] = "rule" => edges[n] = {}
  /\ \A a \in ({root} \cup Above[root]) \ {Top} : a \in edges[Parent[a]]

(* The visits of two-fold draws are among those of the nodes above, and the   *)
(* visits of stale ones were there when the search began.                     *)
DrawsCounted ==
  \A n \in Subtree : visits[n] > 0 /\ ~TwoFold(n) =>
    visits[n] >= 1 + SumOver(DrawVisits, Below[n])
StaleCounted == SumOver(StaleVisits, Subtree) <= initial

Tree == HeldRight /\ Untouched /\ TwoFoldHeld /\ Shape
Numbers == VisitsAccounted /\ DrawsCounted /\ StaleCounted
IInv == TypeOK /\ Protocol /\ Flow /\ Tree /\ Numbers /\ BoundsAreTrue /\ Picking

(* The parts of the type invariant: of the tree, the bags, and the workers.   *)
TreeOK ==
  /\ root \in Node /\ initial \in Nat /\ playouts \in 0..MaxPlayouts /\ visits \in Bags
  /\ edges \in [Node -> SUBSET Node]
  /\ status \in [Node -> [term : {"no", "end", "twofold"}, lo : Outcome, up : Outcome]]
BagsOK ==
  /\ picked \in [Worker -> Bags] /\ ready \in [Worker -> Bags] /\ batch \in [Worker -> Bags]
  /\ fresh \in [Worker -> Bags] /\ collided \in [Worker -> Bags]
  /\ shared \in Bags /\ todo \in Bags
WorkersOK ==
  /\ lock \in Worker \cup {NoWorker}
  /\ phase \in [Worker -> {"idle", "pick", "process", "outoforder", "tally",
                           "gather", "compute", "backup"}]
  /\ left \in [Worker -> 0..MaxLimit] /\ limit \in [Worker -> 0..MaxLimit]
  /\ worked \in [Worker -> BOOLEAN]

LEMMA TypeParts ==
  /\ TypeOK <=> TreeOK /\ BagsOK /\ WorkersOK /\ inFlight \in Bags
  /\ TypeOK' <=> TreeOK' /\ BagsOK' /\ WorkersOK' /\ inFlight' \in Bags
BY DEF TypeOK, TreeOK, BagsOK, WorkersOK, Outcome

-----------------------------------------------------------------------------
(* Bags are functions to natural numbers, and told apart by their values.     *)
LEMMA BagFacts ==
  /\ Nothing \in Bags /\ \A n \in Node : Nothing[n] = 0
  /\ \A b \in Bags : b = [n \in Node |-> b[n]] /\ \A n \in Node : b[n] \in Nat
  /\ \A b \in Bags : DOMAIN b = Node
  /\ \A b \in Bags : (\A n \in Node : b[n] = 0) => b = Nothing
  /\ IsFiniteSet(Node) /\ IsFiniteSet(Worker)
<1>1. \A b \in Bags : b = [n \in Node |-> b[n]] /\ (\A n \in Node : b[n] \in Nat) /\ DOMAIN b = Node
  BY DEF Bags
<1>2. Nothing \in Bags /\ \A n \in Node : Nothing[n] = 0
  BY DEF Bags, Nothing
<1>3. ASSUME NEW b \in Bags, \A n \in Node : b[n] = 0 PROVE b = Nothing
  <2>1. b = [n \in Node |-> b[n]]
    BY <1>1
  <2>2. b = [n \in Node |-> 0]
    BY <1>3, <2>1
  <2>. QED BY <2>2 DEF Nothing
<1>. QED BY <1>1, <1>2, <1>3, TreeAssumption, WorkerAssumption

(* The bags of all workers together.                                          *)
Total(q) == [x \in Node |-> SumOver([w \in Worker |-> q[w][x]], Worker)]
HeldBags     == [w \in Worker |-> [x \in Node |-> HeldBy(w, x)]]
CollidedBags == [w \in Worker |-> [x \in Node |-> CollidesOf(w, x)]]

(* Counted and Collisions are the bags of all workers together.               *)
LEMMA CountedIs ==
  /\ Counted = Total(HeldBags)
  /\ Collisions = [x \in Node |-> todo[x] + shared[x] + Total(CollidedBags)[x]]
  /\ \A x \in Node : Counted[x] = Holding(x)
<1>1. Counted = Total(HeldBags)
  <2>1. \A x \in Node : [w \in Worker |-> HeldBags[w][x]] = [w \in Worker |-> HeldBy(w, x)]
    BY DEF HeldBags
  <2>. QED BY <2>1 DEF Counted, Total, Sum
<1>2. Collisions = [x \in Node |-> todo[x] + shared[x] + Total(CollidedBags)[x]]
  <2>1. \A x \in Node : [w \in Worker |-> CollidedBags[w][x]] = [w \in Worker |-> CollidesOf(w, x)]
    BY DEF CollidedBags
  <2>. QED BY <2>1 DEF Collisions, Total, Sum
<1>3. \A x \in Node : Counted[x] = Holding(x)
  BY DEF Counted, HeldBy, Holding
<1>. QED BY <1>1, <1>2, <1>3

LEMMA TotalType ==
  ASSUME NEW q \in [Worker -> Bags]
  PROVE  Total(q) \in Bags
<1>1. ASSUME NEW x \in Node
      PROVE  Total(q)[x] \in Nat
  <2>. DEFINE g == [v \in Worker |-> q[v][x]]
  <2>1. \A v \in Worker : g[v] \in Int /\ g[v] >= 0
    BY DEF Bags
  <2>2. SumOver(g, Worker) \in Int /\ SumOver(g, Worker) >= 0
    <3>. HIDE DEF g
    <3>. QED BY <2>1, WorkerAssumption, SumType
  <2>3. Total(q)[x] = SumOver(g, Worker)
    BY DEF Total
  <2>. HIDE DEF g
  <2>. QED BY <2>2, <2>3
<1>2. Total(q) = [x \in Node |-> Total(q)[x]]
  BY DEF Total
<1>. QED BY <1>1, <1>2 DEF Bags

(* One worker's bag changes: the total changes by as much.                    *)
LEMMA TotalStep ==
  ASSUME NEW q \in [Worker -> Bags], NEW s \in [Worker -> Bags], NEW w \in Worker,
         \A v \in Worker \ {w} : s[v] = q[v]
  PROVE  \A x \in Node : Total(s)[x] = Total(q)[x] + (s[w][x] - q[w][x])
<1>1. \A v \in Worker : \A x \in Node : q[v][x] \in Nat /\ s[v][x] \in Nat
  BY DEF Bags
<1>2. ASSUME NEW x \in Node
      PROVE  Total(s)[x] = Total(q)[x] + (s[w][x] - q[w][x])
  <2>. DEFINE g == [v \in Worker |-> q[v][x]]
              h == [v \in Worker |-> s[v][x]]
  <2>1. \A v \in Worker : g[v] \in Int /\ h[v] \in Int
    BY <1>1
  <2>2. \A v \in Worker \ {w} : h[v] = g[v]
    OBVIOUS
  <2>3. SumOver(h, Worker) = SumOver(g, Worker) + (h[w] - g[w])
    <3>. HIDE DEF g, h
    <3>. QED BY <2>1, <2>2, SumOne, WorkerAssumption
  <2>4. Total(q)[x] = SumOver(g, Worker) /\ Total(s)[x] = SumOver(h, Worker)
    BY DEF Total
  <2>5. h[w] = s[w][x] /\ g[w] = q[w][x]
    OBVIOUS
  <2>. HIDE DEF g, h
  <2>. QED BY <2>3, <2>4, <2>5
<1>. QED BY <1>2

(* Counted and Collisions are bags.                                           *)
LEMMA CountedType ==
  ASSUME BagsOK
  PROVE  /\ HeldBags \in [Worker -> Bags] /\ CollidedBags \in [Worker -> Bags]
         /\ Counted \in Bags /\ Collisions \in Bags
         /\ \A x \in Node : Collisions[x] = todo[x] + shared[x] + Total(CollidedBags)[x]
         /\ \A x \in Node : Total(CollidedBags)[x] \in Nat
<1>1. HeldBags \in [Worker -> Bags] /\ CollidedBags \in [Worker -> Bags]
  BY DEF BagsOK, Bags, HeldBags, CollidedBags, HeldBy, CollidesOf
<1>2. Total(HeldBags) \in Bags /\ Total(CollidedBags) \in Bags
  BY <1>1, TotalType
<1>3. \A x \in Node : todo[x] \in Nat /\ shared[x] \in Nat /\ Total(CollidedBags)[x] \in Nat
  BY <1>2, BagFacts DEF BagsOK
<1>4. Collisions \in Bags
  BY <1>3, CountedIs DEF Bags
<1>. QED BY <1>1, <1>2, <1>3, <1>4, CountedIs

(* A load is a number, and not less than any of its parts.                    *)
LEMMA LoadNat ==
  ASSUME NEW h \in Bags, NEW c \in Bags, NEW n \in Node
  PROVE  /\ Load(h, c, n) \in Nat
         /\ \A x \in {n} \cup Below[n] : h[x] <= Load(h, c, n)
         /\ \A x \in Below[n] : c[x] <= Load(h, c, n)
<1>1. \A x \in Node : h[x] \in Nat /\ c[x] \in Nat
  BY BagFacts
<1>2. IsFiniteSet({n} \cup Below[n]) /\ IsFiniteSet(Below[n]) /\ {n} \cup Below[n] \subseteq Node
  BY BelowType
<1>3. SumOver(h, {n} \cup Below[n]) \in Int /\ SumOver(h, {n} \cup Below[n]) >= 0
  BY <1>1, <1>2, SumType
<1>4. SumOver(c, Below[n]) \in Int /\ SumOver(c, Below[n]) >= 0
  BY <1>1, <1>2, SumType
<1>5. \A x \in {n} \cup Below[n] : h[x] <= SumOver(h, {n} \cup Below[n])
  BY <1>1, <1>2, SumAtLeast
<1>6. \A x \in Below[n] : c[x] <= SumOver(c, Below[n])
  BY <1>1, <1>2, SumAtLeast
<1>. DEFINE a == SumOver(h, {n} \cup Below[n])
            b == SumOver(c, Below[n])
<1>7. Load(h, c, n) = a + b
  BY DEF Load
<1>8. a \in Nat /\ b \in Nat
  BY <1>3, <1>4
<1>9. (\A x \in {n} \cup Below[n] : h[x] <= a) /\ (\A x \in Below[n] : c[x] <= b)
  BY <1>5, <1>6
<1>. HIDE DEF a, b
<1>10. ASSUME NEW x \in {n} \cup Below[n] PROVE h[x] <= a + b
  BY <1>1, <1>2, <1>8, <1>9
<1>11. ASSUME NEW x \in Below[n] PROVE c[x] <= a + b
  BY <1>1, <1>2, <1>8, <1>9
<1>. QED BY <1>7, <1>8, <1>10, <1>11

(* One node holds more, or fewer; one node collides more; all collide more.   *)
LEMMA LoadHeld ==
  ASSUME NEW h \in Bags, NEW h2 \in Bags, NEW c \in Bags, NEW n \in Node, NEW y \in Node,
         \A x \in Node \ {y} : h2[x] = h[x]
  PROVE  Load(h2, c, n) = Load(h, c, n)
                            + (IF y \in {n} \cup Below[n] THEN h2[y] - h[y] ELSE 0)
<1>1. \A x \in Node : h[x] \in Nat /\ h2[x] \in Nat /\ c[x] \in Nat
  BY BagFacts
<1>. DEFINE S == {n} \cup Below[n]
<1>2. IsFiniteSet(S) /\ S \subseteq Node /\ IsFiniteSet(Below[n]) /\ Below[n] \subseteq Node
  BY BelowType
<1>. DEFINE a == SumOver(h, S)
            a2 == SumOver(h2, S)
            b == SumOver(c, Below[n])
<1>3. a \in Int /\ a2 \in Int /\ b \in Int
  <2>. HIDE DEF S
  <2>. QED BY <1>1, <1>2, SumType
<1>4. Load(h, c, n) = a + b /\ Load(h2, c, n) = a2 + b
  BY DEF Load
<1>5. a2 = a + (IF y \in S THEN h2[y] - h[y] ELSE 0)
  <2>1. \A x \in S : h[x] \in Int /\ h2[x] \in Int
    BY <1>1, <1>2
  <2>2. \A x \in S \ {y} : h2[x] = h[x]
    BY <1>2
  <2>. HIDE DEF S
  <2>. QED BY <1>2, <2>1, <2>2, SumChange
<1>6. h2[y] - h[y] \in Int
  BY <1>1
<1>. HIDE DEF a, a2, b
<1>. QED BY <1>3, <1>4, <1>5, <1>6

LEMMA LoadCollides ==
  ASSUME NEW h \in Bags, NEW c \in Bags, NEW c2 \in Bags, NEW n \in Node, NEW y \in Node,
         \A x \in Node \ {y} : c2[x] = c[x]
  PROVE  Load(h, c2, n) = Load(h, c, n) + (IF y \in Below[n] THEN c2[y] - c[y] ELSE 0)
<1>1. \A x \in Node : h[x] \in Nat /\ c2[x] \in Nat /\ c[x] \in Nat
  BY BagFacts
<1>. DEFINE S == {n} \cup Below[n]
            B == Below[n]
<1>2. IsFiniteSet(S) /\ S \subseteq Node /\ IsFiniteSet(B) /\ B \subseteq Node
  BY BelowType
<1>. DEFINE a == SumOver(h, S)
            b2 == SumOver(c2, B)
            b == SumOver(c, B)
<1>3. a \in Int /\ b2 \in Int /\ b \in Int
  <2>. HIDE DEF S, B
  <2>. QED BY <1>1, <1>2, SumType
<1>4. Load(h, c, n) = a + b /\ Load(h, c2, n) = a + b2
  BY DEF Load
<1>5. b2 = b + (IF y \in B THEN c2[y] - c[y] ELSE 0)
  <2>1. \A x \in B : c[x] \in Int /\ c2[x] \in Int
    BY <1>1, <1>2
  <2>2. \A x \in B \ {y} : c2[x] = c[x]
    BY <1>2
  <2>. HIDE DEF B
  <2>. QED BY <1>2, <2>1, <2>2, SumChange
<1>6. c2[y] - c[y] \in Int
  BY <1>1
<1>. HIDE DEF a, b2, b
<1>. QED BY <1>3, <1>4, <1>5, <1>6

LEMMA LoadMore ==
  ASSUME NEW h \in Bags, NEW c \in Bags, NEW c2 \in Bags, NEW n \in Node, NEW d,
         \A x \in Node : d[x] \in Int /\ c2[x] = c[x] + d[x]
  PROVE  /\ Load(h, c2, n) = Load(h, c, n) + SumOver(d, Below[n])
         /\ SumOver(d, Below[n]) \in Int
<1>1. \A x \in Node : h[x] \in Nat /\ c2[x] \in Nat /\ c[x] \in Nat
  BY BagFacts
<1>. DEFINE S == {n} \cup Below[n]
            B == Below[n]
<1>2. IsFiniteSet(S) /\ S \subseteq Node /\ IsFiniteSet(B) /\ B \subseteq Node
  BY BelowType
<1>. DEFINE a == SumOver(h, S)
            b2 == SumOver(c2, B)
            b == SumOver(c, B)
            e == SumOver(d, B)
<1>3. a \in Int /\ b2 \in Int /\ b \in Int /\ e \in Int
  <2>. HIDE DEF S, B
  <2>. QED BY <1>1, <1>2, SumType
<1>4. Load(h, c, n) = a + b /\ Load(h, c2, n) = a + b2
  BY DEF Load
<1>5. b2 = b + e
  <2>. HIDE DEF B
  <2>. QED BY <1>1, <1>2, SumLinear
<1>6. SumOver(d, Below[n]) = e
  OBVIOUS
<1>. HIDE DEF a, b2, b, e
<1>. QED BY <1>3, <1>4, <1>5, <1>6

-----------------------------------------------------------------------------
(* What is in flight, as the property of the model says it.                   *)
LEMMA HeldIs ==
  ASSUME NEW b \in Bags, NEW n \in Subtree, root \in Node
  PROVE  /\ Held(b, n) = SumOver(b, Below[n]) /\ Held(b, n) \in Nat
         /\ n \in Node
<1>1. n \in Node
  BY PathIs, TrailIs
<1>2. IsFiniteSet(Below[n]) /\ Below[n] \subseteq Node
  BY <1>1, BelowType
<1>3. \A x \in Node : b[x] \in Nat
  BY BagFacts
<1>4. SumOver(b, Below[n]) \in Int /\ SumOver(b, Below[n]) >= 0
  BY <1>2, <1>3, SumType
<1>5. b = Nothing => SumOver(b, Below[n]) = 0
  <2>1. b = Nothing => \A x \in Below[n] : b[x] = 0
    BY <1>2, BagFacts
  <2>. QED BY <1>2, <2>1, SumZero
<1>6. Held(b, n) = SumOver(b, Below[n])
  BY <1>5 DEF Held
<1>. QED BY <1>1, <1>4, <1>6

(* The invariant says what the property says, in other sums.                  *)
LEMMA FlowAccounts ==
  ASSUME root \in Node, BagsOK, Flow
  PROVE  InFlightAccounted
<1>1. /\ root \in Node /\ fresh \in [Worker -> Bags] /\ collided \in [Worker -> Bags]
      /\ todo \in Bags /\ shared \in Bags
  BY DEF BagsOK
<1>2. SUFFICES ASSUME NEW n \in Subtree
      PROVE  inFlight[n] = SumOver([x \in Node |-> Holding(x)], {n} \cup Below[n])
                + Held(todo, n) + (IF Leaf(n) THEN 0 ELSE todo[n])
                + Held(shared, n)
                + Sum([w \in Worker |-> Held(fresh[w], n) + Held(collided[w], n)])
  BY DEF InFlightAccounted
<1>. DEFINE B == Below[n]
<1>3. n \in Node /\ IsFiniteSet(B) /\ B \subseteq Node /\ IsFiniteSet(Worker)
  BY <1>1, PathIs, TrailIs, BelowType, BagFacts
<1>. DEFINE q == [w \in Worker |-> [x \in Node |-> fresh[w][x] + collided[w][x]]]
            R == Total(CollidedBags)
<1>0. R \in Bags /\ q = CollidedBags
  <2>1. R \in Bags
    BY CountedType, TotalType
  <2>2. q = CollidedBags
    BY DEF CollidedBags, CollidesOf
  <2>. QED BY <2>1, <2>2
<1>4. \A w \in Worker : \A x \in B : q[w][x] \in Int /\ fresh[w][x] \in Int /\ collided[w][x] \in Int
  <2>1. \A w \in Worker : \A x \in Node : fresh[w][x] \in Nat /\ collided[w][x] \in Nat
    BY <1>1 DEF Bags
  <2>. QED BY <1>3, <2>1
<1>5. SumOver([w \in Worker |-> SumOver(q[w], B)], Worker)
        = SumOver([x \in B |-> SumOver([w \in Worker |-> q[w][x]], Worker)], B)
  <2>. HIDE DEF q, B
  <2>. QED BY <1>3, <1>4, SumExchange
<1>6. SumOver([x \in B |-> SumOver([w \in Worker |-> q[w][x]], Worker)], B) = SumOver(R, B)
  <2>. DEFINE g == [x \in B |-> SumOver([w \in Worker |-> q[w][x]], Worker)]
  <2>2. ASSUME NEW x \in B PROVE g[x] = R[x] /\ R[x] \in Int
    <3>1. x \in Node
      BY <1>3
    <3>3. R[x] = SumOver([w \in Worker |-> q[w][x]], Worker)
      <4>. HIDE DEF q
      <4>. QED BY <3>1, <1>0 DEF Total
    <3>4. g[x] = SumOver([w \in Worker |-> q[w][x]], Worker)
      OBVIOUS
    <3>5. R[x] \in Nat
      <4>. HIDE DEF R, q
      <4>. QED BY <1>0, <3>1, BagFacts
    <3>. HIDE DEF q, R, g
    <3>. QED BY <3>3, <3>4, <3>5
  <2>. HIDE DEF g, R, B, q
  <2>3. SumOver(g, B) = SumOver(R, B)
    BY <2>2, <1>3, SumSame
  <2>. QED BY <2>3 DEF g
<1>7. Sum([w \in Worker |-> Held(fresh[w], n) + Held(collided[w], n)])
        = SumOver([w \in Worker |-> SumOver(q[w], B)], Worker)
  <2>1. ASSUME NEW w \in Worker
        PROVE  SumOver(q[w], B) = Held(fresh[w], n) + Held(collided[w], n)
    <3>1. fresh[w] \in Bags /\ collided[w] \in Bags
      BY <1>1
    <3>2. \A x \in B : q[w][x] = fresh[w][x] + collided[w][x]
      BY <1>3
    <3>3. SumOver(q[w], B) = SumOver(fresh[w], B) + SumOver(collided[w], B)
      <4>. HIDE DEF q, B
      <4>. QED BY <1>3, <1>4, <3>2, SumLinear
    <3>4. Held(fresh[w], n) = SumOver(fresh[w], B) /\ Held(collided[w], n) = SumOver(collided[w], B)
      BY <1>1, <3>1, HeldIs
    <3>. HIDE DEF q, B
    <3>. QED BY <3>3, <3>4
  <2>2. [w \in Worker |-> Held(fresh[w], n) + Held(collided[w], n)]
          = [w \in Worker |-> SumOver(q[w], B)]
    <3>. HIDE DEF q, B
    <3>. QED BY <2>1
  <2>. QED BY <2>2 DEF Sum
<1>8. SumOver(Collisions, B) = SumOver(todo, B) + SumOver(shared, B) + SumOver(R, B)
      /\ SumOver(todo, B) \in Int /\ SumOver(shared, B) \in Int /\ SumOver(R, B) \in Int
  <2>. HIDE DEF R, B, q
  <2>2. \A x \in B : todo[x] \in Int /\ shared[x] \in Int /\ R[x] \in Int
    BY <1>0, <1>1, <1>3, BagFacts
  <2>. DEFINE g == [x \in B |-> todo[x] + shared[x]]
  <2>3. \A x \in B : g[x] \in Int /\ g[x] = todo[x] + shared[x]
    BY <2>2
  <2>4. \A x \in B : Collisions[x] = g[x] + R[x]
    BY <1>3, <2>3, CountedType DEF R
  <2>. HIDE DEF g
  <2>5. SumOver(g, B) = SumOver(todo, B) + SumOver(shared, B)
    BY <1>3, <2>2, <2>3, SumLinear
  <2>6. SumOver(Collisions, B) = SumOver(g, B) + SumOver(R, B)
    BY <1>3, <2>2, <2>3, <2>4, SumLinear
  <2>7. SumOver(todo, B) \in Int /\ SumOver(shared, B) \in Int /\ SumOver(R, B) \in Int
    BY <1>3, <2>2, SumType
  <2>. QED BY <2>5, <2>6, <2>7
<1>9. SumOver(Counted, {n} \cup Below[n]) = SumOver([x \in Node |-> Holding(x)], {n} \cup Below[n])
  <2>1. Counted = [x \in Node |-> Holding(x)]
    BY DEF Counted, HeldBy, Holding
  <2>. QED BY <2>1
<1>10. inFlight[n] = SumOver(Counted, {n} \cup Below[n]) + SumOver(Collisions, Below[n])
         + (IF Leaf(n) THEN 0 ELSE todo[n])
  BY DEF Flow, Load
<1>11. Held(todo, n) = SumOver(todo, B) /\ Held(shared, n) = SumOver(shared, B)
  BY <1>1, HeldIs
<1>12. SumOver(Counted, {n} \cup Below[n]) \in Int
  <2>1. \A x \in Node : Counted[x] \in Int
    BY CountedType, BagFacts
  <2>. QED BY <1>3, <2>1, BelowType, SumType
<1>13. (IF Leaf(n) THEN 0 ELSE todo[n]) \in Int
  BY <1>1, <1>3, BagFacts
<1>. DEFINE h == SumOver(Counted, {n} \cup Below[n])
            t == SumOver(todo, B)
            s == SumOver(shared, B)
            r == SumOver(R, B)
            l == IF Leaf(n) THEN 0 ELSE todo[n]
<1>14. /\ h \in Int /\ t \in Int /\ s \in Int /\ r \in Int /\ l \in Int
       /\ inFlight[n] = h + (t + s + r) + l
  BY <1>8, <1>10, <1>12, <1>13
<1>15. /\ SumOver([x \in Node |-> Holding(x)], {n} \cup Below[n]) = h
       /\ Held(todo, n) = t /\ Held(shared, n) = s
       /\ Sum([w \in Worker |-> Held(fresh[w], n) + Held(collided[w], n)]) = r
       /\ (IF Leaf(n) THEN 0 ELSE todo[n]) = l
  BY <1>5, <1>6, <1>7, <1>9, <1>11
<1>. HIDE DEF h, t, s, r, l
<1>16. h + (t + s + r) + l = h + t + l + s + r
  BY <1>14
<1>. QED BY <1>14, <1>15, <1>16

-----------------------------------------------------------------------------
(* A step of one worker.                                                   *)

(* A step of one worker, seen through the bags of all.                        *)
LEMMA CountedNext ==
  /\ Counted' = Total(HeldBags')
  /\ Collisions' = [x \in Node |-> todo'[x] + shared'[x] + Total(CollidedBags')[x]]
<1>1. Counted' = Total(HeldBags')
  <2>1. \A x \in Node : [w \in Worker |-> HeldBags'[w][x]] = [w \in Worker |-> HeldBy(w, x)']
    BY DEF HeldBags
  <2>. QED BY <2>1 DEF Counted, Total, Sum
<1>2. Collisions' = [x \in Node |-> todo'[x] + shared'[x] + Total(CollidedBags')[x]]
  <2>1. \A x \in Node : [w \in Worker |-> CollidedBags'[w][x]] = [w \in Worker |-> CollidesOf(w, x)']
    BY DEF CollidedBags
  <2>. QED BY <2>1 DEF Collisions, Total, Sum
<1>. QED BY <1>1, <1>2

LEMMA CountedTypeNext ==
  ASSUME BagsOK'
  PROVE  /\ HeldBags' \in [Worker -> Bags] /\ CollidedBags' \in [Worker -> Bags]
         /\ Counted' \in Bags /\ Collisions' \in Bags
         /\ \A x \in Node : Collisions'[x] = todo'[x] + shared'[x] + Total(CollidedBags')[x]
         /\ \A x \in Node : Total(CollidedBags')[x] \in Nat
<1>1. HeldBags' \in [Worker -> Bags] /\ CollidedBags' \in [Worker -> Bags]
  BY DEF BagsOK, Bags, HeldBags, CollidedBags, HeldBy, CollidesOf
<1>2. Total(HeldBags') \in Bags /\ Total(CollidedBags') \in Bags
  BY <1>1, TotalType
<1>3. \A x \in Node : todo'[x] \in Nat /\ shared'[x] \in Nat /\ Total(CollidedBags')[x] \in Nat
  BY <1>2, BagFacts DEF BagsOK
<1>4. Collisions' \in Bags
  BY <1>3, CountedNext DEF Bags
<1>. QED BY <1>1, <1>2, <1>3, <1>4, CountedNext

OthersRest(w) ==
  \A v \in Worker \ {w} :
    /\ phase'[v] = phase[v] /\ limit'[v] = limit[v] /\ left'[v] = left[v]
    /\ picked'[v] = picked[v] /\ ready'[v] = ready[v] /\ batch'[v] = batch[v]
    /\ fresh'[v] = fresh[v] /\ collided'[v] = collided[v]

(* One worker's step changes the totals by what it changes in its own bags.   *)
LEMMA WorkerStep ==
  ASSUME BagsOK, BagsOK', NEW w \in Worker, OthersRest(w)
  PROVE  /\ \A x \in Node : Counted'[x]
              = Counted[x] + ((picked'[w][x] + ready'[w][x] + batch'[w][x])
                                - (picked[w][x] + ready[w][x] + batch[w][x]))
         /\ \A x \in Node : Collisions'[x]
              = Collisions[x] + ((todo'[x] + shared'[x] + fresh'[w][x] + collided'[w][x])
                                   - (todo[x] + shared[x] + fresh[w][x] + collided[w][x]))
<1>1. /\ HeldBags \in [Worker -> Bags] /\ CollidedBags \in [Worker -> Bags]
      /\ HeldBags' \in [Worker -> Bags] /\ CollidedBags' \in [Worker -> Bags]
  BY CountedType, CountedTypeNext
<1>2. \A v \in Worker \ {w} : HeldBags'[v] = HeldBags[v] /\ CollidedBags'[v] = CollidedBags[v]
  BY DEF HeldBags, CollidedBags, HeldBy, CollidesOf, OthersRest
<1>3. \A x \in Node : Total(HeldBags')[x] = Total(HeldBags)[x] + (HeldBags'[w][x] - HeldBags[w][x])
  BY <1>1, <1>2, TotalStep
<1>4. \A x \in Node : Total(CollidedBags')[x]
                        = Total(CollidedBags)[x] + (CollidedBags'[w][x] - CollidedBags[w][x])
  BY <1>1, <1>2, TotalStep
<1>5. \A x \in Node : /\ HeldBags[w][x] = picked[w][x] + ready[w][x] + batch[w][x]
                      /\ HeldBags'[w][x] = picked'[w][x] + ready'[w][x] + batch'[w][x]
                      /\ CollidedBags[w][x] = fresh[w][x] + collided[w][x]
                      /\ CollidedBags'[w][x] = fresh'[w][x] + collided'[w][x]
  BY DEF HeldBags, CollidedBags, HeldBy, CollidesOf
<1>6. ASSUME NEW x \in Node
      PROVE  Collisions'[x]
              = Collisions[x] + ((todo'[x] + shared'[x] + fresh'[w][x] + collided'[w][x])
                                   - (todo[x] + shared[x] + fresh[w][x] + collided[w][x]))
  <2>1. /\ Collisions[x] = todo[x] + shared[x] + Total(CollidedBags)[x]
        /\ Total(CollidedBags)[x] \in Nat
    BY CountedType
  <2>2. /\ Collisions'[x] = todo'[x] + shared'[x] + Total(CollidedBags')[x]
        /\ Total(CollidedBags')[x] \in Nat
    BY CountedTypeNext
  <2>3. /\ todo[x] \in Nat /\ shared[x] \in Nat /\ todo'[x] \in Nat /\ shared'[x] \in Nat
    BY BagFacts DEF BagsOK
  <2>4. /\ fresh[w] \in Bags /\ collided[w] \in Bags /\ fresh'[w] \in Bags /\ collided'[w] \in Bags
    BY DEF BagsOK
  <2>5. /\ fresh[w][x] \in Nat /\ collided[w][x] \in Nat
        /\ fresh'[w][x] \in Nat /\ collided'[w][x] \in Nat
    BY <2>4, BagFacts
  <2>6. Total(CollidedBags')[x] = Total(CollidedBags)[x]
          + ((fresh'[w][x] + collided'[w][x]) - (fresh[w][x] + collided[w][x]))
    BY <1>4, <1>5
  <2>. QED BY <2>1, <2>2, <2>3, <2>5, <2>6
<1>. QED BY <1>3, <1>5, <1>6, CountedIs, CountedNext

(* What the flow accounts for is a natural number.                            *)
LEMMA InFlightNext ==
  ASSUME root' \in Node, BagsOK', Flow', NEW n \in Subtree'
  PROVE  inFlight'[n] \in Nat /\ n \in Node
<1>1. Subtree' = Sub(root')
  BY DEF Subtree, Sub
<1>2. n \in Node
  BY <1>1, TrailIs
<1>3. inFlight'[n] = Load(Counted', Collisions', n) + (IF Leaf(n)' THEN 0 ELSE todo'[n])
  BY DEF Flow, Load
<1>4. Load(Counted', Collisions', n) \in Nat
  BY <1>2, CountedTypeNext, LoadNat
<1>5. todo'[n] \in Nat
  BY <1>2, BagFacts DEF BagsOK
<1>. QED BY <1>2, <1>3, <1>4, <1>5

LEMMA SumBag ==
  ASSUME NEW b \in Bags
  PROVE  /\ Sum(b) = SumOver(b, Node) /\ Sum(b) \in Nat
         /\ \A x \in Node : b[x] <= Sum(b)
         /\ b = Nothing => Sum(b) = 0
<1>1. Sum(b) = SumOver(b, Node)
  BY BagFacts DEF Sum
<1>2. \A x \in Node : b[x] \in Nat
  BY BagFacts
<1>3. SumOver(b, Node) \in Int /\ SumOver(b, Node) >= 0
  BY <1>2, BagFacts, SumType
<1>4. \A x \in Node : b[x] <= SumOver(b, Node)
  BY <1>2, BagFacts, SumAtLeast
<1>5. b = Nothing => SumOver(b, Node) = 0
  BY BagFacts, SumZero
<1>. QED BY <1>1, <1>3, <1>4, <1>5

(* A tree at rest: nothing of it changes, and where nothing was in flight     *)
(* nothing is.                                                                *)
LEMMA TreeRests ==
  ASSUME Tree, Numbers, BoundsAreTrue, UNCHANGED treeVars, HeldRight',
         \A n \in Subtree : Counted[n] > 0 => Counted'[n] > 0,
         \A n \in Subtree \ {root} : inFlight[n] = 0 => inFlight'[n] = 0,
         root \in Node, inFlight' \in Bags, inFlight \in Bags
  PROVE  Tree' /\ Numbers' /\ BoundsAreTrue'
<1>1. /\ root' = root /\ initial' = initial /\ playouts' = playouts /\ visits' = visits
      /\ edges' = edges /\ status' = status
  BY DEF treeVars
<1>2. Subtree' = Subtree /\ \A n : Depth(n)' = Depth(n) /\ (Leaf(n)' <=> Leaf(n))
                               /\ (TwoFold(n)' <=> TwoFold(n)) /\ Stale(n)' = Stale(n)
  BY <1>1 DEF Subtree, Depth, Ancestors, Leaf, TwoFold, Stale
<1>4. Untouched'
  <2>1. \A n \in Subtree : \A x \in Below[n] : x \in Subtree \ {root}
    <3>1. \A n \in Subtree : n \in Node /\ Below[n] \subseteq Subtree /\ (n = root \/ root < n)
      BY PathIs, TrailIs, BelowType DEF Sub
    <3>2. \A n \in Subtree : root \notin Below[n]
      <4>1. \A n \in Subtree : root \in Below[n] => n < root
        BY <3>1, BelowType
      <4>. QED BY <3>1, <4>1, Numbered
    <3>. QED BY <3>1, <3>2
  <2>. QED BY <1>1, <1>2, <2>1 DEF Tree, Untouched
<1>5. TwoFoldHeld'
  BY <1>1, <1>2 DEF Tree, TwoFoldHeld
<1>6. Shape'
  <2>1. \A n \in Subtree \ {root} : inFlight'[n] > 0 => inFlight[n] > 0
    <3>1. \A n \in Subtree : n \in Node
      BY PathIs, TrailIs
    <3>2. \A n \in Node : inFlight[n] \in Nat /\ inFlight'[n] \in Nat
      BY BagFacts
    <3>. QED BY <3>1, <3>2
  <2>. QED BY <1>1, <1>2, <2>1 DEF Tree, Shape
<1>7. Numbers'
  <2>1. VisitsAccounted'
    BY <1>1, <1>2 DEF Numbers, VisitsAccounted
  <2>2. DrawVisits' = DrawVisits /\ StaleVisits' = StaleVisits
    BY <1>1, <1>2 DEF DrawVisits, StaleVisits
  <2>3. DrawsCounted'
    BY <1>1, <1>2, <2>2 DEF Numbers, DrawsCounted
  <2>4. StaleCounted'
    BY <1>1, <1>2, <2>2 DEF Numbers, StaleCounted
  <2>. QED BY <2>1, <2>3, <2>4 DEF Numbers
<1>8. BoundsAreTrue'
  BY <1>1, <1>2 DEF BoundsAreTrue
<1>. QED BY <1>4, <1>5, <1>6, <1>7, <1>8 DEF Tree

(* The flow holds as long as the bags and the tree do not change.             *)
LEMMA FlowRests ==
  ASSUME Flow, UNCHANGED treeVars, inFlight' = inFlight, Counted' = Counted,
         Collisions' = Collisions, \A n \in Subtree : ~Leaf(n) => todo'[n] = todo[n]
  PROVE  Flow'
<1>1. root' = root /\ visits' = visits /\ status' = status
  BY DEF treeVars
<1>2. Subtree' = Subtree /\ \A n : Leaf(n)' <=> Leaf(n)
  BY <1>1 DEF Subtree, Leaf
<1>. QED BY <1>2 DEF Flow, Load

LEMMA BagsEqual ==
  ASSUME NEW b \in Bags, NEW c \in Bags, \A x \in Node : b[x] = c[x]
  PROVE  b = c
BY BagFacts

(* A step of one worker: the lock changes hands by it, if at all.             *)
LEMMA ProtocolStep ==
  ASSUME NEW w \in Worker, OneHolder, Emptied, Limits, OthersRest(w),
         \/ lock' = lock
         \/ lock = NoWorker /\ lock' = w
         \/ lock = w /\ lock' = NoWorker,
         lock' = w <=> phase'[w] \in {"pick", "outoforder", "backup"},
         EmptiedBy(w)', LimitOf(w)',
         lock \notin {w, NoWorker} => todo' = todo,
         phase'[w] # "pick" => todo' = Nothing \/ (todo' = todo /\ phase[w] # "pick")
  PROVE  OneHolder' /\ Emptied' /\ Limits'
<1>. USE DEF OthersRest
<1>1. NoWorker \notin Worker
  BY WorkerAssumption
<1>2. OneHolder'
  BY <1>1 DEF OneHolder
<1>3. \A v \in Worker \ {w} : EmptiedBy(v)'
  BY DEF Emptied, EmptiedBy
<1>4. (\A v \in Worker : phase'[v] # "pick") => todo' = Nothing
  <2>1. ASSUME \A v \in Worker : phase'[v] # "pick" PROVE todo' = Nothing
    <3>1. CASE todo' = todo /\ phase[w] # "pick"
      <4>1. \A v \in Worker : phase[v] # "pick"
        BY <2>1, <3>1
      <4>. QED BY <3>1, <4>1 DEF Emptied
    <3>. QED BY <2>1, <3>1
  <2>. QED BY <2>1
<1>5. \A v \in Worker \ {w} : LimitOf(v)'
  <2>1. \A v \in Worker \ {w} : phase[v] = "pick" => todo' = todo
    BY <1>1 DEF OneHolder
  <2>. QED BY <2>1 DEF Limits, LimitOf
<1>6. Emptied'
  BY <1>3, <1>4 DEF Emptied
<1>7. Limits'
  BY <1>5 DEF Limits
<1>. QED BY <1>2, <1>6, <1>7

-----------------------------------------------------------------------------
(* What one worker holds at a node is part of what all hold.                  *)
LEMMA PartOf ==
  ASSUME BagsOK, NEW w \in Worker, NEW x \in Node
  PROVE  /\ picked[w][x] \in Nat /\ ready[w][x] \in Nat /\ batch[w][x] \in Nat
         /\ fresh[w][x] \in Nat /\ collided[w][x] \in Nat
         /\ todo[x] \in Nat /\ shared[x] \in Nat
         /\ Counted[x] \in Nat /\ Collisions[x] \in Nat
         /\ picked[w][x] + ready[w][x] + batch[w][x] <= Counted[x]
         /\ todo[x] + shared[x] + fresh[w][x] + collided[w][x] <= Collisions[x]
<1>1. /\ picked[w] \in Bags /\ ready[w] \in Bags /\ batch[w] \in Bags
      /\ fresh[w] \in Bags /\ collided[w] \in Bags /\ todo \in Bags /\ shared \in Bags
  BY DEF BagsOK
<1>2. /\ picked[w][x] \in Nat /\ ready[w][x] \in Nat /\ batch[w][x] \in Nat
      /\ fresh[w][x] \in Nat /\ collided[w][x] \in Nat
      /\ todo[x] \in Nat /\ shared[x] \in Nat
  BY <1>1, BagFacts
<1>3. Counted[x] \in Nat /\ Collisions[x] \in Nat /\ Total(CollidedBags)[x] \in Nat
      /\ Collisions[x] = todo[x] + shared[x] + Total(CollidedBags)[x]
  BY CountedType, BagFacts
<1>4. HeldBags \in [Worker -> Bags] /\ CollidedBags \in [Worker -> Bags]
  BY CountedType
<1>. DEFINE g == [v \in Worker |-> HeldBags[v][x]]
            h == [v \in Worker |-> CollidedBags[v][x]]
<1>5. \A v \in Worker : g[v] \in Nat /\ h[v] \in Nat
  BY <1>4 DEF Bags
<1>6. g[w] = picked[w][x] + ready[w][x] + batch[w][x]
      /\ h[w] = fresh[w][x] + collided[w][x]
  BY DEF HeldBags, CollidedBags, HeldBy, CollidesOf
<1>7. SumOver(g, Worker) = Counted[x] /\ SumOver(h, Worker) = Total(CollidedBags)[x]
  BY CountedIs DEF Total
<1>. HIDE DEF g, h
<1>8. g[w] <= Counted[x] /\ h[w] <= Total(CollidedBags)[x]
  BY <1>5, <1>7, BagFacts, SumAtLeast
<1>. QED BY <1>2, <1>3, <1>6, <1>8

(* A step of one worker that leaves the tree as it is.                        *)
LEMMA RestKeeps ==
  ASSUME IInv, UNCHANGED treeVars, BagsOK', WorkersOK', Flow', HeldRight',
         \A n \in Subtree : Counted[n] > 0 => Counted'[n] > 0,
         inFlight' = [n \in Node |-> inFlight'[n]],
         \A n \in Node \ Subtree : inFlight'[n] = inFlight[n],
         \A n \in Subtree \ {root} : inFlight[n] = 0 => inFlight'[n] = 0,
         OneHolder' /\ Emptied' /\ Limits', Pool', Picking'
  PROVE  IInv'
<1>1. TreeOK /\ BagsOK /\ WorkersOK /\ inFlight \in Bags
  BY TypeParts DEF IInv
<1>2. TreeOK' /\ root' \in Node /\ Subtree' = Subtree /\ root \in Node
  BY <1>1 DEF treeVars, TreeOK, Subtree
<1>3. ASSUME NEW n \in Node PROVE inFlight'[n] \in Nat
  <2>1. CASE n \in Subtree
    BY <1>2, <2>1, InFlightNext
  <2>2. CASE n \notin Subtree
    BY <1>1, <2>2, BagFacts
  <2>. QED BY <2>1, <2>2
<1>4. inFlight' \in Bags
  BY <1>3 DEF Bags
<1>5. Tree' /\ Numbers' /\ BoundsAreTrue'
  BY <1>1, <1>2, <1>4, TreeRests DEF IInv
<1>. QED BY <1>1, <1>2, <1>4, <1>5, TypeParts DEF IInv, Protocol

LEMMA HeldRests ==
  ASSUME HeldRight, UNCHANGED treeVars, Counted' = Counted
  PROVE  HeldRight' /\ \A n \in Subtree : Counted[n] > 0 => Counted'[n] > 0
<1>1. /\ root' = root /\ initial' = initial /\ playouts' = playouts /\ visits' = visits
      /\ edges' = edges /\ status' = status
  BY DEF treeVars
<1>2. Subtree' = Subtree /\ \A n : Depth(n)' = Depth(n) /\ (Leaf(n)' <=> Leaf(n))
                               /\ (TwoFold(n)' <=> TwoFold(n))
  BY <1>1 DEF Subtree, Depth, Ancestors, Leaf, TwoFold
<1>. QED BY <1>1, <1>2 DEF HeldRight

-----------------------------------------------------------------------------
(* Steps that leave the tree as it is.                                     *)

LEMMA EndPickKeeps ==
  ASSUME IInv, NEW w \in Worker, EndPick(w)
  PROVE  IInv'
<1>. USE DEF EndPick
<1>1. TreeOK /\ BagsOK /\ WorkersOK /\ inFlight \in Bags
  BY TypeParts DEF IInv
<1>2. UNCHANGED treeVars
  OBVIOUS
<1>3. UNCHANGED <<picked, ready, batch, fresh, collided, shared, todo, inFlight>>
  BY DEF visitVars, collVars
<1>4. BagsOK' /\ WorkersOK' /\ OthersRest(w)
  BY <1>1, <1>3 DEF BagsOK, WorkersOK, OthersRest
<1>5. Counted' = Counted /\ Collisions' = Collisions
  BY <1>3 DEF Counted, Collisions, HeldBy, CollidesOf
<1>6. Flow' /\ HeldRight' /\ \A n \in Subtree : Counted[n] > 0 => Counted'[n] > 0
  BY <1>2, <1>3, <1>5, FlowRests, HeldRests DEF IInv, Tree
<1>8. todo = Nothing
  <2>1. \A x \in Node : todo[x] \in Nat
    BY <1>1, BagFacts DEF BagsOK
  <2>2. \A x \in Node : todo[x] = 0
    BY <2>1 DEF Due
  <2>. QED BY <1>1, <2>2, BagFacts DEF BagsOK
<1>9. \A v \in Worker : phase'[v] = IF v = w THEN "process" ELSE phase[v]
  BY <1>1 DEF WorkersOK
<1>10. EmptiedBy(w)'
  BY <1>3, <1>9 DEF IInv, Protocol, Emptied, EmptiedBy
<1>11. LimitOf(w)'
  <2>1. LimitOf(w)
    BY DEF IInv, Protocol, Limits
  <2>2. Sum(todo) = 0 /\ Sum(fresh[w]) \in Nat
    BY <1>1, <1>8, SumBag DEF BagsOK
  <2>. QED BY <1>3, <1>9, <2>1, <2>2 DEF LimitOf
<1>12. OneHolder' /\ Emptied' /\ Limits'
  <2>1. NoWorker # w
    BY WorkerAssumption
  <2>. QED BY <1>3, <1>4, <1>8, <1>9, <1>10, <1>11, <2>1, ProtocolStep DEF IInv, Protocol
<1>13. Pool'
  BY <1>2, <1>3, <1>5 DEF IInv, Protocol, Pool, treeVars
<1>14. Picking'
  BY <1>2, <1>3, <1>9 DEF IInv, Picking, Due, Subtree, treeVars
<1>15. inFlight' = [n \in Node |-> inFlight'[n]]
  BY <1>1, <1>3 DEF Bags
<1>. QED BY <1>2, <1>3, <1>4, <1>6, <1>12, <1>13, <1>14, <1>15, RestKeeps

LEMMA BeginBackupKeeps ==
  ASSUME IInv, NEW w \in Worker, BeginBackup(w)
  PROVE  IInv'
<1>. USE DEF BeginBackup
<1>1. TreeOK /\ BagsOK /\ WorkersOK /\ inFlight \in Bags
  BY TypeParts DEF IInv
<1>2. UNCHANGED treeVars
  OBVIOUS
<1>3. UNCHANGED <<picked, ready, batch, fresh, collided, shared, todo, inFlight>>
  BY DEF visitVars, collVars
<1>4. BagsOK' /\ WorkersOK' /\ OthersRest(w)
  BY <1>1, <1>3 DEF BagsOK, WorkersOK, OthersRest
<1>5. Counted' = Counted /\ Collisions' = Collisions
  BY <1>3 DEF Counted, Collisions, HeldBy, CollidesOf
<1>6. Flow' /\ HeldRight' /\ \A n \in Subtree : Counted[n] > 0 => Counted'[n] > 0
  BY <1>2, <1>3, <1>5, FlowRests, HeldRests DEF IInv, Tree
<1>9. \A v \in Worker : phase'[v] = IF v = w THEN "backup" ELSE phase[v]
  BY <1>1 DEF WorkersOK
<1>10. EmptiedBy(w)'
  BY <1>3, <1>9 DEF IInv, Protocol, Emptied, EmptiedBy
<1>11. LimitOf(w)'
  <2>1. LimitOf(w)
    BY DEF IInv, Protocol, Limits
  <2>. QED BY <1>3, <1>9, <2>1 DEF LimitOf
<1>12. OneHolder' /\ Emptied' /\ Limits'
  <2>1. NoWorker # w
    BY WorkerAssumption
  <2>. QED BY <1>3, <1>4, <1>9, <1>10, <1>11, <2>1, ProtocolStep DEF IInv, Protocol
<1>13. Pool'
  BY <1>2, <1>3, <1>5 DEF IInv, Protocol, Pool, treeVars
<1>14. Picking'
  BY <1>2, <1>3, <1>9 DEF IInv, Picking, Due, Subtree, treeVars
<1>15. inFlight' = [n \in Node |-> inFlight'[n]]
  BY <1>1, <1>3 DEF Bags
<1>. QED BY <1>2, <1>3, <1>4, <1>6, <1>12, <1>13, <1>14, <1>15, RestKeeps

(* A worker's collisions become shared.                                       *)
LEMMA CollectCollisionsKeeps ==
  ASSUME IInv, NEW w \in Worker, CollectCollisions(w)
  PROVE  IInv'
<1>. USE DEF CollectCollisions
<1>1. TreeOK /\ BagsOK /\ WorkersOK /\ inFlight \in Bags
  BY TypeParts DEF IInv
<1>2. UNCHANGED treeVars
  OBVIOUS
<1>3. UNCHANGED <<picked, ready, batch, fresh, todo, inFlight>>
  BY DEF visitVars
<1>0. /\ \A x \in Node : shared'[x] = shared[x] + collided[w][x]
      /\ collided'[w] = Nothing
      /\ \A v \in Worker \ {w} : collided'[v] = collided[v]
      /\ left'[w] = 0 /\ \A v \in Worker \ {w} : left'[v] = left[v]
  BY <1>1 DEF BagsOK, WorkersOK
<1>4. BagsOK' /\ WorkersOK' /\ OthersRest(w)
  <2>1. shared' \in Bags
    <3>1. \A x \in Node : shared'[x] \in Nat
      BY <1>0, <1>1, PartOf
    <3>. QED BY <3>1 DEF Bags
  <2>2. collided' \in [Worker -> Bags]
    BY <1>1, BagFacts DEF BagsOK
  <2>3. left' \in [Worker -> 0..MaxLimit]
    BY <1>1, WorkerAssumption DEF WorkersOK
  <2>. QED BY <1>0, <1>1, <1>3, <2>1, <2>2, <2>3 DEF BagsOK, WorkersOK, OthersRest
<1>5. Counted' = Counted /\ Collisions' = Collisions
  <2>1. Counted' = Counted
    BY <1>3 DEF Counted, HeldBy
  <2>2. \A x \in Node : Collisions'[x] = Collisions[x]
    <3>1. \A x \in Node : Collisions'[x]
              = Collisions[x] + ((todo'[x] + shared'[x] + fresh'[w][x] + collided'[w][x])
                                   - (todo[x] + shared[x] + fresh[w][x] + collided[w][x]))
      BY <1>1, <1>4, WorkerStep
    <3>. QED BY <1>0, <1>1, <1>3, <3>1, PartOf, BagFacts
  <2>3. Collisions \in Bags /\ Collisions' \in Bags
    BY <1>1, <1>4, CountedType, CountedTypeNext
  <2>4. Collisions' = Collisions
    BY <2>2, <2>3, BagsEqual
  <2>. QED BY <2>1, <2>4
<1>6. Flow' /\ HeldRight' /\ \A n \in Subtree : Counted[n] > 0 => Counted'[n] > 0
  BY <1>2, <1>3, <1>5, FlowRests, HeldRests DEF IInv, Tree
<1>9. \A v \in Worker : phase'[v] = IF v = w THEN "compute" ELSE phase[v]
  BY <1>1 DEF WorkersOK
<1>10. EmptiedBy(w)'
  BY <1>0, <1>3, <1>9 DEF IInv, Protocol, Emptied, EmptiedBy
<1>11. LimitOf(w)'
  <2>1. EmptiedBy(w)
    BY DEF IInv, Protocol, Emptied
  <2>2. fresh[w] = Nothing /\ limit[w] = 0
    BY <2>1 DEF EmptiedBy
  <2>3. Sum(fresh[w]) = 0
    BY <1>1, <2>2, SumBag DEF BagsOK
  <2>4. limit'[w] = 0 /\ left'[w] = 0 /\ fresh'[w] = fresh[w] /\ phase'[w] # "pick"
    BY <1>0, <1>3, <1>9, <2>2
  <2>. QED BY <2>3, <2>4 DEF LimitOf
<1>12. OneHolder' /\ Emptied' /\ Limits'
  <2>1. NoWorker # w
    BY WorkerAssumption
  <2>. QED BY <1>3, <1>4, <1>9, <1>10, <1>11, <2>1, ProtocolStep DEF IInv, Protocol
<1>13. Pool'
  BY <1>2, <1>3, <1>5 DEF IInv, Protocol, Pool, treeVars
<1>14. Picking'
  BY <1>2, <1>3, <1>9 DEF IInv, Picking, Due, Subtree, treeVars
<1>15. inFlight' = [n \in Node |-> inFlight'[n]]
  BY <1>1, <1>3 DEF Bags
<1>. QED BY <1>2, <1>3, <1>4, <1>6, <1>12, <1>13, <1>14, <1>15, RestKeeps

(* Collisions that are cancelled.                                             *)
LEMMA FlowReleased ==
  ASSUME Flow, UNCHANGED treeVars, Counted' = Counted, todo' = todo, root \in Node,
         BagsOK, BagsOK', NEW b \in Bags, inFlight \in Bags,
         inFlight' = Release(inFlight, b),
         \A x \in Node : Collisions[x] = Collisions'[x] + b[x]
  PROVE  /\ Flow' /\ \A n \in Node \ Subtree : inFlight'[n] = inFlight[n]
         /\ \A n \in Subtree \ {root} : inFlight[n] = 0 => inFlight'[n] = 0
         /\ inFlight' = [n \in Node |-> inFlight'[n]]
<1>1. root' = root /\ visits' = visits /\ status' = status
  BY DEF treeVars
<1>2. Subtree' = Subtree /\ \A n : Leaf(n)' <=> Leaf(n)
  BY <1>1 DEF Subtree, Leaf
<1>3. ASSUME NEW n \in Node \ Subtree PROVE inFlight'[n] = inFlight[n]
  BY BagFacts DEF Release, Held
<1>4. ASSUME NEW n \in Subtree
      PROVE  /\ inFlight'[n] = Load(Counted', Collisions', n) + (IF Leaf(n)' THEN 0 ELSE todo'[n])
             /\ inFlight[n] = 0 => inFlight'[n] = 0
  <2>1. n \in Node /\ Held(b, n) = SumOver(b, Below[n]) /\ Held(b, n) \in Nat
    BY HeldIs
  <2>2. inFlight'[n] = inFlight[n] - Held(b, n)
    BY <2>1 DEF Release
  <2>3. inFlight[n] = Load(Counted, Collisions, n) + (IF Leaf(n) THEN 0 ELSE todo[n])
    BY DEF Flow
  <2>4. Counted \in Bags /\ Collisions \in Bags /\ Collisions' \in Bags
    BY CountedType, CountedTypeNext
  <2>. DEFINE c == Collisions
              d == Collisions'
              h == Counted
  <2>5. Load(h, c, n) = Load(h, d, n) + SumOver(b, Below[n])
    <3>1. \A x \in Node : b[x] \in Int /\ c[x] = d[x] + b[x]
      BY BagFacts
    <3>2. h \in Bags /\ c \in Bags /\ d \in Bags
      BY <2>4
    <3>. HIDE DEF c, d, h
    <3>. QED BY <2>1, <3>1, <3>2, LoadMore
  <2>6. Load(h, c, n) \in Nat /\ Load(h, d, n) \in Nat
    <3>2. h \in Bags /\ c \in Bags /\ d \in Bags
      BY <2>4
    <3>. HIDE DEF c, d, h
    <3>. QED BY <2>1, <3>2, LoadNat
  <2>7. inFlight[n] = Load(h, c, n) + (IF Leaf(n) THEN 0 ELSE todo[n])
    BY <2>3
  <2>8. todo[n] \in Nat
    BY <2>1, BagFacts DEF BagsOK
  <2>9. inFlight'[n] = Load(h, d, n) + (IF Leaf(n) THEN 0 ELSE todo[n])
    <3>. HIDE DEF c, d, h
    <3>. QED BY <2>1, <2>2, <2>5, <2>6, <2>7, <2>8
  <2>10. inFlight[n] = 0 => inFlight'[n] = 0
    <3>. HIDE DEF c, d, h
    <3>. QED BY <2>1, <2>2, <2>6, <2>8, <2>9
  <2>. QED BY <1>2, <2>9, <2>10
<1>5. Flow'
  BY <1>2, <1>4 DEF Flow, Load
<1>6. inFlight' = [n \in Node |-> inFlight'[n]]
  BY DEF Release
<1>. QED BY <1>3, <1>4, <1>5, <1>6

(* The collisions of a pick are cancelled.                                    *)
LEMMA BeginOutOfOrderKeeps ==
  ASSUME IInv, NEW w \in Worker, BeginOutOfOrder(w)
  PROVE  IInv'
<1>. USE DEF BeginOutOfOrder
<1>1. TreeOK /\ BagsOK /\ WorkersOK /\ inFlight \in Bags
  BY TypeParts DEF IInv
<1>2. UNCHANGED treeVars
  OBVIOUS
<1>3. UNCHANGED <<picked, ready, batch, collided, shared, todo>>
  BY DEF visitVars
<1>0. fresh'[w] = Nothing /\ \A v \in Worker \ {w} : fresh'[v] = fresh[v]
  BY <1>1 DEF BagsOK
<1>4. BagsOK' /\ WorkersOK' /\ OthersRest(w)
  <2>1. fresh' \in [Worker -> Bags]
    BY <1>1, BagFacts DEF BagsOK
  <2>. QED BY <1>0, <1>1, <1>3, <2>1 DEF BagsOK, WorkersOK, OthersRest
<1>5. Counted' = Counted
  BY <1>3 DEF Counted, HeldBy
<1>6. HeldRight' /\ \A n \in Subtree : Counted[n] > 0 => Counted'[n] > 0
  BY <1>2, <1>5, HeldRests DEF IInv, Tree
<1>7. \A x \in Node : Collisions[x] = Collisions'[x] + fresh[w][x]
  <2>1. \A x \in Node : Collisions'[x]
            = Collisions[x] + ((todo'[x] + shared'[x] + fresh'[w][x] + collided'[w][x])
                                 - (todo[x] + shared[x] + fresh[w][x] + collided[w][x]))
    BY <1>1, <1>4, WorkerStep
  <2>. QED BY <1>0, <1>1, <1>3, <2>1, PartOf, BagFacts
<1>8. /\ Flow' /\ \A n \in Node \ Subtree : inFlight'[n] = inFlight[n]
      /\ \A n \in Subtree \ {root} : inFlight[n] = 0 => inFlight'[n] = 0
      /\ inFlight' = [n \in Node |-> inFlight'[n]]
  <2>1. fresh[w] \in Bags /\ root \in Node
    BY <1>1 DEF BagsOK, TreeOK
  <2>. QED BY <1>1, <1>2, <1>3, <1>4, <1>5, <1>7, <2>1, FlowReleased DEF IInv
<1>9. \A v \in Worker : phase'[v] = IF v = w THEN "outoforder" ELSE phase[v]
  BY <1>1 DEF WorkersOK
<1>10. EmptiedBy(w)'
  BY <1>0, <1>3, <1>9 DEF IInv, Protocol, Emptied, EmptiedBy
<1>11. LimitOf(w)'
  <2>1. LimitOf(w) /\ Sum(fresh[w]) \in Nat
    BY <1>1, SumBag DEF IInv, Protocol, Limits, BagsOK
  <2>2. Sum(fresh'[w]) = 0
    BY <1>0, SumBag, BagFacts
  <2>3. phase[w] # "pick" /\ phase'[w] # "pick" /\ limit'[w] = limit[w] /\ left'[w] = left[w]
    BY <1>9
  <2>4. limit[w] \in Int /\ left[w] \in Int
    BY <1>1 DEF WorkersOK
  <2>. QED BY <2>1, <2>2, <2>3, <2>4 DEF LimitOf
<1>12. OneHolder' /\ Emptied' /\ Limits'
  <2>1. NoWorker # w
    BY WorkerAssumption
  <2>. QED BY <1>3, <1>4, <1>9, <1>10, <1>11, <2>1, ProtocolStep DEF IInv, Protocol
<1>13. Pool'
  BY <1>2, <1>3, <1>5 DEF IInv, Protocol, Pool, treeVars
<1>14. Picking'
  BY <1>0, <1>2, <1>3, <1>9 DEF IInv, Picking, Due, Subtree, treeVars
<1>. QED BY <1>2, <1>3, <1>4, <1>6, <1>8, <1>12, <1>13, <1>14, RestKeeps

(* The shared collisions are cancelled.                                       *)
LEMMA EndBackupKeeps ==
  ASSUME IInv, NEW w \in Worker, EndBackup(w)
  PROVE  IInv'
<1>. USE DEF EndBackup
<1>1. TreeOK /\ BagsOK /\ WorkersOK /\ inFlight \in Bags
  BY TypeParts DEF IInv
<1>2. UNCHANGED treeVars
  OBVIOUS
<1>3. UNCHANGED <<picked, ready, batch, fresh, collided, todo>>
  BY DEF visitVars
<1>4. BagsOK' /\ WorkersOK' /\ OthersRest(w)
  <2>1. shared' \in Bags
    BY <1>1, BagFacts DEF BagsOK
  <2>. QED BY <1>1, <1>3, <2>1 DEF BagsOK, WorkersOK, OthersRest
<1>5. Counted' = Counted
  BY <1>3 DEF Counted, HeldBy
<1>6. HeldRight' /\ \A n \in Subtree : Counted[n] > 0 => Counted'[n] > 0
  BY <1>2, <1>5, HeldRests DEF IInv, Tree
<1>7. \A x \in Node : Collisions'[x] = Collisions[x] + (shared'[x] - shared[x])
  <2>1. \A x \in Node : Collisions'[x]
            = Collisions[x] + ((todo'[x] + shared'[x] + fresh'[w][x] + collided'[w][x])
                                 - (todo[x] + shared[x] + fresh[w][x] + collided[w][x]))
    BY <1>1, <1>4, WorkerStep
  <2>2. \A x \in Node : shared'[x] \in Nat
    BY <1>4, BagFacts DEF BagsOK
  <2>. QED BY <1>1, <1>3, <2>1, <2>2, PartOf
<1>8. /\ Flow' /\ \A n \in Node \ Subtree : inFlight'[n] = inFlight[n]
      /\ \A n \in Subtree \ {root} : inFlight[n] = 0 => inFlight'[n] = 0
      /\ inFlight' = [n \in Node |-> inFlight'[n]]
  <2>1. CASE worked[w]
    <3>1. shared \in Bags /\ root \in Node
      BY <1>1 DEF BagsOK, TreeOK
    <3>2. \A x \in Node : Collisions[x] = Collisions'[x] + shared[x]
      BY <1>1, <1>7, <2>1, PartOf, BagFacts
    <3>. QED BY <1>1, <1>2, <1>3, <1>4, <1>5, <2>1, <3>1, <3>2, FlowReleased DEF IInv
  <2>2. CASE ~worked[w]
    <3>1. \A x \in Node : Collisions'[x] = Collisions[x]
      BY <1>1, <1>7, <2>2, PartOf
    <3>2. Collisions \in Bags /\ Collisions' \in Bags
      BY <1>1, <1>4, CountedType, CountedTypeNext
    <3>3. Collisions' = Collisions
      BY <3>1, <3>2, BagsEqual
    <3>4. inFlight' = inFlight
      BY <2>2
    <3>5. Flow'
      BY <1>2, <1>3, <1>5, <3>3, <3>4, FlowRests DEF IInv
    <3>. QED BY <1>1, <3>4, <3>5 DEF Bags
  <2>. QED BY <2>1, <2>2
<1>9. \A v \in Worker : phase'[v] = IF v = w THEN "idle" ELSE phase[v]
  BY <1>1 DEF WorkersOK
<1>10. EmptiedBy(w)'
  BY <1>3, <1>9 DEF IInv, Protocol, Emptied, EmptiedBy
<1>11. LimitOf(w)'
  <2>1. LimitOf(w)
    BY DEF IInv, Protocol, Limits
  <2>. QED BY <1>3, <1>9, <2>1 DEF LimitOf
<1>12. OneHolder' /\ Emptied' /\ Limits'
  <2>1. NoWorker # w
    BY WorkerAssumption
  <2>. QED BY <1>3, <1>4, <1>9, <1>10, <1>11, <2>1, ProtocolStep DEF IInv, Protocol
<1>13. Pool'
  BY <1>2, <1>3, <1>5 DEF IInv, Protocol, Pool, treeVars
<1>14. Picking'
  BY <1>2, <1>3, <1>9 DEF IInv, Picking, Due, Subtree, treeVars
<1>. QED BY <1>2, <1>3, <1>4, <1>6, <1>8, <1>12, <1>13, <1>14, RestKeeps

LEMMA DueFirst ==
  ASSUME todo \in Bags, Due # {}
  PROVE  /\ Min(Due) \in Due /\ Min(Due) \in Node /\ todo[Min(Due)] > 0
         /\ \A y \in Due : Min(Due) <= y
<1>1. Due \in SUBSET Nat
  BY Numbered DEF Due
<1>. QED BY <1>1, MinIs DEF Due

LEMMA OnlyPicker ==
  ASSUME OneHolder, NEW w \in Worker, lock = w
  PROVE  \A v \in Worker \ {w} : phase[v] # "pick"
BY DEF OneHolder

(* Visits that are due at a leaf become a collision.                          *)
LEMMA CollideKeeps ==
  ASSUME IInv, NEW w \in Worker, Collide(w)
  PROVE  IInv'
<1>1. TreeOK /\ BagsOK /\ WorkersOK /\ inFlight \in Bags
  BY TypeParts DEF IInv
<1>. DEFINE x == Min(Due)
<1>0. /\ lock = w /\ phase[w] = "pick" /\ Due # {} /\ Leaf(x)
      /\ fresh' = [fresh EXCEPT ![w][x] = todo[x]]
      /\ todo' = [todo EXCEPT ![x] = 0]
  BY DEF Collide
<1>2. UNCHANGED treeVars
  BY DEF Collide
<1>3. UNCHANGED <<picked, ready, batch, collided, shared, inFlight, lock, phase, left, limit, worked>>
  BY DEF visitVars, Collide
<1>a. x \in Due /\ x \in Node /\ todo[x] > 0 /\ \A y \in Due : x <= y
  BY <1>0, <1>1, DueFirst DEF BagsOK
<1>. HIDE DEF x
<1>b. /\ fresh'[w] = [fresh[w] EXCEPT ![x] = todo[x]]
      /\ fresh'[w][x] = todo[x] /\ \A y \in Node \ {x} : fresh'[w][y] = fresh[w][y]
      /\ \A v \in Worker \ {w} : fresh'[v] = fresh[v]
      /\ todo'[x] = 0 /\ \A y \in Node \ {x} : todo'[y] = todo[y]
  BY <1>0, <1>1, <1>a DEF BagsOK, Bags
<1>c. fresh[w][x] = 0
  BY <1>0, <1>1, <1>a, PartOf DEF IInv, Picking
<1>4. BagsOK' /\ WorkersOK' /\ OthersRest(w)
  <2>1. todo' \in Bags
    BY <1>0, <1>1 DEF BagsOK, Bags
  <2>2. fresh'[w] \in Bags
    <3>1. fresh[w] \in [Node -> Nat] /\ todo[x] \in Nat
      BY <1>1, <1>a, PartOf DEF BagsOK, Bags
    <3>2. [fresh[w] EXCEPT ![x] = todo[x]] \in [Node -> Nat]
      BY <3>1
    <3>. QED BY <1>b, <3>2 DEF Bags
  <2>3. fresh' \in [Worker -> Bags]
    <3>1. fresh' = [v \in Worker |-> fresh'[v]]
      BY <1>0, <1>1 DEF BagsOK
    <3>2. \A v \in Worker : fresh'[v] \in Bags
      BY <1>1, <1>b, <2>2 DEF BagsOK
    <3>. QED BY <3>1, <3>2
  <2>. QED BY <1>1, <1>3, <1>b, <2>1, <2>3 DEF BagsOK, WorkersOK, OthersRest
<1>5. Counted' = Counted /\ Collisions' = Collisions
  <2>1. Counted' = Counted
    BY <1>3 DEF Counted, HeldBy
  <2>2. \A y \in Node : Collisions'[y] = Collisions[y]
    <3>1. \A y \in Node : Collisions'[y]
              = Collisions[y] + ((todo'[y] + shared'[y] + fresh'[w][y] + collided'[w][y])
                                   - (todo[y] + shared[y] + fresh[w][y] + collided[w][y]))
      BY <1>1, <1>4, WorkerStep
    <3>. QED BY <1>1, <1>3, <1>b, <1>c, <3>1, PartOf
  <2>3. Collisions \in Bags /\ Collisions' \in Bags
    BY <1>1, <1>4, CountedType, CountedTypeNext
  <2>4. Collisions' = Collisions
    BY <2>2, <2>3, BagsEqual
  <2>. QED BY <2>1, <2>4
<1>6. Flow' /\ HeldRight' /\ \A n \in Subtree : Counted[n] > 0 => Counted'[n] > 0
  <2>1. \A n \in Subtree : ~Leaf(n) => todo'[n] = todo[n]
    <3>1. \A n \in Subtree : n \in Node
      BY <1>1, PathIs, TrailIs DEF TreeOK
    <3>. QED BY <1>0, <1>b, <3>1
  <2>. QED BY <1>2, <1>3, <1>5, <2>1, FlowRests, HeldRests DEF IInv, Tree
<1>d. Sum(todo') = Sum(todo) - todo[x] /\ Sum(fresh'[w]) = Sum(fresh[w]) + todo[x]
      /\ Sum(todo) \in Nat /\ Sum(fresh[w]) \in Nat /\ todo[x] \in Nat
  <2>1. todo \in Bags /\ todo' \in Bags /\ fresh[w] \in Bags /\ fresh'[w] \in Bags
    BY <1>1, <1>4 DEF BagsOK
  <2>2. \A y \in Node : /\ todo[y] \in Int /\ todo'[y] \in Int
                        /\ fresh[w][y] \in Int /\ fresh'[w][y] \in Int
    BY <2>1, BagFacts
  <2>3. SumOver(todo', Node) = SumOver(todo, Node) + (todo'[x] - todo[x])
    <3>. DEFINE f == todo
                g == todo'
    <3>1. (\A y \in Node : f[y] \in Int /\ g[y] \in Int) /\ \A y \in Node \ {x} : g[y] = f[y]
      BY <1>b, <2>2
    <3>. HIDE DEF f, g
    <3>2. SumOver(g, Node) = SumOver(f, Node) + (g[x] - f[x])
      BY <1>a, <3>1, SumOne, BagFacts
    <3>. QED BY <3>2 DEF f, g
  <2>4. SumOver(fresh'[w], Node) = SumOver(fresh[w], Node) + (fresh'[w][x] - fresh[w][x])
    <3>. DEFINE f == fresh[w]
                g == fresh'[w]
    <3>1. (\A y \in Node : f[y] \in Int /\ g[y] \in Int) /\ \A y \in Node \ {x} : g[y] = f[y]
      BY <1>b, <2>2
    <3>. HIDE DEF f, g
    <3>2. SumOver(g, Node) = SumOver(f, Node) + (g[x] - f[x])
      BY <1>a, <3>1, SumOne, BagFacts
    <3>. QED BY <3>2 DEF f, g
  <2>5. /\ Sum(todo) = SumOver(todo, Node) /\ Sum(todo') = SumOver(todo', Node)
        /\ Sum(fresh[w]) = SumOver(fresh[w], Node) /\ Sum(fresh'[w]) = SumOver(fresh'[w], Node)
        /\ Sum(todo) \in Nat /\ Sum(fresh[w]) \in Nat
    BY <2>1, SumBag
  <2>6. todo[x] \in Nat
    BY <1>a, <2>1, BagFacts
  <2>. QED BY <1>b, <1>c, <2>3, <2>4, <2>5, <2>6
<1>10. EmptiedBy(w)'
  BY <1>0, <1>3 DEF IInv, Protocol, Emptied, EmptiedBy
<1>11. LimitOf(w)'
  <2>1. Sum(fresh[w]) + Sum(todo) <= limit[w] /\ limit[w] <= left[w]
    BY <1>0 DEF IInv, Protocol, Limits, LimitOf
  <2>2. Sum(fresh'[w]) + Sum(todo') = Sum(fresh[w]) + Sum(todo)
    BY <1>d
  <2>. QED BY <1>0, <1>3, <2>1, <2>2 DEF LimitOf
<1>12. OneHolder' /\ Emptied' /\ Limits'
  <2>1. NoWorker # w
    BY WorkerAssumption
  <2>. QED BY <1>0, <1>3, <1>4, <1>10, <1>11, <2>1, ProtocolStep DEF IInv, Protocol
<1>13. Pool'
  <2>1. playouts + Sum(Counted) + Sum(todo) <= MaxPlayouts /\ playouts' = playouts
    BY <1>2 DEF IInv, Protocol, Pool, treeVars
  <2>2. Sum(Counted) \in Nat /\ playouts \in Nat /\ MaxPlayouts \in Nat
    BY <1>1, CountedType, SumBag, WorkerAssumption DEF TreeOK
  <2>3. playouts' + Sum(Counted') + Sum(todo') <= MaxPlayouts
    BY <1>5, <1>d, <2>1, <2>2
  <2>. QED BY <2>3 DEF Pool
<1>14. Picking'
  <2>1. Due' = Due \ {x}
    BY <1>1, <1>a, <1>b DEF Due
  <2>2. Subtree' = Subtree
    BY <1>2 DEF Subtree, treeVars
  <2>3. \A v \in Worker \ {w} : phase'[v] # "pick"
    BY <1>0, <1>3, OnlyPicker DEF IInv, Protocol
  <2>4. ASSUME NEW y \in Node, fresh'[w][y] > 0 PROVE Due' \cap ({y} \cup Above[y]) = {}
    <3>1. CASE y = x
      <4>1. \A z \in Above[x] : z < x
        BY <1>a, AboveType
      <4>2. \A z \in Above[x] : z \notin Due
        <5>1. \A z \in Due : z \in Nat
          BY Numbered DEF Due
        <5>. QED BY <1>a, <4>1, <5>1, Numbered
      <4>. QED BY <2>1, <3>1, <4>2
    <3>2. CASE y # x
      <4>1. fresh[w][y] > 0
        BY <1>b, <2>4, <3>2
      <4>. QED BY <1>0, <2>1, <4>1 DEF IInv, Picking
    <3>. QED BY <3>1, <3>2
  <2>. QED BY <2>1, <2>2, <2>3, <2>4 DEF IInv, Picking
<1>15. inFlight' = [n \in Node |-> inFlight'[n]]
  BY <1>1, <1>3 DEF Bags
<1>. QED BY <1>2, <1>3, <1>4, <1>6, <1>12, <1>13, <1>14, <1>15, RestKeeps

-----------------------------------------------------------------------------
(* Collisions that grow.                                                   *)

(* How far a collision may grow: a pick that went to one node, and no further *)
(* than the collisions that are left.                                         *)
Grown(w, extra) ==
  IF extra = 0 THEN fresh[w]
  ELSE [x \in Node |-> IF fresh[w][x] > 0 THEN fresh[w][x] + extra ELSE 0]

(* Collisions that grow stay within the visits that are left.                 *)
LEMMA GrownFits ==
  ASSUME BagsOK, WorkersOK, NEW w \in Worker, LimitOf(w), phase[w] # "pick",
         NEW extra \in 0..(left[w] - limit[w]), extra > 0 => SoleCollision(w)
  PROVE  /\ Grown(w, extra) \in Bags /\ Sum(Grown(w, extra)) <= left[w]
         /\ \A x \in Node : fresh[w][x] = 0 => Grown(w, extra)[x] = 0
<1>0. SUFFICES ASSUME NEW v \in Worker, LimitOf(v), phase[v] # "pick",
                      NEW e \in 0..(left[v] - limit[v]), e > 0 => SoleCollision(v)
               PROVE  /\ Grown(v, e) \in Bags /\ Sum(Grown(v, e)) <= left[v]
                      /\ \A x \in Node : fresh[v][x] = 0 => Grown(v, e)[x] = 0
  OBVIOUS
<1>1. fresh[v] \in Bags /\ left[v] \in Nat /\ limit[v] \in Nat /\ e \in Nat
      /\ e <= left[v] - limit[v]
  BY DEF BagsOK, WorkersOK
<1>2. Sum(fresh[v]) <= limit[v] /\ limit[v] <= left[v] /\ Sum(fresh[v]) \in Nat
  BY <1>0, <1>1, SumBag DEF LimitOf
<1>3. \A x \in Node : fresh[v][x] \in Nat
  BY <1>1, BagFacts
<1>4. CASE e = 0
  BY <1>1, <1>2, <1>4 DEF Grown
<1>5. CASE e # 0
  <2>1. Grown(v, e) = [x \in Node |-> IF fresh[v][x] > 0 THEN fresh[v][x] + e ELSE 0]
    BY <1>5 DEF Grown
  <2>. DEFINE g == Grown(v, e)
              f == fresh[v]
  <2>2. \A x \in Node : g[x] = IF f[x] > 0 THEN f[x] + e ELSE 0
    BY <2>1
  <2>3. g \in Bags
    BY <1>1, <1>3, <2>1 DEF Bags
  <2>4. PICK y \in Node : f[y] = limit[v]
    BY <1>0, <1>1, <1>5 DEF SoleCollision
  <2>5. SumOver(f, Node) = f[y] + SumOver(f, Node \ {y}) /\ Sum(f) = SumOver(f, Node)
    <3>1. \A x \in Node : f[x] \in Int
      BY <1>3
    <3>2. Sum(f) = SumOver(f, Node)
      BY <1>1, SumBag
    <3>. HIDE DEF f
    <3>. QED BY <3>1, <3>2, SumTake, BagFacts
  <2>. DEFINE S == Node \ {y}
  <2>6. IsFiniteSet(S) /\ S \subseteq Node
    BY BagFacts, FS_Subset
  <2>7. SumOver(f, S) \in Int /\ SumOver(f, S) >= 0 /\ \A x \in S : f[x] <= SumOver(f, S)
    <3>1. \A x \in S : f[x] \in Nat
      BY <1>3, <2>6
    <3>. HIDE DEF f, S
    <3>. QED BY <2>6, <3>1, SumType, SumAtLeast
  <2>8. \A x \in S : f[x] = 0
    <3>1. \A x \in S : f[x] \in Nat
      BY <1>3, <2>6
    <3>2. Sum(f) <= limit[v]
      BY <1>2
    <3>. HIDE DEF f, S
    <3>3. SumOver(f, S) <= 0
      BY <1>1, <2>4, <2>5, <2>7, <3>2 DEF S
    <3>. QED BY <2>7, <3>1, <3>3
  <2>9. SumOver(g, Node) = g[y] + SumOver(g, S) /\ Sum(g) = SumOver(g, Node)
    <3>1. \A x \in Node : g[x] \in Int
      BY <2>3, BagFacts
    <3>2. Sum(g) = SumOver(g, Node)
      BY <2>3, SumBag
    <3>. HIDE DEF g
    <3>. QED BY <2>4, <3>1, <3>2, SumTake, BagFacts
  <2>10. SumOver(g, S) = 0
    <3>1. \A x \in S : g[x] = 0
      BY <2>2, <2>6, <2>8
    <3>. HIDE DEF g, S
    <3>. QED BY <2>6, <3>1, SumZero
  <2>11. g[y] <= limit[v] + e
    BY <1>1, <2>2, <2>4
  <2>12. g[y] \in Nat
    BY <2>3, <2>4, BagFacts
  <2>13. Sum(g) <= left[v]
    <3>. HIDE DEF g
    <3>. QED BY <1>1, <2>9, <2>10, <2>11, <2>12
  <2>14. \A x \in Node : f[x] = 0 => g[x] = 0
    BY <2>2
  <2>. QED BY <2>3, <2>13, <2>14
<1>. QED BY <1>4, <1>5

(* Collisions of one worker that are replaced by others.                      *)
LEMMA FlowReplaced ==
  ASSUME Flow, UNCHANGED treeVars, Counted' = Counted, todo' = todo, root \in Node,
         BagsOK, BagsOK', NEW b \in Bags, NEW d \in Bags, inFlight \in Bags,
         inFlight' = [n \in Node |-> inFlight[n] + Held(d, n) - Held(b, n)],
         \A x \in Node : Collisions'[x] = Collisions[x] + (d[x] - b[x]),
         \A x \in Node : b[x] <= Collisions[x] /\ (b[x] = 0 => d[x] = 0)
  PROVE  /\ Flow' /\ \A n \in Node \ Subtree : inFlight'[n] = inFlight[n]
         /\ \A n \in Subtree \ {root} : inFlight[n] = 0 => inFlight'[n] = 0
         /\ inFlight' = [n \in Node |-> inFlight'[n]]
<1>1. root' = root /\ visits' = visits /\ status' = status
  BY DEF treeVars
<1>2. Subtree' = Subtree /\ \A n : Leaf(n)' <=> Leaf(n)
  BY <1>1 DEF Subtree, Leaf
<1>3. ASSUME NEW n \in Node \ Subtree PROVE inFlight'[n] = inFlight[n]
  BY BagFacts DEF Held
<1>4. ASSUME NEW n \in Subtree
      PROVE  /\ inFlight'[n] = Load(Counted', Collisions', n) + (IF Leaf(n)' THEN 0 ELSE todo'[n])
             /\ inFlight[n] = 0 => inFlight'[n] = 0
  <2>1. n \in Node /\ Held(b, n) = SumOver(b, Below[n]) /\ Held(b, n) \in Nat
        /\ Held(d, n) = SumOver(d, Below[n]) /\ Held(d, n) \in Nat
    BY HeldIs
  <2>2. inFlight'[n] = inFlight[n] + Held(d, n) - Held(b, n)
    BY <2>1
  <2>3. inFlight[n] = Load(Counted, Collisions, n) + (IF Leaf(n) THEN 0 ELSE todo[n])
    BY DEF Flow
  <2>4. Counted \in Bags /\ Collisions \in Bags /\ Collisions' \in Bags
    BY CountedType, CountedTypeNext
  <2>. DEFINE c == Collisions
              e == Collisions'
              h == Counted
              delta == [x \in Node |-> d[x] - b[x]]
              D == SumOver(delta, Below[n])
  <2>a. \A x \in Node : d[x] \in Nat /\ b[x] \in Nat
    BY BagFacts
  <2>b. \A x \in Node : delta[x] \in Int /\ e[x] = c[x] + delta[x]
    BY <2>a
  <2>c. IsFiniteSet(Below[n]) /\ Below[n] \subseteq Node
    BY <2>1, BelowType
  <2>5. Load(h, e, n) = Load(h, c, n) + D /\ D \in Int
    <3>2. h \in Bags /\ c \in Bags /\ e \in Bags
      BY <2>4
    <3>. HIDE DEF c, e, h, delta
    <3>. QED BY <2>1, <2>b, <3>2, LoadMore
  <2>d. SumOver(d, Below[n]) = SumOver(b, Below[n]) + D
    <3>1. \A x \in Below[n] : b[x] \in Int /\ delta[x] \in Int /\ d[x] = b[x] + delta[x]
      BY <2>a, <2>c
    <3>. HIDE DEF delta
    <3>. QED BY <2>c, <3>1, SumLinear
  <2>6. Load(h, c, n) \in Nat
    <3>2. h \in Bags /\ c \in Bags
      BY <2>4
    <3>. HIDE DEF c, h
    <3>. QED BY <2>1, <3>2, LoadNat
  <2>7. inFlight[n] = Load(h, c, n) + (IF Leaf(n) THEN 0 ELSE todo[n])
    BY <2>3
  <2>8. todo[n] \in Nat
    BY <2>1, BagFacts DEF BagsOK
  <2>9. inFlight'[n] = Load(h, e, n) + (IF Leaf(n) THEN 0 ELSE todo[n])
    <3>. HIDE DEF c, e, h, D
    <3>. QED BY <2>1, <2>2, <2>5, <2>6, <2>7, <2>8, <2>d
  <2>10. inFlight[n] = 0 => inFlight'[n] = 0
    <3>1. SUFFICES ASSUME inFlight[n] = 0 PROVE inFlight'[n] = 0
      OBVIOUS
    <3>2. Load(h, c, n) = 0
      <4>. HIDE DEF c, h
      <4>. QED BY <2>6, <2>7, <2>8, <3>1
    <3>3. \A x \in Below[n] : c[x] <= Load(h, c, n)
      <4>2. h \in Bags /\ c \in Bags
        BY <2>4
      <4>. HIDE DEF c, h
      <4>. QED BY <2>1, <4>2, LoadNat
    <3>4. \A x \in Below[n] : b[x] = 0 /\ d[x] = 0
      <4>1. \A x \in Node : b[x] <= c[x] /\ c[x] \in Nat
        BY <2>4, BagFacts
      <4>. HIDE DEF c, h
      <4>. QED BY <2>a, <2>c, <3>2, <3>3, <4>1
    <3>5. SumOver(b, Below[n]) = 0 /\ SumOver(d, Below[n]) = 0
      BY <2>c, <3>4, SumZero
    <3>. QED BY <2>1, <2>2, <3>1, <3>5
  <2>. QED BY <1>2, <2>9, <2>10
<1>5. Flow'
  BY <1>2, <1>4 DEF Flow, Load
<1>. QED BY <1>3, <1>4, <1>5

(* The end of a round of gathering, with collisions that may have grown.      *)
LEMMA TallyKeeps ==
  ASSUME IInv, NEW w \in Worker, Tally(w)
  PROVE  IInv'
<1>1. TreeOK /\ BagsOK /\ WorkersOK /\ inFlight \in Bags
  BY TypeParts DEF IInv
<1>a. PICK extra \in 0..(left[w] - limit[w]) :
         /\ extra > 0 => SoleCollision(w) /\ lock = NoWorker
         /\ inFlight' = [n \in Node |-> inFlight[n] + Held(Grown(w, extra), n) - Held(fresh[w], n)]
         /\ left' = [left EXCEPT ![w] = @ - Sum(Grown(w, extra))]
         /\ collided' = [collided EXCEPT ![w] = [x \in Node |-> @[x] + Grown(w, extra)[x]]]
  BY DEF Tally, Grown
<1>. DEFINE g == Grown(w, extra)
<1>b. /\ phase[w] \in {"tally", "process"} /\ picked[w] = Nothing /\ ready[w] = Nothing
      /\ fresh' = [fresh EXCEPT ![w] = Nothing]
      /\ limit' = [limit EXCEPT ![w] = 0]
      /\ phase' = [phase EXCEPT ![w] = "gather"]
  <2>1. EmptiedBy(w)
    BY DEF IInv, Protocol, Emptied
  <2>. QED BY <2>1 DEF Tally, EmptiedBy
<1>2. UNCHANGED treeVars
  BY DEF Tally
<1>3. UNCHANGED <<picked, ready, batch, shared, lock, todo, worked>>
  BY DEF Tally, visitVars
<1>c. g \in Bags /\ Sum(g) <= left[w] /\ \A x \in Node : fresh[w][x] = 0 => g[x] = 0
  BY <1>1, <1>a, <1>b, GrownFits DEF IInv, Protocol, Limits
<1>. HIDE DEF g
<1>0. /\ fresh'[w] = Nothing /\ \A v \in Worker \ {w} : fresh'[v] = fresh[v]
      /\ \A x \in Node : collided'[w][x] = collided[w][x] + g[x]
      /\ \A v \in Worker \ {w} : collided'[v] = collided[v]
      /\ left'[w] = left[w] - Sum(g) /\ \A v \in Worker \ {w} : left'[v] = left[v]
      /\ limit'[w] = 0 /\ \A v \in Worker \ {w} : limit'[v] = limit[v]
      /\ \A v \in Worker : phase'[v] = IF v = w THEN "gather" ELSE phase[v]
  BY <1>1, <1>a, <1>b DEF BagsOK, WorkersOK, g
<1>e. Sum(g) \in Nat /\ left[w] \in 0..MaxLimit
  BY <1>1, <1>c, SumBag DEF WorkersOK
<1>4. BagsOK' /\ WorkersOK' /\ OthersRest(w)
  <2>1. fresh' \in [Worker -> Bags]
    BY <1>1, <1>b, BagFacts DEF BagsOK
  <2>2. collided' \in [Worker -> Bags]
    <3>1. [x \in Node |-> collided[w][x] + g[x]] \in Bags
      <4>1. \A x \in Node : collided[w][x] \in Nat /\ g[x] \in Nat
        BY <1>1, <1>c, PartOf, BagFacts
      <4>. QED BY <4>1 DEF Bags
    <3>2. collided' = [collided EXCEPT ![w] = [x \in Node |-> collided[w][x] + g[x]]]
      BY <1>1, <1>a DEF g
    <3>. QED BY <1>1, <3>1, <3>2 DEF BagsOK
  <2>3. left' \in [Worker -> 0..MaxLimit]
    <3>1. left[w] - Sum(g) \in 0..MaxLimit
      BY <1>c, <1>e, WorkerAssumption
    <3>2. left' = [left EXCEPT ![w] = left[w] - Sum(g)]
      BY <1>1, <1>a DEF g
    <3>. QED BY <1>1, <3>1, <3>2 DEF WorkersOK
  <2>4. limit' \in [Worker -> 0..MaxLimit]
    BY <1>1, <1>b, WorkerAssumption DEF WorkersOK
  <2>5. BagsOK'
    BY <1>1, <1>3, <2>1, <2>2 DEF BagsOK
  <2>6. WorkersOK'
    BY <1>1, <1>3, <1>b, <2>3, <2>4 DEF WorkersOK
  <2>7. OthersRest(w)
    BY <1>0, <1>3 DEF OthersRest
  <2>. QED BY <2>5, <2>6, <2>7
<1>5. Counted' = Counted
  BY <1>3 DEF Counted, HeldBy
<1>6. HeldRight' /\ \A n \in Subtree : Counted[n] > 0 => Counted'[n] > 0
  BY <1>2, <1>5, HeldRests DEF IInv, Tree
<1>7. \A x \in Node : Collisions'[x] = Collisions[x] + (g[x] - fresh[w][x])
  <2>1. \A x \in Node : Collisions'[x]
            = Collisions[x] + ((todo'[x] + shared'[x] + fresh'[w][x] + collided'[w][x])
                                 - (todo[x] + shared[x] + fresh[w][x] + collided[w][x]))
    BY <1>1, <1>4, WorkerStep
  <2>2. \A x \in Node : g[x] \in Nat
    BY <1>c, BagFacts
  <2>. QED BY <1>0, <1>1, <1>3, <2>1, <2>2, PartOf, BagFacts
<1>8. /\ Flow' /\ \A n \in Node \ Subtree : inFlight'[n] = inFlight[n]
      /\ \A n \in Subtree \ {root} : inFlight[n] = 0 => inFlight'[n] = 0
      /\ inFlight' = [n \in Node |-> inFlight'[n]]
  <2>1. fresh[w] \in Bags /\ root \in Node /\ Flow
    BY <1>1 DEF BagsOK, TreeOK, IInv
  <2>2. inFlight' = [n \in Node |-> inFlight[n] + Held(g, n) - Held(fresh[w], n)]
    BY <1>a DEF g
  <2>3. \A x \in Node : fresh[w][x] <= Collisions[x] /\ (fresh[w][x] = 0 => g[x] = 0)
    BY <1>1, <1>c, PartOf
  <2>. QED BY <1>1, <1>2, <1>3, <1>4, <1>5, <1>7, <1>c, <2>1, <2>2, <2>3, FlowReplaced
<1>10. EmptiedBy(w)'
  BY <1>0, <1>3, <1>b DEF EmptiedBy
<1>11. LimitOf(w)'
  <2>2. Sum(fresh'[w]) = 0
    BY <1>0, SumBag, BagFacts
  <2>3. phase'[w] # "pick" /\ limit'[w] = 0 /\ left'[w] >= 0
    BY <1>0, <1>c, <1>e
  <2>. QED BY <2>2, <2>3 DEF LimitOf
<1>12. OneHolder' /\ Emptied' /\ Limits'
  <2>1. NoWorker # w
    BY WorkerAssumption
  <2>2. lock' # w
    BY <1>3, <1>b DEF IInv, Protocol, OneHolder
  <2>. QED BY <1>0, <1>3, <1>4, <1>b, <1>10, <1>11, <2>1, <2>2, ProtocolStep DEF IInv, Protocol
<1>13. Pool'
  BY <1>2, <1>3, <1>5 DEF IInv, Protocol, Pool, treeVars
<1>14. Picking'
  BY <1>0, <1>2, <1>3 DEF IInv, Picking, Due, Subtree, treeVars
<1>. QED BY <1>2, <1>3, <1>4, <1>6, <1>8, <1>12, <1>13, <1>14, RestKeeps

-----------------------------------------------------------------------------
(* A pick begins at the root.                                              *)

(* The visits held are among those that will become playouts.                 *)
LEMMA HeldArePending ==
  ASSUME BagsOK, WorkersOK
  PROVE  Sum(Counted) <= Pending /\ Sum(Counted) \in Nat /\ Pending \in Nat
<1>. DEFINE q == HeldBags
            total == [v \in Worker |-> SumOver(q[v], Node)]
            l == [v \in Worker |-> limit[v]]
<1>1. \A v \in Worker : \A x \in Node : q[v][x] \in Int
  BY CountedType DEF Bags
<1>2. Counted = [x \in Node |-> SumOver([v \in Worker |-> q[v][x]], Worker)]
  BY CountedIs DEF Total
<1>3. SumOver(total, Worker) = SumOver(Counted, Node)
  <2>. HIDE DEF q
  <2>1. IsFiniteSet(Worker) /\ IsFiniteSet(Node)
    BY BagFacts
  <2>2. SumOver([v \in Worker |-> SumOver(q[v], Node)], Worker)
          = SumOver([x \in Node |-> SumOver([v \in Worker |-> q[v][x]], Worker)], Node)
    BY <1>1, <2>1, SumExchange
  <2>. QED BY <1>2, <2>2
<1>4. Sum(Counted) = SumOver(Counted, Node) /\ Sum(Counted) \in Nat
  BY CountedType, SumBag
<1>5. ASSUME NEW v \in Worker
      PROVE  SumOver(q[v], Node) = Sum(picked[v]) + Sum(ready[v]) + Sum(batch[v])
  <2>1. picked[v] \in Bags /\ ready[v] \in Bags /\ batch[v] \in Bags
    BY DEF BagsOK
  <2>. DEFINE f == picked[v]
              g == ready[v]
              h == batch[v]
              fg == [x \in Node |-> f[x] + g[x]]
              s == q[v]
  <2>2. \A x \in Node : f[x] \in Int /\ g[x] \in Int /\ h[x] \in Int
    BY <2>1, BagFacts
  <2>3. \A x \in Node : fg[x] \in Int /\ fg[x] = f[x] + g[x] /\ s[x] = fg[x] + h[x]
    BY <2>2 DEF HeldBags, HeldBy
  <2>4. Sum(f) = SumOver(f, Node) /\ Sum(g) = SumOver(g, Node) /\ Sum(h) = SumOver(h, Node)
    BY <2>1, SumBag
  <2>. HIDE DEF f, g, h, fg, s
  <2>5. SumOver(fg, Node) = SumOver(f, Node) + SumOver(g, Node)
    BY <2>2, <2>3, SumLinear, BagFacts
  <2>6. SumOver(s, Node) = SumOver(fg, Node) + SumOver(h, Node)
    BY <2>2, <2>3, SumLinear, BagFacts
  <2>7. SumOver(s, Node) = Sum(f) + Sum(g) + Sum(h)
    BY <2>4, <2>5, <2>6
  <2>. QED BY <2>7 DEF f, g, h, s
<1>6. total = [v \in Worker |-> Sum(picked[v]) + Sum(ready[v]) + Sum(batch[v])]
  <2>. HIDE DEF q
  <2>. QED BY <1>5
<1>7. Sum(total) = SumOver(total, Worker) /\ Sum(l) = SumOver(l, Worker)
  BY DEF Sum
<1>8. SumOver(l, Worker) \in Int /\ SumOver(l, Worker) >= 0
  <2>1. \A v \in Worker : l[v] \in Int /\ l[v] >= 0
    BY WorkerAssumption DEF WorkersOK
  <2>. HIDE DEF l
  <2>. QED BY <2>1, SumType, BagFacts
<1>9. Pending = Sum(total) + Sum(l)
  BY <1>6 DEF Pending
<1>. HIDE DEF total, l
<1>. QED BY <1>3, <1>4, <1>7, <1>8, <1>9

(* When nobody holds the lock, no visit is due.                               *)
LEMMA NothingDue ==
  ASSUME OneHolder, Emptied, \A v \in Worker : phase[v] # "pick"
  PROVE  todo = Nothing
BY DEF Emptied

LEMMA NobodyPicks ==
  ASSUME OneHolder, lock = NoWorker
  PROVE  \A v \in Worker : phase[v] # "pick" /\ lock # v
BY WorkerAssumption DEF OneHolder

(* A pick at a root that is a leaf.                                           *)
LEMMA RootLeafKeeps ==
  ASSUME IInv, NEW w \in Worker, phase[w] \in {"idle", "gather"},
         NEW c \in 1..MaxLimit, NEW k \in 1..c, left' = [left EXCEPT ![w] = c],
         PickFromRoot(w, k), Leaf(root)
  PROVE  IInv'
<1>1. TreeOK /\ BagsOK /\ WorkersOK /\ inFlight \in Bags
  BY TypeParts DEF IInv
<1>. DEFINE started == IF MayStart(visits[root], inFlight[root]) THEN 1 ELSE 0
<1>a. /\ lock = NoWorker /\ Bounded(k)
      /\ limit' = [limit EXCEPT ![w] = k]
      /\ inFlight' = Add(inFlight, {root}, started)
      /\ picked' = [picked EXCEPT ![w][root] = @ + started]
      /\ fresh' = [fresh EXCEPT ![w][root] = k - started]
      /\ phase' = [phase EXCEPT ![w] = "process"]
  BY DEF PickFromRoot
<1>b. UNCHANGED treeVars /\ UNCHANGED <<ready, batch, collided, shared, worked, lock, todo>>
  BY DEF PickFromRoot
<1>c. started \in {0, 1} /\ (started = 1 => ~(visits[root] = 0 /\ inFlight[root] > 0))
  BY DEF MayStart
<1>. HIDE DEF started
<1>d. /\ picked[w] = Nothing /\ fresh[w] = Nothing /\ ready[w] = Nothing /\ todo = Nothing
      /\ picked[w] \in Bags /\ fresh[w] \in Bags
      /\ root \in Node /\ root \in Subtree
      /\ k \in Nat /\ k >= 1 /\ c \in 0..MaxLimit /\ k \in 0..MaxLimit /\ k <= c
      /\ \A v \in Worker : phase[v] # "pick" /\ lock # v
  <2>1. EmptiedBy(w)
    BY DEF IInv, Protocol, Emptied
  <2>2. picked[w] = Nothing /\ fresh[w] = Nothing /\ ready[w] = Nothing
    BY <2>1 DEF EmptiedBy
  <2>3. \A v \in Worker : phase[v] # "pick" /\ lock # v
    BY <1>a, NobodyPicks DEF IInv, Protocol
  <2>4. todo = Nothing
    BY <2>3, NothingDue DEF IInv, Protocol
  <2>5. k \in Nat /\ k >= 1 /\ c \in 0..MaxLimit /\ k \in 0..MaxLimit /\ k <= c
    BY WorkerAssumption
  <2>6. root \in Node /\ root \in Subtree
    BY <1>1 DEF TreeOK, Subtree
  <2>. QED BY <1>1, <2>2, <2>3, <2>4, <2>5, <2>6 DEF BagsOK
<1>e. /\ picked'[w][root] = started /\ fresh'[w][root] = k - started
      /\ \A x \in Node \ {root} : picked'[w][x] = 0 /\ fresh'[w][x] = 0
      /\ picked'[w] \in Bags /\ fresh'[w] \in Bags
      /\ \A v \in Worker \ {w} : picked'[v] = picked[v] /\ fresh'[v] = fresh[v]
      /\ limit'[w] = k /\ \A v \in Worker \ {w} : limit'[v] = limit[v]
      /\ left'[w] = c /\ \A v \in Worker \ {w} : left'[v] = left[v]
      /\ \A v \in Worker : phase'[v] = IF v = w THEN "process" ELSE phase[v]
  <2>1. picked'[w] = [picked[w] EXCEPT ![root] = @ + started]
        /\ fresh'[w] = [fresh[w] EXCEPT ![root] = k - started]
    BY <1>1, <1>a DEF BagsOK
  <2>2. picked[w] \in [Node -> Nat] /\ fresh[w] \in [Node -> Nat]
        /\ \A x \in Node : picked[w][x] = 0 /\ fresh[w][x] = 0
    BY <1>d, BagFacts DEF Bags
  <2>3. picked'[w][root] = started /\ fresh'[w][root] = k - started
        /\ \A x \in Node \ {root} : picked'[w][x] = 0 /\ fresh'[w][x] = 0
    BY <1>c, <1>d, <2>1, <2>2
  <2>4. k - started \in Nat /\ started \in Nat
    BY <1>c, <1>d
  <2>5. picked'[w] \in [Node -> Nat] /\ fresh'[w] \in [Node -> Nat]
    <3>. DEFINE f == picked[w]
                g == fresh[w]
                j == k - started
    <3>1. /\ f \in [Node -> Nat] /\ f[root] = 0 /\ g \in [Node -> Nat]
          /\ picked'[w] = [f EXCEPT ![root] = @ + started]
          /\ fresh'[w] = [g EXCEPT ![root] = j] /\ j \in Nat
      BY <1>d, <2>1, <2>2, <2>4
    <3>. HIDE DEF f, g, j
    <3>2. f[root] + started \in Nat
      BY <2>4, <3>1
    <3>3. [f EXCEPT ![root] = @ + started] \in [Node -> Nat]
      BY <3>1, <3>2
    <3>4. [g EXCEPT ![root] = j] \in [Node -> Nat]
      BY <3>1
    <3>. QED BY <3>1, <3>3, <3>4
  <2>6. \A v \in Worker \ {w} : picked'[v] = picked[v] /\ fresh'[v] = fresh[v]
    BY <1>1, <1>a DEF BagsOK
  <2>7. /\ limit'[w] = k /\ \A v \in Worker \ {w} : limit'[v] = limit[v]
        /\ left'[w] = c /\ \A v \in Worker \ {w} : left'[v] = left[v]
        /\ \A v \in Worker : phase'[v] = IF v = w THEN "process" ELSE phase[v]
    BY <1>1, <1>a DEF WorkersOK
  <2>. QED BY <2>3, <2>5, <2>6, <2>7 DEF Bags
<1>4. BagsOK' /\ WorkersOK' /\ OthersRest(w)
  <2>1. picked' \in [Worker -> Bags]
    <3>1. picked' = [v \in Worker |-> picked'[v]]
      BY <1>1, <1>a DEF BagsOK
    <3>2. \A v \in Worker : picked'[v] \in Bags
      BY <1>1, <1>e DEF BagsOK
    <3>. QED BY <3>1, <3>2
  <2>2. fresh' \in [Worker -> Bags]
    <3>1. fresh' = [v \in Worker |-> fresh'[v]]
      BY <1>1, <1>a DEF BagsOK
    <3>2. \A v \in Worker : fresh'[v] \in Bags
      BY <1>1, <1>e DEF BagsOK
    <3>. QED BY <3>1, <3>2
  <2>3. left' \in [Worker -> 0..MaxLimit] /\ limit' \in [Worker -> 0..MaxLimit]
    BY <1>1, <1>a, <1>d DEF WorkersOK
  <2>5. BagsOK'
    BY <1>1, <1>b, <2>1, <2>2 DEF BagsOK
  <2>6. WorkersOK'
    BY <1>1, <1>a, <1>b, <2>3 DEF WorkersOK
  <2>7. OthersRest(w)
    BY <1>b, <1>e DEF OthersRest
  <2>. QED BY <2>5, <2>6, <2>7
<1>5. /\ Counted'[root] = Counted[root] + started
      /\ \A x \in Node \ {root} : Counted'[x] = Counted[x] /\ Collisions'[x] = Collisions[x]
  <2>1. /\ \A x \in Node : Counted'[x]
              = Counted[x] + ((picked'[w][x] + ready'[w][x] + batch'[w][x])
                                - (picked[w][x] + ready[w][x] + batch[w][x]))
        /\ \A x \in Node : Collisions'[x]
              = Collisions[x] + ((todo'[x] + shared'[x] + fresh'[w][x] + collided'[w][x])
                                   - (todo[x] + shared[x] + fresh[w][x] + collided[w][x]))
    BY <1>1, <1>4, WorkerStep
  <2>2. \A x \in Node : picked[w][x] = 0 /\ fresh[w][x] = 0
    BY <1>d, BagFacts
  <2>. QED BY <1>1, <1>b, <1>c, <1>d, <1>e, <2>1, <2>2, PartOf
<1>t. Counted \in Bags /\ Counted' \in Bags /\ Collisions \in Bags /\ Collisions' \in Bags
  BY <1>1, <1>4, CountedType, CountedTypeNext
<1>s. /\ root' = root /\ visits' = visits /\ status' = status
      /\ Subtree' = Subtree /\ \A n : /\ (Leaf(n)' <=> Leaf(n)) /\ (TwoFold(n)' <=> TwoFold(n))
                                      /\ Depth(n)' = Depth(n)
  <2>1. root' = root /\ visits' = visits /\ status' = status
    BY <1>b DEF treeVars
  <2>. QED BY <2>1 DEF Subtree, Leaf, TwoFold, Depth, Ancestors
<1>r. \A n \in Subtree : n \in Node /\ root \notin Below[n]
  <2>1. \A n \in Subtree : n \in Node /\ (n = root \/ n \in Below[root])
    BY <1>d, PathIs, TrailIs DEF Subtree
  <2>2. \A n \in Subtree : n \in Nat /\ root \in Nat /\ (n = root \/ root < n)
    BY <1>d, <2>1, BelowType, Numbered
  <2>3. \A n \in Subtree : \A x \in Below[n] : n < x
    BY <2>1, BelowType
  <2>. QED BY <2>1, <2>2, <2>3
<1>i. /\ inFlight'[root] = inFlight[root] + started
      /\ \A n \in Node \ {root} : inFlight'[n] = inFlight[n]
      /\ inFlight' = [n \in Node |-> inFlight'[n]]
  BY <1>1, <1>a, <1>d, BagFacts DEF Add
<1>f. inFlight[root] = Load(Counted, Collisions, root)
      /\ Counted[root] <= Load(Counted, Collisions, root)
      /\ Load(Counted, Collisions, root) \in Nat /\ Counted[root] \in Nat
  <2>1. Counted[root] <= Load(Counted, Collisions, root) /\ Load(Counted, Collisions, root) \in Nat
    BY <1>d, <1>t, LoadNat
  <2>2. inFlight[root] = Load(Counted, Collisions, root)
    BY <1>d, <2>1 DEF IInv, Flow
  <2>. QED BY <1>d, <1>t, <2>1, <2>2, BagFacts
<1>6. Flow'
  <2>1. ASSUME NEW n \in Subtree
        PROVE  Load(Counted', Collisions', n)
                 = Load(Counted, Collisions, n) + (IF n = root THEN started ELSE 0)
               /\ Load(Counted, Collisions, n) \in Nat
    <3>. DEFINE h == Counted
                h2 == Counted'
                d == Collisions
                d2 == Collisions'
    <3>1. h \in Bags /\ h2 \in Bags /\ d \in Bags /\ d2 \in Bags /\ n \in Node /\ root \in Node
      BY <1>t, <1>r, <1>d
    <3>2. /\ h2[root] = h[root] + started
          /\ \A x \in Node \ {root} : h2[x] = h[x] /\ d2[x] = d[x]
      BY <1>5
    <3>3. h[root] \in Nat
      BY <1>f
    <3>. HIDE DEF h, h2, d, d2
    <3>4. Load(h2, d, n) = Load(h, d, n)
                             + (IF root \in {n} \cup Below[n] THEN h2[root] - h[root] ELSE 0)
      BY <3>1, <3>2, LoadHeld
    <3>5. Load(h2, d2, n) = Load(h2, d, n) + (IF root \in Below[n] THEN d2[root] - d[root] ELSE 0)
      BY <3>1, <3>2, LoadCollides
    <3>6. Load(h2, d, n) \in Nat /\ Load(h, d, n) \in Nat
      BY <3>1, LoadNat
    <3>7. Load(h2, d2, n) = Load(h2, d, n)
      BY <1>r, <3>5, <3>6
    <3>8. Load(h2, d, n) = Load(h, d, n) + (IF n = root THEN started ELSE 0)
      BY <1>r, <1>c, <3>2, <3>3, <3>4, <3>6
    <3>9. Load(h2, d2, n) = Load(h, d, n) + (IF n = root THEN started ELSE 0)
      BY <3>7, <3>8
    <3>. QED BY <3>6, <3>9 DEF h, h2, d, d2
  <2>2. ASSUME NEW n \in Subtree
        PROVE  inFlight'[n] = Load(Counted', Collisions', n) + (IF Leaf(n) THEN 0 ELSE todo[n])
    <3>1. inFlight[n] = Load(Counted, Collisions, n) + (IF Leaf(n) THEN 0 ELSE todo[n])
      BY DEF IInv, Flow
    <3>2. todo[n] = 0
      BY <1>d, <1>r, BagFacts
    <3>. QED BY <1>c, <1>i, <1>r, <2>1, <3>1, <3>2
  <2>3. \A n \in Subtree' : inFlight'[n] = Load(Counted', Collisions', n)
                                            + (IF Leaf(n)' THEN 0 ELSE todo'[n])
    BY <1>b, <1>s, <2>2
  <2>. QED BY <2>3 DEF Flow, Load
<1>7. HeldRight'
  <2>1. ASSUME NEW n \in Node, Counted'[n] > 0
        PROVE  /\ n \in Subtree /\ Leaf(n)
               /\ visits[n] = 0 => Counted'[n] = 1
               /\ TwoFold(n) => Depth(n) >= Cycle[n]
    <3>1. CASE n # root
      <4>1. Counted[n] > 0 /\ Counted'[n] = Counted[n]
        BY <1>5, <2>1, <3>1
      <4>. QED BY <4>1 DEF IInv, Tree, HeldRight
    <3>2. CASE n = root
      <4>1. ~TwoFold(root)
        BY DEF IInv, Tree, Shape
      <4>2. ASSUME visits[root] = 0 PROVE Counted'[root] = 1
        <5>1. CASE started = 1
          <6>1. ~(inFlight[root] > 0)
            BY <1>c, <4>2, <5>1
          <6>2. Counted[root] = 0
            BY <1>f, <6>1
          <6>. QED BY <1>5, <5>1, <6>2
        <5>2. CASE started = 0
          <6>1. Counted'[root] = Counted[root]
            BY <1>5, <1>f, <5>2
          <6>. QED BY <1>d, <2>1, <3>2, <4>2, <6>1 DEF IInv, Tree, HeldRight
        <5>. QED BY <1>c, <5>1, <5>2
      <4>. QED BY <1>d, <3>2, <4>1, <4>2
    <3>. QED BY <3>1, <3>2
  <2>. QED BY <1>s, <2>1 DEF HeldRight
<1>8. \A n \in Subtree : Counted[n] > 0 => Counted'[n] > 0
  BY <1>5, <1>c, <1>f, <1>r
<1>10. EmptiedBy(w)'
  BY <1>e DEF EmptiedBy
<1>11. LimitOf(w)'
  <2>1. Sum(fresh'[w]) = k - started
    <3>. DEFINE f == fresh'[w]
    <3>1. f \in Bags /\ (\A x \in Node \ {root} : f[x] = 0) /\ f[root] = k - started
      BY <1>e
    <3>. HIDE DEF f
    <3>2. Sum(f) = SumOver(f, Node) /\ SumOver(f, Node) = f[root] + SumOver(f, Node \ {root})
      <4>1. \A x \in Node : f[x] \in Int
        BY <3>1, BagFacts
      <4>. QED BY <1>d, <3>1, <4>1, SumBag, SumTake, BagFacts
    <3>3. SumOver(f, Node \ {root}) = 0
      <4>1. IsFiniteSet(Node \ {root})
        BY BagFacts, FS_Subset
      <4>. QED BY <3>1, <4>1, SumZero
    <3>4. k - started \in Int
      BY <1>c, <1>d
    <3>5. Sum(f) = k - started
      BY <3>1, <3>2, <3>3, <3>4
    <3>. QED BY <3>5 DEF f
  <2>. QED BY <1>c, <1>d, <1>e, <2>1 DEF LimitOf
<1>12. OneHolder' /\ Emptied' /\ Limits'
  <2>1. NoWorker # w
    BY WorkerAssumption
  <2>2. lock' # w /\ lock' = lock
    BY <1>b, <1>d
  <2>. QED BY <1>4, <1>b, <1>d, <1>e, <1>10, <1>11, <2>1, <2>2, ProtocolStep DEF IInv, Protocol
<1>13. Pool'
  <2>1. Sum(Counted') = Sum(Counted) + started
    <3>. DEFINE h == Counted
                h2 == Counted'
    <3>1. /\ \A x \in Node : h[x] \in Int /\ h2[x] \in Int
          /\ \A x \in Node \ {root} : h2[x] = h[x]
          /\ h2[root] = h[root] + started
      BY <1>5, <1>t, BagFacts
    <3>2. Sum(h) = SumOver(h, Node) /\ Sum(h2) = SumOver(h2, Node) /\ Sum(h) \in Nat
      BY <1>t, SumBag
    <3>. HIDE DEF h, h2
    <3>3. SumOver(h2, Node) = SumOver(h, Node) + (h2[root] - h[root])
      BY <1>d, <3>1, SumOne, BagFacts
    <3>4. Sum(h2) = Sum(h) + started
      BY <1>c, <1>d, <3>1, <3>2, <3>3
    <3>. QED BY <3>4 DEF h, h2
  <2>2. playouts + Pending + k <= MaxPlayouts
    BY <1>a DEF Bounded
  <2>3. Sum(Counted) <= Pending /\ Sum(Counted) \in Nat /\ Pending \in Nat
    BY <1>1, HeldArePending
  <2>4. Sum(todo') = 0 /\ playouts' = playouts /\ playouts \in Nat
    BY <1>1, <1>b, <1>d, SumBag, BagFacts, WorkerAssumption DEF treeVars, TreeOK
  <2>5. playouts' + Sum(Counted') + Sum(todo') <= MaxPlayouts
    BY <1>c, <1>d, <2>1, <2>2, <2>3, <2>4, WorkerAssumption
  <2>. QED BY <2>5 DEF Pool
<1>14. Picking'
  <2>1. \A v \in Worker : phase'[v] # "pick"
    BY <1>d, <1>e
  <2>2. Due' = {}
    BY <1>b, <1>d, BagFacts DEF Due
  <2>. QED BY <2>1, <2>2 DEF Picking
<1>15. /\ \A n \in Node \ Subtree : inFlight'[n] = inFlight[n]
       /\ \A n \in Subtree \ {root} : inFlight[n] = 0 => inFlight'[n] = 0
  BY <1>d, <1>i, <1>r
<1>. QED BY <1>b, <1>4, <1>6, <1>7, <1>8, <1>12, <1>13, <1>14, <1>15, <1>i, RestKeeps

(* A pick at a root that is not a leaf starts its way down.                   *)
LEMMA RootInnerKeeps ==
  ASSUME IInv, NEW w \in Worker, phase[w] \in {"idle", "gather"},
         NEW c \in 1..MaxLimit, NEW k \in 1..c, left' = [left EXCEPT ![w] = c],
         PickFromRoot(w, k), ~Leaf(root)
  PROVE  IInv'
<1>1. TreeOK /\ BagsOK /\ WorkersOK /\ inFlight \in Bags
  BY TypeParts DEF IInv
<1>a. /\ lock = NoWorker /\ Bounded(k) /\ lock' = w
      /\ limit' = [limit EXCEPT ![w] = k]
      /\ inFlight' = Add(inFlight, {root}, k)
      /\ todo' = [todo EXCEPT ![root] = k]
      /\ phase' = [phase EXCEPT ![w] = "pick"]
  BY DEF PickFromRoot
<1>b. UNCHANGED treeVars /\ UNCHANGED <<picked, fresh, ready, batch, collided, shared, worked>>
  BY DEF PickFromRoot
<1>d. /\ picked[w] = Nothing /\ fresh[w] = Nothing /\ ready[w] = Nothing /\ todo = Nothing
      /\ root \in Node /\ root \in Subtree
      /\ k \in Nat /\ k >= 1 /\ c \in 0..MaxLimit /\ k \in 0..MaxLimit /\ k <= c
      /\ \A v \in Worker : phase[v] # "pick" /\ lock # v
  <2>1. EmptiedBy(w)
    BY DEF IInv, Protocol, Emptied
  <2>2. picked[w] = Nothing /\ fresh[w] = Nothing /\ ready[w] = Nothing
    BY <2>1 DEF EmptiedBy
  <2>3. \A v \in Worker : phase[v] # "pick" /\ lock # v
    BY <1>a, NobodyPicks DEF IInv, Protocol
  <2>4. todo = Nothing
    BY <2>3, NothingDue DEF IInv, Protocol
  <2>5. k \in Nat /\ k >= 1 /\ c \in 0..MaxLimit /\ k \in 0..MaxLimit /\ k <= c
    BY WorkerAssumption
  <2>6. root \in Node /\ root \in Subtree
    BY <1>1 DEF TreeOK, Subtree
  <2>. QED BY <1>1, <2>2, <2>3, <2>4, <2>5, <2>6
<1>e. /\ todo'[root] = k /\ \A x \in Node \ {root} : todo'[x] = 0
      /\ todo' \in Bags
      /\ limit'[w] = k /\ \A v \in Worker \ {w} : limit'[v] = limit[v]
      /\ left'[w] = c /\ \A v \in Worker \ {w} : left'[v] = left[v]
      /\ \A v \in Worker : phase'[v] = IF v = w THEN "pick" ELSE phase[v]
  <2>1. todo \in [Node -> Nat] /\ \A x \in Node : todo[x] = 0
    BY <1>1, <1>d, BagFacts DEF BagsOK, Bags
  <2>2. todo'[root] = k /\ \A x \in Node \ {root} : todo'[x] = 0
    BY <1>a, <1>d, <2>1
  <2>3. todo' \in Bags
    BY <1>a, <1>d, <2>1 DEF Bags
  <2>4. /\ limit'[w] = k /\ \A v \in Worker \ {w} : limit'[v] = limit[v]
        /\ left'[w] = c /\ \A v \in Worker \ {w} : left'[v] = left[v]
        /\ \A v \in Worker : phase'[v] = IF v = w THEN "pick" ELSE phase[v]
    BY <1>1, <1>a DEF WorkersOK
  <2>. QED BY <2>2, <2>3, <2>4
<1>4. BagsOK' /\ WorkersOK' /\ OthersRest(w)
  <2>3. left' \in [Worker -> 0..MaxLimit] /\ limit' \in [Worker -> 0..MaxLimit]
    BY <1>1, <1>a, <1>d DEF WorkersOK
  <2>5. BagsOK'
    BY <1>1, <1>b, <1>e DEF BagsOK
  <2>6. WorkersOK'
    BY <1>1, <1>a, <1>b, <2>3 DEF WorkersOK
  <2>7. OthersRest(w)
    BY <1>b, <1>e DEF OthersRest
  <2>. QED BY <2>5, <2>6, <2>7
<1>5. Counted' = Counted /\ \A x \in Node \ {root} : Collisions'[x] = Collisions[x]
  <2>1. Counted' = Counted
    BY <1>b DEF Counted, HeldBy
  <2>2. \A x \in Node : Collisions'[x]
              = Collisions[x] + ((todo'[x] + shared'[x] + fresh'[w][x] + collided'[w][x])
                                   - (todo[x] + shared[x] + fresh[w][x] + collided[w][x]))
    BY <1>1, <1>4, WorkerStep
  <2>3. \A x \in Node : todo[x] = 0
    BY <1>d, BagFacts
  <2>. QED BY <1>1, <1>b, <1>e, <2>1, <2>2, <2>3, PartOf
<1>t. Counted \in Bags /\ Collisions \in Bags /\ Collisions' \in Bags
  BY <1>1, <1>4, CountedType, CountedTypeNext
<1>s. Subtree' = Subtree /\ \A n : Leaf(n)' <=> Leaf(n)
  BY <1>b DEF Subtree, Leaf, treeVars
<1>r. \A n \in Subtree : n \in Node /\ root \notin Below[n]
  <2>1. \A n \in Subtree : n \in Node /\ (n = root \/ n \in Below[root])
    BY <1>d, PathIs, TrailIs DEF Subtree
  <2>2. \A n \in Subtree : n \in Nat /\ root \in Nat /\ (n = root \/ root < n)
    BY <1>d, <2>1, BelowType, Numbered
  <2>3. \A n \in Subtree : \A x \in Below[n] : n < x
    BY <2>1, BelowType
  <2>. QED BY <2>1, <2>2, <2>3
<1>i. /\ inFlight'[root] = inFlight[root] + k
      /\ \A n \in Node \ {root} : inFlight'[n] = inFlight[n]
      /\ inFlight' = [n \in Node |-> inFlight'[n]]
  BY <1>1, <1>a, <1>d, BagFacts DEF Add
<1>6. Flow'
  <2>1. ASSUME NEW n \in Subtree
        PROVE  Load(Counted', Collisions', n) = Load(Counted, Collisions, n)
               /\ Load(Counted, Collisions, n) \in Nat
    <3>. DEFINE h == Counted
                d == Collisions
                d2 == Collisions'
    <3>1. h \in Bags /\ d \in Bags /\ d2 \in Bags /\ n \in Node /\ root \in Node
          /\ \A x \in Node \ {root} : d2[x] = d[x]
      BY <1>t, <1>r, <1>d, <1>5
    <3>. HIDE DEF h, d, d2
    <3>5. Load(h, d2, n) = Load(h, d, n) + (IF root \in Below[n] THEN d2[root] - d[root] ELSE 0)
      BY <3>1, LoadCollides
    <3>6. Load(h, d, n) \in Nat
      BY <3>1, LoadNat
    <3>7. Load(h, d2, n) = Load(h, d, n)
      BY <1>r, <3>5, <3>6
    <3>. QED BY <1>5, <3>6, <3>7 DEF h, d, d2
  <2>2. ASSUME NEW n \in Subtree
        PROVE  inFlight'[n] = Load(Counted', Collisions', n) + (IF Leaf(n) THEN 0 ELSE todo'[n])
    <3>1. inFlight[n] = Load(Counted, Collisions, n) + (IF Leaf(n) THEN 0 ELSE todo[n])
      BY DEF IInv, Flow
    <3>2. todo[n] = 0
      BY <1>d, <1>r, BagFacts
    <3>. QED BY <1>d, <1>e, <1>i, <1>r, <2>1, <3>1, <3>2
  <2>3. \A n \in Subtree' : inFlight'[n] = Load(Counted', Collisions', n)
                                            + (IF Leaf(n)' THEN 0 ELSE todo'[n])
    BY <1>s, <2>2
  <2>. QED BY <2>3 DEF Flow, Load
<1>7. HeldRight' /\ \A n \in Subtree : Counted[n] > 0 => Counted'[n] > 0
  BY <1>b, <1>5, HeldRests DEF IInv, Tree
<1>8. Sum(todo') = k
  <2>. DEFINE f == todo'
  <2>1. f \in Bags /\ (\A x \in Node \ {root} : f[x] = 0) /\ f[root] = k
    BY <1>e
  <2>. HIDE DEF f
  <2>2. Sum(f) = SumOver(f, Node) /\ SumOver(f, Node) = f[root] + SumOver(f, Node \ {root})
    <3>1. \A x \in Node : f[x] \in Int
      BY <2>1, BagFacts
    <3>. QED BY <1>d, <2>1, <3>1, SumBag, SumTake, BagFacts
  <2>3. SumOver(f, Node \ {root}) = 0
    <3>1. IsFiniteSet(Node \ {root})
      BY BagFacts, FS_Subset
    <3>. QED BY <2>1, <3>1, SumZero
  <2>4. Sum(f) = k
    BY <1>d, <2>1, <2>2, <2>3
  <2>. QED BY <2>4 DEF f
<1>10. EmptiedBy(w)'
  BY <1>b, <1>d, <1>e DEF IInv, Protocol, Emptied, EmptiedBy
<1>11. LimitOf(w)'
  <2>1. Sum(fresh'[w]) = 0
    BY <1>b, <1>d, SumBag, BagFacts
  <2>. QED BY <1>d, <1>e, <1>8, <2>1 DEF LimitOf
<1>12. OneHolder' /\ Emptied' /\ Limits'
  <2>1. NoWorker # w
    BY WorkerAssumption
  <2>. QED BY <1>4, <1>a, <1>b, <1>d, <1>e, <1>10, <1>11, <2>1, ProtocolStep DEF IInv, Protocol
<1>13. Pool'
  <2>2. playouts + Pending + k <= MaxPlayouts
    BY <1>a DEF Bounded
  <2>3. Sum(Counted) <= Pending /\ Sum(Counted) \in Nat /\ Pending \in Nat
    BY <1>1, HeldArePending
  <2>4. playouts' = playouts /\ playouts \in Nat
    BY <1>1, <1>b, WorkerAssumption DEF treeVars, TreeOK
  <2>5. playouts' + Sum(Counted') + Sum(todo') <= MaxPlayouts
    BY <1>d, <1>5, <1>8, <2>2, <2>3, <2>4, WorkerAssumption
  <2>. QED BY <2>5 DEF Pool
<1>14. Picking'
  <2>1. \A v \in Worker \ {w} : phase'[v] # "pick"
    BY <1>d, <1>e
  <2>2. Due' \subseteq Subtree'
    BY <1>d, <1>e, <1>s DEF Due
  <2>3. \A x \in Node : fresh'[w][x] = 0
    BY <1>b, <1>d, BagFacts
  <2>. QED BY <2>1, <2>2, <2>3 DEF Picking
<1>15. /\ \A n \in Node \ Subtree : inFlight'[n] = inFlight[n]
       /\ \A n \in Subtree \ {root} : inFlight[n] = 0 => inFlight'[n] = 0
  BY <1>d, <1>i, <1>r
<1>. QED BY <1>b, <1>4, <1>6, <1>7, <1>12, <1>13, <1>14, <1>15, <1>i, RestKeeps

LEMMA BeginIterationKeeps ==
  ASSUME IInv, NEW w \in Worker, BeginIteration(w)
  PROVE  IInv'
<1>1. PICK c \in 1..MaxLimit : /\ left' = [left EXCEPT ![w] = c]
                               /\ \E k \in 1..c : PickFromRoot(w, k)
  BY DEF BeginIteration
<1>2. PICK k \in 1..c : PickFromRoot(w, k)
  BY <1>1
<1>3. phase[w] \in {"idle", "gather"}
  BY DEF BeginIteration
<1>4. CASE Leaf(root)
  BY <1>1, <1>2, <1>3, <1>4, RootLeafKeeps
<1>5. CASE ~Leaf(root)
  BY <1>1, <1>2, <1>3, <1>5, RootInnerKeeps
<1>. QED BY <1>4, <1>5

LEMMA PickAgainKeeps ==
  ASSUME IInv, NEW w \in Worker, PickAgain(w)
  PROVE  IInv'
<1>1. PICK k \in 1..left[w] : PickFromRoot(w, k)
  BY DEF PickAgain
<1>. DEFINE c == left[w]
<1>2. left \in [Worker -> 0..MaxLimit]
  BY TypeParts DEF IInv, WorkersOK
<1>3. c \in 1..MaxLimit /\ left' = [left EXCEPT ![w] = c] /\ k \in 1..c
  BY <1>1, <1>2, WorkerAssumption DEF PickAgain
<1>4. phase[w] \in {"idle", "gather"}
  BY DEF PickAgain
<1>. HIDE DEF c
<1>5. CASE Leaf(root)
  BY <1>1, <1>3, <1>4, <1>5, RootLeafKeeps
<1>6. CASE ~Leaf(root)
  BY <1>1, <1>3, <1>4, <1>6, RootInnerKeeps
<1>. QED BY <1>5, <1>6

-----------------------------------------------------------------------------
(* A leaf is extended.                                                     *)

Statuses == [term : {"no", "end", "twofold"}, lo : Outcome, up : Outcome]

(* What extending a leaf that a worker holds may do to it.                    *)
Extended(n) ==
  /\ \A m \in Node \ {n} : status'[m] = status[m] /\ edges'[m] = edges[m]
  /\ status' \in [Node -> Statuses] /\ edges' \in [Node -> SUBSET Node]
  /\ status'[n] # status[n] => visits[n] = 0 /\ status[n].term = "no"
  /\ edges'[n] # edges[n] => /\ visits[n] = 0 /\ edges'[n] = Kids(n)
                             /\ n = root \/ Ending[n] # "rule"
  /\ status'[n] # status[n] /\ status'[n].term = "twofold" =>
       n # root /\ Depth(n) >= Cycle[n]
  /\ status'[n] # status[n] =>
       /\ status'[n].lo <= Truth[n] /\ Truth[n] <= status'[n].up
       /\ status'[n].term = "end" => status'[n].lo = status'[n].up

(* ExtendNode does what Extended says.                                        *)
LEMMA ExtendedIs ==
  ASSUME TreeOK, BoundsAreTrue, NEW n \in Subtree, Leaf(n), n \in Node,
         IF status[n].term = "no" THEN ExtendNode(n) ELSE UNCHANGED <<status, edges>>
  PROVE  Extended(n)
<1>1. status \in [Node -> Statuses] /\ edges \in [Node -> SUBSET Node]
  BY DEF TreeOK, Statuses
<1>2. CASE status[n].term # "no"
  BY <1>1, <1>2 DEF Extended
<1>3. CASE status[n].term = "no"
  <2>1. visits[n] = 0 /\ ExtendNode(n)
    BY <1>3 DEF Leaf
  <2>2. CASE EndsByPosition(n) \/ (n # root /\ (Ending[n] = "rule" \/ TwoFoldNow(n)))
    <3>1. CASE EndsByPosition(n) \/ Ending[n] = "rule"
      <4>. DEFINE s == [term |-> "end", lo |-> Truth[n], up |-> Truth[n]]
      <4>1. status' = [status EXCEPT ![n] = s] /\ edges' = edges
        BY <2>1, <2>2, <3>1 DEF ExtendNode, Terminal
      <4>2. Truth[n] \in Outcome
        BY TruthType
      <4>3. s \in Statuses /\ s.lo = Truth[n] /\ s.up = Truth[n] /\ s.term = "end"
        BY <4>2 DEF Statuses
      <4>. HIDE DEF s
      <4>4. status'[n] = s /\ \A m \in Node \ {n} : status'[m] = status[m]
        BY <1>1, <4>1
      <4>5. status' \in [Node -> Statuses]
        BY <1>1, <4>1, <4>3
      <4>6. s.lo <= Truth[n] /\ Truth[n] <= s.up
        BY <4>2, <4>3 DEF Outcome, BlackWon, WhiteWon
      <4>. QED BY <1>1, <1>3, <2>1, <4>1, <4>3, <4>4, <4>5, <4>6 DEF Extended
    <3>2. CASE ~(EndsByPosition(n) \/ Ending[n] = "rule")
      <4>. DEFINE s == [status[n] EXCEPT !.term = "twofold"]
      <4>1. status' = [status EXCEPT ![n] = s] /\ edges' = edges
        BY <1>1, <2>1, <2>2, <3>2 DEF ExtendNode, Terminal
      <4>2. status[n] \in Statuses
        BY <1>1
      <4>3. s \in Statuses /\ s.lo = status[n].lo /\ s.up = status[n].up /\ s.term = "twofold"
        BY <4>2 DEF Statuses
      <4>. HIDE DEF s
      <4>4. status'[n] = s /\ \A m \in Node \ {n} : status'[m] = status[m]
        BY <1>1, <4>1
      <4>5. status' \in [Node -> Statuses]
        BY <1>1, <4>1, <4>3
      <4>6. n # root /\ Depth(n) >= Cycle[n]
        BY <2>2, <3>2 DEF TwoFoldNow
      <4>7. status[n].lo <= Truth[n] /\ Truth[n] <= status[n].up
        BY DEF BoundsAreTrue
      <4>. QED BY <1>1, <1>3, <2>1, <4>1, <4>3, <4>4, <4>5, <4>6, <4>7 DEF Extended
    <3>. QED BY <3>1, <3>2
  <2>3. CASE ~(EndsByPosition(n) \/ (n # root /\ (Ending[n] = "rule" \/ TwoFoldNow(n))))
    <3>1. edges' = [edges EXCEPT ![n] = Kids(n)] /\ status' = status
      BY <2>1, <2>3 DEF ExtendNode
    <3>2. edges' \in [Node -> SUBSET Node] /\ edges'[n] = Kids(n)
          /\ \A m \in Node \ {n} : edges'[m] = edges[m]
      BY <1>1, <3>1, KidsType
    <3>. QED BY <1>1, <2>1, <2>3, <3>1, <3>2 DEF Extended
  <2>. QED BY <2>2, <2>3
<1>. QED BY <1>2, <1>3

(* Extending a held leaf keeps what the invariant says of the tree.           *)
LEMMA ExtendedTree ==
  ASSUME TreeOK, Tree, Numbers, BoundsAreTrue, NEW n \in Subtree, Leaf(n), n \in Node,
         Counted[n] > 0, Extended(n), Counted' = Counted, inFlight' = inFlight,
         UNCHANGED <<root, initial, playouts, visits>>
  PROVE  /\ TreeOK' /\ Tree' /\ Numbers' /\ BoundsAreTrue'
         /\ Subtree' = Subtree /\ \A m \in Subtree : Leaf(m)' <=> Leaf(m)
<1>0. root \in Node /\ \A m \in Subtree : m \in Node
  BY PathIs, TrailIs DEF TreeOK
<1>1. TreeOK'
  BY DEF TreeOK, Extended, Statuses
<1>2. Subtree' = Subtree /\ \A m : Depth(m)' = Depth(m)
  BY DEF Subtree, Depth, Ancestors
<1>3. \A m \in Subtree : Leaf(m)' <=> Leaf(m)
  BY <1>0 DEF Extended, Leaf
<1>4. \A m \in Node \ {n} : TwoFold(m)' <=> TwoFold(m)
  BY DEF Extended, TwoFold
<1>5. TwoFold(n)' => TwoFold(n) \/ (visits[n] = 0 /\ n # root /\ Depth(n) >= Cycle[n])
  BY DEF Extended, TwoFold
<1>6. TwoFold(n) => TwoFold(n)'
  BY DEF Extended, TwoFold
<1>a. HeldRight'
  <2>1. ASSUME NEW m \in Node, Counted[m] > 0
        PROVE  /\ m \in Subtree /\ Leaf(m)' /\ (visits[m] = 0 => Counted[m] = 1)
               /\ (TwoFold(m)' => Depth(m) >= Cycle[m])
    BY <1>3, <1>4, <1>5, <2>1 DEF Tree, HeldRight
  <2>. QED BY <1>2, <2>1 DEF HeldRight
<1>b. Untouched'
  <2>1. \A m \in Subtree : visits[m] = 0 \/ TwoFold(m)' => visits[m] = 0 \/ TwoFold(m)
    BY <1>0, <1>4, <1>5
  <2>. QED BY <1>2, <2>1 DEF Tree, Untouched
<1>c. TwoFoldHeld'
  <2>1. \A m \in Subtree : TwoFold(m)' /\ visits[m] = 0 => Counted[m] > 0
    BY <1>0, <1>4 DEF Tree, TwoFoldHeld
  <2>. QED BY <1>2, <2>1 DEF TwoFoldHeld
<1>d. Shape'
  <2>1. ~TwoFold(root)'
    BY <1>0, <1>4, <1>5 DEF Tree, Shape
  <2>2. \A m \in Subtree : edges'[m] \in {{}, Kids(m)}
    BY <1>0 DEF Tree, Shape, Extended
  <2>3. \A m \in Node : \A x \in Node \ {Top} : x \in edges[m] /\ Parent[x] = m => x \in edges'[m]
    BY DEF Kids, Extended
  <2>4. \A m \in Subtree \ {root} : visits[m] > 0 \/ inFlight[m] > 0 => m \in edges'[Parent[m]]
    <3>1. \A m \in Subtree \ {root} : m \in Node \ {Top} /\ Parent[m] \in Node
      BY <1>0, PathIs, TrailGoesUp, TrailIs
    <3>. QED BY <2>3, <3>1 DEF Tree, Shape
  <2>5. \A m \in Subtree \ {root} : Ending[m] = "rule" => edges'[m] = {}
    BY <1>0 DEF Tree, Shape, Extended
  <2>6. \A a \in ({root} \cup Above[root]) \ {Top} : a \in edges'[Parent[a]]
    <3>1. \A a \in ({root} \cup Above[root]) \ {Top} : a \in Node \ {Top} /\ Parent[a] \in Node
      BY <1>0, AboveType, Numbered
    <3>. QED BY <2>3, <3>1 DEF Tree, Shape
  <2>. QED BY <1>2, <2>1, <2>2, <2>4, <2>5, <2>6 DEF Shape
<1>e. VisitsAccounted'
  <2>1. ASSUME NEW m \in Subtree, visits[m] > 0, status'[m].term = "no"
        PROVE  visits[m] = 1 + SumOver(visits, edges'[m])
    <3>1. status'[m] = status[m] /\ edges'[m] = edges[m]
      BY <1>0, <2>1 DEF Extended
    <3>. QED BY <2>1, <3>1 DEF Numbers, VisitsAccounted
  <2>2. visits[root] = initial + playouts
    BY DEF Numbers, VisitsAccounted
  <2>. QED BY <1>2, <2>1, <2>2 DEF VisitsAccounted
<1>f. DrawVisits' = DrawVisits
  <2>1. \A x \in Node : (IF TwoFold(x)' THEN visits[x] ELSE 0) = (IF TwoFold(x) THEN visits[x] ELSE 0)
    BY <1>4, <1>5, <1>6
  <2>. QED BY <2>1 DEF DrawVisits
<1>g. StaleVisits' = StaleVisits
  <2>1. \A x \in Node : Stale(x)' = Stale(x)
    <3>1. \A x \in Node \ {n} : Stale(x)' = Stale(x)
      BY <1>2 DEF Extended, Stale
    <3>2. Stale(n)' = Stale(n)
      BY <1>2 DEF Extended, Stale
    <3>. QED BY <3>1, <3>2
  <2>. QED BY <2>1 DEF StaleVisits
<1>h. DrawsCounted' /\ StaleCounted'
  <2>1. \A m \in Subtree : visits[m] > 0 /\ ~TwoFold(m)' => visits[m] > 0 /\ ~TwoFold(m)
    BY <1>0, <1>4, <1>6
  <2>2. DrawsCounted'
    BY <1>2, <1>f, <2>1 DEF Numbers, DrawsCounted
  <2>3. StaleCounted'
    BY <1>2, <1>g DEF Numbers, StaleCounted
  <2>. QED BY <2>2, <2>3
<1>i. BoundsAreTrue'
  <2>1. ASSUME NEW m \in Subtree
        PROVE  /\ status'[m].lo <= Truth[m] /\ Truth[m] <= status'[m].up
               /\ status'[m].term = "end" => status'[m].lo = status'[m].up
    <3>1. CASE status'[m] = status[m]
      BY <3>1 DEF BoundsAreTrue
    <3>2. CASE status'[m] # status[m]
      BY <1>0, <3>2 DEF Extended
    <3>. QED BY <3>1, <3>2
  <2>. QED BY <1>2, <2>1 DEF BoundsAreTrue
<1>. QED BY <1>1, <1>2, <1>3, <1>a, <1>b, <1>c, <1>d, <1>e, <1>h, <1>i DEF Tree, Numbers

(* One bag of a worker, with k more at a node.                                *)
Changed(q, w, n, k) == [q EXCEPT ![w][n] = @ + k]

(* What Changed makes of the bags.                                            *)
LEMMA ChangedIs ==
  ASSUME NEW w \in Worker, NEW q \in [Worker -> Bags], NEW n \in Node, NEW k \in Int,
         q[w][n] + k >= 0
  PROVE  /\ Changed(q, w, n, k) \in [Worker -> Bags]
         /\ Changed(q, w, n, k)[w][n] = q[w][n] + k
         /\ \A x \in Node \ {n} : Changed(q, w, n, k)[w][x] = q[w][x]
         /\ \A v \in Worker \ {w} : Changed(q, w, n, k)[v] = q[v]
<1>. DEFINE f == q[w]
            s == Changed(q, w, n, k)
<1>1. f \in [Node -> Nat] /\ f[n] \in Nat /\ f[n] + k >= 0
  BY DEF Bags
<1>2. s = [q EXCEPT ![w] = [f EXCEPT ![n] = f[n] + k]]
  BY DEF Changed
<1>. HIDE DEF f, s
<1>3. f[n] + k \in Nat
  BY <1>1
<1>4. [f EXCEPT ![n] = f[n] + k] \in Bags
  BY <1>1, <1>3 DEF Bags
<1>5. s \in [Worker -> Bags] /\ s[w] = [f EXCEPT ![n] = f[n] + k]
      /\ \A v \in Worker \ {w} : s[v] = q[v]
  BY <1>2, <1>4
<1>6. s[w][n] = f[n] + k /\ \A x \in Node \ {n} : s[w][x] = f[x]
  BY <1>1, <1>5
<1>. QED BY <1>5, <1>6 DEF f, s

(* A picked node is extended, without the lock.                               *)
LEMMA ProcessPickedKeeps ==
  ASSUME IInv, NEW w \in Worker, ProcessPicked(w)
  PROVE  IInv'
<1>1. TreeOK /\ BagsOK /\ WorkersOK /\ inFlight \in Bags
  BY TypeParts DEF IInv
<1>. DEFINE n == Min({x \in Node : picked[w][x] > 0})
<1>a. /\ phase[w] = "process" /\ picked[w] # Nothing
      /\ IF status[n].term = "no" THEN ExtendNode(n) ELSE UNCHANGED <<status, edges>>
      /\ picked' = [picked EXCEPT ![w][n] = @ - 1]
      /\ \/ ready' = [ready EXCEPT ![w][n] = @ + 1] /\ batch' = batch
         \/ batch' = [batch EXCEPT ![w][n] = @ + 1] /\ ready' = ready
  BY DEF ProcessPicked
<1>b. UNCHANGED <<root, initial, playouts, visits, inFlight, fresh, collided, shared, lock,
                 phase, left, limit, todo, worked>>
  BY DEF ProcessPicked, collVars
<1>c. n \in Node /\ picked[w][n] > 0
  <2>1. picked[w] \in Bags
    BY <1>1 DEF BagsOK
  <2>2. \E x \in Node : picked[w][x] > 0
    <3>1. \A x \in Node : picked[w][x] \in Nat
      BY <2>1, BagFacts
    <3>. QED BY <1>a, <2>1, <3>1, BagFacts
  <2>. DEFINE S == {x \in Node : picked[w][x] > 0}
  <2>3. S \in SUBSET Nat /\ S # {}
    BY <2>2, Numbered
  <2>. HIDE DEF S
  <2>4. Min(S) \in S
    BY <2>3, MinIs
  <2>. QED BY <2>4 DEF S
<1>. HIDE DEF n
<1>d. Counted[n] > 0 /\ n \in Subtree /\ Leaf(n)
  <2>1. Counted[n] > 0
    BY <1>1, <1>c, PartOf
  <2>. QED BY <1>c, <2>1 DEF IInv, Tree, HeldRight
<1>e. Extended(n)
  BY <1>1, <1>a, <1>c, <1>d, ExtendedIs DEF IInv
<1>k. /\ picked' \in [Worker -> Bags] /\ picked'[w][n] = picked[w][n] - 1
      /\ \A x \in Node \ {n} : picked'[w][x] = picked[w][x]
      /\ \A v \in Worker \ {w} : picked'[v] = picked[v]
  <2>1. picked' = Changed(picked, w, n, -1)
    BY <1>1, <1>a DEF Changed, BagsOK
  <2>2. picked[w][n] + (-1) >= 0 /\ picked[w][n] \in Nat /\ picked \in [Worker -> Bags]
    BY <1>1, <1>c, PartOf DEF BagsOK
  <2>. QED BY <1>c, <2>1, <2>2, ChangedIs
<1>f. /\ ready' \in [Worker -> Bags] /\ batch' \in [Worker -> Bags]
      /\ \A v \in Worker \ {w} : ready'[v] = ready[v] /\ batch'[v] = batch[v]
      /\ \A x \in Node \ {n} : ready'[w][x] = ready[w][x] /\ batch'[w][x] = batch[w][x]
      /\ \/ ready'[w][n] = ready[w][n] + 1 /\ batch'[w][n] = batch[w][n]
         \/ ready'[w][n] = ready[w][n] /\ batch'[w][n] = batch[w][n] + 1
  <2>0. ready \in [Worker -> Bags] /\ batch \in [Worker -> Bags]
    BY <1>1 DEF BagsOK
  <2>1. CASE ready' = [ready EXCEPT ![w][n] = @ + 1] /\ batch' = batch
    <3>1. /\ ready' \in [Worker -> Bags] /\ ready'[w][n] = ready[w][n] + 1
          /\ \A x \in Node \ {n} : ready'[w][x] = ready[w][x]
          /\ \A v \in Worker \ {w} : ready'[v] = ready[v]
      <4>1. ready' = Changed(ready, w, n, 1) /\ ready[w][n] + 1 >= 0 /\ 1 \in Int
        BY <1>1, <1>c, <2>1, PartOf DEF Changed
      <4>. QED BY <1>c, <2>0, <4>1, ChangedIs
    <3>. QED BY <2>0, <2>1, <3>1
  <2>2. CASE batch' = [batch EXCEPT ![w][n] = @ + 1] /\ ready' = ready
    <3>1. /\ batch' \in [Worker -> Bags] /\ batch'[w][n] = batch[w][n] + 1
          /\ \A x \in Node \ {n} : batch'[w][x] = batch[w][x]
          /\ \A v \in Worker \ {w} : batch'[v] = batch[v]
      <4>1. batch' = Changed(batch, w, n, 1) /\ batch[w][n] + 1 >= 0 /\ 1 \in Int
        BY <1>1, <1>c, <2>2, PartOf DEF Changed
      <4>. QED BY <1>c, <2>0, <4>1, ChangedIs
    <3>. QED BY <2>0, <2>2, <3>1
  <2>. QED BY <1>a, <2>1, <2>2
<1>4. BagsOK' /\ WorkersOK' /\ OthersRest(w)
  <2>1. BagsOK'
    BY <1>1, <1>b, <1>k, <1>f DEF BagsOK
  <2>2. WorkersOK'
    BY <1>1, <1>b DEF WorkersOK
  <2>3. OthersRest(w)
    BY <1>b, <1>k, <1>f DEF OthersRest
  <2>. QED BY <2>1, <2>2, <2>3
<1>5. Counted' = Counted /\ Collisions' = Collisions
  <2>1. \A x \in Node : Counted'[x]
              = Counted[x] + ((picked'[w][x] + ready'[w][x] + batch'[w][x])
                                - (picked[w][x] + ready[w][x] + batch[w][x]))
    BY <1>1, <1>4, WorkerStep
  <2>2. \A x \in Node : Counted'[x] = Counted[x]
    BY <1>1, <1>c, <1>k, <1>f, <2>1, PartOf
  <2>3. Counted \in Bags /\ Counted' \in Bags
    BY <1>1, <1>4, CountedType, CountedTypeNext
  <2>4. Counted' = Counted
    BY <2>2, <2>3, BagsEqual
  <2>5. Collisions' = Collisions
    BY <1>b DEF Collisions, CollidesOf
  <2>. QED BY <2>4, <2>5
<1>6. /\ TreeOK' /\ Tree' /\ Numbers' /\ BoundsAreTrue'
      /\ Subtree' = Subtree /\ \A m \in Subtree : Leaf(m)' <=> Leaf(m)
  BY <1>1, <1>b, <1>c, <1>d, <1>e, <1>5, ExtendedTree DEF IInv
<1>7. Flow'
  BY <1>b, <1>5, <1>6 DEF IInv, Flow, Load
<1>10. EmptiedBy(w)'
  BY <1>a, <1>b DEF EmptiedBy
<1>11. LimitOf(w)'
  BY <1>b DEF IInv, Protocol, Limits, LimitOf
<1>12. OneHolder' /\ Emptied' /\ Limits'
  BY <1>4, <1>a, <1>b, <1>10, <1>11, ProtocolStep DEF IInv, Protocol, OneHolder
<1>13. Pool'
  BY <1>b, <1>5 DEF IInv, Protocol, Pool
<1>14. Picking'
  BY <1>b, <1>6 DEF IInv, Picking, Due
<1>15. inFlight' \in Bags
  BY <1>1, <1>b
<1>. QED BY <1>4, <1>6, <1>7, <1>12, <1>13, <1>14, <1>15, TypeParts DEF IInv, Protocol

-----------------------------------------------------------------------------
(* A visit is backed up: the bounds.                                       *)

LowOf(st, S)  == {st[c].lo : c \in S}
HighOf(st, S) == {st[c].up : c \in S}

(* The bounds of a set of replies are bounds, and reached by some of them.    *)
LEMMA BoundsType ==
  ASSUME NEW st \in [Node -> Statuses], NEW S \in SUBSET Node, S # {}
  PROVE  /\ Max(LowOf(st, S)) \in Outcome /\ Max(HighOf(st, S)) \in Outcome
         /\ \A c \in S : st[c].lo <= Max(LowOf(st, S)) /\ st[c].up <= Max(HighOf(st, S))
         /\ \E c \in S : st[c].lo = Max(LowOf(st, S))
<1>1. \A c \in S : st[c].lo \in Outcome /\ st[c].up \in Outcome
  BY DEF Statuses
<1>2. LowOf(st, S) \in SUBSET Outcome /\ HighOf(st, S) \in SUBSET Outcome
      /\ LowOf(st, S) # {} /\ HighOf(st, S) # {}
  BY <1>1 DEF LowOf, HighOf
<1>3. /\ Max(LowOf(st, S)) \in LowOf(st, S) /\ Max(LowOf(st, S)) \in Outcome
      /\ \A y \in LowOf(st, S) : y <= Max(LowOf(st, S))
  BY <1>2, MaxIs
<1>4. /\ Max(HighOf(st, S)) \in Outcome
      /\ \A y \in HighOf(st, S) : y <= Max(HighOf(st, S))
  BY <1>2, MaxIs
<1>5. \A c \in S : st[c].lo \in LowOf(st, S) /\ st[c].up \in HighOf(st, S)
  BY DEF LowOf, HighOf
<1>6. \E c \in S : st[c].lo = Max(LowOf(st, S))
  BY <1>3 DEF LowOf
<1>. QED BY <1>3, <1>4, <1>5, <1>6

(* What the bounds of the replies say of a move is true.                      *)
LEMMA BoundsFollow ==
  ASSUME NEW p \in Node, Ending[p] = "none", NEW st \in [Node -> Statuses],
         \A c \in Kids(p) : st[c].lo <= Truth[c] /\ Truth[c] <= st[c].up
  PROVE  /\ -Max(HighOf(st, Kids(p))) <= Truth[p]
         /\ Truth[p] <= -Max(LowOf(st, Kids(p)))
<1>. DEFINE K == Kids(p)
            T == {Truth[c] : c \in K}
            a == Max(LowOf(st, K))
            b == Max(HighOf(st, K))
            t == Max(T)
<1>1. K \in SUBSET Node /\ K # {}
  BY KidsType, TreeAssumption
<1>2. T \in SUBSET Outcome /\ T # {}
  BY <1>1, TruthType
<1>3. t \in T /\ t \in Outcome /\ \A y \in T : y <= t
  <2>. HIDE DEF T
  <2>. QED BY <1>2, MaxIs
<1>4. /\ a \in Outcome /\ b \in Outcome
      /\ \A c \in K : st[c].lo <= a /\ st[c].up <= b
      /\ \E c \in K : st[c].lo = a
  <2>. HIDE DEF K
  <2>. QED BY <1>1, BoundsType
<1>5. Truth[p] = -t
  BY TruthUnfolds
<1>. HIDE DEF a, b, t
<1>6. \A c \in K : Truth[c] \in Int /\ st[c].lo \in Int /\ st[c].up \in Int /\ Truth[c] <= t
  BY <1>1, <1>3, TruthType DEF Statuses, Outcome, BlackWon, WhiteWon
<1>7. a <= t
  <2>1. PICK c \in K : st[c].lo = a
    BY <1>4
  <2>2. st[c].lo <= Truth[c] /\ Truth[c] <= t
    BY <1>6
  <2>. QED BY <1>3, <1>4, <1>6, <2>1, <2>2 DEF Outcome, BlackWon, WhiteWon
<1>8. t <= b
  <2>1. PICK c \in K : Truth[c] = t
    BY <1>3
  <2>2. Truth[c] <= st[c].up /\ st[c].up <= b
    BY <1>4
  <2>. QED BY <1>3, <1>4, <1>6, <2>1, <2>2 DEF Outcome, BlackWon, WhiteWon
<1>9. -b <= -t /\ -t <= -a
  BY <1>3, <1>4, <1>7, <1>8 DEF Outcome, BlackWon, WhiteWon
<1>. QED BY <1>5, <1>9 DEF a, b

(* The statuses that a climb may lead to.                                     *)
Reached ==
  {st \in [Node -> Statuses] :
     /\ \A m \in Node : status[m].term # "no" => st[m] = status[m]
     /\ \A m \in Node : st[m].term = "twofold" => status[m].term = "twofold"
     /\ \A m \in Subtree : /\ st[m].lo <= Truth[m] /\ Truth[m] <= st[m].up
                           /\ st[m].term = "end" => st[m].lo = st[m].up}

(* MaybeSetBounds leads from statuses that can be reached to such statuses,   *)
LEMMA ReachedOn ==
  ASSUME TreeOK, Shape, NEW st \in Reached, NEW p \in Node, NEW x \in edges[p],
         x \in Node \ {Top}, Parent[x] = p, p # root, st[p].term = "no",
         p \in Subtree => x \in Subtree
  PROVE  MaybeSetBounds(st, p).st \in Reached
<1>0. st \in [Node -> Statuses]
  BY DEF Reached
<1>1. edges[p] \in SUBSET Node /\ edges[p] # {}
  BY DEF TreeOK
<1>. DEFINE lo == Max(LowOf(st, edges[p]))
            up == Max(HighOf(st, edges[p]))
            v == IF lo = up THEN Terminal(st[p], -up, "end")
                            ELSE [st[p] EXCEPT !.lo = -up, !.up = -lo]
<1>2. lo \in Outcome /\ up \in Outcome
  BY <1>0, <1>1, BoundsType
<1>3. MaybeSetBounds(st, p).st = IF lo = BlackWon /\ up = WhiteWon THEN st
                                 ELSE [st EXCEPT ![p] = v]
  BY <1>0 DEF MaybeSetBounds, LowOf, HighOf
<1>4. -lo \in Outcome /\ -up \in Outcome
  <2>. HIDE DEF lo, up
  <2>. QED BY <1>2 DEF Outcome, BlackWon, WhiteWon
<1>5. st[p] \in Statuses
  BY <1>0
<1>6. /\ v \in Statuses /\ v.lo = -up /\ v.up = -lo /\ v.term # "twofold"
      /\ v.term = "end" => v.lo = v.up
  <2>. HIDE DEF lo, up
  <2>1. CASE lo = up
    BY <1>4, <2>1 DEF Terminal, Statuses
  <2>2. CASE lo # up
    <3>1. v = [st[p] EXCEPT !.lo = -up, !.up = -lo]
      BY <2>2
    <3>2. v.term = "no" /\ v.lo = -up /\ v.up = -lo /\ v \in Statuses
      BY <1>4, <1>5, <3>1 DEF Statuses
    <3>. QED BY <3>2
  <2>. QED BY <2>1, <2>2
<1>7. p \in Subtree => v.lo <= Truth[p] /\ Truth[p] <= v.up
  <2>1. SUFFICES ASSUME p \in Subtree PROVE v.lo <= Truth[p] /\ Truth[p] <= v.up
    OBVIOUS
  <2>2. x \in Kids(p)
    BY DEF Kids
  <2>3. edges[p] = Kids(p) /\ Ending[p] = "none"
    <3>1. edges[p] \in {{}, Kids(p)} /\ Ending[p] # "rule"
      BY <2>1 DEF Shape
    <3>2. Ending[p] \notin {"mate", "stalemate"}
      BY <2>2, TreeAssumption
    <3>. QED BY <3>1, <3>2, TreeAssumption
  <2>4. \A c \in Kids(p) : c \in Subtree
    BY <2>1, PathIs, TrailIs, TrailKids DEF TreeOK
  <2>5. \A c \in Kids(p) : st[c].lo <= Truth[c] /\ Truth[c] <= st[c].up
    BY <2>4 DEF Reached
  <2>6. -Max(HighOf(st, Kids(p))) <= Truth[p] /\ Truth[p] <= -Max(LowOf(st, Kids(p)))
    BY <1>0, <2>3, <2>5, BoundsFollow
  <2>. QED BY <1>6, <2>3, <2>6
<1>8. status[p].term = "no"
  BY DEF Reached
<1>. HIDE DEF lo, up, v
<1>9. [st EXCEPT ![p] = v] \in Reached
  <2>. DEFINE s == [st EXCEPT ![p] = v]
  <2>1. s \in [Node -> Statuses] /\ s[p] = v /\ \A m \in Node \ {p} : s[m] = st[m]
    BY <1>0, <1>6
  <2>. HIDE DEF s
  <2>2. \A m \in Node : status[m].term # "no" => s[m] = status[m]
    BY <1>8, <2>1 DEF Reached
  <2>3. \A m \in Node : s[m].term = "twofold" => status[m].term = "twofold"
    BY <1>6, <2>1 DEF Reached
  <2>4. ASSUME NEW m \in Subtree
        PROVE  /\ s[m].lo <= Truth[m] /\ Truth[m] <= s[m].up
               /\ s[m].term = "end" => s[m].lo = s[m].up
    <3>1. m \in Node
      BY PathIs, TrailIs DEF TreeOK
    <3>. QED BY <1>6, <1>7, <2>1, <3>1 DEF Reached
  <2>5. s \in Reached
    BY <2>1, <2>2, <2>3, <2>4 DEF Reached
  <2>. QED BY <2>5 DEF s
<1>. QED BY <1>3, <1>9

(* and so does a whole climb.                                                 *)
LEMMA ClimbReaches ==
  ASSUME TreeOK, Shape, BoundsAreTrue, NEW n \in Subtree, \A x \in Path(n) : inFlight[x] > 0
  PROVE  Climb(n) \in Reached
<1>1. root \in Node /\ status \in [Node -> Statuses]
  BY DEF TreeOK, Statuses
<1>2. status \in Reached
  BY <1>1 DEF Reached, BoundsAreTrue
<1>. DEFINE G == Reached
<1>3. ASSUME NEW x \in Path(n) \ {Top}, NEW st \in G, Parent[x] # root,
             st[Parent[x]].term = "no", x = root => n = root
      PROVE  MaybeSetBounds(st, Parent[x]).st \in G
  <2>1. x \in Subtree /\ x \in Node /\ n \in Node
    BY <1>1, PathIs, TrailIs
  <2>2. Parent[x] \in Node /\ Parent[x] \in Nat /\ Parent[x] < x
    BY <1>3, <2>1, Numbered
  <2>3. x \in edges[Parent[x]]
    <3>1. CASE x = root
      BY <1>3, <2>1, <3>1 DEF Shape
    <3>2. CASE x # root
      BY <1>3, <2>1, <3>2 DEF Shape
    <3>. QED BY <3>1, <3>2
  <2>4. Parent[x] \in Subtree => x \in Subtree
    BY <2>1
  <2>. QED BY <1>3, <2>1, <2>2, <2>3, <2>4, ReachedOn
<1>. HIDE DEF G
<1>4. Climb(n) \in G
  BY <1>1, <1>2, <1>3, ClimbKeeps DEF G
<1>. QED BY <1>4 DEF G

-----------------------------------------------------------------------------
(* A visit is backed up: the books.                                        *)

(* What a path through the search is: the nodes at or above n in it.          *)
LEMMA PathFacts ==
  ASSUME root \in Node, NEW n \in Subtree
  PROVE  /\ n \in Node /\ root \in Subtree /\ Subtree \in SUBSET Node
         /\ Path(n) \in SUBSET Subtree /\ n \in Path(n) /\ root \in Path(n)
         /\ \A m \in Subtree : m \in Path(n) <=> n \in {m} \cup Below[m]
         /\ \A m \in Subtree : {m} \cup Below[m] \subseteq Subtree
         /\ \A m \in Subtree : Kids(m) \subseteq Subtree \ {root}
         /\ \A m \in Subtree : \A c \in Kids(m) : c \in Path(n) => m \in Path(n)
         /\ \A m \in Path(n) : m # n => \E c \in Kids(m) : c \in Path(n)
         /\ \A m \in Subtree : \A c, d \in Kids(m) : c \in Path(n) /\ d \in Path(n) => c = d
         /\ \A m \in Subtree : \A x \in Below[m] : x \in Path(n) => m \in Path(n)
<1>1. /\ n \in Node /\ root \in Subtree /\ Subtree \in SUBSET Node
      /\ Path(n) \in SUBSET Subtree /\ n \in Path(n) /\ root \in Path(n)
      /\ \A m \in Subtree : m \in Path(n) <=> n \in {m} \cup Below[m]
      /\ \A m \in Subtree : {m} \cup Below[m] \subseteq Subtree
  BY PathIs, TrailIs
<1>2. /\ \A m \in Subtree : Kids(m) \subseteq Subtree
      /\ \A m \in Subtree : \A c \in Kids(m) : c # root
      /\ \A m \in Subtree : \A c \in Kids(m) : c \in Path(n) => m \in Path(n)
      /\ \A m \in Path(n) : m # n => \E c \in Kids(m) : c \in Path(n)
      /\ \A m \in Subtree : \A c, d \in Kids(m) : c \in Path(n) /\ d \in Path(n) => c = d
  BY <1>1, PathIs, TrailKids
<1>3. ASSUME NEW m \in Subtree, NEW x \in Below[m], x \in Path(n)
      PROVE  m \in Path(n)
  <2>1. m \in Above[x] /\ x \in Node
    BY <1>1, <1>3, BelowType
  <2>2. n = x \/ x \in Above[n]
    BY <1>1, <1>3 DEF Path, Ancestors
  <2>3. m \in Above[n]
    BY <1>1, <2>1, <2>2, AboveTransitive
  <2>. QED BY <1>1, <2>3, BelowType
<1>. QED BY <1>1, <1>2, <1>3

(* What Add makes of a bag.                                                   *)
LEMMA AddIs ==
  ASSUME NEW f \in Bags, NEW S \in SUBSET Node, NEW k \in Int
  PROVE  /\ Add(f, S, k) = [x \in Node |-> Add(f, S, k)[x]]
         /\ \A x \in S : Add(f, S, k)[x] = f[x] + k
         /\ \A x \in Node \ S : Add(f, S, k)[x] = f[x]
BY BagFacts DEF Add

(* The nodes above a visit were visited, and are no two-fold draws.           *)
LEMMA AboveVisited ==
  ASSUME root \in Node, visits \in Bags, inFlight \in Bags, Untouched, NEW n \in Subtree,
         inFlight[n] > 0 \/ visits[n] > 0
  PROVE  \A m \in Path(n) \ {n} : visits[m] > 0 /\ ~TwoFold(m)
<1>1. ASSUME NEW m \in Path(n) \ {n} PROVE visits[m] > 0 /\ ~TwoFold(m)
  <2>1. m \in Subtree /\ m \in Node /\ n \in Below[m] /\ n \in Node
    BY <1>1, PathFacts
  <2>2. visits[m] \in Nat /\ visits[n] \in Nat /\ inFlight[n] \in Nat
    BY <2>1, BagFacts
  <2>. QED BY <2>1, <2>2 DEF Untouched
<1>. QED BY <1>1

(* A visit leaves what is in flight on its path, and nothing else.            *)
LEMMA VisitFlows ==
  ASSUME TreeOK, BagsOK, BagsOK', inFlight \in Bags, Flow, NEW n \in Subtree,
         BackupVisit(n), todo = Nothing, todo' = Nothing,
         Counted'[n] = Counted[n] - 1, Counted[n] > 0,
         \A x \in Node \ {n} : Counted'[x] = Counted[x], Collisions' = Collisions
  PROVE  /\ Flow' /\ inFlight' \in Bags
         /\ \A m \in Path(n) : inFlight[m] > 0
<1>0. root \in Node /\ root' = root /\ Subtree' = Subtree /\ visits \in Bags
  BY DEF TreeOK, BackupVisit, Subtree
<1>p. /\ n \in Node /\ Subtree \in SUBSET Node /\ Path(n) \in SUBSET Subtree
      /\ \A m \in Subtree : m \in Path(n) <=> n \in {m} \cup Below[m]
  BY <1>0, PathFacts
<1>t. Counted \in Bags /\ Counted' \in Bags /\ Collisions \in Bags
  BY CountedType, CountedTypeNext
<1>c. Counted[n] \in Nat
  BY <1>p, <1>t, BagFacts
<1>1. ASSUME NEW m \in Subtree
      PROVE  /\ inFlight[m] = Load(Counted, Collisions, m)
             /\ Load(Counted, Collisions, m) \in Nat
             /\ m \in Path(n) => Load(Counted, Collisions, m) > 0
             /\ Load(Counted', Collisions', m)
                  = Load(Counted, Collisions, m) - (IF m \in Path(n) THEN 1 ELSE 0)
  <2>. DEFINE h == Counted
              h2 == Counted'
              d == Collisions
  <2>1. h \in Bags /\ h2 \in Bags /\ d \in Bags /\ m \in Node /\ n \in Node
        /\ (\A x \in Node \ {n} : h2[x] = h[x]) /\ h2[n] = h[n] - 1 /\ h[n] > 0 /\ h[n] \in Nat
    BY <1>t, <1>p, <1>c
  <2>2. inFlight[m] = Load(h, d, m) + (IF Leaf(m) THEN 0 ELSE todo[m])
    BY DEF Flow
  <2>3. todo[m] = 0
    BY <2>1, BagFacts
  <2>. HIDE DEF h, h2, d
  <2>4. /\ Load(h, d, m) \in Nat
        /\ \A x \in {m} \cup Below[m] : h[x] <= Load(h, d, m)
    BY <2>1, LoadNat
  <2>5. Load(h2, d, m) = Load(h, d, m) + (IF n \in {m} \cup Below[m] THEN h2[n] - h[n] ELSE 0)
    BY <2>1, LoadHeld
  <2>6. Load(h2, d, m) = Load(h, d, m) - (IF m \in Path(n) THEN 1 ELSE 0)
    BY <1>p, <2>1, <2>4, <2>5
  <2>7. m \in Path(n) => Load(h, d, m) > 0
    BY <1>p, <2>1, <2>4
  <2>8. inFlight[m] = Load(h, d, m)
    BY <2>2, <2>3, <2>4
  <2>. QED BY <2>4, <2>6, <2>7, <2>8 DEF h, h2, d
<1>2. /\ inFlight' = [x \in Node |-> inFlight'[x]]
      /\ \A x \in Path(n) : inFlight'[x] = inFlight[x] + (-1)
      /\ \A x \in Node \ Path(n) : inFlight'[x] = inFlight[x]
  <2>. DEFINE k == -1
              g == Add(inFlight, Path(n), k)
  <2>1. inFlight' = g /\ Path(n) \in SUBSET Node /\ k \in Int
    BY <1>p DEF BackupVisit
  <2>2. /\ g = [x \in Node |-> g[x]]
        /\ \A x \in Path(n) : g[x] = inFlight[x] + k
        /\ \A x \in Node \ Path(n) : g[x] = inFlight[x]
    <3>. HIDE DEF k
    <3>. QED BY <2>1, AddIs
  <2>. QED BY <2>1, <2>2
<1>3. ASSUME NEW m \in Subtree
      PROVE  inFlight'[m] = Load(Counted', Collisions', m) + (IF Leaf(m)' THEN 0 ELSE todo'[m])
             /\ inFlight'[m] \in Nat
  <2>1. inFlight'[m] = inFlight[m] - (IF m \in Path(n) THEN 1 ELSE 0)
    BY <1>1, <1>2, <1>p
  <2>2. todo'[m] = 0
    BY <1>p, BagFacts
  <2>. QED BY <1>1, <2>1, <2>2
<1>4. Flow'
  BY <1>0, <1>3 DEF Flow, Load
<1>5. \A x \in Node : inFlight'[x] \in Nat
  BY <1>2, <1>3, <1>p, BagFacts
<1>6. inFlight' \in Bags
  BY <1>2, <1>5 DEF Bags
<1>7. \A m \in Path(n) : inFlight[m] > 0
  BY <1>1, <1>p
<1>. QED BY <1>4, <1>6, <1>7

(* The visit of a node is backed up: what its evaluation makes of the tree.   *)
LEMMA VisitTree ==
  ASSUME TreeOK, Tree, Numbers, BoundsAreTrue, inFlight \in Bags, inFlight' \in Bags,
         NEW n \in Subtree, BackupVisit(n), playouts + 1 <= MaxPlayouts,
         \A m \in Path(n) : inFlight[m] > 0,
         Counted \in Bags, Counted'[n] = Counted[n] - 1, Counted[n] > 0,
         \A x \in Node \ {n} : Counted'[x] = Counted[x]
  PROVE  TreeOK' /\ Tree' /\ Numbers' /\ BoundsAreTrue'
<1>0. /\ root \in Node /\ root' = root /\ initial' = initial /\ playouts' = playouts + 1
      /\ edges' = edges /\ Subtree' = Subtree /\ visits \in Bags
      /\ \A m : Depth(m)' = Depth(m)
  BY DEF TreeOK, BackupVisit, Subtree, Depth, Ancestors
<1>p. /\ n \in Node /\ root \in Subtree /\ Subtree \in SUBSET Node
      /\ Path(n) \in SUBSET Subtree /\ n \in Path(n) /\ root \in Path(n)
      /\ \A m \in Subtree : m \in Path(n) <=> n \in {m} \cup Below[m]
      /\ \A m \in Subtree : {m} \cup Below[m] \subseteq Subtree
      /\ \A m \in Subtree : Kids(m) \subseteq Subtree \ {root}
      /\ \A m \in Subtree : \A c \in Kids(m) : c \in Path(n) => m \in Path(n)
      /\ \A m \in Path(n) : m # n => \E c \in Kids(m) : c \in Path(n)
      /\ \A m \in Subtree : \A c, d \in Kids(m) : c \in Path(n) /\ d \in Path(n) => c = d
      /\ \A m \in Subtree : \A x \in Below[m] : x \in Path(n) => m \in Path(n)
  BY <1>0, PathFacts
<1>t. \A m \in Node : visits[m] \in Nat /\ inFlight[m] \in Nat /\ inFlight'[m] \in Nat
                      /\ Counted[m] \in Nat
  BY <1>0, BagFacts
<1>v. /\ visits' = [x \in Node |-> visits'[x]]
      /\ \A x \in Path(n) : visits'[x] = visits[x] + 1
      /\ \A x \in Node \ Path(n) : visits'[x] = visits[x]
  <2>1. visits' = Add(visits, Path(n), 1) /\ Path(n) \in SUBSET Node /\ 1 \in Int
    BY <1>p DEF BackupVisit
  <2>. QED BY <1>0, <2>1, AddIs
<1>f. /\ \A x \in Path(n) : inFlight'[x] = inFlight[x] - 1
      /\ \A x \in Node \ Path(n) : inFlight'[x] = inFlight[x]
  <2>. DEFINE k == -1
              g == Add(inFlight, Path(n), k)
  <2>1. inFlight' = g /\ Path(n) \in SUBSET Node /\ k \in Int
    BY <1>p DEF BackupVisit
  <2>2. /\ \A x \in Path(n) : g[x] = inFlight[x] + k
        /\ \A x \in Node \ Path(n) : g[x] = inFlight[x]
    <3>. HIDE DEF k
    <3>. QED BY <2>1, AddIs
  <2>. QED BY <1>p, <1>t, <2>1, <2>2
<1>s. /\ status' \in [Node -> Statuses]
      /\ \A m \in Node : status[m].term # "no" => status'[m] = status[m]
      /\ \A m \in Node : TwoFold(m)' <=> TwoFold(m)
      /\ \A m \in Node : status'[m].term = "no" => status[m].term = "no"
      /\ BoundsAreTrue'
  <2>1. status' \in Reached
    BY <1>p, ClimbReaches DEF BackupVisit, Tree
  <2>2. BoundsAreTrue'
    BY <1>0, <2>1 DEF Reached, BoundsAreTrue
  <2>3. \A m \in Node : TwoFold(m)' <=> TwoFold(m)
    BY <2>1 DEF Reached, TwoFold
  <2>. QED BY <2>1, <2>2, <2>3 DEF Reached
<1>a. \A m \in Path(n) \ {n} : visits[m] > 0 /\ ~TwoFold(m)
  BY <1>0, <1>p, AboveVisited DEF Tree
<1>n. Leaf(n) /\ (visits[n] = 0 => Counted[n] = 1) /\ (TwoFold(n) => Depth(n) >= Cycle[n])
  BY <1>p DEF Tree, HeldRight
<1>1. TreeOK'
  <2>1. visits' \in Bags
    <3>1. \A x \in Node : visits'[x] \in Nat
      BY <1>p, <1>t, <1>v
    <3>. QED BY <1>v, <3>1 DEF Bags
  <2>2. playouts' \in 0..MaxPlayouts
    BY <1>0, WorkerAssumption DEF TreeOK
  <2>. QED BY <1>0, <1>s, <2>1, <2>2 DEF TreeOK, Statuses
<1>2. HeldRight'
  <2>1. ASSUME NEW m \in Node, Counted'[m] > 0
        PROVE  /\ m \in Subtree /\ Leaf(m)' /\ (visits'[m] = 0 => Counted'[m] = 1)
               /\ (TwoFold(m)' => Depth(m) >= Cycle[m])
    <3>1. Counted[m] > 0
      BY <1>t, <2>1
    <3>2. /\ m \in Subtree /\ Leaf(m) /\ (visits[m] = 0 => Counted[m] = 1)
          /\ (TwoFold(m) => Depth(m) >= Cycle[m])
      BY <3>1 DEF Tree, HeldRight
    <3>3. CASE m = n
      <4>1. visits[n] # 0
        BY <1>t, <1>n, <1>p, <2>1, <3>3
      <4>2. status[n].term # "no"
        BY <1>n, <4>1 DEF Leaf
      <4>3. visits'[n] # 0
        BY <1>p, <1>t, <1>v
      <4>4. Leaf(n)'
        BY <1>p, <1>s, <4>2 DEF Leaf
      <4>. QED BY <1>s, <3>2, <3>3, <4>3, <4>4
    <3>4. CASE m # n /\ m \notin Path(n)
      <4>1. visits'[m] = visits[m] /\ Counted'[m] = Counted[m]
        BY <1>v, <3>4
      <4>2. Leaf(m)'
        BY <1>s, <3>2, <4>1 DEF Leaf
      <4>. QED BY <1>s, <3>2, <4>1, <4>2
    <3>5. CASE m # n /\ m \in Path(n)
      <4>1. visits[m] > 0
        BY <1>a, <3>5
      <4>2. status[m].term # "no"
        BY <3>2, <4>1 DEF Leaf
      <4>3. Leaf(m)' /\ visits'[m] # 0
        BY <1>s, <1>t, <1>v, <3>5, <4>1, <4>2 DEF Leaf
      <4>. QED BY <1>s, <3>2, <4>3
    <3>. QED BY <3>3, <3>4, <3>5
  <2>. QED BY <1>0, <2>1 DEF HeldRight
<1>3. Untouched'
  <2>1. ASSUME NEW m \in Subtree, visits'[m] = 0 \/ TwoFold(m)', NEW x \in Below[m]
        PROVE  visits'[x] = 0 /\ inFlight'[x] = 0
    <3>1. m \in Node /\ x \in Subtree /\ x \in Node /\ m \notin Below[m] /\ m # x
      BY <1>p, BelowType
    <3>2. CASE m \notin Path(n)
      <4>1. x \notin Path(n)
        BY <1>p, <3>2
      <4>2. visits[m] = 0 \/ TwoFold(m)
        BY <1>s, <1>v, <2>1, <3>1, <3>2
      <4>. QED BY <1>f, <1>v, <3>1, <4>1, <4>2 DEF Tree, Untouched
    <3>3. CASE m \in Path(n)
      <4>1. TwoFold(m)
        BY <1>s, <1>t, <1>v, <2>1, <3>1, <3>3
      <4>2. m = n
        BY <1>a, <3>3, <4>1
      <4>3. x \notin Path(n)
        <5>1. x \in Path(n) => n \in {x} \cup Below[x]
          BY <1>p, <3>1
        <5>2. n < x /\ (n \in Below[x] => x < n) /\ n \in Nat /\ x \in Nat
          BY <3>1, <4>2, BelowType, Numbered
        <5>. QED BY <5>1, <5>2
      <4>. QED BY <1>f, <1>v, <3>1, <4>1, <4>3 DEF Tree, Untouched
    <3>. QED BY <3>2, <3>3
  <2>. QED BY <1>0, <2>1 DEF Untouched
<1>4. TwoFoldHeld'
  <2>1. ASSUME NEW m \in Subtree, TwoFold(m)', visits'[m] = 0
        PROVE  Counted'[m] > 0
    <3>1. m \notin Path(n)
      BY <1>p, <1>t, <1>v, <2>1
    <3>2. visits[m] = 0 /\ TwoFold(m) /\ m \in Node /\ m # n
      BY <1>p, <1>s, <1>v, <2>1, <3>1
    <3>. QED BY <3>2 DEF Tree, TwoFoldHeld
  <2>. QED BY <1>0, <2>1 DEF TwoFoldHeld
<1>5. Shape'
  <2>1. ASSUME NEW m \in Subtree \ {root}, visits'[m] > 0 \/ inFlight'[m] > 0
        PROVE  m \in edges[Parent[m]]
    <3>1. visits[m] > 0 \/ inFlight[m] > 0
      BY <1>f, <1>p, <1>t, <1>v, <2>1
    <3>. QED BY <3>1 DEF Tree, Shape
  <2>. QED BY <1>0, <1>s, <2>1 DEF Tree, Shape
<1>6. VisitsAccounted'
  <2>1. visits'[root] = initial' + playouts'
    <3>1. visits[root] = initial + playouts
      BY DEF Numbers, VisitsAccounted
    <3>. QED BY <1>0, <1>p, <1>t, <1>v, <3>1 DEF TreeOK
  <2>2. ASSUME NEW m \in Subtree, visits'[m] > 0, status'[m].term = "no"
        PROVE  visits'[m] = 1 + SumOver(visits', edges[m])
    <3>1. m \in Node /\ status[m].term = "no" /\ edges[m] \in {{}, Kids(m)}
      BY <1>p, <1>s, <2>2 DEF Tree, Shape
    <3>2. IsFiniteSet(edges[m]) /\ edges[m] \subseteq Kids(m) /\ Kids(m) \in SUBSET Node
          /\ Kids(m) \subseteq Below[m]
      <4>1. IsFiniteSet(Kids(m)) /\ Kids(m) \in SUBSET Node /\ Kids(m) \subseteq Below[m]
        BY <3>1, KidsType
      <4>2. edges[m] \subseteq Kids(m)
        BY <3>1
      <4>3. IsFiniteSet(edges[m])
        BY <4>1, <4>2, FS_Subset
      <4>. QED BY <4>1, <4>2, <4>3
    <3>. DEFINE E == edges[m]
                f == visits
                g == visits'
    <3>3. (\A x \in E : f[x] \in Int) /\ \A x \in Node : g[x] \in Int
      BY <1>p, <1>t, <1>v, <3>2
    <3>4. CASE m \notin Path(n)
      <4>1. \A x \in E : g[x] = f[x]
        BY <1>p, <1>v, <3>2, <3>4
      <4>2. SumOver(g, E) = SumOver(f, E)
        <5>. HIDE DEF E, f, g
        <5>. QED BY <3>2, <3>3, <4>1, SumSame DEF E
      <4>3. visits'[m] = visits[m]
        BY <1>v, <3>1, <3>4
      <4>. QED BY <2>2, <3>1, <4>2, <4>3 DEF Numbers, VisitsAccounted
    <3>5. CASE m = n
      <4>1. visits[n] = 0
        BY <1>n, <3>1, <3>5 DEF Leaf
      <4>2. \A x \in E : g[x] = 0
        <5>1. \A x \in E : x \in Below[n] /\ x \in Node
          BY <3>2, <3>5
        <5>2. \A x \in E : x \notin Path(n)
          <6>1. \A x \in E : x \in Subtree /\ x \in Kids(n) /\ n # x
            BY <1>p, <3>2, <3>5, <5>1, BelowType
          <6>2. \A x \in E : n < x /\ (n \in Below[x] => x < n) /\ x \in Nat /\ n \in Nat
            BY <1>p, <5>1, BelowType, Numbered
          <6>. QED BY <1>p, <6>1, <6>2
        <5>3. \A x \in Below[n] : visits[x] = 0
          BY <4>1 DEF Tree, Untouched
        <5>. QED BY <1>v, <5>1, <5>2, <5>3
      <4>3. SumOver(g, E) = 0
        <5>. HIDE DEF E, f, g
        <5>. QED BY <3>2, <4>2, SumZero DEF E
      <4>4. visits'[n] = 1
        BY <1>p, <1>v, <4>1
      <4>. QED BY <3>5, <4>3, <4>4
    <3>6. CASE m \in Path(n) /\ m # n
      <4>1. PICK c \in Kids(m) : c \in Path(n)
        BY <1>p, <3>6
      <4>2. c \in Subtree \ {root} /\ Parent[c] = m /\ inFlight[c] > 0
        BY <1>p, <3>1, <4>1, KidsType
      <4>3. c \in E
        BY <4>2 DEF Tree, Shape
      <4>4. \A x \in E \ {c} : g[x] = f[x]
        BY <1>p, <1>v, <3>2, <4>1
      <4>5. g[c] = f[c] + 1 /\ f[c] \in Int
        BY <1>v, <3>3, <4>1, <4>3
      <4>6. SumOver(g, E) = SumOver(f, E) + 1
        <5>. HIDE DEF E, f, g
        <5>1. IsFiniteSet(E) /\ g[c] \in Int
          BY <3>2, <4>5 DEF E
        <5>2. SumOver(g, E) = SumOver(f, E) + (g[c] - f[c])
          BY <3>3, <4>3, <4>4, <5>1, SumOne
        <5>3. SumOver(f, E) \in Int
          BY <3>3, <5>1, SumType
        <5>. QED BY <4>5, <5>2, <5>3
      <4>7. visits[m] > 0
        BY <1>a, <3>6
      <4>8. visits[m] = 1 + SumOver(f, E)
        BY <3>1, <4>7 DEF Numbers, VisitsAccounted
      <4>9. visits'[m] = visits[m] + 1
        BY <1>v, <3>6
      <4>10. SumOver(f, E) \in Int
        <5>. HIDE DEF E, f
        <5>. QED BY <3>2, <3>3, SumType DEF E
      <4>11. visits'[m] = 1 + SumOver(g, E)
        <5>. HIDE DEF E, f, g
        <5>. QED BY <4>6, <4>8, <4>9, <4>10
      <4>. QED BY <4>11
    <3>. QED BY <3>4, <3>5, <3>6
  <2>. QED BY <1>0, <2>1, <2>2 DEF VisitsAccounted
<1>7. DrawsCounted'
  <2>. DEFINE f == DrawVisits
              g == DrawVisits'
  <2>1. \A x \in Node : f[x] \in Nat /\ g[x] \in Nat
    <3>1. \A x \in Node : visits'[x] \in Nat
      BY <1>p, <1>t, <1>v
    <3>. QED BY <1>t, <3>1 DEF DrawVisits
  <2>2. \A x \in Node \ {n} : g[x] = f[x]
    BY <1>a, <1>s, <1>v DEF DrawVisits
  <2>3. g[n] <= f[n] + 1 /\ (~TwoFold(n) => g[n] = f[n])
    BY <1>p, <1>s, <1>t, <1>v DEF DrawVisits
  <2>4. ASSUME NEW m \in Subtree, visits'[m] > 0, ~TwoFold(m)'
        PROVE  visits'[m] >= 1 + SumOver(g, Below[m])
    <3>1. m \in Node /\ ~TwoFold(m) /\ IsFiniteSet(Below[m]) /\ Below[m] \in SUBSET Node
          /\ m \notin Below[m]
      BY <1>p, <1>s, <2>4, BelowType
    <3>. DEFINE B == Below[m]
    <3>2. SumOver(g, B) = SumOver(f, B) + (IF n \in B THEN g[n] - f[n] ELSE 0)
          /\ SumOver(f, B) \in Int
      <4>1. \A x \in B : f[x] \in Int /\ g[x] \in Int
        BY <2>1, <3>1
      <4>2. \A x \in B \ {n} : g[x] = f[x]
        BY <2>2, <3>1
      <4>3. IsFiniteSet(B)
        BY <3>1
      <4>. HIDE DEF B, f, g
      <4>. QED BY <4>1, <4>2, <4>3, SumChange, SumType
    <3>3. visits[m] > 0 => visits[m] >= 1 + SumOver(f, B)
      BY <3>1 DEF Numbers, DrawsCounted
    <3>4. CASE visits[m] > 0
      <4>1. n \in B => visits'[m] = visits[m] + 1
        BY <1>p, <1>v
      <4>2. visits'[m] >= visits[m] /\ visits[m] \in Nat /\ visits'[m] \in Nat
        BY <1>p, <1>t, <1>v, <3>1
      <4>3. f[n] \in Nat /\ g[n] \in Nat
        BY <1>p, <2>1
      <4>. HIDE DEF B, f, g
      <4>6. visits'[m] >= 1 + SumOver(g, B)
        <5>1. CASE n \in B
          BY <2>3, <3>2, <3>3, <3>4, <4>1, <4>2, <4>3, <5>1
        <5>2. CASE n \notin B
          BY <3>2, <3>3, <3>4, <4>2, <5>2
        <5>. QED BY <5>1, <5>2
      <4>. QED BY <4>6 DEF B
    <3>5. CASE ~(visits[m] > 0)
      <4>1. visits[m] = 0 /\ m \in Path(n)
        BY <1>t, <1>v, <2>4, <3>1, <3>5
      <4>2. m = n
        BY <1>a, <4>1
      <4>3. \A x \in B : f[x] = 0
        BY <3>1, <4>1 DEF Tree, Untouched, DrawVisits
      <4>4. SumOver(f, B) = 0
        <5>1. IsFiniteSet(B)
          BY <3>1
        <5>. HIDE DEF B, f
        <5>. QED BY <4>3, <5>1, SumZero
      <4>5. SumOver(g, B) = 0
        BY <3>1, <3>2, <4>2, <4>4
      <4>6. visits'[m] >= 1
        BY <1>t, <1>v, <4>1
      <4>. QED BY <4>5, <4>6
    <3>. QED BY <3>4, <3>5
  <2>. QED BY <1>0, <2>4 DEF DrawsCounted
<1>8. StaleCounted'
  <2>1. ASSUME NEW x \in Node PROVE Stale(x)' = Stale(x)
    <3>1. TwoFold(x)' <=> TwoFold(x)
      BY <1>s
    <3>2. CASE x \in Path(n) /\ x # n
      BY <1>a, <3>1, <3>2 DEF Stale, TwoFold
    <3>3. CASE x = n
      <4>1. Depth(n) \in Nat /\ Cycle[n] \in Nat
        <5>1. IsFiniteSet(Ancestors(n))
          <6>1. Ancestors(n) \subseteq Node
            BY <1>p DEF Ancestors
          <6>. QED BY <6>1, FS_Subset, BagFacts
        <5>. QED BY <1>p, <5>1, FS_CardinalityType, TreeAssumption DEF Depth
      <4>2. TwoFold(n) => ~(Depth(n) < Cycle[n])
        BY <1>n, <4>1
      <4>. QED BY <1>0, <3>1, <3>3, <4>2 DEF Stale, TwoFold
    <3>4. CASE x \notin Path(n)
      BY <1>0, <1>v, <3>1, <3>4 DEF Stale, TwoFold
    <3>. QED BY <3>2, <3>3, <3>4
  <2>2. StaleVisits' = StaleVisits
    BY <2>1 DEF StaleVisits
  <2>. QED BY <1>0, <2>2 DEF Numbers, StaleCounted
<1>. QED BY <1>1, <1>2, <1>3, <1>4, <1>5, <1>6, <1>7, <1>8, <1>s DEF Tree, Numbers

(* A visit that is backed up, whichever bag it was held in.                   *)
LEMMA VisitKeeps ==
  ASSUME IInv, BagsOK', WorkersOK', NEW w \in Worker, lock = w, phase[w] # "pick",
         NEW n \in Node, Counted[n] > 0, BackupVisit(n),
         Counted'[n] = Counted[n] - 1, \A x \in Node \ {n} : Counted'[x] = Counted[x],
         UNCHANGED <<fresh, collided, shared, todo>>,
         OneHolder' /\ Emptied' /\ Limits', \A v \in Worker : phase'[v] = "pick" => phase[v] = "pick"
  PROVE  IInv'
<1>1. TreeOK /\ BagsOK /\ WorkersOK /\ inFlight \in Bags
  BY TypeParts DEF IInv
<1>2. todo = Nothing /\ todo' = Nothing /\ \A v \in Worker : phase[v] # "pick"
  <2>1. \A v \in Worker : phase[v] # "pick"
    BY OnlyPicker DEF IInv, Protocol
  <2>. QED BY <2>1, NothingDue DEF IInv, Protocol
<1>3. n \in Subtree
  BY DEF IInv, Tree, HeldRight
<1>4. Collisions' = Collisions
  BY DEF Collisions, CollidesOf
<1>5. Flow' /\ inFlight' \in Bags /\ \A m \in Path(n) : inFlight[m] > 0
  BY <1>1, <1>2, <1>3, <1>4, VisitFlows DEF IInv
<1>6. Counted \in Bags /\ Counted' \in Bags
  BY <1>1, CountedType, CountedTypeNext
<1>7. Sum(Counted') = Sum(Counted) - 1 /\ Sum(Counted) \in Nat /\ Counted[n] <= Sum(Counted)
  <2>. DEFINE f == Counted
              g == Counted'
  <2>1. /\ \A x \in Node : f[x] \in Int /\ g[x] \in Int
        /\ \A x \in Node \ {n} : g[x] = f[x]
        /\ g[n] = f[n] - 1
    BY <1>6, BagFacts
  <2>2. Sum(f) = SumOver(f, Node) /\ Sum(g) = SumOver(g, Node) /\ Sum(f) \in Nat
        /\ f[n] <= Sum(f)
    BY <1>6, SumBag
  <2>. HIDE DEF f, g
  <2>3. SumOver(g, Node) = SumOver(f, Node) + (g[n] - f[n])
    <3>1. (\A y \in Node : f[y] \in Int) /\ g[n] \in Int /\ IsFiniteSet(Node)
      BY <2>1, BagFacts
    <3>. QED BY <2>1, <3>1, SumOne
  <2>4. Sum(g) = Sum(f) - 1
    BY <2>1, <2>2, <2>3
  <2>. QED BY <2>2, <2>4 DEF f, g
<1>8. Pool' /\ playouts + 1 <= MaxPlayouts
  <2>1. playouts + Sum(Counted) + Sum(todo) <= MaxPlayouts
    BY DEF IInv, Protocol, Pool
  <2>2. Sum(todo) = 0 /\ Sum(todo') = 0
    BY <1>2, SumBag, BagFacts
  <2>3. playouts \in Nat /\ playouts' = playouts + 1 /\ MaxPlayouts \in Nat
    BY <1>1, WorkerAssumption DEF TreeOK, BackupVisit
  <2>4. Counted[n] \in Nat
    BY <1>6, BagFacts
  <2>5. playouts' + Sum(Counted') + Sum(todo') <= MaxPlayouts
    BY <1>7, <2>1, <2>2, <2>3
  <2>. QED BY <1>7, <2>1, <2>2, <2>3, <2>4, <2>5 DEF Pool
<1>9. TreeOK' /\ Tree' /\ Numbers' /\ BoundsAreTrue'
  BY <1>1, <1>3, <1>5, <1>6, <1>8, VisitTree DEF IInv
<1>10. Picking'
  <2>1. Due' = {}
    BY <1>2, BagFacts DEF Due
  <2>2. \A v \in Worker : phase'[v] # "pick"
    BY <1>2
  <2>. QED BY <2>1, <2>2 DEF Picking
<1>. QED BY <1>5, <1>8, <1>9, <1>10, TypeParts DEF IInv, Protocol

LEMMA BackupKeeps ==
  ASSUME IInv, NEW w \in Worker, Backup(w)
  PROVE  IInv'
<1>1. TreeOK /\ BagsOK /\ WorkersOK /\ inFlight \in Bags
  BY TypeParts DEF IInv
<1>2. PICK n \in Node : /\ batch[w][n] > 0 /\ BackupVisit(n)
                        /\ batch' = [batch EXCEPT ![w][n] = @ - 1]
  BY DEF Backup
<1>3. /\ lock = w /\ phase[w] = "backup" /\ worked' = [worked EXCEPT ![w] = TRUE]
      /\ UNCHANGED <<picked, ready, fresh, collided, shared, lock, phase, left, limit, todo>>
  BY DEF Backup, collVars
<1>4. /\ batch' \in [Worker -> Bags] /\ batch'[w][n] = batch[w][n] - 1
      /\ \A x \in Node \ {n} : batch'[w][x] = batch[w][x]
      /\ \A v \in Worker \ {w} : batch'[v] = batch[v]
  <2>1. batch' = Changed(batch, w, n, -1)
    BY <1>1, <1>2 DEF Changed, BagsOK
  <2>2. batch[w][n] + (-1) >= 0 /\ batch[w][n] \in Nat /\ batch \in [Worker -> Bags]
    BY <1>1, <1>2, PartOf DEF BagsOK
  <2>. QED BY <2>1, <2>2, ChangedIs
<1>5. BagsOK' /\ WorkersOK' /\ OthersRest(w)
  BY <1>1, <1>3, <1>4 DEF BagsOK, WorkersOK, OthersRest
<1>6. Counted[n] > 0 /\ Counted'[n] = Counted[n] - 1
      /\ \A x \in Node \ {n} : Counted'[x] = Counted[x]
  <2>1. \A x \in Node : Counted'[x]
              = Counted[x] + ((picked'[w][x] + ready'[w][x] + batch'[w][x])
                                - (picked[w][x] + ready[w][x] + batch[w][x]))
    BY <1>1, <1>5, WorkerStep
  <2>2. Counted[n] > 0
    BY <1>1, <1>2, PartOf
  <2>3. Counted'[n] = Counted[n] - 1
    BY <1>1, <1>3, <1>4, <2>1, PartOf
  <2>4. \A x \in Node \ {n} : Counted'[x] = Counted[x]
    BY <1>1, <1>3, <1>4, <2>1, PartOf
  <2>. QED BY <2>2, <2>3, <2>4
<1>7. EmptiedBy(w)'
  BY <1>3 DEF IInv, Protocol, Emptied, EmptiedBy
<1>8. LimitOf(w)'
  BY <1>3 DEF IInv, Protocol, Limits, LimitOf
<1>9. OneHolder' /\ Emptied' /\ Limits'
  BY <1>3, <1>5, <1>7, <1>8, ProtocolStep DEF IInv, Protocol
<1>. QED BY <1>2, <1>3, <1>5, <1>6, <1>9, VisitKeeps

LEMMA BackupOutOfOrderKeeps ==
  ASSUME IInv, NEW w \in Worker, BackupOutOfOrder(w)
  PROVE  IInv'
<1>1. TreeOK /\ BagsOK /\ WorkersOK /\ inFlight \in Bags
  BY TypeParts DEF IInv
<1>2. PICK n \in Node : /\ ready[w][n] > 0 /\ BackupVisit(n)
                        /\ ready' = [ready EXCEPT ![w][n] = @ - 1]
  BY DEF BackupOutOfOrder
<1>3. /\ lock = w /\ phase[w] = "outoforder" /\ worked' = [worked EXCEPT ![w] = TRUE]
      /\ UNCHANGED <<picked, batch, fresh, collided, shared, left, limit, todo>>
      /\ \/ /\ ready'[w] = Nothing
            /\ lock' = NoWorker /\ phase' = [phase EXCEPT ![w] = "tally"]
         \/ UNCHANGED <<lock, phase>>
  BY DEF BackupOutOfOrder, collVars
<1>4. /\ ready' \in [Worker -> Bags] /\ ready'[w][n] = ready[w][n] - 1
      /\ \A x \in Node \ {n} : ready'[w][x] = ready[w][x]
      /\ \A v \in Worker \ {w} : ready'[v] = ready[v]
  <2>1. ready' = Changed(ready, w, n, -1)
    BY <1>1, <1>2 DEF Changed, BagsOK
  <2>2. ready[w][n] + (-1) >= 0 /\ ready[w][n] \in Nat /\ ready \in [Worker -> Bags]
    BY <1>1, <1>2, PartOf DEF BagsOK
  <2>. QED BY <2>1, <2>2, ChangedIs
<1>0. /\ \A v \in Worker \ {w} : phase'[v] = phase[v]
      /\ \/ phase'[w] = "tally" /\ ready'[w] = Nothing /\ lock' = NoWorker
         \/ phase'[w] = "outoforder" /\ lock' = lock
  BY <1>1, <1>3 DEF WorkersOK
<1>5. BagsOK' /\ WorkersOK' /\ OthersRest(w)
  <2>1. BagsOK'
    BY <1>1, <1>3, <1>4 DEF BagsOK
  <2>2. WorkersOK'
    BY <1>1, <1>3 DEF WorkersOK
  <2>3. OthersRest(w)
    BY <1>0, <1>3, <1>4 DEF OthersRest
  <2>. QED BY <2>1, <2>2, <2>3
<1>6. Counted[n] > 0 /\ Counted'[n] = Counted[n] - 1
      /\ \A x \in Node \ {n} : Counted'[x] = Counted[x]
  <2>1. \A x \in Node : Counted'[x]
              = Counted[x] + ((picked'[w][x] + ready'[w][x] + batch'[w][x])
                                - (picked[w][x] + ready[w][x] + batch[w][x]))
    BY <1>1, <1>5, WorkerStep
  <2>2. Counted[n] > 0
    BY <1>1, <1>2, PartOf
  <2>3. Counted'[n] = Counted[n] - 1
    BY <1>1, <1>3, <1>4, <2>1, PartOf
  <2>4. \A x \in Node \ {n} : Counted'[x] = Counted[x]
    BY <1>1, <1>3, <1>4, <2>1, PartOf
  <2>. QED BY <2>2, <2>3, <2>4
<1>7. EmptiedBy(w)'
  BY <1>0, <1>3 DEF IInv, Protocol, Emptied, EmptiedBy
<1>8. LimitOf(w)'
  BY <1>0, <1>3 DEF IInv, Protocol, Limits, LimitOf
<1>9. OneHolder' /\ Emptied' /\ Limits'
  <2>1. NoWorker # w
    BY WorkerAssumption
  <2>. QED BY <1>0, <1>3, <1>5, <1>7, <1>8, <2>1, ProtocolStep DEF IInv, Protocol
<1>10. \A v \in Worker : phase'[v] = "pick" => phase[v] = "pick"
  BY <1>0
<1>. QED BY <1>2, <1>3, <1>5, <1>6, <1>9, <1>10, VisitKeeps

-----------------------------------------------------------------------------
(* A pick goes on to a child.                                              *)

(* The way down from a node that is not a leaf.                               *)
LEMMA WayDown ==
  ASSUME TreeOK, inFlight \in Bags, Untouched, NEW x \in Subtree, NEW c \in Kids(x), ~Leaf(x)
  PROVE  /\ c \in Subtree /\ c # root /\ c \in Node /\ x \in Node /\ Parent[c] = x /\ c # x
         /\ x \in Path(c) /\ c \in Below[x] /\ x \notin Below[c]
         /\ Above[c] = {x} \cup Above[x]
         /\ \A m \in Path(c) \ {c} : visits[m] > 0 /\ ~TwoFold(m)
<1>0. root \in Node /\ visits \in Bags
  BY DEF TreeOK
<1>1. /\ x \in Node /\ c \in Subtree /\ c # root
  BY <1>0, PathFacts
<1>2. /\ c \in Node /\ Parent[c] = x /\ c # Top /\ x < c /\ c \in Below[x]
      /\ Above[c] = {x} \cup Above[x]
  BY <1>1, KidsType
<1>3. x \in Nat /\ c \in Nat /\ c # x
  BY <1>1, <1>2, Numbered
<1>4. x \notin Below[c]
  <2>1. x \in Below[c] => c < x
    BY <1>2, BelowType
  <2>. QED BY <1>2, <1>3, <2>1
<1>5. x \in Path(c)
  BY <1>0, <1>1, <1>2, PathFacts
<1>6. visits[x] > 0 /\ ~TwoFold(x)
  <2>1. visits[x] \in Nat
    BY <1>0, <1>1, BagFacts
  <2>. QED BY <2>1 DEF Leaf, TwoFold
<1>7. ASSUME NEW m \in Path(c) \ {c} PROVE visits[m] > 0 /\ ~TwoFold(m)
  <2>1. m \in Path(x)
    BY <1>2, <1>7 DEF Path, Ancestors
  <2>2. CASE m = x
    BY <1>6, <2>2
  <2>3. CASE m # x
    BY <1>0, <1>6, <2>1, <2>3, AboveVisited
  <2>. QED BY <2>2, <2>3
<1>. QED BY <1>1, <1>2, <1>3, <1>4, <1>5, <1>7

(* k of the visits due at x go to its child c, one of them perhaps to stay.   *)
LEMMA PickFlows ==
  ASSUME root \in Node, BagsOK, BagsOK', inFlight \in Bags, Flow, Subtree' = Subtree,
         \A m \in Subtree : Leaf(m)' <=> Leaf(m),
         NEW x \in Subtree, NEW c \in Subtree, c \in Kids(x), ~Leaf(x), x \notin Below[c],
         NEW k \in 1..todo[x], NEW o \in {0, 1}, NEW d \in Nat,
         IF Leaf(c) THEN d = o ELSE o = 0 /\ d = k,
         Counted'[c] = Counted[c] + o, \A m \in Node \ {c} : Counted'[m] = Counted[m],
         /\ Collisions'[x] = Collisions[x] - k /\ Collisions'[c] = Collisions[c] + (k - o)
         /\ \A m \in Node \ {x, c} : Collisions'[m] = Collisions[m],
         /\ todo'[x] = todo[x] - k /\ todo'[c] = todo[c] + (k - o)
         /\ \A m \in Node \ {x, c} : todo'[m] = todo[m],
         inFlight'[c] = inFlight[c] + d, \A m \in Node \ {c} : inFlight'[m] = inFlight[m],
         inFlight' = [m \in Node |-> inFlight'[m]]
  PROVE  Flow' /\ inFlight' \in Bags
<1>1. x \in Node /\ c \in Node /\ Subtree \in SUBSET Node
  BY PathFacts
<1>2. c \in Below[x] /\ c # x /\ Above[c] = {x} \cup Above[x]
  BY <1>1, KidsType, Numbered
<1>3. \A m \in Node : todo[m] \in Nat /\ inFlight[m] \in Nat
  BY BagFacts DEF BagsOK
<1>4. k \in Nat /\ k >= 1 /\ k <= todo[x]
  BY <1>1, <1>3
<1>5. Counted \in Bags /\ Counted' \in Bags /\ Collisions \in Bags /\ Collisions' \in Bags
  BY CountedType, CountedTypeNext
<1>6. ASSUME NEW m \in Subtree
      PROVE  /\ Load(Counted, Collisions, m) \in Nat
             /\ Load(Counted', Collisions', m)
                  = Load(Counted, Collisions, m) + (IF m = c THEN o ELSE IF m = x THEN k ELSE 0)
  <2>. DEFINE h == Counted
              h2 == Counted'
              a == Collisions
              b == Collisions'
              e == [a EXCEPT ![x] = b[x]]
  <2>0. m \in Node
    BY <1>1
  <2>1. h \in Bags /\ h2 \in Bags /\ a \in Bags /\ b \in Bags
    BY <1>5
  <2>2. e \in Bags /\ e[x] = b[x] /\ \A y \in Node \ {x} : e[y] = a[y]
    <3>1. b[x] \in Nat /\ a \in [Node -> Nat]
      BY <1>1, <2>1, BagFacts DEF Bags
    <3>. HIDE DEF a, b
    <3>. QED BY <1>1, <3>1 DEF Bags
  <2>3. /\ \A y \in Node \ {c} : h2[y] = h[y]
        /\ h2[c] = h[c] + o /\ b[x] = a[x] - k /\ b[c] = a[c] + (k - o)
        /\ \A y \in Node \ {x, c} : b[y] = a[y]
    OBVIOUS
  <2>4. h[c] \in Nat /\ h2[c] \in Nat /\ a[x] \in Nat /\ b[x] \in Nat /\ a[c] \in Nat /\ b[c] \in Nat
    BY <1>1, <2>1, BagFacts
  <2>. HIDE DEF h, h2, a, b, e
  <2>5. Load(h, a, m) \in Nat
    BY <2>0, <2>1, LoadNat
  <2>6. Load(h2, a, m) = Load(h, a, m) + (IF c \in {m} \cup Below[m] THEN h2[c] - h[c] ELSE 0)
    BY <1>1, <2>0, <2>1, <2>3, LoadHeld
  <2>7. Load(h2, e, m) = Load(h2, a, m) + (IF x \in Below[m] THEN e[x] - a[x] ELSE 0)
    BY <1>1, <2>0, <2>1, <2>2, LoadCollides
  <2>8. Load(h2, b, m) = Load(h2, e, m) + (IF c \in Below[m] THEN b[c] - e[c] ELSE 0)
    <3>1. \A y \in Node \ {c} : b[y] = e[y]
      BY <2>2, <2>3
    <3>. QED BY <1>1, <2>0, <2>1, <2>2, <3>1, LoadCollides
  <2>9. e[c] = a[c]
    BY <1>1, <1>2, <2>2
  <2>10. /\ c \in Below[m] <=> m = x \/ x \in Below[m]
         /\ x \notin Below[x] /\ c \notin Below[c]
    BY <1>1, <1>2, <2>0, BelowType
  <2>11. Load(h2, b, m) = Load(h, a, m) + (IF m = c THEN o ELSE IF m = x THEN k ELSE 0)
    <3>1. CASE m = c
      BY <1>2, <2>2, <2>3, <2>4, <2>5, <2>6, <2>7, <2>8, <2>9, <2>10, <3>1
    <3>2. CASE m = x
      BY <1>2, <1>4, <2>2, <2>3, <2>4, <2>5, <2>6, <2>7, <2>8, <2>9, <2>10, <3>2
    <3>3. CASE m # c /\ m # x /\ x \in Below[m]
      <4>1. Load(h2, a, m) = Load(h, a, m) + o
        BY <2>3, <2>4, <2>5, <2>6, <2>10, <3>3
      <4>2. Load(h2, e, m) = Load(h2, a, m) - k
        BY <1>4, <2>2, <2>3, <2>4, <2>5, <2>7, <3>3, <4>1
      <4>3. Load(h2, b, m) = Load(h2, e, m) + (k - o)
        BY <1>4, <2>3, <2>4, <2>5, <2>8, <2>9, <2>10, <3>3
      <4>. QED BY <1>4, <2>5, <3>3, <4>1, <4>2, <4>3
    <3>4. CASE m # c /\ m # x /\ x \notin Below[m]
      BY <2>5, <2>6, <2>7, <2>8, <2>10, <3>4
    <3>. QED BY <3>1, <3>2, <3>3, <3>4
  <2>. QED BY <2>5, <2>11 DEF h, h2, a, b
<1>7. ASSUME NEW m \in Subtree
      PROVE  /\ inFlight'[m] = Load(Counted', Collisions', m) + (IF Leaf(m)' THEN 0 ELSE todo'[m])
             /\ inFlight'[m] \in Nat
  <2>1. inFlight[m] = Load(Counted, Collisions, m) + (IF Leaf(m) THEN 0 ELSE todo[m])
        /\ m \in Node /\ (Leaf(m)' <=> Leaf(m))
    BY <1>1 DEF Flow
  <2>2. CASE m = c
    <3>1. Load(Counted', Collisions', m) = Load(Counted, Collisions, m) + o
      BY <1>6, <2>2
    <3>2. CASE Leaf(c)
      BY <1>3, <1>6, <2>1, <2>2, <3>1, <3>2
    <3>3. CASE ~Leaf(c)
      BY <1>3, <1>4, <1>6, <2>1, <2>2, <3>1, <3>3
    <3>. QED BY <3>2, <3>3
  <2>3. CASE m = x
    BY <1>2, <1>3, <1>4, <1>6, <2>1, <2>3
  <2>4. CASE m # x /\ m # c
    BY <1>3, <1>6, <2>1, <2>4
  <2>. QED BY <2>2, <2>3, <2>4
<1>8. Flow'
  BY <1>7 DEF Flow, Load
<1>9. \A m \in Node : inFlight'[m] \in Nat
  BY <1>1, <1>3
<1>10. inFlight' \in Bags
  BY <1>9 DEF Bags
<1>. QED BY <1>8, <1>10

(* What a pick does with the visits at the child c it goes to.                *)
Started(c) ==
  /\ \A m \in Node \ {c} : Counted'[m] = Counted[m] /\ inFlight'[m] = inFlight[m]
  /\ \/ Counted'[c] = Counted[c]
     \/ /\ Counted'[c] = Counted[c] + 1 /\ Leaf(c)
        /\ visits'[c] = 0 => Counted[c] = 0

(* No stale visits are taken back: the tree stays as it is.                   *)
LEMMA PickTreeSame ==
  ASSUME TreeOK, Tree, Numbers, BoundsAreTrue, UNCHANGED treeVars,
         inFlight \in Bags, inFlight' \in Bags, Counted \in Bags,
         NEW x \in Subtree, NEW c \in Kids(x), c \in edges[x], ~Leaf(x), Stale(c) = 0, Started(c)
  PROVE  Tree' /\ Numbers' /\ BoundsAreTrue'
<1>1. /\ root' = root /\ initial' = initial /\ playouts' = playouts /\ visits' = visits
      /\ edges' = edges /\ status' = status /\ root \in Node /\ visits \in Bags
  BY DEF treeVars, TreeOK
<1>2. Subtree' = Subtree /\ \A n : Depth(n)' = Depth(n) /\ (Leaf(n)' <=> Leaf(n))
                               /\ (TwoFold(n)' <=> TwoFold(n)) /\ Stale(n)' = Stale(n)
  BY <1>1 DEF Subtree, Depth, Ancestors, Leaf, TwoFold, Stale
<1>3. /\ c \in Subtree /\ c # root /\ c \in Node /\ x \in Node /\ Parent[c] = x
      /\ \A m \in Path(c) \ {c} : visits[m] > 0 /\ ~TwoFold(m)
  BY WayDown DEF Tree
<1>4. \A m \in Subtree : m \in Node /\ {m} \cup Below[m] \subseteq Subtree
                         /\ (c \in Below[m] => m \in Path(c) /\ m # c)
  <2>1. \A m \in Subtree : m \in Node /\ {m} \cup Below[m] \subseteq Subtree
                           /\ (c \in Below[m] => m \in Path(c))
    BY <1>1, <1>3, PathFacts
  <2>. QED BY <1>3, <2>1, BelowType
<1>t. Counted[c] \in Nat /\ visits[c] \in Nat /\ \A m \in Node : visits[m] \in Nat
  BY <1>1, <1>3, BagFacts
<1>5. HeldRight'
  <2>1. ASSUME NEW m \in Node, Counted'[m] > 0
        PROVE  /\ m \in Subtree /\ Leaf(m) /\ (visits[m] = 0 => Counted'[m] = 1)
               /\ (TwoFold(m) => Depth(m) >= Cycle[m])
    <3>1. CASE Counted'[m] = Counted[m]
      BY <2>1, <3>1 DEF Tree, HeldRight
    <3>2. CASE Counted'[m] # Counted[m]
      <4>1. m = c /\ Counted'[c] = Counted[c] + 1 /\ Leaf(c) /\ (visits[c] = 0 => Counted[c] = 0)
        BY <1>1, <3>2 DEF Started
      <4>2. TwoFold(c) => Depth(c) >= Cycle[c]
        <5>1. CASE visits[c] = 0 /\ TwoFold(c)
          <6>1. Counted[c] > 0
            BY <1>3, <5>1 DEF Tree, TwoFoldHeld
          <6>. QED BY <1>3, <6>1 DEF Tree, HeldRight
        <5>2. CASE visits[c] # 0 /\ TwoFold(c)
          <6>1. ~(Depth(c) < Cycle[c])
            BY <5>2 DEF Stale, TwoFold
          <6>2. Depth(c) \in Nat /\ Cycle[c] \in Nat
            <7>1. IsFiniteSet(Ancestors(c))
              <8>1. Ancestors(c) \subseteq Node
                BY <1>4 DEF Ancestors
              <8>. QED BY <8>1, FS_Subset, BagFacts
            <7>. QED BY <1>3, <7>1, FS_CardinalityType, TreeAssumption DEF Depth
          <6>. QED BY <6>1, <6>2
        <5>. QED BY <5>1, <5>2
      <4>. QED BY <1>3, <1>t, <4>1, <4>2
    <3>. QED BY <3>1, <3>2
  <2>. QED BY <1>1, <1>2, <2>1 DEF HeldRight
<1>6. Untouched'
  <2>1. ASSUME NEW m \in Subtree, visits[m] = 0 \/ TwoFold(m), NEW y \in Below[m]
        PROVE  visits[y] = 0 /\ inFlight'[y] = 0
    <3>1. y # c /\ y \in Node
      BY <1>3, <1>4, <1>t, <2>1
    <3>2. visits[y] = 0 /\ inFlight[y] = 0
      BY <2>1 DEF Tree, Untouched
    <3>. QED BY <3>1, <3>2 DEF Started
  <2>. QED BY <1>1, <1>2, <2>1 DEF Untouched
<1>7. TwoFoldHeld'
  <2>1. \A m \in Subtree : Counted[m] > 0 => Counted'[m] > 0
    BY <1>4, <1>t DEF Started
  <2>. QED BY <1>1, <1>2, <2>1 DEF Tree, TwoFoldHeld
<1>8. Shape'
  <2>1. ASSUME NEW m \in Subtree \ {root}, visits[m] > 0 \/ inFlight'[m] > 0
        PROVE  m \in edges[Parent[m]]
    <3>1. CASE m = c
      BY <1>3, <3>1
    <3>2. CASE m # c
      BY <1>4, <2>1, <3>2 DEF Started, Tree, Shape
    <3>. QED BY <3>1, <3>2
  <2>. QED BY <1>1, <1>2, <2>1 DEF Tree, Shape
<1>9. Numbers'
  <2>1. VisitsAccounted'
    BY <1>1, <1>2 DEF Numbers, VisitsAccounted
  <2>2. DrawVisits' = DrawVisits /\ StaleVisits' = StaleVisits
    BY <1>1, <1>2 DEF DrawVisits, StaleVisits
  <2>3. DrawsCounted'
    BY <1>1, <1>2, <2>2 DEF Numbers, DrawsCounted
  <2>4. StaleCounted'
    BY <1>1, <1>2, <2>2 DEF Numbers, StaleCounted
  <2>. QED BY <2>1, <2>3, <2>4 DEF Numbers
<1>10. BoundsAreTrue'
  BY <1>1, <1>2 DEF BoundsAreTrue
<1>. QED BY <1>5, <1>6, <1>7, <1>8, <1>9, <1>10 DEF Tree

(* The visits of a two-fold draw whose first occurrence has left the search   *)
(* are taken back, at the draw and above it.                                  *)
TakenBack(c) ==
  /\ visits' = Add(visits, Path(c), -Stale(c))
  /\ initial' = initial - Stale(c)
  /\ status' = [status EXCEPT ![c].term = "no"]
  /\ UNCHANGED <<root, playouts, edges>>

(* The counts that hold the stale visits all lose them, and stay positive.    *)
LEMMA PickTreeBack ==
  ASSUME TreeOK, Tree, Numbers, BoundsAreTrue,
         inFlight \in Bags, inFlight' \in Bags, Counted \in Bags,
         NEW x \in Subtree, NEW c \in Kids(x), c \in edges[x], ~Leaf(x), Stale(c) # 0, Started(c),
         TakenBack(c)
  PROVE  /\ TreeOK' /\ Tree' /\ Numbers' /\ BoundsAreTrue'
         /\ Subtree' = Subtree /\ \A m \in Subtree : Leaf(m)' <=> Leaf(m)
         /\ Leaf(c) /\ visits'[c] = 0 /\ status'[c].term = "no"
<1>. DEFINE back == Stale(c)
<1>0. /\ root \in Node /\ root' = root /\ playouts' = playouts /\ edges' = edges
      /\ initial' = initial - back /\ Subtree' = Subtree /\ visits \in Bags
      /\ \A m : Depth(m)' = Depth(m)
  BY DEF TreeOK, TakenBack, Subtree, Depth, Ancestors
<1>1. /\ c \in Subtree /\ c # root /\ c \in Node /\ x \in Node /\ Parent[c] = x
      /\ \A m \in Path(c) \ {c} : visits[m] > 0 /\ ~TwoFold(m)
  BY WayDown DEF Tree
<1>p. /\ root \in Subtree /\ Subtree \in SUBSET Node
      /\ Path(c) \in SUBSET Subtree /\ c \in Path(c) /\ root \in Path(c)
      /\ \A m \in Subtree : m \in Path(c) <=> c \in {m} \cup Below[m]
      /\ \A m \in Subtree : {m} \cup Below[m] \subseteq Subtree
      /\ \A m \in Subtree : Kids(m) \subseteq Subtree \ {root}
      /\ \A m \in Subtree : \A d \in Kids(m) : d \in Path(c) => m \in Path(c)
      /\ \A m \in Path(c) : m # c => \E d \in Kids(m) : d \in Path(c)
      /\ \A m \in Subtree : \A d, e \in Kids(m) : d \in Path(c) /\ e \in Path(c) => d = e
      /\ \A m \in Subtree : \A y \in Below[m] : y \in Path(c) => m \in Path(c)
  BY <1>0, <1>1, PathFacts
<1>2. /\ TwoFold(c) /\ Depth(c) < Cycle[c] /\ back = visits[c] /\ visits[c] > 0 /\ back \in Nat
      /\ visits[c] \in Nat /\ Leaf(c)
  <2>1. visits[c] \in Nat
    BY <1>0, <1>1, BagFacts
  <2>. QED BY <2>1 DEF Stale, TwoFold, Leaf
<1>3. Counted[c] = 0
  <2>1. Counted[c] \in Nat
    BY <1>1, BagFacts
  <2>2. Counted[c] > 0 => Depth(c) >= Cycle[c]
    BY <1>1, <1>2 DEF Tree, HeldRight
  <2>3. Depth(c) \in Nat /\ Cycle[c] \in Nat
    <3>1. IsFiniteSet(Ancestors(c))
      <4>1. Ancestors(c) \subseteq Node
        BY <1>p DEF Ancestors
      <4>. QED BY <4>1, FS_Subset, BagFacts
    <3>. QED BY <1>1, <3>1, FS_CardinalityType, TreeAssumption DEF Depth
  <2>. QED BY <1>2, <2>1, <2>2, <2>3
<1>v. /\ visits' = [m \in Node |-> visits'[m]]
      /\ \A m \in Path(c) : visits'[m] = visits[m] - back
      /\ \A m \in Node \ Path(c) : visits'[m] = visits[m]
  <2>. DEFINE k == -back
              g == Add(visits, Path(c), k)
  <2>1. visits' = g
    BY DEF TakenBack
  <2>2. Path(c) \in SUBSET Node /\ k \in Int
    BY <1>p, <1>2
  <2>3. /\ g = [m \in Node |-> g[m]]
        /\ \A m \in Path(c) : g[m] = visits[m] + k
        /\ \A m \in Node \ Path(c) : g[m] = visits[m]
    <3>. HIDE DEF k
    <3>. QED BY <1>0, <2>2, AddIs
  <2>4. \A m \in Path(c) : visits[m] + k = visits[m] - back
    <3>1. \A m \in Path(c) : visits[m] \in Int
      BY <1>0, <1>p, BagFacts
    <3>. HIDE DEF back
    <3>. QED BY <1>2, <3>1
  <2>. QED BY <2>1, <2>3, <2>4
<1>s. /\ status' \in [Node -> Statuses] /\ status'[c].term = "no"
      /\ status'[c].lo = status[c].lo /\ status'[c].up = status[c].up
      /\ \A m \in Node \ {c} : status'[m] = status[m]
  <2>1. status \in [Node -> Statuses] /\ status[c] \in Statuses
    BY <1>1 DEF TreeOK, Statuses
  <2>. DEFINE s == [status[c] EXCEPT !.term = "no"]
  <2>2. status' = [status EXCEPT ![c] = s]
    BY DEF TakenBack
  <2>3. s \in Statuses /\ s.term = "no" /\ s.lo = status[c].lo /\ s.up = status[c].up
    BY <2>1 DEF Statuses
  <2>. HIDE DEF s
  <2>. QED BY <1>1, <2>1, <2>2, <2>3
<1>t. \A m \in Node : visits[m] \in Nat /\ inFlight[m] \in Nat /\ inFlight'[m] \in Nat
                      /\ Counted[m] \in Nat
  BY <1>0, BagFacts
<1>. HIDE DEF back
<1>w. /\ visits'[c] = 0 /\ ~TwoFold(c)'
      /\ \A m \in Node \ {c} : TwoFold(m)' <=> TwoFold(m)
  BY <1>1, <1>2, <1>p, <1>s, <1>v DEF TwoFold
<1>4. \A m \in Path(c) \ {c} : visits'[m] >= 1 /\ visits'[m] \in Nat
  <2>1. ASSUME NEW m \in Path(c) \ {c} PROVE visits'[m] >= 1 /\ visits'[m] \in Nat
    <3>1. m \in Subtree /\ m \in Node /\ c \in Below[m] /\ visits[m] \in Nat
          /\ visits'[m] = visits[m] - back
      BY <1>p, <1>t, <1>v, <2>1
    <3>. DEFINE f == DrawVisits
                B == Below[m]
    <3>2. visits[m] >= 1 + SumOver(f, B)
      BY <1>1, <2>1, <3>1 DEF Numbers, DrawsCounted
    <3>3. (\A y \in B : f[y] \in Nat) /\ IsFiniteSet(B)
      BY <1>t, <3>1, BelowType DEF DrawVisits
    <3>4. f[c] = back
      BY <1>1, <1>2 DEF DrawVisits
    <3>. HIDE DEF f, B
    <3>5. f[c] <= SumOver(f, B) /\ SumOver(f, B) \in Int
      <4>1. c \in B
        BY <3>1 DEF B
      <4>. QED BY <3>3, <4>1, SumAtLeast, SumType
    <3>. QED BY <1>2, <3>1, <3>2, <3>4, <3>5
  <2>. QED BY <2>1
<1>5. visits' \in Bags
  <2>1. \A m \in Node : visits'[m] \in Nat
    BY <1>4, <1>t, <1>v, <1>w
  <2>. QED BY <1>v, <2>1 DEF Bags
<1>6. \A m \in Subtree : Leaf(m)' <=> Leaf(m)
  <2>1. ASSUME NEW m \in Subtree PROVE Leaf(m)' <=> Leaf(m)
    <3>1. CASE m = c
      BY <1>2, <1>w, <3>1 DEF Leaf
    <3>2. CASE m # c /\ m \in Path(c)
      BY <1>1, <1>4, <1>p, <1>s, <3>2 DEF Leaf
    <3>3. CASE m \notin Path(c)
      BY <1>p, <1>s, <1>v, <3>3 DEF Leaf
    <3>. QED BY <3>1, <3>2, <3>3
  <2>. QED BY <2>1
<1>7. HeldRight'
  <2>1. ASSUME NEW m \in Node, Counted'[m] > 0
        PROVE  /\ m \in Subtree /\ Leaf(m)' /\ (visits'[m] = 0 => Counted'[m] = 1)
               /\ (TwoFold(m)' => Depth(m) >= Cycle[m])
    <3>1. CASE m = c
      <4>1. Counted'[c] = 1
        BY <1>3, <2>1, <3>1 DEF Started
      <4>. QED BY <1>1, <1>2, <1>6, <1>w, <3>1, <4>1
    <3>2. CASE m # c
      <4>1. Counted'[m] = Counted[m]
        BY <3>2 DEF Started
      <4>2. /\ m \in Subtree /\ Leaf(m) /\ (visits[m] = 0 => Counted[m] = 1)
            /\ (TwoFold(m) => Depth(m) >= Cycle[m])
        BY <2>1, <4>1 DEF Tree, HeldRight
      <4>3. visits'[m] = 0 => visits[m] = 0
        BY <1>4, <1>v, <3>2
      <4>. QED BY <1>6, <1>w, <3>2, <4>1, <4>2, <4>3
    <3>. QED BY <3>1, <3>2
  <2>. QED BY <1>0, <2>1 DEF HeldRight
<1>8. Untouched'
  <2>1. ASSUME NEW m \in Subtree, visits'[m] = 0 \/ TwoFold(m)', NEW y \in Below[m]
        PROVE  visits'[y] = 0 /\ inFlight'[y] = 0
    <3>1. m \in Node /\ y \in Subtree /\ y \in Node /\ m # y
      BY <1>p, BelowType
    <3>2. visits[m] = 0 \/ TwoFold(m)
      BY <1>2, <1>4, <1>v, <1>w, <2>1, <3>1
    <3>3. m \notin Path(c) \/ m = c
      BY <1>1, <1>4, <1>w, <2>1, <3>1
    <3>4. y \notin Path(c)
      <4>1. CASE m = c
        <5>1. y \in Path(c) => c \in {y} \cup Below[y]
          BY <1>p, <3>1
        <5>2. c < y /\ (c \in Below[y] => y < c) /\ c \in Nat /\ y \in Nat
          BY <1>1, <3>1, <4>1, BelowType, Numbered
        <5>. QED BY <5>1, <5>2
      <4>2. CASE m \notin Path(c)
        BY <1>p, <4>2
      <4>. QED BY <3>3, <4>1, <4>2
    <3>5. visits[y] = 0 /\ inFlight[y] = 0
      BY <3>2 DEF Tree, Untouched
    <3>. QED BY <1>p, <1>v, <3>1, <3>4, <3>5 DEF Started
  <2>. QED BY <1>0, <2>1 DEF Untouched
<1>9. TwoFoldHeld'
  <2>1. ASSUME NEW m \in Subtree, TwoFold(m)', visits'[m] = 0
        PROVE  Counted'[m] > 0
    <3>1. m \in Node /\ m # c /\ m \notin Path(c)
      BY <1>1, <1>4, <1>p, <1>w, <2>1
    <3>2. visits[m] = 0 /\ TwoFold(m) /\ Counted'[m] = Counted[m]
      BY <1>v, <1>w, <2>1, <3>1 DEF Started
    <3>. QED BY <3>2 DEF Tree, TwoFoldHeld
  <2>. QED BY <1>0, <2>1 DEF TwoFoldHeld
<1>10. Shape'
  <2>1. ASSUME NEW m \in Subtree \ {root}, visits'[m] > 0 \/ inFlight'[m] > 0
        PROVE  m \in edges[Parent[m]]
    <3>1. CASE m = c
      BY <1>1, <3>1
    <3>2. CASE m # c
      <4>1. visits[m] > 0 \/ inFlight[m] > 0
        BY <1>2, <1>p, <1>t, <1>v, <2>1, <3>2 DEF Started
      <4>. QED BY <4>1 DEF Tree, Shape
    <3>. QED BY <3>1, <3>2
  <2>2. ~TwoFold(root)'
    BY <1>0, <1>1, <1>w DEF Tree, Shape
  <2>. QED BY <1>0, <2>1, <2>2 DEF Tree, Shape
<1>11. VisitsAccounted'
  <2>1. visits'[root] = initial' + playouts'
    <3>1. visits[root] = initial + playouts
      BY DEF Numbers, VisitsAccounted
    <3>. QED BY <1>0, <1>2, <1>p, <1>v, <3>1 DEF TreeOK
  <2>2. ASSUME NEW m \in Subtree, visits'[m] > 0, status'[m].term = "no"
        PROVE  visits'[m] = 1 + SumOver(visits', edges[m])
    <3>1. m \in Node /\ m # c /\ status[m].term = "no" /\ edges[m] \in {{}, Kids(m)}
      BY <1>p, <1>s, <1>w, <2>2 DEF Tree, Shape
    <3>2. IsFiniteSet(edges[m]) /\ edges[m] \subseteq Kids(m) /\ Kids(m) \in SUBSET Node
      <4>1. IsFiniteSet(Kids(m)) /\ Kids(m) \in SUBSET Node
        BY <3>1, KidsType
      <4>2. edges[m] \subseteq Kids(m)
        BY <3>1
      <4>. QED BY <4>1, <4>2, FS_Subset
    <3>. DEFINE E == edges[m]
                f == visits
                g == visits'
    <3>3. (\A y \in E : f[y] \in Int) /\ \A y \in Node : g[y] \in Int
      BY <1>5, <1>t, <3>2, BagFacts
    <3>4. CASE m \notin Path(c)
      <4>1. \A y \in E : g[y] = f[y]
        BY <1>p, <1>v, <3>2, <3>4
      <4>2. SumOver(g, E) = SumOver(f, E)
        <5>. HIDE DEF E, f, g
        <5>. QED BY <3>2, <3>3, <4>1, SumSame DEF E
      <4>3. visits'[m] = visits[m]
        BY <1>v, <3>1, <3>4
      <4>. QED BY <2>2, <3>1, <4>2, <4>3 DEF Numbers, VisitsAccounted
    <3>5. CASE m \in Path(c)
      <4>1. PICK d \in Kids(m) : d \in Path(c)
        BY <1>p, <3>1, <3>5
      <4>2. d \in Subtree \ {root} /\ Parent[d] = m /\ visits[d] > 0
        BY <1>1, <1>2, <1>p, <3>1, <4>1, KidsType
      <4>3. d \in E
        BY <4>2 DEF Tree, Shape
      <4>4. \A y \in E \ {d} : g[y] = f[y]
        BY <1>p, <1>v, <3>2, <4>1
      <4>5. g[d] = f[d] - back /\ f[d] \in Int
        BY <1>v, <3>3, <4>1, <4>3
      <4>6. SumOver(g, E) = SumOver(f, E) - back /\ SumOver(f, E) \in Int
        <5>. HIDE DEF E, f, g
        <5>1. IsFiniteSet(E) /\ g[d] \in Int
          BY <1>2, <3>2, <4>5 DEF E
        <5>2. SumOver(g, E) = SumOver(f, E) + (g[d] - f[d])
          BY <3>3, <4>3, <4>4, <5>1, SumOne
        <5>3. SumOver(f, E) \in Int
          BY <3>3, <5>1, SumType
        <5>. QED BY <1>2, <4>5, <5>2, <5>3
      <4>8. visits[m] = 1 + SumOver(f, E)
        BY <1>1, <3>1, <3>5 DEF Numbers, VisitsAccounted
      <4>9. visits'[m] = visits[m] - back
        BY <1>v, <3>5
      <4>11. visits'[m] = 1 + SumOver(g, E)
        <5>. HIDE DEF E, f, g
        <5>. QED BY <1>2, <4>6, <4>8, <4>9
      <4>. QED BY <4>11
    <3>. QED BY <3>4, <3>5
  <2>. QED BY <1>0, <2>1, <2>2 DEF VisitsAccounted
<1>12. DrawsCounted'
  <2>. DEFINE f == DrawVisits
              g == DrawVisits'
  <2>1. \A y \in Node : f[y] \in Nat /\ g[y] \in Nat
    BY <1>5, <1>t, BagFacts DEF DrawVisits
  <2>2. \A y \in Node \ {c} : g[y] = f[y]
    BY <1>1, <1>v, <1>w DEF DrawVisits
  <2>3. g[c] = 0 /\ f[c] = back
    BY <1>1, <1>2, <1>w DEF DrawVisits
  <2>4. ASSUME NEW m \in Subtree, visits'[m] > 0, ~TwoFold(m)'
        PROVE  visits'[m] >= 1 + SumOver(g, Below[m])
    <3>0. m \in Node /\ m # c
      <4>1. m \in Node
        BY <1>p, <2>4
      <4>2. m # c
        <5>1. SUFFICES ASSUME m = c PROVE FALSE
          OBVIOUS
        <5>2. visits'[c] > 0
          BY <2>4, <5>1
        <5>. QED BY <1>w, <5>2
      <4>. QED BY <4>1, <4>2
    <3>1. m \in Node /\ m # c /\ ~TwoFold(m) /\ IsFiniteSet(Below[m]) /\ Below[m] \in SUBSET Node
      <4>1. ~TwoFold(m)
        BY <1>w, <2>4, <3>0
      <4>. QED BY <3>0, <4>1, BelowType
    <3>. DEFINE B == Below[m]
    <3>2. SumOver(g, B) = SumOver(f, B) + (IF c \in B THEN g[c] - f[c] ELSE 0)
          /\ SumOver(f, B) \in Int
      <4>1. \A y \in B : f[y] \in Int /\ g[y] \in Int
        BY <2>1, <3>1
      <4>2. \A y \in B \ {c} : g[y] = f[y]
        BY <2>2, <3>1
      <4>3. IsFiniteSet(B)
        BY <3>1
      <4>. HIDE DEF B, f, g
      <4>. QED BY <4>1, <4>2, <4>3, SumChange, SumType
    <3>3. visits[m] > 0
      BY <1>1, <1>v, <2>4, <3>1
    <3>4. visits[m] >= 1 + SumOver(f, B) /\ visits[m] \in Nat
      BY <1>t, <3>1, <3>3 DEF Numbers, DrawsCounted
    <3>5. visits'[m] = visits[m] - (IF c \in B THEN back ELSE 0)
      BY <1>p, <1>v, <1>t, <1>2, <3>1
    <3>. HIDE DEF B, f, g
    <3>6. visits'[m] >= 1 + SumOver(g, B)
      BY <1>2, <2>3, <3>2, <3>4, <3>5
    <3>. QED BY <3>6 DEF B
  <2>. QED BY <1>0, <2>4 DEF DrawsCounted
<1>13. StaleCounted' /\ initial' \in Nat
  <2>. DEFINE f == StaleVisits
              g == StaleVisits'
              S == Subtree
  <2>1. \A y \in Node \ {c} : g[y] = f[y]
    <3>1. ASSUME NEW y \in Node \ {c} PROVE Stale(y)' = Stale(y)
      <4>1. CASE y \in Path(c)
        BY <1>1, <1>w, <3>1, <4>1 DEF Stale, TwoFold
      <4>2. CASE y \notin Path(c)
        BY <1>0, <1>s, <1>v, <3>1, <4>2 DEF Stale
      <4>. QED BY <4>1, <4>2
    <3>. QED BY <3>1 DEF StaleVisits
  <2>2. g[c] = 0 /\ f[c] = back
    BY <1>1, <1>w DEF StaleVisits, Stale, TwoFold, back
  <2>3. \A y \in Node : f[y] \in Nat
    BY <1>t DEF StaleVisits, Stale
  <2>4. \A y \in S : f[y] \in Int /\ g[y] \in Int /\ g[y] >= 0
    BY <1>p, <2>1, <2>2, <2>3
  <2>5. \A y \in S \ {c} : g[y] = f[y]
    BY <1>p, <2>1
  <2>6. IsFiniteSet(S) /\ c \in S
    BY <1>1, <1>p, FS_Subset, BagFacts
  <2>7. SumOver(f, S) <= initial /\ initial \in Nat
    BY DEF Numbers, StaleCounted, TreeOK
  <2>. HIDE DEF f, g, S
  <2>8. SumOver(g, S) = SumOver(f, S) + (g[c] - f[c])
    BY <2>4, <2>5, <2>6, SumOne
  <2>9. SumOver(f, S) \in Int /\ SumOver(g, S) \in Int /\ SumOver(g, S) >= 0
    BY <2>4, <2>6, SumType
  <2>10. SumOver(g, S) <= initial' /\ initial' \in Nat
    BY <1>0, <1>2, <2>2, <2>7, <2>8, <2>9
  <2>. QED BY <1>0, <2>10 DEF StaleCounted, g, S
<1>14. BoundsAreTrue'
  <2>1. ASSUME NEW m \in Subtree
        PROVE  /\ status'[m].lo <= Truth[m] /\ Truth[m] <= status'[m].up
               /\ status'[m].term = "end" => status'[m].lo = status'[m].up
    <3>1. CASE m = c
      BY <1>s, <3>1 DEF BoundsAreTrue
    <3>2. CASE m # c
      <4>1. status'[m] = status[m]
        BY <1>p, <1>s, <3>2
      <4>. QED BY <4>1 DEF BoundsAreTrue
    <3>. QED BY <3>1, <3>2
  <2>. QED BY <1>0, <2>1 DEF BoundsAreTrue
<1>15. TreeOK'
  BY <1>0, <1>5, <1>13, <1>s DEF TreeOK, Statuses
<1>. QED BY <1>0, <1>2, <1>6, <1>7, <1>8, <1>9, <1>10, <1>11, <1>12, <1>13, <1>14, <1>15, <1>s, <1>w
     DEF Tree, Numbers

(* A bag that changes at two nodes.                                           *)
LEMMA SumOfTwo ==
  ASSUME NEW f \in Bags, NEW g \in Bags, NEW x \in Node, NEW c \in Node, x # c,
         \A y \in Node \ {x, c} : g[y] = f[y]
  PROVE  Sum(g) = Sum(f) + (g[x] - f[x]) + (g[c] - f[c])
<1>. DEFINE e == [f EXCEPT ![x] = g[x]]
<1>1. \A y \in Node : f[y] \in Nat /\ g[y] \in Nat
  BY BagFacts
<1>2. e \in Bags /\ e[x] = g[x] /\ \A y \in Node \ {x} : e[y] = f[y]
  BY <1>1 DEF Bags
<1>. HIDE DEF e
<1>3. \A y \in Node : e[y] \in Nat
  BY <1>2, BagFacts
<1>f. IsFiniteSet(Node)
  BY BagFacts
<1>4. SumOver(e, Node) = SumOver(f, Node) + (e[x] - f[x])
  BY <1>f, <1>1, <1>2, <1>3, SumOne
<1>5. SumOver(g, Node) = SumOver(e, Node) + (g[c] - e[c])
  <2>1. \A y \in Node \ {c} : g[y] = e[y]
    BY <1>2
  <2>2. \A y \in Node : e[y] \in Int /\ g[y] \in Int
    BY <1>1, <1>3
  <2>. DEFINE S == Node
  <2>3. /\ IsFiniteSet(S) /\ c \in S /\ \A y \in S : e[y] \in Int /\ g[y] \in Int
        /\ \A y \in S \ {c} : g[y] = e[y]
    BY <1>f, <2>1, <2>2
  <2>4. SumOver(g, S) = SumOver(e, S) + (IF c \in S THEN g[c] - e[c] ELSE 0)
    <3>. HIDE DEF S
    <3>. QED BY <2>3, SumChange
  <2>. QED BY <2>4
<1>6. Sum(f) = SumOver(f, Node) /\ Sum(g) = SumOver(g, Node) /\ Sum(f) \in Nat
  BY SumBag
<1>7. e[c] = f[c]
  BY <1>2
<1>. QED BY <1>1, <1>2, <1>4, <1>5, <1>6, <1>7

(* The draws whose first occurrence has left the search lose their visits,    *)
(* the other children nothing.                                                *)
LEMMA BackIs ==
  ASSUME TreeOK, NEW c \in Subtree, Stale(c) = 0,
         visits' = Add(visits, Path(c), -Stale(c)), initial' = initial - Stale(c)
  PROVE  visits' = visits /\ initial' = initial
<1>1. root \in Node /\ visits \in Bags /\ initial \in Nat
  BY DEF TreeOK
<1>2. Path(c) \in SUBSET Node
  BY <1>1, PathFacts
<1>. DEFINE s == Stale(c)
            k == -s
            g == Add(visits, Path(c), k)
<1>3. s = 0 /\ k \in Int
  OBVIOUS
<1>4. /\ g = [m \in Node |-> g[m]]
      /\ \A m \in Path(c) : g[m] = visits[m] + k
      /\ \A m \in Node \ Path(c) : g[m] = visits[m]
  <2>. HIDE DEF k
  <2>. QED BY <1>1, <1>2, <1>3, AddIs
<1>5. visits' = g
  OBVIOUS
<1>6. \A m \in Node : g[m] = visits[m]
  <2>1. \A m \in Node : visits[m] \in Int
    BY <1>1, BagFacts
  <2>2. \A m \in Node : visits[m] + k = visits[m] - s
    <3>. HIDE DEF s
    <3>. QED BY <1>3, <2>1
  <2>3. \A m \in Node : visits[m] - s = visits[m]
    <3>. HIDE DEF s
    <3>. QED BY <1>3, <2>1
  <2>. HIDE DEF s, k, g
  <2>4. \A m \in Path(c) : g[m] = visits[m]
    BY <1>2, <1>4, <2>2, <2>3
  <2>. QED BY <1>4, <2>4
<1>. HIDE DEF g, s, k
<1>7. visits = [m \in Node |-> visits[m]]
  BY <1>1, BagFacts
<1>8. g = visits
  BY <1>4, <1>6, <1>7
<1>9. initial' = initial
  BY <1>1, <1>3 DEF s
<1>. QED BY <1>5, <1>8, <1>9

(* Visits go on from a node to one of its children.                           *)
LEMMA PickChildKeeps ==
  ASSUME IInv, NEW w \in Worker, PickChild(w)
  PROVE  IInv'
<1>1. TreeOK /\ BagsOK /\ WorkersOK /\ inFlight \in Bags /\ root \in Node
  BY TypeParts DEF IInv, TreeOK
<1>. DEFINE x == Min(Due)
<1>a. /\ lock = w /\ phase[w] = "pick" /\ Due # {} /\ ~Leaf(x)
      /\ \E c \in edges[x], k \in 1..todo[x] :
             LET back == Stale(c)
             IN /\ visits' = Add(visits, Path(c), -back)
                /\ initial' = initial - back
                /\ status' = IF back = 0 THEN status
                             ELSE [status EXCEPT ![c].term = "no"]
                /\ StartVisits(w, c, k, visits')
  BY DEF PickChild
<1>b. UNCHANGED <<root, playouts, edges, ready, batch, fresh, collided, shared, lock, phase,
                  left, limit, worked>>
  BY DEF PickChild, collVars
<1>c. x \in Due /\ x \in Node /\ x \in Subtree /\ todo[x] > 0
  BY <1>1, <1>a, DueFirst DEF BagsOK, IInv, Picking
<1>. HIDE DEF x
<1>2. PICK c \in edges[x], k \in 1..todo[x] :
        /\ visits' = Add(visits, Path(c), -Stale(c))
        /\ initial' = initial - Stale(c)
        /\ status' = IF Stale(c) = 0 THEN status ELSE [status EXCEPT ![c].term = "no"]
        /\ StartVisits(w, c, k, visits')
  BY <1>a
<1>3. c \in Kids(x)
  BY <1>c DEF IInv, Tree, Shape
<1>4. /\ c \in Subtree /\ c # root /\ c \in Node /\ Parent[c] = x /\ c # x
      /\ x \notin Below[c] /\ Above[c] = {x} \cup Above[x]
  BY <1>1, <1>a, <1>c, <1>3, WayDown DEF IInv, Tree
<1>5. Leaf(c)' => Leaf(c)
  <2>1. CASE Stale(c) = 0
    <3>1. visits' = visits /\ status' = status
      BY <1>1, <1>2, <1>4, <2>1, BackIs
    <3>. QED BY <3>1 DEF Leaf
  <2>2. CASE Stale(c) # 0
    BY <2>2 DEF Stale, Leaf
  <2>. QED BY <2>1, <2>2
<1>. DEFINE starts == MayStart(visits'[c], inFlight[c])
            o == IF starts /\ Leaf(c)' THEN 1 ELSE 0
            d == IF ~starts THEN 0 ELSE IF Leaf(c)' THEN 1 ELSE k
<1>6. /\ inFlight' = IF ~starts THEN inFlight ELSE Add(inFlight, {c}, d)
      /\ picked' = [picked EXCEPT ![w][c] = @ + o]
      /\ todo' = [todo EXCEPT ![x] = @ - k, ![c] = @ + k - o]
  BY <1>2, <1>4 DEF StartVisits, Leaf
<1>7. /\ k \in Nat /\ k >= 1 /\ k <= todo[x] /\ o \in {0, 1} /\ d \in Nat
      /\ todo[x] \in Nat /\ todo[c] \in Nat /\ inFlight[c] \in Nat /\ k - o \in Nat
  <2>1. todo[x] \in Nat /\ todo[c] \in Nat /\ inFlight[c] \in Nat
    BY <1>1, <1>c, <1>4, BagFacts DEF BagsOK
  <2>. QED BY <2>1
<1>8. Leaf(c)' => d = o
  OBVIOUS
<1>9. ~Leaf(c)' => o = 0 /\ d = k
  <2>1. ~Leaf(c)' => starts
    <3>1. ~starts => visits'[c] = 0
      BY DEF MayStart
    <3>. QED BY <3>1 DEF Leaf
  <2>. QED BY <2>1
<1>10. o = 1 => Leaf(c) /\ (visits'[c] = 0 => Counted[c] = 0)
  <2>1. SUFFICES ASSUME o = 1 PROVE Leaf(c) /\ (visits'[c] = 0 => Counted[c] = 0)
    OBVIOUS
  <2>2. starts /\ Leaf(c)'
    BY <2>1
  <2>3. visits'[c] = 0 => inFlight[c] = 0
    BY <1>7, <2>2 DEF MayStart
  <2>4. inFlight[c] = 0 => Counted[c] = 0
    <3>1. inFlight[c] = Load(Counted, Collisions, c) + (IF Leaf(c) THEN 0 ELSE todo[c])
      BY <1>4 DEF IInv, Flow
    <3>2. Counted \in Bags /\ Collisions \in Bags
      BY <1>1, CountedType
    <3>3. Load(Counted, Collisions, c) \in Nat /\ Counted[c] <= Load(Counted, Collisions, c)
          /\ Counted[c] \in Nat
      BY <1>4, <3>2, LoadNat, BagFacts
    <3>. QED BY <1>7, <3>1, <3>3
  <2>. QED BY <1>5, <2>2, <2>3, <2>4
<1>11. /\ inFlight'[c] = inFlight[c] + d /\ \A m \in Node \ {c} : inFlight'[m] = inFlight[m]
       /\ inFlight' = [m \in Node |-> inFlight'[m]] /\ inFlight' \in Bags
  <2>1. \A m \in Node : inFlight[m] \in Nat
    BY <1>1, BagFacts
  <2>2. /\ inFlight'[c] = inFlight[c] + d /\ \A m \in Node \ {c} : inFlight'[m] = inFlight[m]
        /\ inFlight' = [m \in Node |-> inFlight'[m]]
    <3>1. CASE ~starts
      <4>1. inFlight' = inFlight /\ d = 0
        BY <1>6, <3>1
      <4>2. inFlight = [m \in Node |-> inFlight[m]]
        BY <1>1, BagFacts
      <4>. QED BY <1>7, <4>1, <4>2
    <3>2. CASE starts
      <4>1. inFlight' = Add(inFlight, {c}, d)
        BY <1>6, <3>2
      <4>2. {c} \in SUBSET Node /\ d \in Int
        BY <1>4, <1>7
      <4>. DEFINE S == {c}
                  g == Add(inFlight, S, d)
      <4>3. /\ g = [m \in Node |-> g[m]]
            /\ \A m \in S : g[m] = inFlight[m] + d
            /\ \A m \in Node \ S : g[m] = inFlight[m]
        <5>1. S \in SUBSET Node
          BY <1>4
        <5>. HIDE DEF d, S
        <5>. QED BY <1>1, <4>2, <5>1, AddIs
      <4>4. inFlight' = g
        BY <4>1
      <4>. HIDE DEF d, g
      <4>. QED BY <4>3, <4>4
    <3>. QED BY <3>1, <3>2
  <2>3. \A m \in Node : inFlight'[m] \in Nat
    BY <1>7, <2>1, <2>2
  <2>. QED BY <2>2, <2>3 DEF Bags
<1>. HIDE DEF starts, o, d
<1>12. /\ todo'[x] = todo[x] - k /\ todo'[c] = todo[c] + (k - o)
       /\ \A m \in Node \ {x, c} : todo'[m] = todo[m]
       /\ todo' \in Bags
  <2>1. todo \in [Node -> Nat]
    BY <1>1 DEF BagsOK, Bags
  <2>. DEFINE a == todo[x] - k
              b == todo[c] + k - o
  <2>2. a \in Nat /\ b \in Nat /\ b = todo[c] + (k - o)
    BY <1>7
  <2>3. todo' = [todo EXCEPT ![x] = a, ![c] = b]
    BY <1>4, <1>6, <2>1
  <2>4. todo' \in [Node -> Nat] /\ todo'[x] = a /\ todo'[c] = b
        /\ \A m \in Node \ {x, c} : todo'[m] = todo[m]
    <3>. HIDE DEF a, b
    <3>. QED BY <1>4, <1>c, <2>1, <2>2, <2>3
  <2>. QED BY <2>2, <2>4 DEF Bags
<1>13. /\ picked' \in [Worker -> Bags] /\ picked'[w][c] = picked[w][c] + o
       /\ \A m \in Node \ {c} : picked'[w][m] = picked[w][m]
       /\ \A v \in Worker \ {w} : picked'[v] = picked[v]
  <2>1. picked' = Changed(picked, w, c, o)
    BY <1>1, <1>6 DEF Changed, BagsOK
  <2>2. picked[w][c] + o >= 0 /\ o \in Int /\ picked \in [Worker -> Bags]
    BY <1>1, <1>4, <1>7, PartOf DEF BagsOK
  <2>. QED BY <1>4, <2>1, <2>2, ChangedIs
<1>14. BagsOK' /\ WorkersOK' /\ OthersRest(w)
  <2>1. BagsOK'
    BY <1>1, <1>b, <1>12, <1>13 DEF BagsOK
  <2>2. WorkersOK'
    BY <1>1, <1>b DEF WorkersOK
  <2>3. OthersRest(w)
    BY <1>b, <1>13 DEF OthersRest
  <2>. QED BY <2>1, <2>2, <2>3
<1>15. /\ Counted'[c] = Counted[c] + o /\ \A m \in Node \ {c} : Counted'[m] = Counted[m]
       /\ Collisions'[x] = Collisions[x] - k /\ Collisions'[c] = Collisions[c] + (k - o)
       /\ \A m \in Node \ {x, c} : Collisions'[m] = Collisions[m]
  <2>1. \A m \in Node : Counted'[m]
              = Counted[m] + ((picked'[w][m] + ready'[w][m] + batch'[w][m])
                                - (picked[w][m] + ready[w][m] + batch[w][m]))
    BY <1>1, <1>14, WorkerStep
  <2>2. \A m \in Node : Collisions'[m]
              = Collisions[m] + ((todo'[m] + shared'[m] + fresh'[w][m] + collided'[w][m])
                                   - (todo[m] + shared[m] + fresh[w][m] + collided[w][m]))
    BY <1>1, <1>14, WorkerStep
  <2>3. \A m \in Node :
          /\ picked[w][m] \in Nat /\ ready[w][m] \in Nat /\ batch[w][m] \in Nat
          /\ fresh[w][m] \in Nat /\ collided[w][m] \in Nat
          /\ todo[m] \in Nat /\ shared[m] \in Nat
          /\ Counted[m] \in Nat /\ Collisions[m] \in Nat
    BY <1>1, PartOf
  <2>4. Counted'[c] = Counted[c] + o /\ \A m \in Node \ {c} : Counted'[m] = Counted[m]
    BY <1>4, <1>7, <1>b, <1>13, <2>1, <2>3
  <2>5. Collisions'[x] = Collisions[x] - k
    BY <1>7, <1>b, <1>c, <1>12, <2>2, <2>3
  <2>6. Collisions'[c] = Collisions[c] + (k - o)
    BY <1>4, <1>7, <1>b, <1>12, <2>2, <2>3
  <2>7. \A m \in Node \ {x, c} : Collisions'[m] = Collisions[m]
    BY <1>b, <1>12, <2>2, <2>3
  <2>. QED BY <2>4, <2>5, <2>6, <2>7
<1>16. Counted \in Bags /\ Counted' \in Bags
  BY <1>1, <1>14, CountedType, CountedTypeNext
<1>17. Started(c)
  <2>1. Counted[c] \in Nat
    BY <1>4, <1>16, BagFacts
  <2>2. CASE o = 0
    BY <1>11, <1>15, <2>1, <2>2 DEF Started
  <2>3. CASE o = 1
    BY <1>10, <1>11, <1>15, <2>3 DEF Started
  <2>. QED BY <1>7, <2>2, <2>3
<1>18. /\ TreeOK' /\ Tree' /\ Numbers' /\ BoundsAreTrue'
       /\ Subtree' = Subtree /\ \A m \in Subtree : Leaf(m)' <=> Leaf(m)
  <2>1. CASE Stale(c) = 0
    <3>1. UNCHANGED treeVars
      BY <1>1, <1>2, <1>4, <1>b, <2>1, BackIs DEF treeVars
    <3>2. TreeOK' /\ Subtree' = Subtree /\ \A m \in Subtree : Leaf(m)' <=> Leaf(m)
      BY <1>1, <3>1 DEF treeVars, TreeOK, Subtree, Leaf
    <3>3. Tree' /\ Numbers' /\ BoundsAreTrue'
      BY <1>1, <1>3, <1>a, <1>c, <1>11, <1>16, <1>17, <2>1, <3>1, PickTreeSame DEF IInv
    <3>. QED BY <3>2, <3>3
  <2>2. CASE Stale(c) # 0
    <3>1. TakenBack(c)
      BY <1>2, <1>b, <2>2 DEF TakenBack
    <3>. QED BY <1>1, <1>3, <1>a, <1>c, <1>11, <1>16, <1>17, <2>2, <3>1, PickTreeBack DEF IInv
  <2>. QED BY <2>1, <2>2
<1>19. Flow'
  <2>1. IF Leaf(c) THEN d = o ELSE o = 0 /\ d = k
    BY <1>4, <1>8, <1>9, <1>18
  <2>. QED BY <1>1, <1>3, <1>4, <1>7, <1>a, <1>c, <1>11, <1>12, <1>14, <1>15, <1>18, <2>1, PickFlows
       DEF IInv
<1>20. Sum(todo') = Sum(todo) - o /\ Sum(Counted') = Sum(Counted) + o
       /\ Sum(todo) \in Nat /\ Sum(Counted) \in Nat
  <2>. DEFINE f == todo
              g == todo'
  <2>1. f \in Bags /\ g \in Bags /\ \A y \in Node \ {x, c} : g[y] = f[y]
    BY <1>1, <1>12 DEF BagsOK
  <2>2. g[x] = f[x] - k /\ g[c] = f[c] + (k - o) /\ f[x] \in Nat /\ f[c] \in Nat
    BY <1>7, <1>12
  <2>. HIDE DEF f, g
  <2>3. Sum(g) = Sum(f) + (g[x] - f[x]) + (g[c] - f[c])
    BY <1>4, <1>c, <2>1, SumOfTwo
  <2>4. Sum(f) \in Nat
    BY <2>1, SumBag
  <2>5. Sum(g) = Sum(f) - o
    BY <1>7, <2>2, <2>3, <2>4
  <2>. DEFINE h == Counted
              i == Counted'
  <2>6. h \in Bags /\ i \in Bags /\ (\A y \in Node \ {c} : i[y] = h[y]) /\ i[c] = h[c] + o
    BY <1>15, <1>16
  <2>. HIDE DEF h, i
  <2>7. \A y \in Node : h[y] \in Nat /\ i[y] \in Nat
    BY <2>6, BagFacts
  <2>8. SumOver(i, Node) = SumOver(h, Node) + (i[c] - h[c])
    BY <1>4, <2>6, <2>7, SumOne, BagFacts
  <2>9. Sum(i) = SumOver(i, Node) /\ Sum(h) = SumOver(h, Node) /\ Sum(h) \in Nat
    BY <2>6, SumBag
  <2>10. Sum(i) = Sum(h) + o
    BY <1>4, <1>7, <2>6, <2>7, <2>8, <2>9
  <2>. QED BY <2>4, <2>5, <2>9, <2>10 DEF f, g, h, i
<1>21. EmptiedBy(w)'
  BY <1>a, <1>b DEF IInv, Protocol, Emptied, EmptiedBy
<1>22. LimitOf(w)'
  <2>1. Sum(fresh[w]) + Sum(todo) <= limit[w] /\ limit[w] <= left[w]
    BY <1>a DEF IInv, Protocol, Limits, LimitOf
  <2>2. Sum(fresh[w]) \in Nat /\ limit[w] \in Nat
    BY <1>1, SumBag, WorkerAssumption DEF BagsOK, WorkersOK
  <2>3. Sum(fresh[w]) + Sum(todo') <= limit[w]
    BY <1>7, <1>20, <2>1, <2>2
  <2>. QED BY <1>a, <1>b, <2>1, <2>3 DEF LimitOf
<1>23. OneHolder' /\ Emptied' /\ Limits'
  <2>1. NoWorker # w
    BY WorkerAssumption
  <2>. QED BY <1>a, <1>b, <1>14, <1>21, <1>22, <2>1, ProtocolStep DEF IInv, Protocol
<1>24. Pool'
  <2>1. playouts + Sum(Counted) + Sum(todo) <= MaxPlayouts /\ playouts' = playouts
    BY <1>b DEF IInv, Protocol, Pool
  <2>2. playouts \in Nat /\ MaxPlayouts \in Nat
    BY <1>1, WorkerAssumption DEF TreeOK
  <2>3. playouts' + Sum(Counted') + Sum(todo') <= MaxPlayouts
    BY <1>7, <1>20, <2>1, <2>2
  <2>. QED BY <2>3 DEF Pool
<1>25. Picking'
  <2>1. Due' \subseteq Due \cup {c}
    <3>1. \A m \in Node \ {x, c} : todo'[m] = todo[m]
      BY <1>12
    <3>. QED BY <1>c, <3>1 DEF Due
  <2>2. \A v \in Worker \ {w} : phase'[v] # "pick"
    BY <1>a, <1>b, OnlyPicker DEF IInv, Protocol
  <2>3. ASSUME NEW y \in Node, fresh'[w][y] > 0 PROVE Due' \cap ({y} \cup Above[y]) = {}
    <3>1. Due \cap ({y} \cup Above[y]) = {}
      BY <1>a, <1>b, <2>3 DEF IInv, Picking
    <3>2. x \in Above[c]
      BY <1>4
    <3>3. c # y
      BY <1>c, <3>1, <3>2
    <3>4. c \notin Above[y]
      BY <1>c, <3>1, <3>2, AboveTransitive
    <3>. QED BY <2>1, <3>1, <3>3, <3>4
  <2>4. Due' \subseteq Subtree'
    BY <1>4, <1>18, <2>1 DEF IInv, Picking
  <2>. QED BY <2>2, <2>3, <2>4 DEF Picking
<1>. QED BY <1>11, <1>14, <1>18, <1>19, <1>23, <1>24, <1>25, TypeParts DEF IInv, Protocol

-----------------------------------------------------------------------------
(* One search ends, and another begins.                                    *)

(* Between two searches nothing is picked, held or collected, and what is in  *)
(* flight belongs to the shared collisions.                                   *)
LEMMA AllQuiet ==
  ASSUME IInv, Quiet
  PROVE  /\ todo = Nothing
         /\ \A w \in Worker : fresh[w] = Nothing
         /\ \A x \in Node : Counted[x] = 0 /\ Collisions[x] = shared[x]
         /\ \A x \in Node : Total(CollidedBags)[x] = 0
         /\ \A n \in Subtree : inFlight[n] = Held(shared, n)
<1>1. BagsOK /\ root \in Node /\ shared \in Bags
  BY TypeParts DEF IInv, TreeOK, BagsOK
<1>2. \A w \in Worker : phase[w] = "idle"
  BY DEF Quiet
<1>3. ASSUME NEW w \in Worker
      PROVE  /\ picked[w] = Nothing /\ ready[w] = Nothing /\ batch[w] = Nothing
             /\ fresh[w] = Nothing /\ collided[w] = Nothing
  <2>1. EmptiedBy(w) /\ phase[w] = "idle"
    BY <1>2 DEF IInv, Protocol, Emptied
  <2>. QED BY <2>1 DEF EmptiedBy
<1>4. todo = Nothing
  BY <1>2 DEF IInv, Protocol, Emptied
<1>5. \A x \in Node : Nothing[x] = 0
  BY BagFacts
<1>6. ASSUME NEW x \in Node PROVE Counted[x] = 0 /\ Total(CollidedBags)[x] = 0
  <2>. DEFINE g == [w \in Worker |-> HeldBags[w][x]]
              h == [w \in Worker |-> CollidedBags[w][x]]
  <2>1. \A w \in Worker : g[w] = 0 /\ h[w] = 0
    BY <1>3, <1>5 DEF HeldBags, CollidedBags, HeldBy, CollidesOf
  <2>2. Counted[x] = SumOver(g, Worker) /\ Total(CollidedBags)[x] = SumOver(h, Worker)
    BY CountedIs DEF Total
  <2>3. IsFiniteSet(Worker)
    BY BagFacts
  <2>. HIDE DEF g, h
  <2>4. SumOver(g, Worker) = 0 /\ SumOver(h, Worker) = 0
    BY <2>1, <2>3, SumZero
  <2>. QED BY <2>2, <2>4
<1>7. \A x \in Node : Collisions[x] = shared[x]
  <2>1. \A x \in Node : Collisions[x] = todo[x] + shared[x] + Total(CollidedBags)[x]
    BY <1>1, CountedType
  <2>2. \A x \in Node : shared[x] \in Nat
    BY <1>1, BagFacts
  <2>. QED BY <1>4, <1>5, <1>6, <2>1, <2>2
<1>8. ASSUME NEW n \in Subtree PROVE inFlight[n] = Held(shared, n)
  <2>1. n \in Node /\ Held(shared, n) = SumOver(shared, Below[n]) /\ Held(shared, n) \in Nat
    BY <1>1, HeldIs
  <2>2. inFlight[n] = Load(Counted, Collisions, n) + (IF Leaf(n) THEN 0 ELSE todo[n])
    BY DEF IInv, Flow
  <2>3. IsFiniteSet(Below[n]) /\ Below[n] \in SUBSET Node /\ IsFiniteSet({n} \cup Below[n])
    BY <2>1, BelowType
  <2>. DEFINE S == {n} \cup Below[n]
              B == Below[n]
              f == Counted
              g == Collisions
              h == shared
  <2>4. Load(f, g, n) = SumOver(f, S) + SumOver(g, B)
    BY DEF Load
  <2>5. \A x \in S : f[x] = 0
    BY <1>6, <2>1, <2>3
  <2>6. \A x \in B : h[x] \in Int /\ g[x] = h[x]
    BY <1>1, <1>7, <2>3, BagFacts
  <2>7. IsFiniteSet(S) /\ IsFiniteSet(B)
    BY <2>3
  <2>8. todo[n] = 0
    BY <1>4, <1>5, <2>1
  <2>9. Held(shared, n) = SumOver(h, B)
    BY <2>1
  <2>10. inFlight[n] = Load(f, g, n) + (IF Leaf(n) THEN 0 ELSE todo[n])
    BY <2>2
  <2>. HIDE DEF S, B, f, g, h
  <2>11. SumOver(f, S) = 0 /\ SumOver(g, B) = SumOver(h, B)
    BY <2>5, <2>6, <2>7, SumZero, SumSame
  <2>. QED BY <2>1, <2>4, <2>8, <2>9, <2>10, <2>11
<1>. QED BY <1>3, <1>4, <1>6, <1>7, <1>8

(* The end of a search, and what the workers have then.                       *)
LEMMA SearchEnds ==
  ASSUME IInv, NEW c \in Node, EndSearch(c)
  PROVE  /\ BagsOK' /\ WorkersOK' /\ Protocol' /\ Picking'
         /\ root' = c /\ playouts' = 0 /\ initial' = visits'[c]
         /\ \A x \in Node : Counted'[x] = 0 /\ Collisions'[x] = 0 /\ todo'[x] = 0
<1>1. BagsOK /\ WorkersOK
  BY TypeParts DEF IInv
<1>2. /\ Quiet /\ root' = c /\ playouts' = 0 /\ initial' = visits'[c] /\ shared' = Nothing
      /\ UNCHANGED <<picked, ready, batch, fresh, collided, lock, phase, left, limit, todo,
                     worked>>
  BY DEF EndSearch, visitVars
<1>3. /\ todo = Nothing /\ (\A w \in Worker : fresh[w] = Nothing /\ phase[w] = "idle")
      /\ \A x \in Node : Counted[x] = 0 /\ Total(CollidedBags)[x] = 0
  BY <1>2, AllQuiet DEF Quiet
<1>4. Nothing \in Bags /\ \A x \in Node : Nothing[x] = 0
  BY BagFacts
<1>5. BagsOK' /\ WorkersOK'
  BY <1>1, <1>2, <1>4 DEF BagsOK, WorkersOK
<1>6. \A x \in Node : Counted'[x] = 0 /\ Collisions'[x] = 0 /\ todo'[x] = 0
  <2>1. Counted' = Counted /\ CollidedBags' = CollidedBags
    BY <1>2 DEF Counted, HeldBy, CollidedBags, CollidesOf
  <2>2. \A x \in Node : Collisions'[x] = todo'[x] + shared'[x] + Total(CollidedBags')[x]
    BY <1>5, CountedTypeNext
  <2>. QED BY <1>2, <1>3, <1>4, <2>1, <2>2
<1>7. OneHolder' /\ Emptied'
  <2>1. OneHolder'
    BY <1>2 DEF IInv, Protocol, OneHolder
  <2>2. \A w \in Worker : EmptiedBy(w)'
    BY <1>2 DEF IInv, Protocol, Emptied, EmptiedBy
  <2>. QED BY <1>2, <1>3, <2>1, <2>2 DEF Emptied
<1>8. Limits'
  BY <1>2 DEF IInv, Protocol, Limits, LimitOf
<1>9. Pool'
  <2>1. Counted' = Nothing
    <3>1. Counted' \in Bags
      BY <1>5, CountedTypeNext
    <3>. QED BY <1>6, <3>1, BagFacts
  <2>2. Sum(Counted') = 0 /\ Sum(todo') = 0
    BY <1>2, <1>3, <1>4, <2>1, SumBag
  <2>3. MaxPlayouts \in Nat
    BY WorkerAssumption
  <2>. QED BY <1>2, <2>2, <2>3 DEF Pool
<1>10. Picking'
  <2>1. Due' = {}
    BY <1>6 DEF Due
  <2>. QED BY <1>2, <1>3, <2>1 DEF Picking
<1>. QED BY <1>2, <1>5, <1>6, <1>7, <1>8, <1>9, <1>10 DEF Protocol

(* The new search has nothing in flight.                                      *)
LEMMA NewSearch ==
  ASSUME IInv, NEW c \in Node, EndSearch(c), TreeOK', inFlight' \in Bags,
         \A n \in Sub(c) : inFlight'[n] = 0,
         Untouched', TwoFoldHeld', Shape', Numbers', BoundsAreTrue'
  PROVE  IInv'
<1>1. /\ BagsOK' /\ WorkersOK' /\ Protocol' /\ Picking' /\ root' = c
      /\ \A x \in Node : Counted'[x] = 0 /\ Collisions'[x] = 0 /\ todo'[x] = 0
  BY SearchEnds
<1>2. HeldRight'
  BY <1>1 DEF HeldRight
<1>3. Flow'
  <2>1. ASSUME NEW n \in Sub(c)
        PROVE  inFlight'[n] = Load(Counted', Collisions', n) + (IF Leaf(n)' THEN 0 ELSE todo'[n])
    <3>1. n \in Node /\ IsFiniteSet(Below[n]) /\ Below[n] \in SUBSET Node
          /\ IsFiniteSet({n} \cup Below[n])
      BY TrailIs, BelowType
    <3>. DEFINE S == {n} \cup Below[n]
                B == Below[n]
                f == Counted'
                g == Collisions'
    <3>2. (\A x \in S : f[x] = 0) /\ (\A x \in B : g[x] = 0) /\ IsFiniteSet(S) /\ IsFiniteSet(B)
      BY <1>1, <3>1
    <3>3. Load(f, g, n) = SumOver(f, S) + SumOver(g, B)
      BY DEF Load
    <3>4. todo'[n] = 0 /\ inFlight'[n] = 0
      BY <1>1, <2>1, <3>1
    <3>. HIDE DEF S, B, f, g
    <3>5. SumOver(f, S) = 0 /\ SumOver(g, B) = 0
      BY <3>2, SumZero
    <3>6. inFlight'[n] = Load(f, g, n) + (IF Leaf(n)' THEN 0 ELSE todo'[n])
      BY <3>3, <3>4, <3>5
    <3>. QED BY <3>6 DEF f, g
  <2>2. Subtree' = Sub(c)
    BY <1>1 DEF Subtree, Sub
  <2>. QED BY <2>1, <2>2 DEF Flow, Load
<1>. QED BY <1>1, <1>2, <1>3, TypeParts DEF IInv, Tree

(* What is kept of the tree, and what is played on, on the way to c.          *)
MovedOn(c, n) == n \in ({c} \cup Above[c]) \ {Top} /\ status[n].term # "no"

(* What Keep makes of visits and statuses.                                    *)
LEMMA KeepIs ==
  ASSUME TreeOK, NEW kept, NEW c \in Node, Keep(kept, c)
  PROVE  /\ visits' \in Bags /\ status' \in [Node -> Statuses]
         /\ \A n \in Node \ kept : visits'[n] = 0 /\ status'[n] = Unknown
         /\ \A n \in Node : n \in kept /\ MovedOn(c, n) =>
              /\ visits'[n] = PlayedOn(n)
              /\ status'[n].term = "no" /\ status'[n].lo = status[n].lo
              /\ status'[n].up = status[n].up
         /\ \A n \in Node : n \in kept /\ ~MovedOn(c, n) =>
              visits'[n] = visits[n] /\ status'[n] = status[n]
<1>1. /\ visits' = [n \in Node |-> IF n \notin kept THEN 0
                                   ELSE IF MovedOn(c, n) THEN PlayedOn(n) ELSE visits[n]]
      /\ status' = [n \in Node |-> IF n \notin kept THEN Unknown
                                   ELSE IF MovedOn(c, n) THEN [status[n] EXCEPT !.term = "no"]
                                   ELSE status[n]]
  BY DEF Keep, MovedOn
<1>2. /\ visits \in Bags /\ edges \in [Node -> SUBSET Node] /\ status \in [Node -> Statuses]
      /\ \A n \in Node : visits[n] \in Nat
  BY BagFacts DEF TreeOK, Statuses
<1>3. ASSUME NEW n \in Node PROVE PlayedOn(n) \in Nat
  <2>. DEFINE E == edges[n]
  <2>1. IsFiniteSet(E) /\ \A y \in E : visits[y] \in Int /\ visits[y] >= 0
    <3>1. E \in SUBSET Node /\ IsFiniteSet(Node)
      BY <1>2, BagFacts
    <3>. QED BY <1>2, <3>1, FS_Subset
  <2>2. SumOver(visits, E) \in Int /\ SumOver(visits, E) >= 0
    <3>. HIDE DEF E
    <3>. QED BY <2>1, SumType
  <2>3. PlayedOn(n) = IF E = {} THEN 0 ELSE 1 + SumOver(visits, E)
    BY DEF PlayedOn
  <2>. HIDE DEF E
  <2>. QED BY <2>2, <2>3
<1>4. visits' \in Bags
  BY <1>1, <1>2, <1>3 DEF Bags
<1>5. ASSUME NEW n \in Node
      PROVE  LET s == [status[n] EXCEPT !.term = "no"]
             IN s \in Statuses /\ s.term = "no" /\ s.lo = status[n].lo /\ s.up = status[n].up
  <2>1. status[n] \in Statuses
    BY <1>2
  <2>. QED BY <2>1 DEF Statuses
<1>6. Unknown \in Statuses
  BY DEF Unknown, Statuses, Outcome, BlackWon, WhiteWon
<1>7. status' \in [Node -> Statuses]
  BY <1>1, <1>2, <1>5, <1>6
<1>. QED BY <1>1, <1>4, <1>5, <1>7

(* A head that starts afresh: neither it nor what is below it is kept.        *)
LEMMA Afresh ==
  ASSUME IInv, NEW c \in Node, Keep(Above[c], c), EndSearch(c), inFlight' \in Bags,
         \A n \in Sub(c) : inFlight'[n] = 0,
         edges' = [n \in Node |-> IF n \in Above[c] THEN edges[n] ELSE {}],
         \A a \in ({c} \cup Above[c]) \ {Top} : a \in edges[Parent[a]]
  PROVE  IInv'
<1>1. TreeOK /\ edges \in [Node -> SUBSET Node]
  BY TypeParts DEF IInv, TreeOK
<1>2. /\ root' = c /\ playouts' = 0 /\ initial' = visits'[c] /\ Subtree' = Sub(c)
      /\ \A x \in Node : Counted'[x] = 0
  BY SearchEnds DEF Subtree, Sub
<1>3. ASSUME NEW n \in Sub(c)
      PROVE  n \in Node /\ n \notin Above[c] /\ Below[n] \subseteq Sub(c)
  <2>1. n \in Node /\ Below[n] \subseteq Sub(c) /\ (n = c \/ n \in Below[c])
    BY TrailIs DEF Sub
  <2>2. n = c \/ c < n
    BY <2>1, BelowType
  <2>3. n \in Above[c] => n < c
    BY AboveType
  <2>. QED BY <2>1, <2>2, <2>3, Numbered
<1>4. /\ visits' \in Bags /\ status' \in [Node -> Statuses]
      /\ \A n \in Sub(c) : visits'[n] = 0 /\ status'[n] = Unknown /\ edges'[n] = {}
  <2>1. \A n \in Node \ Above[c] : visits'[n] = 0 /\ status'[n] = Unknown
    BY <1>1, KeepIs
  <2>. QED BY <1>1, <1>3, <2>1, KeepIs
<1>5. TreeOK'
  <2>1. edges' \in [Node -> SUBSET Node] /\ MaxPlayouts \in Nat
    BY <1>1, WorkerAssumption
  <2>2. visits'[c] \in Nat
    BY <1>4, BagFacts
  <2>. QED BY <1>2, <1>4, <2>1, <2>2 DEF TreeOK, Statuses
<1>6. \A n \in Sub(c) : ~TwoFold(n)' /\ Stale(n)' = 0
  BY <1>4 DEF TwoFold, Stale, Unknown
<1>7. Untouched' /\ TwoFoldHeld'
  <2>1. \A n \in Sub(c) : \A x \in Below[n] : visits'[x] = 0 /\ inFlight'[x] = 0
    BY <1>3, <1>4
  <2>. QED BY <1>2, <1>6, <2>1 DEF Untouched, TwoFoldHeld
<1>8. Shape'
  <2>1. ASSUME NEW a \in ({c} \cup Above[c]) \ {Top} PROVE a \in edges'[Parent[a]]
    <3>1. a \in Node \ {Top}
      BY AboveType
    <3>2. Parent[a] \in Node /\ Parent[a] \in Above[a]
      BY <2>1, <3>1, Numbered, AboveUnfolds
    <3>3. Above[a] \subseteq Above[c]
      BY <2>1, <3>1, AboveTransitive
    <3>. QED BY <2>1, <3>2, <3>3
  <2>2. \A n \in Sub(c) : ~(visits'[n] > 0 \/ inFlight'[n] > 0)
    BY <1>4
  <2>3. c \in Sub(c)
    BY DEF Sub
  <2>. QED BY <1>2, <1>4, <1>6, <2>1, <2>2, <2>3 DEF Shape
<1>9. Numbers'
  <2>1. VisitsAccounted'
    <3>1. visits'[c] = initial' + playouts'
      <4>1. visits'[c] \in Nat
        BY <1>4, BagFacts
      <4>. QED BY <1>2, <4>1
    <3>. QED BY <1>2, <1>4, <3>1 DEF VisitsAccounted
  <2>2. DrawsCounted'
    BY <1>2, <1>4 DEF DrawsCounted
  <2>3. StaleCounted'
    <3>. DEFINE g == StaleVisits'
                S == Sub(c)
    <3>1. (\A n \in S : g[n] = 0) /\ IsFiniteSet(S)
      <4>1. IsFiniteSet(S)
        BY BelowType DEF Sub
      <4>. QED BY <1>3, <1>6, <4>1 DEF StaleVisits
    <3>2. initial' = 0
      BY <1>2, <1>4 DEF Sub
    <3>. HIDE DEF g, S
    <3>3. SumOver(g, S) = 0
      BY <3>1, SumZero
    <3>. QED BY <1>2, <3>2, <3>3 DEF StaleCounted, g, S
  <2>. QED BY <2>1, <2>2, <2>3 DEF Numbers
<1>10. BoundsAreTrue'
  <2>1. \A n \in Node : BlackWon <= Truth[n] /\ Truth[n] <= WhiteWon
    BY TruthType DEF Outcome, BlackWon, WhiteWon
  <2>. QED BY <1>2, <1>3, <1>4, <2>1 DEF BoundsAreTrue, Unknown
<1>. QED BY <1>5, <1>7, <1>8, <1>9, <1>10, NewSearch

(* Moves are taken back: the new head starts afresh.                          *)
LEMMA TakeBackKeeps ==
  ASSUME IInv, NEW c \in Node, TakeBack(c)
  PROVE  IInv'
<1>1. /\ c \in Above[root] /\ Keep(Above[c], c) /\ inFlight' = Nothing /\ EndSearch(c)
      /\ edges' = [n \in Node |-> IF n \in Above[c] THEN edges[n] ELSE {}]
  BY DEF TakeBack
<1>2. root \in Node
  BY TypeParts DEF IInv, TreeOK
<1>3. inFlight' \in Bags /\ \A n \in Sub(c) : inFlight'[n] = 0
  BY <1>1, BagFacts, TrailIs
<1>4. \A a \in ({c} \cup Above[c]) \ {Top} : a \in edges[Parent[a]]
  <2>1. Above[c] \subseteq Above[root]
    BY <1>1, <1>2, AboveTransitive
  <2>. QED BY <1>1, <2>1 DEF IInv, Tree, Shape
<1>. QED BY <1>1, <1>3, <1>4, Afresh

(* A tree without shared collisions is cleared.                               *)
LEMMA ClearKeeps ==
  ASSUME IInv, NEW c \in Node, Clear(c), shared = Nothing
  PROVE  IInv'
<1>. DEFINE cleared == [n \in Node |-> IF n \in Above[c] THEN inFlight[n] ELSE 0]
<1>1. /\ c \in Kids(root) \cap edges[root] /\ Keep(Above[c], c) /\ EndSearch(c)
      /\ edges' = [n \in Node |-> IF n \in Above[c] THEN edges[n] ELSE {}]
      /\ inFlight' = [n \in Node |-> IF n \in {c} \cup Above[c]
                                     THEN LeftBehind(cleared, shared)[n] ELSE 0]
  BY DEF Clear
<1>2. root \in Node /\ inFlight \in Bags
  BY TypeParts DEF IInv, TreeOK
<1>3. Above[c] = {root} \cup Above[root] /\ Parent[c] = root
  BY <1>1, <1>2, KidsType
<1>4. \A n \in Node : cleared[n] \in Nat /\ LeftBehind(cleared, shared)[n] = cleared[n]
  <2>1. \A n \in Node : inFlight[n] \in Nat
    BY <1>2, BagFacts
  <2>2. \A n \in Node : cleared[n] \in Nat
    BY <2>1
  <2>3. \A n : Held(shared, n) = 0
    BY DEF Held
  <2>. HIDE DEF cleared
  <2>. QED BY <2>2, <2>3 DEF LeftBehind, Release
<1>5. inFlight' \in Bags
  BY <1>1, <1>4 DEF Bags
<1>6. ASSUME NEW n \in Sub(c) PROVE inFlight'[n] = 0
  <2>1. n \in Node /\ n \notin Above[c]
    BY <1>1, <1>2, SubOfKid, TrailIs
  <2>2. cleared[n] = 0
    BY <2>1
  <2>. HIDE DEF cleared
  <2>. QED BY <1>1, <1>4, <2>1, <2>2
<1>7. \A a \in ({c} \cup Above[c]) \ {Top} : a \in edges[Parent[a]]
  BY <1>1, <1>3 DEF IInv, Tree, Shape
<1>. QED BY <1>1, <1>5, <1>6, <1>7, Afresh

(* The visits of the edges of a node cover those of all draws below it.       *)
LEMMA KidsCoverDraws ==
  ASSUME TreeOK, Untouched, DrawsCounted, NEW c \in Subtree
  PROVE  /\ SumOver(DrawVisits, Below[c]) <= SumOver(visits, Kids(c))
         /\ SumOver(DrawVisits, Below[c]) \in Nat /\ SumOver(visits, Kids(c)) \in Nat
<1>1. root \in Node /\ visits \in Bags /\ c \in Node /\ Kids(c) \subseteq Subtree
      /\ Subtree \in SUBSET Node
  BY PathFacts DEF TreeOK
<1>2. \A n \in Node : visits[n] \in Nat /\ DrawVisits[n] \in Nat
  BY <1>1, BagFacts DEF DrawVisits
<1>. DEFINE f == DrawVisits
            K == Kids(c)
            part == [d \in K |-> SumOver(f, {d} \cup Below[d])]
<1>3. IsFiniteSet(K) /\ K \in SUBSET Node
  BY <1>1, KidsType
<1>4. SumOver(f, Below[c]) = SumOver(part, K)
  <2>1. \A n \in Node : f[n] \in Int
    BY <1>2
  <2>2. SumOver(f, Below[c]) = SumOver([d \in Kids(c) |-> SumOver(f, {d} \cup Below[d])], Kids(c))
    <3>. HIDE DEF f
    <3>. QED BY <1>1, <2>1, SumBelow
  <2>. QED BY <2>2
<1>5. ASSUME NEW d \in K PROVE part[d] \in Nat /\ part[d] <= visits[d]
  <2>. DEFINE B == Below[d]
  <2>1. d \in Subtree /\ d \in Node
    BY <1>1, <1>3
  <2>2. IsFiniteSet(B) /\ B \in SUBSET Node /\ d \notin B
    BY <2>1, BelowType
  <2>3. \A y \in B \cup {d} : f[y] \in Nat
    BY <1>2, <2>1, <2>2
  <2>4. part[d] = SumOver(f, B \cup {d})
    <3>1. B \cup {d} = {d} \cup Below[d]
      OBVIOUS
    <3>. QED BY <3>1
  <2>5. SumOver(f, B \cup {d}) = f[d] + SumOver(f, B) /\ SumOver(f, B) \in Nat /\ f[d] \in Nat
    <3>. HIDE DEF B, f
    <3>1. \A y \in B \cup {d} : f[y] \in Int /\ f[y] >= 0
      BY <2>3
    <3>2. SumOver(f, B \cup {d}) = f[d] + SumOver(f, B)
      BY <2>2, <3>1, SumPut
    <3>3. SumOver(f, B) \in Int /\ SumOver(f, B) >= 0
      BY <2>2, <3>1, SumType
    <3>. QED BY <2>3, <3>2, <3>3
  <2>6. visits[d] = 0 \/ TwoFold(d) => SumOver(f, B) = 0
    <3>1. SUFFICES ASSUME visits[d] = 0 \/ TwoFold(d) PROVE SumOver(f, B) = 0
      OBVIOUS
    <3>2. \A y \in B : f[y] = 0
      BY <2>1, <2>2, <3>1 DEF Untouched, DrawVisits
    <3>. HIDE DEF B, f
    <3>. QED BY <2>2, <3>2, SumZero
  <2>7. f[d] = IF TwoFold(d) THEN visits[d] ELSE 0
    BY <2>1 DEF DrawVisits
  <2>8. visits[d] > 0 /\ ~TwoFold(d) => visits[d] >= 1 + SumOver(f, B)
    BY <2>1 DEF DrawsCounted
  <2>9. visits[d] \in Nat
    BY <1>2, <2>1
  <2>. HIDE DEF B, f, part
  <2>10. CASE visits[d] = 0
    BY <2>4, <2>5, <2>6, <2>7, <2>9, <2>10
  <2>11. CASE TwoFold(d)
    BY <2>4, <2>5, <2>6, <2>7, <2>9, <2>11
  <2>12. CASE visits[d] > 0 /\ ~TwoFold(d)
    BY <2>4, <2>5, <2>7, <2>8, <2>9, <2>12
  <2>. QED BY <2>9, <2>10, <2>11, <2>12
<1>6. \A d \in K : visits[d] \in Nat
  BY <1>2, <1>3
<1>. HIDE DEF f, K, part
<1>7. \A d \in K : part[d] \in Int /\ visits[d] \in Int /\ part[d] <= visits[d] /\ part[d] >= 0
                   /\ visits[d] >= 0
  BY <1>5, <1>6
<1>8. SumOver(part, K) <= SumOver(visits, K)
  BY <1>3, <1>7, SumLess
<1>9. /\ SumOver(part, K) \in Int /\ SumOver(part, K) >= 0
      /\ SumOver(visits, K) \in Int /\ SumOver(visits, K) >= 0
  BY <1>3, <1>7, SumType
<1>10. SumOver(f, Below[c]) <= SumOver(visits, K) /\ SumOver(f, Below[c]) \in Nat
       /\ SumOver(visits, K) \in Nat
  BY <1>4, <1>8, <1>9
<1>. QED BY <1>10 DEF f, K

(* The game goes on: the new head keeps its tree, but not its terminal status. *)
LEMMA AdvanceKeeps ==
  ASSUME IInv, NEW c \in Node, Advance(c)
  PROVE  IInv'
<1>. DEFINE kept == {c} \cup Below[c] \cup Above[c]
<1>1. /\ c \in Kids(root) /\ (edges[root] = {} \/ c \in edges[root])
      /\ Keep(kept, c) /\ inFlight' = Release(inFlight, shared) /\ EndSearch(c)
      /\ edges' = [n \in Node |-> IF n = root /\ edges[n] = {} THEN {c}
                                  ELSE IF n \in kept THEN edges[n] ELSE {}]
  BY DEF Advance, LeftBehind
<1>2. /\ TreeOK /\ root \in Node /\ inFlight \in Bags /\ visits \in Bags /\ shared \in Bags
      /\ edges \in [Node -> SUBSET Node] /\ status \in [Node -> Statuses]
  BY TypeParts DEF IInv, TreeOK, BagsOK, Statuses
<1>3. /\ root' = c /\ playouts' = 0 /\ initial' = visits'[c] /\ Subtree' = Sub(c)
      /\ \A x \in Node : Counted'[x] = 0
  BY <1>1, SearchEnds DEF Subtree, Sub
<1>4. /\ c # root /\ c # Top /\ Parent[c] = root /\ Above[c] = {root} \cup Above[root]
      /\ c \in Subtree /\ c \in Sub(c) /\ Sub(c) \subseteq Subtree \ {root}
      /\ root \notin Sub(c)
  BY <1>1, <1>2, KidsType, SubOfKid DEF Subtree, Sub
<1>5. ASSUME NEW n \in Sub(c)
      PROVE  /\ n \in Node /\ n \in kept /\ n \notin Above[c] /\ n # root
             /\ {n} \cup Below[n] \subseteq Sub(c) /\ n \in Subtree
             /\ edges'[n] = edges[n]
             /\ edges[n] \in {{}, Kids(n)} /\ Kids(n) \subseteq Below[n]
  <2>1. n \in Node /\ n \notin Above[c] /\ {n} \cup Below[n] \subseteq Sub(c)
    BY <1>1, <1>2, SubOfKid, TrailIs
  <2>2. n \in kept /\ n # root /\ n \in Subtree
    BY <1>4 DEF Sub
  <2>3. edges'[n] = edges[n]
    BY <1>1, <2>1, <2>2
  <2>4. edges[n] \in {{}, Kids(n)} /\ Kids(n) \subseteq Below[n]
    BY <2>1, <2>2, KidsType DEF IInv, Tree, Shape
  <2>. QED BY <2>1, <2>2, <2>3, <2>4
<1>6. /\ visits' \in Bags /\ status' \in [Node -> Statuses]
      /\ \A n \in Sub(c) : n # c => visits'[n] = visits[n] /\ status'[n] = status[n]
      /\ status[c].term = "no" => visits'[c] = visits[c] /\ status'[c] = status[c]
      /\ status[c].term # "no" =>
           /\ visits'[c] = PlayedOn(c) /\ status'[c].term = "no"
           /\ status'[c].lo = status[c].lo /\ status'[c].up = status[c].up
  <2>. HIDE DEF kept
  <2>1. /\ visits' \in Bags /\ status' \in [Node -> Statuses]
        /\ \A n \in Node : n \in kept /\ MovedOn(c, n) =>
              /\ visits'[n] = PlayedOn(n)
              /\ status'[n].term = "no" /\ status'[n].lo = status[n].lo
              /\ status'[n].up = status[n].up
        /\ \A n \in Node : n \in kept /\ ~MovedOn(c, n) =>
              visits'[n] = visits[n] /\ status'[n] = status[n]
    BY <1>1, <1>2, KeepIs
  <2>2. \A n \in Sub(c) : n # c => ~MovedOn(c, n)
    BY <1>5 DEF MovedOn
  <2>3. MovedOn(c, c) <=> status[c].term # "no"
    BY <1>4 DEF MovedOn
  <2>. QED BY <1>4, <1>5, <2>1, <2>2, <2>3
<1>. HIDE DEF kept
<1>7. inFlight' \in Bags /\ \A n \in Sub(c) : inFlight'[n] = 0
  <2>1. \A n \in Subtree : inFlight[n] = Held(shared, n)
    BY <1>1, AllQuiet DEF EndSearch
  <2>2. \A n \in Node : inFlight[n] \in Nat
    BY <1>2, BagFacts
  <2>3. \A n \in Node \ Subtree : Held(shared, n) = 0
    BY DEF Held
  <2>4. inFlight' = [n \in Node |-> inFlight[n] - Held(shared, n)]
    BY <1>1 DEF Release
  <2>5. \A n \in Node : n \in Subtree => inFlight[n] - Held(shared, n) = 0
    BY <2>1, <2>2
  <2>6. \A n \in Node : n \notin Subtree => inFlight[n] - Held(shared, n) = inFlight[n]
    BY <2>2, <2>3
  <2>7. \A n \in Node : inFlight[n] - Held(shared, n) \in Nat
    BY <2>2, <2>5, <2>6
  <2>. QED BY <1>5, <2>4, <2>5, <2>7 DEF Bags
<1>8. TreeOK'
  <2>1. edges' \in [Node -> SUBSET Node] /\ MaxPlayouts \in Nat
    BY <1>1, <1>2, WorkerAssumption
  <2>2. visits'[c] \in Nat
    BY <1>6, BagFacts
  <2>. QED BY <1>3, <1>6, <2>1, <2>2 DEF TreeOK, Statuses
<1>9. \A n \in Node : visits[n] \in Nat /\ visits'[n] \in Nat
  BY <1>2, <1>6, BagFacts
<1>10. ~TwoFold(c)' /\ \A n \in Sub(c) : n # c => (TwoFold(n)' <=> TwoFold(n))
  BY <1>6 DEF TwoFold
<1>11. ASSUME NEW n \in Sub(c), NEW x \in Below[n]
       PROVE  x \in Sub(c) /\ x \in Node /\ x # c /\ visits'[x] = visits[x]
  <2>1. x \in Sub(c) /\ x \in Node /\ n < x
    BY <1>5, BelowType
  <2>2. n = c \/ c < n
    BY BelowType DEF Sub
  <2>3. x # c
    BY <1>5, <2>1, <2>2, Numbered
  <2>. QED BY <1>6, <2>1, <2>3
<1>12. (visits'[c] = 0 => \A x \in Below[c] : visits[x] = 0)
       /\ (edges[c] # Kids(c) => \A d \in Kids(c) : visits[d] = 0)
  <2>1. edges[c] # Kids(c) => \A d \in Kids(c) : visits[d] = 0
    <3>1. SUFFICES ASSUME edges[c] # Kids(c), NEW d \in Kids(c) PROVE visits[d] = 0
      OBVIOUS
    <3>2. edges[c] = {}
      BY <1>4, <1>5, <3>1
    <3>3. d \in Subtree \ {root} /\ Parent[d] = c /\ d \in Node
      <4>1. d \in Sub(c)
        BY <1>4, <1>5
      <4>. QED BY <1>5, <4>1, KidsType
    <3>4. visits[d] > 0 => d \in edges[c]
      BY <3>3 DEF IInv, Tree, Shape
    <3>. QED BY <1>9, <3>2, <3>3, <3>4
  <2>2. ASSUME visits'[c] = 0, NEW x \in Below[c] PROVE visits[x] = 0
    <3>1. CASE status[c].term = "no"
      BY <1>4, <1>6, <2>2, <3>1 DEF IInv, Tree, Untouched
    <3>2. CASE status[c].term # "no"
      <4>1. PlayedOn(c) = 0
        BY <1>6, <2>2, <3>2
      <4>2. edges[c] = {}
        <5>1. SUFFICES ASSUME edges[c] # {} PROVE FALSE
          OBVIOUS
        <5>2. edges[c] = Kids(c) /\ PlayedOn(c) = 1 + SumOver(visits, edges[c])
          BY <1>4, <1>5, <5>1 DEF PlayedOn
        <5>3. SumOver(visits, Kids(c)) \in Nat
          BY <1>2, <1>4, KidsCoverDraws DEF IInv, Tree, Numbers
        <5>. QED BY <4>1, <5>2, <5>3
      <4>3. \A d \in Kids(c) : visits[d] = 0
        <5>1. CASE Kids(c) = {}
          BY <5>1
        <5>2. CASE Kids(c) # {}
          BY <2>1, <4>2, <5>2
        <5>. QED BY <5>1, <5>2
      <4>4. PICK d \in Kids(c) : x \in {d} \cup Below[d]
        BY <2>2, BelowKids
      <4>5. d \in Subtree
        BY <1>4, <1>5
      <4>. QED BY <4>3, <4>4, <4>5 DEF IInv, Tree, Untouched
    <3>. QED BY <3>1, <3>2
  <2>. QED BY <2>1, <2>2
<1>13. Untouched'
  <2>1. ASSUME NEW n \in Sub(c), visits'[n] = 0 \/ TwoFold(n)', NEW x \in Below[n]
        PROVE  visits'[x] = 0 /\ inFlight'[x] = 0
    <3>1. visits'[x] = visits[x] /\ inFlight'[x] = 0
      BY <1>7, <1>11
    <3>2. CASE n = c
      BY <1>10, <1>12, <2>1, <3>1, <3>2
    <3>3. CASE n # c
      <4>1. visits[n] = 0 \/ TwoFold(n)
        BY <1>6, <1>10, <2>1, <3>3
      <4>. QED BY <1>5, <3>1, <4>1 DEF IInv, Tree, Untouched
    <3>. QED BY <3>2, <3>3
  <2>. QED BY <1>3, <2>1 DEF Untouched
<1>14. TwoFoldHeld'
  <2>1. ASSUME NEW n \in Sub(c), TwoFold(n)', visits'[n] = 0 PROVE FALSE
    <3>1. n # c /\ TwoFold(n) /\ visits[n] = 0 /\ n \in Subtree /\ n \in Node
      BY <1>5, <1>6, <1>10, <2>1
    <3>2. Counted[n] > 0
      BY <3>1 DEF IInv, Tree, TwoFoldHeld
    <3>3. Counted[n] = 0
      BY <1>1, <3>1, AllQuiet DEF EndSearch
    <3>. QED BY <3>2, <3>3
  <2>. QED BY <1>3, <2>1 DEF TwoFoldHeld
<1>15. Shape'
  <2>1. \A n \in Sub(c) : edges'[n] \in {{}, Kids(n)}
    BY <1>5
  <2>2. ASSUME NEW n \in Sub(c) \ {c}
        PROVE  /\ visits'[n] > 0 \/ inFlight'[n] > 0 => n \in edges'[Parent[n]]
               /\ Ending[n] = "rule" => edges'[n] = {}
    <3>1. n \in Subtree \ {root} /\ visits'[n] = visits[n] /\ inFlight'[n] = 0
          /\ edges'[n] = edges[n]
      BY <1>5, <1>6, <1>7
    <3>2. Parent[n] \in Sub(c)
      BY TrailGoesUp
    <3>3. edges'[Parent[n]] = edges[Parent[n]]
      BY <1>5, <3>2
    <3>. QED BY <3>1, <3>3 DEF IInv, Tree, Shape
  <2>3. ASSUME NEW a \in ({c} \cup Above[c]) \ {Top} PROVE a \in edges'[Parent[a]]
    <3>1. CASE a = c
      <4>1. root \in kept
        BY <1>4 DEF kept
      <4>. QED BY <1>1, <1>2, <1>4, <3>1, <4>1
    <3>2. CASE a # c
      <4>1. a \in ({root} \cup Above[root]) \ {Top} /\ a \in Node \ {Top}
        BY <1>2, <1>4, <2>3, <3>2, AboveType
      <4>2. a \in edges[Parent[a]]
        BY <4>1 DEF IInv, Tree, Shape
      <4>3. Parent[a] \in Node /\ Parent[a] \in Above[a]
        BY <4>1, Numbered, AboveUnfolds
      <4>4. Parent[a] \in kept
        BY <1>2, <1>4, <4>1, <4>3, AboveTransitive DEF kept
      <4>. QED BY <1>1, <4>2, <4>3, <4>4
    <3>. QED BY <3>1, <3>2
  <2>. QED BY <1>3, <1>10, <2>1, <2>2, <2>3 DEF Shape
<1>16. VisitsAccounted'
  <2>1. visits'[c] = initial' + playouts'
    BY <1>3, <1>9
  <2>2. ASSUME NEW n \in Sub(c), visits'[n] > 0, status'[n].term = "no"
        PROVE  visits'[n] = 1 + SumOver(visits', edges'[n])
    <3>. DEFINE E == edges[n]
                f == visits
                g == visits'
    <3>1. edges'[n] = E /\ E \in SUBSET Below[n] /\ IsFiniteSet(E)
      <4>1. edges'[n] = E /\ E \in SUBSET Below[n]
        BY <1>5
      <4>2. IsFiniteSet(Below[n])
        BY <1>5, BelowType
      <4>. QED BY <4>1, <4>2, FS_Subset
    <3>2. \A y \in E : f[y] \in Int /\ g[y] = f[y]
      BY <1>9, <1>11, <3>1
    <3>3. SumOver(g, E) = SumOver(f, E)
      <4>. HIDE DEF E, f, g
      <4>. QED BY <3>1, <3>2, SumSame
    <3>4. visits'[n] = 1 + SumOver(f, E)
      <4>1. CASE n = c /\ status[c].term # "no"
        BY <1>6, <2>2, <4>1 DEF PlayedOn
      <4>2. CASE ~(n = c /\ status[c].term # "no")
        <5>1. visits'[n] = visits[n] /\ status'[n] = status[n] /\ n \in Subtree
          BY <1>5, <1>6, <4>2
        <5>. QED BY <2>2, <5>1 DEF IInv, Numbers, VisitsAccounted
      <4>. QED BY <4>1, <4>2
    <3>. QED BY <3>1, <3>3, <3>4
  <2>. QED BY <1>3, <2>1, <2>2 DEF VisitsAccounted
<1>17. ASSUME NEW n \in Sub(c)
       PROVE  /\ SumOver(DrawVisits', Below[n]) = SumOver(DrawVisits, Below[n])
              /\ SumOver(DrawVisits, Below[n]) \in Nat
  <2>. DEFINE B == Below[n]
              f == DrawVisits
              g == DrawVisits'
  <2>1. IsFiniteSet(B) /\ B \in SUBSET Node
    BY <1>5, BelowType
  <2>2. \A x \in B : f[x] \in Nat /\ g[x] = f[x]
    BY <1>9, <1>10, <1>11 DEF DrawVisits
  <2>. HIDE DEF B, f, g
  <2>3. SumOver(g, B) = SumOver(f, B)
    BY <2>1, <2>2, SumSame
  <2>4. SumOver(f, B) \in Int /\ SumOver(f, B) >= 0
    BY <2>1, <2>2, SumType
  <2>. QED BY <2>3, <2>4 DEF B, f, g
<1>18. DrawsCounted'
  <2>1. ASSUME NEW n \in Sub(c), visits'[n] > 0, ~TwoFold(n)'
        PROVE  visits'[n] >= 1 + SumOver(DrawVisits', Below[n])
    <3>1. CASE n = c /\ status[c].term # "no"
      <4>1. edges[c] # {} /\ visits'[c] = 1 + SumOver(visits, edges[c])
        BY <1>6, <2>1, <3>1 DEF PlayedOn
      <4>2. edges[c] = Kids(c)
        BY <1>4, <1>5, <4>1
      <4>3. /\ SumOver(DrawVisits, Below[c]) <= SumOver(visits, Kids(c))
            /\ SumOver(DrawVisits, Below[c]) \in Nat /\ SumOver(visits, Kids(c)) \in Nat
        BY <1>2, <1>4, KidsCoverDraws DEF IInv, Tree, Numbers
      <4>. QED BY <1>17, <3>1, <4>1, <4>2, <4>3
    <3>2. CASE ~(n = c /\ status[c].term # "no")
      <4>1. visits'[n] = visits[n] /\ status'[n] = status[n] /\ n \in Subtree
        BY <1>5, <1>6, <3>2
      <4>2. visits[n] >= 1 + SumOver(DrawVisits, Below[n])
        BY <2>1, <4>1 DEF IInv, Numbers, DrawsCounted, TwoFold
      <4>. QED BY <1>17, <4>1, <4>2
    <3>. QED BY <3>1, <3>2
  <2>. QED BY <1>3, <2>1 DEF DrawsCounted
<1>19. StaleCounted'
  <2>. DEFINE B == Below[c]
              S == {c} \cup B
              f == StaleVisits'
              g == DrawVisits'
  <2>1. c \in Sub(c) /\ c \in Node /\ IsFiniteSet(B) /\ B \in SUBSET Node /\ c \notin B /\ S = Sub(c)
    BY <1>4, BelowType DEF Sub
  <2>2. f[c] = 0 /\ \A x \in B : f[x] \in Nat /\ g[x] \in Nat /\ f[x] <= g[x]
    <3>1. \A x \in Node : f[x] = (IF TwoFold(x)' /\ Depth(x)' < Cycle[x] THEN visits'[x] ELSE 0)
      BY DEF StaleVisits, Stale, TwoFold
    <3>2. \A x \in Node : g[x] = (IF TwoFold(x)' THEN visits'[x] ELSE 0)
      BY DEF DrawVisits
    <3>3. f[c] = 0
      BY <1>10, <2>1, <3>1
    <3>4. ASSUME NEW x \in B PROVE f[x] \in Nat /\ g[x] \in Nat /\ f[x] <= g[x]
      <4>1. x \in Node /\ visits'[x] \in Nat
        BY <1>9, <2>1
      <4>. HIDE DEF f, g
      <4>. QED BY <3>1, <3>2, <4>1
    <3>. QED BY <3>3, <3>4
  <2>3. visits'[c] \in Nat /\ initial' = visits'[c]
    BY <1>3, <1>9
  <2>4. visits'[c] > 0 => visits'[c] >= 1 + SumOver(g, B)
    BY <1>3, <1>10, <1>18, <2>1 DEF DrawsCounted
  <2>5. visits'[c] = 0 => \A x \in B : g[x] = 0
    <3>1. SUFFICES ASSUME visits'[c] = 0, NEW x \in B PROVE g[x] = 0
      OBVIOUS
    <3>2. visits'[x] = 0 /\ x \in Node
      BY <1>11, <1>12, <2>1, <3>1
    <3>. QED BY <3>2 DEF DrawVisits
  <2>6. SumOver(f, S) <= initial'
    <3>. HIDE DEF B, f, g
    <3>1. SumOver(f, B) <= SumOver(g, B)
      BY <2>1, <2>2, SumLess
    <3>2. SumOver(f, B) \in Int /\ SumOver(g, B) \in Int
      BY <2>1, <2>2, SumType
    <3>3. SumOver(f, B \cup {c}) = f[c] + SumOver(f, B)
      BY <2>1, <2>2, SumPut
    <3>4. S = B \cup {c}
      OBVIOUS
    <3>5. visits'[c] = 0 => SumOver(g, B) = 0
      BY <2>1, <2>5, SumZero
    <3>. HIDE DEF S
    <3>6. SumOver(f, S) = SumOver(f, B)
      BY <2>2, <3>2, <3>3, <3>4
    <3>7. SumOver(g, B) <= visits'[c]
      BY <2>3, <2>4, <3>2, <3>5
    <3>. QED BY <2>3, <3>1, <3>2, <3>6, <3>7
  <2>. QED BY <1>3, <2>1, <2>6 DEF StaleCounted
<1>20. BoundsAreTrue'
  <2>1. ASSUME NEW n \in Sub(c)
        PROVE  /\ status'[n].lo <= Truth[n] /\ Truth[n] <= status'[n].up
               /\ status'[n].term = "end" => status'[n].lo = status'[n].up
    <3>1. CASE n = c /\ status[c].term # "no"
      BY <1>4, <1>6, <3>1 DEF IInv, BoundsAreTrue
    <3>2. CASE ~(n = c /\ status[c].term # "no")
      <4>1. status'[n] = status[n] /\ n \in Subtree
        BY <1>5, <1>6, <3>2
      <4>. QED BY <4>1 DEF IInv, BoundsAreTrue
    <3>. QED BY <3>1, <3>2
  <2>. QED BY <1>3, <2>1 DEF BoundsAreTrue
<1>21. Numbers'
  BY <1>16, <1>18, <1>19 DEF Numbers
<1>. QED BY <1>1, <1>7, <1>8, <1>13, <1>14, <1>15, <1>20, <1>21, NewSearch

-----------------------------------------------------------------------------
(* The theorems.                                                           *)

(* Everything starts empty.                                                   *)
LEMMA InitHolds == Init => IInv
<1>. SUFFICES ASSUME Init PROVE IInv
  OBVIOUS
<1>1. /\ root = Top /\ initial = 0 /\ playouts = 0 /\ visits = Nothing /\ inFlight = Nothing
      /\ edges = [n \in Node |-> {}] /\ status = [n \in Node |-> Unknown]
      /\ shared = Nothing /\ todo = Nothing /\ lock = NoWorker
      /\ phase = [w \in Worker |-> "idle"] /\ left = [w \in Worker |-> 0] /\ limit = left
      /\ picked = [w \in Worker |-> Nothing] /\ ready = picked /\ batch = picked
      /\ fresh = picked /\ collided = picked /\ worked = [w \in Worker |-> FALSE]
  BY DEF Init
<1>2. Nothing \in Bags /\ \A n \in Node : Nothing[n] = 0
  BY BagFacts
<1>3. Unknown \in Statuses /\ Top \in Node /\ MaxPlayouts \in Nat /\ MaxLimit \in Nat
  BY Numbered, WorkerAssumption DEF Unknown, Statuses, Outcome, BlackWon, WhiteWon
<1>4. TreeOK /\ BagsOK /\ WorkersOK /\ inFlight \in Bags
  <2>1. TreeOK
    BY <1>1, <1>2, <1>3 DEF TreeOK, Statuses
  <2>2. BagsOK
    BY <1>1, <1>2 DEF BagsOK
  <2>3. WorkersOK
    BY <1>1, <1>3 DEF WorkersOK
  <2>. QED BY <1>1, <1>2, <2>1, <2>2, <2>3
<1>5. \A n \in Node : visits[n] = 0 /\ inFlight[n] = 0 /\ todo[n] = 0 /\ edges[n] = {}
                      /\ status[n] = Unknown /\ Leaf(n) /\ ~TwoFold(n)
  BY <1>1, <1>2 DEF Leaf, TwoFold, Unknown
<1>6. \A x \in Node : Counted[x] = 0 /\ Collisions[x] = 0
  <2>1. ASSUME NEW x \in Node PROVE Counted[x] = 0 /\ Total(CollidedBags)[x] = 0
    <3>. DEFINE g == [w \in Worker |-> HeldBags[w][x]]
                h == [w \in Worker |-> CollidedBags[w][x]]
    <3>1. \A w \in Worker : g[w] = 0 /\ h[w] = 0
      BY <1>1, <1>2 DEF HeldBags, CollidedBags, HeldBy, CollidesOf
    <3>2. Counted[x] = SumOver(g, Worker) /\ Total(CollidedBags)[x] = SumOver(h, Worker)
      BY CountedIs DEF Total
    <3>3. IsFiniteSet(Worker)
      BY BagFacts
    <3>. HIDE DEF g, h
    <3>4. SumOver(g, Worker) = 0 /\ SumOver(h, Worker) = 0
      BY <3>1, <3>3, SumZero
    <3>. QED BY <3>2, <3>4
  <2>2. \A x \in Node : Collisions[x] = todo[x] + shared[x] + Total(CollidedBags)[x]
    BY <1>4, CountedType
  <2>. QED BY <1>1, <1>2, <2>1, <2>2
<1>7. /\ Subtree \in SUBSET Node /\ root \in Subtree /\ IsFiniteSet(Subtree)
      /\ \A n \in Subtree : Below[n] \in SUBSET Node
  <2>0. root \in Node /\ root \in Subtree
    BY <1>1, <1>3 DEF Subtree
  <2>1. Subtree \in SUBSET Node
    BY <2>0, PathFacts
  <2>2. \A n \in Subtree : Below[n] \in SUBSET Node
    BY <2>1, BelowType
  <2>3. IsFiniteSet(Subtree)
    BY <2>1, BagFacts, FS_Subset
  <2>. QED BY <2>0, <2>1, <2>2, <2>3
<1>8. Protocol
  <2>1. NoWorker \notin Worker
    BY WorkerAssumption
  <2>2. OneHolder /\ Emptied
    BY <1>1, <2>1 DEF OneHolder, Emptied, EmptiedBy
  <2>3. Counted = Nothing
    BY <1>4, <1>6, CountedType, BagFacts
  <2>4. Sum(Nothing) = 0
    BY <1>2, SumBag
  <2>5. Limits
    BY <1>1, <2>4 DEF Limits, LimitOf
  <2>6. Pool
    BY <1>1, <1>3, <2>3, <2>4 DEF Pool
  <2>. QED BY <2>2, <2>5, <2>6 DEF Protocol
<1>9. Flow
  <2>1. ASSUME NEW n \in Subtree
        PROVE  inFlight[n] = Load(Counted, Collisions, n) + (IF Leaf(n) THEN 0 ELSE todo[n])
    <3>1. n \in Node /\ IsFiniteSet(Below[n]) /\ Below[n] \in SUBSET Node
          /\ IsFiniteSet({n} \cup Below[n])
      BY <1>7, BelowType
    <3>. DEFINE S == {n} \cup Below[n]
                B == Below[n]
                f == Counted
                g == Collisions
    <3>2. (\A x \in S : f[x] = 0) /\ (\A x \in B : g[x] = 0) /\ IsFiniteSet(S) /\ IsFiniteSet(B)
      BY <1>6, <3>1
    <3>3. Load(f, g, n) = SumOver(f, S) + SumOver(g, B)
      BY DEF Load
    <3>4. inFlight[n] = 0 /\ Leaf(n)
      BY <1>5, <3>1
    <3>. HIDE DEF S, B, f, g
    <3>5. SumOver(f, S) = 0 /\ SumOver(g, B) = 0
      BY <3>2, SumZero
    <3>6. inFlight[n] = Load(f, g, n) + (IF Leaf(n) THEN 0 ELSE todo[n])
      BY <3>3, <3>4, <3>5
    <3>. QED BY <3>6 DEF f, g
  <2>. QED BY <2>1 DEF Flow
<1>10. Tree
  <2>1. HeldRight /\ Untouched /\ TwoFoldHeld
    BY <1>5, <1>6, <1>7 DEF HeldRight, Untouched, TwoFoldHeld
  <2>2. \A a \in ({root} \cup Above[root]) \ {Top} : FALSE
    BY <1>1, AboveUnfolds
  <2>3. Shape
    BY <1>5, <1>7, <2>2 DEF Shape
  <2>. QED BY <2>1, <2>3 DEF Tree
<1>11. Numbers
  <2>1. VisitsAccounted
    <3>1. visits[root] = initial + playouts
      BY <1>1, <1>2, <1>3
    <3>. QED BY <1>5, <1>7, <3>1 DEF VisitsAccounted
  <2>2. DrawsCounted
    BY <1>5, <1>7 DEF DrawsCounted
  <2>3. StaleCounted
    <3>. DEFINE g == StaleVisits
                S == Subtree
    <3>1. (\A n \in S : g[n] = 0) /\ IsFiniteSet(S)
      BY <1>5, <1>7 DEF StaleVisits, Stale, TwoFold
    <3>. HIDE DEF g, S
    <3>2. SumOver(g, S) = 0
      BY <3>1, SumZero
    <3>. QED BY <1>1, <3>2 DEF StaleCounted, g, S
  <2>. QED BY <2>1, <2>2, <2>3 DEF Numbers
<1>12. BoundsAreTrue
  <2>1. \A n \in Node : BlackWon <= Truth[n] /\ Truth[n] <= WhiteWon
    BY TruthType DEF Outcome, BlackWon, WhiteWon
  <2>. QED BY <1>5, <1>7, <2>1 DEF BoundsAreTrue, Unknown
<1>13. Picking
  <2>1. Due = {}
    BY <1>5 DEF Due
  <2>. QED BY <1>1, <2>1 DEF Picking
<1>. QED BY <1>4, <1>8, <1>9, <1>10, <1>11, <1>12, <1>13, TypeParts DEF IInv

(* One lemma per action stands behind this one.  A tree is cleared only when  *)
(* no collision is shared.                                                    *)
LEMMA StepHolds ==
  ASSUME ~MayClear
  PROVE  IInv /\ [Next]_vars => IInv'
<1>. SUFFICES ASSUME IInv, [Next]_vars PROVE IInv'
  OBVIOUS
<1>1. CASE UNCHANGED vars
  <2>1. UNCHANGED <<root, initial, playouts, visits, edges, status, inFlight>>
    BY <1>1 DEF vars, treeVars
  <2>2. UNCHANGED <<picked, ready, batch, fresh, collided, shared, lock, phase, left, limit,
                    todo, worked>>
    BY <1>1 DEF vars, visitVars, collVars
  <2>3. Counted' = Counted /\ Collisions' = Collisions
    BY <2>2 DEF Counted, HeldBy, Collisions, CollidesOf
  <2>4. Subtree' = Subtree /\ \A n : Depth(n)' = Depth(n) /\ (Leaf(n)' <=> Leaf(n))
                                 /\ (TwoFold(n)' <=> TwoFold(n)) /\ Stale(n)' = Stale(n)
    BY <2>1 DEF Subtree, Depth, Ancestors, Leaf, TwoFold, Stale
  <2>5. TypeOK'
    BY <2>1, <2>2 DEF IInv, TypeOK
  <2>6. Protocol' /\ Picking'
    <3>1. OneHolder' /\ Pool'
      BY <2>1, <2>2, <2>3 DEF IInv, Protocol, OneHolder, Pool
    <3>2. Emptied'
      BY <2>2 DEF IInv, Protocol, Emptied, EmptiedBy
    <3>3. Limits'
      BY <2>2 DEF IInv, Protocol, Limits, LimitOf
    <3>4. Picking'
      BY <2>2, <2>4 DEF IInv, Picking, Due
    <3>. QED BY <3>1, <3>2, <3>3, <3>4 DEF Protocol
  <2>7. Flow'
    BY <2>1, <2>2, <2>3, <2>4 DEF IInv, Flow, Load
  <2>8. Tree'
    BY <2>1, <2>3, <2>4 DEF IInv, Tree, HeldRight, Untouched, TwoFoldHeld, Shape
  <2>9. Numbers'
    <3>1. DrawVisits' = DrawVisits /\ StaleVisits' = StaleVisits
      BY <2>1, <2>4 DEF DrawVisits, StaleVisits
    <3>. QED BY <2>1, <2>4, <3>1 DEF IInv, Numbers, VisitsAccounted, DrawsCounted, StaleCounted
  <2>10. BoundsAreTrue'
    BY <2>1, <2>4 DEF IInv, BoundsAreTrue
  <2>. QED BY <2>5, <2>6, <2>7, <2>8, <2>9, <2>10 DEF IInv
<1>2. CASE NextSearch
  <2>1. PICK c \in Node : Advance(c) \/ TakeBack(c) \/ Clear(c)
    BY <1>2 DEF NextSearch
  <2>2. Clear(c) => shared = Nothing
    BY DEF Clear
  <2>. QED BY <2>1, <2>2, AdvanceKeeps, TakeBackKeeps, ClearKeeps
<1>3. ASSUME NEW w \in Worker, Iterate(w) \/ Step(w) \/ Acquire(w)
      PROVE  IInv'
  <2>1. CASE Iterate(w)
    BY <2>1, BeginIterationKeeps, PickAgainKeeps DEF Iterate
  <2>2. CASE Step(w)
    BY <2>2, PickChildKeeps, CollideKeeps, EndPickKeeps, ProcessPickedKeeps,
       BackupOutOfOrderKeeps, TallyKeeps, BackupKeeps, EndBackupKeeps DEF Step
  <2>3. CASE Acquire(w)
    BY <2>3, BeginOutOfOrderKeeps, CollectCollisionsKeeps, BeginBackupKeeps DEF Acquire
  <2>. QED BY <1>3, <2>1, <2>2, <2>3
<1>. QED BY <1>1, <1>2, <1>3 DEF Next

(* What the invariant says of a node that was never backed up.                *)
LEMMA ExtendsOnce == IInv => ExtendedByOne
<1>. SUFFICES ASSUME IInv, NEW n \in Subtree, visits[n] = 0
              PROVE  Holding(n) <= 1 /\ \A c \in Kids(n) : visits[c] = 0 /\ inFlight[c] = 0
  BY DEF ExtendedByOne
<1>1. BagsOK /\ root \in Node
  BY TypeParts DEF IInv, TreeOK
<1>2. n \in Node /\ Kids(n) \subseteq Below[n]
  BY <1>1, PathFacts, KidsType
<1>3. Holding(n) = Counted[n] /\ Counted[n] \in Nat
  BY <1>1, <1>2, CountedIs, CountedType, BagFacts
<1>4. Counted[n] > 0 => Counted[n] = 1
  BY <1>2 DEF IInv, Tree, HeldRight
<1>. QED BY <1>2, <1>3, <1>4 DEF IInv, Tree, Untouched

(* The invariant holds in every state.                                        *)
LEMMA InvariantHolds ==
  ASSUME ~MayClear
  PROVE  Spec => []IInv
<1>1. Init => IInv
  BY InitHolds
<1>2. IInv /\ [Next]_vars => IInv'
  BY StepHolds
<1>. QED BY <1>1, <1>2, PTL DEF Spec

(* The tree's books balance: every visit in flight is held by a leaf or a     *)
(* collision, visits add up from the children to their parents, and a node is *)
(* extended once, before anybody is below it, through everything the workers  *)
(* and the game do, unless a tree with shared collisions is cleared           *)
(* (DoBackupUpdateSingleNode, CancelCollisions, ResetToPosition).             *)
THEOREM TreeBooksBalance ==
  ASSUME ~MayClear
  PROVE  Spec => []TreeInv
<1>1. IInv => TreeInv
  <2>1. IInv => TypeOK /\ VisitsAccounted
    BY DEF IInv, Numbers
  <2>2. IInv => InFlightAccounted
    BY TypeParts, FlowAccounts DEF IInv, TreeOK
  <2>. QED BY <2>1, <2>2, ExtendsOnce DEF TreeInv
<1>. QED BY <1>1, InvariantHolds, PTL

(* The bounds that proven results leave on a node (MaybeSetBounds) are true   *)
(* of the game, whatever two-fold draws the search met below it.              *)
THEOREM BoundsHold ==
  ASSUME ~MayClear
  PROVE  Spec => []BoundsAreTrue
<1>1. IInv => BoundsAreTrue
  BY DEF IInv
<1>. QED BY <1>1, InvariantHolds, PTL

(* A visit that is held at a two-fold draw has both occurrences inside the    *)
(* search: those of an earlier search are taken back before a visit gets there*)
(* (EnsureNodeTwoFoldCorrectForDepth).                                        *)
THEOREM TwoFoldsLieInside ==
  ASSUME ~MayClear
  PROVE  Spec => []TwoFoldInsideSearch
<1>1. IInv => TwoFoldInsideSearch
  <2>. SUFFICES ASSUME IInv, NEW n \in Subtree, TwoFold(n), Holding(n) > 0
                PROVE  Depth(n) >= Cycle[n]
    BY DEF TwoFoldInsideSearch, TwoFold
  <2>1. n \in Node
    BY TypeParts, PathFacts DEF IInv, TreeOK
  <2>2. Counted[n] > 0
    BY <2>1, CountedIs
  <2>. QED BY <2>1, <2>2 DEF IInv, Tree, HeldRight
<1>. QED BY <1>1, InvariantHolds, PTL
===============================================================================
