------------------------------ MODULE DemuxProofs ------------------------------
(***************************************************************************)
(* Proofs about Demux: for any devices, threads and callers with batches   *)
(* of any size, every input is in one part, every part is counted down     *)
(* once, nobody points at a computation that is gone, and Demux implements *)
(* BatchService.                                                           *)
(***************************************************************************)
EXTENDS Demux, SequenceTheorems, FiniteSetTheorems, TLAPS

-----------------------------------------------------------------------------
(* How a batch is split.                                                   *)

\* Where part j ends, if the batch does not end before it.
Base(n, j) == PerDevice(n) * j + Least(j, Extra(n))
Edge(n, j) == Least(Base(n, j) * Step, n)

LEMMA DivMod ==
  ASSUME NEW a \in Nat, NEW d \in Nat \ {0}
  PROVE  /\ a \div d \in Nat /\ (a \div d) * d <= a /\ a < (a \div d) * d + d
         /\ a % d \in 0..(d - 1)
  OBVIOUS

\* Less than d places after each other, two numbers differ modulo d.
LEMMA ApartModulo ==
  ASSUME NEW a \in Nat, NEW b \in Nat, NEW d \in Nat \ {0}, a < b, b < a + d
  PROVE  a % d # b % d
<1>. DEFINE p == a \div d
            q == b \div d
<1>1. \A x \in Nat : /\ x = (x \div d) * d + (x % d)
                     /\ x \div d \in Nat /\ x % d \in Nat
  OBVIOUS
<1>2. a = p * d + (a % d) /\ b = q * d + (b % d) /\ p \in Nat /\ q \in Nat
      /\ a % d \in Nat /\ b % d \in Nat
  BY <1>1
<1>. HIDE DEF p, q
<1>3. ASSUME a % d = b % d PROVE FALSE
  <2>1. b - a = q * d - p * d /\ q * d \in Nat /\ p * d \in Nat
    BY <1>2, <1>3
  <2>2. CASE q <= p
    <3>1. q * d <= p * d
      BY <1>2, <2>2
    <3>. QED BY <2>1, <3>1
  <2>3. CASE q > p
    <3>1. p + 1 <= q /\ p + 1 \in Nat
      BY <1>2, <2>3
    <3>2. (p + 1) * d <= q * d
      BY <1>2, <3>1
    <3>3. (p + 1) * d = p * d + d
      BY <1>2
    <3>. QED BY <2>1, <3>2, <3>3
  <2>. QED BY <1>2, <2>2, <2>3
<1>. QED BY <1>3

LEMMA TimesGrows ==
  ASSUME NEW a \in Nat, NEW b \in Nat, NEW m \in Nat, a <= b
  PROVE  a * m <= b * m /\ m * a <= m * b /\ a * m \in Nat
  OBVIOUS

(* There is a part for each device, or for each step; together they make   *)
(* as many steps as the batch needs.                                       *)
LEMMA Splitting ==
  ASSUME NEW n \in Nat \ {0}
  PROVE  /\ Splits(n) \in Nat \ {0} /\ PerDevice(n) \in Nat /\ Extra(n) \in 0..(Devices - 1)
         /\ (Splits(n) - 1) * Step < n /\ n <= Splits(n) * Step
         /\ WorkItems(n) \in 1..Devices
         /\ Base(n, WorkItems(n)) = Splits(n)
<1>. DEFINE q == (n - 1) \div Step
            k == Splits(n) \div Devices
<1>1. Step \in Nat \ {0} /\ Devices \in Nat \ {0} /\ n - 1 \in Nat
  BY DemuxAssumption
<1>2. q \in Nat /\ q * Step <= n - 1 /\ n - 1 < q * Step + Step /\ Splits(n) = 1 + q
  <2>. QED BY <1>1, DivMod DEF Splits
<1>. HIDE DEF q
<1>3. Splits(n) \in Nat \ {0} /\ Splits(n) - 1 = q
  BY <1>2
<1>4. (q + 1) * Step = q * Step + Step /\ q * Step \in Nat
  BY <1>1, <1>2
<1>5. (Splits(n) - 1) * Step < n /\ n <= Splits(n) * Step
  BY <1>1, <1>2, <1>3, <1>4
<1>6. k \in Nat /\ k * Devices <= Splits(n) /\ Splits(n) < k * Devices + Devices
  BY <1>1, <1>3, DivMod
<1>7. PerDevice(n) = k /\ Extra(n) = Splits(n) - k * Devices
  BY DEF PerDevice, Extra
<1>. HIDE DEF k
<1>8. k * Devices \in Nat
  BY <1>1, <1>6
<1>9. Extra(n) \in 0..(Devices - 1)
  BY <1>1, <1>3, <1>6, <1>7, <1>8
<1>10. CASE k = 0
  <2>1. WorkItems(n) = Extra(n) /\ Extra(n) = Splits(n)
    BY <1>1, <1>3, <1>7, <1>10 DEF WorkItems
  <2>2. Base(n, WorkItems(n)) = 0 * Extra(n) + Least(Extra(n), Extra(n))
    BY <1>7, <1>10, <2>1 DEF Base
  <2>. DEFINE x == Extra(n)
  <2>3. x \in Nat /\ x <= Devices - 1
    BY <1>1, <1>9
  <2>. HIDE DEF x
  <2>4. 0 * x + Least(x, x) = x
    BY <2>3 DEF Least
  <2>5. Base(n, WorkItems(n)) = Splits(n)
    BY <2>1, <2>2, <2>4 DEF x
  <2>6. WorkItems(n) \in 1..Devices
    BY <1>1, <1>3, <1>9, <2>1
  <2>. QED BY <1>3, <1>5, <1>6, <1>7, <1>9, <2>5, <2>6
<1>11. CASE k # 0
  <2>1. WorkItems(n) = Devices
    BY <1>6, <1>7, <1>11 DEF WorkItems
  <2>2. Base(n, WorkItems(n)) = k * Devices + Extra(n)
    BY <1>1, <1>7, <1>9, <2>1 DEF Base, Least
  <2>. QED BY <1>1, <1>3, <1>5, <1>6, <1>7, <1>8, <1>9, <2>1, <2>2
<1>. QED BY <1>10, <1>11

(* Each part has a step or more, and the parts follow each other.          *)
LEMMA BaseGrows ==
  ASSUME NEW n \in Nat \ {0}
  PROVE  /\ Base(n, 0) = 0
         /\ \A j \in Nat : Base(n, j) \in Nat
         /\ \A i, j \in Nat : i <= j => Base(n, i) <= Base(n, j)
         /\ \A j \in 1..WorkItems(n) :
              /\ SplitSize(n, j) \in Nat
              /\ Base(n, j) = Base(n, j - 1) + SplitSize(n, j)
              /\ Base(n, j - 1) <= Splits(n) - 1
<1>. DEFINE k == PerDevice(n)
            x == Extra(n)
<1>1. k \in Nat /\ x \in Nat /\ Devices \in Nat \ {0} /\ Splits(n) \in Nat
      /\ WorkItems(n) \in 1..Devices /\ Base(n, WorkItems(n)) = Splits(n)
  BY DemuxAssumption, Splitting
<1>2. \A j \in Nat : Base(n, j) = k * j + Least(j, x)
  BY DEF Base
<1>3. \A j \in Nat : SplitSize(n, j) = k + IF j <= x THEN 1 ELSE 0
  BY DEF SplitSize
<1>4. WorkItems(n) = IF k > 0 THEN Devices ELSE x
  BY DEF WorkItems
<1>. HIDE DEF k, x
<1>5. \A j \in Nat : k * j \in Nat /\ Least(j, x) \in Nat
  BY <1>1 DEF Least
<1>6. k * 0 = 0
  BY <1>1
<1>7. \A j \in Nat : Base(n, j) \in Nat
  BY <1>2, <1>5
<1>8. \A i, j \in Nat : i <= j => k * i <= k * j /\ Least(i, x) <= Least(j, x)
  BY <1>1, TimesGrows DEF Least
<1>9. \A i, j \in Nat : i <= j => Base(n, i) <= Base(n, j)
  BY <1>2, <1>5, <1>8
<1>10. ASSUME NEW j \in 1..WorkItems(n)
       PROVE  /\ SplitSize(n, j) \in Nat \ {0}
              /\ Base(n, j) = Base(n, j - 1) + SplitSize(n, j)
  <2>1. j \in Nat /\ j - 1 \in Nat
    BY <1>1
  <2>2. k * j = k * (j - 1) + k
    BY <1>1, <2>1
  <2>3. Least(j, x) = Least(j - 1, x) + IF j <= x THEN 1 ELSE 0
    BY <1>1, <2>1 DEF Least
  <2>4. k > 0 \/ j <= x
    BY <1>1, <1>4
  <2>. DEFINE a == k * (j - 1)
              b == Least(j - 1, x)
  <2>5. a \in Nat /\ b \in Nat
    BY <1>5, <2>1
  <2>6. /\ Base(n, j) = a + k + (b + IF j <= x THEN 1 ELSE 0) /\ Base(n, j - 1) = a + b
        /\ SplitSize(n, j) = k + IF j <= x THEN 1 ELSE 0
    BY <1>2, <1>3, <2>1, <2>2, <2>3
  <2>. HIDE DEF a, b
  <2>. QED BY <1>1, <2>1, <2>4, <2>5, <2>6
<1>11. ASSUME NEW j \in 1..WorkItems(n) PROVE Base(n, j - 1) <= Splits(n) - 1
  <2>1. j \in Nat /\ j - 1 \in Nat /\ WorkItems(n) \in Nat /\ j <= WorkItems(n)
    BY <1>1
  <2>2. Base(n, j) <= Splits(n)
    BY <1>1, <1>9, <2>1
  <2>. QED BY <1>1, <1>7, <1>10, <2>1, <2>2
<1>12. Base(n, 0) = 0
  BY <1>1, <1>2, <1>6 DEF Least
<1>. QED BY <1>7, <1>9, <1>10, <1>11, <1>12

LEMMA Edges ==
  ASSUME NEW n \in Nat \ {0}
  PROVE  /\ Edge(n, 0) = 0 /\ Edge(n, WorkItems(n)) = n
         /\ \A j \in Nat : Edge(n, j) \in Nat
         /\ \A i, j \in Nat : i <= j => Edge(n, i) <= Edge(n, j)
         /\ \A j \in 1..WorkItems(n) :
              /\ Edge(n, j) = Least(Edge(n, j - 1) + SplitSize(n, j) * Step, n)
              /\ Edge(n, j - 1) < Edge(n, j)
<1>1. /\ Step \in Nat \ {0} /\ Splits(n) \in Nat \ {0}
      /\ (Splits(n) - 1) * Step < n /\ n <= Splits(n) * Step
      /\ WorkItems(n) \in Nat /\ Base(n, WorkItems(n)) = Splits(n)
  BY DemuxAssumption, Splitting
<1>2. /\ Base(n, 0) = 0 /\ \A j \in Nat : Base(n, j) \in Nat /\ Base(n, j) * Step \in Nat
      /\ 0 * Step = 0
  <2>1. Base(n, 0) = 0 /\ \A j \in Nat : Base(n, j) \in Nat
    BY BaseGrows
  <2>2. \A a \in Nat : a * Step \in Nat
    BY <1>1
  <2>. QED BY <1>1, <2>1, <2>2
<1>3. \A i, j \in Nat : i <= j => Base(n, i) * Step <= Base(n, j) * Step
  BY <1>1, <1>2, BaseGrows, TimesGrows
<1>4. Edge(n, 0) = 0 /\ \A j \in Nat : Edge(n, j) \in Nat
  BY <1>2 DEF Edge, Least
<1>5. Edge(n, WorkItems(n)) = n
  <2>. DEFINE p == Splits(n) * Step
  <2>1. p \in Nat /\ n <= p /\ Edge(n, WorkItems(n)) = Least(p, n)
    BY <1>1 DEF Edge
  <2>. HIDE DEF p
  <2>. QED BY <2>1 DEF Least
<1>6. ASSUME NEW i \in Nat, NEW j \in Nat, i <= j PROVE Edge(n, i) <= Edge(n, j)
  <2>. DEFINE a == Base(n, i) * Step
              b == Base(n, j) * Step
  <2>1. a \in Nat /\ b \in Nat /\ a <= b /\ Edge(n, i) = Least(a, n) /\ Edge(n, j) = Least(b, n)
    BY <1>2, <1>3, <1>6 DEF Edge
  <2>. HIDE DEF a, b
  <2>. QED BY <2>1 DEF Least
<1>7. ASSUME NEW j \in 1..WorkItems(n)
      PROVE  /\ Edge(n, j) = Least(Edge(n, j - 1) + SplitSize(n, j) * Step, n)
             /\ Edge(n, j - 1) < Edge(n, j)
  <2>. DEFINE b == Base(n, j - 1)
              s == SplitSize(n, j)
              a == b * Step
              c == s * Step
              z == Splits(n) - 1
  <2>1. j \in Nat /\ j - 1 \in Nat
    BY <1>1
  <2>2. b \in Nat /\ s \in Nat /\ Base(n, j) = b + s /\ b <= z /\ z \in Nat
    <3>1. b \in Nat
      BY <1>2, <2>1
    <3>2. s \in Nat /\ Base(n, j) = b + s /\ b <= z
      BY BaseGrows
    <3>3. z \in Nat
      BY <1>1
    <3>. QED BY <3>1, <3>2, <3>3
  <2>3. s > 0
    <3>1. j <= WorkItems(n) /\ WorkItems(n) = (IF PerDevice(n) > 0 THEN Devices ELSE Extra(n))
          /\ PerDevice(n) \in Nat
      BY <1>1, Splitting DEF WorkItems
    <3>2. PerDevice(n) > 0 \/ j <= Extra(n)
      BY <3>1, Splitting
    <3>. QED BY <3>1, <3>2 DEF SplitSize
  <2>4. (b + s) * Step = a + c /\ a \in Nat /\ c \in Nat /\ c >= Step
    BY <1>1, <2>2, <2>3
  <2>5. a <= z * Step /\ z * Step < n /\ z * Step \in Nat
    BY <1>1, <2>2, TimesGrows
  <2>6. Edge(n, j) = Least(a + c, n) /\ Edge(n, j - 1) = Least(a, n)
    BY <2>2, <2>4 DEF Edge
  <2>. HIDE DEF a, b, c, s, z
  <2>7. a < n
    BY <2>4, <2>5
  <2>8. Edge(n, j - 1) = a
    BY <2>4, <2>6, <2>7 DEF Least
  <2>9. Edge(n, j) = Least(Edge(n, j - 1) + c, n) /\ Edge(n, j - 1) < Edge(n, j)
    BY <1>1, <2>4, <2>6, <2>7, <2>8 DEF Least
  <2>. QED BY <2>9 DEF c, s
<1>. QED BY <1>4, <1>5, <1>6, <1>7

(* Induction on natural numbers, in a form without an operator: a set of   *)
(* counterexamples that is not empty has a least one.                      *)
LEMMA LeastElement ==
  ASSUME NEW X \in SUBSET Nat, X # {}
  PROVE  \E n \in X : \A m \in X : n <= m
<1>. DEFINE R == {ss \in Nat \X Nat : ss[1] < ss[2]}
<1>1. IsWellFoundedOn(R, Nat)
  BY NatLessThanWellFounded DEF OpToRel
<1>2. PICK x \in X : \A y \in X : <<y, x>> \notin R
  <2>. HIDE DEF R
  <2>. QED BY <1>1, WFMin
<1>3. \A y \in X : ~(y < x)
  BY <1>2
<1>. QED BY <1>3

(* Every input lies between the ends of one part.                          *)
LEMMA OnePart ==
  ASSUME NEW n \in Nat \ {0}, NEW s \in 0..(n - 1)
  PROVE  \E j \in 1..WorkItems(n) :
           {i \in 1..WorkItems(n) : Edge(n, i - 1) <= s /\ s < Edge(n, i)} = {j}
<1>. DEFINE w == WorkItems(n)
            X == {i \in Nat : s < Edge(n, i)}
<1>1. w \in Nat /\ s \in Nat /\ s < n /\ Edge(n, 0) = 0 /\ Edge(n, w) = n
  BY Splitting, Edges, DemuxAssumption
<1>2. \A i \in Nat : Edge(n, i) \in Nat
  BY Edges
<1>3. \A i, j \in Nat : i <= j => Edge(n, i) <= Edge(n, j)
  BY Edges
<1>. HIDE DEF w
<1>4. PICK j \in X : \A i \in X : j <= i
  <2>1. w \in X /\ X \in SUBSET Nat
    BY <1>1
  <2>. HIDE DEF X
  <2>. QED BY <2>1, LeastElement
<1>5. j \in 1..w /\ j - 1 \in Nat
  <2>1. j # 0
    BY <1>1, <1>2
  <2>2. j <= w
    BY <1>1, <1>4
  <2>. QED BY <1>1, <2>1, <2>2
<1>6. Edge(n, j - 1) <= s /\ s < Edge(n, j)
  BY <1>1, <1>2, <1>4, <1>5
<1>7. ASSUME NEW i \in 1..w, Edge(n, i - 1) <= s, s < Edge(n, i)
      PROVE  i = j
  <2>1. i \in Nat /\ i - 1 \in Nat /\ j \in Nat
    BY <1>1
  <2>2. j <= i
    BY <1>4, <1>7, <2>1
  <2>3. CASE j <= i - 1
    <3>1. Edge(n, j) <= Edge(n, i - 1)
      BY <1>3, <2>1, <2>3
    <3>. QED BY <1>1, <1>2, <1>6, <1>7, <2>1, <3>1
  <2>. QED BY <2>1, <2>2, <2>3
<1>. QED BY <1>5, <1>6, <1>7 DEF w

-----------------------------------------------------------------------------
(* The inductive invariant.                                                *)
Busy    == {"compute", "finish"}
Telling == {"notify", "mark"}

\* Where a part is that has not been counted down.
InQueue(c, j) == \E d \in Device : \E i \in 1..Len(queue[d]) : queue[d][i] = <<c, j>>
InHands(c, j) == \E n \in Notifier : at[n] \in Busy /\ item[n] = <<c, j>>
ToSend(c, j)  == call[c] = "send" /\ j > Len(parts[c])
Left(c) == {j \in 1..WorkItems(size[c]) : ToSend(c, j) \/ InQueue(c, j) \/ InHands(c, j)}

\* How far a call is, and what there is of its batch.
CallsAgree ==
  \A c \in Caller :
    /\ call[c] = "out" => size[c] = 0 /\ ready[c] = -1 /\ parts[c] = << >>
    /\ call[c] # "out" => size[c] # 0
    /\ call[c] = "send" => Len(parts[c]) < WorkItems(size[c])
    /\ call[c] \notin {"out", "send"} => Len(parts[c]) = WorkItems(size[c])
    /\ call[c] = "done" => ready[c] <= 0

\* A part that is in a queue or in somebody's hands was sent, and is there once.
PlacesAgree ==
  /\ \A c \in Caller, j \in 1..Devices :
       InQueue(c, j) \/ InHands(c, j) => j <= Len(parts[c])
  /\ \A d, e \in Device : \A i \in 1..Len(queue[d]), k \in 1..Len(queue[e]) :
       queue[d][i] = queue[e][k] => d = e /\ i = k
  /\ \A m, n \in Notifier :
       at[m] \in Busy /\ at[n] \in Busy /\ item[m] = item[n] => m = n
  /\ \A n \in Notifier : at[n] \in Busy =>
       \A d \in Device : \A i \in 1..Len(queue[d]) : queue[d][i] # item[n]

\* The count of what is left, and who tells the caller that it is 0.
CountsAgree ==
  /\ \A c \in Caller : /\ ready[c] > 0 => Cardinality(Left(c)) = ready[c]
                       /\ ready[c] <= 0 => Left(c) = {}
  /\ \A n \in Notifier : at[n] \in Telling => ready[Source(n)] = 0
  /\ \A m, n \in Notifier :
       at[m] \in Telling /\ at[n] \in Telling /\ Source(m) = Source(n) => m = n
  /\ \A c \in Caller : ready[c] = 0 =>
       \E n \in Notifier : at[n] \in Telling /\ Source(n) = c

ThreadsAgree ==
  /\ \A t \in Thread : at[t] \in {"look", "drowsy", "asleep", "exit"} \cup Busy \cup Telling
  /\ at[Owner] \in {"open", "wake", "join", "drain", "gone", "finish"} \cup Telling
  /\ at[Owner] = "open" <=> ~abort
  /\ \A n \in Notifier : at[n] \in Busy \cup Telling <=> item[n] # NoItem

\* What is not left was computed, unless the network is being destroyed.
ComputedAgree ==
  /\ \A c \in Caller : \A j \in 1..Len(parts[c]) :
       j \in Left(c) \/ parts[c][j].computed \/ abort
  /\ \A t \in Thread : at[t] = "finish" => parts[Source(t)][item[t][2]].computed

\* The parts follow each other, and so do their devices.
TilesAgree ==
  \A c \in Caller : \A j \in 1..Len(parts[c]) :
    /\ parts[c][j].from = Edge(size[c], j - 1) /\ parts[c][j].to = Edge(size[c], j)
    /\ parts[c][j].device = (first[c] + j - 1) % Devices

IInv == /\ DemuxTypeOK /\ CallsAgree /\ PlacesAgree /\ CountsAgree /\ ThreadsAgree
        /\ ComputedAgree /\ TilesAgree

(* The notifier of a part is no part, and no part is nothing.              *)
LEMMA Items ==
  /\ NoItem \notin Caller \X (1..Devices) /\ Source(Owner) = item[Owner][1]
  /\ Owner \notin Caller /\ Owner \notin Thread
  /\ Devices \in Nat \ {0} /\ 0 \in Device /\ Device = 0..(Devices - 1)
  BY DemuxAssumption DEF NoItem, Source, Device

LEMMA ItemOf ==
  ASSUME IInv, NEW n \in Notifier, at[n] \in Busy \cup Telling
  PROVE  /\ item[n] \in Caller \X (1..Devices) /\ Source(n) \in Caller
         /\ item[n][2] \in 1..Devices /\ item[n] = <<Source(n), item[n][2]>>
<1>1. item[n] \in (Caller \X (1..Devices)) \cup {NoItem} /\ item[n] # NoItem
  BY DEF IInv, DemuxTypeOK, ThreadsAgree
<1>. QED BY <1>1 DEF Source

LEMMA QueueOf ==
  ASSUME DemuxTypeOK, NEW d \in Device, NEW i \in 1..Len(queue[d])
  PROVE  /\ queue[d] \in Seq(Caller \X (1..Devices)) /\ Len(queue[d]) \in Nat
         /\ queue[d][i] \in Caller \X (1..Devices)
<1>1. queue[d] \in Seq(Caller \X (1..Devices))
  BY DEF DemuxTypeOK
<1>. QED BY <1>1, ElementOfSeq, LenProperties

(* A batch that has a size has at most one part for each device.           *)
LEMMA SizeOf ==
  ASSUME IInv, NEW c \in Caller
  PROVE  /\ Len(parts[c]) \in Nat /\ Len(parts[c]) <= Devices
         /\ call[c] # "out" => /\ size[c] \in Nat \ {0} /\ WorkItems(size[c]) \in 1..Devices
                               /\ Len(parts[c]) <= WorkItems(size[c])
<1>1. parts[c] \in Seq([device : Device, from : Nat, to : Nat, computed : BOOLEAN])
      /\ size[c] \in Nat
  BY DEF IInv, DemuxTypeOK
<1>2. Len(parts[c]) \in Nat /\ Len(<< >>) = 0
  BY <1>1, LenProperties
<1>3. CASE call[c] = "out"
  BY <1>2, <1>3, Items DEF IInv, CallsAgree
<1>4. CASE call[c] # "out"
  <2>1. size[c] \in Nat \ {0}
    BY <1>1, <1>4 DEF IInv, CallsAgree
  <2>2. WorkItems(size[c]) \in 1..Devices
    BY <2>1, Splitting
  <2>3. Len(parts[c]) <= WorkItems(size[c])
    BY <1>2, <1>4, <2>2 DEF IInv, CallsAgree
  <2>. QED BY <1>2, <1>4, <2>1, <2>2, <2>3, Items
<1>. QED BY <1>3, <1>4

LEMMA InitIInv == DemuxInit => IInv
<1>. SUFFICES ASSUME DemuxInit PROVE IInv
  OBVIOUS
<1>0. /\ \A t \in Thread : t \in Notifier /\ t # Owner /\ at[t] = "look"
      /\ Owner \in Notifier /\ at[Owner] = "open"
      /\ \A n \in Notifier : at[n] \in {"look", "open"} /\ item[n] = NoItem
      /\ \A d \in Device : queue[d] = << >> /\ Len(queue[d]) = 0
      /\ \A c \in Caller : parts[c] = << >> /\ Len(parts[c]) = 0 /\ ready[c] = -1
                           /\ call[c] = "out" /\ size[c] = 0
  BY Items DEF DemuxInit, Notifier
<1>1. DemuxTypeOK
  <2>1. parts \in [Caller -> Seq([device : Device, from : Nat, to : Nat, computed : BOOLEAN])]
    BY EmptySeq DEF DemuxInit
  <2>2. queue \in [Device -> Seq(Caller \X (1..Devices))]
    BY EmptySeq DEF DemuxInit
  <2>3. -1 \in -1..Devices
    BY Items
  <2>. QED BY <2>1, <2>2, <2>3, Items DEF DemuxInit, DemuxTypeOK
<1>2. CallsAgree
  BY <1>0 DEF CallsAgree
<1>3. \A c \in Caller : \A j : ~InQueue(c, j) /\ ~InHands(c, j) /\ ~ToSend(c, j)
  BY <1>0 DEF InQueue, InHands, ToSend, Busy
<1>4. PlacesAgree
  BY <1>0, <1>3 DEF PlacesAgree, Busy
<1>5. CountsAgree
  BY <1>0, <1>3 DEF CountsAgree, Left, Telling
<1>6. ThreadsAgree
  BY <1>0 DEF ThreadsAgree, DemuxInit, Busy, Telling
<1>7. ComputedAgree
  BY <1>0 DEF ComputedAgree
<1>8. TilesAgree
  BY <1>0 DEF TilesAgree
<1>. QED BY <1>1, <1>2, <1>4, <1>5, <1>6, <1>7, <1>8 DEF IInv

-----------------------------------------------------------------------------
(* Steps of the calls and the threads that neither move nor count a part.  *)
LEMMA QuietKeeps ==
  ASSUME IInv, DemuxTypeOK', ThreadsAgree',
         UNCHANGED <<size, ready, first, parts, queue, item>>,
         abort => abort',
         \A c \in Caller :
           \/ call'[c] = call[c]
           \/ /\ call[c] \notin {"out", "send"} /\ call'[c] \notin {"out", "send"}
              /\ call'[c] = "done" => ready[c] <= 0,
         \A n \in Notifier : /\ at'[n] \in Busy <=> at[n] \in Busy
                             /\ at'[n] \in Telling <=> at[n] \in Telling
                             /\ at'[n] = "finish" => at[n] = "finish"
  PROVE  IInv'
<1>1. \A c \in Caller, j \in Int : /\ InQueue(c, j)' <=> InQueue(c, j)
                                   /\ InHands(c, j)' <=> InHands(c, j)
                                   /\ ToSend(c, j)' <=> ToSend(c, j)
  BY DEF InQueue, InHands, ToSend
<1>2. \A c \in Caller : Left(c)' = Left(c)
  <2>. TAKE c \in Caller
  <2>1. size'[c] = size[c]
    OBVIOUS
  <2>. QED BY <1>1, <2>1 DEF Left
<1>3. CallsAgree'
  BY DEF IInv, CallsAgree
<1>4. PlacesAgree'
  <2>1. \A j \in 1..Devices : j \in Int
    BY Items
  <2>. QED BY <1>1, <2>1, SMTT(30) DEF IInv, PlacesAgree
<1>5. CountsAgree'
  BY <1>2 DEF IInv, CountsAgree, Source
<1>6. ComputedAgree'
  <2>1. Thread \subseteq Notifier
    BY DEF Notifier
  <2>. QED BY <1>2, <2>1 DEF IInv, ComputedAgree, Source
<1>7. TilesAgree'
  BY DEF IInv, TilesAgree
<1>. QED BY <1>3, <1>4, <1>5, <1>6, <1>7 DEF IInv

(* A part is taken from a queue, to be computed by a thread or to be       *)
(* counted down by the owner.                                              *)
LEMMA TakingKeeps ==
  ASSUME IInv, ThreadsAgree', NEW n \in Notifier, NEW d \in Device, NEW place \in Busy,
         at[n] \notin Busy \cup Telling, place = "finish" => n = Owner,
         queue[d] # << >>,
         item' = [item EXCEPT ![n] = Head(queue[d])],
         queue' = [queue EXCEPT ![d] = Tail(@)],
         at' = [at EXCEPT ![n] = place],
         UNCHANGED <<requests, closing, startIndex, abort>>
  PROVE  IInv'
<1>. DEFINE N == Len(queue[d])
<1>0. DemuxTypeOK /\ UNCHANGED <<call, size, ready, first, parts>>
  BY DEF IInv, requests
<1>1. /\ queue[d] \in Seq(Caller \X (1..Devices)) /\ N \in Nat \ {0}
      /\ Head(queue[d]) = queue[d][1] /\ Head(queue[d]) \in Caller \X (1..Devices)
      /\ Tail(queue[d]) \in Seq(Caller \X (1..Devices)) /\ Len(Tail(queue[d])) = N - 1
      /\ \A i \in 1..(N - 1) : Tail(queue[d])[i] = queue[d][i + 1]
  <2>1. queue[d] \in Seq(Caller \X (1..Devices))
    BY <1>0 DEF DemuxTypeOK
  <2>. QED BY <2>1, HeadTailProperties, EmptySeq
<1>2. /\ queue'[d] = Tail(queue[d]) /\ \A e \in Device \ {d} : queue'[e] = queue[e]
      /\ item'[n] = queue[d][1] /\ \A m \in Notifier \ {n} : item'[m] = item[m]
      /\ at'[n] = place /\ \A m \in Notifier \ {n} : at'[m] = at[m]
  BY <1>0, <1>1 DEF DemuxTypeOK
<1>3. /\ Len(queue'[d]) = N - 1
      /\ \A i \in 1..(N - 1) : queue'[d][i] = queue[d][i + 1] /\ i + 1 \in 1..N /\ i + 1 # 1
      /\ 1 \in 1..N
  <2>. HIDE DEF N
  <2>1. Len(queue'[d]) = N - 1
    BY <1>1, <1>2
  <2>2. \A i \in 1..(N - 1) : queue'[d][i] = queue[d][i + 1]
    BY <1>1, <1>2
  <2>3. 1 \in 1..N /\ \A i \in 1..(N - 1) : i + 1 \in 1..N /\ i + 1 # 1
    BY <1>1
  <2>. QED BY <2>1, <2>2, <2>3
<1>4. DemuxTypeOK'
  <2>1. queue' \in [Device -> Seq(Caller \X (1..Devices))]
    BY <1>0, <1>1 DEF DemuxTypeOK
  <2>2. item' \in [Notifier -> (Caller \X (1..Devices)) \cup {NoItem}]
    BY <1>0, <1>1 DEF DemuxTypeOK
  <2>3. at' \in [Notifier -> {"open", "wake", "join", "drain", "gone", "look", "drowsy",
                              "asleep", "compute", "finish", "notify", "mark", "exit"}]
    BY <1>0 DEF DemuxTypeOK, Busy
  <2>. QED BY <1>0, <2>1, <2>2, <2>3 DEF DemuxTypeOK, requests
<1>. HIDE DEF N
\* What was in the queue before, and where.
<1>5. ASSUME NEW e \in Device, NEW i \in 1..Len(queue'[e])
      PROVE  LET k == IF e = d THEN i + 1 ELSE i
             IN k \in 1..Len(queue[e]) /\ queue'[e][i] = queue[e][k] /\ (e = d => k # 1)
  <2>1. CASE e = d
    BY <1>3, <2>1 DEF N
  <2>2. CASE e # d
    BY <1>2, <2>2
  <2>. QED BY <2>1, <2>2
<1>6. ASSUME NEW e \in Device, NEW k \in 1..Len(queue[e]), e = d => k # 1
      PROVE  \E i \in 1..Len(queue'[e]) : queue'[e][i] = queue[e][k]
  <2>1. CASE e = d
    <3>1. k - 1 \in 1..(N - 1) /\ (k - 1) + 1 = k
      BY <1>1, <1>6, <2>1 DEF N
    <3>. QED BY <1>3, <2>1, <3>1
  <2>2. CASE e # d
    BY <1>2, <2>2
  <2>. QED BY <2>1, <2>2
<1>7. \A m \in Notifier : at'[m] \in Busy <=> at[m] \in Busy \/ m = n
  BY <1>2
<1>8. \A c \in Caller, j \in Int :
        InQueue(c, j) \/ InHands(c, j) <=> InQueue(c, j)' \/ InHands(c, j)'
  <2>. TAKE c \in Caller, j \in Int
  <2>1. InQueue(c, j) => InQueue(c, j)' \/ InHands(c, j)'
    <3>1. SUFFICES ASSUME NEW e \in Device, NEW k \in 1..Len(queue[e]), queue[e][k] = <<c, j>>
                   PROVE  InQueue(c, j)' \/ InHands(c, j)'
      BY DEF InQueue
    <3>2. CASE e = d /\ k = 1
      BY <1>2, <3>1, <3>2 DEF InHands
    <3>3. CASE ~(e = d /\ k = 1)
      <4>1. PICK i \in 1..Len(queue'[e]) : queue'[e][i] = queue[e][k]
        BY <1>6, <3>3
      <4>. QED BY <3>1, <4>1 DEF InQueue
    <3>. QED BY <3>2, <3>3
  <2>2. InHands(c, j) => InHands(c, j)'
    BY <1>2 DEF InHands
  <2>3. InQueue(c, j)' => InQueue(c, j)
    <3>1. SUFFICES ASSUME NEW e \in Device, NEW i \in 1..Len(queue'[e]),
                          queue'[e][i] = <<c, j>>
                   PROVE  InQueue(c, j)
      BY DEF InQueue
    <3>. DEFINE k == IF e = d THEN i + 1 ELSE i
    <3>2. k \in 1..Len(queue[e]) /\ queue'[e][i] = queue[e][k]
      BY <1>5
    <3>. HIDE DEF k
    <3>. QED BY <3>1, <3>2 DEF InQueue
  <2>4. InHands(c, j)' => InQueue(c, j) \/ InHands(c, j)
    BY <1>2, <1>3 DEF InHands, InQueue, N
  <2>. QED BY <2>1, <2>2, <2>3, <2>4
<1>9. \A c \in Caller : Left(c)' = Left(c)
  <2>. TAKE c \in Caller
  <2>1. \A j \in Int : ToSend(c, j)' <=> ToSend(c, j)
    BY <1>0 DEF ToSend
  <2>. QED BY <1>0, <1>8, <2>1 DEF Left
<1>10. CallsAgree'
  BY <1>0 DEF IInv, CallsAgree
<1>11. PlacesAgree'
  <2>. USE DEF PlacesAgree
  <2>0. PlacesAgree
    BY DEF IInv
  <2>1. \A c \in Caller, j \in 1..Devices : InQueue(c, j)' \/ InHands(c, j)' => j <= Len(parts'[c])
    BY <1>0, <1>8, <2>0
  <2>2. ASSUME NEW e \in Device, NEW g \in Device,
               NEW i \in 1..Len(queue'[e]), NEW k \in 1..Len(queue'[g]),
               queue'[e][i] = queue'[g][k]
        PROVE  e = g /\ i = k
    <3>. DEFINE a == IF e = d THEN i + 1 ELSE i
                b == IF g = d THEN k + 1 ELSE k
    <3>1. a \in 1..Len(queue[e]) /\ b \in 1..Len(queue[g]) /\ queue[e][a] = queue[g][b]
      BY <1>5, <2>2
    <3>2. e = g /\ a = b
      <4>. HIDE DEF a, b
      <4>. QED BY <2>0, <3>1
    <3>. QED BY <3>2
  <2>3. ASSUME NEW e \in Device, NEW i \in 1..Len(queue'[e])
        PROVE  queue'[e][i] # queue[d][1]
    <3>. DEFINE a == IF e = d THEN i + 1 ELSE i
    <3>1. a \in 1..Len(queue[e]) /\ queue'[e][i] = queue[e][a] /\ (e = d => a # 1)
      BY <1>5
    <3>. HIDE DEF a
    <3>. QED BY <1>3, <2>0, <3>1 DEF N
  <2>4. ASSUME NEW m \in Notifier, at'[m] \in Busy, NEW e \in Device,
               NEW i \in 1..Len(queue'[e])
        PROVE  queue'[e][i] # item'[m]
    <3>1. CASE m = n
      <4>1. item'[m] = queue[d][1]
        BY <1>2, <3>1
      <4>. QED BY <2>3, <4>1
    <3>2. CASE m # n
      <4>. DEFINE a == IF e = d THEN i + 1 ELSE i
      <4>1. a \in 1..Len(queue[e]) /\ queue'[e][i] = queue[e][a]
        BY <1>5
      <4>. HIDE DEF a
      <4>. QED BY <1>2, <2>0, <2>4, <3>2, <4>1
    <3>. QED BY <3>1, <3>2
  <2>5. \A m \in Notifier \ {n} : at[m] \in Busy => item[m] # queue[d][1]
    BY <1>3, <2>0 DEF N
  <2>6. \A l, m \in Notifier :
          at'[l] \in Busy /\ at'[m] \in Busy /\ item'[l] = item'[m] => l = m
    BY <1>2, <2>0, <2>5
  <2>. QED BY <2>1, <2>2, <2>4, <2>6
<1>12. CountsAgree'
  <2>1. \A m \in Notifier : at'[m] \in Telling => m # n /\ at[m] \in Telling
    BY <1>2 DEF Busy, Telling
  <2>2. \A m \in Notifier : at[m] \in Telling => m # n /\ at'[m] \in Telling
    BY <1>2
  <2>3. \A m \in Notifier \ {n} : Source(m)' = Source(m)
    BY <1>2 DEF Source
  <2>. QED BY <1>0, <1>9, <2>1, <2>2, <2>3 DEF IInv, CountsAgree
<1>13. ComputedAgree'
  <2>1. \A t \in Thread : at'[t] = "finish" => t # n /\ at[t] = "finish" /\ t \in Notifier
    BY <1>2, Items DEF Notifier
  <2>2. \A t \in Thread : at'[t] = "finish" => parts[Source(t)][item[t][2]].computed
                                             /\ item'[t] = item[t]
    BY <1>2, <2>1 DEF IInv, ComputedAgree
  <2>. QED BY <1>0, <1>9, <2>2, ZenonT(60) DEF IInv, ComputedAgree, Source
<1>14. TilesAgree'
  BY <1>0 DEF IInv, TilesAgree
<1>. QED BY <1>4, <1>10, <1>11, <1>12, <1>13, <1>14 DEF IInv

LEMMA WaitingKeeps ==
  ASSUME IInv, NEW c \in Caller, TestReady(c) \/ FallAsleep(c)
  PROVE  IInv'
<1>1. /\ DemuxTypeOK /\ ThreadsAgree /\ ready[c] \in Int
      /\ UNCHANGED <<size, ready, first, parts, queue, at, item, closing, startIndex, abort>>
  <2>1. DemuxTypeOK /\ ThreadsAgree
    BY DEF IInv
  <2>2. ready[c] \in -1..Devices
    BY <2>1 DEF DemuxTypeOK
  <2>. QED BY <2>1, <2>2, Items DEF TestReady, FallAsleep
<1>2. PICK place \in {"done", "drowsy", "asleep"} :
        /\ call' = [call EXCEPT ![c] = place] /\ call[c] \in {"test", "drowsy"}
        /\ place = "done" => ready[c] <= 0
  BY DEF TestReady, FallAsleep, Goto
<1>3. DemuxTypeOK'
  BY <1>1, <1>2 DEF DemuxTypeOK
<1>4. ThreadsAgree'
  BY <1>1 DEF ThreadsAgree
<1>5. \A e \in Caller : \/ call'[e] = call[e]
                        \/ /\ call[e] \notin {"out", "send"} /\ call'[e] \notin {"out", "send"}
                           /\ call'[e] = "done" => ready[e] <= 0
  BY <1>1, <1>2 DEF DemuxTypeOK
<1>. QED BY <1>1, <1>3, <1>4, <1>5, QuietKeeps

LEMMA NotifyCallerKeeps ==
  ASSUME IInv, NEW n \in Notifier, NotifyCaller(n)
  PROVE  IInv'
<1>1. /\ DemuxTypeOK /\ ThreadsAgree /\ at[n] = "notify"
      /\ at' = [at EXCEPT ![n] = "mark"]
      /\ UNCHANGED <<size, ready, first, parts, queue, item, closing, startIndex, abort>>
      /\ \/ call' = call
         \/ call[Source(n)] = "asleep" /\ call' = [call EXCEPT ![Source(n)] = "test"]
  BY DEF IInv, NotifyCaller, Move, Goto
<1>2. Source(n) \in Caller
  BY <1>1, ItemOf DEF Telling
<1>3. call' \in [Caller -> {"out", "send", "test", "drowsy", "asleep", "done"}]
      /\ \A e \in Caller : \/ call'[e] = call[e]
                           \/ /\ call[e] \notin {"out", "send"}
                              /\ call'[e] \notin {"out", "send"}
                              /\ call'[e] = "done" => ready[e] <= 0
  BY <1>1, <1>2 DEF DemuxTypeOK
<1>4. at' \in [Notifier -> {"open", "wake", "join", "drain", "gone", "look", "drowsy",
                            "asleep", "compute", "finish", "notify", "mark", "exit"}]
      /\ at'[n] = "mark" /\ \A m \in Notifier \ {n} : at'[m] = at[m]
  BY <1>1 DEF DemuxTypeOK
<1>5. DemuxTypeOK'
  BY <1>1, <1>3, <1>4 DEF DemuxTypeOK
<1>6. ThreadsAgree'
  <2>1. \A t \in Thread : t \in Notifier
    BY DEF Notifier
  <2>2. Owner \in Notifier
    BY DEF Notifier
  <2>. QED BY <1>1, <1>4, <2>1, <2>2 DEF ThreadsAgree, Telling, Busy
<1>7. \A m \in Notifier : /\ at'[m] \in Busy <=> at[m] \in Busy
                          /\ at'[m] \in Telling <=> at[m] \in Telling
                          /\ at'[m] = "finish" => at[m] = "finish"
  BY <1>1, <1>4 DEF Busy, Telling
<1>. QED BY <1>1, <1>3, <1>5, <1>6, <1>7, QuietKeeps

\* Where the threads and the owner may go when they are done with nothing.
LEMMA MovingKeeps ==
  ASSUME IInv, UNCHANGED <<requests, queue, item, startIndex>>,
         closing' \in Device, abort' \in BOOLEAN, abort => abort',
         at' \in [Notifier -> {"open", "wake", "join", "drain", "gone", "look", "drowsy",
                               "asleep", "compute", "finish", "notify", "mark", "exit"}],
         at'[Owner] = "open" <=> ~abort',
         at'[Owner] = at[Owner] \/ /\ at[Owner] \notin Busy \cup Telling
                                   /\ at'[Owner] \in {"open", "wake", "join", "drain", "gone"},
         \A t \in Thread :
           \/ at'[t] = at[t]
           \/ at[t] \notin Busy \cup Telling /\ at'[t] \in {"look", "drowsy", "asleep", "exit"}
  PROVE  IInv'
<1>1. DemuxTypeOK /\ ThreadsAgree /\ UNCHANGED <<call, size, ready, first, parts>>
  BY DEF IInv, requests
<1>2. DemuxTypeOK'
  BY <1>1 DEF DemuxTypeOK
<1>3. \A m \in Notifier : /\ at'[m] \in Busy <=> at[m] \in Busy
                          /\ at'[m] \in Telling <=> at[m] \in Telling
                          /\ at'[m] = "finish" => at[m] = "finish"
  BY DEF Notifier, Busy, Telling
<1>4. ThreadsAgree'
  <2>1. \A t \in Thread : at'[t] \in {"look", "drowsy", "asleep", "exit"} \cup Busy \cup Telling
    BY <1>1 DEF ThreadsAgree
  <2>2. at'[Owner] \in {"open", "wake", "join", "drain", "gone", "finish"} \cup Telling
    BY <1>1 DEF ThreadsAgree
  <2>3. \A n \in Notifier : at'[n] \in Busy \cup Telling <=> item'[n] # NoItem
    BY <1>1, <1>3 DEF ThreadsAgree
  <2>4. NoItem' = NoItem
    BY DEF NoItem
  <2>. QED BY <2>1, <2>2, <2>3, <2>4 DEF ThreadsAgree
<1>. QED BY <1>1, <1>2, <1>3, <1>4, QuietKeeps

LEMMA ThreadSleepsKeeps ==
  ASSUME IInv, NEW t \in Thread, ThreadSleeps(t)
  PROVE  IInv'
<1>1. /\ at[t] = "drowsy" /\ at' = [at EXCEPT ![t] = "asleep"] /\ t \in Notifier
      /\ t # Owner /\ Owner \in Notifier
      /\ UNCHANGED <<requests, queue, item, closing, startIndex, abort>>
  BY Items DEF ThreadSleeps, Move, Notifier
<1>2. DemuxTypeOK /\ ThreadsAgree
  BY DEF IInv
<1>3. /\ at' \in [Notifier -> {"open", "wake", "join", "drain", "gone", "look", "drowsy",
                               "asleep", "compute", "finish", "notify", "mark", "exit"}]
      /\ at'[t] = "asleep" /\ \A m \in Notifier \ {t} : at'[m] = at[m]
      /\ closing' \in Device /\ abort' \in BOOLEAN
  BY <1>1, <1>2 DEF DemuxTypeOK
<1>4. Thread \subseteq Notifier
  BY DEF Notifier
<1>5. at'[Owner] = at[Owner]
  BY <1>1, <1>3
<1>6. at'[Owner] = "open" <=> ~abort'
  BY <1>1, <1>2, <1>5 DEF ThreadsAgree
<1>7. \A u \in Thread :
        \/ at'[u] = at[u]
        \/ at[u] \notin Busy \cup Telling /\ at'[u] \in {"look", "drowsy", "asleep", "exit"}
  BY <1>1, <1>3, <1>4 DEF Busy, Telling
<1>. QED BY <1>1, <1>3, <1>5, <1>6, <1>7, MovingKeeps

LEMMA LookKeeps ==
  ASSUME IInv, NEW t \in Thread, Look(t)
  PROVE  IInv'
<1>. DEFINE d == DeviceOf[t]
<1>1. /\ at[t] = "look" /\ t \in Notifier /\ t # Owner /\ Owner \in Notifier /\ d \in Device
      /\ UNCHANGED <<requests, closing, startIndex, abort>>
      /\ \/ \E place \in {"exit", "drowsy"} :
              at' = [at EXCEPT ![t] = place] /\ UNCHANGED <<item, queue>>
         \/ /\ queue[d] # << >> /\ item' = [item EXCEPT ![t] = Head(queue[d])]
            /\ queue' = [queue EXCEPT ![d] = Tail(@)]
            /\ at' = [at EXCEPT ![t] = "compute"]
  BY Items, DemuxAssumption DEF Look, Move, Notifier, Device
<1>2. DemuxTypeOK /\ ThreadsAgree
  BY DEF IInv
<1>3. Thread \subseteq Notifier
  BY DEF Notifier
<1>. HIDE DEF d
<1>4. CASE \E place \in {"exit", "drowsy"} :
             at' = [at EXCEPT ![t] = place] /\ UNCHANGED <<item, queue>>
  <2>1. PICK place \in {"exit", "drowsy"} :
          at' = [at EXCEPT ![t] = place] /\ UNCHANGED <<item, queue>>
    BY <1>4
  <2>2. /\ at' \in [Notifier -> {"open", "wake", "join", "drain", "gone", "look", "drowsy",
                                 "asleep", "compute", "finish", "notify", "mark", "exit"}]
        /\ at'[t] = place /\ \A m \in Notifier \ {t} : at'[m] = at[m]
        /\ closing' \in Device /\ abort' \in BOOLEAN
    BY <1>1, <1>2, <2>1 DEF DemuxTypeOK
  <2>3. at'[Owner] = at[Owner]
    BY <1>1, <2>2
  <2>4. at'[Owner] = "open" <=> ~abort'
    BY <1>1, <1>2, <2>3 DEF ThreadsAgree
  <2>5. \A u \in Thread :
          \/ at'[u] = at[u]
          \/ at[u] \notin Busy \cup Telling /\ at'[u] \in {"look", "drowsy", "asleep", "exit"}
    BY <1>1, <1>3, <2>2 DEF Busy, Telling
  <2>. QED BY <1>1, <2>1, <2>2, <2>3, <2>4, <2>5, MovingKeeps
<1>5. CASE /\ queue[d] # << >> /\ item' = [item EXCEPT ![t] = Head(queue[d])]
           /\ queue' = [queue EXCEPT ![d] = Tail(@)]
           /\ at' = [at EXCEPT ![t] = "compute"]
  <2>1. /\ at'[t] = "compute" /\ \A m \in Notifier \ {t} : at'[m] = at[m]
        /\ item'[t] = Head(queue[d]) /\ \A m \in Notifier \ {t} : item'[m] = item[m]
    BY <1>1, <1>2, <1>5 DEF DemuxTypeOK
  <2>2. Head(queue[d]) # NoItem
    <3>1. queue[d] \in Seq(Caller \X (1..Devices))
      BY <1>1, <1>2 DEF DemuxTypeOK
    <3>2. Head(queue[d]) \in Caller \X (1..Devices)
      BY <1>5, <3>1, HeadTailProperties
    <3>. QED BY <3>2, Items
  <2>3. ThreadsAgree'
    <3>1. \A n \in Notifier : at'[n] \in Busy \cup Telling <=> item'[n] # NoItem
      BY <1>2, <2>1, <2>2 DEF ThreadsAgree, Busy
    <3>2. \A u \in Thread : at'[u] \in {"look", "drowsy", "asleep", "exit"} \cup Busy \cup Telling
      BY <1>2, <1>3, <2>1 DEF ThreadsAgree, Busy
    <3>3. at'[Owner] = at[Owner] /\ abort' = abort
      BY <1>1, <2>1
    <3>. QED BY <1>2, <3>1, <3>2, <3>3 DEF ThreadsAgree, NoItem
  <2>4. at[t] \notin Busy \cup Telling /\ "compute" \in Busy /\ "compute" # "finish"
    BY <1>1 DEF Busy, Telling
  <2>. QED BY <1>1, <1>5, <2>3, <2>4, TakingKeeps
<1>. QED BY <1>1, <1>4, <1>5

LEMMA CloseKeeps ==
  ASSUME IInv, Close \/ WakeDevice \/ JoinThreads
  PROVE  IInv'
<1>0. DemuxTypeOK /\ ThreadsAgree /\ Owner \in Notifier /\ Thread \subseteq Notifier
  BY DEF IInv, Notifier
<1>1. \A k \in Device : (k + 1) % Devices \in Device
  <2>. TAKE k \in Device
  <2>1. k + 1 \in Nat /\ Devices \in Nat \ {0}
    BY Items
  <2>. QED BY <2>1, Items, DivMod
<1>2. /\ UNCHANGED <<requests, queue, item, startIndex>>
      /\ closing' \in Device /\ abort' \in BOOLEAN /\ (abort => abort')
      /\ at[Owner] \in {"open", "wake", "join"}
      /\ \E place \in {"wake", "join", "drain"} :
           \/ at' = [at EXCEPT ![Owner] = place]
           \/ at' = [WakeAll(closing) EXCEPT ![Owner] = place]
      /\ abort'
  BY <1>0, <1>1 DEF Close, WakeDevice, JoinThreads, Move, DemuxTypeOK, ThreadsAgree
<1>3. PICK place \in {"wake", "join", "drain"} :
        \/ at' = [at EXCEPT ![Owner] = place]
        \/ at' = [WakeAll(closing) EXCEPT ![Owner] = place]
  BY <1>2
<1>4. /\ at' \in [Notifier -> {"open", "wake", "join", "drain", "gone", "look", "drowsy",
                               "asleep", "compute", "finish", "notify", "mark", "exit"}]
      /\ at'[Owner] = place
      /\ \A t \in Thread : at'[t] = at[t] \/ (at[t] = "asleep" /\ at'[t] = "look")
  <2>1. CASE at' = [at EXCEPT ![Owner] = place]
    <3>1. \A t \in Thread : t # Owner /\ t \in Notifier
      BY <1>0, Items
    <3>0. at \in [Notifier -> {"open", "wake", "join", "drain", "gone", "look", "drowsy",
                              "asleep", "compute", "finish", "notify", "mark", "exit"}]
      BY <1>0 DEF DemuxTypeOK
    <3>2. at' \in [Notifier -> {"open", "wake", "join", "drain", "gone", "look", "drowsy",
                               "asleep", "compute", "finish", "notify", "mark", "exit"}]
      BY <2>1, <3>0
    <3>3. at'[Owner] = place /\ \A t \in Thread : at'[t] = at[t]
      BY <1>0, <2>1, <3>0, <3>1
    <3>. QED BY <3>2, <3>3
  <2>2. CASE at' = [WakeAll(closing) EXCEPT ![Owner] = place]
    <3>. DEFINE awake == WakeAll(closing)
    <3>1. \A t \in Thread : t # Owner /\ t \in Notifier
      BY <1>0, Items
    <3>2. /\ awake \in [Notifier -> {"open", "wake", "join", "drain", "gone", "look", "drowsy",
                                     "asleep", "compute", "finish", "notify", "mark", "exit"}]
          /\ \A n \in Notifier : awake[n] = at[n] \/ (at[n] = "asleep" /\ awake[n] = "look")
      <4>1. at \in [Notifier -> {"open", "wake", "join", "drain", "gone", "look", "drowsy",
                                "asleep", "compute", "finish", "notify", "mark", "exit"}]
        BY <1>0 DEF DemuxTypeOK
      <4>2. \A n \in Asleep(closing) : at[n] = "asleep"
        BY DEF Asleep
      <4>3. awake = [n \in Notifier |-> IF n \in Asleep(closing) THEN "look" ELSE at[n]]
        BY DEF WakeAll
      <4>. HIDE DEF awake
      <4>. QED BY <4>1, <4>2, <4>3
    <3>3. at' = [awake EXCEPT ![Owner] = place]
      BY <2>2
    <3>. HIDE DEF awake
    <3>4. at' \in [Notifier -> {"open", "wake", "join", "drain", "gone", "look", "drowsy",
                               "asleep", "compute", "finish", "notify", "mark", "exit"}]
      BY <3>2, <3>3
    <3>5. at'[Owner] = place /\ \A t \in Thread : at'[t] = awake[t]
      BY <1>0, <3>1, <3>2, <3>3
    <3>. QED BY <3>1, <3>2, <3>4, <3>5
  <2>. QED BY <1>3, <2>1, <2>2
<1>5. at[Owner] \notin Busy \cup Telling
  BY <1>2 DEF Busy, Telling
<1>6. \A t \in Thread :
        \/ at'[t] = at[t]
        \/ at[t] \notin Busy \cup Telling /\ at'[t] \in {"look", "drowsy", "asleep", "exit"}
  BY <1>4 DEF Busy, Telling
<1>7. at'[Owner] = "open" <=> ~abort'
  BY <1>2, <1>4
<1>. QED BY <1>2, <1>4, <1>5, <1>6, <1>7, MovingKeeps

LEMMA DrainKeeps ==
  ASSUME IInv, Drain
  PROVE  IInv'
<1>0. DemuxTypeOK /\ ThreadsAgree /\ Owner \in Notifier /\ Thread \subseteq Notifier
      /\ closing \in Device /\ Owner \notin Thread
  BY Items DEF IInv, Notifier, DemuxTypeOK
<1>1. at[Owner] = "drain" /\ UNCHANGED <<requests, startIndex, abort>> /\ abort
  BY <1>0 DEF Drain, ThreadsAgree
<1>2. CASE queue[closing] # << >>
  <2>1. /\ item' = [item EXCEPT ![Owner] = Head(queue[closing])]
        /\ queue' = [queue EXCEPT ![closing] = Tail(@)]
        /\ at' = [at EXCEPT ![Owner] = "finish"] /\ closing' = closing
    BY <1>2 DEF Drain, Move
  <2>2. /\ at'[Owner] = "finish" /\ \A m \in Notifier \ {Owner} : at'[m] = at[m]
        /\ item'[Owner] = Head(queue[closing])
        /\ \A m \in Notifier \ {Owner} : item'[m] = item[m]
    BY <1>0, <2>1 DEF DemuxTypeOK
  <2>3. Head(queue[closing]) # NoItem
    <3>1. queue[closing] \in Seq(Caller \X (1..Devices))
      BY <1>0 DEF DemuxTypeOK
    <3>2. Head(queue[closing]) \in Caller \X (1..Devices)
      BY <1>2, <3>1, HeadTailProperties
    <3>. QED BY <3>2, Items
  <2>4. ThreadsAgree'
    <3>1. \A n \in Notifier : at'[n] \in Busy \cup Telling <=> item'[n] # NoItem
      BY <1>0, <2>2, <2>3 DEF ThreadsAgree, Busy
    <3>2. \A u \in Thread : at'[u] = at[u]
      BY <1>0, <2>2
    <3>. QED BY <1>0, <1>1, <2>2, <3>1, <3>2 DEF ThreadsAgree, NoItem
  <2>5. at[Owner] \notin Busy \cup Telling /\ "finish" \in Busy
    BY <1>1 DEF Busy, Telling
  <2>. QED BY <1>0, <1>1, <1>2, <2>1, <2>4, <2>5, TakingKeeps
<1>3. CASE queue[closing] = << >>
  <2>1. PICK place \in {"gone", "join"} : at' = [at EXCEPT ![Owner] = place]
    BY <1>3 DEF Drain, Move
  <2>2. closing' = (closing + 1) % Devices /\ UNCHANGED <<item, queue>>
    BY <1>3 DEF Drain
  <2>3. closing' \in Device
    BY <1>0, <2>2, Items, DivMod
  <2>4. /\ at' \in [Notifier -> {"open", "wake", "join", "drain", "gone", "look", "drowsy",
                                 "asleep", "compute", "finish", "notify", "mark", "exit"}]
        /\ at'[Owner] = place /\ \A t \in Thread : at'[t] = at[t]
        /\ abort' \in BOOLEAN
    BY <1>0, <1>1, <2>1 DEF DemuxTypeOK
  <2>5. at[Owner] \notin Busy \cup Telling
    BY <1>1 DEF Busy, Telling
  <2>. QED BY <1>1, <2>2, <2>3, <2>4, <2>5, MovingKeeps
<1>. QED BY <1>2, <1>3

-----------------------------------------------------------------------------
(* The end of a part: it is computed, counted down, and told.              *)
LEMMA ComputePartKeeps ==
  ASSUME IInv, NEW t \in Thread, ComputePart(t)
  PROVE  IInv'
<1>. DEFINE P == [device : Device, from : Nat, to : Nat, computed : BOOLEAN]
<1>0. /\ DemuxTypeOK /\ ThreadsAgree /\ PlacesAgree /\ ComputedAgree /\ CountsAgree
      /\ t \in Notifier /\ t # Owner /\ Owner \in Notifier /\ Thread \subseteq Notifier
      /\ at[t] = "compute" /\ at' = [at EXCEPT ![t] = "finish"]
      /\ UNCHANGED <<call, size, ready, first, queue, item, closing, startIndex, abort>>
  BY Items DEF IInv, ComputePart, Move, Notifier
<1>1. PICK c \in Caller, j \in 1..Devices : item[t] = <<c, j>> /\ c = Source(t) /\ j = item[t][2]
  BY <1>0, ItemOf DEF Busy
<1>2. j \in 1..Len(parts[c])
  <2>1. InHands(c, j)
    BY <1>0, <1>1 DEF InHands, Busy
  <2>2. j <= Len(parts[c]) /\ Len(parts[c]) \in Nat /\ j \in Nat /\ j >= 1
    BY <1>0, <1>1, <2>1, SizeOf, Items DEF PlacesAgree
  <2>. QED BY <2>2
<1>3. /\ parts[c] \in Seq(P) /\ parts[c][j] \in P
      /\ parts' = [parts EXCEPT ![c] = [parts[c] EXCEPT ![j] =
                                          [parts[c][j] EXCEPT !.computed = TRUE]]]
  <2>1. parts[c] \in Seq(P)
    BY <1>0 DEF DemuxTypeOK
  <2>2. parts[c][j] \in P
    BY <1>2, <2>1, ElementOfSeq
  <2>. QED BY <1>1, <2>1, <2>2 DEF ComputePart
<1>. DEFINE r == [parts[c][j] EXCEPT !.computed = TRUE]
<1>4. /\ r \in P /\ r.computed /\ r.from = parts[c][j].from /\ r.to = parts[c][j].to
      /\ r.device = parts[c][j].device
  BY <1>3
<1>. HIDE DEF r
<1>5. /\ [parts[c] EXCEPT ![j] = r] \in Seq(P) /\ Len([parts[c] EXCEPT ![j] = r]) = Len(parts[c])
      /\ \A i \in 1..Len(parts[c]) :
           [parts[c] EXCEPT ![j] = r][i] = IF i = j THEN r ELSE parts[c][i]
  <2>. DEFINE q == parts[c]
  <2>1. q \in Seq(P) /\ j \in 1..Len(q) /\ r \in P
    BY <1>2, <1>3, <1>4
  <2>. HIDE DEF P, q
  <2>2. /\ [q EXCEPT ![j] = r] \in Seq(P) /\ Len([q EXCEPT ![j] = r]) = Len(q)
        /\ \A i \in 1..Len(q) : [q EXCEPT ![j] = r][i] = IF i = j THEN r ELSE q[i]
    BY <2>1, ExceptSeq
  <2>. QED BY <2>2 DEF q
<1>6. /\ parts' \in [Caller -> Seq(P)]
      /\ \A e \in Caller : /\ Len(parts'[e]) = Len(parts[e])
                           /\ \A i \in 1..Len(parts[e]) :
                                parts'[e][i] = IF e = c /\ i = j THEN r ELSE parts[e][i]
  <2>1. parts \in [Caller -> Seq(P)] /\ parts' = [parts EXCEPT ![c] = [parts[c] EXCEPT ![j] = r]]
    BY <1>0, <1>3 DEF DemuxTypeOK, r
  <2>. HIDE DEF P
  <2>2. parts'[c] = [parts[c] EXCEPT ![j] = r] /\ \A e \in Caller \ {c} : parts'[e] = parts[e]
    BY <2>1
  <2>3. parts' \in [Caller -> Seq(P)]
    BY <1>5, <2>1
  <2>. QED BY <1>5, <2>2, <2>3
<1>7. at'[t] = "finish" /\ \A m \in Notifier \ {t} : at'[m] = at[m]
  BY <1>0 DEF DemuxTypeOK
<1>8. DemuxTypeOK'
  <2>1. at' \in [Notifier -> {"open", "wake", "join", "drain", "gone", "look", "drowsy",
                              "asleep", "compute", "finish", "notify", "mark", "exit"}]
    BY <1>0 DEF DemuxTypeOK
  <2>. QED BY <1>0, <1>6, <2>1 DEF DemuxTypeOK
<1>9. \A m \in Notifier : /\ at'[m] \in Busy <=> at[m] \in Busy
                          /\ at'[m] \in Telling <=> at[m] \in Telling
  BY <1>0, <1>7 DEF Busy, Telling
<1>10. ThreadsAgree'
  <2>1. \A u \in Thread : at'[u] \in {"look", "drowsy", "asleep", "exit"} \cup Busy \cup Telling
    BY <1>0, <1>7 DEF ThreadsAgree, Busy
  <2>2. at'[Owner] = at[Owner]
    BY <1>0, <1>7
  <2>3. \A n \in Notifier : at'[n] \in Busy \cup Telling <=> item'[n] # NoItem
    BY <1>0, <1>9 DEF ThreadsAgree
  <2>. QED BY <1>0, <2>1, <2>2, <2>3 DEF ThreadsAgree, NoItem
<1>11. \A e \in Caller, i \in Int : /\ InQueue(e, i)' <=> InQueue(e, i)
                                    /\ InHands(e, i)' <=> InHands(e, i)
                                    /\ ToSend(e, i)' <=> ToSend(e, i)
  BY <1>0, <1>6, <1>9 DEF InQueue, InHands, ToSend
<1>12. \A e \in Caller : Left(e)' = Left(e)
  BY <1>0, <1>11 DEF Left
<1>13. CallsAgree'
  <2>1. \A e \in Caller : parts[e] = << >> => parts'[e] = << >>
    <3>. TAKE e \in Caller
    <3>1. c # e \/ parts[e] # << >>
      BY <1>2, <1>3
    <3>. QED BY <1>0, <1>3, <3>1 DEF DemuxTypeOK
  <2>. QED BY <1>0, <1>6, <2>1 DEF IInv, CallsAgree
<1>14. PlacesAgree'
  <2>1. \A i \in 1..Devices : i \in Int
    BY Items
  <2>2. \A e \in Caller, i \in 1..Devices :
          InQueue(e, i)' \/ InHands(e, i)' => i <= Len(parts'[e])
    BY <1>0, <1>6, <1>11, <2>1 DEF PlacesAgree
  <2>3. \A m, n \in Notifier :
          at'[m] \in Busy /\ at'[n] \in Busy /\ item'[m] = item'[n] => m = n
    BY <1>0, <1>9 DEF PlacesAgree
  <2>. QED BY <1>0, <1>9, <2>2, <2>3 DEF PlacesAgree
<1>15. CountsAgree'
  <2>1. \A n \in Notifier : Source(n)' = Source(n)
    BY <1>0 DEF Source
  <2>. QED BY <1>0, <1>9, <1>12, <2>1 DEF CountsAgree
<1>16. ComputedAgree'
  <2>1. \A e \in Caller : \A i \in 1..Len(parts'[e]) :
          i \in Left(e)' \/ parts'[e][i].computed \/ abort'
    BY <1>0, <1>4, <1>6, <1>12, ZenonT(60) DEF ComputedAgree
  <2>2. ASSUME NEW u \in Thread, at'[u] = "finish"
        PROVE  parts'[Source(u)'][item'[u][2]].computed
    <3>1. CASE u = t
      <4>1. parts'[c][j] = r
        BY <1>2, <1>6
      <4>2. Source(u)' = c /\ item'[u][2] = j
        BY <1>0, <1>1, <3>1 DEF Source
      <4>. QED BY <1>4, <4>1, <4>2
    <3>2. CASE u # t
      <4>1. at[u] = "finish" /\ u \in Notifier
        BY <1>0, <1>7, <2>2, <3>2
      <4>2. PICK e \in Caller, i \in 1..Devices : item[u] = <<e, i>> /\ e = Source(u)
                                                /\ i = item[u][2]
        BY <4>1, ItemOf DEF Busy
      <4>3. i \in 1..Len(parts[e])
        <5>1. InHands(e, i)
          BY <4>1, <4>2 DEF InHands, Busy
        <5>2. i <= Len(parts[e]) /\ Len(parts[e]) \in Nat /\ i \in Nat /\ i >= 1
          BY <1>0, <4>2, <5>1, SizeOf, Items DEF PlacesAgree
        <5>. QED BY <5>2
      <4>4. parts[e][i].computed
        BY <1>0, <4>1, <4>2 DEF ComputedAgree
      <4>5. parts'[e][i].computed
        BY <1>4, <1>6, <4>3, <4>4
      <4>6. Source(u)' = e /\ item'[u][2] = i
        BY <1>0, <4>2 DEF Source
      <4>. QED BY <4>5, <4>6
    <3>. QED BY <3>1, <3>2
  <2>. QED BY <2>1, <2>2 DEF ComputedAgree
<1>17. TilesAgree'
  <2>. SUFFICES ASSUME NEW e \in Caller, NEW i \in 1..Len(parts[e])
                PROVE  /\ parts'[e][i].from = Edge(size[e], i - 1)
                       /\ parts'[e][i].to = Edge(size[e], i)
                       /\ parts'[e][i].device = (first[e] + i - 1) % Devices
    BY <1>0, <1>6 DEF TilesAgree
  <2>1. /\ parts'[e][i].from = parts[e][i].from /\ parts'[e][i].to = parts[e][i].to
        /\ parts'[e][i].device = parts[e][i].device
    BY <1>4, <1>6
  <2>. QED BY <2>1 DEF IInv, TilesAgree
<1>. QED BY <1>8, <1>10, <1>13, <1>14, <1>15, <1>16, <1>17 DEF IInv

\* A notifier goes on, or to tell the caller.
LEMMA GoingOn ==
  ASSUME IInv, NEW n \in Notifier, GoOn(n)
  PROVE  /\ at' \in [Notifier -> {"open", "wake", "join", "drain", "gone", "look", "drowsy",
                                  "asleep", "compute", "finish", "notify", "mark", "exit"}]
         /\ item' \in [Notifier -> (Caller \X (1..Devices)) \cup {NoItem}]
         /\ item'[n] = NoItem /\ \A m \in Notifier \ {n} : item'[m] = item[m]
         /\ at'[n] = (IF n = Owner THEN "drain" ELSE "look")
         /\ \A m \in Notifier \ {n} : at'[m] = at[m]
<1>1. /\ at \in [Notifier -> {"open", "wake", "join", "drain", "gone", "look", "drowsy",
                              "asleep", "compute", "finish", "notify", "mark", "exit"}]
      /\ item \in [Notifier -> (Caller \X (1..Devices)) \cup {NoItem}]
  BY DEF IInv, DemuxTypeOK
<1>. QED BY <1>1 DEF GoOn, Move

LEMMA CountDownKeeps ==
  ASSUME IInv, NEW n \in Notifier, CountDown(n)
  PROVE  IInv'
<1>0. /\ DemuxTypeOK /\ ThreadsAgree /\ PlacesAgree /\ ComputedAgree /\ CountsAgree /\ CallsAgree
      /\ Owner \in Notifier /\ Thread \subseteq Notifier
      /\ at[n] = "finish"
      /\ UNCHANGED <<call, size, first, parts, queue, closing, startIndex, abort>>
  BY DEF IInv, CountDown, Notifier
<1>1. PICK c \in Caller, j \in 1..Devices : item[n] = <<c, j>> /\ c = Source(n) /\ j = item[n][2]
  BY <1>0, ItemOf DEF Busy
<1>2. InHands(c, j) /\ j \in 1..Len(parts[c]) /\ j \in Int
  <2>1. InHands(c, j)
    BY <1>0, <1>1 DEF InHands, Busy
  <2>2. j <= Len(parts[c]) /\ Len(parts[c]) \in Nat /\ j \in Nat /\ j >= 1
    BY <1>0, <1>1, <2>1, SizeOf, Items DEF PlacesAgree
  <2>. QED BY <2>1, <2>2
<1>3. call[c] # "out" /\ size[c] \in Nat \ {0} /\ WorkItems(size[c]) \in Nat
      /\ j \in 1..WorkItems(size[c])
  <2>1. call[c] # "out"
    <3>1. Len(<< >>) = 0
      OBVIOUS
    <3>. QED BY <1>0, <1>2, <3>1 DEF CallsAgree
  <2>2. Len(parts[c]) <= WorkItems(size[c]) /\ WorkItems(size[c]) \in Nat /\ Len(parts[c]) \in Nat
    BY <2>1, SizeOf, Items
  <2>. QED BY <1>2, <2>1, <2>2, SizeOf
<1>4. /\ j \in Left(c) /\ IsFiniteSet(Left(c)) /\ ready[c] > 0 /\ ready[c] \in Nat
      /\ Cardinality(Left(c)) = ready[c]
  <2>1. j \in Left(c)
    BY <1>2, <1>3 DEF Left
  <2>2. IsFiniteSet(Left(c))
    <3>1. IsFiniteSet(1..WorkItems(size[c]))
      BY <1>3, FS_Interval
    <3>2. Left(c) \in SUBSET (1..WorkItems(size[c]))
      BY DEF Left
    <3>. QED BY <3>1, <3>2, FS_Subset
  <2>3. ready[c] \in -1..Devices
    BY <1>0 DEF DemuxTypeOK
  <2>4. ready[c] > 0
    BY <1>0, <2>1, <2>3, Items DEF CountsAgree
  <2>. QED BY <1>0, <2>1, <2>2, <2>3, <2>4, Items DEF CountsAgree
<1>5. /\ ready' \in [Caller -> -1..Devices] /\ ready'[c] = ready[c] - 1
      /\ \A e \in Caller \ {c} : ready'[e] = ready[e]
  <2>1. ready \in [Caller -> -1..Devices] /\ ready' = [ready EXCEPT ![c] = ready[c] - 1]
    BY <1>0, <1>1 DEF DemuxTypeOK, CountDown
  <2>2. ready[c] - 1 \in -1..Devices
    BY <1>4, <2>1, Items
  <2>. QED BY <2>1, <2>2
<1>6. /\ at' \in [Notifier -> {"open", "wake", "join", "drain", "gone", "look", "drowsy",
                               "asleep", "compute", "finish", "notify", "mark", "exit"}]
      /\ item' \in [Notifier -> (Caller \X (1..Devices)) \cup {NoItem}]
      /\ \A m \in Notifier \ {n} : at'[m] = at[m] /\ item'[m] = item[m]
      /\ \/ ready[c] = 1 /\ at'[n] = "notify" /\ item'[n] = item[n]
         \/ /\ ready[c] # 1 /\ item'[n] = NoItem
            /\ at'[n] = (IF n = Owner THEN "drain" ELSE "look")
  <2>1. CASE IsLast(n)
    <3>1. /\ at \in [Notifier -> {"open", "wake", "join", "drain", "gone", "look", "drowsy",
                                  "asleep", "compute", "finish", "notify", "mark", "exit"}]
          /\ item \in [Notifier -> (Caller \X (1..Devices)) \cup {NoItem}]
      BY <1>0 DEF DemuxTypeOK
    <3>2. at' = [at EXCEPT ![n] = "notify"] /\ item' = item /\ ready[c] = 1
      BY <1>1, <2>1 DEF CountDown, Move, IsLast
    <3>. QED BY <3>1, <3>2
  <2>2. CASE ~IsLast(n)
    <3>1. GoOn(n) /\ ready[c] # 1
      BY <1>1, <2>2 DEF CountDown, IsLast
    <3>. QED BY <3>1, GoingOn
  <2>. QED BY <2>1, <2>2
<1>7. DemuxTypeOK'
  BY <1>0, <1>5, <1>6 DEF DemuxTypeOK
<1>8. at'[n] \notin Busy /\ \A m \in Notifier : at'[m] \in Busy <=> at[m] \in Busy /\ m # n
  BY <1>6 DEF Busy
<1>9. \A e \in Caller, i \in Int :
        /\ InQueue(e, i)' <=> InQueue(e, i)
        /\ InHands(e, i)' <=> InHands(e, i) /\ ~(e = c /\ i = j)
        /\ ToSend(e, i)' <=> ToSend(e, i)
  <2>. TAKE e \in Caller, i \in Int
  <2>1. InHands(e, i)' => InHands(e, i) /\ ~(e = c /\ i = j)
    <3>1. SUFFICES ASSUME NEW m \in Notifier, at'[m] \in Busy, item'[m] = <<e, i>>
                   PROVE  InHands(e, i) /\ ~(e = c /\ i = j)
      BY DEF InHands
    <3>2. m # n /\ at[m] \in Busy /\ item[m] = <<e, i>>
      BY <1>6, <1>8, <3>1
    <3>3. at[n] \in Busy
      BY <1>0 DEF Busy
    <3>4. item[m] # item[n]
      BY <1>0, <3>2, <3>3 DEF PlacesAgree
    <3>. QED BY <1>1, <3>2, <3>4 DEF InHands
  <2>2. InHands(e, i) /\ ~(e = c /\ i = j) => InHands(e, i)'
    <3>1. SUFFICES ASSUME NEW m \in Notifier, at[m] \in Busy, item[m] = <<e, i>>,
                          ~(e = c /\ i = j)
                   PROVE  InHands(e, i)'
      BY DEF InHands
    <3>2. m # n
      BY <1>1, <3>1
    <3>. QED BY <1>6, <3>1, <3>2 DEF InHands
  <2>. QED BY <1>0, <2>1, <2>2 DEF InQueue, ToSend
<1>10. /\ \A e \in Caller \ {c} : Left(e)' = Left(e)
       /\ Left(c)' = Left(c) \ {j}
  <2>1. \A e \in Caller \ {c} : Left(e)' = Left(e)
    BY <1>0, <1>9 DEF Left
  <2>2. ~ToSend(c, j)
    BY <1>2, SizeOf, Items DEF ToSend
  <2>3. ~InQueue(c, j)
    BY <1>0, <1>1 DEF PlacesAgree, InQueue, Busy
  <2>4. Left(c)' = Left(c) \ {j}
    BY <1>0, <1>9, <2>2, <2>3 DEF Left
  <2>. QED BY <2>1, <2>4
<1>11. Cardinality(Left(c)') = ready'[c] /\ (ready'[c] = 0 => Left(c)' = {})
  <2>. DEFINE L == Left(c)
              M == L \ {j}
  <2>1. IsFiniteSet(L) /\ j \in L /\ Cardinality(L) = ready[c]
    BY <1>4
  <2>. HIDE DEF L
  <2>2. IsFiniteSet(M) /\ Cardinality(M) = ready[c] - 1
    BY <2>1, FS_RemoveElement
  <2>. HIDE DEF M
  <2>3. ready[c] = 1 => M = {}
    BY <2>2, FS_EmptySet
  <2>4. Left(c)' = M
    BY <1>10 DEF M, L
  <2>. QED BY <1>4, <1>5, <2>2, <2>3, <2>4
<1>12. ThreadsAgree'
  <2>1. \A u \in Thread : u # Owner /\ u \in Notifier
    BY <1>0, Items
  <2>2. \A u \in Thread : at'[u] \in {"look", "drowsy", "asleep", "exit"} \cup Busy \cup Telling
    BY <1>0, <1>6, <2>1 DEF ThreadsAgree, Telling
  <2>3. at'[Owner] \in {"open", "wake", "join", "drain", "gone", "finish"} \cup Telling
    BY <1>0, <1>6 DEF ThreadsAgree, Telling
  <2>4. at'[Owner] = "open" <=> ~abort'
    BY <1>0, <1>6 DEF ThreadsAgree
  <2>5. \A m \in Notifier : at'[m] \in Busy \cup Telling <=> item'[m] # NoItem
    <3>1. \A m \in Notifier \ {n} : at'[m] \in Busy \cup Telling <=> item'[m] # NoItem
      BY <1>0, <1>6 DEF ThreadsAgree
    <3>2. item[n] # NoItem
      BY <1>1, Items
    <3>3. at'[n] \in Busy \cup Telling <=> item'[n] # NoItem
      BY <1>6, <3>2 DEF Busy, Telling
    <3>. QED BY <3>1, <3>3
  <2>. QED BY <2>2, <2>3, <2>4, <2>5 DEF ThreadsAgree, NoItem
<1>13. CallsAgree'
  <2>1. \A e \in Caller : ready[e] \in Int /\ ready'[e] \in Int
    BY <1>0, <1>5, Items DEF DemuxTypeOK
  <2>2. \A e \in Caller : ready[e] <= 0 => ready'[e] <= 0
    BY <1>4, <1>5, <2>1
  <2>3. \A e \in Caller : ready[e] = -1 => ready'[e] = -1
    BY <1>4, <1>5, <2>1
  <2>. QED BY <1>0, <2>2, <2>3 DEF CallsAgree
<1>14. PlacesAgree'
  <2>1. \A i \in 1..Devices : i \in Int
    BY Items
  <2>2. \A e \in Caller, i \in 1..Devices :
          InQueue(e, i)' \/ InHands(e, i)' => i <= Len(parts'[e])
    BY <1>0, <1>9, <2>1 DEF PlacesAgree
  <2>3. \A l, m \in Notifier :
          at'[l] \in Busy /\ at'[m] \in Busy /\ item'[l] = item'[m] => l = m
    BY <1>0, <1>6, <1>8 DEF PlacesAgree
  <2>4. \A m \in Notifier : at'[m] \in Busy =>
          \A d \in Device : \A i \in 1..Len(queue'[d]) : queue'[d][i] # item'[m]
    BY <1>0, <1>6, <1>8 DEF PlacesAgree
  <2>. QED BY <1>0, <2>2, <2>3, <2>4 DEF PlacesAgree
<1>15. CountsAgree'
  <2>1. \A m \in Notifier \ {n} : Source(m)' = Source(m)
    BY <1>6 DEF Source
  <2>2. \A m \in Notifier : at[m] \in Telling => m # n /\ Source(m) # c
    BY <1>0, <1>4 DEF CountsAgree, Telling
  <2>3. at'[n] \in Telling => ready'[c] = 0 /\ Source(n)' = c
    BY <1>1, <1>4, <1>5, <1>6 DEF Telling, Source
  <2>4. \A m \in Notifier \ {n} : at'[m] = at[m]
    BY <1>6
  <2>5. \A m \in Notifier \ {n} : at[m] \in Telling => Source(m) \in Caller
    BY ItemOf
  <2>6. ASSUME NEW e \in Caller
        PROVE  /\ ready'[e] > 0 => Cardinality(Left(e)') = ready'[e]
               /\ ready'[e] <= 0 => Left(e)' = {}
    <3>1. CASE e = c
      BY <1>4, <1>5, <1>11, <3>1
    <3>2. CASE e # c
      BY <1>0, <1>5, <1>10, <3>2 DEF CountsAgree
    <3>. QED BY <3>1, <3>2
  <2>7. ASSUME NEW m \in Notifier, at'[m] \in Telling PROVE ready'[Source(m)'] = 0
    <3>1. CASE m = n
      BY <2>3, <2>7, <3>1
    <3>2. CASE m # n
      BY <1>0, <1>5, <2>1, <2>2, <2>4, <2>5, <2>7, <3>2 DEF CountsAgree
    <3>. QED BY <3>1, <3>2
  <2>8. ASSUME NEW l \in Notifier, NEW m \in Notifier,
               at'[l] \in Telling, at'[m] \in Telling, Source(l)' = Source(m)'
        PROVE  l = m
    BY <1>0, <2>1, <2>2, <2>3, <2>4, <2>8 DEF CountsAgree
  <2>9. ASSUME NEW e \in Caller, ready'[e] = 0
        PROVE  \E m \in Notifier : at'[m] \in Telling /\ Source(m)' = e
    <3>1. CASE e = c
      <4>1. at'[n] = "notify" /\ item'[n] = item[n]
        BY <1>4, <1>5, <1>6, <2>9, <3>1
      <4>. QED BY <1>1, <3>1, <4>1 DEF Telling, Source
    <3>2. CASE e # c
      <4>1. PICK m \in Notifier : at[m] \in Telling /\ Source(m) = e
        BY <1>0, <1>5, <2>9, <3>2 DEF CountsAgree
      <4>. QED BY <2>1, <2>2, <2>4, <4>1
    <3>. QED BY <3>1, <3>2
  <2>. QED BY <2>6, <2>7, <2>8, <2>9 DEF CountsAgree
<1>16. ComputedAgree'
  <2>1. parts[c][j].computed \/ abort
    <3>1. CASE n \in Thread
      BY <1>0, <1>1, <3>1 DEF ComputedAgree
    <3>2. CASE n = Owner
      BY <1>0, <3>2 DEF ThreadsAgree
    <3>. QED BY <3>1, <3>2 DEF Notifier
  <2>2. \A e \in Caller : \A i \in 1..Len(parts[e]) :
          i \in Left(e)' \/ parts[e][i].computed \/ abort
    BY <1>0, <1>10, <2>1 DEF ComputedAgree
  <2>3. \A u \in Thread : at'[u] = "finish" => u # n /\ at[u] = "finish" /\ item'[u] = item[u]
    BY <1>0, <1>6
  <2>4. \A u \in Thread : at'[u] = "finish" => parts[Source(u)][item[u][2]].computed
    BY <1>0, <2>3 DEF ComputedAgree
  <2>. QED BY <1>0, <2>2, <2>3, <2>4 DEF ComputedAgree, Source
<1>17. TilesAgree'
  BY <1>0 DEF IInv, TilesAgree
<1>. QED BY <1>7, <1>12, <1>13, <1>14, <1>15, <1>16, <1>17 DEF IInv

LEMMA LetDestroyKeeps ==
  ASSUME IInv, NEW n \in Notifier, LetDestroy(n)
  PROVE  IInv'
<1>0. /\ DemuxTypeOK /\ ThreadsAgree /\ PlacesAgree /\ ComputedAgree /\ CountsAgree /\ CallsAgree
      /\ Owner \in Notifier /\ Thread \subseteq Notifier
      /\ at[n] = "mark" /\ GoOn(n)
      /\ UNCHANGED <<call, size, first, parts, queue, closing, startIndex, abort>>
  BY DEF IInv, LetDestroy, Notifier
<1>1. PICK c \in Caller : c = Source(n) /\ item[n] # NoItem
  BY <1>0, ItemOf DEF Telling, ThreadsAgree
<1>2. ready[c] = 0 /\ Left(c) = {} /\ call[c] # "out"
  <2>1. ready[c] = 0
    BY <1>0, <1>1 DEF CountsAgree, Telling
  <2>. QED BY <1>0, <2>1 DEF CountsAgree, CallsAgree
<1>3. /\ ready' \in [Caller -> -1..Devices] /\ ready'[c] = -1
      /\ \A e \in Caller \ {c} : ready'[e] = ready[e]
  <2>1. ready \in [Caller -> -1..Devices] /\ ready' = [ready EXCEPT ![c] = -1]
    BY <1>0, <1>1 DEF DemuxTypeOK, LetDestroy
  <2>2. -1 \in -1..Devices
    BY Items
  <2>. QED BY <2>1, <2>2
<1>4. /\ at' \in [Notifier -> {"open", "wake", "join", "drain", "gone", "look", "drowsy",
                               "asleep", "compute", "finish", "notify", "mark", "exit"}]
      /\ item' \in [Notifier -> (Caller \X (1..Devices)) \cup {NoItem}]
      /\ \A m \in Notifier \ {n} : at'[m] = at[m] /\ item'[m] = item[m]
      /\ item'[n] = NoItem /\ at'[n] = (IF n = Owner THEN "drain" ELSE "look")
  BY <1>0, GoingOn
<1>5. DemuxTypeOK'
  BY <1>0, <1>3, <1>4 DEF DemuxTypeOK
<1>6. at[n] \notin Busy /\ at'[n] \notin Busy \cup Telling
  BY <1>0, <1>4 DEF Busy, Telling
<1>7. \A e \in Caller, i \in Int : /\ InQueue(e, i)' <=> InQueue(e, i)
                                   /\ InHands(e, i)' <=> InHands(e, i)
                                   /\ ToSend(e, i)' <=> ToSend(e, i)
  BY <1>0, <1>4, <1>6 DEF InQueue, InHands, ToSend
<1>8. \A e \in Caller : Left(e)' = Left(e)
  BY <1>0, <1>7 DEF Left
<1>9. ThreadsAgree'
  <2>1. \A u \in Thread : u # Owner /\ u \in Notifier
    BY <1>0, Items
  <2>2. \A u \in Thread : at'[u] \in {"look", "drowsy", "asleep", "exit"} \cup Busy \cup Telling
    BY <1>0, <1>4, <2>1 DEF ThreadsAgree
  <2>3. at'[Owner] \in {"open", "wake", "join", "drain", "gone", "finish"} \cup Telling
    BY <1>0, <1>4 DEF ThreadsAgree
  <2>4. at'[Owner] = "open" <=> ~abort'
    BY <1>0, <1>4 DEF ThreadsAgree
  <2>5. \A m \in Notifier : at'[m] \in Busy \cup Telling <=> item'[m] # NoItem
    BY <1>0, <1>4, <1>6 DEF ThreadsAgree
  <2>. QED BY <2>2, <2>3, <2>4, <2>5 DEF ThreadsAgree, NoItem
<1>10. CallsAgree'
  <2>1. \A e \in Caller : ready[e] <= 0 => ready'[e] <= 0
    BY <1>3
  <2>2. \A e \in Caller : ready[e] = -1 => ready'[e] = -1
    BY <1>3
  <2>. QED BY <1>0, <2>1, <2>2 DEF CallsAgree
<1>11. PlacesAgree'
  <2>1. \A i \in 1..Devices : i \in Int
    BY Items
  <2>2. \A e \in Caller, i \in 1..Devices :
          InQueue(e, i)' \/ InHands(e, i)' => i <= Len(parts'[e])
    BY <1>0, <1>7, <2>1 DEF PlacesAgree
  <2>3. \A m \in Notifier : at'[m] \in Busy => at[m] \in Busy /\ item'[m] = item[m]
    BY <1>4, <1>6
  <2>. QED BY <1>0, <2>2, <2>3 DEF PlacesAgree
<1>12. CountsAgree'
  <2>1. \A m \in Notifier : at'[m] \in Telling =>
          m # n /\ at[m] \in Telling /\ Source(m)' = Source(m) /\ Source(m) \in Caller
    BY <1>4, <1>6, ItemOf DEF Source
  <2>2. \A m \in Notifier : at[m] \in Telling /\ m # n => Source(m) # c
    BY <1>0, <1>1 DEF CountsAgree, Telling
  <2>3. ASSUME NEW e \in Caller
        PROVE  /\ ready'[e] > 0 => Cardinality(Left(e)') = ready'[e]
               /\ ready'[e] <= 0 => Left(e)' = {}
    <3>1. CASE e = c
      BY <1>2, <1>3, <1>8, <3>1
    <3>2. CASE e # c
      BY <1>0, <1>3, <1>8, <3>2 DEF CountsAgree
    <3>. QED BY <3>1, <3>2
  <2>4. \A m \in Notifier : at'[m] \in Telling => ready'[Source(m)'] = 0
    BY <1>0, <1>3, <2>1, <2>2 DEF CountsAgree
  <2>5. ASSUME NEW e \in Caller, ready'[e] = 0
        PROVE  \E m \in Notifier : at'[m] \in Telling /\ Source(m)' = e
    <3>1. e # c /\ ready[e] = 0
      BY <1>3, <2>5
    <3>2. PICK m \in Notifier : at[m] \in Telling /\ Source(m) = e
      BY <1>0, <3>1 DEF CountsAgree
    <3>3. m # n /\ at'[m] = at[m] /\ Source(m)' = Source(m)
      BY <1>1, <1>4, <3>1, <3>2 DEF Source
    <3>. QED BY <3>2, <3>3
  <2>6. \A l, m \in Notifier :
          at'[l] \in Telling /\ at'[m] \in Telling /\ Source(l)' = Source(m)' => l = m
    BY <1>0, <2>1 DEF CountsAgree
  <2>. QED BY <2>3, <2>4, <2>5, <2>6 DEF CountsAgree
<1>13. ComputedAgree'
  <2>1. \A e \in Caller : \A i \in 1..Len(parts[e]) :
          i \in Left(e)' \/ parts[e][i].computed \/ abort
    BY <1>0, <1>8 DEF ComputedAgree
  <2>2. \A u \in Thread : at'[u] = "finish" => at[u] = "finish" /\ item'[u] = item[u]
    BY <1>0, <1>4
  <2>3. \A u \in Thread : at'[u] = "finish" => parts[Source(u)][item[u][2]].computed
    BY <1>0, <2>2 DEF ComputedAgree
  <2>. QED BY <1>0, <2>1, <2>2, <2>3 DEF ComputedAgree, Source
<1>14. TilesAgree'
  BY <1>0 DEF IInv, TilesAgree
<1>. QED BY <1>5, <1>9, <1>10, <1>11, <1>12, <1>13, <1>14 DEF IInv

-----------------------------------------------------------------------------
(* The beginning and the end of a computation.                             *)

\* Nobody has a part of a batch of which nothing is left.
LEMMA NothingLeft ==
  ASSUME IInv, NEW c \in Caller, ready[c] = -1, call[c] # "send"
  PROVE  /\ Left(c) = {} /\ \A n \in Notifier : Source(n) # c
         /\ \A j \in 1..Devices : ~InQueue(c, j) /\ ~InHands(c, j)
<1>0. DemuxTypeOK /\ ThreadsAgree /\ PlacesAgree /\ CountsAgree /\ CallsAgree
  BY DEF IInv
<1>1. Left(c) = {}
  BY <1>0 DEF CountsAgree
<1>2. ASSUME NEW j \in 1..Devices, InQueue(c, j) \/ InHands(c, j) PROVE FALSE
  <2>1. j <= Len(parts[c]) /\ Len(parts[c]) \in Nat /\ j \in Nat /\ j >= 1
    BY <1>0, <1>2, SizeOf, Items DEF PlacesAgree
  <2>2. call[c] # "out"
    <3>1. Len(<< >>) = 0
      OBVIOUS
    <3>. QED BY <1>0, <2>1, <3>1 DEF CallsAgree
  <2>3. j \in 1..WorkItems(size[c])
    BY <2>1, <2>2, SizeOf, Items
  <2>. QED BY <1>1, <1>2, <2>3 DEF Left
<1>3. ASSUME NEW n \in Notifier, Source(n) = c PROVE FALSE
  <2>1. item[n] # NoItem
    <3>1. Owner # c /\ NoItem[1] = Owner
      BY Items DEF NoItem
    <3>. QED BY <1>3, <3>1 DEF Source
  <2>2. at[n] \in Busy \cup Telling
    BY <1>0, <2>1 DEF ThreadsAgree
  <2>3. at[n] \notin Telling
    BY <1>0, <1>3 DEF CountsAgree
  <2>4. at[n] \in Busy /\ item[n] = <<c, item[n][2]>> /\ item[n][2] \in 1..Devices
    BY <1>3, <2>2, <2>3, ItemOf
  <2>. QED BY <1>2, <2>4 DEF InHands
<1>. QED BY <1>1, <1>2, <1>3

LEMMA DestroyKeeps ==
  ASSUME IInv, NEW c \in Caller, DestroyComputation(c)
  PROVE  IInv'
<1>0. /\ DemuxTypeOK /\ ThreadsAgree /\ PlacesAgree /\ ComputedAgree /\ CountsAgree /\ CallsAgree
      /\ call[c] = "done" /\ ready[c] = -1
      /\ UNCHANGED <<queue, at, item, closing, startIndex, abort>>
  BY DEF IInv, DestroyComputation, MayDestroy
<1>. DEFINE P == [device : Device, from : Nat, to : Nat, computed : BOOLEAN]
<1>1. /\ call' \in [Caller -> {"out", "send", "test", "drowsy", "asleep", "done"}]
      /\ size' \in [Caller -> Nat] /\ ready' \in [Caller -> -1..Devices]
      /\ first' \in [Caller -> Device] /\ parts' \in [Caller -> Seq(P)]
      /\ call'[c] = "out" /\ size'[c] = 0 /\ ready'[c] = -1 /\ parts'[c] = << >>
      /\ \A e \in Caller \ {c} : /\ call'[e] = call[e] /\ size'[e] = size[e]
                                 /\ first'[e] = first[e] /\ parts'[e] = parts[e]
      /\ \A e \in Caller : ready'[e] = ready[e]
  <2>. HIDE DEF P
  <2>1. /\ call \in [Caller -> {"out", "send", "test", "drowsy", "asleep", "done"}]
        /\ size \in [Caller -> Nat] /\ ready \in [Caller -> -1..Devices]
        /\ first \in [Caller -> Device] /\ parts \in [Caller -> Seq(P)]
    BY <1>0 DEF DemuxTypeOK, P
  <2>2. /\ call' = [call EXCEPT ![c] = "out"] /\ size' = [size EXCEPT ![c] = 0]
        /\ ready' = [ready EXCEPT ![c] = -1] /\ first' = [first EXCEPT ![c] = 0]
        /\ parts' = [parts EXCEPT ![c] = << >>]
    BY DEF DestroyComputation, Goto
  <2>3. 0 \in Device /\ << >> \in Seq(P) /\ -1 \in -1..Devices
    BY Items, EmptySeq
  <2>. QED BY <1>0, <2>1, <2>2, <2>3
<1>2. DemuxTypeOK'
  BY <1>0, <1>1 DEF DemuxTypeOK
<1>3. Len(<< >>) = 0 /\ 1..Len(parts'[c]) = {} /\ \A j \in 1..Devices : j \in Int
  BY <1>1, Items
<1>4. /\ \A e \in Caller, i \in Int : /\ InQueue(e, i)' <=> InQueue(e, i)
                                      /\ InHands(e, i)' <=> InHands(e, i)
      /\ \A e \in Caller \ {c} : \A i \in Int : ToSend(e, i)' <=> ToSend(e, i)
      /\ \A i \in Int : ~ToSend(c, i)'
  BY <1>0, <1>1 DEF InQueue, InHands, ToSend
<1>5. /\ Left(c) = {} /\ \A n \in Notifier : Source(n) # c
      /\ \A j \in 1..Devices : ~InQueue(c, j) /\ ~InHands(c, j)
  BY <1>0, NothingLeft
<1>6. \A i \in Int : ~InQueue(c, i)' /\ ~InHands(c, i)'
  <2>. SUFFICES ASSUME NEW i \in Int PROVE ~InQueue(c, i) /\ ~InHands(c, i)
    BY <1>4
  <2>1. ASSUME InQueue(c, i) PROVE i \in 1..Devices
    <3>1. PICK d \in Device : \E k \in 1..Len(queue[d]) : queue[d][k] = <<c, i>>
      BY <2>1 DEF InQueue
    <3>2. PICK k \in 1..Len(queue[d]) : queue[d][k] = <<c, i>>
      BY <3>1
    <3>3. queue[d][k] \in Caller \X (1..Devices)
      BY <1>0, QueueOf
    <3>. QED BY <3>2, <3>3
  <2>2. ASSUME InHands(c, i) PROVE i \in 1..Devices
    <3>1. PICK n \in Notifier : at[n] \in Busy /\ item[n] = <<c, i>>
      BY <2>2 DEF InHands
    <3>2. item[n] \in Caller \X (1..Devices)
      BY <3>1, ItemOf
    <3>. QED BY <3>1, <3>2
  <2>. QED BY <1>5, <2>1, <2>2
<1>7. \A e \in Caller : Left(e)' = Left(e)
  <2>1. Left(c)' = {}
    BY <1>4, <1>6 DEF Left
  <2>2. \A e \in Caller \ {c} : Left(e)' = Left(e)
    BY <1>1, <1>4 DEF Left
  <2>. QED BY <1>5, <2>1, <2>2
<1>8. ThreadsAgree'
  BY <1>0 DEF ThreadsAgree, NoItem
<1>9. CallsAgree'
  BY <1>0, <1>1, ZenonT(60) DEF CallsAgree
<1>10. PlacesAgree'
  <2>1. ASSUME NEW e \in Caller, NEW i \in 1..Devices, InQueue(e, i)' \/ InHands(e, i)'
        PROVE  i <= Len(parts'[e])
    <3>1. e # c /\ (InQueue(e, i) \/ InHands(e, i))
      BY <1>3, <1>4, <1>6, <2>1
    <3>. QED BY <1>0, <1>1, <3>1 DEF PlacesAgree
  <2>. QED BY <1>0, <2>1 DEF PlacesAgree
<1>11. CountsAgree'
  <2>1. \A n \in Notifier : Source(n)' = Source(n)
    BY <1>0 DEF Source
  <2>2. \A n \in Notifier : at[n] \in Telling => Source(n) \in Caller
    BY ItemOf
  <2>3. \A e \in Caller : ready'[e] = ready[e] /\ Left(e)' = Left(e)
    BY <1>1, <1>7
  <2>4. \A n \in Notifier : at'[n] \in Telling => ready'[Source(n)'] = 0
    BY <1>0, <2>1, <2>2, <2>3 DEF CountsAgree
  <2>5. /\ \A m, n \in Notifier :
             at'[m] \in Telling /\ at'[n] \in Telling /\ Source(m)' = Source(n)' => m = n
        /\ \A e \in Caller : ready'[e] = 0 =>
             \E n \in Notifier : at'[n] \in Telling /\ Source(n)' = e
    BY <1>0, <2>1, <2>3 DEF CountsAgree
  <2>6. \A e \in Caller : /\ ready'[e] > 0 => Cardinality(Left(e)') = ready'[e]
                          /\ ready'[e] <= 0 => Left(e)' = {}
    BY <1>0, <2>3 DEF CountsAgree
  <2>. QED BY <2>4, <2>5, <2>6 DEF CountsAgree
<1>12. ComputedAgree'
  <2>1. \A e \in Caller : \A i \in 1..Len(parts'[e]) :
          i \in Left(e)' \/ parts'[e][i].computed \/ abort'
    <3>. TAKE e \in Caller
    <3>1. CASE e = c
      BY <1>3, <3>1
    <3>2. CASE e # c
      BY <1>0, <1>1, <1>7, <3>2, ZenonT(60) DEF ComputedAgree
    <3>. QED BY <3>1, <3>2
  <2>2. ASSUME NEW u \in Thread, at'[u] = "finish"
        PROVE  parts'[Source(u)'][item'[u][2]].computed
    <3>1. u \in Notifier /\ at[u] = "finish" /\ Source(u)' = Source(u) /\ item'[u] = item[u]
      BY <1>0, <2>2 DEF Notifier, Source
    <3>2. Source(u) \in Caller \ {c}
      BY <1>5, <3>1, ItemOf DEF Busy
    <3>3. parts'[Source(u)] = parts[Source(u)]
      BY <1>1, <3>2
    <3>. QED BY <1>0, <3>1, <3>3 DEF ComputedAgree
  <2>. QED BY <2>1, <2>2 DEF ComputedAgree
<1>13. TilesAgree'
  <2>. SUFFICES ASSUME NEW e \in Caller, NEW i \in 1..Len(parts'[e])
                PROVE  /\ parts'[e][i].from = Edge(size'[e], i - 1)
                       /\ parts'[e][i].to = Edge(size'[e], i)
                       /\ parts'[e][i].device = (first'[e] + i - 1) % Devices
    BY DEF TilesAgree, Edge, Base, PerDevice, Extra, Splits
  <2>1. e # c
    BY <1>3
  <2>2. parts'[e] = parts[e] /\ size'[e] = size[e] /\ first'[e] = first[e]
    BY <1>1, <2>1
  <2>. QED BY <2>2 DEF IInv, TilesAgree
<1>. QED BY <1>2, <1>8, <1>9, <1>10, <1>11, <1>12, <1>13 DEF IInv

LEMMA BeginBatchKeeps ==
  ASSUME IInv, NEW c \in Caller, BeginBatch(c)
  PROVE  IInv'
<1>0. /\ DemuxTypeOK /\ ThreadsAgree /\ PlacesAgree /\ ComputedAgree /\ CountsAgree /\ CallsAgree
      /\ call[c] = "out" /\ size[c] = 0 /\ ready[c] = -1 /\ parts[c] = << >> /\ Len(parts[c]) = 0
      /\ UNCHANGED <<parts, queue, at, item, closing, abort>>
  BY DEF IInv, BeginBatch, CallsAgree
<1>1. PICK n \in BatchSize[c] :
        /\ size' = [size EXCEPT ![c] = n] /\ ready' = [ready EXCEPT ![c] = WorkItems(n)]
        /\ first' = [first EXCEPT ![c] = startIndex]
        /\ startIndex' = (startIndex + (IF Extra(n) > 1 THEN Extra(n) ELSE 1)) % Devices
        /\ call' = [call EXCEPT ![c] = "send"]
  BY DEF BeginBatch, Goto, CountStored
<1>2. /\ n \in Nat \ {0} /\ WorkItems(n) \in 1..Devices /\ WorkItems(n) \in Nat \ {0}
      /\ WorkItems(n) <= Devices /\ Extra(n) \in Nat
  <2>1. n \in Nat \ {0}
    BY DemuxAssumption
  <2>2. WorkItems(n) \in 1..Devices /\ Extra(n) \in 0..(Devices - 1)
    BY <2>1, Splitting
  <2>. QED BY <2>1, <2>2, Items
<1>3. /\ call' \in [Caller -> {"out", "send", "test", "drowsy", "asleep", "done"}]
      /\ size' \in [Caller -> Nat] /\ ready' \in [Caller -> -1..Devices]
      /\ first' \in [Caller -> Device]
      /\ call'[c] = "send" /\ size'[c] = n /\ ready'[c] = WorkItems(n)
      /\ \A e \in Caller \ {c} : /\ call'[e] = call[e] /\ size'[e] = size[e]
                                 /\ first'[e] = first[e] /\ ready'[e] = ready[e]
  <2>1. /\ call \in [Caller -> {"out", "send", "test", "drowsy", "asleep", "done"}]
        /\ size \in [Caller -> Nat] /\ ready \in [Caller -> -1..Devices]
        /\ first \in [Caller -> Device] /\ startIndex \in Device
    BY <1>0 DEF DemuxTypeOK
  <2>2. WorkItems(n) \in -1..Devices
    BY <1>2, Items
  <2>. QED BY <1>1, <1>2, <2>1, <2>2
<1>4. startIndex' \in Device
  <2>. DEFINE x == IF Extra(n) > 1 THEN Extra(n) ELSE 1
  <2>1. startIndex \in Nat /\ x \in Nat
    BY <1>0, <1>2, Items DEF DemuxTypeOK
  <2>2. startIndex' = (startIndex + x) % Devices
    BY <1>1
  <2>. HIDE DEF x
  <2>3. startIndex + x \in Nat
    BY <2>1
  <2>. QED BY <2>2, <2>3, Items, DivMod
<1>5. DemuxTypeOK'
  BY <1>0, <1>3, <1>4 DEF DemuxTypeOK
<1>6. /\ \A e \in Caller, i \in Int : /\ InQueue(e, i)' <=> InQueue(e, i)
                                      /\ InHands(e, i)' <=> InHands(e, i)
      /\ \A e \in Caller \ {c} : \A i \in Int : ToSend(e, i)' <=> ToSend(e, i)
      /\ \A i \in Int : ToSend(c, i)' <=> i > 0
  BY <1>0, <1>3 DEF InQueue, InHands, ToSend
<1>7. /\ Left(c) = {} /\ \A m \in Notifier : Source(m) # c
  BY <1>0, NothingLeft
<1>8. /\ Left(c)' = 1..WorkItems(n) /\ Cardinality(Left(c)') = WorkItems(n)
      /\ \A e \in Caller \ {c} : Left(e)' = Left(e)
  <2>1. Left(c)' = 1..WorkItems(n)
    BY <1>2, <1>3, <1>6 DEF Left
  <2>2. \A e \in Caller \ {c} : Left(e)' = Left(e)
    BY <1>3, <1>6 DEF Left
  <2>3. Cardinality(1..WorkItems(n)) = WorkItems(n)
    BY <1>2, FS_Interval
  <2>. QED BY <2>1, <2>2, <2>3
<1>9. ThreadsAgree'
  BY <1>0 DEF ThreadsAgree, NoItem
<1>10. CallsAgree'
  <2>1. Len(parts'[c]) < WorkItems(size'[c])
    BY <1>0, <1>2, <1>3
  <2>2. \A e \in Caller \ {c} :
          /\ call'[e] = "out" => size'[e] = 0 /\ ready'[e] = -1 /\ parts'[e] = << >>
          /\ call'[e] # "out" => size'[e] # 0
          /\ call'[e] = "send" => Len(parts'[e]) < WorkItems(size'[e])
          /\ call'[e] \notin {"out", "send"} => Len(parts'[e]) = WorkItems(size'[e])
          /\ call'[e] = "done" => ready'[e] <= 0
    BY <1>0, <1>3, ZenonT(60) DEF CallsAgree
  <2>3. size'[c] # 0
    BY <1>2, <1>3
  <2>. QED BY <1>3, <2>1, <2>2, <2>3 DEF CallsAgree
<1>11. PlacesAgree'
  <2>1. \A i \in 1..Devices : i \in Int
    BY Items
  <2>. QED BY <1>0, <1>6, <2>1 DEF PlacesAgree
<1>12. CountsAgree'
  <2>1. \A m \in Notifier : Source(m)' = Source(m)
    BY <1>0 DEF Source
  <2>2. \A m \in Notifier : at[m] \in Telling => Source(m) \in Caller \ {c}
    BY <1>7, ItemOf
  <2>3. ASSUME NEW e \in Caller
        PROVE  /\ ready'[e] > 0 => Cardinality(Left(e)') = ready'[e]
               /\ ready'[e] <= 0 => Left(e)' = {}
    <3>1. CASE e = c
      BY <1>2, <1>3, <1>8, <3>1
    <3>2. CASE e # c
      BY <1>0, <1>3, <1>8, <3>2 DEF CountsAgree
    <3>. QED BY <3>1, <3>2
  <2>4. \A m \in Notifier : at'[m] \in Telling => ready'[Source(m)'] = 0
    BY <1>0, <1>3, <2>1, <2>2 DEF CountsAgree
  <2>5. \A l, m \in Notifier :
          at'[l] \in Telling /\ at'[m] \in Telling /\ Source(l)' = Source(m)' => l = m
    BY <1>0, <2>1 DEF CountsAgree
  <2>6. ASSUME NEW e \in Caller, ready'[e] = 0
        PROVE  \E m \in Notifier : at'[m] \in Telling /\ Source(m)' = e
    <3>1. e # c /\ ready[e] = 0
      BY <1>2, <1>3, <2>6
    <3>. QED BY <1>0, <2>1, <3>1 DEF CountsAgree
  <2>. QED BY <2>3, <2>4, <2>5, <2>6 DEF CountsAgree
<1>13. ComputedAgree'
  <2>1. ASSUME NEW e \in Caller, NEW i \in 1..Len(parts'[e])
        PROVE  i \in Left(e)' \/ parts'[e][i].computed \/ abort'
    <3>1. CASE e = c
      BY <1>0, <2>1, <3>1
    <3>2. CASE e # c
      BY <1>0, <1>8, <2>1, <3>2 DEF ComputedAgree
    <3>. QED BY <3>1, <3>2
  <2>. QED BY <1>0, <2>1 DEF ComputedAgree, Source
<1>14. TilesAgree'
  <2>. SUFFICES ASSUME NEW e \in Caller, NEW i \in 1..Len(parts'[e])
                PROVE  /\ parts'[e][i].from = Edge(size'[e], i - 1)
                       /\ parts'[e][i].to = Edge(size'[e], i)
                       /\ parts'[e][i].device = (first'[e] + i - 1) % Devices
    BY DEF TilesAgree, Edge, Base, PerDevice, Extra, Splits
  <2>1. e # c
    BY <1>0
  <2>2. parts'[e] = parts[e] /\ size'[e] = size[e] /\ first'[e] = first[e]
    BY <1>0, <1>3, <2>1
  <2>. QED BY <2>2 DEF IInv, TilesAgree
<1>. QED BY <1>5, <1>9, <1>10, <1>11, <1>12, <1>13, <1>14 DEF IInv

LEMMA SendPartKeeps ==
  ASSUME IInv, NEW c \in Caller, SendPart(c)
  PROVE  IInv'
<1>. DEFINE P == [device : Device, from : Nat, to : Nat, computed : BOOLEAN]
            k == Len(parts[c])
            j == k + 1
            n == size[c]
            d == (first[c] + j - 1) % Devices
            from == IF j = 1 THEN 0 ELSE parts[c][j - 1].to
            to == Least(from + SplitSize(n, j) * Step, n)
            x == [device |-> d, from |-> from, to |-> to, computed |-> FALSE]
            next == IF j = WorkItems(n) THEN "test" ELSE "send"
<1>0. /\ DemuxTypeOK /\ ThreadsAgree /\ PlacesAgree /\ ComputedAgree /\ CountsAgree /\ CallsAgree
      /\ Thread \subseteq Notifier /\ Owner \in Notifier
  BY DEF IInv, Notifier
<1>1. /\ call[c] = "send" /\ parts' = [parts EXCEPT ![c] = Append(parts[c], x)]
      /\ queue' = [queue EXCEPT ![d] = Append(@, <<c, j>>)]
      /\ call' = [call EXCEPT ![c] = next]
      /\ \/ at' = at
         \/ \E t \in Asleep(d) : at' = [at EXCEPT ![t] = "look"]
      /\ UNCHANGED <<size, ready, first, item, closing, startIndex, abort>>
  BY DEF SendPart, Goto
<1>2. /\ k \in Nat /\ j \in Nat \ {0} /\ n \in Nat \ {0} /\ WorkItems(n) \in 1..Devices
      /\ j <= WorkItems(n) /\ j \in 1..Devices /\ j \in 1..WorkItems(n) /\ j - 1 = k
  <2>1. k \in Nat /\ n \in Nat \ {0} /\ WorkItems(n) \in 1..Devices
    BY <1>1, SizeOf
  <2>2. k < WorkItems(n)
    BY <1>0, <1>1 DEF CallsAgree
  <2>. HIDE DEF k, n
  <2>. QED BY <2>1, <2>2, Items
<1>3. d \in Device
  <2>1. first[c] \in Nat
    BY <1>0, Items DEF DemuxTypeOK
  <2>. HIDE DEF k
  <2>2. first[c] + j - 1 \in Nat
    BY <1>2, <2>1
  <2>. QED BY <2>2, Items, DivMod
<1>4. from = Edge(n, j - 1) /\ to = Edge(n, j) /\ from \in Nat /\ to \in Nat
  <2>1. from = Edge(n, j - 1)
    <3>1. CASE j = 1
      <4>1. j - 1 = 0
        BY <3>1
      <4>. QED BY <1>2, <3>1, <4>1, Edges
    <3>2. CASE j # 1
      <4>1. k \in 1..Len(parts[c])
        BY <1>2, <3>2
      <4>2. parts[c][k].to = Edge(n, k)
        BY <4>1 DEF IInv, TilesAgree
      <4>. QED BY <1>2, <3>2, <4>2
    <3>. QED BY <3>1, <3>2
  <2>. HIDE DEF from, j, n
  <2>2. to = Edge(n, j)
    BY <1>2, <2>1, Edges
  <2>3. j - 1 \in Nat /\ j \in Nat
    BY <1>2
  <2>. QED BY <1>2, <2>1, <2>2, <2>3, Edges
<1>5. /\ x \in P /\ x.from = Edge(n, k) /\ x.to = Edge(n, j)
      /\ x.device = (first[c] + j - 1) % Devices
  <2>1. x \in P /\ x.from = from /\ x.to = to /\ x.device = d
    <3>. HIDE DEF d, from, to
    <3>. QED BY <1>3, <1>4
  <2>. QED BY <1>2, <1>4, <2>1
<1>6. /\ parts' \in [Caller -> Seq(P)] /\ Len(parts'[c]) = j /\ parts'[c][j] = x
      /\ \A i \in 1..k : parts'[c][i] = parts[c][i]
      /\ \A e \in Caller \ {c} : parts'[e] = parts[e]
  <2>. DEFINE q == parts[c]
  <2>1. parts \in [Caller -> Seq(P)]
    BY <1>0 DEF DemuxTypeOK
  <2>. HIDE DEF P, x
  <2>2. q \in Seq(P) /\ parts' = [parts EXCEPT ![c] = Append(q, x)]
    BY <1>1, <2>1
  <2>. HIDE DEF q
  <2>3. /\ Append(q, x) \in Seq(P) /\ Len(Append(q, x)) = Len(q) + 1
        /\ \A i \in 1..Len(q) : Append(q, x)[i] = q[i]
        /\ Append(q, x)[Len(q) + 1] = x
    BY <1>5, <2>2, AppendProperties
  <2>4. parts' \in [Caller -> Seq(P)] /\ parts'[c] = Append(q, x)
        /\ \A e \in Caller \ {c} : parts'[e] = parts[e]
    BY <2>1, <2>2, <2>3
  <2>. QED BY <2>3, <2>4 DEF q
<1>. HIDE DEF x, from, to, d, n, j, k
<1>7. /\ queue' \in [Device -> Seq(Caller \X (1..Devices))]
      /\ \A e \in Device \ {d} : queue'[e] = queue[e]
      /\ Len(queue[d]) \in Nat /\ Len(queue'[d]) = Len(queue[d]) + 1
      /\ \A i \in 1..Len(queue[d]) : queue'[d][i] = queue[d][i]
      /\ queue'[d][Len(queue[d]) + 1] = <<c, j>>
  <2>. DEFINE I == Caller \X (1..Devices)
              q == queue[d]
              y == <<c, j>>
  <2>1. queue \in [Device -> Seq(I)] /\ y \in I
    BY <1>0, <1>2 DEF DemuxTypeOK
  <2>. HIDE DEF I, y
  <2>2. q \in Seq(I) /\ queue' = [queue EXCEPT ![d] = Append(q, y)]
    BY <1>1, <1>3, <2>1 DEF y
  <2>. HIDE DEF q
  <2>3. /\ Append(q, y) \in Seq(I) /\ Len(Append(q, y)) = Len(q) + 1
        /\ \A i \in 1..Len(q) : Append(q, y)[i] = q[i]
        /\ Append(q, y)[Len(q) + 1] = y /\ Len(q) \in Nat
    BY <2>1, <2>2, AppendProperties, LenProperties
  <2>4. queue' \in [Device -> Seq(I)] /\ queue'[d] = Append(q, y)
        /\ \A e \in Device \ {d} : queue'[e] = queue[e]
    BY <1>3, <2>1, <2>2, <2>3
  <2>. QED BY <2>3, <2>4 DEF q, I, y
<1>8. /\ at' \in [Notifier -> {"open", "wake", "join", "drain", "gone", "look", "drowsy",
                               "asleep", "compute", "finish", "notify", "mark", "exit"}]
      /\ \A m \in Notifier : at'[m] = at[m] \/ (m # Owner /\ at[m] = "asleep" /\ at'[m] = "look")
  <2>1. at \in [Notifier -> {"open", "wake", "join", "drain", "gone", "look", "drowsy",
                             "asleep", "compute", "finish", "notify", "mark", "exit"}]
    BY <1>0 DEF DemuxTypeOK
  <2>2. \A t \in Asleep(d) : t \in Notifier /\ t # Owner /\ at[t] = "asleep"
    BY <1>0, Items DEF Asleep
  <2>. QED BY <1>1, <2>1, <2>2
<1>9. /\ call' \in [Caller -> {"out", "send", "test", "drowsy", "asleep", "done"}]
      /\ call'[c] = (IF j = WorkItems(n) THEN "test" ELSE "send")
      /\ \A e \in Caller \ {c} : call'[e] = call[e]
  <2>1. call \in [Caller -> {"out", "send", "test", "drowsy", "asleep", "done"}]
    BY <1>0 DEF DemuxTypeOK
  <2>. QED BY <1>1, <2>1
<1>10. DemuxTypeOK'
  BY <1>0, <1>1, <1>6, <1>7, <1>8, <1>9 DEF DemuxTypeOK
<1>11. \A m \in Notifier : /\ at'[m] \in Busy <=> at[m] \in Busy
                           /\ at'[m] \in Telling <=> at[m] \in Telling
                           /\ at'[m] = "finish" => at[m] = "finish"
  BY <1>8 DEF Busy, Telling
\* What is in the queues.
<1>12. ASSUME NEW e \in Device, NEW i \in 1..Len(queue'[e])
       PROVE  \/ i \in 1..Len(queue[e]) /\ queue'[e][i] = queue[e][i]
              \/ e = d /\ i = Len(queue[d]) + 1 /\ queue'[e][i] = <<c, j>>
  <2>1. CASE e = d
    <3>1. i \in 1..Len(queue[d]) \/ i = Len(queue[d]) + 1
      BY <1>7, <2>1
    <3>. QED BY <1>7, <2>1, <3>1
  <2>2. CASE e # d
    BY <1>7, <2>2
  <2>. QED BY <2>1, <2>2
<1>13. \A e \in Device : \A i \in 1..Len(queue[e]) :
         i \in 1..Len(queue'[e]) /\ queue'[e][i] = queue[e][i]
  <2>. TAKE e \in Device
  <2>. TAKE i \in 1..Len(queue[e])
  <2>1. CASE e = d
    BY <1>7, <2>1
  <2>2. CASE e # d
    BY <1>7, <2>2
  <2>. QED BY <2>1, <2>2
<1>14. ~InQueue(c, j) /\ ~InHands(c, j)
  BY <1>0, <1>2 DEF PlacesAgree, j, k
<1>15. \A e \in Caller, i \in Int :
         /\ InQueue(e, i)' <=> InQueue(e, i) \/ (e = c /\ i = j)
         /\ InHands(e, i)' <=> InHands(e, i)
  <2>. TAKE e \in Caller, i \in Int
  <2>1. InQueue(e, i)' => InQueue(e, i) \/ (e = c /\ i = j)
    <3>1. SUFFICES ASSUME NEW g \in Device, NEW l \in 1..Len(queue'[g]),
                          queue'[g][l] = <<e, i>>
                   PROVE  InQueue(e, i) \/ (e = c /\ i = j)
      BY DEF InQueue
    <3>2. \/ l \in 1..Len(queue[g]) /\ queue'[g][l] = queue[g][l]
          \/ queue'[g][l] = <<c, j>>
      BY <1>12
    <3>. QED BY <3>1, <3>2 DEF InQueue
  <2>2. InQueue(e, i) => InQueue(e, i)'
    BY <1>13 DEF InQueue
  <2>3. ASSUME e = c, i = j PROVE InQueue(e, i)'
    <3>1. Len(queue[d]) + 1 \in 1..Len(queue'[d])
      BY <1>7
    <3>2. \E g \in Device : \E l \in 1..Len(queue'[g]) : queue'[g][l] = <<e, i>>
      BY <1>3, <1>7, <2>3, <3>1
    <3>. QED BY <3>2 DEF InQueue
  <2>4. InHands(e, i)' <=> InHands(e, i)
    BY <1>1, <1>11 DEF InHands
  <2>. QED BY <2>1, <2>2, <2>3, <2>4
<1>16. \A e \in Caller : Left(e)' = Left(e)
  <2>1. \A e \in Caller \ {c} : Left(e)' = Left(e)
    BY <1>1, <1>6, <1>9, <1>15 DEF Left, ToSend
  <2>2. \A i \in 1..WorkItems(n) : ToSend(c, i)' <=> i > j
    BY <1>2, <1>6, <1>9 DEF ToSend
  <2>3. \A i \in 1..WorkItems(n) : ToSend(c, i) <=> i >= j
    BY <1>1, <1>2 DEF ToSend, j, k
  <2>4. \A i \in 1..WorkItems(n) : i \in Int /\ (i >= j <=> i > j \/ i = j)
    BY <1>2
  <2>5. size'[c] = n /\ size[c] = n
    BY <1>1 DEF n
  <2>6. Left(c)' = Left(c)
    BY <1>15, <2>2, <2>3, <2>4, <2>5 DEF Left
  <2>. QED BY <2>1, <2>6
<1>17. ThreadsAgree'
  <2>1. \A u \in Thread : at'[u] \in {"look", "drowsy", "asleep", "exit"} \cup Busy \cup Telling
    BY <1>0, <1>8 DEF ThreadsAgree
  <2>2. at'[Owner] = at[Owner]
    BY <1>0, <1>8
  <2>3. \A m \in Notifier : at'[m] \in Busy \cup Telling <=> item'[m] # NoItem
    BY <1>0, <1>1, <1>11 DEF ThreadsAgree
  <2>. QED BY <1>0, <1>1, <2>1, <2>2, <2>3 DEF ThreadsAgree, NoItem
<1>18. CallsAgree'
  <2>1. \A e \in Caller \ {c} :
          /\ call'[e] = "out" => size'[e] = 0 /\ ready'[e] = -1 /\ parts'[e] = << >>
          /\ call'[e] # "out" => size'[e] # 0
          /\ call'[e] = "send" => Len(parts'[e]) < WorkItems(size'[e])
          /\ call'[e] \notin {"out", "send"} => Len(parts'[e]) = WorkItems(size'[e])
          /\ call'[e] = "done" => ready'[e] <= 0
    BY <1>0, <1>1, <1>6, <1>9 DEF CallsAgree
  <2>2. size'[c] = n /\ n # 0 /\ Len(parts'[c]) = j
    BY <1>1, <1>2, <1>6 DEF n
  <2>3. j = WorkItems(n) \/ j < WorkItems(n)
    BY <1>2
  <2>. QED BY <1>9, <2>1, <2>2, <2>3 DEF CallsAgree
<1>19. PlacesAgree'
  <2>1. ASSUME NEW e \in Caller, NEW i \in 1..Devices, InQueue(e, i)' \/ InHands(e, i)'
        PROVE  i <= Len(parts'[e])
    <3>1. i \in Int
      BY Items
    <3>2. CASE InQueue(e, i) \/ InHands(e, i)
      <4>1. i <= Len(parts[e])
        BY <1>0, <3>2 DEF PlacesAgree
      <4>2. CASE e = c
        <5>1. i <= k
          BY <4>1, <4>2 DEF k
        <5>. QED BY <1>2, <1>6, <3>1, <4>2, <5>1
      <4>3. CASE e # c
        BY <1>6, <4>1, <4>3
      <4>. QED BY <4>2, <4>3
    <3>3. CASE e = c /\ i = j
      BY <1>2, <1>6, <3>3
    <3>. QED BY <1>15, <2>1, <3>1, <3>2, <3>3
  <2>2. ASSUME NEW e \in Device, NEW i \in 1..Len(queue[e]) PROVE queue[e][i] # <<c, j>>
    BY <1>14 DEF InQueue
  <2>3. ASSUME NEW e \in Device, NEW g \in Device,
               NEW i \in 1..Len(queue'[e]), NEW l \in 1..Len(queue'[g]),
               queue'[e][i] = queue'[g][l]
        PROVE  e = g /\ i = l
    <3>1. \/ i \in 1..Len(queue[e]) /\ queue'[e][i] = queue[e][i]
          \/ e = d /\ i = Len(queue[d]) + 1 /\ queue'[e][i] = <<c, j>>
      BY <1>12
    <3>2. \/ l \in 1..Len(queue[g]) /\ queue'[g][l] = queue[g][l]
          \/ g = d /\ l = Len(queue[d]) + 1 /\ queue'[g][l] = <<c, j>>
      BY <1>12
    <3>. QED BY <1>0, <2>2, <2>3, <3>1, <3>2, SMTT(30) DEF PlacesAgree
  <2>4. \A m \in Notifier : at[m] \in Busy => item[m] # <<c, j>>
    BY <1>14 DEF InHands
  <2>5. ASSUME NEW m \in Notifier, at'[m] \in Busy, NEW e \in Device, NEW i \in 1..Len(queue'[e])
        PROVE  queue'[e][i] # item'[m]
    <3>1. at[m] \in Busy /\ item'[m] = item[m]
      BY <1>1, <1>11, <2>5
    <3>2. \/ i \in 1..Len(queue[e]) /\ queue'[e][i] = queue[e][i]
          \/ queue'[e][i] = <<c, j>>
      BY <1>12
    <3>. QED BY <1>0, <2>4, <3>1, <3>2 DEF PlacesAgree
  <2>6. \A l, m \in Notifier :
          at'[l] \in Busy /\ at'[m] \in Busy /\ item'[l] = item'[m] => l = m
    BY <1>0, <1>1, <1>11 DEF PlacesAgree
  <2>. QED BY <2>1, <2>3, <2>5, <2>6 DEF PlacesAgree
<1>20. CountsAgree'
  <2>1. \A m \in Notifier : Source(m)' = Source(m)
    BY <1>1 DEF Source
  <2>. QED BY <1>0, <1>1, <1>11, <1>16, <2>1 DEF CountsAgree
<1>21. j \in Left(c)'
  BY <1>1, <1>2, <1>15 DEF Left, n
<1>22. ComputedAgree'
  <2>1. ASSUME NEW e \in Caller, NEW i \in 1..Len(parts'[e])
        PROVE  i \in Left(e)' \/ parts'[e][i].computed \/ abort'
    <3>1. CASE e = c /\ i = j
      BY <1>21, <3>1
    <3>2. CASE e = c /\ i # j
      <4>1. i \in 1..k
        BY <1>2, <1>6, <3>2
      <4>. QED BY <1>0, <1>1, <1>6, <1>16, <3>2, <4>1 DEF ComputedAgree, k
    <3>3. CASE e # c
      BY <1>0, <1>1, <1>6, <1>16, <3>3 DEF ComputedAgree
    <3>. QED BY <3>1, <3>2, <3>3
  <2>2. ASSUME NEW u \in Thread, at'[u] = "finish"
        PROVE  parts'[Source(u)'][item'[u][2]].computed
    <3>1. u \in Notifier /\ at[u] = "finish" /\ Source(u)' = Source(u) /\ item'[u] = item[u]
      BY <1>0, <1>1, <1>11, <2>2 DEF Source
    <3>2. PICK e \in Caller, i \in 1..Devices : item[u] = <<e, i>> /\ e = Source(u)
                                              /\ i = item[u][2]
      BY <3>1, ItemOf DEF Busy
    <3>3. i \in 1..Len(parts[e])
      <4>1. InHands(e, i)
        BY <3>1, <3>2 DEF InHands, Busy
      <4>2. i <= Len(parts[e]) /\ Len(parts[e]) \in Nat /\ i \in Nat /\ i >= 1
        BY <1>0, <4>1, SizeOf, Items DEF PlacesAgree
      <4>. QED BY <4>2
    <3>4. parts[e][i].computed
      BY <1>0, <3>1, <3>2 DEF ComputedAgree
    <3>5. parts'[e][i] = parts[e][i]
      <4>1. CASE e = c
        BY <1>6, <3>3, <4>1 DEF k
      <4>2. CASE e # c
        BY <1>6, <4>2
      <4>. QED BY <4>1, <4>2
    <3>. QED BY <3>1, <3>2, <3>4, <3>5
  <2>. QED BY <2>1, <2>2 DEF ComputedAgree
<1>23. TilesAgree'
  <2>. SUFFICES ASSUME NEW e \in Caller, NEW i \in 1..Len(parts'[e])
                PROVE  /\ parts'[e][i].from = Edge(size[e], i - 1)
                       /\ parts'[e][i].to = Edge(size[e], i)
                       /\ parts'[e][i].device = (first[e] + i - 1) % Devices
    BY <1>1 DEF TilesAgree
  <2>1. CASE e = c /\ i = j
    BY <1>2, <1>5, <1>6, <2>1 DEF n
  <2>2. CASE e = c /\ i # j
    <3>1. i \in 1..k
      BY <1>2, <1>6, <2>2
    <3>2. parts'[e][i] = parts[e][i] /\ i \in 1..Len(parts[e])
      BY <1>6, <2>2, <3>1 DEF k
    <3>. QED BY <3>2 DEF IInv, TilesAgree
  <2>3. CASE e # c
    <3>1. parts'[e] = parts[e]
      BY <1>6, <2>3
    <3>. QED BY <3>1 DEF IInv, TilesAgree
  <2>. QED BY <2>1, <2>2, <2>3
<1>. QED BY <1>10, <1>17, <1>18, <1>19, <1>20, <1>22, <1>23 DEF IInv

-----------------------------------------------------------------------------
(* The invariant holds in every reachable state.                           *)
LEMMA Invariant == DemuxSpec => []IInv
<1>1. IInv /\ [DemuxNext]_demuxVars => IInv'
  <2>. SUFFICES ASSUME IInv, [DemuxNext]_demuxVars PROVE IInv'
    OBVIOUS
  <2>1. ASSUME NEW c \in Caller, BeginBatch(c) \/ CallerStep(c) PROVE IInv'
    BY <2>1, BeginBatchKeeps, SendPartKeeps, WaitingKeeps, DestroyKeeps DEF CallerStep
  <2>2. ASSUME NEW n \in Notifier, Complete(n) PROVE IInv'
    BY <2>2, CountDownKeeps, NotifyCallerKeeps, LetDestroyKeeps DEF Complete
  <2>3. ASSUME NEW t \in Thread, ThreadStep(t) PROVE IInv'
    <3>1. t \in Notifier
      BY DEF Notifier
    <3>. QED BY <2>2, <2>3, <3>1, LookKeeps, ThreadSleepsKeeps, ComputePartKeeps DEF ThreadStep
  <2>4. CASE Close \/ OwnerStep
    <3>1. Owner \in Notifier
      BY DEF Notifier
    <3>. QED BY <2>2, <2>4, <3>1, CloseKeeps, DrainKeeps DEF OwnerStep
  <2>5. CASE UNCHANGED demuxVars
    <3>1. /\ UNCHANGED <<call, size, ready, first, parts, queue, item>>
          /\ UNCHANGED <<at, closing, startIndex, abort>>
      BY <2>5 DEF demuxVars, requests
    <3>2. DemuxTypeOK' /\ ThreadsAgree'
      BY <3>1 DEF IInv, DemuxTypeOK, ThreadsAgree, NoItem
    <3>. QED BY <3>1, <3>2, QuietKeeps
  <2>. QED BY <2>1, <2>3, <2>4, <2>5 DEF DemuxNext
<1>. QED BY InitIInv, <1>1, PTL DEF DemuxSpec

-----------------------------------------------------------------------------
(* What the invariant says of counts, of computations that are gone and of *)
(* results.                                                                *)
LEMMA SameSize ==
  ASSUME NEW S, NEW T, IsFiniteSet(T), NEW f \in [S -> T],
         \A x, y \in S : f[x] = f[y] => x = y,
         \A z \in T : \E x \in S : f[x] = z
  PROVE  Cardinality(S) = Cardinality(T)
<1>1. f \in Injection(S, T) /\ f \in Surjection(S, T)
  BY DEF Injection, IsInjective, Surjection
<1>. QED BY <1>1, FS_Injection

LEMMA PartsCounted ==
  ASSUME IInv, NEW c \in Caller
  PROVE  Unsent(c) + Cardinality(Queued(c)) + Cardinality(Working(c))
           = IF ready[c] > 0 THEN ready[c] ELSE 0
<1>0. DemuxTypeOK /\ ThreadsAgree /\ PlacesAgree /\ CountsAgree /\ CallsAgree
  BY DEF IInv
<1>1. \A p \in Queued(c) : /\ p[1] \in Device /\ p[2] \in 1..Len(queue[p[1]]) /\ p = <<p[1], p[2]>>
                           /\ queue[p[1]][p[2]] = <<c, queue[p[1]][p[2]][2]>>
                           /\ queue[p[1]][p[2]][2] \in 1..Devices
  <2>. TAKE p \in Queued(c)
  <2>1. p \in UNION {{d} \X DOMAIN queue[d] : d \in Device} /\ queue[p[1]][p[2]][1] = c
    BY DEF Queued
  <2>2. PICK d \in Device : p \in {d} \X DOMAIN queue[d]
    BY <2>1
  <2>3. DOMAIN queue[d] = 1..Len(queue[d])
    <3>1. queue[d] \in Seq(Caller \X (1..Devices))
      BY <1>0 DEF DemuxTypeOK
    <3>. QED BY <3>1, LenProperties
  <2>4. p[1] = d /\ p[2] \in 1..Len(queue[d]) /\ p = <<p[1], p[2]>>
    BY <2>2, <2>3
  <2>5. queue[d][p[2]] \in Caller \X (1..Devices)
    BY <1>0, <2>4, QueueOf
  <2>. QED BY <2>1, <2>4, <2>5
<1>2. \A j : InQueue(c, j) => \E p \in Queued(c) : queue[p[1]][p[2]] = <<c, j>>
  <2>. SUFFICES ASSUME NEW j, NEW d \in Device, NEW i \in 1..Len(queue[d]), queue[d][i] = <<c, j>>
                PROVE  \E p \in Queued(c) : queue[p[1]][p[2]] = <<c, j>>
    BY DEF InQueue
  <2>1. queue[d] \in Seq(Caller \X (1..Devices))
    BY <1>0 DEF DemuxTypeOK
  <2>2. DOMAIN queue[d] = 1..Len(queue[d])
    BY <2>1, LenProperties
  <2>3. <<d, i>> \in Queued(c)
    BY <2>2 DEF Queued
  <2>. QED BY <2>3
<1>3. CASE call[c] = "out"
  <2>1. ready[c] = -1 /\ Unsent(c) = 0
    BY <1>0, <1>3 DEF CallsAgree, Unsent
  <2>2. /\ \A n \in Notifier : Source(n) # c
        /\ \A j \in 1..Devices : ~InQueue(c, j) /\ ~InHands(c, j)
    BY <1>3, <2>1, NothingLeft
  <2>3. Queued(c) = {}
    <3>. SUFFICES ASSUME NEW p \in Queued(c) PROVE FALSE
      OBVIOUS
    <3>1. InQueue(c, queue[p[1]][p[2]][2])
      BY <1>1 DEF InQueue
    <3>. QED BY <1>1, <2>2, <3>1
  <2>4. Working(c) = {}
    BY <2>2 DEF Working
  <2>. QED BY <2>1, <2>3, <2>4, FS_EmptySet
<1>4. CASE call[c] # "out"
  <2>. DEFINE n == size[c]
              w == WorkItems(n)
              U == {j \in 1..w : ToSend(c, j)}
              Q == {j \in 1..w : InQueue(c, j)}
              H == {j \in 1..w : InHands(c, j)}
  <2>1. /\ w \in Nat /\ w <= Devices /\ Len(parts[c]) \in Nat /\ Len(parts[c]) <= w
        /\ \A j \in 1..Devices : InQueue(c, j) \/ InHands(c, j) => j \in 1..w /\ j <= Len(parts[c])
    <3>1. w \in 1..Devices /\ Len(parts[c]) \in Nat /\ Len(parts[c]) <= w
      BY <1>4, SizeOf
    <3>. HIDE DEF w
    <3>2. \A j \in 1..Devices : InQueue(c, j) \/ InHands(c, j) => j <= Len(parts[c])
      BY <1>0 DEF PlacesAgree
    <3>. QED BY <3>1, <3>2, Items
  <2>2. Left(c) = U \cup (Q \cup H)
    BY DEF Left
  <2>3. IsFiniteSet(U) /\ IsFiniteSet(Q) /\ IsFiniteSet(H)
    <3>1. IsFiniteSet(1..w)
      BY <2>1, FS_Interval
    <3>. QED BY <3>1, FS_Subset
  <2>4. U \cap (Q \cup H) = {} /\ Q \cap H = {}
    <3>1. U \cap (Q \cup H) = {}
      <4>. SUFFICES ASSUME NEW j \in U, j \in Q \cup H PROVE FALSE
        OBVIOUS
      <4>1. j \in 1..Devices /\ j > Len(parts[c]) /\ (InQueue(c, j) \/ InHands(c, j))
        BY <2>1, Items DEF ToSend
      <4>. HIDE DEF w
      <4>. QED BY <2>1, <4>1, Items
    <3>2. Q \cap H = {}
      BY <1>0 DEF PlacesAgree, InQueue, InHands
    <3>. QED BY <3>1, <3>2
  <2>5. Cardinality(U) = Unsent(c)
    <3>1. CASE call[c] = "send"
      <4>. DEFINE l == Len(parts[c])
      <4>1. U = (l + 1)..w
        BY <2>1, <3>1 DEF ToSend
      <4>2. Unsent(c) = w - l
        BY <3>1 DEF Unsent
      <4>3. l \in Nat /\ l <= w
        BY <2>1
      <4>. HIDE DEF l, w, U
      <4>4. l + 1 \in Int /\ w \in Int
        BY <2>1, <4>3
      <4>5. Cardinality((l + 1)..w) = IF l + 1 > w THEN 0 ELSE w - (l + 1) + 1
        BY <4>4, FS_Interval
      <4>. QED BY <2>1, <4>1, <4>2, <4>3, <4>5
    <3>2. CASE call[c] # "send"
      <4>1. U = {} /\ Unsent(c) = 0
        BY <3>2 DEF ToSend, Unsent
      <4>. QED BY <4>1, FS_EmptySet
    <3>. QED BY <3>1, <3>2
  <2>6. Cardinality(Queued(c)) = Cardinality(Q)
    <3>. DEFINE f == [p \in Queued(c) |-> queue[p[1]][p[2]][2]]
    <3>1. f \in [Queued(c) -> Q]
      <4>. SUFFICES ASSUME NEW p \in Queued(c) PROVE queue[p[1]][p[2]][2] \in Q
        OBVIOUS
      <4>1. InQueue(c, queue[p[1]][p[2]][2]) /\ queue[p[1]][p[2]][2] \in 1..Devices
        BY <1>1 DEF InQueue
      <4>. QED BY <2>1, <4>1
    <3>2. ASSUME NEW p \in Queued(c), NEW q \in Queued(c), f[p] = f[q] PROVE p = q
      <4>1. queue[p[1]][p[2]] = queue[q[1]][q[2]]
        BY <1>1, <3>2
      <4>2. p[1] = q[1] /\ p[2] = q[2]
        BY <1>0, <1>1, <4>1 DEF PlacesAgree
      <4>. QED BY <1>1, <4>2
    <3>3. ASSUME NEW j \in Q PROVE \E p \in Queued(c) : f[p] = j
      <4>1. PICK p \in Queued(c) : queue[p[1]][p[2]] = <<c, j>>
        BY <1>2
      <4>. QED BY <4>1
    <3>. HIDE DEF f, Q
    <3>. QED BY <2>3, <3>1, <3>2, <3>3, SameSize
  <2>7. Cardinality(Working(c)) = Cardinality(H)
    <3>. DEFINE f == [m \in Working(c) |-> item[m][2]]
    <3>0. \A m \in Working(c) : /\ m \in Notifier /\ at[m] \in Busy /\ item[m] = <<c, item[m][2]>>
                                /\ item[m][2] \in 1..Devices
      BY ItemOf DEF Working, Busy
    <3>1. f \in [Working(c) -> H]
      <4>. SUFFICES ASSUME NEW m \in Working(c) PROVE item[m][2] \in H
        OBVIOUS
      <4>1. InHands(c, item[m][2]) /\ item[m][2] \in 1..Devices
        BY <3>0 DEF InHands
      <4>. QED BY <2>1, <4>1
    <3>2. ASSUME NEW l \in Working(c), NEW m \in Working(c), f[l] = f[m] PROVE l = m
      <4>1. item[l] = item[m]
        BY <3>0, <3>2
      <4>. QED BY <1>0, <3>0, <4>1 DEF PlacesAgree
    <3>3. ASSUME NEW j \in H PROVE \E m \in Working(c) : f[m] = j
      <4>1. PICK m \in Notifier : at[m] \in Busy /\ item[m] = <<c, j>>
        BY DEF InHands
      <4>2. m \in Working(c)
        BY <4>1 DEF Working, Source, Busy
      <4>. QED BY <4>1, <4>2
    <3>. HIDE DEF f, H
    <3>. QED BY <2>3, <3>1, <3>2, <3>3, SameSize
  <2>8. Cardinality(Left(c)) = Cardinality(U) + Cardinality(Q) + Cardinality(H)
    <3>. HIDE DEF U, Q, H
    <3>1. IsFiniteSet(Q \cup H) /\ Cardinality(Q \cup H) = Cardinality(Q) + Cardinality(H) - 0
      BY <2>3, <2>4, FS_Union, FS_EmptySet
    <3>2. Cardinality(U \cup (Q \cup H)) = Cardinality(U) + Cardinality(Q \cup H) - 0
      BY <2>3, <2>4, <3>1, FS_Union, FS_EmptySet
    <3>3. Cardinality(U) \in Nat /\ Cardinality(Q) \in Nat /\ Cardinality(H) \in Nat
      BY <2>3, FS_CardinalityType
    <3>. QED BY <2>2, <3>1, <3>2, <3>3
  <2>9. Cardinality(Left(c)) = IF ready[c] > 0 THEN ready[c] ELSE 0
    <3>1. ready[c] \in -1..Devices
      BY <1>0 DEF DemuxTypeOK
    <3>2. CASE ready[c] > 0
      BY <1>0, <3>2 DEF CountsAgree
    <3>3. CASE ~(ready[c] > 0)
      <4>1. Left(c) = {}
        BY <1>0, <3>1, <3>3, Items DEF CountsAgree
      <4>2. Cardinality({}) = 0
        BY FS_EmptySet
      <4>. QED BY <3>3, <4>1, <4>2
    <3>. QED BY <3>2, <3>3
  <2>. HIDE DEF U, Q, H
  <2>. QED BY <2>5, <2>6, <2>7, <2>8, <2>9
<1>. QED BY <1>3, <1>4

LEMMA TellersCounted ==
  ASSUME IInv, NEW c \in Caller
  PROVE  Cardinality(Notifying(c)) = IF ready[c] = 0 THEN 1 ELSE 0
<1>0. CountsAgree
  BY DEF IInv
<1>1. CASE ready[c] = 0
  <2>1. PICK n \in Notifier : at[n] \in Telling /\ Source(n) = c
    BY <1>0, <1>1 DEF CountsAgree
  <2>2. Notifying(c) = {n}
    BY <1>0, <2>1 DEF CountsAgree, Notifying, Telling
  <2>. QED BY <1>1, <2>2, FS_Singleton
<1>2. CASE ready[c] # 0
  <2>1. Notifying(c) = {}
    BY <1>0, <1>2 DEF CountsAgree, Notifying, Telling
  <2>. QED BY <1>2, <2>1, FS_EmptySet
<1>. QED BY <1>1, <1>2

LEMMA ResultsOf ==
  ASSUME IInv, NEW c \in Caller, call[c] = "done"
  PROVE  /\ \A s \in 0..(size[c] - 1) :
              Cardinality({j \in DOMAIN parts[c] :
                             parts[c][j].from <= s /\ s < parts[c][j].to}) = 1
         /\ \A i, j \in DOMAIN parts[c] :
              /\ i < j => /\ parts[c][i].to <= parts[c][j].from
                          /\ parts[c][i].device # parts[c][j].device
              /\ parts[c][i].from < parts[c][i].to
              /\ parts[c][i].computed \/ abort
<1>. DEFINE n == size[c]
            w == WorkItems(n)
<1>1. n \in Nat \ {0} /\ w \in 1..Devices /\ w \in Nat /\ w <= Devices /\ Devices \in Nat \ {0}
  <2>1. n \in Nat \ {0} /\ w \in 1..Devices
    BY SizeOf
  <2>. HIDE DEF n, w
  <2>. QED BY <2>1, Items
<1>2. Len(parts[c]) = w /\ DOMAIN parts[c] = 1..w
  <2>1. parts[c] \in Seq([device : Device, from : Nat, to : Nat, computed : BOOLEAN])
    BY DEF IInv, DemuxTypeOK
  <2>2. Len(parts[c]) = w
    BY DEF IInv, CallsAgree
  <2>. QED BY <2>1, <2>2, LenProperties
<1>3. first[c] \in Nat
  BY Items DEF IInv, DemuxTypeOK
<1>4. \A i \in 1..w : /\ parts[c][i].from = Edge(n, i - 1) /\ parts[c][i].to = Edge(n, i)
                      /\ parts[c][i].device = (first[c] + i - 1) % Devices
  BY <1>2 DEF IInv, TilesAgree
<1>5. ASSUME NEW s \in 0..(size[c] - 1)
      PROVE  Cardinality({j \in DOMAIN parts[c] :
                            parts[c][j].from <= s /\ s < parts[c][j].to}) = 1
  <2>. DEFINE X == {j \in DOMAIN parts[c] : parts[c][j].from <= s /\ s < parts[c][j].to}
              Y == {i \in 1..w : Edge(n, i - 1) <= s /\ s < Edge(n, i)}
  <2>1. X = Y
    BY <1>2, <1>4
  <2>2. \E j \in 1..w : Y = {j}
    BY <1>1, OnePart
  <2>. HIDE DEF X, Y
  <2>3. Cardinality(X) = 1
    BY <2>1, <2>2, FS_Singleton
  <2>. QED BY <2>3 DEF X
<1>. HIDE DEF n, w
<1>6. ASSUME NEW i \in 1..w, NEW j \in 1..w, i < j
      PROVE  parts[c][i].to <= parts[c][j].from /\ parts[c][i].device # parts[c][j].device
  <2>1. i \in Nat /\ j - 1 \in Nat /\ i <= j - 1
    BY <1>1, <1>6
  <2>2. Edge(n, i) <= Edge(n, j - 1)
    BY <1>1, <2>1, Edges
  <2>. DEFINE a == first[c] + i - 1
              b == first[c] + j - 1
  <2>3. a \in Nat /\ b \in Nat /\ a < b /\ b < a + Devices
    BY <1>1, <1>3, <1>6
  <2>4. a % Devices # b % Devices
    <3>. HIDE DEF a, b
    <3>. QED BY <1>1, <2>3, ApartModulo
  <2>. QED BY <1>4, <2>2, <2>4
<1>7. \A i \in 1..w : parts[c][i].from < parts[c][i].to
  <2>1. \A i \in 1..w : Edge(n, i - 1) < Edge(n, i)
    BY <1>1, Edges DEF w
  <2>. QED BY <1>4, <2>1
<1>8. \A i \in 1..w : parts[c][i].computed \/ abort
  <2>1. Left(c) = {}
    BY DEF IInv, CallsAgree, CountsAgree
  <2>. QED BY <1>2, <2>1 DEF IInv, ComputedAgree
<1>. QED BY <1>2, <1>5, <1>6, <1>7, <1>8

(* The network's state is consistent in every reachable state: the count   *)
(* of each call is what is outstanding of its batch, and one thread tells  *)
(* the caller when it is 0; nobody has a pointer to a computation that is  *)
(* gone; and a call that returns has each input in one computed part, and  *)
(* gave no device more than one part.                                      *)
THEOREM Consistent == DemuxSpec => []DemuxInv
<1>1. ASSUME IInv PROVE DemuxInv
  <2>1. DemuxTypeOK
    BY <1>1 DEF IInv
  <2>2. PartsAccounted
    BY <1>1, PartsCounted, TellersCounted DEF PartsAccounted
  <2>3. NobodyTouchesTheDead
    <3>. SUFFICES ASSUME NEW c \in Caller, call[c] = "out"
                  PROVE  /\ \A n \in Notifier : Source(n) # c
                         /\ \A d \in Device : \A i \in DOMAIN queue[d] : queue[d][i][1] # c
      BY DEF NobodyTouchesTheDead
    <3>1. /\ \A n \in Notifier : Source(n) # c
          /\ \A j \in 1..Devices : ~InQueue(c, j)
      <4>1. ready[c] = -1
        BY <1>1 DEF IInv, CallsAgree
      <4>. QED BY <1>1, <4>1, NothingLeft
    <3>2. ASSUME NEW d \in Device, NEW i \in DOMAIN queue[d] PROVE queue[d][i][1] # c
      <4>1. queue[d] \in Seq(Caller \X (1..Devices))
        BY <2>1 DEF DemuxTypeOK
      <4>2. i \in 1..Len(queue[d])
        BY <4>1, LenProperties
      <4>3. queue[d][i] \in Caller \X (1..Devices)
        BY <2>1, <4>2, QueueOf
      <4>. QED BY <3>1, <4>2, <4>3 DEF InQueue
    <3>. QED BY <3>1, <3>2
  <2>4. ResultsComplete
    BY <1>1, ResultsOf DEF ResultsComplete
  <2>. QED BY <2>1, <2>2, <2>3, <2>4 DEF DemuxInv
<1>. QED BY Invariant, <1>1, PTL

-----------------------------------------------------------------------------
(* Refinement of BatchService.                                             *)
Phases == [c \in Caller |-> Phase(c)]

LEMMA NoPhaseMoves ==
  ASSUME \A c \in Caller : Phase(c)' = Phase(c), abort' = abort
  PROVE  UNCHANGED <<Phases, ~abort>>
  BY DEF Phases

LEMMA OnePhaseMoves ==
  ASSUME NEW c \in Caller, NEW to, Phase(c)' = to,
         \A d \in Caller \ {c} : Phase(d)' = Phase(d)
  PROVE  Phases' = [Phases EXCEPT ![c] = to]
<1>1. Phases' = [d \in Caller |-> Phase(d)']
  BY DEF Phases
<1>2. [Phases EXCEPT ![c] = to] = [d \in Caller |-> IF d = c THEN to ELSE Phase(d)]
  BY DEF Phases
<1>3. \A d \in Caller : Phase(d)' = IF d = c THEN to ELSE Phase(d)
  OBVIOUS
<1>. QED BY <1>1, <1>2, <1>3

LEMMA PhaseOf ==
  ASSUME NEW c \in Caller
  PROVE  Phases[c] = Phase(c)
  BY DEF Phases

\* Whose part is not counted down waits for it.
LEMMA AskedWhileLeft ==
  ASSUME IInv, NEW c \in Caller,
         call[c] = "send" \/ \E n \in Notifier : at[n] \in Busy /\ Source(n) = c
  PROVE  size[c] # 0 /\ ready[c] > 0 /\ ready[c] \in Nat /\ Phase(c) = "asked"
<1>0. DemuxTypeOK /\ PlacesAgree /\ CountsAgree /\ CallsAgree
  BY DEF IInv
<1>1. \E j \in 1..Devices : call[c] # "out" /\ j \in Left(c)
  <2>1. CASE call[c] = "send"
    <3>. DEFINE l == Len(parts[c])
                w == WorkItems(size[c])
    <3>1. l \in Nat /\ w \in 1..Devices /\ l < w
      BY <1>0, <2>1, SizeOf DEF CallsAgree
    <3>2. ToSend(c, l + 1)
      BY <2>1, <3>1 DEF ToSend
    <3>. HIDE DEF l
    <3>3. l + 1 \in 1..w /\ l + 1 \in 1..Devices
      <4>. HIDE DEF w
      <4>. QED BY <3>1, Items
    <3>. QED BY <2>1, <3>2, <3>3 DEF Left
  <2>2. CASE \E n \in Notifier : at[n] \in Busy /\ Source(n) = c
    <3>1. PICK n \in Notifier : at[n] \in Busy /\ Source(n) = c
      BY <2>2
    <3>2. PICK j \in 1..Devices : item[n] = <<c, j>>
      BY <3>1, ItemOf
    <3>3. InHands(c, j)
      BY <3>1, <3>2 DEF InHands
    <3>4. j <= Len(parts[c]) /\ Len(parts[c]) \in Nat /\ j \in Nat /\ j >= 1
      BY <1>0, <3>3, SizeOf, Items DEF PlacesAgree
    <3>5. call[c] # "out"
      <4>1. Len(<< >>) = 0
        OBVIOUS
      <4>. QED BY <1>0, <3>4, <4>1 DEF CallsAgree
    <3>6. j \in 1..WorkItems(size[c])
      BY <3>4, <3>5, SizeOf, Items
    <3>. QED BY <3>3, <3>5, <3>6 DEF Left
  <2>. QED BY <2>1, <2>2
<1>2. ready[c] \in -1..Devices
  BY <1>0 DEF DemuxTypeOK
<1>3. size[c] # 0 /\ ready[c] > 0
  BY <1>0, <1>1, <1>2, Items DEF CountsAgree, CallsAgree
<1>. QED BY <1>2, <1>3, Items DEF Phase

(* A thread that computes a batch with the demultiplexing network sees     *)
(* what any network promises: the call returns when the batch is computed, *)
(* once, and returns without results only when the network is being        *)
(* destroyed.                                                              *)
THEOREM Refines == DemuxSpec => DemuxServes
<1>1. DemuxInit => DemuxService!Init
  BY DEF DemuxInit, DemuxService!Init, Phase
<1>2. IInv /\ IInv' /\ [DemuxNext]_demuxVars => [DemuxService!Next]_<<Phases, ~abort>>
  <2>. SUFFICES ASSUME IInv, IInv', [DemuxNext]_demuxVars
                PROVE  DemuxService!Next \/ UNCHANGED <<Phases, ~abort>>
    OBVIOUS
  <2>. DEFINE Turns(c, from, to) ==
         Phases[c] = from /\ Phases' = [Phases EXCEPT ![c] = to] /\ abort' = abort
  <2>1. DemuxTypeOK /\ CallsAgree /\ CountsAgree /\ ThreadsAgree
    BY DEF IInv
  <2>2. ASSUME NEW c \in Caller,
               \/ Turns(c, "idle", "asked") /\ ~abort
               \/ Turns(c, "asked", "answered")
               \/ Turns(c, "asked", "dropped") /\ abort
               \/ Turns(c, "answered", "idle")
               \/ Turns(c, "dropped", "idle")
        PROVE  DemuxService!Next
    <3>1. \/ DemuxService!Ask(c) \/ DemuxService!Answer(c) \/ DemuxService!Drop(c)
          \/ DemuxService!Leave(c)
      <4>1. CASE Turns(c, "idle", "asked") /\ ~abort
        BY <4>1 DEF DemuxService!Ask, DemuxService!Turn, Phases
      <4>2. CASE Turns(c, "asked", "answered")
        BY <4>2 DEF DemuxService!Answer, DemuxService!Turn, Phases
      <4>3. CASE Turns(c, "asked", "dropped") /\ abort
        BY <4>3 DEF DemuxService!Drop, DemuxService!Turn, Phases
      <4>4. CASE Turns(c, "answered", "idle") \/ Turns(c, "dropped", "idle")
        BY <4>4 DEF DemuxService!Leave, DemuxService!Turn, Phases
      <4>. HIDE DEF Turns
      <4>. QED BY <2>2, <4>1, <4>2, <4>3, <4>4
    <3>. QED BY <3>1 DEF DemuxService!Next
  <2>. HIDE DEF Turns
  <2>3. ASSUME NEW c \in Caller, BeginBatch(c) PROVE DemuxService!Next
    <3>1. call[c] = "out" /\ size[c] = 0 /\ ~abort /\ UNCHANGED <<parts, abort>>
      BY <2>1, <2>3 DEF BeginBatch, CallsAgree, ThreadsAgree
    <3>2. PICK n \in BatchSize[c] : size' = [size EXCEPT ![c] = n]
                                  /\ ready' = [ready EXCEPT ![c] = WorkItems(n)]
      BY <2>3 DEF BeginBatch, CountStored
    <3>3. n # 0 /\ WorkItems(n) > 0
      <4>1. n \in Nat \ {0}
        BY DemuxAssumption
      <4>2. WorkItems(n) \in 1..Devices
        BY <4>1, Splitting
      <4>. QED BY <4>1, <4>2, Items
    <3>4. /\ size'[c] = n /\ ready'[c] = WorkItems(n)
          /\ \A d \in Caller \ {c} : size'[d] = size[d] /\ ready'[d] = ready[d]
      BY <2>1, <3>2 DEF DemuxTypeOK
    <3>5. Phase(c) = "idle" /\ Phase(c)' = "asked"
      BY <3>1, <3>3, <3>4 DEF Phase
    <3>6. \A d \in Caller \ {c} : Phase(d)' = Phase(d)
      BY <3>1, <3>4 DEF Phase
    <3>7. Turns(c, "idle", "asked")
      BY <3>1, <3>5, <3>6, OnePhaseMoves, PhaseOf DEF Turns
    <3>. QED BY <2>2, <3>1, <3>7
  <2>4. ASSUME NEW c \in Caller, UNCHANGED <<size, ready, abort>>, Phase(c) = "asked",
               \A d \in Caller \ {c} : parts'[d] = parts[d]
        PROVE  UNCHANGED <<Phases, ~abort>>
    <3>1. Phase(c)' = Phase(c)
      BY <2>4 DEF Phase
    <3>2. \A d \in Caller \ {c} : Phase(d)' = Phase(d)
      BY <2>4 DEF Phase
    <3>. QED BY <2>4, <3>1, <3>2, NoPhaseMoves
  <2>5. ASSUME UNCHANGED <<size, ready, parts, abort>>
        PROVE  UNCHANGED <<Phases, ~abort>>
    <3>1. \A c \in Caller : Phase(c)' = Phase(c)
      BY <2>5 DEF Phase
    <3>. QED BY <2>5, <3>1, NoPhaseMoves
  <2>6. ASSUME NEW c \in Caller, SendPart(c) PROVE UNCHANGED <<Phases, ~abort>>
    <3>1. Phase(c) = "asked"
      BY <2>6, AskedWhileLeft DEF SendPart
    <3>2. \A d \in Caller \ {c} : parts'[d] = parts[d]
      BY <2>1, <2>6 DEF SendPart, DemuxTypeOK
    <3>. QED BY <2>4, <2>6, <3>1, <3>2 DEF SendPart
  <2>7. ASSUME NEW c \in Caller, DestroyComputation(c) PROVE DemuxService!Next
    <3>1. /\ call[c] = "done" /\ ready[c] = -1 /\ size[c] # 0 /\ abort' = abort
          /\ size' = [size EXCEPT ![c] = 0] /\ ready' = [ready EXCEPT ![c] = -1]
          /\ parts' = [parts EXCEPT ![c] = << >>]
      BY <2>1, <2>7 DEF DestroyComputation, MayDestroy, CallsAgree
    <3>2. /\ size'[c] = 0
          /\ \A d \in Caller \ {c} : /\ size'[d] = size[d] /\ ready'[d] = ready[d]
                                     /\ parts'[d] = parts[d]
      BY <2>1, <3>1 DEF DemuxTypeOK
    <3>3. Phase(c) \in {"answered", "dropped"} /\ Phase(c)' = "idle"
      BY <3>1, <3>2 DEF Phase
    <3>4. \A d \in Caller \ {c} : Phase(d)' = Phase(d)
      BY <3>2 DEF Phase
    <3>5. Turns(c, "answered", "idle") \/ Turns(c, "dropped", "idle")
      BY <3>1, <3>3, <3>4, OnePhaseMoves, PhaseOf DEF Turns
    <3>. QED BY <2>2, <3>5
  <2>8. ASSUME NEW c \in Caller, BeginBatch(c) \/ CallerStep(c)
        PROVE  DemuxService!Next \/ UNCHANGED <<Phases, ~abort>>
    <3>1. CASE TestReady(c) \/ FallAsleep(c)
      BY <2>5, <3>1 DEF TestReady, FallAsleep
    <3>. QED BY <2>3, <2>6, <2>7, <2>8, <3>1 DEF CallerStep
  <2>9. ASSUME NEW n \in Notifier, CountDown(n)
        PROVE  DemuxService!Next \/ UNCHANGED <<Phases, ~abort>>
    <3>1. at[n] \in Busy /\ UNCHANGED <<call, size, parts, abort>>
      BY <2>9 DEF CountDown, Busy
    <3>2. PICK c \in Caller : c = Source(n)
      BY <3>1, ItemOf
    <3>3. size[c] # 0 /\ ready[c] > 0 /\ ready[c] \in Nat /\ Phase(c) = "asked"
      BY <3>1, <3>2, AskedWhileLeft
    <3>4. ready'[c] = ready[c] - 1 /\ \A d \in Caller \ {c} : ready'[d] = ready[d]
      BY <2>1, <2>9, <3>2 DEF CountDown, DemuxTypeOK
    <3>5. \A d \in Caller \ {c} : Phase(d)' = Phase(d)
      BY <3>1, <3>4 DEF Phase
    <3>6. CASE ready[c] # 1
      <4>1. ready'[c] > 0
        BY <3>3, <3>4, <3>6
      <4>2. Phase(c)' = Phase(c)
        BY <3>1, <3>3, <4>1 DEF Phase
      <4>. QED BY <3>1, <3>5, <4>2, NoPhaseMoves
    <3>7. CASE ready[c] = 1
      <4>1. ready'[c] = 0
        BY <3>4, <3>7
      <4>2. CASE \A j \in DOMAIN parts[c] : parts[c][j].computed
        <5>1. Phase(c)' = "answered"
          BY <3>1, <3>3, <4>1, <4>2 DEF Phase
        <5>2. Turns(c, "asked", "answered")
          BY <3>1, <3>3, <3>5, <5>1, OnePhaseMoves, PhaseOf DEF Turns
        <5>. QED BY <2>2, <5>2
      <4>3. CASE ~\A j \in DOMAIN parts[c] : parts[c][j].computed
        <5>1. Phase(c)' = "dropped"
          BY <3>1, <3>3, <4>1, <4>3 DEF Phase
        <5>2. Turns(c, "asked", "dropped")
          BY <3>1, <3>3, <3>5, <5>1, OnePhaseMoves, PhaseOf DEF Turns
        <5>3. PICK j \in DOMAIN parts[c] : ~parts[c][j].computed
          BY <4>3
        <5>4. j \in 1..Len(parts[c])
          <6>1. parts[c] \in Seq([device : Device, from : Nat, to : Nat, computed : BOOLEAN])
            BY <2>1 DEF DemuxTypeOK
          <6>. QED BY <6>1, LenProperties
        <5>5. Left(c)' = {}
          <6>1. CountsAgree'
            BY DEF IInv
          <6>. QED BY <4>1, <6>1 DEF CountsAgree
        <5>6. abort
          <6>1. ComputedAgree'
            BY DEF IInv
          <6>. QED BY <3>1, <5>3, <5>4, <5>5, <6>1 DEF ComputedAgree
        <5>. QED BY <2>2, <5>2, <5>6
      <4>. QED BY <4>2, <4>3
    <3>. QED BY <3>6, <3>7
  <2>10. ASSUME NEW n \in Notifier, LetDestroy(n) PROVE UNCHANGED <<Phases, ~abort>>
    <3>1. at[n] \in Telling /\ UNCHANGED <<size, parts, abort>>
      BY <2>10 DEF LetDestroy, Telling
    <3>2. PICK c \in Caller : c = Source(n)
      BY <3>1, ItemOf
    <3>3. ready[c] = 0
      BY <2>1, <3>1, <3>2 DEF CountsAgree
    <3>4. ready'[c] = -1 /\ \A d \in Caller \ {c} : ready'[d] = ready[d]
      BY <2>1, <2>10, <3>2 DEF LetDestroy, DemuxTypeOK
    <3>5. Phase(c)' = Phase(c)
      BY <3>1, <3>3, <3>4 DEF Phase
    <3>6. \A d \in Caller \ {c} : Phase(d)' = Phase(d)
      BY <3>1, <3>4 DEF Phase
    <3>. QED BY <3>1, <3>5, <3>6, NoPhaseMoves
  <2>11. ASSUME NEW n \in Notifier, Complete(n)
         PROVE  DemuxService!Next \/ UNCHANGED <<Phases, ~abort>>
    <3>1. CASE NotifyCaller(n)
      BY <2>5, <3>1 DEF NotifyCaller
    <3>. QED BY <2>9, <2>10, <2>11, <3>1 DEF Complete
  <2>12. ASSUME NEW t \in Thread, ComputePart(t) PROVE UNCHANGED <<Phases, ~abort>>
    <3>1. t \in Notifier /\ at[t] \in Busy
      BY <2>12 DEF ComputePart, Notifier, Busy
    <3>2. PICK c \in Caller : c = Source(t)
      BY <3>1, ItemOf
    <3>3. Phase(c) = "asked"
      BY <3>1, <3>2, AskedWhileLeft
    <3>4. \A d \in Caller \ {c} : parts'[d] = parts[d]
      <4>1. parts' = [parts EXCEPT ![c] = [parts[c] EXCEPT ![item[t][2]] =
                                             [parts[c][item[t][2]] EXCEPT !.computed = TRUE]]]
        BY <2>12, <3>2 DEF ComputePart
      <4>. QED BY <2>1, <4>1 DEF DemuxTypeOK
    <3>. QED BY <2>4, <2>12, <3>3, <3>4 DEF ComputePart
  <2>13. ASSUME NEW t \in Thread, ThreadStep(t)
         PROVE  DemuxService!Next \/ UNCHANGED <<Phases, ~abort>>
    <3>1. CASE Look(t) \/ ThreadSleeps(t)
      BY <2>5, <3>1 DEF Look, ThreadSleeps, requests
    <3>2. t \in Notifier
      BY DEF Notifier
    <3>. QED BY <2>11, <2>12, <2>13, <3>1, <3>2 DEF ThreadStep
  <2>14. CASE Close
    <3>1. ~abort /\ abort' /\ UNCHANGED <<size, ready, parts>>
      BY <2>1, <2>14 DEF Close, ThreadsAgree, requests
    <3>2. \A c \in Caller : Phase(c)' = Phase(c)
      BY <3>1 DEF Phase
    <3>3. Phases' = Phases
      BY <3>2 DEF Phases
    <3>. QED BY <3>1, <3>3 DEF DemuxService!Next, DemuxService!Close, Phases
  <2>15. CASE OwnerStep
    <3>1. CASE WakeDevice \/ JoinThreads \/ Drain
      BY <2>5, <3>1 DEF WakeDevice, JoinThreads, Drain, requests
    <3>2. Owner \in Notifier
      BY DEF Notifier
    <3>. QED BY <2>11, <2>15, <3>1, <3>2 DEF OwnerStep
  <2>16. CASE UNCHANGED demuxVars
    BY <2>5, <2>16 DEF demuxVars, requests
  <2>. QED BY <2>8, <2>13, <2>14, <2>15, <2>16 DEF DemuxNext
<1>. QED BY <1>1, <1>2, Invariant, PTL DEF DemuxSpec, DemuxServes, DemuxService!SafetySpec, Phases
===============================================================================
