------------------------------- MODULE LogProofs -------------------------------
(***************************************************************************)
(* Proofs about what is written down of the server: the spans that its     *)
(* browsers hand in (Front), the lines of its log (Journal), and the       *)
(* windows of its job metrics (Metrics); for every allow-list, every line  *)
(* and every bound.  They begin with what these proofs, and those of       *)
(* EdgeProofs, need of numbers, of orders, and of functions that are       *)
(* defined from one number to the next.                                    *)
(***************************************************************************)
EXTENDS Front, Journal, Metrics, WellFoundedInduction, FiniteSetTheorems, TLAPS

-----------------------------------------------------------------------------
\* Numbers, sequences and orders.

\* A set of naturals that is not empty has a least one.
LEMMA LeastOf ==
    ASSUME NEW T \in SUBSET Nat, T # {}
    PROVE  \E x \in T : \A y \in T : x <= y
<1>1. \E x \in T : \A y \in T : ~(<<y, x>> \in OpToRel(<, Nat))
  BY NatLessThanWellFounded, WFMin
<1>2. \A x, y \in T : y < x => <<y, x>> \in OpToRel(<, Nat)
  BY DEF OpToRel
<1>3. \E R : (\E x \in T : \A y \in T : ~(<<y, x>> \in R)) /\ (\A x, y \in T : y < x => <<y, x>> \in R)
  BY <1>1, <1>2, Zenon
<1>4. PICK R : (\E x \in T : \A y \in T : ~(<<y, x>> \in R)) /\ (\A x, y \in T : y < x => <<y, x>> \in R)
  BY <1>3, Zenon
<1>5. PICK x \in T : \A y \in T : ~(<<y, x>> \in R)
  BY <1>4
<1>6. ASSUME NEW y \in T PROVE x <= y
  <2>1. ~(<<y, x>> \in R)
    BY <1>5
  <2>2. y < x => <<y, x>> \in R
    BY <1>4
  <2>3. ~(y < x)
    BY <2>1, <2>2, Zenon
  <2>. QED BY <2>3
<1>. QED BY <1>6

\* A function on the naturals can be defined by its first value and a step.
Runs(h, n, base, step) ==
    h[0] = base /\ \A i \in 0..(n - 1) : h[i + 1] = step[<<i, h[i]>>]

\* The whole of such a function.
Iterates(g, base, step) ==
    g[0] = base /\ \A n \in Nat : g[n + 1] = step[<<n, g[n]>>]

\* Two beginnings agree as far as both of them go.
LEMMA RunsAgree ==
    ASSUME NEW base, NEW step, NEW g, NEW h, NEW n \in Nat, NEW m \in Nat, n <= m,
           Runs(g, n, base, step), Runs(h, m, base, step)
    PROVE  g[n] = h[n]
<1>. DEFINE D == {i \in 0..n : g[i] # h[i]}
<1>1. SUFFICES ASSUME D # {} PROVE FALSE
  OBVIOUS
<1>2. D \in SUBSET Nat
  OBVIOUS
<1>3. PICK i \in D : \A j \in D : i <= j
  BY <1>1, <1>2, LeastOf
<1>4. i \in 0..n /\ g[i] # h[i]
  OBVIOUS
<1>5. i # 0
  BY <1>4 DEF Runs
<1>6. i - 1 \in 0..n /\ i - 1 \in 0..(n - 1) /\ i - 1 \in 0..(m - 1) /\ (i - 1) + 1 = i /\ ~(i <= i - 1)
  BY <1>4, <1>5
<1>7. g[i - 1] = h[i - 1]
  BY <1>3, <1>6
<1>8. g[(i - 1) + 1] = step[<<i - 1, g[i - 1]>>] /\ h[(i - 1) + 1] = step[<<i - 1, h[i - 1]>>]
  BY <1>6 DEF Runs
<1>. QED BY <1>4, <1>6, <1>7, <1>8

\* There is such a function, for any first value and any step.
LEMMA Recursion ==
    ASSUME NEW T, NEW base \in T, NEW step \in [Nat \X T -> T]
    PROVE  \E g \in [Nat -> T] : Iterates(g, base, step)
<1>. DEFINE G(n) == {h \in [0..n -> T] : Runs(h, n, base, step)}
            Left == {n \in Nat : G(n) = {}}
<1>1. G(0) # {}
  <2>. DEFINE h == [i \in 0..0 |-> base]
  <2>1. h \in [0..0 -> T] /\ h[0] = base /\ 0..(0 - 1) = {}
    OBVIOUS
  <2>. QED BY <2>1 DEF Runs
<1>2. ASSUME NEW n \in Nat, G(n) # {} PROVE G(n + 1) # {}
  <2>1. PICK h \in [0..n -> T] : Runs(h, n, base, step)
    BY <1>2
  <2>. DEFINE k == [i \in 0..(n + 1) |-> IF i <= n THEN h[i] ELSE step[<<n, h[n]>>]]
  <2>2. h[n] \in T /\ step[<<n, h[n]>>] \in T
    BY <2>1
  <2>3. k \in [0..(n + 1) -> T] /\ k[n + 1] = step[<<n, h[n]>>] /\ \A i \in 0..n : k[i] = h[i]
    BY <2>1, <2>2
  <2>. HIDE DEF k
  <2>4. ASSUME NEW i \in 0..((n + 1) - 1) PROVE k[i + 1] = step[<<i, k[i]>>]
    <3>1. CASE i = n
      <4>1. n \in 0..n /\ k[n] = h[n]
        BY <2>3
      <4>. QED BY <2>3, <3>1, <4>1
    <3>2. CASE i # n
      <4>1. i \in 0..(n - 1) /\ i + 1 \in 0..n /\ i \in 0..n
        BY <3>2
      <4>. QED BY <2>1, <2>3, <4>1 DEF Runs
    <3>. QED BY <3>1, <3>2
  <2>5. k[0] = base
    BY <2>1, <2>3 DEF Runs
  <2>6. Runs(k, n + 1, base, step)
    BY <2>4, <2>5 DEF Runs
  <2>. QED BY <2>3, <2>6
<1>3. \A n \in Nat : G(n) # {}
  <2>1. SUFFICES ASSUME Left # {} PROVE FALSE
    OBVIOUS
  <2>2. Left \in SUBSET Nat
    OBVIOUS
  <2>. HIDE DEF G
  <2>3. PICK m \in Left : \A n \in Left : m <= n
    BY <2>1, <2>2, LeastOf
  <2>4. m \in Nat /\ G(m) = {}
    OBVIOUS
  <2>5. m # 0
    BY <1>1, <2>4
  <2>6. m - 1 \in Nat /\ (m - 1) + 1 = m /\ ~(m <= m - 1)
    BY <2>4, <2>5
  <2>7. G(m - 1) # {}
    BY <2>3, <2>6
  <2>8. G((m - 1) + 1) # {}
    BY <1>2, <2>6, <2>7
  <2>. QED BY <2>4, <2>6, <2>8
<1>. DEFINE run == [n \in Nat |-> CHOOSE h \in G(n) : TRUE]
            g == [n \in Nat |-> run[n][n]]
<1>4. \A n \in Nat : run[n] \in G(n)
  <2>. HIDE DEF G
  <2>. TAKE n \in Nat
  <2>1. \E h \in G(n) : TRUE
    BY <1>3
  <2>. QED BY <2>1
<1>. HIDE DEF run
<1>5. \A n \in Nat : run[n] \in [0..n -> T] /\ Runs(run[n], n, base, step)
  BY <1>4
<1>. HIDE DEF G
<1>6. \A n \in Nat : g[n] \in T /\ g[n] = run[n][n]
  BY <1>5
<1>7. g \in [Nat -> T]
  BY <1>6
<1>8. g[0] = base
  BY <1>5, <1>6 DEF Runs
<1>9. ASSUME NEW n \in Nat PROVE g[n + 1] = step[<<n, g[n]>>]
  <2>1. n + 1 \in Nat /\ n <= n + 1 /\ n \in 0..((n + 1) - 1)
    OBVIOUS
  <2>2. run[n][n] = run[n + 1][n]
    <3>. DEFINE shorter == run[n]
                longer == run[n + 1]
    <3>1. n + 1 \in Nat /\ n <= n + 1 /\ Runs(shorter, n, base, step) /\ Runs(longer, n + 1, base, step)
      BY <1>5, <2>1
    <3>. HIDE DEF shorter, longer
    <3>2. ASSUME NEW m \in Nat, n <= m, Runs(longer, m, base, step) PROVE shorter[n] = longer[n]
      BY <3>1, <3>2, RunsAgree
    <3>3. shorter[n] = longer[n]
      BY <3>1, <3>2
    <3>. QED BY <3>3 DEF shorter, longer
  <2>3. run[n + 1][n + 1] = step[<<n, run[n + 1][n]>>]
    BY <1>5, <2>1 DEF Runs
  <2>. QED BY <1>6, <2>1, <2>2, <2>3
<1>. HIDE DEF g
<1>. QED BY <1>7, <1>8, <1>9 DEF Iterates

\* A set with zero, and with the successor of each of its numbers, has all of them.
LEMMA Inductive ==
    ASSUME NEW M, 0 \in M, \A n \in Nat : n \in M => n + 1 \in M
    PROVE  Nat \subseteq M
<1>. DEFINE D == {n \in Nat : n \notin M}
<1>1. SUFFICES ASSUME D # {} PROVE FALSE
  OBVIOUS
<1>2. D \in SUBSET Nat
  OBVIOUS
<1>3. PICK m \in D : \A n \in D : m <= n
  BY <1>1, <1>2, LeastOf
<1>4. m \in Nat /\ m # 0 /\ m \notin M
  OBVIOUS
<1>5. m - 1 \in Nat /\ (m - 1) + 1 = m /\ ~(m <= m - 1)
  BY <1>4
<1>6. m - 1 \in M
  BY <1>3, <1>5
<1>. QED BY <1>4, <1>5, <1>6

\* What a quotient is at least.
LEMMA Quotient ==
    ASSUME NEW p \in Nat \ {0}, NEW x \in Int, NEW y \in Int, p * x <= y
    PROVE  x <= y \div p
<1>. DEFINE q == y \div p
            m == y % p
<1>1. q \in Int /\ m \in 0..(p - 1) /\ y = p * q + m
  OBVIOUS
<1>. HIDE DEF q, m
<1>2. SUFFICES ASSUME q + 1 <= x PROVE FALSE
  BY <1>1 DEF q
<1>3. p * (q + 1) <= p * x
  BY <1>1, <1>2
<1>4. p * (q + 1) = p * q + p
  BY <1>1
<1>. QED BY <1>1, <1>3, <1>4

LEMMA DivisionIs ==
    ASSUME NEW b \in Nat \ {0}, NEW x \in Int
    PROVE  \E q \in Int, m \in 0..(b - 1) : q = x \div b /\ m = x % b /\ x = b * q + m
<1>. DEFINE q == x \div b
            m == x % b
<1>1. q \in Int /\ m \in 0..(b - 1) /\ x = b * q + m
  OBVIOUS
<1>2. q = x \div b /\ m = x % b
  OBVIOUS
<1>. HIDE DEF q, m
<1>. QED BY <1>1, <1>2

LEMMA AppendIs ==
    ASSUME NEW S, NEW s \in Seq(S), NEW e \in S
    PROVE  LET t == Append(s, e)
               n == Len(s)
           IN  /\ n \in Nat /\ DOMAIN s = 1..n /\ (s = <<>> <=> n = 0)
               /\ t \in Seq(S) /\ t # <<>> /\ Len(t) = n + 1 /\ DOMAIN t = 1..(n + 1)
               /\ t[n + 1] = e /\ \A i \in 1..n : t[i] = s[i]
OBVIOUS

LEMMA MinIs ==
    ASSUME NEW S \in SUBSET Nat, S # {}
    PROVE  Min(S) \in S /\ \A x \in S : Min(S) <= x
BY LeastOf DEF Min

\* A part of a finite set is finite and no larger, and is smaller if it is not the whole.
LEMMA Smaller ==
    ASSUME NEW S, IsFiniteSet(S), NEW T, T \subseteq S
    PROVE  /\ IsFiniteSet(T) /\ Cardinality(T) \in Nat /\ Cardinality(S) \in Nat
           /\ Cardinality(T) <= Cardinality(S)
           /\ \A x \in S : x \notin T => Cardinality(T) < Cardinality(S)
           /\ Cardinality(T) = Cardinality(S) => T = S
<1>1. T \in SUBSET S
  OBVIOUS
<1>2. IsFiniteSet(T) /\ Cardinality(T) <= Cardinality(S) /\ (Cardinality(S) = Cardinality(T) => S = T)
  BY <1>1, FS_Subset
<1>3. Cardinality(T) \in Nat /\ Cardinality(S) \in Nat
  BY <1>2, FS_CardinalityType
<1>. QED BY <1>2, <1>3

LEMMA FunctionIsSeq ==
    ASSUME NEW S, NEW n \in Nat, NEW s \in [1..n -> S]
    PROVE  s \in Seq(S) /\ Len(s) = n
OBVIOUS

LEMMA IntervalIs == ASSUME NEW n \in Nat PROVE IsFiniteSet(1..n) /\ Cardinality(1..n) = n
<1>1. 1 \in Int /\ n \in Int
  OBVIOUS
<1>. QED BY <1>1, FS_Interval

\* Ordered lists a set by the number of elements that come before each.
OrdersStrictly(R, S) ==
    /\ \A x \in S : <<x, x>> \notin R
    /\ \A x, y, z \in S : <<x, y>> \in R /\ <<y, z>> \in R => <<x, z>> \in R
    /\ \A x, y \in S : x # y => <<x, y>> \in R \/ <<y, x>> \in R

CountsBefore(before, R, S) ==
    before = [x \in S |-> Cardinality({y \in S : <<y, x>> \in R})]

ListsBy(s, before, S) ==
    s = [i \in 1..Cardinality(S) |-> CHOOSE x \in S : before[x] = i - 1]

\* In a strict order of a finite set, the number of those before an element is its place in it.
LEMMA BeforeIs ==
    ASSUME NEW S, IsFiniteSet(S), NEW R, OrdersStrictly(R, S), NEW before,
           CountsBefore(before, R, S)
    PROVE  /\ Cardinality(S) \in Nat
           /\ before \in [S -> 0..(Cardinality(S) - 1)]
           /\ \A x, y \in S : before[x] < before[y] <=> <<x, y>> \in R
           /\ \A x, y \in S : before[x] = before[y] => x = y
           /\ \A i \in 0..(Cardinality(S) - 1) : \E x \in S : before[x] = i
<1>. DEFINE n == Cardinality(S)
            below == [x \in S |-> {y \in S : <<y, x>> \in R}]
<1>1. n \in Nat
  BY FS_CardinalityType
<1>2. \A x \in S : /\ below[x] \subseteq S /\ x \notin below[x]
                   /\ \A y \in S : y \in below[x] <=> <<y, x>> \in R
  BY DEF OrdersStrictly
<1>3. before = [x \in S |-> Cardinality(below[x])]
  BY DEF CountsBefore
<1>. HIDE DEF below
<1>4. \A x \in S : /\ IsFiniteSet(below[x]) /\ Cardinality(below[x]) \in Nat
                   /\ Cardinality(below[x]) < n
  BY <1>2, Smaller
<1>5. before \in [S -> 0..(n - 1)] /\ \A x \in S : before[x] = Cardinality(below[x])
  BY <1>1, <1>3, <1>4
<1>6. \A x, y \in S : <<x, y>> \in R => before[x] < before[y]
  <2>. SUFFICES ASSUME NEW x \in S, NEW y \in S, <<x, y>> \in R
                PROVE  Cardinality(below[x]) < Cardinality(below[y])
    BY <1>5
  <2>1. below[x] \subseteq below[y] /\ x \in below[y] /\ x \notin below[x]
    BY <1>2 DEF OrdersStrictly
  <2>. QED BY <1>4, <2>1, Smaller
<1>7. \A x, y \in S : before[x] < before[y] <=> <<x, y>> \in R
  <2>. SUFFICES ASSUME NEW x \in S, NEW y \in S PROVE before[x] < before[y] <=> <<x, y>> \in R
    OBVIOUS
  <2>1. before[x] \in Int /\ before[y] \in Int
    BY <1>1, <1>5
  <2>2. x = y \/ <<x, y>> \in R \/ <<y, x>> \in R
    BY DEF OrdersStrictly
  <2>. QED BY <1>6, <2>1, <2>2
<1>8. \A x, y \in S : before[x] = before[y] => x = y
  <2>. SUFFICES ASSUME NEW x \in S, NEW y \in S, x # y PROVE before[x] # before[y]
    OBVIOUS
  <2>1. before[x] \in Int /\ before[y] \in Int /\ (<<x, y>> \in R \/ <<y, x>> \in R)
    BY <1>1, <1>5 DEF OrdersStrictly
  <2>. QED BY <1>6, <2>1
<1>9. before \in Injection(S, 0..(n - 1))
  BY <1>5, <1>8 DEF Injection, IsInjective
<1>10. IsFiniteSet(0..(n - 1)) /\ Cardinality(0..(n - 1)) = n
  <2>1. n - 1 \in Int /\ 0 \in Int
    BY <1>1
  <2>. QED BY <1>1, <2>1, FS_Interval
<1>. HIDE DEF n
<1>11. before \in Surjection(S, 0..(n - 1))
  BY <1>9, <1>10, FS_Injection DEF n
<1>. QED BY <1>1, <1>5, <1>7, <1>8, <1>11 DEF Surjection, n

\* What Ordered gives for a strict order: it holds each element once, and in order.
LEMMA OrderedIs ==
    ASSUME NEW S, IsFiniteSet(S), NEW R, OrdersStrictly(R, S), NEW before,
           CountsBefore(before, R, S), NEW s, ListsBy(s, before, S)
    PROVE  /\ Cardinality(S) \in Nat /\ Len(s) = Cardinality(S)
           /\ s \in Seq(S) /\ DOMAIN s = 1..Cardinality(S)
           /\ \A i, j \in DOMAIN s : i < j <=> <<s[i], s[j]>> \in R
           /\ \A x \in S : \E i \in DOMAIN s : s[i] = x
           /\ \A i \in DOMAIN s : before[s[i]] = i - 1
<1>. DEFINE n == Cardinality(S)
<1>1. /\ n \in Nat /\ before \in [S -> 0..(n - 1)]
      /\ \A x, y \in S : before[x] < before[y] <=> <<x, y>> \in R
      /\ \A x, y \in S : before[x] = before[y] => x = y
      /\ \A i \in 0..(n - 1) : \E x \in S : before[x] = i
  BY BeforeIs
<1>2. \A i \in 1..n : s[i] = CHOOSE x \in S : before[x] = i - 1
  BY DEF ListsBy
<1>3. DOMAIN s = 1..n /\ s = [i \in 1..n |-> s[i]]
  BY DEF ListsBy
<1>. HIDE DEF n
<1>4. \A i \in 1..n : s[i] \in S /\ before[s[i]] = i - 1
  <2>. TAKE i \in 1..n
  <2>1. i - 1 \in 0..(n - 1)
    BY <1>1
  <2>2. \E x \in S : before[x] = i - 1
    BY <1>1, <2>1
  <2>. QED BY <1>2, <2>2
<1>5. s \in [1..n -> S]
  BY <1>4, <1>3
<1>6. s \in Seq(S) /\ Len(s) = n
  BY <1>1, <1>5, FunctionIsSeq
<1>7. \A i, j \in 1..n : i < j <=> <<s[i], s[j]>> \in R
  <2>. TAKE i \in 1..n, j \in 1..n
  <2>1. before[s[i]] < before[s[j]] <=> <<s[i], s[j]>> \in R
    BY <1>1, <1>4
  <2>. QED BY <1>1, <1>4, <2>1
<1>8. \A x \in S : \E i \in 1..n : s[i] = x
  <2>. TAKE x \in S
  <2>1. before[x] \in 0..(n - 1)
    BY <1>1
  <2>. DEFINE i == before[x] + 1
  <2>2. i \in 1..n /\ i - 1 = before[x]
    BY <1>1, <2>1
  <2>. HIDE DEF i
  <2>3. before[s[i]] = before[x] /\ s[i] \in S
    BY <1>4, <2>2
  <2>4. s[i] = x
    BY <1>1, <2>3
  <2>. QED BY <2>2, <2>4
<1>. QED BY <1>1, <1>4, <1>3, <1>6, <1>7, <1>8 DEF n

\* Numbers in ascending order.
LEMMA AscendingIs ==
    ASSUME NEW S \in SUBSET Nat, IsFiniteSet(S)
    PROVE  /\ Ordered(S, <) \in Seq(S)
           /\ \A i, j \in DOMAIN Ordered(S, <) : i < j <=> Ordered(S, <)[i] < Ordered(S, <)[j]
           /\ \A x \in S : \E i \in DOMAIN Ordered(S, <) : Ordered(S, <)[i] = x
           /\ Len(Ordered(S, <)) = Cardinality(S)
<1>. DEFINE R == {p \in S \X S : p[1] < p[2]}
            before == [x \in S |-> Cardinality({y \in S : y < x})]
<1>1. \A x \in S : {y \in S : y < x} = {y \in S : <<y, x>> \in R}
  OBVIOUS
<1>2. CountsBefore(before, R, S)
  BY <1>1, Zenon DEF CountsBefore
<1>3. OrdersStrictly(R, S)
  BY DEF OrdersStrictly
<1>4. \A x, y \in S : <<x, y>> \in R <=> x < y
  OBVIOUS
<1>. DEFINE s == Ordered(S, <)
<1>5. ListsBy(s, before, S)
  BY DEF Ordered, ListsBy
<1>. HIDE DEF R, before, s
<1>6. /\ s \in Seq(S) /\ Len(s) = Cardinality(S)
      /\ \A i, j \in DOMAIN s : i < j <=> <<s[i], s[j]>> \in R
      /\ \A x \in S : \E i \in DOMAIN s : s[i] = x
  BY <1>2, <1>3, <1>5, OrderedIs
<1>7. \A i \in DOMAIN s : s[i] \in S
  BY <1>6
<1>. QED BY <1>4, <1>6, <1>7 DEF s

-----------------------------------------------------------------------------
\* The spans that a browser hands in (Front).

\* What the loop over a span's attributes has kept after each of them.
Keeps(a) == IsAllowedAttribute(a) /\ Renders(a)
Loops(f, span, n) ==
    f = [i \in 0..n |->
            IF i = 0 THEN <<>>
            ELSE IF IsAllowedAttribute(span[i]) /\ Len(f[i - 1]) < MaxAttributes /\ Renders(span[i])
                 THEN Append(f[i - 1], span[i]) ELSE f[i - 1]]
TheLoop(f, span, n) == f = CHOOSE g : Loops(g, span, n)

\* The recursive function that the loop is exists, and keeps to its equation.
LEMMA LoopIs ==
    ASSUME NEW span \in Seq(Attribute), NEW n \in Nat, n = Len(span), NEW f, TheLoop(f, span, n)
    PROVE  /\ f[0] = <<>>
           /\ \A i \in 0..(n - 1) :
                 f[i + 1] = IF Keeps(span[i + 1]) /\ Len(f[i]) < MaxAttributes
                            THEN Append(f[i], span[i + 1]) ELSE f[i]
<1>. DEFINE T == Seq(Attribute)
            step == [p \in Nat \X T |->
                        IF p[1] < n /\ Keeps(span[p[1] + 1]) /\ Len(p[2]) < MaxAttributes
                        THEN Append(p[2], span[p[1] + 1]) ELSE p[2]]
<1>1. \A i \in Nat : i < n => i + 1 \in 1..n /\ span[i + 1] \in Attribute
  OBVIOUS
<1>2. \A i \in Nat, v \in T :
          /\ step[<<i, v>>] \in T
          /\ step[<<i, v>>] = IF i < n /\ Keeps(span[i + 1]) /\ Len(v) < MaxAttributes
                              THEN Append(v, span[i + 1]) ELSE v
  <2>. TAKE i \in Nat, v \in T
  <2>1. step[<<i, v>>] = IF i < n /\ Keeps(span[i + 1]) /\ Len(v) < MaxAttributes
                         THEN Append(v, span[i + 1]) ELSE v
    OBVIOUS
  <2>. HIDE DEF step
  <2>2. i < n => Append(v, span[i + 1]) \in T
    BY <1>1
  <2>. QED BY <2>1, <2>2
<1>3. step \in [Nat \X T -> T]
  <2>1. \A p \in Nat \X T : p[1] \in Nat /\ p[2] \in T /\ p = <<p[1], p[2]>>
    OBVIOUS
  <2>2. \A p \in Nat \X T : step[p] \in T
    BY <1>2, <2>1, Zenon
  <2>. QED BY <2>2
<1>4. <<>> \in T
  OBVIOUS
<1>. HIDE DEF step, T
<1>5. PICK g \in [Nat -> T] : Iterates(g, <<>>, step)
  BY <1>3, <1>4, Recursion
<1>6. g[0] = <<>> /\ \A i \in Nat : g[i] \in T /\ g[i + 1] = step[<<i, g[i]>>]
  BY <1>5 DEF Iterates
<1>7. ASSUME NEW i \in 0..n, i # 0
      PROVE  g[i] = IF IsAllowedAttribute(span[i]) /\ Len(g[i - 1]) < MaxAttributes /\ Renders(span[i])
                    THEN Append(g[i - 1], span[i]) ELSE g[i - 1]
  <2>1. i - 1 \in Nat /\ (i - 1) + 1 = i /\ i - 1 < n
    BY <1>7
  <2>2. g[(i - 1) + 1] = step[<<i - 1, g[i - 1]>>] /\ g[i - 1] \in T
    BY <1>6, <2>1
  <2>3. g[i] = IF i - 1 < n /\ Keeps(span[(i - 1) + 1]) /\ Len(g[i - 1]) < MaxAttributes
               THEN Append(g[i - 1], span[(i - 1) + 1]) ELSE g[i - 1]
    BY <1>2, <2>1, <2>2
  <2>. QED BY <2>1, <2>3 DEF Keeps
<1>. DEFINE h == [i \in 0..n |-> g[i]]
<1>8. \A i \in 0..n : h[i] = g[i] /\ (i = 0 \/ (i - 1 \in 0..n /\ h[i - 1] = g[i - 1]))
  OBVIOUS
<1>9. Loops(h, span, n)
  <2>1. h = [i \in 0..n |-> h[i]]
    OBVIOUS
  <2>. HIDE DEF h
  <2>2. \A i \in 0..n : h[i] = IF i = 0 THEN <<>>
            ELSE IF IsAllowedAttribute(span[i]) /\ Len(h[i - 1]) < MaxAttributes /\ Renders(span[i])
                 THEN Append(h[i - 1], span[i]) ELSE h[i - 1]
    BY <1>6, <1>7, <1>8
  <2>. QED BY <2>1, <2>2 DEF Loops
<1>10. Loops(f, span, n)
  BY <1>9 DEF TheLoop
<1>11. \A i \in 0..n : f[i] = IF i = 0 THEN <<>>
            ELSE IF IsAllowedAttribute(span[i]) /\ Len(f[i - 1]) < MaxAttributes /\ Renders(span[i])
                 THEN Append(f[i - 1], span[i]) ELSE f[i - 1]
  BY <1>10 DEF Loops
<1>12. f[0] = <<>>
  BY <1>11
<1>13. ASSUME NEW i \in 0..(n - 1)
       PROVE  f[i + 1] = IF Keeps(span[i + 1]) /\ Len(f[i]) < MaxAttributes
                         THEN Append(f[i], span[i + 1]) ELSE f[i]
  <2>1. i + 1 \in 0..n /\ i + 1 # 0 /\ (i + 1) - 1 = i
    OBVIOUS
  <2>2. f[i + 1] = IF IsAllowedAttribute(span[i + 1]) /\ Len(f[(i + 1) - 1]) < MaxAttributes /\ Renders(span[i + 1])
                   THEN Append(f[(i + 1) - 1], span[i + 1]) ELSE f[(i + 1) - 1]
    BY <1>11, <2>1
  <2>. QED BY <2>1, <2>2 DEF Keeps
<1>. QED BY <1>12, <1>13

Good(span)      == {i \in DOMAIN span : span[i].key \in {"http.method", "url.path"} /\ span[i].value # "list"}
Within(span, i) == {j \in Good(span) : j <= i}
First(span)     == {i \in Good(span) : Cardinality({j \in Good(span) : j < i}) < MaxAttributes}

\* The loop keeps the first that are good, as many as there may be.
LEMMA AttributesAre ==
    ASSUME NEW span \in Seq(Attribute)
    PROVE  {Attributes(span)[i].key : i \in DOMAIN Attributes(span)} = KeptKeys(span)
<1>. DEFINE n == Len(span)
            f == CHOOSE g : Loops(g, span, n)
            G == Good(span)
            W(i) == Within(span, i)
            Keys(s) == {s[k].key : k \in DOMAIN s}
            Holds(i) == /\ f[i] \in Seq(Attribute)
                        /\ Len(f[i]) = IF Cardinality(W(i)) < MaxAttributes THEN Cardinality(W(i)) ELSE MaxAttributes
                        /\ Keys(f[i]) = {span[j].key : j \in {j \in First(span) : j <= i}}
<1>1. Attributes(span) = f[n]
  BY DEF Attributes, Loops
<1>2. n \in Nat /\ DOMAIN span = 1..n /\ MaxAttributes \in Nat /\ \A i \in 1..n : span[i] \in Attribute
  BY BatchAssumption
<1>3. TheLoop(f, span, n)
  BY DEF TheLoop
<1>. HIDE DEF f
<1>4. /\ f[0] = <<>>
      /\ \A i \in 0..(n - 1) :
            f[i + 1] = IF Keeps(span[i + 1]) /\ Len(f[i]) < MaxAttributes
                       THEN Append(f[i], span[i + 1]) ELSE f[i]
  BY <1>2, <1>3, LoopIs
<1>. HIDE DEF n
<1>5. G \subseteq 1..n /\ IsFiniteSet(G) /\ \A i \in 1..n : i \in G <=> Keeps(span[i])
  <2>1. G \subseteq 1..n
    BY <1>2 DEF Good
  <2>2. IsFiniteSet(G)
    BY <1>2, <2>1, IntervalIs, Smaller
  <2>3. \A a \in Attribute : Keeps(a) <=> a.key \in {"http.method", "url.path"} /\ a.value # "list"
    BY DEF Keeps, Attribute, IsAllowedAttribute, Renders
  <2>. QED BY <1>2, <2>1, <2>2, <2>3 DEF Good
<1>6. \A i \in 0..n : IsFiniteSet(W(i)) /\ Cardinality(W(i)) \in Nat
  <2>. TAKE i \in 0..n
  <2>1. W(i) \subseteq G
    BY DEF Within
  <2>. QED BY <1>5, <2>1, Smaller
<1>. HIDE DEF G
<1>7. Holds(0)
  <2>1. W(0) = {}
    BY <1>5 DEF Within, G
  <2>2. Cardinality(W(0)) = 0
    BY <2>1, FS_EmptySet
  <2>3. {j \in First(span) : j <= 0} = {}
    BY <1>5 DEF First, G
  <2>4. <<>> \in Seq(Attribute) /\ Len(<<>>) = 0 /\ Keys(<<>>) = {}
    OBVIOUS
  <2>5. Keys(f[0]) = {span[j].key : j \in {j \in First(span) : j <= 0}}
    BY <1>4, <2>3, <2>4
  <2>. HIDE DEF Keys
  <2>. QED BY <1>2, <1>4, <2>2, <2>4, <2>5
<1>8. ASSUME NEW i \in 0..(n - 1), Holds(i) PROVE Holds(i + 1)
  <2>1. i \in 0..n /\ i + 1 \in 0..n /\ i + 1 \in 1..n /\ i \in Nat /\ span[i + 1] \in Attribute
    BY <1>2
  <2>2. PICK c \in Nat, s \in Seq(Attribute), l \in Nat : c = Cardinality(W(i)) /\ s = f[i] /\ l = Len(s)
    <3>1. f[i] \in Seq(Attribute)
      BY <1>8
    <3>. QED BY <1>6, <2>1, <3>1
  <2>3. /\ l = IF c < MaxAttributes THEN c ELSE MaxAttributes
        /\ Keys(s) = {span[j].key : j \in {j \in First(span) : j <= i}}
    BY <1>8, <2>2
  <2>4. f[i + 1] = IF i + 1 \in G /\ l < MaxAttributes THEN Append(s, span[i + 1]) ELSE s
    BY <1>4, <1>5, <2>1, <2>2
  <2>5. {j \in G : j < i + 1} = W(i)
    BY <1>5, <2>1 DEF Within, G
  <2>6. CASE i + 1 \notin G
    <3>1. W(i + 1) = W(i)
      BY <1>5, <2>1, <2>6 DEF Within, G
    <3>2. {j \in First(span) : j <= i + 1} = {j \in First(span) : j <= i}
      BY <1>5, <2>1, <2>6 DEF First, G
    <3>3. f[i + 1] = s
      BY <2>4, <2>6
    <3>. HIDE DEF Keys, W
    <3>. QED BY <2>2, <2>3, <3>1, <3>2, <3>3
  <2>7. CASE i + 1 \in G
    <3>1. W(i + 1) = W(i) \cup {i + 1} /\ i + 1 \notin W(i)
      BY <1>5, <2>1, <2>7 DEF Within, G
    <3>2. Cardinality(W(i + 1)) = c + 1
      BY <1>6, <2>1, <2>2, <3>1, FS_AddElement
    <3>3. i + 1 \in First(span) <=> c < MaxAttributes
      BY <2>2, <2>5, <2>7 DEF First, G
    <3>4. CASE c < MaxAttributes
      <4>. DEFINE t == Append(s, span[i + 1])
      <4>1. l = c /\ f[i + 1] = t
        BY <1>2, <2>3, <2>4, <2>7, <3>4
      <4>2. /\ t \in Seq(Attribute) /\ Len(t) = l + 1 /\ DOMAIN t = 1..(l + 1) /\ DOMAIN s = 1..l
            /\ t[l + 1] = span[i + 1] /\ \A k \in 1..l : t[k] = s[k]
        BY <2>1, <2>2, AppendIs
      <4>. HIDE DEF t
      <4>3. Keys(t) = Keys(s) \cup {span[i + 1].key}
        <5>1. 1..(l + 1) = (1..l) \cup {l + 1}
          OBVIOUS
        <5>2. \A k \in 1..l : t[k].key = s[k].key
          BY <4>2
        <5>. QED BY <4>2, <5>1, <5>2
      <4>4. {j \in First(span) : j <= i + 1} = {j \in First(span) : j <= i} \cup {i + 1}
        <5>1. First(span) \subseteq 1..n
          BY <1>5 DEF First, G
        <5>. QED BY <2>1, <3>3, <3>4, <5>1
      <4>5. Keys(t) = {span[j].key : j \in {j \in First(span) : j <= i + 1}}
        BY <2>3, <4>3, <4>4
      <4>6. Len(t) = IF c + 1 < MaxAttributes THEN c + 1 ELSE MaxAttributes
        BY <1>2, <3>4, <4>1, <4>2
      <4>. HIDE DEF Keys, W
      <4>. QED BY <3>2, <4>1, <4>2, <4>5, <4>6
    <3>5. CASE ~(c < MaxAttributes)
      <4>1. l = MaxAttributes /\ f[i + 1] = s /\ ~(c + 1 < MaxAttributes)
        BY <1>2, <2>3, <2>4, <2>7, <3>5
      <4>2. {j \in First(span) : j <= i + 1} = {j \in First(span) : j <= i}
        <5>1. First(span) \subseteq 1..n
          BY <1>5 DEF First, G
        <5>. QED BY <2>1, <3>3, <3>5, <5>1
      <4>. HIDE DEF Keys, W
      <4>. QED BY <2>2, <2>3, <3>2, <4>1, <4>2
    <3>. QED BY <3>4, <3>5
  <2>. QED BY <2>6, <2>7
<1>9. Holds(n)
  <2>. DEFINE M == {i \in Nat : i <= n => Holds(i)}
  <2>. HIDE DEF Holds
  <2>1. 0 \in M
    BY <1>7
  <2>2. ASSUME NEW i \in Nat, i \in M PROVE i + 1 \in M
    <3>1. i + 1 <= n => i \in 0..(n - 1) /\ i <= n
      BY <1>2
    <3>. QED BY <1>8, <2>2, <3>1
  <2>. HIDE DEF M
  <2>3. Nat \subseteq M
    BY <2>1, <2>2, Inductive
  <2>4. n \in M
    BY <1>2, <2>3
  <2>. QED BY <1>2, <2>4 DEF M
<1>10. {j \in First(span) : j <= n} = First(span)
  <2>1. First(span) \subseteq 1..n
    BY <1>5 DEF First, G
  <2>. QED BY <1>2, <2>1
<1>11. KeptKeys(span) = {span[j].key : j \in First(span)}
  BY DEF KeptKeys, First, Good
<1>. QED BY <1>1, <1>9, <1>10, <1>11

Flattens(f, seqs, n) == f = [i \in 1..n |-> IF i = 1 THEN seqs[i] ELSE f[i - 1] \o seqs[i]]
Flat(f, seqs, n)     == f = CHOOSE g : Flattens(g, seqs, n)

\* Joined sequences are one, of the same elements.
LEMMA FlatIs ==
    ASSUME NEW S, NEW seqs \in Seq(Seq(S)), NEW n \in Nat \ {0}, n = Len(seqs), NEW f, Flat(f, seqs, n)
    PROVE  f[n] \in Seq(S)
<1>. DEFINE T == Seq(S)
            step == [p \in Nat \X T |-> IF p[1] + 2 <= n THEN p[2] \o seqs[p[1] + 2] ELSE p[2]]
<1>1. \A i \in 1..n : seqs[i] \in T
  OBVIOUS
<1>2. \A i \in Nat, v \in T : /\ step[<<i, v>>] \in T
                              /\ i + 2 <= n => step[<<i, v>>] = v \o seqs[i + 2]
  <2>. TAKE i \in Nat, v \in T
  <2>1. step[<<i, v>>] = IF i + 2 <= n THEN v \o seqs[i + 2] ELSE v
    OBVIOUS
  <2>. HIDE DEF step
  <2>2. i + 2 <= n => v \o seqs[i + 2] \in T
    <3>. SUFFICES ASSUME i + 2 <= n PROVE v \o seqs[i + 2] \in T
      OBVIOUS
    <3>1. PICK t \in T : t = seqs[i + 2]
      <4>1. i + 2 \in 1..n
        OBVIOUS
      <4>. QED BY <1>1, <4>1
    <3>2. v \o t \in T
      OBVIOUS
    <3>. QED BY <3>1, <3>2
  <2>. QED BY <2>1, <2>2
<1>3. step \in [Nat \X T -> T]
  <2>1. \A p \in Nat \X T : p[1] \in Nat /\ p[2] \in T /\ p = <<p[1], p[2]>>
    OBVIOUS
  <2>2. \A p \in Nat \X T : step[p] \in T
    BY <1>2, <2>1, Zenon
  <2>. QED BY <2>2
<1>4. seqs[1] \in T
  BY <1>1
<1>. HIDE DEF step, T
<1>5. PICK g \in [Nat -> T] : Iterates(g, seqs[1], step)
  BY <1>3, <1>4, Recursion
<1>6. g[0] = seqs[1] /\ \A i \in Nat : g[i] \in T /\ g[i + 1] = step[<<i, g[i]>>]
  BY <1>5 DEF Iterates
<1>. DEFINE h == [i \in 1..n |-> g[i - 1]]
<1>7. \A i \in 1..n : /\ i - 1 \in Nat /\ h[i] = g[i - 1] /\ h[i] \in T
                      /\ i # 1 => i - 1 \in 1..n /\ h[i - 1] = g[(i - 1) - 1]
  <2>. TAKE i \in 1..n
  <2>1. i - 1 \in Nat /\ (i # 1 => i - 1 \in 1..n)
    OBVIOUS
  <2>. QED BY <1>6, <2>1
<1>8. ASSUME NEW i \in 1..n, i # 1 PROVE h[i] = h[i - 1] \o seqs[i]
  <2>1. PICK j \in Nat : i = j + 2
    <3>1. i - 2 \in Nat /\ i = (i - 2) + 2
      BY <1>8
    <3>. QED BY <3>1
  <2>2. i - 1 = j + 1 /\ (i - 1) - 1 = j /\ j + 2 <= n
    BY <2>1
  <2>3. h[i] = g[j + 1] /\ h[i - 1] = g[j] /\ g[j] \in T /\ g[j + 1] = step[<<j, g[j]>>]
    BY <1>6, <1>7, <1>8, <2>2
  <2>4. step[<<j, g[j]>>] = g[j] \o seqs[j + 2]
    BY <1>2, <2>2, <2>3
  <2>. QED BY <2>1, <2>3, <2>4
<1>9. h[1] = seqs[1]
  <2>1. 1 \in 1..n /\ 1 - 1 = 0
    OBVIOUS
  <2>. QED BY <1>6, <2>1
<1>10. Flattens(h, seqs, n)
  <2>1. h = [i \in 1..n |-> h[i]]
    OBVIOUS
  <2>. HIDE DEF h
  <2>2. \A i \in 1..n : h[i] = IF i = 1 THEN seqs[i] ELSE h[i - 1] \o seqs[i]
    BY <1>8, <1>9
  <2>. QED BY <2>1, <2>2 DEF Flattens
<1>11. Flattens(f, seqs, n)
  BY <1>10 DEF Flat
<1>. HIDE DEF h
<1>12. \A i \in 1..n : f[i] = IF i = 1 THEN seqs[i] ELSE f[i - 1] \o seqs[i]
  BY <1>11 DEF Flattens
<1>13. \A i \in Nat : i + 1 <= n => f[i + 1] \in T
  <2>. DEFINE M == {i \in Nat : i + 1 <= n => f[i + 1] \in T}
  <2>1. 0 \in M
    <3>1. f[1] = seqs[1]
      BY <1>12
    <3>. QED BY <1>4, <3>1
  <2>2. ASSUME NEW i \in Nat, i \in M PROVE i + 1 \in M
    <3>. SUFFICES ASSUME (i + 1) + 1 <= n PROVE f[(i + 1) + 1] \in T
      OBVIOUS
    <3>1. f[i + 1] \in T /\ (i + 1) + 1 \in 1..n /\ (i + 1) + 1 # 1 /\ ((i + 1) + 1) - 1 = i + 1
      BY <2>2
    <3>2. f[(i + 1) + 1] = f[i + 1] \o seqs[(i + 1) + 1]
      BY <1>12, <3>1
    <3>3. PICK u \in T, t \in T : u = f[i + 1] /\ t = seqs[(i + 1) + 1]
      BY <1>1, <3>1
    <3>4. u \o t \in T
      BY DEF T
    <3>. QED BY <3>2, <3>3, <3>4
  <2>. HIDE DEF M
  <2>3. Nat \subseteq M
    BY <2>1, <2>2, Inductive
  <2>. QED BY <2>3 DEF M
<1>14. PICK m \in Nat : m + 1 = n
  <2>1. n - 1 \in Nat /\ (n - 1) + 1 = n
    OBVIOUS
  <2>. QED BY <2>1
<1>15. f[n] \in T
  BY <1>13, <1>14
<1>. QED BY <1>15 DEF T

\* The spans of a batch are lists of attributes.
LEMMA SpansAre ==
    ASSUME NEW batch \in Batch
    PROVE  Spans(batch) \in Seq(Seq(Attribute))
<1>. DEFINE seqs == [i \in DOMAIN batch.resources |-> batch.resources[i].spans]
            R == [service : STRING, spans : Seq(Seq(Attribute))]
<1>1. PICK rs \in Seq(R) : rs = batch.resources
  BY BatchAssumption
<1>2. PICK n \in Nat : n = Len(rs) /\ DOMAIN rs = 1..n
  OBVIOUS
<1>3. \A i \in 1..n : rs[i] \in R /\ rs[i].spans \in Seq(Seq(Attribute))
  <2>. HIDE DEF R
  <2>1. \A i \in 1..n : rs[i] \in R
    BY <1>2
  <2>2. \A r \in R : r.spans \in Seq(Seq(Attribute))
    BY DEF R
  <2>. QED BY <2>1, <2>2
<1>4. seqs \in [1..n -> Seq(Seq(Attribute))]
  BY <1>1, <1>2, <1>3
<1>5. Spans(batch) = FlattenSeq(seqs)
  BY DEF Spans
<1>. HIDE DEF seqs
<1>6. seqs \in Seq(Seq(Seq(Attribute))) /\ Len(seqs) = n
  BY <1>4, FunctionIsSeq
<1>7. CASE n = 0
  <2>1. seqs = <<>>
    BY <1>6, <1>7
  <2>. QED BY <1>5, <1>6, <1>7, <2>1 DEF FlattenSeq
<1>8. CASE n # 0
  <2>. DEFINE f == CHOOSE g : Flattens(g, seqs, n)
  <2>1. FlattenSeq(seqs) = f[n]
    BY <1>6, <1>8 DEF FlattenSeq, Flattens
  <2>2. Flat(f, seqs, n)
    BY DEF Flat
  <2>. HIDE DEF f
  <2>3. f[n] \in Seq(Seq(Attribute))
    BY <1>6, <1>8, <2>2, FlatIs
  <2>. QED BY <1>5, <2>1, <2>3
<1>. QED BY <1>7, <1>8

\* A batch that is taken has a sender, and no more spans than are allowed.
LEMMA Taken ==
    ASSUME NEW request, NEW user, Status(request, user) = 202
    PROVE  user # NoUser /\ ~(Len(Spans(request.batch)) > MaxSpans)
<1>. DEFINE code == <<403, 401, 413, 404, 415, 400>>
            refusals == << <<403, ~MayPass(request)>>,
                           <<401, user = NoUser>>,
                           <<413, request.batch.size > Limit>>,
                           <<404, ~request.enabled>>,
                           <<415, request.encoding = "other">>,
                           <<400, \/ request.encoding = "malformed"
                                  \/ ServiceName(request.batch) # Web
                                  \/ Len(Spans(request.batch)) > MaxSpans>> >>
            met == {k \in DOMAIN refusals : refusals[k][2]}
<1>1. Status(request, user) = IF met = {} THEN 202 ELSE refusals[Min(met)][1]
  BY Zenon DEF Status
<1>2. DOMAIN refusals = 1..6 /\ \A k \in 1..6 : refusals[k][1] # 202
  OBVIOUS
<1>3. (refusals[2][2] <=> user = NoUser)
  OBVIOUS
<1>4. Len(Spans(request.batch)) > MaxSpans => refusals[6][2]
  OBVIOUS
<1>5. met \in SUBSET Nat
  BY <1>2
<1>6. met = {}
  <2>1. SUFFICES ASSUME met # {} PROVE FALSE
    OBVIOUS
  <2>. HIDE DEF refusals, met
  <2>2. Min(met) \in met
    BY <1>5, <2>1, MinIs
  <2>3. Min(met) \in 1..6
    BY <1>2, <2>2 DEF met
  <2>. QED BY <1>1, <1>2, <2>1, <2>3
<1>. HIDE DEF refusals
<1>7. 2 \in DOMAIN refusals /\ 6 \in DOMAIN refusals
  BY <1>2
<1>. QED BY <1>3, <1>4, <1>6, <1>7, Zenon

\* What is written of a span.
LEMMA WrittenIs ==
    ASSUME NEW span \in Seq(Attribute), NEW user
    PROVE  LET w == Written(span, user) IN
           /\ w["user.id"] = user /\ w["service.name"] = Web
           /\ DOMAIN w \ {"user.id", "service.name"} = KeptKeys(span)
<1>. DEFINE kept == Attributes(span)
            keys == {kept[i].key : i \in DOMAIN kept} \cup {"service.name", "user.id"}
            w == Written(span, user)
<1>1. DOMAIN w = keys
  BY DEF Written
<1>2. w["user.id"] = user
  BY DEF Written
<1>3. w["service.name"] = Web
  BY DEF Written
<1>4. keys = KeptKeys(span) \cup {"service.name", "user.id"}
  BY AttributesAre
<1>5. KeptKeys(span) \subseteq {"http.method", "url.path"}
  BY DEF KeptKeys
<1>. HIDE DEF w, keys
<1>6. DOMAIN w \ {"user.id", "service.name"} = KeptKeys(span)
  BY <1>1, <1>4, <1>5
<1>. QED BY <1>2, <1>3, <1>6 DEF w

LEMMA LogBegins == FrontInit => SpansAreTheServers
BY DEF FrontInit, SpansAreTheServers

LEMMA LogStep ==
    ASSUME SpansAreTheServers, NEW batch \in Batch, NEW user, NEW request, request.batch = batch,
           TelemetryRequest(request, user)
    PROVE  SpansAreTheServers'
<1>. DEFINE spans == Spans(batch)
<1>1. /\ answer' = Status(request, user) /\ sent' = [batch |-> batch, user |-> user]
      /\ answer' # 202 => logged' = <<>>
      /\ answer' = 202 => logged' = [i \in DOMAIN spans |-> Written(spans[i], user)]
  BY DEF TelemetryRequest
<1>2. spans \in Seq(Seq(Attribute))
  BY SpansAre
<1>3. ASSUME answer' = 202
      PROVE  /\ sent'.user # NoUser
             /\ Len(logged') = Len(Spans(sent'.batch)) /\ Len(logged') <= MaxSpans
             /\ \A i \in DOMAIN logged' :
                   /\ logged'[i]["user.id"] = sent'.user /\ logged'[i]["service.name"] = Web
                   /\ DOMAIN logged'[i] \ {"user.id", "service.name"} = KeptKeys(Spans(sent'.batch)[i])
  <2>1. user # NoUser /\ ~(Len(spans) > MaxSpans)
    <3>1. Status(request, user) = 202
      BY <1>1, <1>3
    <3>2. user # NoUser
      BY <3>1, Taken
    <3>3. ~(Len(Spans(request.batch)) > MaxSpans)
      BY <3>1, Taken
    <3>. QED BY <3>2, <3>3
  <2>2. sent'.user = user /\ sent'.batch = batch
    BY <1>1
  <2>. HIDE DEF spans
  <2>3. PICK n \in Nat : n = Len(spans) /\ DOMAIN spans = 1..n /\ \A i \in 1..n : spans[i] \in Seq(Attribute)
    BY <1>2
  <2>4. DOMAIN logged' = 1..n /\ \A i \in 1..n : logged'[i] = Written(spans[i], user)
    BY <1>1, <1>3, <2>3
  <2>5. Len(logged') = n
    <3>1. logged' = [i \in 1..n |-> logged'[i]]
      BY <1>1, <1>3, <2>3
    <3>. QED BY <3>1
  <2>6. n <= MaxSpans
    BY <2>1, <2>3, BatchAssumption
  <2>7. \A i \in 1..n : /\ logged'[i]["user.id"] = user /\ logged'[i]["service.name"] = Web
                        /\ DOMAIN logged'[i] \ {"user.id", "service.name"} = KeptKeys(spans[i])
    BY <2>3, <2>4, WrittenIs
  <2>. QED BY <2>1, <2>2, <2>3, <2>4, <2>5, <2>6, <2>7 DEF spans
<1>. QED BY <1>1, <1>3 DEF SpansAreTheServers

-----------------------------------------------------------------------------
\* The lines of the log (Journal).

\* A masked leaf has a secret name at most at its end, and nothing of its text then.
LEMMA MaskedIs ==
    ASSUME NEW leaf, leaf.path \in Seq(STRING)
    PROVE  \A i \in DOMAIN Masked(leaf).path :
              IsSensitive(Masked(leaf).path[i]) =>
                  i = Len(Masked(leaf).path) /\ Masked(leaf).text = Mask
<1>. DEFINE path == leaf.path
            m == Min(Secrets(path))
<1>. PICK n \in Nat : n = Len(path)
  OBVIOUS
<1>1. DOMAIN path = 1..n
  OBVIOUS
<1>2. CASE Secrets(path) = {}
  BY <1>2 DEF Masked, Secrets
<1>3. CASE Secrets(path) # {}
  <2>1. Secrets(path) \in SUBSET Nat
    BY <1>1 DEF Secrets
  <2>2. m \in Secrets(path) /\ \A x \in Secrets(path) : m <= x
    BY <1>3, <2>1, MinIs
  <2>3. m \in 1..n /\ \A i \in 1..n : IsSensitive(path[i]) => m <= i
    BY <1>1, <2>2 DEF Secrets
  <2>4. Masked(leaf).path = SubSeq(path, 1, m) /\ Masked(leaf).text = Mask
    BY <1>3 DEF Masked
  <2>. HIDE DEF m
  <2>5. /\ DOMAIN SubSeq(path, 1, m) = 1..m /\ Len(SubSeq(path, 1, m)) = m
        /\ \A i \in 1..m : SubSeq(path, 1, m)[i] = path[i]
    BY <1>1, <2>3
  <2>6. ASSUME NEW i \in 1..m, IsSensitive(path[i]) PROVE i = m
    <3>1. i \in 1..n /\ m <= i
      BY <2>3, <2>6
    <3>. QED BY <2>3, <3>1
  <2>. QED BY <2>4, <2>5, <2>6
<1>. QED BY <1>2, <1>3

\* What a line becomes has no secret.
LEMMA RedactedIsMasked ==
    ASSUME NEW line \in Line \cup {{}}
    PROVE  IsMasked(RedactValue(line)) /\ RedactValue(line).kind = "value"
<1>1. RedactValue(line).leaves = {Masked(leaf) : leaf \in line} /\ RedactValue(line).kind = "value"
  BY DEF RedactValue, Value
<1>2. \A leaf \in line : leaf.path \in Seq(STRING)
  BY JournalAssumption
<1>3. \A leaf \in line : \A i \in DOMAIN Masked(leaf).path :
              IsSensitive(Masked(leaf).path[i]) =>
                  i = Len(Masked(leaf).path) /\ Masked(leaf).text = Mask
  BY <1>2, MaskedIs
<1>. QED BY <1>1, <1>3 DEF IsMasked

\* What a line may look like when it is out.
Text == {Newline, Blank, Dropped} \cup {RedactValue(line) : line \in Line \cup {{}}}

LEMMA TextIsMasked == \A text \in Text : IsMasked(text)
<1>1. IsMasked(Newline) /\ IsMasked(Blank) /\ IsMasked(Dropped)
  BY DEF IsMasked, Newline, Blank, Dropped
<1>. QED BY <1>1, RedactedIsMasked DEF Text

LEMMA LinesText ==
    ASSUME NEW line \in Line \cup {{}}
    PROVE  /\ \A parts : RedactLine(line, parts) \in Text
           /\ RedactLine(line, <<1, 2>>) = RedactValue(line)
           /\ RedactValue(line) \in Text /\ Newline \in Text /\ RedactValue(line) # Newline
<1>1. RedactValue(line) # Newline
  <2>1. RedactValue(line).kind = "value" /\ Newline.kind = "newline"
    BY RedactedIsMasked DEF Newline
  <2>. QED BY <2>1
<1>2. \A parts : RedactLine(line, parts) \in {Blank, Dropped, RedactValue(line)}
  BY DEF RedactLine
<1>3. RedactLine(line, <<1, 2>>) = RedactValue(line)
  <2>1. <<1, 2>> # <<>>
    OBVIOUS
  <2>. QED BY <2>1 DEF RedactLine
<1>. QED BY <1>1, <1>2, <1>3 DEF Text

\* How far a writer is with its line, as long as nothing is flushed.
WriterRow == [line : Line \cup {{}}, coming : Seq(1..3), pending : Seq(1..3), todo : Seq(Text)]

\* Between two lines; with more of the line to come; with what is left to put out.
Resting(w) == w.coming = <<>> /\ w.pending = <<>> /\ w.todo = <<>>
CutAt(p, early, coming) ==
    /\ Len(early) = p /\ Len(coming) = 3 - p
    /\ \A i \in 1..p : early[i] = i
    /\ \A i \in 1..(3 - p) : coming[i] = p + i
Hearing(w) == w.todo = <<>> /\ w.line \in Line /\ \E p \in 0..2 : CutAt(p, w.pending, w.coming)
Leaving(w) == w.coming = <<>> /\ w.pending = <<>>
              /\ w.todo \in {<<RedactValue(w.line), Newline>>, <<Newline>>}

\* The writes of a line come in the order in which it was cut.
LEMMA CutsOn ==
    ASSUME NEW early \in Seq(1..3), NEW coming \in Seq(1..3), NEW p \in 0..2,
           CutAt(p, early, coming), NEW n \in 1..(3 - p)
    PROVE  /\ coming[n] = p + n
           /\ p + n = 3 => early \o SubSeq(coming, 1, n - 1) = <<1, 2>>
           /\ p + n < 3 => CutAt(p + n, early \o SubSeq(coming, 1, n), SubSeq(coming, n + 1, Len(coming)))
<1>1. /\ Len(early) = p /\ Len(coming) = 3 - p
      /\ \A i \in 1..p : early[i] = i
      /\ \A i \in 1..(3 - p) : coming[i] = p + i
  BY DEF CutAt
<1>2. ASSUME NEW m \in 0..2, m <= 3 - p
      PROVE  /\ Len(early \o SubSeq(coming, 1, m)) = p + m
             /\ early \o SubSeq(coming, 1, m) \in Seq(1..3)
             /\ \A i \in 1..(p + m) : (early \o SubSeq(coming, 1, m))[i] = i
  <2>. DEFINE b == SubSeq(coming, 1, m)
  <2>1. b \in Seq(1..3) /\ Len(b) = m /\ \A i \in 1..m : b[i] = coming[i]
    BY <1>1, <1>2
  <2>. HIDE DEF b
  <2>. DEFINE s == early \o b
  <2>2. /\ s \in Seq(1..3) /\ Len(s) = p + m
        /\ \A i \in 1..p : s[i] = early[i]
        /\ \A i \in 1..m : s[p + i] = b[i]
    <3>1. p \in Nat /\ m \in Nat /\ Len(early) = p /\ Len(b) = m /\ b \in Seq(1..3)
      BY <1>1, <2>1
    <3>. HIDE DEF b
    <3>. QED BY <3>1, SMTT(30)
  <2>. HIDE DEF s
  <2>3. ASSUME NEW i \in 1..(p + m) PROVE s[i] = i
    <3>1. CASE i <= p
      BY <1>1, <2>2, <3>1
    <3>2. CASE i > p
      <4>1. PICK j \in 1..m : i = p + j
        <5>1. i - p \in 1..m /\ i = p + (i - p)
          BY <3>2
        <5>. QED BY <5>1
      <4>2. j \in 1..(3 - p)
        BY <1>2
      <4>3. s[p + j] = coming[j]
        BY <2>1, <2>2
      <4>. QED BY <1>1, <4>1, <4>2, <4>3
    <3>. QED BY <3>1, <3>2
  <2>. QED BY <2>2, <2>3 DEF s, b
<1>3. ASSUME p + n = 3 PROVE early \o SubSeq(coming, 1, n - 1) = <<1, 2>>
  <2>1. n - 1 \in 0..2 /\ n - 1 <= 3 - p /\ p + (n - 1) = 2
    BY <1>3
  <2>. DEFINE s == early \o SubSeq(coming, 1, n - 1)
  <2>2. /\ Len(s) = p + (n - 1) /\ s \in Seq(1..3)
        /\ \A i \in 1..(p + (n - 1)) : s[i] = i
    BY <1>2, <2>1
  <2>. HIDE DEF s
  <2>3. Len(s) = 2 /\ s \in Seq(1..3) /\ s[1] = 1 /\ s[2] = 2
    BY <2>1, <2>2
  <2>4. s = [i \in 1..2 |-> i]
    <3>1. DOMAIN s = 1..2 /\ s = [i \in DOMAIN s |-> s[i]] /\ \A i \in 1..2 : i = 1 \/ i = 2
      BY <2>3
    <3>. QED BY <2>3, <3>1
  <2>5. <<1, 2>> = [i \in 1..2 |-> i]
    OBVIOUS
  <2>. QED BY <2>4, <2>5 DEF s
<1>4. ASSUME p + n < 3
      PROVE  CutAt(p + n, early \o SubSeq(coming, 1, n), SubSeq(coming, n + 1, Len(coming)))
  <2>1. n \in 0..2 /\ n <= 3 - p
    BY <1>4
  <2>. DEFINE s == early \o SubSeq(coming, 1, n)
              a == SubSeq(coming, n + 1, Len(coming))
  <2>2. /\ Len(s) = p + n
        /\ \A i \in 1..(p + n) : s[i] = i
    BY <1>2, <2>1
  <2>3. Len(a) = 3 - (p + n) /\ \A i \in 1..(3 - (p + n)) : a[i] = coming[n + i]
    <3>1. a = SubSeq(coming, n + 1, 3 - p) /\ n + 1 \in Nat /\ 3 - p \in Nat /\ n + 1 <= (3 - p) + 1
      BY <1>1, <1>4
    <3>. HIDE DEF a
    <3>. QED BY <1>1, <1>4, <3>1
  <2>. HIDE DEF s, a
  <2>4. ASSUME NEW i \in 1..(3 - (p + n)) PROVE a[i] = (p + n) + i
    <3>1. n + i \in 1..(3 - p) /\ p + (n + i) = (p + n) + i
      BY <1>4
    <3>. QED BY <1>1, <2>3, <3>1
  <2>. QED BY <2>2, <2>3, <2>4 DEF CutAt, s, a
<1>5. coming[n] = p + n
  BY <1>1
<1>. QED BY <1>3, <1>4, <1>5

\* The last write of a line completes it, and any other leaves more to come.
LEMMA Hears ==
    ASSUME NEW w \in WriterRow, Hearing(w), NEW n \in DOMAIN w.coming
    PROVE  /\ w.coming[n] = End =>
                 RedactLine(w.line, w.pending \o SubSeq(w.coming, 1, n - 1)) = RedactValue(w.line)
           /\ w.coming[n] # End =>
                 Hearing([w EXCEPT !.coming = SubSeq(@, n + 1, Len(@)),
                                   !.pending = @ \o SubSeq(w.coming, 1, n)])
<1>1. PICK early \in Seq(1..3), coming \in Seq(1..3) : early = w.pending /\ coming = w.coming
  BY DEF WriterRow
<1>2. PICK p \in 0..2 : CutAt(p, early, coming)
  BY <1>1 DEF Hearing
<1>3. n \in 1..(3 - p)
  <2>1. Len(coming) = 3 - p /\ n \in DOMAIN coming
    BY <1>1, <1>2 DEF CutAt
  <2>. QED BY <1>1, <2>1
<1>4. /\ coming[n] = p + n
      /\ p + n = 3 => early \o SubSeq(coming, 1, n - 1) = <<1, 2>>
      /\ p + n < 3 => CutAt(p + n, early \o SubSeq(coming, 1, n), SubSeq(coming, n + 1, Len(coming)))
  BY <1>2, <1>3, CutsOn
<1>5. p + n \in 0..3 /\ (p + n < 3 => p + n \in 0..2)
  BY <1>3
<1>6. ASSUME w.coming[n] = End
      PROVE  RedactLine(w.line, w.pending \o SubSeq(w.coming, 1, n - 1)) = RedactValue(w.line)
  <2>1. p + n = 3
    BY <1>1, <1>4, <1>6 DEF End
  <2>2. w.pending \o SubSeq(w.coming, 1, n - 1) = <<1, 2>>
    BY <1>1, <1>4, <2>1
  <2>. QED BY <2>2, LinesText DEF WriterRow
<1>7. ASSUME w.coming[n] # End
      PROVE  Hearing([w EXCEPT !.coming = SubSeq(@, n + 1, Len(@)),
                               !.pending = @ \o SubSeq(w.coming, 1, n)])
  <2>. DEFINE v == [w EXCEPT !.coming = SubSeq(@, n + 1, Len(@)), !.pending = @ \o SubSeq(w.coming, 1, n)]
  <2>1. p + n < 3
    BY <1>1, <1>4, <1>5, <1>7 DEF End
  <2>2. /\ v.coming = SubSeq(coming, n + 1, Len(coming)) /\ v.todo = w.todo /\ v.line = w.line
        /\ v.pending = early \o SubSeq(coming, 1, n)
    BY <1>1 DEF WriterRow
  <2>. HIDE DEF v
  <2>3. Hearing(v)
    BY <1>4, <1>5, <2>1, <2>2 DEF Hearing
  <2>. QED BY <2>3 DEF v
<1>. QED BY <1>6, <1>7

\* Who has a line's text yet to put out, and who its end.
Unsaid  == {t \in Thread : writer[t].coming # <<>> \/ Len(writer[t].todo) = 2}
Unended == {t \in Thread : ~Idle(t)}

JournalTypeOK ==
    /\ lines \in Seq(Line) /\ writer \in [Thread -> WriterRow]
    /\ out \in Seq(Text) /\ flushed \in BOOLEAN

\* Every line is out, or in one writer's hands; and nothing else is.
EveryLineIsKept ==
    /\ \A t \in Thread : Resting(writer[t]) \/ Hearing(writer[t]) \/ Leaving(writer[t])
    /\ Len(out) + Cardinality(Unsaid) + Cardinality(Unended) = 2 * Len(lines)
    /\ \A i \in DOMAIN out : out[i] # Newline => \E j \in DOMAIN lines : out[i] = RedactValue(lines[j])
    /\ \A t \in Unsaid : \E j \in DOMAIN lines : writer[t].line = lines[j]
    /\ \A j \in DOMAIN lines : \/ \E i \in DOMAIN out : out[i] = RedactValue(lines[j])
                               \/ \E t \in Unsaid : writer[t].line = lines[j]

\* It holds until a writer is flushed, and the types do after it, too.
JournalInv == JournalTypeOK /\ (~flushed => EveryLineIsKept)

\* A set of writers, and one more or one fewer.
LEMMA OneMoreIn ==
    ASSUME NEW S, IsFiniteSet(S), NEW T \in SUBSET S, NEW x \in S
    PROVE  /\ IsFiniteSet(T) /\ Cardinality(T) \in Nat
           /\ x \notin T => Cardinality(T \cup {x}) = Cardinality(T) + 1
           /\ x \in T => Cardinality(T \ {x}) = Cardinality(T) - 1
<1>1. IsFiniteSet(T)
  BY FS_Subset
<1>. QED BY <1>1, FS_CardinalityType, FS_AddElement, FS_RemoveElement

LEMMA JournalBegins == JournalInit => JournalInv
<1>. SUFFICES ASSUME JournalInit PROVE JournalInv
  OBVIOUS
<1>1. JournalTypeOK
  <2>1. [line |-> {}, coming |-> <<>>, pending |-> <<>>, todo |-> <<>>] \in WriterRow
    BY DEF WriterRow
  <2>2. writer \in [Thread -> WriterRow]
    BY <2>1 DEF JournalInit
  <2>3. \A S : <<>> \in Seq(S)
    OBVIOUS
  <2>. QED BY <2>2, <2>3 DEF JournalInit, JournalTypeOK
<1>2. \A t \in Thread : writer[t].coming = <<>> /\ writer[t].pending = <<>> /\ writer[t].todo = <<>>
  BY DEF JournalInit
<1>3. Unsaid = {} /\ Unended = {}
  BY <1>2 DEF Unsaid, Unended, Idle
<1>4. Cardinality({}) = 0
  BY FS_EmptySet
<1>. QED BY <1>1, <1>2, <1>3, <1>4 DEF JournalInv, EveryLineIsKept, JournalInit, Resting

LEMMA IdleRests ==
    ASSUME NEW t \in Thread
    PROVE  /\ Idle(t) <=> Resting(writer[t])
           /\ Hearing(writer[t]) => t \in Unsaid /\ t \in Unended
           /\ Leaving(writer[t]) => t \in Unended /\ (t \in Unsaid <=> Len(writer[t].todo) = 2)
           /\ Resting(writer[t]) => t \notin Unsaid /\ t \notin Unended
<1>1. Hearing(writer[t]) => writer[t].coming # <<>>
  BY DEF Hearing, CutAt
<1>2. Leaving(writer[t]) => writer[t].coming = <<>> /\ writer[t].todo # <<>>
  <2>1. \A a, b : <<a, b>> # <<>> /\ <<a>> # <<>>
    OBVIOUS
  <2>. QED BY <2>1 DEF Leaving
<1>3. Resting(writer[t]) => writer[t].coming = <<>> /\ writer[t].todo = <<>>
  BY DEF Resting
<1>. QED BY <1>1, <1>2, <1>3 DEF Idle, Resting, Unsaid, Unended

\* A step is of one writer.
LEMMA OneWriter ==
    ASSUME writer \in [Thread -> WriterRow], NEW t \in Thread, NEW row, writer' = [writer EXCEPT ![t] = row]
    PROVE  /\ writer'[t] = row /\ \A u \in Thread : u # t => writer'[u] = writer[u]
           /\ \A u \in Thread : u # t => (Idle(u)' <=> Idle(u))
           /\ row \in WriterRow => writer' \in [Thread -> WriterRow]
<1>1. writer'[t] = row /\ \A u \in Thread : u # t => writer'[u] = writer[u]
  OBVIOUS
<1>. QED BY <1>1 DEF Idle

LEMMA FormatStep == ASSUME JournalInv, NEW t \in Thread, NEW line \in Line, Format(t, line) PROVE JournalInv'
<1>. DEFINE row == [line |-> line, coming |-> <<1, 2, End>>, pending |-> <<>>, todo |-> <<>>]
<1>1. /\ JournalTypeOK /\ Idle(t) /\ lines' = Append(lines, line) /\ out' = out /\ flushed' = flushed
      /\ writer' = [writer EXCEPT ![t] = row]
  BY DEF Format, JournalInv
<1>2. row \in WriterRow /\ row.line = line /\ row.coming = <<1, 2, 3>> /\ row.pending = <<>> /\ row.todo = <<>>
  BY DEF WriterRow, End
<1>. HIDE DEF row
<1>3. /\ writer'[t] = row /\ \A u \in Thread : u # t => writer'[u] = writer[u]
      /\ writer' \in [Thread -> WriterRow] /\ \A u \in Thread : u # t => (Idle(u)' <=> Idle(u))
  BY <1>1, <1>2, OneWriter DEF JournalTypeOK
<1>4. PICK n \in Nat : n = Len(lines)
  BY <1>1 DEF JournalTypeOK
<1>5. /\ lines' \in Seq(Line) /\ Len(lines') = n + 1 /\ DOMAIN lines' = 1..(n + 1) /\ DOMAIN lines = 1..n
      /\ lines'[n + 1] = line /\ \A j \in 1..n : lines'[j] = lines[j]
  BY <1>1, <1>4, AppendIs DEF JournalTypeOK
<1>6. JournalTypeOK'
  BY <1>1, <1>3, <1>5 DEF JournalTypeOK
<1>7. ASSUME ~flushed PROVE EveryLineIsKept'
  <2>1. EveryLineIsKept
    BY <1>7 DEF JournalInv
  <2>2. Hearing(row)
    <3>1. CutAt(0, <<>>, <<1, 2, 3>>)
      BY DEF CutAt
    <3>. QED BY <1>2, <3>1 DEF Hearing
  <2>3. t \notin Unsaid /\ t \notin Unended
    BY <1>1, IdleRests
  <2>4. t \in Unsaid' /\ t \in Unended'
    <3>1. writer'[t].coming # <<>>
      <4>1. <<1, 2, 3>> # <<>>
        OBVIOUS
      <4>. QED BY <1>2, <1>3, <4>1
    <3>. QED BY <3>1 DEF Unsaid, Unended, Idle
  <2>5. \A u \in Thread : u # t => (u \in Unsaid' <=> u \in Unsaid) /\ (u \in Unended' <=> u \in Unended)
    BY <1>3 DEF Unsaid, Unended
  <2>6. Unsaid \in SUBSET Thread /\ Unended \in SUBSET Thread /\ Unsaid' \in SUBSET Thread /\ Unended' \in SUBSET Thread
    BY DEF Unsaid, Unended
  <2>7. Unsaid' = Unsaid \cup {t} /\ Unended' = Unended \cup {t}
    BY <2>4, <2>5, <2>6
  <2>8. PICK a \in Nat, b \in Nat : a = Cardinality(Unsaid) /\ b = Cardinality(Unended)
                                   /\ Cardinality(Unsaid') = a + 1 /\ Cardinality(Unended') = b + 1
    BY <2>3, <2>6, <2>7, OneMoreIn, JournalAssumption
  <2>9. PICK o \in Nat : o = Len(out)
    BY <1>1 DEF JournalTypeOK
  <2>10. o + a + b = 2 * n
    BY <1>4, <2>1, <2>8, <2>9 DEF EveryLineIsKept
  <2>11. (Len(out) + Cardinality(Unsaid) + Cardinality(Unended) = 2 * Len(lines))'
    <3>1. Len(out') = o /\ Len(lines') = n + 1
      BY <1>1, <1>5, <2>9
    <3>2. o + (a + 1) + (b + 1) = 2 * (n + 1)
      BY <2>10
    <3>. QED BY <2>8, <3>1, <3>2
  <2>12. \A i \in DOMAIN out : out[i] # Newline => \E j \in DOMAIN lines' : out[i] = RedactValue(lines'[j])
    BY <1>5, <2>1 DEF EveryLineIsKept
  <2>13. \A u \in Unsaid' : \E j \in DOMAIN lines' : writer'[u].line = lines'[j]
    <3>. TAKE u \in Unsaid'
    <3>1. CASE u = t
      BY <1>2, <1>3, <1>5, <3>1
    <3>2. CASE u # t
      BY <1>3, <1>5, <2>1, <2>5, <2>6, <3>2 DEF EveryLineIsKept
    <3>. QED BY <3>1, <3>2
  <2>14. \A j \in DOMAIN lines' : \/ \E i \in DOMAIN out : out[i] = RedactValue(lines'[j])
                                  \/ \E u \in Unsaid' : writer'[u].line = lines'[j]
    <3>. TAKE j \in DOMAIN lines'
    <3>1. CASE j = n + 1
      BY <1>2, <1>3, <1>5, <2>4, <3>1
    <3>2. CASE j # n + 1
      <4>1. j \in DOMAIN lines /\ lines'[j] = lines[j]
        BY <1>5, <3>2
      <4>. QED BY <1>3, <2>1, <2>3, <2>5, <2>6, <4>1 DEF EveryLineIsKept
    <3>. QED BY <3>1, <3>2
  <2>15. \A u \in Thread : Resting(writer'[u]) \/ Hearing(writer'[u]) \/ Leaving(writer'[u])
    BY <1>3, <2>1, <2>2 DEF EveryLineIsKept
  <2>. QED BY <1>1, <2>11, <2>12, <2>13, <2>14, <2>15 DEF EveryLineIsKept
<1>. QED BY <1>1, <1>6, <1>7 DEF JournalInv

\* A step of one writer by which no line comes or goes.
LEMMA SameLines ==
    ASSUME JournalInv, NEW t \in Thread, NEW row \in WriterRow, writer' = [writer EXCEPT ![t] = row],
           lines' = lines, out' = out, flushed' \in BOOLEAN,
           ~flushed' => /\ ~flushed /\ row.line = writer[t].line /\ t \in Unsaid
                        /\ Hearing(row) \/ (Leaving(row) /\ Len(row.todo) = 2)
    PROVE  JournalInv'
<1>1. /\ writer'[t] = row /\ \A u \in Thread : u # t => writer'[u] = writer[u]
      /\ writer' \in [Thread -> WriterRow] /\ \A u \in Thread : u # t => (Idle(u)' <=> Idle(u))
  BY OneWriter DEF JournalInv, JournalTypeOK
<1>2. JournalTypeOK'
  BY <1>1 DEF JournalInv, JournalTypeOK
<1>3. ASSUME ~flushed' PROVE EveryLineIsKept'
  <2>1. EveryLineIsKept /\ t \in Unsaid /\ t \in Unended
    <3>1. EveryLineIsKept /\ t \in Unsaid
      BY <1>3 DEF JournalInv
    <3>. QED BY <3>1, IdleRests DEF EveryLineIsKept
  <2>2. row.coming # <<>> \/ (Len(row.todo) = 2 /\ row.todo # <<>>)
    <3>1. CASE Hearing(row)
      BY <3>1 DEF Hearing, CutAt
    <3>2. CASE Len(row.todo) = 2
      <4>1. ASSUME row.todo = <<>> PROVE FALSE
        <5>1. Len(row.todo) = 0
          BY <4>1
        <5>. QED BY <3>2, <5>1
      <4>. QED BY <3>2, <4>1
    <3>. QED BY <1>3, <3>1, <3>2
  <2>3. t \in Unsaid' /\ t \in Unended'
    BY <1>1, <2>2 DEF Unsaid, Unended, Idle
  <2>4. \A u \in Thread : u # t => (u \in Unsaid' <=> u \in Unsaid) /\ (u \in Unended' <=> u \in Unended)
    BY <1>1 DEF Unsaid, Unended
  <2>5. Unsaid \in SUBSET Thread /\ Unended \in SUBSET Thread /\ Unsaid' \in SUBSET Thread /\ Unended' \in SUBSET Thread
    BY DEF Unsaid, Unended
  <2>6. Unsaid' = Unsaid /\ Unended' = Unended
    BY <2>1, <2>3, <2>4, <2>5
  <2>7. \A u \in Thread : writer'[u].line = writer[u].line
    BY <1>1, <1>3
  <2>8. \A u \in Thread : Resting(writer'[u]) \/ Hearing(writer'[u]) \/ Leaving(writer'[u])
    BY <1>1, <1>3, <2>1 DEF EveryLineIsKept
  <2>. QED BY <2>1, <2>5, <2>6, <2>7, <2>8 DEF EveryLineIsKept
<1>. QED BY <1>2, <1>3 DEF JournalInv

LEMMA WriteStep == ASSUME JournalInv, NEW t \in Thread, NEW n, Write(t, n) PROVE JournalInv'
<1>. DEFINE w == writer[t]
            done == [w EXCEPT !.coming = <<>>, !.pending = <<>>,
                              !.todo = <<RedactLine(w.line, w.pending \o SubSeq(w.coming, 1, n - 1)), Newline>>]
            more == [w EXCEPT !.coming = SubSeq(@, n + 1, Len(@)), !.pending = @ \o SubSeq(w.coming, 1, n)]
            row == IF w.coming[n] = End THEN done ELSE more
<1>1. /\ w \in WriterRow /\ w.todo = <<>> /\ n \in DOMAIN w.coming /\ flushed \in BOOLEAN
      /\ writer' = [writer EXCEPT ![t] = row] /\ lines' = lines /\ out' = out /\ flushed' = flushed
  BY DEF Write, JournalInv, JournalTypeOK
<1>2. RedactLine(w.line, w.pending \o SubSeq(w.coming, 1, n - 1)) \in Text /\ Newline \in Text
  BY <1>1, LinesText DEF WriterRow
<1>3. done \in WriterRow /\ done.line = w.line /\ done.coming = <<>> /\ done.pending = <<>>
      /\ done.todo = <<RedactLine(w.line, w.pending \o SubSeq(w.coming, 1, n - 1)), Newline>>
  <2>1. PICK text \in Text : text = RedactLine(w.line, w.pending \o SubSeq(w.coming, 1, n - 1))
    BY <1>2
  <2>2. <<text, Newline>> \in Seq(Text) /\ <<>> \in Seq(1..3)
    BY <1>2
  <2>. QED BY <1>1, <2>1, <2>2 DEF WriterRow
<1>4. more \in WriterRow /\ more.line = w.line
  <2>1. PICK p \in Seq(1..3), c \in Seq(1..3) : p = w.pending /\ c = w.coming
    BY <1>1 DEF WriterRow
  <2>2. PICK m \in Nat : m = Len(c) /\ DOMAIN c = 1..m
    BY <2>1
  <2>3. n \in 1..m
    BY <1>1, <2>1, <2>2
  <2>4. SubSeq(c, n + 1, m) \in Seq(1..3)
    BY <2>2, <2>3
  <2>5. SubSeq(c, 1, n) \in Seq(1..3)
    BY <2>2, <2>3
  <2>6. p \o SubSeq(c, 1, n) \in Seq(1..3)
    BY <2>5
  <2>. QED BY <1>1, <2>1, <2>2, <2>4, <2>6 DEF WriterRow
<1>5. row \in WriterRow /\ row.line = w.line
  BY <1>3, <1>4
<1>6. ASSUME ~flushed PROVE t \in Unsaid /\ (Hearing(row) \/ (Leaving(row) /\ Len(row.todo) = 2))
  <2>1. Hearing(w)
    <3>1. w.coming # <<>>
      BY <1>1
    <3>2. Resting(w) \/ Hearing(w) \/ Leaving(w)
      BY <1>6 DEF JournalInv, EveryLineIsKept
    <3>. QED BY <3>1, <3>2 DEF Resting, Leaving
  <2>2. /\ w.coming[n] = End =>
               RedactLine(w.line, w.pending \o SubSeq(w.coming, 1, n - 1)) = RedactValue(w.line)
        /\ w.coming[n] # End => Hearing(more)
    BY <1>1, <2>1, Hears
  <2>. HIDE DEF done, more
  <2>3. ASSUME w.coming[n] = End PROVE Leaving(done) /\ Len(done.todo) = 2
    BY <1>3, <2>2, <2>3 DEF Leaving
  <2>. QED BY <2>1, <2>2, <2>3, IdleRests
<1>. HIDE DEF row, w
<1>. QED BY <1>1, <1>5, <1>6, SameLines DEF w

LEMMA FlushStep == ASSUME JournalInv, NEW t \in Thread, Flush(t) PROVE JournalInv'
<1>. DEFINE w == writer[t]
            row == [w EXCEPT !.pending = <<>>, !.todo = <<RedactLine(w.line, w.pending), Newline>>]
<1>1. /\ w \in WriterRow /\ writer' = [writer EXCEPT ![t] = row]
      /\ lines' = lines /\ out' = out /\ flushed' = TRUE
  BY DEF Flush, JournalInv, JournalTypeOK
<1>2. RedactLine(w.line, w.pending) \in Text /\ Newline \in Text
  BY <1>1, LinesText DEF WriterRow
<1>3. row \in WriterRow
  <2>1. PICK text \in Text : text = RedactLine(w.line, w.pending)
    BY <1>2
  <2>2. <<text, Newline>> \in Seq(Text) /\ <<>> \in Seq(1..3)
    BY <1>2
  <2>. QED BY <1>1, <2>1, <2>2 DEF WriterRow
<1>. HIDE DEF row
<1>. QED BY <1>1, <1>3, SameLines

LEMMA PutStep == ASSUME JournalInv, NEW t \in Thread, Put(t) PROVE JournalInv'
<1>. DEFINE w == writer[t]
            row == [w EXCEPT !.todo = Tail(@)]
<1>1. /\ w \in WriterRow /\ w.todo # <<>> /\ flushed' = flushed /\ lines' = lines
      /\ writer' = [writer EXCEPT ![t] = row] /\ out' = Append(out, Head(w.todo))
  BY DEF Put, JournalInv, JournalTypeOK
<1>2. PICK todo \in Seq(Text) : todo = w.todo
  BY <1>1 DEF WriterRow
<1>3. Head(todo) \in Text /\ Tail(todo) \in Seq(Text)
  BY <1>1, <1>2
<1>4. /\ row \in WriterRow /\ row.line = w.line /\ row.coming = w.coming /\ row.pending = w.pending
      /\ row.todo = Tail(todo)
  BY <1>1, <1>2, <1>3 DEF WriterRow
<1>. HIDE DEF row
<1>5. /\ writer'[t] = row /\ \A u \in Thread : u # t => writer'[u] = writer[u]
      /\ writer' \in [Thread -> WriterRow] /\ \A u \in Thread : u # t => (Idle(u)' <=> Idle(u))
  BY <1>1, <1>4, OneWriter DEF JournalInv, JournalTypeOK
<1>6. PICK o \in Nat : o = Len(out)
  BY DEF JournalInv, JournalTypeOK
<1>7. /\ out' \in Seq(Text) /\ Len(out') = o + 1 /\ DOMAIN out' = 1..(o + 1) /\ DOMAIN out = 1..o
      /\ out'[o + 1] = Head(todo) /\ \A i \in 1..o : out'[i] = out[i]
  BY <1>1, <1>2, <1>3, <1>6, AppendIs DEF JournalInv, JournalTypeOK
<1>8. JournalTypeOK'
  BY <1>1, <1>5, <1>7 DEF JournalInv, JournalTypeOK
<1>9. ASSUME ~flushed PROVE EveryLineIsKept'
  <2>1. EveryLineIsKept
    BY <1>9 DEF JournalInv
  <2>2. /\ w.coming = <<>> /\ w.pending = <<>>
        /\ todo \in {<<RedactValue(w.line), Newline>>, <<Newline>>}
    <3>1. Resting(w) \/ Hearing(w) \/ Leaving(w)
      BY <2>1 DEF EveryLineIsKept
    <3>. QED BY <1>1, <1>2, <3>1 DEF Resting, Hearing, Leaving
  <2>3. \A u \in Thread : u # t => (u \in Unsaid' <=> u \in Unsaid) /\ (u \in Unended' <=> u \in Unended)
    BY <1>5 DEF Unsaid, Unended
  <2>4. Unsaid \in SUBSET Thread /\ Unended \in SUBSET Thread /\ Unsaid' \in SUBSET Thread /\ Unended' \in SUBSET Thread
    BY DEF Unsaid, Unended
  <2>5. t \in Unended
    BY <1>1 DEF Unended, Idle
  <2>6. PICK a \in Nat, b \in Nat : a = Cardinality(Unsaid) /\ b = Cardinality(Unended)
    BY <2>4, OneMoreIn, JournalAssumption
  <2>7. PICK n \in Nat : n = Len(lines)
    BY DEF JournalInv, JournalTypeOK
  <2>8. o + a + b = 2 * n
    BY <1>6, <2>1, <2>6, <2>7 DEF EveryLineIsKept
  <2>9. CASE todo = <<RedactValue(w.line), Newline>>
    <3>1. Head(todo) = RedactValue(w.line) /\ Tail(todo) = <<Newline>> /\ Len(todo) = 2 /\ Len(<<Newline>>) = 1
          /\ <<Newline>> # <<>>
      BY <2>9
    <3>2. t \in Unsaid /\ t \notin Unsaid' /\ t \in Unended'
      <4>1. writer'[t].coming = <<>> /\ writer'[t].todo = <<Newline>> /\ Len(writer'[t].todo) = 1
        BY <1>4, <1>5, <2>2, <3>1
      <4>2. Len(writer[t].todo) = 2
        BY <1>2, <3>1
      <4>3. t \in Unsaid
        BY <4>2 DEF Unsaid
      <4>4. t \notin Unsaid'
        BY <4>1 DEF Unsaid
      <4>5. t \in Unended'
        BY <3>1, <4>1 DEF Unended, Idle
      <4>. QED BY <4>3, <4>4, <4>5
    <3>3. Unsaid' = Unsaid \ {t} /\ Unended' = Unended
      <4>1. \A u : /\ u \in Unsaid' <=> u \in Unsaid /\ u # t
                   /\ u \in Unended' <=> u \in Unended
        BY <2>3, <2>4, <2>5, <3>2
      <4>. QED BY <4>1
    <3>4. Cardinality(Unsaid') = a - 1 /\ Cardinality(Unended') = b
      BY <2>4, <2>6, <3>2, <3>3, OneMoreIn, JournalAssumption
    <3>5. (Len(out) + Cardinality(Unsaid) + Cardinality(Unended) = 2 * Len(lines))'
      <4>1. (o + 1) + (a - 1) + b = 2 * n
        BY <2>8
      <4>. QED BY <1>1, <1>7, <2>7, <3>4, <4>1
    <3>6. PICK k \in DOMAIN lines : w.line = lines[k]
      BY <2>1, <3>2 DEF EveryLineIsKept
    <3>7. \A i \in DOMAIN out' : out'[i] # Newline => \E j \in DOMAIN lines : out'[i] = RedactValue(lines[j])
      <4>. TAKE i \in DOMAIN out'
      <4>1. CASE i = o + 1
        BY <1>7, <3>1, <3>6, <4>1
      <4>2. CASE i # o + 1
        <5>1. i \in DOMAIN out /\ out'[i] = out[i]
          BY <1>7, <4>2
        <5>. QED BY <2>1, <5>1 DEF EveryLineIsKept
      <4>. QED BY <4>1, <4>2
    <3>8. \A j \in DOMAIN lines : \/ \E i \in DOMAIN out' : out'[i] = RedactValue(lines[j])
                                  \/ \E u \in Unsaid' : writer'[u].line = lines[j]
      <4>. TAKE j \in DOMAIN lines
      <4>1. CASE \E i \in DOMAIN out : out[i] = RedactValue(lines[j])
        BY <1>7, <4>1
      <4>2. CASE \E u \in Unsaid : writer[u].line = lines[j]
        <5>1. PICK u \in Unsaid : writer[u].line = lines[j]
          BY <4>2
        <5>2. CASE u = t
          <6>1. o + 1 \in DOMAIN out' /\ out'[o + 1] = RedactValue(lines[j])
            BY <1>7, <3>1, <5>1, <5>2
          <6>. QED BY <6>1
        <5>3. CASE u # t
          BY <1>5, <2>4, <3>3, <5>1, <5>3
        <5>. QED BY <5>2, <5>3
      <4>. QED BY <2>1, <4>1, <4>2 DEF EveryLineIsKept
    <3>9. Leaving(row)
      BY <1>4, <2>2, <3>1 DEF Leaving
    <3>10. \A u \in Thread : Resting(writer'[u]) \/ Hearing(writer'[u]) \/ Leaving(writer'[u])
      BY <1>5, <2>1, <3>9 DEF EveryLineIsKept
    <3>11. \A u \in Unsaid' : \E j \in DOMAIN lines : writer'[u].line = lines[j]
      BY <1>5, <2>1, <2>4, <3>3 DEF EveryLineIsKept
    <3>. QED BY <1>1, <3>5, <3>7, <3>8, <3>10, <3>11 DEF EveryLineIsKept
  <2>10. CASE todo = <<Newline>>
    <3>1. Head(todo) = Newline /\ Tail(todo) = <<>> /\ Len(todo) = 1 /\ Len(<<>>) = 0
      BY <2>10
    <3>2. t \notin Unsaid /\ t \notin Unsaid' /\ t \notin Unended'
      <4>1. writer'[t].coming = <<>> /\ writer'[t].pending = <<>> /\ writer'[t].todo = <<>>
        BY <1>4, <1>5, <2>2, <3>1
      <4>2. writer[t].coming = <<>> /\ Len(writer[t].todo) # 2
        BY <1>2, <2>2, <3>1
      <4>3. t \notin Unsaid
        BY <4>2, Zenon DEF Unsaid
      <4>4. t \notin Unsaid'
        BY <3>1, <4>1 DEF Unsaid
      <4>5. t \notin Unended'
        BY <4>1 DEF Unended, Idle
      <4>. QED BY <4>3, <4>4, <4>5
    <3>3. Unsaid' = Unsaid /\ Unended' = Unended \ {t}
      <4>1. \A u : /\ u \in Unsaid' <=> u \in Unsaid
                   /\ u \in Unended' <=> u \in Unended /\ u # t
        BY <2>3, <2>4, <2>5, <3>2
      <4>. QED BY <4>1
    <3>4. Cardinality(Unsaid') = a /\ Cardinality(Unended') = b - 1
      BY <2>4, <2>5, <2>6, <3>3, OneMoreIn, JournalAssumption
    <3>5. (Len(out) + Cardinality(Unsaid) + Cardinality(Unended) = 2 * Len(lines))'
      <4>1. (o + 1) + a + (b - 1) = 2 * n
        BY <2>8
      <4>. QED BY <1>1, <1>7, <2>7, <3>4, <4>1
    <3>6. \A i \in DOMAIN out' : out'[i] # Newline => \E j \in DOMAIN lines : out'[i] = RedactValue(lines[j])
      <4>. TAKE i \in DOMAIN out'
      <4>1. CASE i = o + 1
        BY <1>7, <3>1, <4>1
      <4>2. CASE i # o + 1
        <5>1. i \in DOMAIN out /\ out'[i] = out[i]
          BY <1>7, <4>2
        <5>. QED BY <2>1, <5>1 DEF EveryLineIsKept
      <4>. QED BY <4>1, <4>2
    <3>7. \A j \in DOMAIN lines : \/ \E i \in DOMAIN out' : out'[i] = RedactValue(lines[j])
                                  \/ \E u \in Unsaid' : writer'[u].line = lines[j]
      <4>. TAKE j \in DOMAIN lines
      <4>1. CASE \E i \in DOMAIN out : out[i] = RedactValue(lines[j])
        BY <1>7, <4>1
      <4>2. CASE \E u \in Unsaid : writer[u].line = lines[j]
        BY <1>5, <2>4, <3>2, <3>3, <4>2
      <4>. QED BY <2>1, <4>1, <4>2 DEF EveryLineIsKept
    <3>8. Resting(row)
      BY <1>4, <2>2, <3>1 DEF Resting
    <3>9. \A u \in Thread : Resting(writer'[u]) \/ Hearing(writer'[u]) \/ Leaving(writer'[u])
      BY <1>5, <2>1, <3>8 DEF EveryLineIsKept
    <3>10. \A u \in Unsaid' : \E j \in DOMAIN lines : writer'[u].line = lines[j]
      BY <1>5, <2>1, <2>4, <3>2, <3>3 DEF EveryLineIsKept
    <3>. QED BY <1>1, <3>5, <3>6, <3>7, <3>9, <3>10 DEF EveryLineIsKept
  <2>. QED BY <2>2, <2>9, <2>10
<1>. QED BY <1>1, <1>8, <1>9 DEF JournalInv

LEMMA JournalStep == ASSUME JournalInv, [JournalNext]_journalVars PROVE JournalInv'
<1>1. CASE UNCHANGED journalVars
  BY <1>1 DEF journalVars, JournalInv, JournalTypeOK, EveryLineIsKept, Unsaid, Unended, Idle
<1>2. CASE JournalNext
  BY <1>2, FormatStep, WriteStep, FlushStep, PutStep DEF JournalNext
<1>. QED BY <1>1, <1>2

LEMMA JournalIsRedacted == JournalInv => LinesAreRedacted
<1>. SUFFICES ASSUME JournalInv PROVE LinesAreRedacted
  OBVIOUS
<1>1. JournalTypeOK
  BY DEF JournalInv
<1>2. \A i \in DOMAIN out : out[i] \in Text
  BY <1>1 DEF JournalTypeOK
<1>3. ASSUME ~flushed, \A t \in Thread : Idle(t)
      PROVE  /\ ToSet(out) \ {Newline} = {RedactValue(lines[i]) : i \in DOMAIN lines}
             /\ Len(out) = 2 * Len(lines)
  <2>1. EveryLineIsKept
    BY <1>3 DEF JournalInv
  <2>2. Unended = {} /\ Unsaid = {}
    <3>1. \A t \in Thread : writer[t].coming = <<>> /\ writer[t].todo = <<>>
      BY <1>3 DEF Idle
    <3>2. Len(<<>>) = 0
      OBVIOUS
    <3>. QED BY <1>3, <3>1, <3>2 DEF Unended, Unsaid
  <2>3. Len(out) = 2 * Len(lines)
    <3>1. Cardinality({}) = 0
      BY FS_EmptySet
    <3>2. PICK o \in Nat, n \in Nat : o = Len(out) /\ n = Len(lines)
      BY <1>1 DEF JournalTypeOK
    <3>3. o + 0 + 0 = 2 * n
      BY <2>1, <2>2, <3>1, <3>2 DEF EveryLineIsKept
    <3>. QED BY <3>2, <3>3
  <2>4. \A j \in DOMAIN lines : RedactValue(lines[j]) # Newline
    <3>1. \A j \in DOMAIN lines : lines[j] \in Line
      BY <1>1 DEF JournalTypeOK
    <3>. QED BY <3>1, LinesText
  <2>5. ToSet(out) = {out[i] : i \in DOMAIN out}
    BY DEF ToSet
  <2>6. \A x : x \in ToSet(out) /\ x # Newline <=> \E j \in DOMAIN lines : x = RedactValue(lines[j])
    BY <2>1, <2>2, <2>4, <2>5 DEF EveryLineIsKept
  <2>. QED BY <2>3, <2>6
<1>. QED BY <1>2, <1>3, TextIsMasked DEF LinesAreRedacted

-----------------------------------------------------------------------------
\* The windows of the job metrics (Metrics).

\* Adding up a list of numbers from its front.
AddsUp(f, s, n, o) == f = [i \in 0..n |-> IF i = 0 THEN 0 ELSE f[i - 1] + s[i].line.count[o]]
\* The function that CountIn chooses.
Sums(f, s, n, o) == f = CHOOSE g : AddsUp(g, s, n, o)

HasCounts(s, n, o) == \A i \in 1..n : s[i].line.count[o] \in Nat

\* It begins at nothing and adds each of the counts.
LEMMA SumIs ==
    ASSUME NEW n \in Nat, NEW s, NEW o, HasCounts(s, n, o),
           NEW f, Sums(f, s, n, o)
    PROVE  /\ f[0] = 0 /\ f[n] \in Nat
           /\ \A i \in 0..(n - 1) : f[i + 1] = f[i] + s[i + 1].line.count[o]
<1>. DEFINE step == [p \in Nat \X Nat |-> IF p[1] < n THEN p[2] + s[p[1] + 1].line.count[o] ELSE 0]
<1>1. \A i \in Nat : i < n => i + 1 \in 1..n
  OBVIOUS
<1>2. \A i \in Nat, v \in Nat : /\ step[<<i, v>>] \in Nat
                                /\ i < n => step[<<i, v>>] = v + s[i + 1].line.count[o]
  <2>. TAKE i \in Nat, v \in Nat
  <2>1. step[<<i, v>>] = IF i < n THEN v + s[i + 1].line.count[o] ELSE 0
    OBVIOUS
  <2>. HIDE DEF step
  <2>2. i < n => s[i + 1].line.count[o] \in Nat
    BY <1>1 DEF HasCounts
  <2>. QED BY <2>1, <2>2
<1>3. step \in [Nat \X Nat -> Nat]
  <2>1. \A p \in Nat \X Nat : p[1] \in Nat /\ p[2] \in Nat /\ p = <<p[1], p[2]>>
    OBVIOUS
  <2>2. \A p \in Nat \X Nat : step[p] \in Nat
    BY <1>2, <2>1, Zenon
  <2>. QED BY <2>2
<1>. HIDE DEF step
<1>4. PICK g \in [Nat -> Nat] : Iterates(g, 0, step)
  <2>1. 0 \in Nat
    OBVIOUS
  <2>. QED BY <1>3, <2>1, Recursion
<1>5. g[0] = 0 /\ \A i \in Nat : g[i] \in Nat /\ g[i + 1] = step[<<i, g[i]>>]
  BY <1>4 DEF Iterates
<1>6. \A i \in 0..(n - 1) : i \in Nat /\ i < n /\ g[i + 1] = g[i] + s[i + 1].line.count[o]
  <2>. TAKE i \in 0..(n - 1)
  <2>1. i \in Nat /\ i < n /\ g[i] \in Nat
    BY <1>5
  <2>2. step[<<i, g[i]>>] = g[i] + s[i + 1].line.count[o]
    BY <1>2, <2>1
  <2>. QED BY <1>5, <2>1, <2>2
<1>7. ASSUME NEW i \in 0..n PROVE g[i] = IF i = 0 THEN 0 ELSE g[i - 1] + s[i].line.count[o]
  <2>1. CASE i = 0
    BY <1>5, <2>1
  <2>2. CASE i # 0
    <3>1. i - 1 \in 0..(n - 1) /\ (i - 1) + 1 = i
      BY <2>2
    <3>2. g[(i - 1) + 1] = g[i - 1] + s[(i - 1) + 1].line.count[o]
      BY <1>6, <3>1
    <3>. QED BY <2>2, <3>1, <3>2
  <2>. QED BY <2>1, <2>2
<1>. DEFINE h == [i \in 0..n |-> g[i]]
<1>8. \A i \in 0..n : i = 0 \/ i - 1 \in 0..n
  OBVIOUS
<1>9. h = [i \in 0..n |-> IF i = 0 THEN 0 ELSE h[i - 1] + s[i].line.count[o]]
  BY <1>7, <1>8
<1>10. AddsUp(f, s, n, o)
  <2>1. AddsUp(h, s, n, o)
    BY <1>9 DEF AddsUp
  <2>. QED BY <2>1 DEF Sums
<1>. HIDE DEF h
<1>11. f[0] = 0 /\ \A i \in 0..(n - 1) : f[i + 1] = f[i] + s[i + 1].line.count[o]
  <2>1. \A i \in 0..n : f[i] = IF i = 0 THEN 0 ELSE f[i - 1] + s[i].line.count[o]
    BY <1>10 DEF AddsUp
  <2>2. 0 \in 0..n /\ \A i \in 0..(n - 1) : i + 1 \in 0..n /\ i + 1 # 0 /\ (i + 1) - 1 = i
    OBVIOUS
  <2>3. f[0] = 0
    BY <2>1, <2>2
  <2>4. ASSUME NEW i \in 0..(n - 1) PROVE f[i + 1] = f[i] + s[i + 1].line.count[o]
    <3>1. f[i + 1] = IF i + 1 = 0 THEN 0 ELSE f[(i + 1) - 1] + s[i + 1].line.count[o]
      BY <2>1, <2>2
    <3>. QED BY <2>2, <3>1
  <2>. QED BY <2>3, <2>4
<1>12. f[n] \in Nat
  <2>. DEFINE M == {i \in Nat : i <= n => f[i] \in Nat}
  <2>1. 0 \in M
    BY <1>11
  <2>2. ASSUME NEW i \in Nat, i \in M PROVE i + 1 \in M
    <3>1. i + 1 <= n => f[i] \in Nat /\ i \in 0..(n - 1) /\ i + 1 \in 1..n
      BY <2>2
    <3>2. i + 1 <= n => f[i + 1] \in Nat
      BY <1>11, <3>1 DEF HasCounts
    <3>. QED BY <3>2
  <2>. HIDE DEF M
  <2>3. Nat \subseteq M
    BY <2>1, <2>2, Inductive
  <2>. QED BY <2>3 DEF M
<1>. QED BY <1>11, <1>12

LEMMA SumsBegin ==
    ASSUME NEW n \in Nat, NEW s, NEW o, HasCounts(s, n, o), NEW f, Sums(f, s, n, o)
    PROVE  f[0] = 0
BY SumIs

LEMMA NothingCounts == ASSUME NEW o PROVE CountIn(o, <<>>) = 0
<1>. DEFINE none == <<>>
            e == CHOOSE e : AddsUp(e, none, 0, o)
<1>1. CountIn(o, none) = e[0]
  BY DEF CountIn, AddsUp
<1>2. HasCounts(none, 0, o)
  BY DEF HasCounts
<1>3. Sums(e, none, 0, o)
  BY DEF Sums
<1>. HIDE DEF none, e
<1>4. \A k \in Nat : HasCounts(none, k, o) /\ Sums(e, none, k, o) => e[0] = 0
  BY SumsBegin
<1>5. e[0] = 0
  BY <1>2, <1>3, <1>4
<1>. QED BY <1>1, <1>5 DEF none

\* One more summary adds its own count.
LEMMA CountGrows ==
    ASSUME NEW S, NEW s \in Seq(S), NEW x \in S, NEW o, \A y \in S : y.line.count[o] \in Nat
    PROVE  /\ CountIn(o, s) \in Nat
           /\ CountIn(o, <<>>) = 0
           /\ CountIn(o, Append(s, x)) = CountIn(o, s) + x.line.count[o]
<1>. DEFINE n == Len(s)
            t == Append(s, x)
            f == CHOOSE f : AddsUp(f, s, n, o)
            g == CHOOSE g : AddsUp(g, t, n + 1, o)
<1>1. n \in Nat /\ DOMAIN s = 1..n /\ t \in Seq(S) /\ Len(t) = n + 1 /\ DOMAIN t = 1..(n + 1)
      /\ t[n + 1] = x /\ \A i \in 1..n : t[i] = s[i]
  BY AppendIs
<1>2. CountIn(o, s) = f[n] /\ CountIn(o, t) = g[n + 1]
  BY <1>1 DEF CountIn, AddsUp
<1>3. HasCounts(s, n, o) /\ HasCounts(t, n + 1, o)
  <2>1. (\A i \in 1..n : s[i] \in S) /\ (\A i \in 1..(n + 1) : t[i] \in S)
    BY <1>1
  <2>. QED BY <2>1 DEF HasCounts
<1>. HIDE DEF t, n
<1>4. Sums(f, s, n, o) /\ Sums(g, t, n + 1, o)
  BY DEF Sums
<1>. HIDE DEF f, g
<1>5. f[0] = 0 /\ f[n] \in Nat /\ \A i \in 0..(n - 1) : f[i + 1] = f[i] + s[i + 1].line.count[o]
  BY <1>1, <1>3, <1>4, SumIs
<1>6. /\ g[0] = 0
      /\ \A i \in 0..((n + 1) - 1) : g[i + 1] = g[i] + t[i + 1].line.count[o]
  <2>1. n + 1 \in Nat
    BY <1>1
  <2>. QED BY <1>3, <1>4, <2>1, SumIs
<1>7. g[n] = f[n]
  <2>. DEFINE M == {i \in Nat : i <= n => g[i] = f[i]}
  <2>1. 0 \in M
    BY <1>5, <1>6
  <2>2. ASSUME NEW i \in Nat, i \in M PROVE i + 1 \in M
    <3>. SUFFICES ASSUME i + 1 <= n PROVE g[i + 1] = f[i + 1]
      OBVIOUS
    <3>1. i \in 0..(n - 1) /\ i \in 0..((n + 1) - 1) /\ i + 1 \in 1..n /\ g[i] = f[i]
      BY <1>1, <2>2
    <3>2. t[i + 1] = s[i + 1]
      BY <1>1, <3>1
    <3>. QED BY <1>5, <1>6, <3>1, <3>2
  <2>. HIDE DEF M
  <2>3. Nat \subseteq M
    BY <2>1, <2>2, Inductive
  <2>4. n \in M
    BY <1>1, <2>3
  <2>. QED BY <1>1, <2>4 DEF M
<1>8. g[n + 1] = f[n] + x.line.count[o]
  <2>1. n \in 0..((n + 1) - 1)
    BY <1>1
  <2>. QED BY <1>1, <1>6, <1>7, <2>1
<1>9. CountIn(o, <<>>) = 0
  BY NothingCounts
<1>. QED BY <1>2, <1>5, <1>8, <1>9 DEF t, n

\* Of two samples the shorter comes first, of two that are equal the earlier.
Precedes(s, i, j) == s[i] < s[j] \/ (s[i] = s[j] /\ i < j)
Preceding(s, i)   == {j \in DOMAIN s : Precedes(s, j, i)}

\* The samples in their order, each at the place it has by those that precede it.
Sorts(sorted, place, s, n) ==
    /\ place \in [1..n -> 1..n] /\ sorted = [k \in 1..n |-> s[place[k]]]
    /\ \A k, l \in 1..n : k < l => Precedes(s, place[k], place[l])
    /\ \A i \in 1..n : \E k \in 1..n : place[k] = i
    /\ \A k \in 1..n : Cardinality(Preceding(s, place[k])) = k - 1

\* Sorting gives that.
LEMMA SortedIs ==
    ASSUME NEW s \in Seq(Nat), NEW n \in Nat, n = Len(s)
    PROVE  \E place : Sorts(SortedSamples(s), place, s, n)
<1>. DEFINE D == DOMAIN s
            R == {p \in D \X D : Precedes(s, p[1], p[2])}
            before == [x \in D |-> Cardinality(Preceding(s, x))]
            place == [i \in 1..Cardinality(D) |-> CHOOSE x \in D : before[x] = i - 1]
<1>1. D = 1..n /\ \A i \in D : s[i] \in Nat /\ i \in Nat
  OBVIOUS
<1>2. SortedSamples(s) = [k \in D |-> s[place[k]]]
  BY DEF SortedSamples, Ordered, Preceding, Precedes
<1>3. ListsBy(place, before, D)
  BY DEF ListsBy
<1>4. OrdersStrictly(R, D)
  BY <1>1 DEF OrdersStrictly, Precedes
<1>5. \A x \in D : Preceding(s, x) = {y \in D : <<y, x>> \in R}
  BY DEF Preceding
<1>6. CountsBefore(before, R, D)
  BY <1>5, Zenon DEF CountsBefore
<1>7. IsFiniteSet(D) /\ Cardinality(D) = n
  BY <1>1, IntervalIs
<1>8. \A x, y \in D : <<x, y>> \in R <=> Precedes(s, x, y)
  OBVIOUS
<1>9. \A x \in D : before[x] = Cardinality(Preceding(s, x))
  OBVIOUS
<1>. HIDE DEF R, before, place, D
<1>10. /\ place \in Seq(D) /\ DOMAIN place = 1..n
       /\ \A i, j \in DOMAIN place : i < j <=> <<place[i], place[j]>> \in R
       /\ \A x \in D : \E i \in DOMAIN place : place[i] = x
       /\ \A i \in DOMAIN place : before[place[i]] = i - 1
  BY <1>3, <1>4, <1>6, <1>7, OrderedIs
<1>11. place \in [1..n -> 1..n] /\ \A i \in 1..n : place[i] \in D
  <2>1. \A i \in DOMAIN place : place[i] \in D
    BY <1>10
  <2>2. place = [i \in DOMAIN place |-> place[i]]
    BY <1>10
  <2>. QED BY <1>1, <1>10, <2>1, <2>2
<1>12. Sorts(SortedSamples(s), place, s, n)
  BY <1>1, <1>2, <1>8, <1>9, <1>10, <1>11 DEF Sorts
<1>. QED BY <1>12

\* The r-th sample has r samples or more at or below it, and fewer than r below it.
LEMMA RanksAre ==
    ASSUME NEW s \in Seq(Nat), NEW n \in Nat, n = Len(s), NEW sorted, NEW place, Sorts(sorted, place, s, n),
           NEW r \in 1..n
    PROVE  /\ sorted[r] \in ToSet(s)
           /\ Cardinality({i \in DOMAIN s : s[i] <= sorted[r]}) \in Nat
           /\ Cardinality({i \in DOMAIN s : s[i] <= sorted[r]}) >= r
           /\ Cardinality({i \in DOMAIN s : s[i] < sorted[r]}) \in Nat
           /\ Cardinality({i \in DOMAIN s : s[i] < sorted[r]}) < r
<1>. DEFINE D == DOMAIN s
            m == place[r]
            P == Preceding(s, m)
            A == {i \in D : s[i] <= sorted[r]}
            B == {i \in D : s[i] < sorted[r]}
<1>1. D = 1..n /\ \A i \in D : s[i] \in Nat /\ i \in Nat
  OBVIOUS
<1>2. m \in D /\ sorted[r] = s[m] /\ Cardinality(P) = r - 1
  BY <1>1 DEF Sorts
<1>3. IsFiniteSet(D)
  BY <1>1, IntervalIs
<1>4. B \subseteq P /\ P \cup {m} \subseteq A /\ P \subseteq D /\ A \subseteq D /\ m \notin P
  BY <1>1, <1>2 DEF Preceding, Precedes
<1>. HIDE DEF P, A, B, D, m
<1>5. IsFiniteSet(P) /\ IsFiniteSet(A)
  BY <1>3, <1>4, Smaller
<1>6. Cardinality(B) \in Nat /\ Cardinality(P) \in Nat /\ Cardinality(B) <= Cardinality(P)
  BY <1>4, <1>5, Smaller
<1>7. Cardinality(P \cup {m}) = Cardinality(P) + 1
  BY <1>4, <1>5, FS_AddElement
<1>8. Cardinality(A) \in Nat /\ Cardinality(P \cup {m}) <= Cardinality(A)
  BY <1>4, <1>5, Smaller
<1>9. Cardinality(A) >= r /\ Cardinality(B) < r
  BY <1>2, <1>6, <1>7, <1>8
<1>10. sorted[r] \in ToSet(s)
  BY <1>2 DEF ToSet, D
<1>. QED BY <1>6, <1>8, <1>9, <1>10 DEF A, B, D

\* The nearest rank of a percentile is the first that so many of the samples do not exceed.
LEMMA NearestRankIs ==
    ASSUME NEW p \in 1..99, NEW n \in Nat \ {0}
    PROVE  LET r == NearestRank(p, n) IN r \in 1..n /\ 100 * r >= p * n /\ 100 * (r - 1) < p * n
<1>1. PICK v \in Nat : v = p * n
  OBVIOUS
<1>2. v >= 1 /\ v <= 99 * n
  <2>1. p * n >= 1 /\ p * n <= 99 * n
    OBVIOUS
  <2>. QED BY <1>1, <2>1
<1>3. PICK q \in Int, m \in 0..99 : q = (v + 99) \div 100 /\ v + 99 = 100 * q + m
  <2>1. 100 \in Nat \ {0} /\ v + 99 \in Int /\ 100 - 1 = 99
    OBVIOUS
  <2>. QED BY <2>1, DivisionIs
<1>4. q >= 1 /\ q <= n /\ 100 * q >= v /\ 100 * (q - 1) < v
  BY <1>2, <1>3
<1>5. NearestRank(p, n) = q
  BY <1>1, <1>3, <1>4 DEF NearestRank
<1>. QED BY <1>1, <1>4, <1>5

\* What Percentile picks is a percentile.
LEMMA PercentileIs ==
    ASSUME NEW s \in Seq(Nat), NEW p \in 1..99
    PROVE  IsPercentile(Percentile(SortedSamples(s), p), p, s)
<1>. DEFINE n == Len(s)
            sorted == SortedSamples(s)
            r == NearestRank(p, n)
<1>1. n \in Nat /\ (s = <<>> <=> n = 0)
  OBVIOUS
<1>. HIDE DEF n
<1>2. PICK place : Sorts(sorted, place, s, n)
  BY <1>1, SortedIs DEF n
<1>3. DOMAIN sorted = 1..n /\ Len(sorted) = n
  <2>1. sorted = [k \in 1..n |-> s[place[k]]]
    BY <1>2 DEF Sorts
  <2>. HIDE DEF sorted
  <2>. QED BY <1>1, <2>1
<1>. HIDE DEF sorted
<1>4. CASE n = 0
  <2>1. sorted = <<>>
    BY <1>3, <1>4
  <2>. QED BY <1>1, <1>4, <2>1 DEF Percentile, IsPercentile, sorted
<1>5. CASE n # 0
  <2>1. r \in 1..n /\ 100 * r >= p * n /\ 100 * (r - 1) < p * n
    BY <1>1, <1>5, NearestRankIs
  <2>2. Percentile(sorted, p) = sorted[r]
    <3>1. sorted # <<>>
      BY <1>3, <1>5
    <3>. QED BY <1>3, <3>1 DEF Percentile
  <2>. HIDE DEF r
  <2>3. PICK a \in Nat, b \in Nat :
            /\ a = Cardinality({i \in DOMAIN s : s[i] <= sorted[r]}) /\ a >= r
            /\ b = Cardinality({i \in DOMAIN s : s[i] < sorted[r]}) /\ b < r
            /\ sorted[r] \in ToSet(s)
    BY <1>1, <1>2, <2>1, RanksAre DEF n
  <2>4. PICK v \in Nat : v = p * n
    BY <1>1
  <2>5. 100 * a >= v /\ 100 * b < v
    <3>1. 100 * r >= v /\ 100 * (r - 1) < v /\ r \in Int
      BY <2>1, <2>4
    <3>. QED BY <2>3, <3>1
  <2>6. IsPercentile(sorted[r], p, s)
    BY <1>1, <1>5, <2>3, <2>4, <2>5 DEF IsPercentile, n
  <2>. QED BY <2>2, <2>6 DEF sorted
<1>. QED BY <1>4, <1>5

\* The last in order is the largest.
LEMMA LongestIs ==
    ASSUME NEW s \in Seq(Nat), NEW n \in Nat, n = Len(s)
    PROVE  /\ Len(SortedSamples(s)) = n /\ (SortedSamples(s) = <<>> <=> n = 0)
           /\ n # 0 => SortedSamples(s)[n] = Max(ToSet(s))
<1>. DEFINE sorted == SortedSamples(s)
<1>1. PICK place : Sorts(sorted, place, s, n)
  BY SortedIs
<1>. HIDE DEF sorted
<1>2. DOMAIN sorted = 1..n /\ sorted = [k \in 1..n |-> s[place[k]]]
  BY <1>1 DEF Sorts
<1>3. Len(sorted) = n /\ (sorted = <<>> <=> n = 0)
  BY <1>2
<1>4. ASSUME n # 0 PROVE sorted[n] = Max(ToSet(s))
  <2>1. n \in 1..n /\ sorted[n] = s[place[n]] /\ place[n] \in 1..n
    <3>1. n \in 1..n
      BY <1>4
    <3>2. place \in [1..n -> 1..n]
      BY <1>1 DEF Sorts
    <3>. QED BY <1>2, <3>1, <3>2
  <2>2. DOMAIN s = 1..n /\ \A i \in 1..n : s[i] \in Nat
    OBVIOUS
  <2>3. ASSUME NEW i \in 1..n PROVE s[i] <= sorted[n]
    <3>1. PICK k \in 1..n : place[k] = i
      BY <1>1 DEF Sorts
    <3>2. CASE k = n
      BY <2>1, <2>2, <3>1, <3>2
    <3>3. CASE k < n
      <4>1. Precedes(s, i, place[n])
        BY <1>1, <2>1, <3>1, <3>3 DEF Sorts
      <4>. QED BY <2>1, <2>2, <4>1 DEF Precedes
    <3>. QED BY <3>2, <3>3
  <2>4. /\ ToSet(s) \subseteq Nat /\ sorted[n] \in ToSet(s)
        /\ \A x \in ToSet(s) : x <= sorted[n]
    BY <2>1, <2>2, <2>3 DEF ToSet
  <2>5. \A x \in ToSet(s) : (\A y \in ToSet(s) : x >= y) => x = sorted[n]
    <3>. TAKE x \in ToSet(s)
    <3>1. x \in Nat /\ sorted[n] \in Nat /\ x <= sorted[n]
      BY <2>4
    <3>2. (\A y \in ToSet(s) : x >= y) => x >= sorted[n]
      BY <2>4
    <3>. QED BY <3>1, <3>2
  <2>6. \A y \in ToSet(s) : sorted[n] >= y
    <3>. TAKE y \in ToSet(s)
    <3>1. y \in Nat /\ sorted[n] \in Nat /\ y <= sorted[n]
      BY <2>4
    <3>. QED BY <3>1
  <2>. QED BY <2>4, <2>5, <2>6 DEF Max
<1>. QED BY <1>3, <1>4 DEF sorted

Counts     == [Outcomes -> Nat]
SummaryRow == [line : [window_secs : Nat, count : Counts, samples : Nat, p50 : Nat, p95 : Nat, max : Nat,
                       truncated : BOOLEAN],
               waits : Seq(Nat)]

MetricsTypeOK ==
    /\ window \in [count : Counts, ttfp : Seq(Nat), truncated : BOOLEAN]
    /\ opened \in Nat /\ snapshots \in Seq(SummaryRow)
    /\ pending \in [JobWorker -> Nat \cup {NoWait}]
    /\ recorded \in Counts /\ waits \in Seq(Nat)

\* What a summary says of the waits that were recorded for it.
IsTrueOf(line, ws) ==
    LET kept == SubSeq(ws, 1, line.samples) IN
    /\ line.window_secs >= MetricsWindow
    /\ line.truncated <=> Len(ws) > MaxSamples
    /\ line.samples = Min({MaxSamples, Len(ws)})
    /\ IsPercentile(line.p50, 50, kept) /\ IsPercentile(line.p95, 95, kept)
    /\ kept # <<>> => line.max = Max(ToSet(kept))

\* The window has the first of the waits, as many as there is room for.
HasTheFirst ==
    /\ window.truncated <=> Len(waits) > MaxSamples
    /\ Len(window.ttfp) = IF Len(waits) > MaxSamples THEN MaxSamples ELSE Len(waits)
    /\ \A i \in DOMAIN window.ttfp : window.ttfp[i] = waits[i]

\* What was recorded is in one window: in one that was taken, or in the one that is open.
AllCounted == \A o \in Outcomes : recorded[o] = CountIn(o, snapshots) + window.count[o]

MetricsInv ==
    /\ MetricsTypeOK /\ HasTheFirst /\ AllCounted
    /\ \A i \in DOMAIN snapshots : IsTrueOf(snapshots[i].line, snapshots[i].waits)

LEMMA MetricsIsTrue == MetricsInv => SummariesAreTrue
BY DEF MetricsInv, AllCounted, IsTrueOf, SummariesAreTrue

\* Taking a window moves its counts, and loses none.
LEMMA CountsAdd ==
    ASSUME NEW s \in Seq(SummaryRow), NEW o \in Outcomes
    PROVE  /\ CountIn(o, s) \in Nat /\ CountIn(o, <<>>) = 0
           /\ \A x \in SummaryRow : CountIn(o, Append(s, x)) = CountIn(o, s) + x.line.count[o]
<1>1. \A y \in SummaryRow : y.line.count[o] \in Nat
  BY DEF SummaryRow, Counts
<1>2. \A x \in SummaryRow : /\ CountIn(o, s) \in Nat
                            /\ CountIn(o, <<>>) = 0
                            /\ CountIn(o, Append(s, x)) = CountIn(o, s) + x.line.count[o]
  BY <1>1, CountGrows
<1>3. SummaryRow # {}
  <2>. DEFINE x == [line |-> [window_secs |-> 0, count |-> NoOutcomes, samples |-> 0, p50 |-> 0, p95 |-> 0,
                              max |-> 0, truncated |-> FALSE], waits |-> <<>>]
  <2>1. x \in SummaryRow
    BY DEF SummaryRow, Counts, NoOutcomes
  <2>. QED BY <2>1
<1>. QED BY <1>2, <1>3

LEMMA MetricsBegins == MetricsInit => MetricsInv
<1>. SUFFICES ASSUME MetricsInit PROVE MetricsInv
  OBVIOUS
<1>1. /\ window.count = NoOutcomes /\ window.ttfp = <<>> /\ window.truncated = FALSE
      /\ window \in [count : Counts, ttfp : Seq(Nat), truncated : BOOLEAN]
      /\ NoOutcomes \in Counts /\ \A o \in Outcomes : NoOutcomes[o] = 0
  BY DEF MetricsInit, NewWindow, NoOutcomes, Counts
<1>2. /\ opened = 0 /\ snapshots = <<>> /\ waits = <<>> /\ recorded = NoOutcomes
      /\ pending = [w \in JobWorker |-> NoWait]
  BY DEF MetricsInit
<1>3. /\ \A S : <<>> \in Seq(S)
      /\ Len(<<>>) = 0 /\ DOMAIN <<>> = {}
  OBVIOUS
<1>4. MetricsTypeOK
  BY <1>1, <1>2, <1>3 DEF MetricsTypeOK
<1>5. MaxSamples \in Nat
  BY MetricsAssumption
<1>6. HasTheFirst
  BY <1>1, <1>2, <1>3, <1>5 DEF HasTheFirst
<1>7. AllCounted
  <2>1. \A o \in Outcomes : CountIn(o, snapshots) = 0
    BY <1>2, <1>3, CountsAdd
  <2>. QED BY <1>1, <1>2, <2>1 DEF AllCounted
<1>. QED BY <1>2, <1>3, <1>4, <1>6, <1>7 DEF MetricsInv

LEMMA RecordStep ==
    ASSUME MetricsInv, NEW outcome \in Outcomes, Record(outcome), opened' = opened, snapshots' = snapshots,
           waits' = waits, pending' \in [JobWorker -> Nat \cup {NoWait}]
    PROVE  MetricsInv'
<1>1. /\ window' = [window EXCEPT !.count[outcome] = @ + 1]
      /\ recorded' = [recorded EXCEPT ![outcome] = @ + 1]
      /\ window \in [count : Counts, ttfp : Seq(Nat), truncated : BOOLEAN] /\ recorded \in Counts
  BY DEF Record, MetricsInv, MetricsTypeOK
<1>2. /\ window' \in [count : Counts, ttfp : Seq(Nat), truncated : BOOLEAN] /\ recorded' \in Counts
      /\ window'.ttfp = window.ttfp /\ window'.truncated = window.truncated
      /\ \A o \in Outcomes :
            /\ window'.count[o] = IF o = outcome THEN window.count[o] + 1 ELSE window.count[o]
            /\ recorded'[o] = IF o = outcome THEN recorded[o] + 1 ELSE recorded[o]
            /\ window.count[o] \in Nat /\ recorded[o] \in Nat
  <2>1. PICK c \in Counts : c = window.count
    BY <1>1
  <2>. DEFINE d == [c EXCEPT ![outcome] = @ + 1]
              e == [recorded EXCEPT ![outcome] = @ + 1]
  <2>2. d \in Counts /\ \A o \in Outcomes : d[o] = (IF o = outcome THEN c[o] + 1 ELSE c[o]) /\ c[o] \in Nat
    BY DEF Counts
  <2>3. /\ e \in Counts
        /\ \A o \in Outcomes : e[o] = (IF o = outcome THEN recorded[o] + 1 ELSE recorded[o]) /\ recorded[o] \in Nat
    BY <1>1 DEF Counts
  <2>4. window' = [window EXCEPT !.count = d] /\ recorded' = e
    BY <1>1, <2>1
  <2>. HIDE DEF d, e
  <2>5. /\ window' \in [count : Counts, ttfp : Seq(Nat), truncated : BOOLEAN]
        /\ window'.count = d /\ window'.ttfp = window.ttfp /\ window'.truncated = window.truncated
    BY <1>1, <2>2, <2>4
  <2>. QED BY <2>1, <2>2, <2>3, <2>4, <2>5
<1>3. MetricsTypeOK'
  BY <1>2 DEF MetricsInv, MetricsTypeOK
<1>4. HasTheFirst'
  BY <1>2 DEF MetricsInv, HasTheFirst
<1>5. AllCounted'
  <2>. SUFFICES ASSUME NEW o \in Outcomes PROVE recorded'[o] = CountIn(o, snapshots) + window'.count[o]
    BY DEF AllCounted
  <2>1. PICK a \in Nat, b \in Nat : a = CountIn(o, snapshots) /\ b = window.count[o]
    BY <1>2, CountsAdd DEF MetricsInv, MetricsTypeOK
  <2>2. recorded[o] = a + b
    BY <2>1 DEF MetricsInv, AllCounted
  <2>3. CASE o = outcome
    <3>1. recorded'[o] = (a + b) + 1 /\ window'.count[o] = b + 1
      BY <1>2, <2>1, <2>2, <2>3
    <3>. QED BY <2>1, <3>1
  <2>4. CASE o # outcome
    <3>1. recorded'[o] = a + b /\ window'.count[o] = b
      BY <1>2, <2>1, <2>2, <2>4
    <3>. QED BY <2>1, <3>1
  <2>. QED BY <2>3, <2>4
<1>6. \A i \in DOMAIN snapshots' : IsTrueOf(snapshots'[i].line, snapshots'[i].waits)
  BY DEF MetricsInv
<1>. QED BY <1>3, <1>4, <1>5, <1>6 DEF MetricsInv

LEMMA WindowHas ==
    ASSUME MetricsInv
    PROVE  \E n \in Nat, t \in Seq(Nat), k \in Nat : n = Len(waits) /\ t = window.ttfp /\ k = Len(t)
<1>1. window.ttfp \in Seq(Nat) /\ waits \in Seq(Nat)
  BY DEF MetricsInv, MetricsTypeOK
<1>2. Len(window.ttfp) \in Nat /\ Len(waits) \in Nat
  BY <1>1
<1>. QED BY <1>1, <1>2

LEMMA RecordWaitStep ==
    ASSUME MetricsInv, NEW w \in JobWorker, RecordTimeToFirstPage(w)
    PROVE  MetricsInv'
<1>1. /\ pending[w] # NoWait /\ pending \in [JobWorker -> Nat \cup {NoWait}]
      /\ window' = IF Len(window.ttfp) >= MaxSamples THEN [window EXCEPT !.truncated = TRUE]
                   ELSE [window EXCEPT !.ttfp = Append(@, pending[w])]
      /\ waits' = Append(waits, pending[w])
      /\ pending' = [pending EXCEPT ![w] = NoWait]
      /\ opened' = opened /\ snapshots' = snapshots /\ recorded' = recorded
      /\ window \in [count : Counts, ttfp : Seq(Nat), truncated : BOOLEAN]
  BY DEF RecordTimeToFirstPage, MetricsInv, MetricsTypeOK
<1>2. PICK x \in Nat : x = pending[w]
  BY <1>1
<1>3. pending' \in [JobWorker -> Nat \cup {NoWait}]
  BY <1>1
<1>4. MaxSamples \in Nat \ {0}
  BY MetricsAssumption
<1>5. PICK n \in Nat, t \in Seq(Nat), k \in Nat : n = Len(waits) /\ t = window.ttfp /\ k = Len(t)
  BY WindowHas
<1>6. /\ waits \in Seq(Nat) /\ waits' \in Seq(Nat) /\ Len(waits') = n + 1
      /\ waits'[n + 1] = x /\ \A i \in 1..n : waits'[i] = waits[i]
  BY <1>1, <1>2, <1>5, AppendIs DEF MetricsInv, MetricsTypeOK
<1>7. /\ window.truncated <=> n > MaxSamples
      /\ k = IF n > MaxSamples THEN MaxSamples ELSE n
      /\ \A i \in DOMAIN t : t[i] = waits[i]
  BY <1>5 DEF MetricsInv, HasTheFirst
<1>8. DOMAIN t = 1..k
  BY <1>5
<1>9. CASE k >= MaxSamples
  <2>1. window' = [window EXCEPT !.truncated = TRUE]
    BY <1>1, <1>5, <1>9
  <2>2. /\ window' \in [count : Counts, ttfp : Seq(Nat), truncated : BOOLEAN]
        /\ window'.count = window.count /\ window'.ttfp = t /\ window'.truncated = TRUE
    BY <1>1, <1>5, <2>1
  <2>3. n >= MaxSamples /\ k = MaxSamples /\ n + 1 > MaxSamples /\ \A i \in 1..k : i \in 1..n
    BY <1>4, <1>7, <1>9
  <2>4. \A i \in DOMAIN t : t[i] = waits'[i]
    BY <1>6, <1>7, <1>8, <2>3
  <2>5. HasTheFirst'
    BY <1>5, <1>6, <2>2, <2>3, <2>4 DEF HasTheFirst
  <2>6. MetricsTypeOK'
    BY <1>1, <1>3, <1>6, <2>2 DEF MetricsInv, MetricsTypeOK
  <2>7. AllCounted'
    BY <1>1, <2>2 DEF MetricsInv, AllCounted
  <2>. QED BY <1>1, <2>5, <2>6, <2>7 DEF MetricsInv
<1>10. CASE ~(k >= MaxSamples)
  <2>1. window' = [window EXCEPT !.ttfp = Append(t, x)]
    BY <1>1, <1>2, <1>5, <1>10
  <2>. DEFINE u == Append(t, x)
  <2>2. /\ u \in Seq(Nat) /\ Len(u) = k + 1 /\ DOMAIN u = 1..(k + 1)
        /\ u[k + 1] = x /\ \A i \in 1..k : u[i] = t[i]
    BY <1>5, AppendIs
  <2>. HIDE DEF u
  <2>3. /\ window' \in [count : Counts, ttfp : Seq(Nat), truncated : BOOLEAN]
        /\ window'.count = window.count /\ window'.ttfp = u /\ window'.truncated = window.truncated
    BY <1>1, <2>1, <2>2 DEF u
  <2>4. n = k /\ n < MaxSamples /\ ~(n > MaxSamples) /\ ~(n + 1 > MaxSamples)
    BY <1>4, <1>7, <1>10
  <2>5. \A i \in DOMAIN u : u[i] = waits'[i]
    <3>. TAKE i \in DOMAIN u
    <3>1. CASE i = k + 1
      BY <1>6, <2>2, <2>4, <3>1
    <3>2. CASE i # k + 1
      <4>1. i \in 1..k
        BY <2>2, <3>2
      <4>. QED BY <1>6, <1>7, <1>8, <2>2, <2>4, <4>1
    <3>. QED BY <3>1, <3>2
  <2>6. HasTheFirst'
    BY <1>6, <1>7, <2>2, <2>3, <2>4, <2>5 DEF HasTheFirst
  <2>7. MetricsTypeOK'
    BY <1>1, <1>3, <1>6, <2>3 DEF MetricsInv, MetricsTypeOK
  <2>8. AllCounted'
    BY <1>1, <2>3 DEF MetricsInv, AllCounted
  <2>. QED BY <1>1, <2>6, <2>7, <2>8 DEF MetricsInv
<1>. QED BY <1>9, <1>10

\* A window that is due is summed up truly.
LEMMA SnapshotIsTrue ==
    ASSUME MetricsInv, opened >= MetricsWindow
    PROVE  /\ IsTrueOf(Snapshot, waits) /\ Snapshot.count = window.count
           /\ [line |-> Snapshot, waits |-> waits] \in SummaryRow
<1>1. PICK n \in Nat, t \in Seq(Nat), k \in Nat : n = Len(waits) /\ t = window.ttfp /\ k = Len(t)
  BY WindowHas
<1>2. /\ window.truncated <=> n > MaxSamples
      /\ k = IF n > MaxSamples THEN MaxSamples ELSE n
      /\ \A i \in DOMAIN t : t[i] = waits[i]
  BY <1>1 DEF MetricsInv, HasTheFirst
<1>3. MaxSamples \in Nat /\ waits \in Seq(Nat) /\ opened \in Nat /\ window.count \in Counts
      /\ window.truncated \in BOOLEAN
  BY MetricsAssumption DEF MetricsInv, MetricsTypeOK
<1>4. SubSeq(waits, 1, k) = t
  <2>1. k <= n
    BY <1>2, <1>3
  <2>2. DOMAIN t = 1..k
    BY <1>1
  <2>. DEFINE u == SubSeq(waits, 1, k)
  <2>3. u \in Seq(Nat) /\ Len(u) = k /\ \A i \in 1..k : u[i] = waits[i]
    BY <1>1, <1>3, <2>1
  <2>. HIDE DEF u
  <2>4. DOMAIN u = 1..k
    BY <2>3
  <2>5. \A i \in 1..k : u[i] = t[i]
    <3>1. \A i \in 1..k : t[i] = waits[i]
      BY <1>2, <2>2, Zenon
    <3>. QED BY <2>3, <3>1, Zenon
  <2>6. u = [i \in DOMAIN u |-> u[i]] /\ t = [i \in DOMAIN t |-> t[i]]
    BY <2>3
  <2>7. u = t
    BY <2>2, <2>4, <2>5, <2>6, Zenon
  <2>. QED BY <2>7 DEF u
<1>5. k = Min({MaxSamples, n})
  <2>1. {MaxSamples, n} \in SUBSET Nat /\ {MaxSamples, n} # {}
    BY <1>3
  <2>2. Min({MaxSamples, n}) \in {MaxSamples, n} /\ \A x \in {MaxSamples, n} : Min({MaxSamples, n}) <= x
    BY <2>1, MinIs
  <2>. HIDE DEF Min
  <2>. QED BY <1>2, <1>3, <2>2
<1>. DEFINE samples == SortedSamples(t)
<1>6. /\ IsPercentile(Percentile(samples, 50), 50, t) /\ IsPercentile(Percentile(samples, 95), 95, t)
      /\ Len(samples) = k /\ (samples = <<>> <=> k = 0)
      /\ k # 0 => samples[k] = Max(ToSet(t))
  <2>1. 50 \in 1..99 /\ 95 \in 1..99
    OBVIOUS
  <2>. QED BY <1>1, <2>1, PercentileIs, LongestIs
<1>7. t = <<>> <=> k = 0
  BY <1>1
<1>. HIDE DEF samples
<1>8. /\ Snapshot.window_secs = opened /\ Snapshot.count = window.count /\ Snapshot.samples = k
      /\ Snapshot.p50 = Percentile(samples, 50) /\ Snapshot.p95 = Percentile(samples, 95)
      /\ Snapshot.max = IF samples = <<>> THEN 0 ELSE samples[k]
      /\ Snapshot.truncated = window.truncated
  BY <1>1, <1>6 DEF Snapshot, samples
<1>9. IsTrueOf(Snapshot, waits)
  BY <1>1, <1>2, <1>4, <1>5, <1>6, <1>7, <1>8 DEF IsTrueOf
<1>10. ToSet(t) \subseteq Nat
  BY DEF ToSet
<1>11. Percentile(samples, 50) \in Nat /\ Percentile(samples, 95) \in Nat
  BY <1>6, <1>10 DEF IsPercentile
<1>12. Snapshot.max \in Nat
  <2>1. CASE k = 0
    BY <1>6, <1>8, <2>1
  <2>2. CASE k # 0
    <3>1. PICK place : Sorts(samples, place, t, k)
      BY <1>1, SortedIs DEF samples
    <3>2. samples[k] \in ToSet(t)
      <4>1. k \in 1..k
        BY <2>2
      <4>. QED BY <1>1, <3>1, <4>1, RanksAre
    <3>. QED BY <1>6, <1>8, <1>10, <2>2, <3>2
  <2>. QED BY <2>1, <2>2
<1>13. Snapshot = [window_secs |-> Snapshot.window_secs, count |-> Snapshot.count, samples |-> Snapshot.samples,
                   p50 |-> Snapshot.p50, p95 |-> Snapshot.p95, max |-> Snapshot.max,
                   truncated |-> Snapshot.truncated]
  BY DEF Snapshot
<1>14. [line |-> Snapshot, waits |-> waits] \in SummaryRow
  BY <1>3, <1>8, <1>11, <1>12, <1>13 DEF SummaryRow
<1>. QED BY <1>8, <1>9, <1>14

LEMMA EmitStep == ASSUME MetricsInv, EmitMetrics PROVE MetricsInv'
<1>1. pending' = pending /\ recorded' = recorded /\ opened \in Nat
  BY DEF EmitMetrics, MetricsInv, MetricsTypeOK
<1>2. CASE opened < MetricsWindow
  <2>1. opened' = opened + 1 /\ window' = window /\ snapshots' = snapshots /\ waits' = waits
    BY <1>2 DEF EmitMetrics
  <2>2. opened' \in Nat
    BY <1>1, <2>1
  <2>. QED BY <1>1, <2>1, <2>2 DEF MetricsInv, MetricsTypeOK, HasTheFirst, AllCounted
<1>3. CASE ~(opened < MetricsWindow)
  <2>. DEFINE x == [line |-> Snapshot, waits |-> waits]
  <2>1. /\ window' = NewWindow /\ opened' = 0 /\ waits' = <<>> /\ snapshots' = Append(snapshots, x)
    BY <1>3 DEF EmitMetrics, Take
  <2>2. opened >= MetricsWindow
    BY <1>1, <1>3, MetricsAssumption
  <2>3. /\ IsTrueOf(Snapshot, waits) /\ Snapshot.count = window.count /\ x \in SummaryRow
        /\ x.line = Snapshot /\ x.waits = waits
    BY <2>2, SnapshotIsTrue
  <2>. HIDE DEF x
  <2>4. PICK n \in Nat : n = Len(snapshots)
    BY DEF MetricsInv, MetricsTypeOK
  <2>5. /\ snapshots \in Seq(SummaryRow) /\ snapshots' \in Seq(SummaryRow)
        /\ DOMAIN snapshots = 1..n /\ DOMAIN snapshots' = 1..(n + 1)
        /\ snapshots'[n + 1] = x /\ \A i \in 1..n : snapshots'[i] = snapshots[i]
    BY <2>1, <2>3, <2>4, AppendIs DEF MetricsInv, MetricsTypeOK
  <2>6. \A i \in DOMAIN snapshots' : IsTrueOf(snapshots'[i].line, snapshots'[i].waits)
    <3>. TAKE i \in DOMAIN snapshots'
    <3>1. CASE i = n + 1
      BY <2>3, <2>5, <3>1
    <3>2. CASE i # n + 1
      <4>1. i \in 1..n
        BY <2>5, <3>2
      <4>. QED BY <2>5, <4>1 DEF MetricsInv
    <3>. QED BY <3>1, <3>2
  <2>7. /\ window'.count = NoOutcomes /\ window'.ttfp = <<>> /\ window'.truncated = FALSE
        /\ window' \in [count : Counts, ttfp : Seq(Nat), truncated : BOOLEAN]
        /\ \A o \in Outcomes : NoOutcomes[o] = 0
    BY <2>1 DEF NewWindow, NoOutcomes, Counts
  <2>8. waits' \in Seq(Nat) /\ Len(waits') = 0 /\ Len(window'.ttfp) = 0 /\ DOMAIN window'.ttfp = {}
        /\ MaxSamples \in Nat
    BY <2>1, <2>7, MetricsAssumption
  <2>9. MetricsTypeOK'
    BY <1>1, <2>1, <2>5, <2>7, <2>8 DEF MetricsInv, MetricsTypeOK
  <2>10. HasTheFirst'
    BY <2>7, <2>8 DEF HasTheFirst
  <2>11. AllCounted'
    <3>. SUFFICES ASSUME NEW o \in Outcomes PROVE recorded'[o] = CountIn(o, snapshots') + window'.count[o]
      BY DEF AllCounted
    <3>1. CountIn(o, snapshots') = CountIn(o, snapshots) + window.count[o]
      BY <2>1, <2>3, <2>5, CountsAdd
    <3>2. recorded[o] = CountIn(o, snapshots) + window.count[o] /\ recorded[o] \in Nat
      BY DEF MetricsInv, MetricsTypeOK, AllCounted, Counts
    <3>3. window'.count[o] = 0
      BY <2>7
    <3>. QED BY <1>1, <3>1, <3>2, <3>3
  <2>. QED BY <2>6, <2>9, <2>10, <2>11 DEF MetricsInv
<1>. QED BY <1>2, <1>3

LEMMA MetricsStep == ASSUME MetricsInv, [MetricsNext]_metricsVars PROVE MetricsInv'
<1>1. CASE UNCHANGED metricsVars
  BY <1>1 DEF metricsVars, MetricsInv, MetricsTypeOK, HasTheFirst, AllCounted
<1>2. ASSUME NEW w \in JobWorker, NEW job, NEW wait \in Wait, Succeed(w, job, wait) PROVE MetricsInv'
  <2>1. /\ Record("succeeded") /\ opened' = opened /\ snapshots' = snapshots /\ waits' = waits
        /\ pending' \in {[pending EXCEPT ![w] = wait], [pending EXCEPT ![w] = NoWait]}
    BY <1>2 DEF Succeed
  <2>2. pending' \in [JobWorker -> Nat \cup {NoWait}]
    <3>1. wait \in Nat /\ pending \in [JobWorker -> Nat \cup {NoWait}]
      BY MetricsAssumption DEF MetricsInv, MetricsTypeOK
    <3>. QED BY <2>1, <3>1
  <2>. QED BY <2>1, <2>2, RecordStep DEF Outcomes
<1>3. ASSUME NEW w \in JobWorker, NEW error, Fail(w, error) PROVE MetricsInv'
  <2>1. Classify(error) \in Outcomes
    BY DEF Classify, Outcomes
  <2>. QED BY <1>3, <2>1, RecordStep DEF Fail, MetricsInv, MetricsTypeOK
<1>4. CASE MetricsNext
  BY <1>2, <1>3, <1>4, RecordWaitStep, EmitStep DEF MetricsNext
<1>. QED BY <1>1, <1>4
=============================================================================
