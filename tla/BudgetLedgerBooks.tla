------------------------- MODULE BudgetLedgerBooks -------------------------
(***************************************************************************)
(* For every number of calls, every limit and every cost: the account's    *)
(* counters and the reservations are what the ledger's entries add up to,  *)
(* and the account stays within its limit.                                 *)
(***************************************************************************)
EXTENDS BudgetLedger, Sequences, WellFoundedInduction, TLAPS

-----------------------------------------------------------------------------
(* Sums over finite sets.  The induction is over a set of naturals, by its *)
(* least element: the library's induction rules take a predicate.          *)

\* Induction over the naturals, for a set of them.
LEMMA SetInduction ==
  ASSUME NEW P, 0 \in P, \A n \in Nat : n \in P => n + 1 \in P
  PROVE  Nat \subseteq P
<1> DEFINE T == Nat \ P
<1> SUFFICES ASSUME T # {} PROVE FALSE
  OBVIOUS
<1>1. PICK n \in T : \A m \in T : ~(<<m, n>> \in OpToRel(<, Nat))
  BY WFMin, NatLessThanWellFounded, Zenon
<1>2. n # 0 /\ n \in Nat
  OBVIOUS
<1>3. n - 1 \in Nat /\ n - 1 < n /\ (n - 1) + 1 = n
  BY <1>2
<1>4. n - 1 \notin T
  BY <1>1, <1>2, <1>3, Zenon DEF OpToRel
<1> QED
  BY <1>2, <1>3, <1>4

\* Finite sets stay finite when an element is added, or elements are taken out.
LEMMA FiniteEmpty == IsFiniteSet({})
<1>1. << >> \in Seq({}) /\ \A s \in {} : \E n \in 1..Len(<< >>) : (<< >>)[n] = s
  OBVIOUS
<1> QED
  BY <1>1, Zenon DEF IsFiniteSet

LEMMA FiniteAdd == ASSUME NEW S, NEW x, IsFiniteSet(S) PROVE IsFiniteSet(S \cup {x})
<1>1. PICK q \in Seq(S) : \A s \in S : \E n \in 1..Len(q) : q[n] = s
  BY DEF IsFiniteSet
<1> DEFINE p == Append(q, x)
<1>2. p \in Seq(S \cup {x}) /\ Len(p) = Len(q) + 1 /\ p[Len(q) + 1] = x
      /\ \A n \in 1..Len(q) : p[n] = q[n]
  OBVIOUS
<1>3. Len(q) + 1 \in 1..Len(p) /\ \A n \in 1..Len(q) : n \in 1..Len(p)
  BY <1>2
<1> HIDE DEF p
<1>4. \A s \in S \cup {x} : \E n \in 1..Len(p) : p[n] = s
  BY <1>1, <1>2, <1>3, Zenon
<1> QED
  BY <1>2, <1>4, Zenon DEF IsFiniteSet

LEMMA FiniteSubset == ASSUME NEW S, NEW T, IsFiniteSet(S), T \subseteq S PROVE IsFiniteSet(T)
<1>1. CASE T = {}
  BY <1>1, FiniteEmpty
<1>2. CASE T # {}
  <2>1. PICK q \in Seq(S) : \A s \in S : \E n \in 1..Len(q) : q[n] = s
    BY DEF IsFiniteSet
  <2>2. PICK t \in T : TRUE
    BY <1>2
  <2> DEFINE p == [n \in 1..Len(q) |-> IF q[n] \in T THEN q[n] ELSE t]
  <2>3. p \in Seq(T) /\ Len(p) = Len(q)
    OBVIOUS
  <2>4. \A s \in T : \E n \in 1..Len(q) : p[n] = s
    BY <2>1
  <2> HIDE DEF p
  <2> QED
    BY <2>3, <2>4 DEF IsFiniteSet
<1> QED
  BY <1>1, <1>2

\* n indices are enough for the elements of s: the measure of the inductions over
\* subsets.
Covered(s, n) == \E f : \A x \in s : \E i \in 1..n : f[i] = x

LEMMA FiniteCovered == ASSUME NEW S, IsFiniteSet(S) PROVE \E n \in Nat : Covered(S, n)
<1>1. PICK q \in Seq(S) : \A s \in S : \E n \in 1..Len(q) : q[n] = s
  BY DEF IsFiniteSet
<1>2. Len(q) \in Nat
  OBVIOUS
<1> QED
  BY <1>1, <1>2, Zenon DEF Covered

LEMMA CoveredLess ==
  ASSUME NEW n \in Nat, NEW s, Covered(s, n + 1), NEW x \in s
  PROVE  Covered(s \ {x}, n)
<1>1. PICK f : \A y \in s : \E i \in 1..n + 1 : f[i] = y
  BY DEF Covered
<1>2. PICK j \in 1..n + 1 : f[j] = x
  BY <1>1
<1> DEFINE g == [i \in 1..n |-> IF i = j THEN f[n + 1] ELSE f[i]]
<1>3. ASSUME NEW y \in s \ {x} PROVE \E i \in 1..n : g[i] = y
  <2>1. PICK i \in 1..n + 1 : f[i] = y
    BY <1>1
  <2>2. i # j
    BY <1>2, <2>1
  <2>3. CASE i = n + 1
    <3>1. j \in 1..n /\ g[j] = y
      BY <2>1, <2>2, <2>3
    <3> QED
      BY <3>1
  <2>4. CASE i # n + 1
    <3>1. i \in 1..n /\ g[i] = y
      BY <2>1, <2>2, <2>4
    <3> QED
      BY <3>1
  <2> QED
    BY <2>3, <2>4
<1> HIDE DEF g
<1> QED
  BY <1>3 DEF Covered

LEMMA CoveredPart ==
  ASSUME NEW s, NEW t, NEW n \in Nat, t \subseteq s, Covered(s, n)
  PROVE  Covered(t, n) /\ Covered(t, n + 1) /\ (n = 0 => t = {})
<1>1. PICK f : \A y \in s : \E i \in 1..n : f[i] = y
  BY DEF Covered
<1>2. \A i \in 1..n : i \in 1..n + 1
  OBVIOUS
<1>3. \A y \in t : \E i \in 1..n + 1 : f[i] = y
  BY <1>1, <1>2
<1> QED
  BY <1>1, <1>3 DEF Covered

\* The element that the fold takes next.
One(s) == CHOOSE x \in s : TRUE

Sums(g, f, S) ==
  g = [s \in SUBSET S |-> IF s = {} THEN 0 ELSE f[One(s)] + g[s \ {One(s)}]]

LEMMA OneIn == \A s : s # {} => One(s) \in s
BY Zenon DEF One

LEMMA SumsExist ==
  ASSUME NEW S, IsFiniteSet(S), NEW f
  PROVE  \E g : Sums(g, f, S)
<1> DEFINE U(n) == {s \in SUBSET S : Covered(s, n)}
           Part(h, n) == h = [s \in U(n) |-> IF s = {} THEN 0 ELSE f[One(s)] + h[s \ {One(s)}]]
           P == {n \in Nat : \E h : Part(h, n)}
<1>1. 0 \in P
  <2> DEFINE h == [s \in U(0) |-> 0]
  <2>1. \A s \in U(0) : s = {}
    BY CoveredPart
  <2>2. Part(h, 0)
    BY <2>1
  <2> QED
    BY <2>2, Zenon
<1>2. ASSUME NEW n \in Nat, n \in P PROVE n + 1 \in P
  <2>1. PICK h : Part(h, n)
    BY <1>2, Zenon
  <2> DEFINE k == [s \in U(n + 1) |-> IF Covered(s, n) THEN h[s]
                                      ELSE f[One(s)] + h[s \ {One(s)}]]
  <2>2. ASSUME NEW s \in U(n + 1)
        PROVE  k[s] = IF s = {} THEN 0 ELSE f[One(s)] + k[s \ {One(s)}]
    <3>1. CASE s = {}
      <4>1. Covered(s, n)
        BY <3>1 DEF Covered
      <4> QED
        BY <2>1, <3>1, <4>1
    <3>2. CASE s # {}
      <4>1. s \ {One(s)} \in U(n) /\ s \ {One(s)} \in U(n + 1)
        BY <3>2, OneIn, CoveredLess, CoveredPart
      <4>2. k[s \ {One(s)}] = h[s \ {One(s)}]
        BY <4>1
      <4>3. k[s] = f[One(s)] + h[s \ {One(s)}]
        <5>1. CASE Covered(s, n)
          BY <2>1, <3>2, <5>1, Zenon
        <5>2. CASE ~Covered(s, n)
          BY <5>2
        <5> QED
          BY <5>1, <5>2
      <4> QED
        BY <3>2, <4>2, <4>3
    <3> QED
      BY <3>1, <3>2
  <2>3. k = [s \in U(n + 1) |-> k[s]]
    OBVIOUS
  <2> HIDE DEF k
  <2>4. Part(k, n + 1)
    BY <2>2, <2>3, Zenon
  <2>5. n + 1 \in Nat
    OBVIOUS
  <2> HIDE DEF Part
  <2> QED
    BY <2>4, <2>5
<1> HIDE DEF P
<1>3. Nat \subseteq P
  BY <1>1, <1>2, SetInduction
<1>4. PICK m \in Nat : Covered(S, m)
  BY FiniteCovered
<1>5. PICK h : Part(h, m)
  BY <1>3, <1>4, Zenon DEF P
<1>6. U(m) = SUBSET S
  BY <1>4, CoveredPart
<1> QED
  BY <1>5, <1>6, Zenon DEF Sums

LEMMA TotalDef ==
  ASSUME NEW f, IsFiniteSet(DOMAIN f)
  PROVE  \E g : Sums(g, f, DOMAIN f) /\ Total(f) = g[DOMAIN f]
<1>1. \E g : Sums(g, f, DOMAIN f)
  BY SumsExist
<1> QED
  BY <1>1, Zenon DEF Total, MapThenSumSet, MapThenFoldSet, Sums, One

\* Induction over the subsets of a finite set.
LEMMA SubsetInduction ==
  ASSUME NEW S, IsFiniteSet(S), NEW Q, {} \in Q,
         \A s \in SUBSET S : s # {} /\ (\A x \in s : s \ {x} \in Q) => s \in Q
  PROVE  SUBSET S \subseteq Q
<1> DEFINE P == {n \in Nat : \A s \in SUBSET S : Covered(s, n) => s \in Q}
<1>1. 0 \in P
  BY CoveredPart
<1>2. ASSUME NEW n \in Nat, n \in P PROVE n + 1 \in P
  <2> SUFFICES ASSUME NEW s \in SUBSET S, Covered(s, n + 1) PROVE s \in Q
    OBVIOUS
  <2>1. \A x \in s : s \ {x} \in SUBSET S /\ Covered(s \ {x}, n)
    BY CoveredLess
  <2> QED
    BY <1>2, <2>1, Zenon
<1> HIDE DEF P
<1>3. Nat \subseteq P
  BY <1>1, <1>2, SetInduction
<1>4. PICK m \in Nat : Covered(S, m)
  BY FiniteCovered
<1>5. \A s \in SUBSET S : Covered(s, m)
  BY <1>4, CoveredPart
<1> QED
  BY <1>3, <1>4, <1>5 DEF P

\* Two sums agree where the functions do.
LEMMA SumsAgree ==
  ASSUME NEW S, NEW T, IsFiniteSet(S), T \subseteq S, NEW f, NEW k, NEW g, NEW h,
         Sums(g, f, S), Sums(h, k, T), \A x \in T : f[x] = k[x]
  PROVE  \A s \in SUBSET T : g[s] = h[s]
<1> DEFINE Q == {s \in SUBSET T : g[s] = h[s]}
<1>1. {} \in Q
  BY DEF Sums
<1>2. ASSUME NEW s \in SUBSET T, s # {}, \A x \in s : s \ {x} \in Q
      PROVE  s \in Q
  <2>1. One(s) \in T /\ g[s \ {One(s)}] = h[s \ {One(s)}]
    BY <1>2, OneIn
  <2>2. g[s] = f[One(s)] + g[s \ {One(s)}]
    BY <1>2, Zenon DEF Sums
  <2>3. h[s] = k[One(s)] + h[s \ {One(s)}]
    BY <1>2, Zenon DEF Sums
  <2> QED
    BY <2>1, <2>2, <2>3
<1> HIDE DEF Q
<1>3. SUBSET T \subseteq Q
  BY <1>1, <1>2, FiniteSubset, SubsetInduction, Zenon
<1> QED
  BY <1>3 DEF Q

\* A sum of values that are closed under addition is one of them.
LEMMA SumsType ==
  ASSUME NEW S, IsFiniteSet(S), NEW f, NEW g, Sums(g, f, S),
         NEW V, 0 \in V, \A a, b \in V : a + b \in V, \A x \in S : f[x] \in V
  PROVE  \A s \in SUBSET S : g[s] \in V
<1> DEFINE Q == {s \in SUBSET S : g[s] \in V}
<1>1. {} \in Q
  BY DEF Sums
<1>2. ASSUME NEW s \in SUBSET S, s # {}, \A x \in s : s \ {x} \in Q
      PROVE  s \in Q
  <2>1. f[One(s)] \in V /\ g[s \ {One(s)}] \in V
    BY <1>2, OneIn
  <2>2. g[s] = f[One(s)] + g[s \ {One(s)}]
    BY <1>2, Zenon DEF Sums
  <2> QED
    BY <2>1, <2>2
<1> HIDE DEF Q
<1>3. SUBSET S \subseteq Q
  BY <1>1, <1>2, SubsetInduction, Zenon
<1> QED
  BY <1>3 DEF Q

\* Any element can be taken out first.
LEMMA SumsRemove ==
  ASSUME NEW S, IsFiniteSet(S), NEW f, NEW g, Sums(g, f, S), \A x \in S : f[x] \in Int
  PROVE  \A s \in SUBSET S : \A x \in s : g[s] = f[x] + g[s \ {x}]
<1> DEFINE Q == {s \in SUBSET S : \A x \in s : g[s] = f[x] + g[s \ {x}]}
<1>0. \A s \in SUBSET S : g[s] \in Int
  BY SumsType
<1>1. {} \in Q
  OBVIOUS
<1>2. ASSUME NEW s \in SUBSET S, s # {}, \A x \in s : s \ {x} \in Q
      PROVE  s \in Q
  <2> SUFFICES ASSUME NEW x \in s PROVE g[s] = f[x] + g[s \ {x}]
    OBVIOUS
  <2> DEFINE y == One(s)
  <2>1. y \in s /\ g[s] = f[y] + g[s \ {y}]
    BY <1>2, OneIn, Zenon DEF Sums
  <2> HIDE DEF y
  <2>2. CASE x = y
    BY <2>1, <2>2
  <2>3. CASE x # y
    <3> DEFINE u == (s \ {x}) \ {y}
    <3>1. g[s \ {y}] = f[x] + g[u]
      <4>1. (s \ {y}) \ {x} = u /\ x \in s \ {y} /\ s \ {y} \in Q
        BY <1>2, <2>1, <2>3, Zenon
      <4> QED
        BY <4>1, Zenon
    <3>2. g[s \ {x}] = f[y] + g[u]
      BY <1>2, <2>1, <2>3
    <3>3. f[x] \in Int /\ f[y] \in Int /\ g[u] \in Int
      BY <1>0, <2>1
    <3> HIDE DEF u
    <3> QED
      BY <2>1, <3>1, <3>2, <3>3
  <2> QED
    BY <2>2, <2>3
<1> HIDE DEF Q
<1>3. SUBSET S \subseteq Q
  BY <1>1, <1>2, SubsetInduction
<1> QED
  BY <1>3, Zenon DEF Q

\* The sum of nothing.
LEMMA TotalEmpty == ASSUME NEW f, DOMAIN f = {} PROVE Total(f) = 0
<1>1. PICK g : Sums(g, f, DOMAIN f) /\ Total(f) = g[DOMAIN f]
  BY TotalDef, FiniteEmpty
<1> QED
  BY <1>1 DEF Sums

LEMMA TotalType ==
  ASSUME NEW S, IsFiniteSet(S), NEW V, 0 \in V, \A a, b \in V : a + b \in V, NEW f \in [S -> V]
  PROVE  Total(f) \in V
<1>1. DOMAIN f = S
  OBVIOUS
<1>2. PICK g : Sums(g, f, S) /\ Total(f) = g[S]
  BY <1>1, TotalDef
<1> QED
  BY <1>2, SumsType

\* A sum is one summand and the sum of the others.
LEMMA TotalWithout ==
  ASSUME NEW S, IsFiniteSet(S), NEW f \in [S -> Int], NEW x \in S,
         NEW k \in [S \ {x} -> Int], \A y \in S \ {x} : k[y] = f[y]
  PROVE  Total(f) = f[x] + Total(k)
<1> DEFINE T == S \ {x}
<1>1. DOMAIN f = S /\ DOMAIN k = T /\ IsFiniteSet(T)
  BY FiniteSubset
<1>2. PICK g : Sums(g, f, S) /\ Total(f) = g[S]
  BY <1>1, TotalDef
<1>3. PICK h : Sums(h, k, T) /\ Total(k) = h[T]
  BY <1>1, TotalDef
<1>4. g[S] = f[x] + g[T]
  BY <1>2, SumsRemove
<1>0. T \subseteq S /\ \A y \in T : f[y] = k[y]
  OBVIOUS
<1> HIDE DEF T
<1>5. \A s \in SUBSET T : g[s] = h[s]
  BY <1>0, <1>2, <1>3, SumsAgree
<1>6. g[T] = h[T]
  BY <1>5
<1> QED
  BY <1>2, <1>3, <1>4, <1>6

\* A sum with one summand changed.
LEMMA TotalChanged ==
  ASSUME NEW S, IsFiniteSet(S), NEW f \in [S -> Int], NEW k \in [S -> Int], NEW x \in S,
         \A y \in S \ {x} : k[y] = f[y]
  PROVE  Total(k) = Total(f) + (k[x] - f[x])
<1> DEFINE r == [y \in S \ {x} |-> f[y]]
<1>1. /\ IsFiniteSet(S \ {x}) /\ r \in [S \ {x} -> Int]
      /\ \A y \in S \ {x} : r[y] = f[y] /\ r[y] = k[y]
  BY FiniteSubset
<1> HIDE DEF r
<1>2. Total(f) = f[x] + Total(r) /\ Total(k) = k[x] + Total(r)
  BY <1>1, TotalWithout
<1>3. Total(r) \in Int
  BY <1>1, TotalType
<1>4. f[x] \in Int /\ k[x] \in Int
  OBVIOUS
<1> QED
  BY <1>2, <1>3, <1>4

-----------------------------------------------------------------------------
(* Types *)

Phases == Running \cup {"IDLE", "ANSWERED", "FAILED", "DEAD"}

Requests == [kind : {"RESERVE", "SPEND", "RELEASE", "STOP"}, call : Calls,
             amount : Nat, attempt : Nat]

Entries == [kind : {"RESERVE", "SPEND", "RELEASE", "STOP", "REFUND"},
            by : Calls \cup Refunds, of : Calls, amount : Nat]

Accounts == [active : BOOLEAN, limit : Nat, reserved : Int, spent : Int, refunded : Int]

Reservations ==
  [status : {"NONE", "OPEN", "CLOSED"}, amount : Nat, spent : Nat, released : Nat]

Rows == [phase : Phases, attempt : Nat, cost : Nat, returned : BOOLEAN, faulted : BOOLEAN]

TypeOK ==
  /\ account \in Accounts
  /\ reservation \in [Calls -> Reservations]
  /\ ledger \subseteq Entries
  /\ call \in [Calls -> Rows]
  /\ net \subseteq Requests
  /\ cleaner \in [phase : {"IDLE", "LIST", "RELEASE"}, left : SUBSET Requests]
  /\ \A r \in cleaner.left : r.kind = "STOP"

-----------------------------------------------------------------------------
(* The sums of the ledger *)

\* The amounts of entries are a natural number.
LEMMA AmountsType ==
  ASSUME NEW S, S \subseteq Entries, IsFiniteSet(S)
  PROVE  Amounts(S) \in Nat
<1> DEFINE f == [e \in S |-> e.amount]
<1>1. f \in [S -> Nat]
  BY DEF Entries
<1> HIDE DEF f
<1>2. 0 \in Nat /\ \A a, b \in Nat : a + b \in Nat
  OBVIOUS
<1>3. Total(f) \in Nat
  BY <1>1, <1>2, TotalType, Zenon
<1> QED
  BY <1>3 DEF Amounts, f

\* A new entry adds its amount.
LEMMA AmountsAdded ==
  ASSUME NEW S, S \subseteq Entries, IsFiniteSet(S), NEW e \in Entries, e \notin S
  PROVE  Amounts(S \cup {e}) = Amounts(S) + e.amount
<1> DEFINE T == S \cup {e}
           f == [d \in T |-> d.amount]
           k == [d \in S |-> d.amount]
<1>1. T \ {e} = S /\ IsFiniteSet(T)
  BY FiniteAdd
<1>2. /\ f \in [T -> Int] /\ k \in [T \ {e} -> Int] /\ f[e] = e.amount
      /\ \A d \in T \ {e} : k[d] = f[d]
  BY <1>1 DEF Entries
<1>3. e \in T
  OBVIOUS
<1>4. Total(k) \in Nat /\ e.amount \in Nat
  BY AmountsType DEF Amounts, Entries
<1> HIDE DEF T, f, k
<1>5. Total(f) = f[e] + Total(k)
  BY <1>1, <1>2, <1>3, TotalWithout
<1>6. Total(f) = Total(k) + e.amount
  BY <1>2, <1>4, <1>5
<1> QED
  BY <1>6 DEF Amounts, T, f, k

\* No entry is above the sum.
LEMMA AmountsBound ==
  ASSUME NEW S, S \subseteq Entries, IsFiniteSet(S), NEW e \in S
  PROVE  e.amount <= Amounts(S)
<1> DEFINE T == S \ {e}
<1>1. T \subseteq Entries /\ IsFiniteSet(T) /\ e \in Entries /\ e \notin T /\ T \cup {e} = S
  BY FiniteSubset
<1> HIDE DEF T
<1>2. Amounts(S) = Amounts(T) + e.amount
  BY <1>1, AmountsAdded
<1>3. Amounts(T) \in Nat /\ e.amount \in Nat
  BY <1>1, AmountsType DEF Entries
<1> QED
  BY <1>2, <1>3

\* The sums of the ledger are natural numbers.
LEMMA LedgerSumsType ==
  ASSUME ledger \subseteq Entries, IsFiniteSet(ledger), NEW kind, NEW c
  PROVE  SumOf(kind) \in Nat /\ SumFor(kind, c) \in Nat
<1> DEFINE S == {e \in ledger : e.kind = kind}
           F == {e \in ledger : e.kind = kind /\ e.of = c}
<1>1. S \subseteq Entries /\ IsFiniteSet(S) /\ F \subseteq Entries /\ IsFiniteSet(F)
  BY FiniteSubset
<1> HIDE DEF S, F
<1>2. Amounts(S) \in Nat /\ Amounts(F) \in Nat
  BY <1>1, AmountsType
<1> QED
  BY <1>2 DEF SumOf, SumFor, S, F

\* How the sums of the ledger grow with it.
LEMMA SumsGrow ==
  ASSUME ledger \subseteq Entries, IsFiniteSet(ledger), NEW e \in Entries, e \notin ledger,
         ledger' = ledger \cup {e}, NEW kind, NEW c
  PROVE  /\ e.kind = kind => SumOf(kind)' = SumOf(kind) + e.amount
         /\ e.kind # kind => SumOf(kind)' = SumOf(kind)
         /\ e.kind = kind /\ e.of = c => SumFor(kind, c)' = SumFor(kind, c) + e.amount
         /\ e.kind # kind \/ e.of # c => SumFor(kind, c)' = SumFor(kind, c)
<1> DEFINE S == {d \in ledger : d.kind = kind}
           F == {d \in ledger : d.kind = kind /\ d.of = c}
<1>1. /\ S \subseteq Entries /\ IsFiniteSet(S) /\ e \notin S
      /\ F \subseteq Entries /\ IsFiniteSet(F) /\ e \notin F
  BY FiniteSubset
<1>2. /\ SumOf(kind) = Amounts(S) /\ SumFor(kind, c) = Amounts(F)
      /\ SumOf(kind)' = Amounts({d \in ledger' : d.kind = kind})
      /\ SumFor(kind, c)' = Amounts({d \in ledger' : d.kind = kind /\ d.of = c})
  BY DEF SumOf, SumFor, Amounts
<1>3. Amounts(S \cup {e}) = Amounts(S) + e.amount /\ Amounts(F \cup {e}) = Amounts(F) + e.amount
  BY <1>1, AmountsAdded
<1>4. ASSUME e.kind = kind PROVE SumOf(kind)' = SumOf(kind) + e.amount
  <2>1. {d \in ledger' : d.kind = kind} = S \cup {e}
    BY <1>4
  <2> QED
    BY <1>2, <1>3, <2>1, Zenon
<1>5. ASSUME e.kind # kind PROVE SumOf(kind)' = SumOf(kind)
  <2>1. {d \in ledger' : d.kind = kind} = S
    BY <1>5
  <2> QED
    BY <1>2, <2>1, Zenon
<1>6. ASSUME e.kind = kind, e.of = c PROVE SumFor(kind, c)' = SumFor(kind, c) + e.amount
  <2>1. {d \in ledger' : d.kind = kind /\ d.of = c} = F \cup {e}
    BY <1>6
  <2> QED
    BY <1>2, <1>3, <2>1, Zenon
<1>7. ASSUME e.kind # kind \/ e.of # c PROVE SumFor(kind, c)' = SumFor(kind, c)
  <2>1. {d \in ledger' : d.kind = kind /\ d.of = c} = F
    BY <1>7
  <2> QED
    BY <1>2, <2>1
<1> QED
  BY <1>4, <1>5, <1>6, <1>7

-----------------------------------------------------------------------------
(* The inductive invariant *)

\* Nothing happens on an account before it exists.
Unopened ==
  ~account.active => /\ account.reserved = 0 /\ account.spent = 0 /\ account.refunded = 0
                     /\ ledger = {}
                     /\ \A c \in Calls : reservation[c].status = "NONE"

\* The reservations are the ones the ledger knows, and none is used up twice.
Recorded ==
  \A c \in Calls : /\ reservation[c].status # "NONE" <=> Known("RESERVE", c)
                   /\ Unspent(c) >= 0

\* A listed rest is never below what is left of the reservation, so the release
\* of it closes the reservation or is refused.
Listed ==
  \A r \in net \cup cleaner.left :
    r.kind = "STOP" => /\ reservation[r.call].status # "NONE"
                       /\ Unspent(r.call) <= r.amount

\* A reservation that was not made is empty.
Blank == \A c \in Calls : reservation[c].status = "NONE" => reservation[c] = NoReservation

\* Every entry of a call is about that call; only a refund is made by another.
OwnEntries == IsFiniteSet(ledger) /\ \A e \in ledger : e.kind # "REFUND" => e.of = e.by

BooksInv ==
  /\ TypeOK /\ Unopened /\ WithinLimit /\ Recorded /\ Listed
  /\ Blank /\ OwnEntries /\ BooksBalance

-----------------------------------------------------------------------------
(* Facts about the operators *)

\* A charge is at most the reservation.
LEMMA ChargeBound ==
  \A cost \in Nat : Charge(cost) \in Nat /\ Charge(cost) <= Reserve
BY BudgetAssumption DEF Charge

\* A request asks for an amount.
LEMMA AskedAmount ==
  ASSUME TypeOK, NEW c \in Calls
  PROVE  Asked(c) \in Nat
<1>1. call[c].cost \in Nat
  BY DEF TypeOK, Rows
<1>2. Charge(call[c].cost) \in Nat /\ Charge(call[c].cost) <= Reserve
  BY <1>1, ChargeBound
<1> QED
  BY <1>2, BudgetAssumption DEF Asked

\* An answered call goes on to one of the phases.
LEMMA AfterPhase ==
  ASSUME NEW c \in Calls, NEW ok \in BOOLEAN
  PROVE  After(c, ok) \in {"PROVIDER", "RELEASE", "ANSWERED", "FAILED"}
BY DEF After, Outcome

\* A call that fails keeps what it knew.
LEMMA Failing ==
  ASSUME NEW x \in Rows, NEW phase \in Phases
  PROVE  LET y == [x EXCEPT !.phase = phase, !.faulted = TRUE]
         IN  /\ y \in Rows /\ y.phase = phase /\ y.faulted
             /\ y.attempt = x.attempt /\ y.cost = x.cost /\ y.returned = x.returned
BY Zenon DEF Rows

\* So does a call that makes another attempt.
LEMMA Retrying ==
  ASSUME NEW x \in Rows, NEW n \in Nat
  PROVE  LET y == [x EXCEPT !.attempt = n, !.faulted = TRUE]
         IN  /\ y \in Rows /\ y.phase = x.phase /\ y.faulted
             /\ y.attempt = n /\ y.cost = x.cost /\ y.returned = x.returned
BY Zenon DEF Rows

\* And a call that goes on.
LEMMA GoingOn ==
  ASSUME NEW x \in Rows, NEW phase \in Phases
  PROVE  LET y == [x EXCEPT !.phase = phase, !.attempt = 1]
         IN  /\ y \in Rows /\ y.phase = phase /\ y.attempt = 1
             /\ y.cost = x.cost /\ y.returned = x.returned /\ y.faulted = x.faulted
BY Zenon DEF Rows

-----------------------------------------------------------------------------
(* What the steps of a call do *)

LEMMA CallBegun ==
  ASSUME TypeOK, NEW c \in Calls, BeginCall(c)
  PROVE  /\ call[c].phase = "IDLE" /\ UNCHANGED <<serverVars, cleaner>>
         /\ call' \in [Calls -> Rows] /\ \A d \in Calls \ {c} : call'[d] = call[d]
         /\ call'[c].phase = "RESERVE" /\ call'[c].attempt = 1 /\ call'[c].cost = call[c].cost
         /\ call'[c].faulted = call[c].faulted
         /\ \E r \in Requests : /\ net' = net \cup {r}
                               /\ r.kind = "RESERVE" /\ r.call = c
                               /\ r.amount = Reserve /\ r.attempt = 1
<1> DEFINE r == Request("RESERVE", c, Reserve, 1)
           y == [call[c] EXCEPT !.phase = "RESERVE", !.attempt = 1]
<1>1. call[c].phase = "IDLE" /\ net' = net \cup {r} /\ UNCHANGED <<serverVars, cleaner>>
  BY DEF BeginCall
<1>2. call' = [call EXCEPT ![c] = y]
  BY DEF BeginCall
<1>3. call[c] \in Rows /\ "RESERVE" \in Phases
  BY DEF TypeOK, Phases, Running, Waiting
<1>4. /\ y \in Rows /\ y.phase = "RESERVE" /\ y.attempt = 1
      /\ y.cost = call[c].cost /\ y.faulted = call[c].faulted
  BY <1>3, GoingOn, Zenon
<1>5. r \in Requests /\ r.kind = "RESERVE" /\ r.call = c /\ r.amount = Reserve /\ r.attempt = 1
  BY BudgetAssumption DEF Request, Requests
<1> HIDE DEF r, y
<1>6. /\ call' \in [Calls -> Rows] /\ call'[c] = y
      /\ \A d \in Calls \ {c} : call'[d] = call[d]
  BY <1>2, <1>4 DEF TypeOK
<1> QED
  BY <1>1, <1>4, <1>5, <1>6

LEMMA ProviderEnded ==
  ASSUME TypeOK, NEW c \in Calls, NEW returned \in BOOLEAN, NEW cost \in Costs,
         ProviderEnds(c, returned, cost)
  PROVE  /\ call[c].phase = "PROVIDER" /\ UNCHANGED <<serverVars, cleaner>>
         /\ call' \in [Calls -> Rows] /\ \A d \in Calls \ {c} : call'[d] = call[d]
         /\ call'[c].attempt = 1 /\ call'[c].cost = cost
         /\ call'[c].returned = returned /\ call'[c].faulted = call[c].faulted
         /\ \E r \in Requests :
              /\ net' = net \cup {r}
              /\ call'[c].phase = r.kind /\ r.call = c /\ r.attempt = 1
              /\ \/ r.kind = "SPEND" /\ r.amount = Charge(cost)
                 \/ r.kind = "RELEASE" /\ r.amount = Reserve /\ ~returned /\ cost = 0
<1> DEFINE next == IF returned \/ cost > 0 THEN "SPEND" ELSE "RELEASE"
           r == Request(next, c, IF next = "SPEND" THEN Charge(cost) ELSE Reserve, 1)
           y == [call[c] EXCEPT !.phase = next, !.attempt = 1, !.cost = cost,
                                !.returned = returned]
<1>1. call[c].phase = "PROVIDER" /\ net' = net \cup {r} /\ UNCHANGED <<serverVars, cleaner>>
  BY DEF ProviderEnds
<1>2. cost \in Nat /\ Charge(cost) \in Nat /\ Charge(cost) <= Reserve
  BY BudgetAssumption, ChargeBound
<1>3. call' = [call EXCEPT ![c] = y]
  BY DEF ProviderEnds
<1>4. call[c] \in Rows /\ next \in Phases
  BY DEF TypeOK, Phases, Running, Waiting
<1>5. /\ r \in Requests /\ r.kind = next /\ r.call = c /\ r.attempt = 1
      /\ r.amount = IF next = "SPEND" THEN Charge(cost) ELSE Reserve
  BY <1>2, BudgetAssumption DEF Request, Requests
<1>6. next = "SPEND" \/ (next = "RELEASE" /\ ~returned /\ cost = 0)
  BY <1>2
<1> HIDE DEF next
<1>7. /\ y \in Rows /\ y.phase = next /\ y.attempt = 1
      /\ y.cost = cost /\ y.returned = returned /\ y.faulted = call[c].faulted
  BY <1>2, <1>4, Zenon DEF Rows
<1> HIDE DEF r, y
<1>8. /\ call' \in [Calls -> Rows] /\ call'[c] = y
      /\ \A d \in Calls \ {c} : call'[d] = call[d]
  BY <1>3, <1>7 DEF TypeOK
<1> QED
  BY <1>1, <1>5, <1>6, <1>7, <1>8

LEMMA AttemptFailed ==
  ASSUME TypeOK, NEW c \in Calls, AttemptFails(c)
  PROVE  /\ call[c].phase \in Waiting /\ UNCHANGED <<serverVars, cleaner>>
         /\ call' \in [Calls -> Rows] /\ \A d \in Calls \ {c} : call'[d] = call[d]
         /\ call'[c].cost = call[c].cost /\ call'[c].returned = call[c].returned
         /\ call'[c].faulted
         /\ \/ call'[c].phase = call[c].phase
            \/ call'[c].phase = "FAILED"
            \/ call[c].phase = "RELEASE" /\ call[c].returned /\ call'[c].phase = "ANSWERED"
         /\ \E r \in Requests : /\ net' = net \/ net' = net \cup {r}
                               /\ r.kind = call[c].phase /\ r.call = c /\ r.amount = Asked(c)
<1> DEFINE r == Request(call[c].phase, c, Asked(c), call[c].attempt + 1)
           again == [call[c] EXCEPT !.attempt = call[c].attempt + 1, !.faulted = TRUE]
           last == IF call[c].phase = "RELEASE" THEN Outcome(c) ELSE "FAILED"
           over == [call[c] EXCEPT !.phase = last, !.faulted = TRUE]
<1>1. call[c] \in Rows /\ call[c].phase \in Waiting /\ call[c].attempt + 1 \in Nat
  BY DEF AttemptFails, TypeOK, Rows
<1>2. (net' = net \/ net' = net \cup {r}) /\ UNCHANGED <<serverVars, cleaner>>
  BY DEF AttemptFails
<1>3. call' = [call EXCEPT ![c] = again] \/ call' = [call EXCEPT ![c] = over]
  BY Zenon DEF AttemptFails
<1>4. /\ last \in Phases
      /\ last = "FAILED" \/ (call[c].phase = "RELEASE" /\ call[c].returned /\ last = "ANSWERED")
  BY DEF Outcome, Phases
<1>5. /\ again \in Rows /\ again.phase = call[c].phase /\ again.cost = call[c].cost
      /\ again.returned = call[c].returned /\ again.faulted
  BY <1>1, Retrying, Zenon
<1> HIDE DEF last
<1>6. /\ over \in Rows /\ over.phase = last /\ over.cost = call[c].cost
      /\ over.returned = call[c].returned /\ over.faulted
  BY <1>1, <1>4, Failing, Zenon
<1>7. r \in Requests /\ r.kind = call[c].phase /\ r.call = c /\ r.amount = Asked(c)
  BY <1>1, AskedAmount DEF Request, Requests, Waiting
<1> HIDE DEF r, again, over
<1>8. /\ call' \in [Calls -> Rows] /\ (call'[c] = again \/ call'[c] = over)
      /\ \A d \in Calls \ {c} : call'[d] = call[d]
  BY <1>3, <1>5, <1>6 DEF TypeOK
<1> QED
  BY <1>1, <1>2, <1>4, <1>5, <1>6, <1>7, <1>8

\* The death of the process spoils only the calls that were running.
LEMMA KilledCalls ==
  ASSUME TypeOK, call' = Killed
  PROVE  /\ call' \in [Calls -> Rows]
         /\ \A c \in Calls : \/ call'[c] = call[c]
                            \/ /\ call'[c].phase = "DEAD" /\ call'[c].faulted
                               /\ call'[c].cost = call[c].cost
<1>1. \A c \in Calls :
        \/ call'[c] = call[c]
        \/ call'[c] = [call[c] EXCEPT !.phase = "DEAD", !.faulted = TRUE]
  BY Zenon DEF Killed
<1>2. "DEAD" \in Phases /\ \A c \in Calls : call[c] \in Rows
  BY DEF Phases, TypeOK
<1>3. \A c \in Calls : /\ call'[c] \in Rows
                       /\ \/ call'[c] = call[c]
                          \/ /\ call'[c].phase = "DEAD" /\ call'[c].faulted
                             /\ call'[c].cost = call[c].cost
  <2> TAKE c \in Calls
  <2> DEFINE y == [call[c] EXCEPT !.phase = "DEAD", !.faulted = TRUE]
  <2>1. y \in Rows /\ y.phase = "DEAD" /\ y.faulted /\ y.cost = call[c].cost
    BY <1>2, Failing, Zenon
  <2> QED
    BY <1>1, <1>2, <2>1, Zenon
<1>4. call' \in [Calls -> Rows]
  BY <1>3, Zenon DEF Killed
<1> QED
  BY <1>3, <1>4

-----------------------------------------------------------------------------
(* What the server's transactions do *)

\* What the transaction of a new request does to the books.
LEMMA Booked ==
  ASSUME BooksInv, NEW r \in net, ~Known(r.kind, r.call), Apply(r)
  PROVE  /\ account.active /\ account'.active
         /\ account' \in Accounts
         /\ WithinLimit'
         /\ ledger' = ledger \cup {Entry(r.kind, r.call, r.call, r.amount)}
         /\ reservation' \in [Calls -> Reservations]
         /\ \A d \in Calls \ {r.call} : reservation'[d] = reservation[d]
         /\ r.kind = "RESERVE" =>
              /\ reservation[r.call].status = "NONE"
              /\ reservation'[r.call] =
                   [status |-> "OPEN", amount |-> r.amount, spent |-> 0, released |-> 0]
              /\ account'.reserved = account.reserved + r.amount
              /\ account'.spent = account.spent
         /\ account'.refunded = account.refunded
         /\ r.kind # "RESERVE" =>
              /\ account'.reserved = account.reserved - r.amount
              /\ account'.spent = account.spent + (IF r.kind = "SPEND" THEN r.amount ELSE 0)
              /\ reservation'[r.call].amount = reservation[r.call].amount
              /\ reservation'[r.call].spent =
                   reservation[r.call].spent + (IF r.kind = "SPEND" THEN r.amount ELSE 0)
              /\ reservation'[r.call].released =
                   reservation[r.call].released + (IF r.kind = "SPEND" THEN 0 ELSE r.amount)
              /\ reservation[r.call].status # "NONE" /\ r.amount <= Unspent(r.call)
              /\ Unspent(r.call)' = Unspent(r.call) - r.amount
              /\ reservation'[r.call].status =
                   IF Unspent(r.call) <= r.amount THEN "CLOSED" ELSE reservation[r.call].status
<1>1. /\ r.call \in Calls /\ r.amount \in Nat /\ reservation[r.call] \in Reservations
      /\ r.kind \in {"RESERVE", "SPEND", "RELEASE", "STOP"}
      /\ account.limit \in Nat /\ account.active \in BOOLEAN
      /\ account.reserved \in Int /\ account.spent \in Int /\ account.refunded \in Int
  BY DEF BooksInv, TypeOK, Accounts, Requests
<1>2. CASE r.kind = "RESERVE"
  <2>1. ReserveBudget(r.call, r.amount)
    BY <1>2 DEF Apply
  <2>2. reservation[r.call].status = "NONE"
    BY <1>1, <1>2 DEF BooksInv, Recorded
  <2>3. account.active /\ r.amount <= account.limit - Committed
    BY <2>1 DEF ReserveBudget, CanReserve, budgetAvailableMicros
  <2>4. /\ account'.active = account.active /\ account'.limit = account.limit
        /\ account'.reserved = account.reserved + r.amount
        /\ account'.spent = account.spent /\ account'.refunded = account.refunded
    BY <2>1, Zenon DEF ReserveBudget, BooksInv, TypeOK, Accounts
  <2>5. account.reserved + r.amount \in Int
    BY <1>1
  <2>6. account' \in Accounts
    BY <2>1, <2>5, Zenon DEF ReserveBudget, BooksInv, TypeOK, Accounts
  <2>7. WithinLimit'
    BY <1>1, <2>3, <2>4 DEF WithinLimit, Committed
  <2>8. /\ reservation' = [reservation EXCEPT ![r.call] =
              [status |-> "OPEN", amount |-> r.amount, spent |-> 0, released |-> 0]]
        /\ ledger' = ledger \cup {Entry(r.kind, r.call, r.call, r.amount)}
    BY <1>2, <2>1 DEF ReserveBudget
  <2> QED
    BY <1>1, <1>2, <2>2, <2>3, <2>4, <2>6, <2>7, <2>8 DEF BooksInv, TypeOK, Reservations
<1>3. CASE r.kind # "RESERVE"
  <2> DEFINE st == StatusAfter(r.call, r.amount)
             x == reservation[r.call]
  <2>1. applyBudgetReservationDelta(r.kind, r.call, r.amount)
    BY <1>3 DEF Apply
  <2>2. x.status # "NONE" /\ r.amount <= Unspent(r.call)
    BY <2>1 DEF applyBudgetReservationDelta, CanCharge
  <2>3. account.active
    BY <1>1, <2>2 DEF BooksInv, Unopened
  <2>4. /\ x.spent \in Nat /\ x.released \in Nat /\ x.amount \in Nat
        /\ Unspent(r.call) = x.amount - x.spent - x.released
        /\ x.spent + r.amount \in Nat /\ x.released + r.amount \in Nat
        /\ account.reserved - r.amount \in Int /\ account.spent + r.amount \in Int
    BY <1>1 DEF Reservations, Unspent
  <2>5. /\ st = IF Unspent(r.call) <= r.amount THEN "CLOSED" ELSE x.status
        /\ st \in {"NONE", "OPEN", "CLOSED"}
    BY <1>1, <2>4 DEF StatusAfter, Reservations
  <2>6. ledger' = ledger \cup {Entry(r.kind, r.call, r.call, r.amount)}
    BY <2>1 DEF applyBudgetReservationDelta
  <2> HIDE DEF st
  <2>7. CASE r.kind = "SPEND"
    <3> DEFINE y == [x EXCEPT !.spent = x.spent + r.amount, !.status = st]
    <3>1. reservation' = [reservation EXCEPT ![r.call] = y]
      BY <2>1, <2>7, Zenon DEF applyBudgetReservationDelta, st
    <3>2. /\ y \in Reservations /\ y.status = st /\ y.amount = x.amount
          /\ y.spent = x.spent + r.amount /\ y.released = x.released
      BY <1>1, <2>4, <2>5, Zenon DEF Reservations
    <3>3. /\ account'.active = account.active /\ account'.limit = account.limit
          /\ account'.reserved = account.reserved - r.amount
          /\ account'.spent = account.spent + r.amount /\ account'.refunded = account.refunded
          /\ account' \in Accounts
      BY <2>1, <2>4, <2>7, Zenon DEF applyBudgetReservationDelta, BooksInv, TypeOK, Accounts
    <3> HIDE DEF y
    <3>4. WithinLimit'
      BY <1>1, <3>3 DEF BooksInv, WithinLimit, Committed
    <3>5. reservation'[r.call] = y /\ reservation' \in [Calls -> Reservations]
      BY <1>1, <3>1, <3>2 DEF BooksInv, TypeOK
    <3>6. Unspent(r.call)' = Unspent(r.call) - r.amount
      BY <1>1, <2>4, <3>2, <3>5 DEF Unspent
    <3>7. /\ account'.spent = account.spent + (IF r.kind = "SPEND" THEN r.amount ELSE 0)
          /\ reservation'[r.call].spent = x.spent + (IF r.kind = "SPEND" THEN r.amount ELSE 0)
          /\ reservation'[r.call].released = x.released + (IF r.kind = "SPEND" THEN 0 ELSE r.amount)
      BY <1>1, <2>4, <2>7, <3>2, <3>3, <3>5
    <3>8. \A d \in Calls \ {r.call} : reservation'[d] = reservation[d]
      BY <3>1 DEF BooksInv, TypeOK
    <3> QED
      BY <1>1, <1>3, <2>2, <2>3, <2>5, <2>6, <3>2, <3>3, <3>4, <3>5, <3>6, <3>7, <3>8
  <2>8. CASE r.kind \in {"RELEASE", "STOP"}
    <3> DEFINE y == [x EXCEPT !.released = x.released + r.amount, !.status = st]
    <3>1. reservation' = [reservation EXCEPT ![r.call] = y]
      BY <2>1, <2>8, Zenon DEF applyBudgetReservationDelta, st
    <3>2. /\ y \in Reservations /\ y.status = st /\ y.amount = x.amount
          /\ y.released = x.released + r.amount /\ y.spent = x.spent
      BY <1>1, <2>4, <2>5, Zenon DEF Reservations
    <3>3. /\ account'.active = account.active /\ account'.limit = account.limit
          /\ account'.reserved = account.reserved - r.amount
          /\ account'.spent = account.spent /\ account'.refunded = account.refunded
          /\ account' \in Accounts
      BY <2>1, <2>4, <2>8, Zenon DEF applyBudgetReservationDelta, BooksInv, TypeOK, Accounts
    <3> HIDE DEF y
    <3>4. WithinLimit'
      BY <1>1, <3>3 DEF BooksInv, WithinLimit, Committed
    <3>5. reservation'[r.call] = y /\ reservation' \in [Calls -> Reservations]
      BY <1>1, <3>1, <3>2 DEF BooksInv, TypeOK
    <3>6. Unspent(r.call)' = Unspent(r.call) - r.amount
      BY <1>1, <2>4, <3>2, <3>5 DEF Unspent
    <3>7. /\ account'.spent = account.spent + (IF r.kind = "SPEND" THEN r.amount ELSE 0)
          /\ reservation'[r.call].spent = x.spent + (IF r.kind = "SPEND" THEN r.amount ELSE 0)
          /\ reservation'[r.call].released = x.released + (IF r.kind = "SPEND" THEN 0 ELSE r.amount)
      BY <1>1, <2>4, <2>8, <3>2, <3>3, <3>5
    <3>8. \A d \in Calls \ {r.call} : reservation'[d] = reservation[d]
      BY <3>1 DEF BooksInv, TypeOK
    <3> QED
      BY <1>1, <1>3, <2>2, <2>3, <2>5, <2>6, <3>2, <3>3, <3>4, <3>5, <3>6, <3>7, <3>8
  <2> QED
    BY <1>1, <1>3, <2>7, <2>8
<1> QED
  BY <1>2, <1>3

\* What an answer does to the call and to the requests under way.
LEMMA Answered ==
  ASSUME TypeOK, NEW r \in net, NEW ok \in BOOLEAN, Answer(r, ok)
  PROVE  /\ call' \in [Calls -> Rows] /\ net' \subseteq Requests
         /\ \A d \in Calls \ {r.call} : call'[d] = call[d]
         /\ call'[r.call].cost = call[r.call].cost
         /\ call'[r.call].returned = call[r.call].returned
         /\ call'[r.call].faulted = call[r.call].faulted
         /\ ~Awaited(r) => call' = call /\ net' = net \ {r}
         /\ Awaited(r) => /\ call'[r.call].phase = After(r.call, ok)
                          /\ call'[r.call].attempt = 1
         /\ \A q \in net' \ net : /\ Awaited(r) /\ After(r.call, ok) = "RELEASE"
                                 /\ q = Rest(r.call)
         /\ r \in net' => Awaited(r) /\ r = Rest(r.call) /\ After(r.call, ok) = "RELEASE"
<1>1. r.call \in Calls /\ call[r.call] \in Rows /\ net \subseteq Requests
  BY DEF TypeOK, Requests
<1>2. CASE ~Awaited(r)
  BY <1>1, <1>2 DEF Answer, TypeOK
<1>3. CASE Awaited(r)
  <2> DEFINE next == After(r.call, ok)
             y == [call[r.call] EXCEPT !.phase = next, !.attempt = 1]
  <2>1. call' = [call EXCEPT ![r.call] = y]
    BY <1>3, Zenon DEF Answer
  <2>2. net' = (net \ {r}) \cup (IF next = "RELEASE" THEN {Rest(r.call)} ELSE {})
    BY <1>3, Zenon DEF Answer
  <2>3. next \in Phases
    BY <1>1, AfterPhase DEF Phases, Running, Waiting
  <2>4. Rest(r.call) \in Requests
    <3>1. call[r.call].cost \in Nat
      BY <1>1 DEF Rows
    <3>2. Charge(call[r.call].cost) \in Nat /\ Charge(call[r.call].cost) <= Reserve
      BY <3>1, ChargeBound
    <3> QED
      BY <1>1, <3>2, BudgetAssumption DEF Rest, Request, Requests
  <2> HIDE DEF next
  <2>5. /\ y \in Rows /\ y.phase = next /\ y.attempt = 1 /\ y.cost = call[r.call].cost
        /\ y.returned = call[r.call].returned /\ y.faulted = call[r.call].faulted
    BY <1>1, <2>3, GoingOn, Zenon
  <2> HIDE DEF y
  <2> QED
    BY <1>1, <1>3, <2>1, <2>2, <2>4, <2>5 DEF TypeOK, next
<1> QED
  BY <1>2, <1>3

\* The ledger as a transaction leaves it.
LEMMA KnownAfter ==
  ASSUME NEW r \in net,
         ledger' = ledger \/ ledger' = ledger \cup {Entry(r.kind, r.call, r.call, r.amount)}
  PROVE  /\ ledger \subseteq ledger'
         /\ \A kind, by : Known(kind, by) => Known(kind, by)'
         /\ \A kind, by : kind # r.kind \/ by # r.call => (Known(kind, by)' <=> Known(kind, by))
BY DEF Known, Entry

\* The three outcomes of a request.
LEMMA Executed ==
  ASSUME NEW r \in net, Execute(r)
  PROVE  /\ cleaner' = cleaner
         /\ \/ /\ UNCHANGED serverVars /\ Known(r.kind, r.call)
               /\ \E ok \in BOOLEAN :
                     /\ Answer(r, ok)
                     /\ ok => Entry(r.kind, r.call, r.call, r.amount) \in ledger
            \/ /\ UNCHANGED serverVars /\ ~Known(r.kind, r.call) /\ ~Admits(r) /\ Answer(r, FALSE)
            \/ ~Known(r.kind, r.call) /\ Apply(r) /\ Answer(r, TRUE)
<1> DEFINE same == Entry(r.kind, r.call, r.call, r.amount) \in ledger
<1>1. same \in BOOLEAN
  OBVIOUS
<1> QED
  BY <1>1, Zenon DEF Execute

-----------------------------------------------------------------------------
(* The invariant *)

LEMMA InitBooks == Init => BooksInv
<1> SUFFICES ASSUME Init PROVE BooksInv
  OBVIOUS
<1>1. TypeOK
  BY DEF Init, TypeOK, Accounts, Reservations, Rows, NoReservation, Phases, Running, Waiting
<1>2. Unopened /\ WithinLimit
  BY DEF Init, Unopened, NoReservation, WithinLimit, Committed
<1>3. Recorded /\ Listed /\ Blank /\ OwnEntries
  BY FiniteEmpty
  DEF Init, Recorded, Unspent, NoReservation, Known, Listed, Blank, OwnEntries
<1>4. BooksBalance
  <2>1. \A kind, c : SumOf(kind) = 0 /\ SumFor(kind, c) = 0
    <3>1. Amounts({}) = 0
      BY TotalEmpty DEF Amounts
    <3> QED
      BY <3>1 DEF Init, SumOf, SumFor
  <2>2. Total([c \in Calls |-> Unspent(c)]) = 0
    <3> DEFINE f == [c \in Calls |-> Unspent(c)]
    <3>1. f \in [Calls -> {0}]
      BY DEF Init, NoReservation, Unspent
    <3> HIDE DEF f
    <3>2. 0 \in {0} /\ \A a, b \in {0} : a + b \in {0}
      OBVIOUS
    <3>3. IsFiniteSet(Calls)
      BY BudgetAssumption
    <3>4. Total(f) \in {0}
      BY <3>1, <3>2, <3>3, TotalType, Zenon
    <3> QED
      BY <3>4 DEF f
  <2> QED
    BY <2>1, <2>2 DEF Init, BooksBalance, NoReservation
<1> QED
  BY <1>1, <1>2, <1>3, <1>4 DEF BooksInv

\* A step that leaves the server's rows alone leaves the books balanced.
LEMMA ServerFrame ==
  ASSUME BooksInv, UNCHANGED serverVars
  PROVE  Unopened' /\ WithinLimit' /\ Recorded' /\ Blank' /\ OwnEntries' /\ BooksBalance'
<1> USE DEF BooksInv, serverVars
<1>1. Unopened' /\ WithinLimit' /\ Recorded' /\ Blank' /\ OwnEntries'
  BY DEF Unopened, WithinLimit, Committed, Recorded, Known, Unspent, Blank, OwnEntries
<1>2. \A kind, c : SumOf(kind)' = SumOf(kind) /\ SumFor(kind, c)' = SumFor(kind, c)
  BY DEF SumOf, SumFor, Amounts
<1>3. Total([c \in Calls |-> Unspent(c)])' = Total([c \in Calls |-> Unspent(c)])
  BY DEF Unspent
<1>4. BooksBalance'
  BY <1>2, <1>3 DEF BooksBalance
<1> QED
  BY <1>1, <1>4

LEMMA EnsureKeepsBooks ==
  ASSUME BooksInv, NEW limit \in Limits, EnsureBudgetAccount(limit)
  PROVE  BooksInv'
<1> USE DEF BooksInv, EnsureBudgetAccount
<1>1. TypeOK'
  BY BudgetAssumption, Zenon DEF TypeOK, Accounts
<1>2. Unopened' /\ WithinLimit'
  BY BudgetAssumption DEF TypeOK, Unopened, WithinLimit, Committed
<1>3. Recorded' /\ Listed' /\ Blank' /\ OwnEntries'
  BY DEF Recorded, Known, Listed, Unspent, Blank, OwnEntries
<1>4. /\ account'.reserved = account.reserved /\ account'.spent = account.spent
      /\ account'.refunded = account.refunded
  BY DEF TypeOK, Accounts
<1>5. \A kind, c : SumOf(kind)' = SumOf(kind) /\ SumFor(kind, c)' = SumFor(kind, c)
  BY DEF SumOf, SumFor, Amounts
<1>6. Total([c \in Calls |-> Unspent(c)])' = Total([c \in Calls |-> Unspent(c)])
  BY DEF Unspent
<1>7. BooksBalance'
  BY <1>4, <1>5, <1>6 DEF BooksBalance
<1> QED
  BY <1>1, <1>2, <1>3, <1>7

LEMMA RefundKeepsBooks ==
  ASSUME BooksInv, NEW f \in Refunds, NEW c \in Calls, NEW amount \in RefundAmounts,
         RefundBudgetSpend(f, c, amount)
  PROVE  BooksInv'
<1> DEFINE e == Entry("REFUND", f, c, amount)
<1>1. /\ e \in Entries /\ e.kind = "REFUND" /\ e.by = f /\ e.of = c /\ e.amount = amount
      /\ amount \in Nat
  BY BudgetAssumption DEF Entry, Entries
<1>2. /\ ledger' = ledger \cup {e} /\ account' = [account EXCEPT !.refunded = @ + amount]
      /\ UNCHANGED <<reservation, call, net, cleaner>> /\ ~Known("REFUND", f)
  BY DEF RefundBudgetSpend
<1>3. PICK d \in ledger : d.kind = "SPEND" /\ d.by = c /\ amount <= d.amount - RefundedOf(c)
  BY DEF RefundBudgetSpend
<1> HIDE DEF e
<1>4. TypeOK'
  BY <1>1, <1>2 DEF BooksInv, TypeOK, Accounts
<1>5. account.active
  BY <1>3 DEF BooksInv, Unopened
<1>6. /\ account'.reserved = account.reserved /\ account'.spent = account.spent
      /\ account'.refunded = account.refunded + amount
      /\ account'.active = account.active /\ account'.limit = account.limit
  BY <1>2 DEF BooksInv, TypeOK, Accounts
<1>7. Unopened' /\ WithinLimit'
  BY <1>1, <1>5, <1>6 DEF BooksInv, TypeOK, Accounts, Unopened, WithinLimit, Committed
<1>8. \A k \in Calls : Known("RESERVE", k)' <=> Known("RESERVE", k)
  BY <1>1, <1>2 DEF Known
<1>9. Recorded' /\ Listed' /\ Blank'
  BY <1>2, <1>8 DEF BooksInv, Recorded, Listed, Unspent, Blank
<1>10. OwnEntries'
  BY <1>1, <1>2, FiniteAdd, Zenon DEF BooksInv, OwnEntries
<1>11. BooksBalance'
  <2>1. e \notin ledger
    BY <1>1, <1>2 DEF Known
  <2>2. ledger \subseteq Entries /\ IsFiniteSet(ledger)
    BY DEF BooksInv, TypeOK, OwnEntries
  <2>4. \A kind, k : SumOf(kind) \in Nat /\ SumFor(kind, k) \in Nat
    BY <2>2, LedgerSumsType
  <2>5. d.amount <= SumFor("SPEND", c) /\ d.amount \in Nat
    <3> DEFINE S == {b \in ledger : b.kind = "SPEND" /\ b.of = c}
    <3>1. S \subseteq Entries /\ IsFiniteSet(S) /\ d \in S
      BY <1>3, <2>2, FiniteSubset DEF BooksInv, OwnEntries
    <3> HIDE DEF S
    <3>2. d.amount <= Amounts(S)
      BY <3>1, AmountsBound
    <3> QED
      BY <2>2, <3>2 DEF SumFor, S, Entries
  <2>6. SumFor("REFUND", c) + amount <= SumFor("SPEND", c)
    <3>1. RefundedOf(c) = SumFor("REFUND", c)
      BY DEF RefundedOf, SumFor
    <3> QED
      BY <1>1, <1>3, <2>4, <2>5, <3>1
  <2>7. Total([k \in Calls |-> Unspent(k)])' = Total([k \in Calls |-> Unspent(k)])
    BY <1>2 DEF Unspent
  <2>8. /\ SumOf("SPEND")' = SumOf("SPEND") /\ SumOf("REFUND")' = SumOf("REFUND") + amount
        /\ SumFor("REFUND", c)' = SumFor("REFUND", c) + amount
        /\ \A k : /\ SumFor("RESERVE", k)' = SumFor("RESERVE", k)
                  /\ SumFor("SPEND", k)' = SumFor("SPEND", k)
                  /\ SumFor("RELEASE", k)' = SumFor("RELEASE", k)
                  /\ SumFor("STOP", k)' = SumFor("STOP", k)
                  /\ k # c => SumFor("REFUND", k)' = SumFor("REFUND", k)
    BY <1>1, <1>2, <2>1, <2>2, SumsGrow
  <2>9. \A k \in Calls : SumFor("REFUND", k)' <= SumFor("SPEND", k)'
    BY <2>4, <2>6, <2>8 DEF BooksInv, BooksBalance
  <2> QED
    BY <1>2, <1>6, <2>7, <2>8, <2>9 DEF BooksInv, BooksBalance
<1> QED
  BY <1>4, <1>7, <1>9, <1>10, <1>11 DEF BooksInv

\* The entry of a request that is not a replay is new.
LEMMA BookedEntry ==
  ASSUME BooksInv, NEW r \in net, ~Known(r.kind, r.call), Apply(r)
  PROVE  /\ OwnEntries'
         /\ \A kind : /\ SumOf(kind) \in Nat
                      /\ kind # r.kind => SumOf(kind)' = SumOf(kind)
                      /\ kind = r.kind => SumOf(kind)' = SumOf(kind) + r.amount
         /\ \A kind, d : /\ SumFor(kind, d) \in Nat
                         /\ kind # r.kind \/ d # r.call => SumFor(kind, d)' = SumFor(kind, d)
                         /\ kind = r.kind /\ d = r.call =>
                              SumFor(kind, d)' = SumFor(kind, d) + r.amount
<1> DEFINE e == Entry(r.kind, r.call, r.call, r.amount)
<1>1. e \in Entries /\ e.kind = r.kind /\ e.by = r.call /\ e.of = r.call /\ e.amount = r.amount
  BY DEF Entry, Entries, BooksInv, TypeOK, Requests
<1>2. ledger' = ledger \cup {e}
  BY Booked, Zenon
<1>3. e \notin ledger /\ ledger \subseteq Entries /\ IsFiniteSet(ledger)
  BY <1>1 DEF Known, BooksInv, TypeOK, OwnEntries
<1> HIDE DEF e
<1>4. OwnEntries'
  BY <1>1, <1>2, FiniteAdd, Zenon DEF BooksInv, OwnEntries
<1>5. \A kind, d : SumOf(kind) \in Nat /\ SumFor(kind, d) \in Nat
  BY <1>3, LedgerSumsType
<1> QED
  BY <1>1, <1>2, <1>3, <1>4, <1>5, SumsGrow

\* What is reserved stays the sum of what is left of the reservations.
LEMMA BookedReserved ==
  ASSUME BooksInv, NEW r \in net, ~Known(r.kind, r.call), Apply(r)
  PROVE  account'.reserved = Total([d \in Calls |-> Unspent(d)])'
<1> DEFINE f == [d \in Calls |-> Unspent(d)]
           k == [d \in Calls |-> Unspent(d)']
<1>1. r.call \in Calls /\ r.amount \in Nat
  BY DEF BooksInv, TypeOK, Requests
<1>2. /\ reservation' \in [Calls -> Reservations]
      /\ \A d \in Calls \ {r.call} : reservation'[d] = reservation[d]
  BY Booked, Zenon
<1>3. /\ f \in [Calls -> Int] /\ k \in [Calls -> Int]
      /\ f[r.call] = Unspent(r.call) /\ k[r.call] = Unspent(r.call)'
  BY <1>1, <1>2 DEF BooksInv, TypeOK, Reservations, Unspent
<1>4. \A d \in Calls \ {r.call} : k[d] = f[d]
  BY <1>2 DEF Unspent
<1>5. account.reserved = Total(f) /\ account.reserved \in Int
  BY DEF BooksInv, BooksBalance, TypeOK, Accounts
<1>6. Total([d \in Calls |-> Unspent(d)])' = Total(k)
  OBVIOUS
<1> HIDE DEF f, k
<1>7. Total(k) = Total(f) + (k[r.call] - f[r.call])
  BY <1>1, <1>3, <1>4, TotalChanged, BudgetAssumption
<1>8. account'.reserved = account.reserved + (Unspent(r.call)' - Unspent(r.call))
  <2>1. CASE r.kind = "RESERVE"
    <3>1. /\ reservation[r.call] = NoReservation
          /\ reservation'[r.call] =
               [status |-> "OPEN", amount |-> r.amount, spent |-> 0, released |-> 0]
          /\ account'.reserved = account.reserved + r.amount
      BY <1>1, <2>1, Booked DEF BooksInv, Blank
    <3>2. Unspent(r.call) = 0
      <4>1. /\ reservation[r.call].amount = 0
            /\ reservation[r.call].spent = 0 /\ reservation[r.call].released = 0
        BY <3>1 DEF NoReservation
      <4> QED
        BY <4>1 DEF Unspent
    <3>3. Unspent(r.call)' = r.amount
      <4>1. /\ reservation'[r.call].amount = r.amount
            /\ reservation'[r.call].spent = 0 /\ reservation'[r.call].released = 0
        BY <3>1
      <4> QED
        BY <1>1, <4>1 DEF Unspent
    <3> QED
      BY <1>1, <1>5, <3>1, <3>2, <3>3
  <2>2. CASE r.kind # "RESERVE"
    <3>1. /\ Unspent(r.call)' = Unspent(r.call) - r.amount
          /\ account'.reserved = account.reserved - r.amount
      BY <2>2, Booked, Zenon
    <3>2. Unspent(r.call) \in Int
      BY <1>1 DEF BooksInv, TypeOK, Reservations, Unspent
    <3> QED
      BY <1>1, <1>5, <3>1, <3>2
  <2> QED
    BY <2>1, <2>2
<1> QED
  BY <1>3, <1>5, <1>6, <1>7, <1>8

\* The row of the reservation stays the sums of its entries.
LEMMA BookedRow ==
  ASSUME BooksInv, NEW r \in net, ~Known(r.kind, r.call), Apply(r)
  PROVE  /\ reservation'[r.call].amount = SumFor("RESERVE", r.call)'
         /\ reservation'[r.call].spent = SumFor("SPEND", r.call)'
         /\ reservation'[r.call].released = SumFor("RELEASE", r.call)' + SumFor("STOP", r.call)'
<1> DEFINE x == reservation[r.call]
           y == reservation'[r.call]
<1>1. /\ r.call \in Calls /\ r.amount \in Nat
      /\ r.kind \in {"RESERVE", "SPEND", "RELEASE", "STOP"}
  BY DEF BooksInv, TypeOK, Requests
<1>2. /\ x.amount = SumFor("RESERVE", r.call) /\ x.spent = SumFor("SPEND", r.call)
      /\ x.released = SumFor("RELEASE", r.call) + SumFor("STOP", r.call)
  BY <1>1 DEF BooksInv, BooksBalance
<1>3. /\ \A kind : kind # r.kind => SumFor(kind, r.call)' = SumFor(kind, r.call)
      /\ SumFor(r.kind, r.call)' = SumFor(r.kind, r.call) + r.amount
      /\ \A kind : SumFor(kind, r.call) \in Nat
  BY BookedEntry
<1>4. CASE r.kind = "RESERVE"
  <2>1. x = NoReservation /\ y.amount = r.amount /\ y.spent = 0 /\ y.released = 0
    <3>1. /\ reservation[r.call] = NoReservation
          /\ reservation'[r.call] =
               [status |-> "OPEN", amount |-> r.amount, spent |-> 0, released |-> 0]
      BY <1>1, <1>4, Booked DEF BooksInv, Blank
    <3> QED
      BY <3>1
  <2>2. x.amount = 0 /\ x.spent = 0 /\ x.released = 0
    BY <2>1 DEF NoReservation
  <2> QED
    BY <1>1, <1>2, <1>3, <1>4, <2>1, <2>2
<1>5. CASE r.kind # "RESERVE"
  <2>1. /\ y.amount = x.amount
        /\ y.spent = x.spent + (IF r.kind = "SPEND" THEN r.amount ELSE 0)
        /\ y.released = x.released + (IF r.kind = "SPEND" THEN 0 ELSE r.amount)
    BY <1>5, Booked, Zenon
  <2> QED
    BY <1>1, <1>2, <1>3, <1>5, <2>1
<1> QED
  BY <1>4, <1>5

\* A request that is not a replay keeps the books balanced: its entry is what
\* the counters change by.
LEMMA BookedBalances ==
  ASSUME BooksInv, NEW r \in net, ~Known(r.kind, r.call), Apply(r)
  PROVE  Blank' /\ OwnEntries' /\ BooksBalance'
<1>1. /\ r.call \in Calls /\ r.amount \in Nat
      /\ r.kind \in {"RESERVE", "SPEND", "RELEASE", "STOP"}
  BY DEF BooksInv, TypeOK, Requests
<1>2. /\ account'.refunded = account.refunded
      /\ \A d \in Calls \ {r.call} : reservation'[d] = reservation[d]
  BY Booked, Zenon
<1>3. Blank'
  <2>1. r.kind # "RESERVE" => reservation'[r.call].status # "NONE"
    BY Booked, Zenon
  <2>2. ASSUME r.kind = "RESERVE" PROVE reservation'[r.call].status # "NONE"
    <3>1. reservation'[r.call] =
            [status |-> "OPEN", amount |-> r.amount, spent |-> 0, released |-> 0]
      BY <2>2, Booked
    <3> QED
      BY <3>1
  <2> QED
    BY <1>2, <2>1, <2>2 DEF BooksInv, Blank
<1>4. account'.spent = SumOf("SPEND")' /\ account'.refunded = SumOf("REFUND")'
  <2>1. account.spent = SumOf("SPEND") /\ account.refunded = SumOf("REFUND")
    BY DEF BooksInv, BooksBalance
  <2>2. /\ SumOf("REFUND")' = SumOf("REFUND") /\ SumOf("SPEND") \in Nat
        /\ SumOf("SPEND")' = SumOf("SPEND") + (IF r.kind = "SPEND" THEN r.amount ELSE 0)
    BY <1>1, BookedEntry
  <2>3. account'.spent = account.spent + (IF r.kind = "SPEND" THEN r.amount ELSE 0)
    <3>1. r.kind = "RESERVE" => account'.spent = account.spent
      BY Booked, Zenon
    <3>2. r.kind # "RESERVE" =>
            account'.spent = account.spent + (IF r.kind = "SPEND" THEN r.amount ELSE 0)
      BY Booked, Zenon
    <3> QED
      BY <2>1, <2>2, <3>1, <3>2
  <2> QED
    BY <1>2, <2>1, <2>2, <2>3
<1>5. ASSUME NEW d \in Calls
      PROVE  /\ reservation'[d].amount = SumFor("RESERVE", d)'
             /\ reservation'[d].spent = SumFor("SPEND", d)'
             /\ reservation'[d].released = SumFor("RELEASE", d)' + SumFor("STOP", d)'
  <2>1. CASE d = r.call
    BY <2>1, BookedRow
  <2>2. CASE d # r.call
    <3>1. \A kind : SumFor(kind, d)' = SumFor(kind, d)
      BY <2>2, BookedEntry
    <3>2. reservation'[d] = reservation[d]
      BY <1>2, <2>2
    <3> QED
      BY <3>1, <3>2 DEF BooksInv, BooksBalance
  <2> QED
    BY <2>1, <2>2
<1>6. ASSUME NEW d \in Calls PROVE SumFor("REFUND", d)' <= SumFor("SPEND", d)'
  <2>1. /\ SumFor("REFUND", d)' = SumFor("REFUND", d) /\ SumFor("REFUND", d) \in Nat
        /\ SumFor("SPEND", d) \in Nat
        /\ \/ SumFor("SPEND", d)' = SumFor("SPEND", d)
           \/ SumFor("SPEND", d)' = SumFor("SPEND", d) + r.amount
    BY <1>1, BookedEntry
  <2>2. SumFor("REFUND", d) <= SumFor("SPEND", d)
    BY DEF BooksInv, BooksBalance
  <2> QED
    BY <1>1, <2>1, <2>2
<1>7. BooksBalance'
  BY <1>4, <1>5, <1>6, BookedReserved DEF BooksBalance
<1> QED
  BY <1>3, <1>7, BookedEntry
=============================================================================
